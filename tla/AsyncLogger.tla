----------------------------- MODULE AsyncLogger ----------------------------
(***************************************************************************)
(* AsyncLogger.cpp: the queue of the debug log, its worker thread, and the *)
(* quiescence that DllCanUnloadNow asks for.  A region under m_mutex is    *)
(* one action.  m_cv is shared by the worker and by the callers that wait  *)
(* for the worker to stop, so notify_one may wake the wrong one: who       *)
(* sleeps on m_cv is part of the state.                                    *)
(***************************************************************************)
EXTENDS Naturals, Sequences, FiniteSets

CONSTANTS
    Threads,        \* the threads that call the logger
    MaxStarts,      \* bound: workers started
    Faults          \* "startFails", "workerFails": what may go wrong

ASSUME LoggerAssumption == MaxStarts \in Nat

VARIABLES
    logger,         \* m_state, m_admission, m_stopRequested,
                    \* m_resumeWhenStopped and m_worker (0: not joinable)
    queue,          \* m_queue
    worker,         \* where each started worker stands
    hand,           \* the message each worker has taken and not written
    file,           \* the worker m_file is open for, 0 when it is closed
    pc,             \* where each calling thread stands
    handle,         \* its local completedWorker, 0 when it has none
    accepted,       \* history: messages pushed so far
    written,        \* history: what the log file holds
    crashed         \* history: std::terminate was called

loggerVars == <<logger, queue, worker, hand, file, accepted, written, crashed>>

Workers == 1..MaxStarts

WorkerPlace == {"unborn", "check", "asleep", "deliver", "cleanup", "settle",
                "notify", "ended"}

LoggerTypeOK ==
    /\ logger \in [state : {"Stopped", "Running", "Draining", "StopFailed"},
                   admission : {"Open", "Quiescent"}, stopRequested : BOOLEAN,
                   resumeWhenStopped : BOOLEAN, worker : 0..MaxStarts]
    /\ queue \in Seq(Nat)
    /\ worker \in [Workers -> WorkerPlace]
    /\ hand \in [Workers -> Nat]
    /\ file \in 0..MaxStarts
    /\ handle \in [Threads -> 0..MaxStarts]
    /\ accepted \in Nat
    /\ written \in Seq(Nat)
    /\ crashed \in BOOLEAN

LoggerInit ==
    /\ logger = [state |-> "Stopped", admission |-> "Open", stopRequested |-> FALSE,
                 resumeWhenStopped |-> FALSE, worker |-> 0]
    /\ queue = <<>>
    /\ worker = [w \in Workers |-> "unborn"]
    /\ hand = [w \in Workers |-> 0]
    /\ file = 0
    /\ handle = [t \in Threads |-> 0]
    /\ accepted = 0
    /\ written = <<>>
    /\ crashed = FALSE

At(t, place) == pc[t] = place

Goto(t, place) == pc' = [pc EXCEPT ![t] = place]

Started == {w \in Workers : worker[w] # "unborn"}

Live == {w \in Started : worker[w] # "ended"}

Joined(t) == handle[t] \notin Live

Stopped == logger.state \in {"Stopped", "StopFailed"}
-----------------------------------------------------------------------------
(* m_cv: a set of sleepers, all of them or any one of them woken. *)

Awake(place) == IF place = "asleep" THEN "check" ELSE place

AwakeWaiter(place) == IF place = "quiesceAsleep" THEN "quiesceCheck" ELSE place

Sleepers == {w \in Workers : worker[w] = "asleep"}

SleepingThreads(places) == {t \in Threads : places[t] = "quiesceAsleep"}

\* notify_all by a thread that itself goes on at places[t].
NotifyAll(workers, places) ==
    /\ worker' = [w \in Workers |-> Awake(workers[w])]
    /\ pc' = [t \in Threads |-> AwakeWaiter(places[t])]

NotifyOne(places) ==
    \/ /\ Sleepers \cup SleepingThreads(places) = {}
       /\ worker' = worker
       /\ pc' = places
    \/ \E w \in Sleepers :
          /\ worker' = [worker EXCEPT ![w] = "check"]
          /\ pc' = places
    \/ \E t \in SleepingThreads(places) :
          /\ worker' = worker
          /\ pc' = [places EXCEPT ![t] = "quiesceCheck"]
-----------------------------------------------------------------------------
(* Log: "log" before the lock, "logJoin" while it joins a stopped worker,  *)
(* "logAgain" after that, "logNotify" after the push; then place "logged". *)

Refuses == logger.admission # "Open" \/ logger.state = "StopFailed"

\* StartLocked, and the move assignment to a handle that is still joinable.
StartWorker(w) ==
    /\ Started = 1..(w - 1)
    /\ worker' = [worker EXCEPT ![w] = "check"]
    /\ logger' = [logger EXCEPT !.state = "Running", !.stopRequested = FALSE, !.worker = w]
    /\ file' = w
    /\ crashed' = (logger.worker # 0)

Push ==
    /\ accepted' = accepted + 1
    /\ queue' = Append(queue, accepted + 1)

LogRefused(t) ==
    /\ At(t, "log") \/ At(t, "logAgain")
    /\ Refuses \/ logger.state = "Draining"
    /\ Goto(t, "logged")
    /\ UNCHANGED <<loggerVars, handle>>

LogJoinsCompletedWorker(t) ==
    /\ At(t, "log") /\ ~Refuses
    /\ logger.state = "Stopped" /\ logger.worker # 0
    /\ handle' = [handle EXCEPT ![t] = logger.worker]
    /\ logger' = [logger EXCEPT !.worker = 0]
    /\ Goto(t, "logJoin")
    /\ UNCHANGED <<queue, worker, hand, file, accepted, written, crashed>>

LogJoined(t) ==
    /\ At(t, "logJoin") /\ Joined(t)
    /\ handle' = [handle EXCEPT ![t] = 0]
    /\ Goto(t, "logAgain")
    /\ UNCHANGED loggerVars

LogStarts(t) ==
    /\ \/ At(t, "log") /\ logger.worker = 0
       \/ At(t, "logAgain")
    /\ ~Refuses /\ logger.state = "Stopped"
    /\ \/ /\ \E w \in Workers : StartWorker(w)
          /\ Push
          /\ Goto(t, "logNotify")
       \/ /\ "startFails" \in Faults
          /\ Goto(t, "logged")
          /\ UNCHANGED <<logger, worker, file, crashed, queue, accepted>>
    /\ UNCHANGED <<hand, written, handle>>

LogPushes(t) ==
    /\ At(t, "log") \/ At(t, "logAgain")
    /\ ~Refuses /\ logger.state = "Running"
    /\ Push
    /\ Goto(t, "logNotify")
    /\ UNCHANGED <<logger, worker, hand, file, handle, written, crashed>>

LogNotifies(t) ==
    /\ At(t, "logNotify")
    /\ NotifyOne([pc EXCEPT ![t] = "logged"])
    /\ UNCHANGED <<logger, queue, hand, file, handle, accepted, written, crashed>>

Log(t) ==
    \/ LogRefused(t) \/ LogJoinsCompletedWorker(t) \/ LogJoined(t)
    \/ LogStarts(t) \/ LogPushes(t) \/ LogNotifies(t)
-----------------------------------------------------------------------------
(* WorkerThread. *)

\* Mutant: a stop request is obeyed before the queue is empty.
WorkerStopsAtOnce(w) ==
    /\ worker[w] = "check"
    /\ IF logger.stopRequested \/ queue = <<>>
       THEN /\ worker' = [worker EXCEPT ![w] = IF logger.stopRequested THEN "cleanup"
                                               ELSE "asleep"]
            /\ UNCHANGED <<hand, queue>>
       ELSE /\ hand' = [hand EXCEPT ![w] = Head(queue)]
            /\ queue' = Tail(queue)
            /\ worker' = [worker EXCEPT ![w] = "deliver"]
    /\ UNCHANGED <<logger, file, pc, handle, accepted, written, crashed>>

\* Mutant: the worker is Stopped as soon as it leaves its loop.
WorkerStopsEarly(w) ==
    /\ worker[w] = "check"
    /\ IF queue # <<>>
       THEN /\ hand' = [hand EXCEPT ![w] = Head(queue)]
            /\ queue' = Tail(queue)
            /\ worker' = [worker EXCEPT ![w] = "deliver"]
            /\ UNCHANGED logger
       ELSE /\ worker' = [worker EXCEPT ![w] = IF logger.stopRequested THEN "cleanup"
                                               ELSE "asleep"]
            /\ logger' = IF logger.stopRequested THEN [logger EXCEPT !.state = "Stopped"]
                         ELSE logger
            /\ UNCHANGED <<hand, queue>>
    /\ UNCHANGED <<file, pc, handle, accepted, written, crashed>>

\* The wait and the pop, one region: "continue" on an empty queue without a
\* stop request is the wait itself.
WorkerTakes(w) ==
    /\ worker[w] = "check"
    /\ IF queue # <<>>
       THEN /\ hand' = [hand EXCEPT ![w] = Head(queue)]
            /\ queue' = Tail(queue)
            /\ worker' = [worker EXCEPT ![w] = "deliver"]
       ELSE /\ worker' = [worker EXCEPT ![w] = IF logger.stopRequested THEN "cleanup"
                                               ELSE "asleep"]
            /\ UNCHANGED <<hand, queue>>
    /\ UNCHANGED <<logger, file, pc, handle, accepted, written, crashed>>

\* DeliverMessageNoexcept: a closed file swallows the message.
WorkerDelivers(w) ==
    /\ worker[w] = "deliver"
    /\ written' = IF file = w THEN Append(written, hand[w]) ELSE written
    /\ hand' = [hand EXCEPT ![w] = 0]
    /\ worker' = [worker EXCEPT ![w] = "check"]
    /\ UNCHANGED <<logger, queue, file, pc, handle, accepted, crashed>>

\* The catch block around the loop.
WorkerFails(w) ==
    /\ "workerFails" \in Faults
    /\ worker[w] = "check"
    /\ logger' = [logger EXCEPT !.state = IF @ \in {"Running", "Draining"}
                                          THEN "StopFailed" ELSE @]
    /\ NotifyAll([worker EXCEPT ![w] = "cleanup"], pc)
    /\ UNCHANGED <<queue, hand, file, handle, accepted, written, crashed>>

\* CleanupFileStreamNoexcept(true) closes whatever m_file is open for.
WorkerCleansUp(w) ==
    /\ worker[w] = "cleanup"
    /\ file' = 0
    /\ worker' = [worker EXCEPT ![w] = "settle"]
    /\ UNCHANGED <<logger, queue, hand, pc, handle, accepted, written, crashed>>

\* Mutant: the owed reopening is forgotten.
SettlesWithoutResuming(l) ==
    IF l.state = "Draining" THEN [l EXCEPT !.state = "Stopped"] ELSE l

SettledLogger(l) ==
    IF l.state # "Draining" THEN l
    ELSE IF l.resumeWhenStopped
         THEN [l EXCEPT !.state = "Stopped", !.resumeWhenStopped = FALSE,
                        !.stopRequested = FALSE, !.admission = "Open"]
         ELSE [l EXCEPT !.state = "Stopped"]

WorkerSettles(w) ==
    /\ worker[w] = "settle"
    /\ logger' = SettledLogger(logger)
    /\ worker' = [worker EXCEPT ![w] = "notify"]
    /\ UNCHANGED <<queue, hand, file, pc, handle, accepted, written, crashed>>

WorkerEnds(w) ==
    /\ worker[w] = "notify"
    /\ NotifyAll([worker EXCEPT ![w] = "ended"], pc)
    /\ UNCHANGED <<logger, queue, hand, file, handle, accepted, written, crashed>>

WorkerThread(w) ==
    \/ WorkerTakes(w) \/ WorkerDelivers(w) \/ WorkerFails(w)
    \/ WorkerCleansUp(w) \/ WorkerSettles(w) \/ WorkerEnds(w)
-----------------------------------------------------------------------------
(* BeginUnloadQuiescence: "quiesce", "quiesceNotify" between its two locked *)
(* regions, "quiesceCheck" and "quiesceAsleep" in wait_for, "quiesceJoin";  *)
(* then "quiesced" when it returns true and "unquiesced" when false.        *)

\* The end of the function, entered with the mutex held and l just written.
AwaitStopped(t, l) ==
    \/ /\ l.state = "Stopped"
       /\ handle' = [handle EXCEPT ![t] = l.worker]
       /\ logger' = [l EXCEPT !.worker = 0]
       /\ Goto(t, "quiesceJoin")
    \/ /\ l.state = "StopFailed"
       /\ logger' = l
       /\ Goto(t, "unquiesced")
       /\ UNCHANGED handle
    \/ /\ l.state \in {"Running", "Draining"}
       /\ logger' = l
       /\ Goto(t, "quiesceAsleep")
       /\ UNCHANGED handle

QuiesceBegins(t) ==
    LET quiescent == [logger EXCEPT !.admission = "Quiescent", !.resumeWhenStopped = FALSE]
    IN /\ At(t, "quiesce")
       /\ IF logger.state = "Running"
          THEN /\ logger' = [quiescent EXCEPT !.state = "Draining", !.stopRequested = TRUE]
               /\ Goto(t, "quiesceNotify")
               /\ UNCHANGED handle
          ELSE AwaitStopped(t, quiescent)
       /\ UNCHANGED <<queue, worker, hand, file, accepted, written, crashed>>

QuiesceNotifies(t) ==
    /\ At(t, "quiesceNotify")
    /\ NotifyAll(worker, [pc EXCEPT ![t] = "quiesceCheck"])
    /\ UNCHANGED <<logger, queue, hand, file, handle, accepted, written, crashed>>

QuiesceChecks(t) ==
    /\ At(t, "quiesceCheck")
    /\ AwaitStopped(t, logger)
    /\ UNCHANGED <<queue, worker, hand, file, accepted, written, crashed>>

\* The 250 ms are over while the predicate is still false.
QuiesceTimesOut(t) ==
    /\ At(t, "quiesceAsleep")
    /\ ~Stopped
    /\ logger' = [logger EXCEPT !.resumeWhenStopped = TRUE]
    /\ Goto(t, "unquiesced")
    /\ UNCHANGED <<queue, worker, hand, file, handle, accepted, written, crashed>>

QuiesceJoins(t) ==
    /\ At(t, "quiesceJoin") /\ Joined(t)
    /\ handle' = [handle EXCEPT ![t] = 0]
    /\ Goto(t, "quiesced")
    /\ UNCHANGED loggerVars

BeginUnloadQuiescence(t) ==
    \/ QuiesceBegins(t) \/ QuiesceNotifies(t) \/ QuiesceChecks(t)
    \/ QuiesceTimesOut(t) \/ QuiesceJoins(t)
-----------------------------------------------------------------------------
(* ResumeAfterUnloadRejected: "resume", "resumeJoin" and "resumeNotify";   *)
(* then "resumed".                                                         *)

ResumeBegins(t) ==
    /\ At(t, "resume")
    /\ IF logger.state = "Stopped"
       THEN /\ handle' = [handle EXCEPT ![t] = logger.worker]
            /\ logger' = [logger EXCEPT !.worker = 0]
            /\ Goto(t, "resumeJoin")
       ELSE /\ Goto(t, "resumed")
            /\ UNCHANGED <<logger, handle>>
    /\ UNCHANGED <<queue, worker, hand, file, accepted, written, crashed>>

\* m_state is not looked at again after the join.
ResumeReopens(t) ==
    /\ At(t, "resumeJoin") /\ Joined(t)
    /\ handle' = [handle EXCEPT ![t] = 0]
    /\ logger' = [logger EXCEPT !.stopRequested = FALSE, !.resumeWhenStopped = FALSE,
                                !.admission = "Open"]
    /\ Goto(t, "resumeNotify")
    /\ UNCHANGED <<queue, worker, hand, file, accepted, written, crashed>>

ResumeNotifies(t) ==
    /\ At(t, "resumeNotify")
    /\ NotifyAll(worker, [pc EXCEPT ![t] = "resumed"])
    /\ UNCHANGED <<logger, queue, hand, file, handle, accepted, written, crashed>>

ResumeAfterUnloadRejected(t) ==
    ResumeBegins(t) \/ ResumeReopens(t) \/ ResumeNotifies(t)
=============================================================================
