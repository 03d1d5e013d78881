------------------------------ MODULE DllUnload -----------------------------
(***************************************************************************)
(* dllmain.cpp over DllEntryAdmission and AsyncLogger, in a debug build:   *)
(* threads that call DllGetClassObject, use and release the objects it     *)
(* gave them, while COM asks DllCanUnloadNow.                              *)
(***************************************************************************)
EXTENDS AsyncLogger

CONSTANTS
    Activators,     \* threads that activate classes and use objects
    Unloaders,      \* threads that call DllCanUnloadNow
    MaxCalls,       \* bound: DllGetClassObject and CreateInstance calls
    MaxUnloads      \* bound: DllCanUnloadNow calls

ASSUME UnloadAssumption ==
    /\ Threads = Activators \cup Unloaders
    /\ Activators \cap Unloaders = {}
    /\ MaxCalls \in Nat /\ MaxUnloads \in Nat

VARIABLES
    admission,      \* g_dllEntryAdmission.m_state
    entered,        \* the threads that hold a lease (m_entryCount of them)
    objects,        \* live objects per thread: winrt::get_module_lock()
    calls, unloads, \* bounds
    late            \* history: entered since the gate closed, per unloader

vars == <<loggerVars, pc, handle, admission, entered, objects, calls, unloads, late>>

gateVars == <<admission, entered, late>>
clientVars == <<objects, calls, unloads>>

Place == {"out", "log", "logJoin", "logAgain", "logNotify", "logged",
          "quiesce", "quiesceNotify", "quiesceCheck", "quiesceAsleep", "quiesceJoin",
          "quiesced", "unquiesced", "resume", "resumeJoin", "resumeNotify", "resumed",
          "close", "drain", "lock", "reopen", "approved"}

moduleLock == \E t \in Activators : objects[t] # 0

TypeOK ==
    /\ LoggerTypeOK
    /\ pc \in [Threads -> Place]
    /\ admission \in {"Open", "Closing"}
    /\ entered \in SUBSET Activators
    /\ objects \in [Activators -> 0..MaxCalls]
    /\ calls \in 0..MaxCalls /\ unloads \in 0..MaxUnloads
    /\ late \in [Unloaders -> SUBSET Activators]

Init ==
    /\ LoggerInit
    /\ pc = [t \in Threads |-> "out"]
    /\ admission = "Open"
    /\ entered = {}
    /\ objects = [t \in Activators |-> 0]
    /\ calls = 0 /\ unloads = 0
    /\ late = [u \in Unloaders |-> {}]
-----------------------------------------------------------------------------
(* DllGetClassObject and what a client does with its result. *)

\* EnterOrReopen.
Enters(t) ==
    /\ At(t, "out") /\ calls < MaxCalls
    /\ calls' = calls + 1
    /\ entered' = entered \cup {t}
    /\ late' = [u \in Unloaders |-> late[u] \cup {t}]
    /\ admission' = "Open"
    /\ Goto(t, IF admission = "Closing" THEN "resume" ELSE "log")
    /\ UNCHANGED <<loggerVars, handle, objects, unloads>>

ResumedInEntry(t) ==
    /\ At(t, "resumed")
    /\ Goto(t, "log")
    /\ UNCHANGED <<loggerVars, handle, gateVars, clientVars>>

\* The factory is published, or not (unknown class, no memory), and then the
\* lease goes.  A CLSID mismatch is logged once more, which is left out.
Leaves(t) ==
    /\ At(t, "logged") /\ t \in entered
    /\ entered' = entered \ {t}
    /\ \E made \in {0, 1} : objects' = [objects EXCEPT ![t] = @ + made]
    /\ Goto(t, "out")
    /\ UNCHANGED <<loggerVars, handle, admission, late, calls, unloads>>

\* CreateInstance of a factory the client still holds logs without a lease.
Uses(t) ==
    /\ At(t, "out") /\ objects[t] # 0 /\ calls < MaxCalls
    /\ calls' = calls + 1
    /\ Goto(t, "log")
    /\ UNCHANGED <<loggerVars, handle, gateVars, objects, unloads>>

Used(t) ==
    /\ At(t, "logged") /\ t \notin entered
    /\ \E made \in {0, 1} : objects' = [objects EXCEPT ![t] = @ + made]
    /\ Goto(t, "out")
    /\ UNCHANGED <<loggerVars, handle, gateVars, calls, unloads>>

Releases(t) ==
    /\ At(t, "out") /\ objects[t] # 0
    /\ objects' = [objects EXCEPT ![t] = @ - 1]
    /\ UNCHANGED <<loggerVars, pc, handle, gateVars, calls, unloads>>

\* What the client starts, and what the library then has to finish.
ClientCalls(t) == Enters(t) \/ Uses(t) \/ Releases(t)

EntryRuns(t) ==
    \/ ResumedInEntry(t) \/ Leaves(t) \/ Used(t)
    \/ (Log(t) \/ ResumeAfterUnloadRejected(t)) /\ UNCHANGED <<gateVars, clientVars>>
-----------------------------------------------------------------------------
(* DllCanUnloadNow: S_FALSE goes back to "out", S_OK to "approved". *)

Asks(u) ==
    /\ At(u, "out") \/ At(u, "approved")
    /\ unloads < MaxUnloads
    /\ unloads' = unloads + 1
    /\ Goto(u, IF moduleLock THEN "out" ELSE "close")
    /\ UNCHANGED <<loggerVars, handle, gateVars, objects, calls>>

\* Mutant: the gate closes, the entries already inside are not waited for.
ClosesWithoutDraining(u) ==
    /\ At(u, "close") /\ admission = "Open"
    /\ admission' = "Closing"
    /\ late' = [late EXCEPT ![u] = {}]
    /\ Goto(u, "quiesce")
    /\ UNCHANGED <<loggerVars, handle, entered, clientVars>>

\* BeginClosingAndWaitForEntries up to its wait.
Closes(u) ==
    /\ At(u, "close")
    /\ IF admission = "Open"
       THEN /\ admission' = "Closing"
            /\ late' = [late EXCEPT ![u] = {}]
            /\ Goto(u, IF entered = {} THEN "quiesce" ELSE "drain")
       ELSE /\ Goto(u, "out")
            /\ UNCHANGED <<admission, late>>
    /\ UNCHANGED <<loggerVars, handle, entered, clientVars>>

EntriesDrained(u) ==
    /\ At(u, "drain") /\ entered = {}
    /\ Goto(u, "quiesce")
    /\ UNCHANGED <<loggerVars, handle, gateVars, clientVars>>

DrainTimesOut(u) ==
    /\ At(u, "drain") /\ entered # {}
    /\ admission' = "Open"
    /\ Goto(u, "out")
    /\ UNCHANGED <<loggerVars, handle, entered, late, clientVars>>

ChecksLockAgain(u) ==
    /\ At(u, "quiesced")
    /\ Goto(u, IF moduleLock THEN "resume" ELSE "approved")
    /\ UNCHANGED <<loggerVars, handle, gateVars, clientVars>>

Reopens(u) ==
    /\ At(u, "unquiesced") \/ At(u, "resumed")
    /\ admission' = "Open"
    /\ Goto(u, "out")
    /\ UNCHANGED <<loggerVars, handle, entered, late, clientVars>>

UnloadRuns(u) ==
    \/ Closes(u) \/ EntriesDrained(u) \/ DrainTimesOut(u)
    \/ ChecksLockAgain(u) \/ Reopens(u)
    \/ /\ BeginUnloadQuiescence(u) \/ ResumeAfterUnloadRejected(u)
       /\ UNCHANGED <<gateVars, clientVars>>

LoggerRuns(w) == WorkerThread(w) /\ UNCHANGED <<gateVars, clientVars>>

Next ==
    /\ ~crashed
    /\ \/ \E t \in Activators : ClientCalls(t) \/ EntryRuns(t)
       \/ \E u \in Unloaders : Asks(u) \/ UnloadRuns(u)
       \/ \E w \in Workers : LoggerRuns(w)

\* The scheduler runs every thread that is inside the library; what a client
\* or COM calls next, and when, is its own choice.
Fairness ==
    /\ \A t \in Activators : WF_vars(~crashed /\ EntryRuns(t))
    /\ \A u \in Unloaders : WF_vars(~crashed /\ UnloadRuns(u))
    /\ \A w \in Workers : WF_vars(~crashed /\ LoggerRuns(w))

Spec == Init /\ [][Next]_vars

FairSpec == Spec /\ Fairness
-----------------------------------------------------------------------------
(* Properties. *)

InHand == {hand[w] : w \in Workers} \ {0}

\* Across workers that stop, fail and are started again, every accepted message
\* is written once and in the order of the calls: the file, the message a worker
\* holds and the queue make up all that Log accepted.
MessagesInOrder ==
    /\ Cardinality(InHand) <= 1
    /\ LET held == IF InHand = {} THEN <<>> ELSE <<CHOOSE m \in InHand : TRUE>>
       IN written \o held \o queue = [i \in 1..accepted |-> i]

\* A worker that may still write has m_file open for itself: the clean-up of
\* one worker never closes the file under the next (CleanupFileStreamNoexcept
\* runs without the mutex).
OneWriter ==
    \A w \in Workers : worker[w] \in {"check", "asleep", "deliver"} => file = w

\* The logger's state has its types, its messages are in order and its file has
\* one writer, for any number of clients.  That StartLocked never assigns to a
\* handle that is still joinable is not part of it: with two clients it does.
LoggerSound == TypeOK /\ MessagesInOrder /\ OneWriter

\* When DllCanUnloadNow says S_OK, no thread is inside DllGetClassObject that
\* entered before the gate closed for this call.
NoOldEntryInside ==
    [][\A u \in Unloaders :
          ~At(u, "approved") /\ pc'[u] = "approved" => entered \subseteq late[u]]_vars

\* AsyncLogger.cpp:386: ResumeAfterUnloadRejected cleared the stop request of a
\* drain that began while it joined an earlier worker.  The worker goes back to
\* sleep, and nothing in the logger ends the drain any more.
StopWithdrawn == logger.state = "Draining" /\ ~logger.stopRequested

\* A drain ends, whatever the timeout of the thread that asked for it did
\* meanwhile, and by then all is written that was accepted before it, unless the
\* worker fails, the process is gone, or the entry of another client withdrew
\* the stop request: these are the only ways to lose a drain.
DrainWritesAll ==
    \A m \in 0..MaxCalls :
        logger.state = "Draining" /\ accepted >= m
            ~> \/ logger.state # "Draining" /\ Len(written) >= m
               \/ logger.state = "StopFailed" \/ crashed \/ StopWithdrawn

\* After DllCanUnloadNow gave up on a draining logger, logging comes back by
\* itself: the next message is accepted again, by the worker that runs or by a
\* new one.  Excepted are a worker that failed, a process that is gone, another
\* unload, and a stop request that another client's entry withdrew.
LoggingComesBack ==
    \A u \in Unloaders :
        At(u, "unquiesced")
            ~> \/ ~Refuses /\ logger.state # "Draining"
               \/ logger.state = "StopFailed" \/ crashed \/ StopWithdrawn
               \/ pc[u] \notin {"unquiesced", "out"}

\* No worker of the logger runs when DllCanUnloadNow returns S_OK
\* (2026-08-24-async-logger-unload-design.md:15).
NoWorkerAtApproval ==
    [][\A u \in Unloaders :
          ~At(u, "approved") /\ pc'[u] = "approved" => Live = {}]_vars
=============================================================================
