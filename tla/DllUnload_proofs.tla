--------------------------- MODULE DllUnload_proofs --------------------------
(***************************************************************************)
(* What DllCanUnloadNow promises, for any number of clients, of threads    *)
(* that ask, of calls and of workers, whatever goes wrong in the logger:   *)
(* S_OK is never said over an old entry, and the log is written once and   *)
(* in order by workers that take turns.                                    *)
(***************************************************************************)
EXTENDS DllUnload, SequenceTheorems, FiniteSetTheorems, TLAPS

\* The places of DllCanUnloadNow after BeginClosingAndWaitForEntries succeeded.
PastDrain == {"quiesce", "quiesceNotify", "quiesceCheck", "quiesceAsleep", "quiesceJoin",
              "quiesced"}

PlacesTyped == pc \in [Threads -> Place] /\ late \in [Unloaders -> SUBSET Activators]

\* Once the wait for the entries is over, every entry inside came after the gate
\* was closed: it found it closed and reopened it.
OnlyLateEntries == \A u \in Unloaders : pc[u] \in PastDrain => entered \subseteq late[u]

\* A step brings no thread past the drain, and approves nothing.
KeepsPlaces ==
    /\ pc' \in [Threads -> Place]
    /\ \A t \in Threads : /\ pc'[t] \in PastDrain => pc[t] \in PastDrain
                          /\ pc'[t] = "approved" => pc[t] = "approved"
-----------------------------------------------------------------------------
(* The logger moves threads between its own places only. *)

\* notify_all and notify_one wake threads that were already past the drain.
LEMMA WakingKeepsPlaces ==
    ASSUME NEW places \in [Threads -> Place], pc \in [Threads -> Place],
           \A t \in Threads : /\ places[t] \in PastDrain => pc[t] \in PastDrain
                              /\ places[t] = "approved" => pc[t] = "approved",
           NotifyOne(places) \/ \E workers : NotifyAll(workers, places)
    PROVE  KeepsPlaces
<1>1. \A t \in Threads : \/ pc'[t] = places[t]
                         \/ places[t] = "quiesceAsleep" /\ pc'[t] = "quiesceCheck"
  BY DEF NotifyOne, NotifyAll, AwakeWaiter, SleepingThreads
<1>2. pc' \in [Threads -> Place]
  <2>1. \/ pc' = places
        \/ \E t \in Threads : pc' = [places EXCEPT ![t] = "quiesceCheck"]
        \/ pc' = [t \in Threads |-> AwakeWaiter(places[t])]
    BY DEF NotifyOne, NotifyAll, SleepingThreads
  <2> QED
    BY <2>1 DEF AwakeWaiter, Place
<1> QED
  BY <1>1, <1>2 DEF KeepsPlaces, PastDrain

\* A thread that goes to a place that is neither past the drain nor "approved".
LEMMA GoingKeepsPlaces ==
    ASSUME pc \in [Threads -> Place], NEW t \in Threads, NEW place \in Place,
           Goto(t, place),
           place \in PastDrain => pc[t] \in PastDrain, place # "approved"
    PROVE  KeepsPlaces
BY DEF Goto, KeepsPlaces

\* Log.
LEMMA LogKeepsPlaces ==
    ASSUME pc \in [Threads -> Place], NEW t \in Threads, Log(t)
    PROVE  KeepsPlaces
<1>1. CASE LogRefused(t) \/ LogJoinsCompletedWorker(t) \/ LogJoined(t) \/ LogStarts(t)
           \/ LogPushes(t)
  <2>1. \E place \in {"logJoin", "logAgain", "logNotify", "logged"} : Goto(t, place)
    BY <1>1 DEF LogRefused, LogJoinsCompletedWorker, LogJoined, LogStarts, LogPushes
  <2> QED
    BY <2>1, GoingKeepsPlaces DEF Place, PastDrain
<1>2. CASE LogNotifies(t)
  <2> DEFINE places == [pc EXCEPT ![t] = "logged"]
  <2>1. places \in [Threads -> Place] /\ NotifyOne(places)
    BY <1>2 DEF LogNotifies, Place
  <2>2. \A s \in Threads : /\ places[s] \in PastDrain => pc[s] \in PastDrain
                           /\ places[s] = "approved" => pc[s] = "approved"
    BY DEF PastDrain
  <2> HIDE DEF places
  <2> QED
    BY <2>1, <2>2, WakingKeepsPlaces
<1> QED
  BY <1>1, <1>2 DEF Log

\* BeginUnloadQuiescence.
LEMMA QuiescenceKeepsPlaces ==
    ASSUME pc \in [Threads -> Place], NEW t \in Threads, BeginUnloadQuiescence(t)
    PROVE  KeepsPlaces
<1>1. CASE QuiesceBegins(t) \/ QuiesceChecks(t) \/ QuiesceTimesOut(t) \/ QuiesceJoins(t)
  <2>1. pc[t] \in PastDrain
    BY <1>1 DEF QuiesceBegins, QuiesceChecks, QuiesceTimesOut, QuiesceJoins, At, PastDrain
  <2>2. \E place \in PastDrain \cup {"unquiesced"} : Goto(t, place)
    BY <1>1 DEF QuiesceBegins, QuiesceChecks, QuiesceTimesOut, QuiesceJoins, AwaitStopped,
                PastDrain
  <2> QED
    BY <2>1, <2>2, GoingKeepsPlaces DEF Place, PastDrain
<1>2. CASE QuiesceNotifies(t)
  <2> DEFINE places == [pc EXCEPT ![t] = "quiesceCheck"]
  <2>1. places \in [Threads -> Place] /\ NotifyAll(worker, places)
    BY <1>2 DEF QuiesceNotifies, Place
  <2>2. \A s \in Threads : /\ places[s] \in PastDrain => pc[s] \in PastDrain
                           /\ places[s] = "approved" => pc[s] = "approved"
    BY <1>2 DEF QuiesceNotifies, At, PastDrain
  <2> HIDE DEF places
  <2> QED
    BY <2>1, <2>2, WakingKeepsPlaces
<1> QED
  BY <1>1, <1>2 DEF BeginUnloadQuiescence

\* ResumeAfterUnloadRejected.
LEMMA ResumeKeepsPlaces ==
    ASSUME pc \in [Threads -> Place], NEW t \in Threads, ResumeAfterUnloadRejected(t)
    PROVE  KeepsPlaces
<1>1. CASE ResumeBegins(t) \/ ResumeReopens(t)
  <2>1. \E place \in {"resumeJoin", "resumeNotify", "resumed"} : Goto(t, place)
    BY <1>1 DEF ResumeBegins, ResumeReopens
  <2> QED
    BY <2>1, GoingKeepsPlaces DEF Place, PastDrain
<1>2. CASE ResumeNotifies(t)
  <2> DEFINE places == [pc EXCEPT ![t] = "resumed"]
  <2>1. places \in [Threads -> Place] /\ NotifyAll(worker, places)
    BY <1>2 DEF ResumeNotifies, Place
  <2>2. \A s \in Threads : /\ places[s] \in PastDrain => pc[s] \in PastDrain
                           /\ places[s] = "approved" => pc[s] = "approved"
    BY DEF PastDrain
  <2> HIDE DEF places
  <2> QED
    BY <2>1, <2>2, WakingKeepsPlaces
<1> QED
  BY <1>1, <1>2 DEF ResumeAfterUnloadRejected

\* WorkerThread.
LEMMA WorkerKeepsPlaces ==
    ASSUME pc \in [Threads -> Place], NEW w \in Workers, WorkerThread(w)
    PROVE  KeepsPlaces
<1>1. CASE WorkerTakes(w) \/ WorkerDelivers(w) \/ WorkerCleansUp(w) \/ WorkerSettles(w)
  BY <1>1 DEF WorkerTakes, WorkerDelivers, WorkerCleansUp, WorkerSettles, KeepsPlaces
<1>2. CASE WorkerFails(w) \/ WorkerEnds(w)
  <2>1. \E workers : NotifyAll(workers, pc)
    BY <1>2 DEF WorkerFails, WorkerEnds
  <2> QED
    BY <2>1, WakingKeepsPlaces
<1> QED
  BY <1>1, <1>2 DEF WorkerThread
-----------------------------------------------------------------------------
(* The invariant. *)

\* A step that keeps the places and lets nobody in keeps the entries late.
LEMMA KeepsLateEntries ==
    ASSUME PlacesTyped, OnlyLateEntries, KeepsPlaces, late' = late,
           entered' \subseteq entered
    PROVE  PlacesTyped' /\ OnlyLateEntries'
BY UnloadAssumption DEF PlacesTyped, OnlyLateEntries, KeepsPlaces

\* What clients do: DllGetClassObject enters every unloader's "late".
LEMMA ClientKeepsLateEntries ==
    ASSUME PlacesTyped, OnlyLateEntries, NEW t \in Activators,
           ClientCalls(t) \/ EntryRuns(t)
    PROVE  PlacesTyped' /\ OnlyLateEntries' /\ KeepsPlaces
<1> USE DEF gateVars
<1>1. t \in Threads /\ t \notin Unloaders /\ pc \in [Threads -> Place]
  BY UnloadAssumption DEF PlacesTyped
<1>2. CASE Enters(t)
  <2>1. PICK place \in {"resume", "log"} : Goto(t, place)
    BY <1>2 DEF Enters
  <2>2. KeepsPlaces
    BY <1>1, <2>1, GoingKeepsPlaces DEF Place, PastDrain
  <2>3. /\ late' = [u \in Unloaders |-> late[u] \cup {t}]
        /\ entered' = entered \cup {t}
    BY <1>2 DEF Enters
  <2>4. PlacesTyped' /\ OnlyLateEntries'
    BY <2>2, <2>3, UnloadAssumption DEF PlacesTyped, OnlyLateEntries, KeepsPlaces
  <2> QED
    BY <2>2, <2>4
<1>3. CASE Uses(t) \/ Used(t) \/ Leaves(t) \/ ResumedInEntry(t)
  <2>1. \E place \in {"log", "out"} : Goto(t, place)
    BY <1>3 DEF Uses, Used, Leaves, ResumedInEntry
  <2>2. KeepsPlaces
    BY <1>1, <2>1, GoingKeepsPlaces DEF Place, PastDrain
  <2>3. late' = late /\ entered' \subseteq entered
    BY <1>3 DEF Uses, Used, Leaves, ResumedInEntry
  <2> QED
    BY <2>2, <2>3, KeepsLateEntries
<1>4. CASE Releases(t)
  <2>1. KeepsPlaces /\ late' = late /\ entered' = entered
    BY <1>1, <1>4 DEF Releases, KeepsPlaces
  <2> QED
    BY <2>1, KeepsLateEntries
<1>5. CASE (Log(t) \/ ResumeAfterUnloadRejected(t)) /\ UNCHANGED <<gateVars, clientVars>>
  <2>1. KeepsPlaces /\ late' = late /\ entered' = entered
    BY <1>1, <1>5, LogKeepsPlaces, ResumeKeepsPlaces
  <2> QED
    BY <2>1, KeepsLateEntries
<1> QED
  BY <1>2, <1>3, <1>4, <1>5 DEF ClientCalls, EntryRuns

\* What COM does: an unloader gets past the drain only with no entry inside.
LEMMA UnloaderKeepsLateEntries ==
    ASSUME PlacesTyped, OnlyLateEntries, NEW u \in Unloaders, Asks(u) \/ UnloadRuns(u)
    PROVE  /\ PlacesTyped' /\ OnlyLateEntries'
           /\ \A v \in Unloaders :
                 pc[v] # "approved" /\ pc'[v] = "approved" => entered \subseteq late[v]
<1> USE DEF gateVars
<1>1. u \in Threads /\ Unloaders \subseteq Threads /\ pc \in [Threads -> Place]
  BY UnloadAssumption DEF PlacesTyped
<1>2. CASE Closes(u) \/ EntriesDrained(u)
  <2>1. PICK place \in {"quiesce", "drain", "out"} : Goto(u, place)
    BY <1>2 DEF Closes, EntriesDrained
  <2>2. /\ entered' = entered
        /\ late' = late \/ late' = [late EXCEPT ![u] = {}]
        /\ place = "quiesce" => entered = {}
    BY <1>1, <1>2, <2>1 DEF Closes, EntriesDrained, Goto
  <2>3. /\ PlacesTyped'
        /\ pc'[u] = place
        /\ \A v \in Unloaders \ {u} : pc'[v] = pc[v] /\ late'[v] = late[v]
    BY <1>1, <2>1, <2>2 DEF PlacesTyped, Goto, Place
  <2>4. OnlyLateEntries'
    BY <2>2, <2>3 DEF OnlyLateEntries, PastDrain
  <2> QED
    BY <2>3, <2>4
<1>3. CASE ChecksLockAgain(u)
  <2>1. pc[u] \in PastDrain /\ late' = late /\ entered' = entered
    BY <1>3 DEF ChecksLockAgain, At, PastDrain
  <2>2. PICK place \in {"resume", "approved"} : Goto(u, place)
    BY <1>3 DEF ChecksLockAgain
  <2>3. pc' = [pc EXCEPT ![u] = place]
    BY <2>2 DEF Goto
  <2>4. PlacesTyped' /\ OnlyLateEntries'
    BY <1>1, <2>1, <2>3 DEF PlacesTyped, OnlyLateEntries, Place, PastDrain
  <2> QED
    BY <1>1, <2>1, <2>3, <2>4 DEF OnlyLateEntries
<1>4. CASE Asks(u) \/ DrainTimesOut(u) \/ Reopens(u)
  <2>1. \E place \in {"out", "close"} : Goto(u, place)
    BY <1>4 DEF Asks, DrainTimesOut, Reopens
  <2>2. KeepsPlaces
    BY <1>1, <2>1, GoingKeepsPlaces DEF Place, PastDrain
  <2>3. late' = late /\ entered' = entered
    BY <1>4 DEF Asks, DrainTimesOut, Reopens
  <2> QED
    BY <1>1, <2>2, <2>3, KeepsLateEntries DEF KeepsPlaces
<1>5. CASE /\ BeginUnloadQuiescence(u) \/ ResumeAfterUnloadRejected(u)
           /\ UNCHANGED <<gateVars, clientVars>>
  <2>1. KeepsPlaces /\ late' = late /\ entered' = entered
    BY <1>1, <1>5, QuiescenceKeepsPlaces, ResumeKeepsPlaces
  <2> QED
    BY <1>1, <2>1, KeepsLateEntries DEF KeepsPlaces
<1> QED
  BY <1>2, <1>3, <1>4, <1>5 DEF UnloadRuns

\* Every step keeps the invariant and approves no unload over an old entry.
LEMMA StepKeepsLateEntries ==
    ASSUME PlacesTyped, OnlyLateEntries, [Next]_vars
    PROVE  /\ PlacesTyped' /\ OnlyLateEntries'
           /\ \A v \in Unloaders :
                 pc[v] # "approved" /\ pc'[v] = "approved" => entered \subseteq late[v]
<1>1. CASE UNCHANGED vars
  BY <1>1 DEF vars, PlacesTyped, OnlyLateEntries
<1>2. CASE \E t \in Activators : ClientCalls(t) \/ EntryRuns(t)
  BY <1>2, ClientKeepsLateEntries, UnloadAssumption DEF KeepsPlaces
<1>3. CASE \E u \in Unloaders : Asks(u) \/ UnloadRuns(u)
  BY <1>3, UnloaderKeepsLateEntries
<1>4. CASE \E w \in Workers : LoggerRuns(w)
  <2>1. KeepsPlaces /\ late' = late /\ entered' = entered
    BY <1>4, WorkerKeepsPlaces DEF LoggerRuns, gateVars, PlacesTyped
  <2> QED
    BY <2>1, KeepsLateEntries, UnloadAssumption DEF KeepsPlaces
<1> QED
  BY <1>1, <1>2, <1>3, <1>4 DEF Next

\* S_OK from DllCanUnloadNow means that no thread is inside DllGetClassObject
\* which was there when the gate closed for this call: for any number of clients
\* and unloaders, and whatever the logger's worker does.
THEOREM NoOldEntryInsideHolds == Spec => NoOldEntryInside
<1>1. Init => PlacesTyped /\ OnlyLateEntries
  BY UnloadAssumption DEF Init, PlacesTyped, OnlyLateEntries, PastDrain, Place
<1>2. PlacesTyped /\ OnlyLateEntries /\ [Next]_vars => PlacesTyped' /\ OnlyLateEntries'
  BY StepKeepsLateEntries
<1>3. PlacesTyped /\ OnlyLateEntries /\ [Next]_vars
        => [\A u \in Unloaders : ~At(u, "approved") /\ pc'[u] = "approved"
                                    => entered \subseteq late[u]]_vars
  BY StepKeepsLateEntries DEF At
<1> QED
  BY <1>1, <1>2, <1>3, PTL DEF Spec, NoOldEntryInside
-----------------------------------------------------------------------------
(* The logger: its workers take turns, and its messages stay in order.     *)

\* The places of a worker that has not yet written m_state for the last time.
Busy == {"check", "asleep", "deliver", "cleanup", "settle"}

LoggerStates == {"Stopped", "Running", "Draining", "StopFailed"}

LoggerRecords == [state : LoggerStates, admission : {"Open", "Quiescent"},
                  stopRequested : BOOLEAN, resumeWhenStopped : BOOLEAN,
                  worker : 0..MaxStarts]

\* One worker at most is busy, and none while m_state is Stopped: StartLocked
\* starts the next one only after the last one has settled.
WorkersInTurn ==
    /\ \A v, w \in Workers : worker[v] \in Busy /\ worker[w] \in Busy => v = w
    /\ \A w \in Workers : worker[w] \in Busy => logger.state # "Stopped"

\* What Log accepted is what the file holds, what is held and what is queued.
Whole(held) == written \o held \o queue = [i \in 1..accepted |-> i]

\* A worker holds a message only while it delivers it.
NothingLost ==
    /\ (\A w \in Workers : worker[w] # "deliver") => Whole(<<>>)
    /\ \A w \in Workers : IF worker[w] = "deliver"
                          THEN hand[w] # 0 /\ Whole(<<hand[w]>>)
                          ELSE hand[w] = 0

LoggerInv == LoggerTypeOK /\ WorkersInTurn /\ OneWriter /\ NothingLost

\* A step that at most wakes workers, takes a handle or asks for a stop.
LeavesLoggerInOrder ==
    /\ logger' \in LoggerRecords /\ handle' \in [Threads -> 0..MaxStarts]
    /\ logger'.state = "Stopped" => logger.state = "Stopped"
    /\ worker' \in [Workers -> WorkerPlace]
    /\ \A w \in Workers : \/ worker'[w] = worker[w]
                          \/ worker[w] = "asleep" /\ worker'[w] = "check"
    /\ UNCHANGED <<queue, hand, file, accepted, written, crashed>>

\* The record keeps its type and m_state when one of its other fields is written.
LEMMA FieldWritten ==
    ASSUME NEW l \in LoggerRecords
    PROVE  /\ \A s \in LoggerStates : [l EXCEPT !.state = s] \in LoggerRecords
           /\ \A b \in BOOLEAN : /\ [l EXCEPT !.stopRequested = b] \in LoggerRecords
                                 /\ [l EXCEPT !.resumeWhenStopped = b] \in LoggerRecords
           /\ \A w \in 0..MaxStarts : [l EXCEPT !.worker = w] \in LoggerRecords
           /\ \A a \in {"Open", "Quiescent"} : [l EXCEPT !.admission = a] \in LoggerRecords
BY DEF LoggerRecords

LEMMA LoggerTyped ==
    ASSUME LoggerTypeOK
    PROVE  /\ logger \in LoggerRecords
           /\ logger.worker \in 0..MaxStarts /\ logger.state \in LoggerStates
           /\ 0 \in 0..MaxStarts
BY LoggerAssumption DEF LoggerTypeOK, LoggerRecords, LoggerStates

\* Nobody who leaves the logger in order loses a message or makes two writers.
LEMMA UndisturbedLogger ==
    ASSUME LoggerInv, LeavesLoggerInOrder
    PROVE  LoggerInv'
<1>1. LoggerTypeOK'
  BY DEF LoggerInv, LoggerTypeOK, LeavesLoggerInOrder, LoggerRecords, LoggerStates
<1>2. WorkersInTurn'
  BY DEF LoggerInv, WorkersInTurn, LeavesLoggerInOrder, Busy
<1>3. OneWriter'
  BY DEF LoggerInv, OneWriter, LeavesLoggerInOrder
<1>4. NothingLost'
  BY DEF LoggerInv, NothingLost, LeavesLoggerInOrder, Whole
<1> QED
  BY <1>1, <1>2, <1>3, <1>4 DEF LoggerInv

\* notify_one and notify_all wake workers that sleep.
LEMMA WakingLeavesLogger ==
    ASSUME LoggerTypeOK, NEW places, NotifyOne(places) \/ NotifyAll(worker, places)
    PROVE  /\ worker' \in [Workers -> WorkerPlace]
           /\ \A w \in Workers : \/ worker'[w] = worker[w]
                                 \/ worker[w] = "asleep" /\ worker'[w] = "check"
BY DEF LoggerTypeOK, NotifyOne, NotifyAll, Sleepers, Awake, WorkerPlace

\* Log, except where it pushes a message.
LEMMA LogLeavesLogger ==
    ASSUME LoggerTypeOK, NEW t \in Threads,
           LogRefused(t) \/ LogJoinsCompletedWorker(t) \/ LogJoined(t) \/ LogNotifies(t)
    PROVE  LeavesLoggerInOrder
<1> USE LoggerTyped DEF loggerVars
<1>1. CASE LogRefused(t)
  BY <1>1 DEF LogRefused, LeavesLoggerInOrder, LoggerTypeOK
<1>2. CASE LogJoinsCompletedWorker(t)
  <2>1. logger' \in LoggerRecords /\ logger'.state = logger.state
    BY <1>2, FieldWritten DEF LogJoinsCompletedWorker, LoggerRecords
  <2> QED
    BY <1>2, <2>1 DEF LogJoinsCompletedWorker, LeavesLoggerInOrder, LoggerTypeOK
<1>3. CASE LogJoined(t)
  BY <1>3 DEF LogJoined, LeavesLoggerInOrder, LoggerTypeOK
<1>4. CASE LogNotifies(t)
  <2>1. NotifyOne([pc EXCEPT ![t] = "logged"])
    BY <1>4 DEF LogNotifies
  <2> QED
    BY <1>4, <2>1, WakingLeavesLogger DEF LogNotifies, LeavesLoggerInOrder, LoggerTypeOK
<1> QED
  BY <1>1, <1>2, <1>3, <1>4

\* The end of BeginUnloadQuiescence.
LEMMA AwaitLeavesLogger ==
    ASSUME LoggerTypeOK, NEW t \in Threads, NEW l \in LoggerRecords, l.state = logger.state,
           AwaitStopped(t, l), UNCHANGED <<queue, worker, hand, file, accepted, written, crashed>>
    PROVE  LeavesLoggerInOrder
<1> USE LoggerTyped
<1>1. CASE l.state = "Stopped" /\ logger' = [l EXCEPT !.worker = 0]
           /\ handle' = [handle EXCEPT ![t] = l.worker]
  <2>1. logger' \in LoggerRecords /\ logger'.state = l.state
    BY <1>1, FieldWritten DEF LoggerRecords
  <2>2. l.worker \in 0..MaxStarts
    BY DEF LoggerRecords
  <2> QED
    BY <1>1, <2>1, <2>2 DEF LeavesLoggerInOrder, LoggerTypeOK
<1>2. CASE logger' = l /\ handle' = handle
  BY <1>2 DEF LeavesLoggerInOrder, LoggerTypeOK
<1> QED
  BY <1>1, <1>2 DEF AwaitStopped

\* BeginUnloadQuiescence.
LEMMA QuiescenceLeavesLogger ==
    ASSUME LoggerTypeOK, NEW t \in Threads, BeginUnloadQuiescence(t)
    PROVE  LeavesLoggerInOrder
<1> USE LoggerTyped DEF loggerVars
<1>1. CASE QuiesceBegins(t)
  <2> DEFINE closed == [logger EXCEPT !.admission = "Quiescent"]
             quiescent == [closed EXCEPT !.resumeWhenStopped = FALSE]
             draining == [quiescent EXCEPT !.state = "Draining"]
             asked == [draining EXCEPT !.stopRequested = TRUE]
  <2>1. closed \in LoggerRecords /\ closed.state = logger.state
    BY FieldWritten DEF LoggerRecords
  <2>2. quiescent \in LoggerRecords /\ quiescent.state = logger.state
    <3> HIDE DEF closed
    <3> QED
      BY <2>1, FieldWritten DEF LoggerRecords
  <2>3. draining \in LoggerRecords /\ draining.state = "Draining"
    <3> HIDE DEF quiescent
    <3> QED
      BY <2>2, FieldWritten DEF LoggerRecords, LoggerStates
  <2>4. asked \in LoggerRecords /\ asked.state = "Draining"
    <3> HIDE DEF draining
    <3> QED
      BY <2>3, FieldWritten DEF LoggerRecords
  <2>5. \/ logger' = asked /\ handle' = handle
        \/ AwaitStopped(t, quiescent)
    BY <1>1 DEF QuiesceBegins
  <2>6. UNCHANGED <<queue, worker, hand, file, accepted, written, crashed>>
    BY <1>1 DEF QuiesceBegins
  <2> HIDE DEF closed, quiescent, draining, asked
  <2> QED
    BY <2>2, <2>4, <2>5, <2>6, AwaitLeavesLogger DEF LeavesLoggerInOrder, LoggerTypeOK
<1>2. CASE QuiesceNotifies(t)
  <2>1. NotifyAll(worker, [pc EXCEPT ![t] = "quiesceCheck"])
    BY <1>2 DEF QuiesceNotifies
  <2> QED
    BY <1>2, <2>1, WakingLeavesLogger DEF QuiesceNotifies, LeavesLoggerInOrder, LoggerTypeOK
<1>3. CASE QuiesceChecks(t)
  BY <1>3, AwaitLeavesLogger DEF QuiesceChecks
<1>4. CASE QuiesceTimesOut(t)
  <2>1. logger' \in LoggerRecords /\ logger'.state = logger.state
    BY <1>4, FieldWritten DEF QuiesceTimesOut, LoggerRecords
  <2> QED
    BY <1>4, <2>1 DEF QuiesceTimesOut, LeavesLoggerInOrder, LoggerTypeOK
<1>5. CASE QuiesceJoins(t)
  BY <1>5 DEF QuiesceJoins, LeavesLoggerInOrder, LoggerTypeOK
<1> QED
  BY <1>1, <1>2, <1>3, <1>4, <1>5 DEF BeginUnloadQuiescence

\* ResumeAfterUnloadRejected.
LEMMA ResumeLeavesLogger ==
    ASSUME LoggerTypeOK, NEW t \in Threads, ResumeAfterUnloadRejected(t)
    PROVE  LeavesLoggerInOrder
<1> USE LoggerTyped DEF loggerVars
<1>1. CASE ResumeBegins(t)
  <2>1. \/ logger' = [logger EXCEPT !.worker = 0]
           /\ handle' = [handle EXCEPT ![t] = logger.worker]
        \/ logger' = logger /\ handle' = handle
    BY <1>1 DEF ResumeBegins
  <2>2. logger' \in LoggerRecords /\ logger'.state = logger.state
    BY <2>1, FieldWritten DEF LoggerRecords
  <2> QED
    BY <1>1, <2>1, <2>2 DEF ResumeBegins, LeavesLoggerInOrder, LoggerTypeOK
<1>2. CASE ResumeReopens(t)
  <2> DEFINE cleared == [logger EXCEPT !.stopRequested = FALSE]
             unowed == [cleared EXCEPT !.resumeWhenStopped = FALSE]
             opened == [unowed EXCEPT !.admission = "Open"]
  <2>1. cleared \in LoggerRecords /\ cleared.state = logger.state
    BY FieldWritten DEF LoggerRecords
  <2>2. unowed \in LoggerRecords /\ unowed.state = logger.state
    <3> HIDE DEF cleared
    <3> QED
      BY <2>1, FieldWritten DEF LoggerRecords
  <2>3. opened \in LoggerRecords /\ opened.state = logger.state
    <3> HIDE DEF unowed
    <3> QED
      BY <2>2, FieldWritten DEF LoggerRecords
  <2>4. logger' = opened
    BY <1>2 DEF ResumeReopens
  <2> HIDE DEF opened
  <2> QED
    BY <1>2, <2>3, <2>4 DEF ResumeReopens, LeavesLoggerInOrder, LoggerTypeOK
<1>3. CASE ResumeNotifies(t)
  <2>1. NotifyAll(worker, [pc EXCEPT ![t] = "resumed"])
    BY <1>3 DEF ResumeNotifies
  <2> QED
    BY <1>3, <2>1, WakingLeavesLogger DEF ResumeNotifies, LeavesLoggerInOrder, LoggerTypeOK
<1> QED
  BY <1>1, <1>2, <1>3 DEF ResumeAfterUnloadRejected
-----------------------------------------------------------------------------
(* Sequences of messages. *)

LEMMA JoinedMessages ==
    ASSUME NEW s \in Seq(Nat), NEW q \in Seq(Nat)
    PROVE  /\ s \o q \in Seq(Nat)
           /\ Len(s \o q) = Len(s) + Len(q)
           /\ \A i \in 1..Len(s) : (s \o q)[i] = s[i]
           /\ \A i \in 1..Len(q) : (s \o q)[Len(s) + i] = q[i]
OBVIOUS

LEMMA FirstMessages ==
    ASSUME NEW n \in Nat
    PROVE  /\ [i \in 1..n |-> i] \in Seq(Nat)
           /\ Len([i \in 1..n |-> i]) = n
OBVIOUS

\* A pushed message is the next one.
LEMMA PushedInOrder ==
    ASSUME NEW s \in Seq(Nat), NEW q \in Seq(Nat), NEW n \in Nat,
           s \o q = [i \in 1..n |-> i]
    PROVE  s \o Append(q, n + 1) = [i \in 1..(n + 1) |-> i]
<1> DEFINE longer == Append(q, n + 1)
           all == [i \in 1..(n + 1) |-> i]
<1>1. Len(s) + Len(q) = n
  BY FirstMessages, JoinedMessages
<1>2. \A i \in 1..n : (s \o q)[i] = i
  OBVIOUS
<1>3. longer \in Seq(Nat) /\ Len(longer) = Len(q) + 1
  OBVIOUS
<1>4. /\ \A i \in 1..Len(q) : longer[i] = q[i]
      /\ longer[Len(q) + 1] = n + 1
  OBVIOUS
<1>5. all \in Seq(Nat) /\ Len(all) = n + 1 /\ \A i \in 1..(n + 1) : all[i] = i
  OBVIOUS
<1> HIDE DEF longer, all
<1>6. /\ s \o longer \in Seq(Nat)
      /\ Len(s \o longer) = Len(s) + Len(longer)
      /\ \A i \in 1..Len(s) : (s \o longer)[i] = s[i]
      /\ \A i \in 1..Len(longer) : (s \o longer)[Len(s) + i] = longer[i]
  BY <1>3, JoinedMessages
<1>7. ASSUME NEW i \in 1..Len(s)
      PROVE  (s \o longer)[i] = i
  <2>1. (s \o longer)[i] = s[i]
    BY <1>6
  <2>2. (s \o q)[i] = s[i]
    BY JoinedMessages
  <2>3. i \in 1..n
    BY <1>1
  <2> QED
    BY <1>2, <2>1, <2>2, <2>3
<1>8. ASSUME NEW i \in 1..Len(longer)
      PROVE  (s \o longer)[Len(s) + i] = Len(s) + i
  <2>1. (s \o longer)[Len(s) + i] = longer[i]
    BY <1>6
  <2>2. CASE i \in 1..Len(q)
    <3>1. (s \o q)[Len(s) + i] = q[i]
      BY <2>2, JoinedMessages
    <3>2. Len(s) + i \in 1..n
      BY <1>1, <2>2
    <3> QED
      BY <1>2, <1>4, <2>1, <2>2, <3>1, <3>2
  <2>3. CASE i = Len(q) + 1
    <3>1. longer[i] = n + 1
      BY <1>4, <2>3
    <3>2. Len(s) + i = n + 1
      BY <1>1, <2>3, LenProperties
    <3> QED
      BY <2>1, <3>1, <3>2
  <2>4. i \in 1..Len(q) \/ i = Len(q) + 1
    <3>1. i \in 1..(Len(q) + 1) /\ Len(q) \in Nat
      BY <1>3
    <3> QED
      BY <3>1
  <2> QED
    BY <2>2, <2>3, <2>4
<1>9. \A i \in 1..(n + 1) : (s \o longer)[i] = i
  <2> TAKE i \in 1..(n + 1)
  <2>1. CASE i <= Len(s)
    <3>1. i \in 1..Len(s)
      BY <2>1
    <3> QED
      BY <1>7, <3>1
  <2>2. CASE i > Len(s)
    <3>1. i - Len(s) \in 1..Len(longer) /\ Len(s) + (i - Len(s)) = i
      BY <1>1, <1>3, <2>2
    <3>2. (s \o longer)[Len(s) + (i - Len(s))] = Len(s) + (i - Len(s))
      BY <1>8, <3>1
    <3> QED
      BY <3>1, <3>2
  <2>3. i \in Nat /\ Len(s) \in Nat
    BY LenProperties
  <2>4. i <= Len(s) \/ i > Len(s)
    BY <2>3
  <2> QED
    BY <2>1, <2>2, <2>4
<1>10. s \o longer = all
  <2>1. Len(s \o longer) = Len(all)
    BY <1>1, <1>3, <1>5, <1>6
  <2> QED
    BY <1>5, <1>6, <1>9, <2>1, SeqEqual
<1> QED
  BY <1>10 DEF longer, all

\* A message that is taken keeps its place, and it is not the empty hand.
LEMMA TakenInOrder ==
    ASSUME NEW s \in Seq(Nat), NEW q \in Seq(Nat), q # <<>>, NEW n \in Nat,
           s \o <<>> \o q = [i \in 1..n |-> i]
    PROVE  /\ s \o <<Head(q)>> \o Tail(q) = [i \in 1..n |-> i]
           /\ Head(q) \in Nat \ {0} /\ Tail(q) \in Seq(Nat)
<1>1. s \o <<>> \o q = s \o q
  OBVIOUS
<1>2. Len(s) + Len(q) = n /\ Len(q) > 0
  BY <1>1, FirstMessages, JoinedMessages
<1>3. (s \o q)[Len(s) + 1] = q[1] /\ Len(s) + 1 \in 1..n
  BY <1>2, JoinedMessages
<1>4. Head(q) = q[1] /\ Head(q) \in Nat /\ Tail(q) \in Seq(Nat)
  OBVIOUS
<1>5. q[1] = Len(s) + 1
  BY <1>1, <1>3
<1>6. <<Head(q)>> \o Tail(q) = q
  BY <1>4, SeqEqual
<1>7. s \o <<Head(q)>> \o Tail(q) = s \o q
  BY <1>4, <1>6, ConcatAssociative
<1>8. Head(q) # 0
  BY <1>4, <1>5
<1>9. s \o <<Head(q)>> \o Tail(q) = [i \in 1..n |-> i]
  BY <1>1, <1>7
<1> QED
  BY <1>4, <1>8, <1>9
-----------------------------------------------------------------------------
(* Log pushes, and the worker writes. *)

\* A pushed message joins the end of what was accepted.
LEMMA PushKeepsWhole ==
    ASSUME queue \in Seq(Nat), accepted \in Nat, written \in Seq(Nat), Push,
           written' = written
    PROVE  /\ queue' \in Seq(Nat) /\ accepted' \in Nat
           /\ Whole(<<>>) => (written \o <<>> \o queue' = [i \in 1..accepted' |-> i])
           /\ \A m \in Nat : Whole(<<m>>) =>
                 (written \o <<m>> \o queue' = [i \in 1..accepted' |-> i])
<1>1. queue' = Append(queue, accepted + 1) /\ accepted' = accepted + 1
  BY DEF Push
<1>2. \A held \in Seq(Nat) : written \o held \in Seq(Nat)
  BY JoinedMessages
<1>3. <<>> \in Seq(Nat) /\ \A m \in Nat : <<m>> \in Seq(Nat)
  OBVIOUS
<1>4. ASSUME NEW held \in Seq(Nat), Whole(held)
      PROVE  written \o held \o queue' = [i \in 1..accepted' |-> i]
  <2>1. written \o held \in Seq(Nat)
    BY <1>2
  <2>2. (written \o held) \o Append(queue, accepted + 1) = [i \in 1..(accepted + 1) |-> i]
    BY <1>4, <2>1, PushedInOrder DEF Whole
  <2> QED
    BY <1>1, <2>2
<1>5. queue' \in Seq(Nat) /\ accepted' \in Nat
  BY <1>1
<1>6. \A held \in Seq(Nat) :
         Whole(held) => (written \o held \o queue' = [i \in 1..accepted' |-> i])
  BY <1>4
<1> QED
  BY <1>3, <1>5, <1>6

\* Log on a running worker.
LEMMA PushKeepsLogger ==
    ASSUME LoggerInv, NEW t \in Threads, LogPushes(t)
    PROVE  LoggerInv' /\ crashed' = crashed /\ logger' = logger
<1>1. /\ UNCHANGED <<logger, worker, hand, file, handle, written, crashed>>
      /\ Push
  BY DEF LogPushes
<1>2. queue \in Seq(Nat) /\ accepted \in Nat /\ written \in Seq(Nat)
      /\ hand \in [Workers -> Nat]
  BY DEF LoggerInv, LoggerTypeOK
<1>3. /\ queue' \in Seq(Nat) /\ accepted' \in Nat
      /\ Whole(<<>>) => (written \o <<>> \o queue' = [i \in 1..accepted' |-> i])
      /\ \A m \in Nat : Whole(<<m>>) =>
            (written \o <<m>> \o queue' = [i \in 1..accepted' |-> i])
  BY <1>1, <1>2, PushKeepsWhole
<1>4. LoggerTypeOK'
  BY <1>1, <1>3 DEF LoggerInv, LoggerTypeOK
<1>5. WorkersInTurn' /\ OneWriter'
  BY <1>1 DEF LoggerInv, WorkersInTurn, OneWriter
<1>6. NothingLost'
  <2>1. Whole(<<>>) => Whole(<<>>)'
    BY <1>1, <1>3 DEF Whole
  <2>2. \A w \in Workers : Whole(<<hand[w]>>) => Whole(<<hand[w]>>)'
    BY <1>1, <1>2, <1>3 DEF Whole
  <2> QED
    BY <1>1, <2>1, <2>2 DEF LoggerInv, NothingLost
<1> QED
  BY <1>1, <1>4, <1>5, <1>6 DEF LoggerInv

\* Log with the worker it starts: the last one has settled, so that the new one
\* is the only one that writes, and its handle was free unless another thread
\* started a worker since Log looked at it.
LEMMA StartKeepsLogger ==
    ASSUME LoggerInv, NEW t \in Threads, LogStarts(t)
    PROVE  /\ LoggerInv'
           /\ logger.worker = 0 => crashed' = crashed \/ crashed' = FALSE
<1>1. CASE UNCHANGED <<logger, worker, file, crashed, queue, accepted>>
  <2>1. UNCHANGED <<hand, written, handle>>
    BY DEF LogStarts
  <2>2. logger \in LoggerRecords
    BY LoggerTyped DEF LoggerInv
  <2>3. LeavesLoggerInOrder
    BY <1>1, <2>1, <2>2 DEF LeavesLoggerInOrder, LoggerInv, LoggerTypeOK
  <2> QED
    BY <1>1, <2>3, UndisturbedLogger
<1>2. CASE (\E w \in Workers : StartWorker(w)) /\ Push
  <2>1. PICK w \in Workers : StartWorker(w)
    BY <1>2
  <2>2. /\ worker' = [worker EXCEPT ![w] = "check"]
        /\ logger' = [logger EXCEPT !.state = "Running", !.stopRequested = FALSE, !.worker = w]
        /\ file' = w
        /\ crashed' = (logger.worker # 0)
    BY <2>1 DEF StartWorker
  <2>3. logger.state = "Stopped" /\ UNCHANGED <<hand, written, handle>>
    BY DEF LogStarts
  <2>4. LoggerTypeOK /\ WorkersInTurn /\ NothingLost
    BY DEF LoggerInv
  <2>5. \A v \in Workers : worker[v] \notin Busy
    BY <2>3, <2>4 DEF WorkersInTurn
  <2>6. queue \in Seq(Nat) /\ accepted \in Nat /\ written \in Seq(Nat)
        /\ hand \in [Workers -> Nat] /\ worker \in [Workers -> WorkerPlace]
    BY <2>4 DEF LoggerTypeOK
  <2>7. /\ queue' \in Seq(Nat) /\ accepted' \in Nat
        /\ Whole(<<>>) => (written \o <<>> \o queue' = [i \in 1..accepted' |-> i])
    BY <1>2, <2>3, <2>6, PushKeepsWhole
  <2>8. logger' \in LoggerRecords /\ logger'.state = "Running"
    <3> DEFINE running == [logger EXCEPT !.state = "Running"]
               cleared == [running EXCEPT !.stopRequested = FALSE]
               started == [cleared EXCEPT !.worker = w]
    <3>1. running \in LoggerRecords /\ running.state = "Running"
      BY <2>4, LoggerTyped, FieldWritten DEF LoggerRecords, LoggerStates
    <3>2. cleared \in LoggerRecords /\ cleared.state = "Running"
      <4> HIDE DEF running
      <4> QED
        BY <3>1, FieldWritten DEF LoggerRecords
    <3>3. started \in LoggerRecords /\ started.state = "Running"
      <4>1. w \in 0..MaxStarts
        BY LoggerAssumption DEF Workers
      <4> HIDE DEF cleared
      <4> QED
        BY <3>2, <4>1, FieldWritten DEF LoggerRecords
    <3> QED
      BY <2>2, <3>3
  <2>9. LoggerTypeOK'
    <3>1. worker' \in [Workers -> WorkerPlace]
      BY <2>2, <2>6 DEF WorkerPlace
    <3>2. file' \in 0..MaxStarts
      BY <2>2, LoggerAssumption DEF Workers
    <3>3. crashed' \in BOOLEAN
      BY <2>2
    <3> QED
      BY <2>3, <2>4, <2>7, <2>8, <3>1, <3>2, <3>3
      DEF LoggerTypeOK, LoggerRecords, LoggerStates
  <2>10. \A v \in Workers : worker'[v] = IF v = w THEN "check" ELSE worker[v]
    BY <2>2, <2>6
  <2>11. WorkersInTurn'
    BY <2>5, <2>8, <2>10 DEF WorkersInTurn
  <2>12. OneWriter'
    BY <2>2, <2>5, <2>10 DEF OneWriter, Busy
  <2>13. NothingLost'
    <3>1. \A v \in Workers : worker[v] # "deliver" /\ worker'[v] # "deliver"
      BY <2>5, <2>10 DEF Busy
    <3>2. Whole(<<>>)
      BY <2>4, <3>1 DEF NothingLost
    <3>3. Whole(<<>>)'
      BY <2>3, <2>7, <3>2 DEF Whole
    <3> QED
      BY <2>3, <2>4, <3>1, <3>3 DEF NothingLost
  <2> QED
    BY <2>2, <2>9, <2>11, <2>12, <2>13 DEF LoggerInv
<1> QED
  BY <1>1, <1>2 DEF LogStarts

\* WorkerThread up to its end: the worker takes a message, writes it, closes the
\* file only while it is the one whose turn it is, and settles.
LEMMA WorkerKeepsLogger ==
    ASSUME LoggerInv, NEW w \in Workers, WorkerThread(w)
    PROVE  LoggerInv' /\ crashed' = crashed /\ logger'.worker = logger.worker
<1> USE LoggerTyped
<1>1. /\ LoggerTypeOK /\ WorkersInTurn /\ OneWriter /\ NothingLost
      /\ queue \in Seq(Nat) /\ accepted \in Nat /\ written \in Seq(Nat)
      /\ hand \in [Workers -> Nat] /\ worker \in [Workers -> WorkerPlace]
      /\ logger \in LoggerRecords
  BY DEF LoggerInv, LoggerTypeOK
<1>2. worker[w] \in Busy =>
         /\ \A v \in Workers \ {w} : worker[v] \notin Busy
         /\ logger.state # "Stopped"
  BY <1>1 DEF WorkersInTurn
<1>3. CASE WorkerTakes(w) /\ queue # <<>>
  <2>1. /\ worker[w] = "check"
        /\ hand' = [hand EXCEPT ![w] = Head(queue)]
        /\ queue' = Tail(queue)
        /\ worker' = [worker EXCEPT ![w] = "deliver"]
        /\ UNCHANGED <<logger, file, handle, accepted, written, crashed>>
    BY <1>3 DEF WorkerTakes
  <2>2. \A v \in Workers : worker[v] # "deliver"
    BY <1>2, <2>1 DEF Busy
  <2>3. written \o <<>> \o queue = [i \in 1..accepted |-> i]
    BY <1>1, <2>2 DEF NothingLost, Whole
  <2>4. /\ written \o <<Head(queue)>> \o Tail(queue) = [i \in 1..accepted |-> i]
        /\ Head(queue) \in Nat \ {0} /\ Tail(queue) \in Seq(Nat)
    BY <1>1, <1>3, <2>3, TakenInOrder
  <2>5. \A v \in Workers : /\ worker'[v] = IF v = w THEN "deliver" ELSE worker[v]
                           /\ hand'[v] = IF v = w THEN Head(queue) ELSE hand[v]
    BY <1>1, <2>1
  <2>6. LoggerTypeOK'
    BY <1>1, <2>1, <2>4 DEF LoggerTypeOK, WorkerPlace
  <2>7. WorkersInTurn' /\ OneWriter'
    BY <1>1, <1>2, <2>1, <2>5 DEF WorkersInTurn, OneWriter, Busy
  <2>8. NothingLost'
    BY <1>1, <2>1, <2>2, <2>4, <2>5 DEF NothingLost, Whole
  <2> QED
    BY <2>1, <2>6, <2>7, <2>8 DEF LoggerInv
<1>4. CASE WorkerTakes(w) /\ queue = <<>>
  <2>1. PICK place \in {"cleanup", "asleep"} : worker' = [worker EXCEPT ![w] = place]
    BY <1>4 DEF WorkerTakes
  <2>2. /\ worker[w] = "check"
        /\ UNCHANGED <<hand, queue, logger, file, handle, accepted, written, crashed>>
    BY <1>4 DEF WorkerTakes
  <2>3. \A v \in Workers : worker'[v] = IF v = w THEN place ELSE worker[v]
    BY <1>1, <2>1
  <2>4. LoggerTypeOK'
    BY <1>1, <2>1, <2>2 DEF LoggerTypeOK, WorkerPlace
  <2>5. WorkersInTurn' /\ OneWriter'
    BY <1>1, <1>2, <2>2, <2>3 DEF WorkersInTurn, OneWriter, Busy
  <2>6. NothingLost'
    BY <1>1, <2>2, <2>3 DEF NothingLost, Whole
  <2> QED
    BY <2>2, <2>4, <2>5, <2>6 DEF LoggerInv
<1>5. CASE WorkerDelivers(w)
  <2>1. /\ worker[w] = "deliver"
        /\ hand' = [hand EXCEPT ![w] = 0]
        /\ worker' = [worker EXCEPT ![w] = "check"]
        /\ UNCHANGED <<logger, queue, file, handle, accepted, crashed>>
    BY <1>5 DEF WorkerDelivers
  <2>2. file = w /\ hand[w] \in Nat
    BY <1>1, <2>1 DEF OneWriter
  <2>3. written' = Append(written, hand[w])
    BY <1>5, <2>2 DEF WorkerDelivers
  <2>4. written' \in Seq(Nat) /\ written' = written \o <<hand[w]>>
    BY <1>1, <2>2, <2>3, AppendIsConcat
  <2>5. written' \o <<>> = written'
    BY <2>4
  <2>6. written' \o <<>> \o queue' = [i \in 1..accepted' |-> i]
    BY <1>1, <2>1, <2>4, <2>5 DEF NothingLost, Whole
  <2>7. \A v \in Workers : /\ worker'[v] = IF v = w THEN "check" ELSE worker[v]
                           /\ hand'[v] = IF v = w THEN 0 ELSE hand[v]
    BY <1>1, <2>1
  <2>8. LoggerTypeOK'
    BY <1>1, <2>1, <2>4 DEF LoggerTypeOK, WorkerPlace
  <2>9. WorkersInTurn' /\ OneWriter'
    BY <1>1, <1>2, <2>1, <2>7 DEF WorkersInTurn, OneWriter, Busy
  <2>10. \A v \in Workers : worker'[v] # "deliver"
    BY <1>2, <2>1, <2>7 DEF Busy
  <2>11. NothingLost'
    BY <1>1, <1>2, <2>1, <2>6, <2>7, <2>10 DEF NothingLost, Whole, Busy
  <2> QED
    BY <2>1, <2>8, <2>9, <2>11 DEF LoggerInv
<1>6. CASE WorkerFails(w)
  <2>1. /\ worker[w] = "check"
        /\ UNCHANGED <<queue, hand, file, handle, accepted, written, crashed>>
    BY <1>6 DEF WorkerFails
  <2>2. /\ logger' \in LoggerRecords /\ logger'.state # "Stopped"
        /\ logger'.worker = logger.worker
    <3> DEFINE failed == [logger EXCEPT !.state = "StopFailed"]
    <3>1. failed \in LoggerRecords
      BY <1>1, FieldWritten DEF LoggerStates
    <3>2. failed.state # "Stopped" /\ failed.worker = logger.worker
      BY <1>1 DEF LoggerRecords
    <3>3. logger.state # "Stopped"
      BY <1>2, <2>1 DEF Busy
    <3>4. logger' = failed \/ logger' = logger
      <4>1. CASE logger.state \in {"Running", "Draining"}
        BY <1>6, <4>1 DEF WorkerFails
      <4>2. CASE logger.state \notin {"Running", "Draining"}
        <5>1. logger' = [logger EXCEPT !.state = logger.state]
          BY <1>6, <4>2 DEF WorkerFails
        <5> QED
          BY <1>1, <5>1 DEF LoggerRecords
      <4> QED
        BY <4>1, <4>2
    <3> HIDE DEF failed
    <3> QED
      BY <1>1, <3>1, <3>2, <3>3, <3>4
  <2>3. worker' = [v \in Workers |-> Awake([worker EXCEPT ![w] = "cleanup"][v])]
    BY <1>6 DEF WorkerFails, NotifyAll
  <2>4. \A v \in Workers :
           IF v = w THEN worker'[v] = "cleanup"
           ELSE worker'[v] = worker[v] \/ (worker[v] = "asleep" /\ worker'[v] = "check")
    BY <1>1, <2>3 DEF Awake
  <2>5. worker' \in [Workers -> WorkerPlace]
    BY <1>1, <2>3 DEF Awake, WorkerPlace
  <2>6. LoggerTypeOK'
    BY <1>1, <2>1, <2>2, <2>5 DEF LoggerTypeOK, LoggerRecords, LoggerStates
  <2>7. WorkersInTurn'
    BY <1>2, <2>1, <2>2, <2>4 DEF WorkersInTurn, Busy
  <2>8. OneWriter'
    BY <1>1, <1>2, <2>1, <2>4 DEF OneWriter, Busy
  <2>9. NothingLost'
    BY <1>1, <2>1, <2>4 DEF NothingLost, Whole
  <2> QED
    BY <2>1, <2>2, <2>6, <2>7, <2>8, <2>9 DEF LoggerInv
<1>7. CASE WorkerCleansUp(w)
  <2>1. /\ worker[w] = "cleanup" /\ file' = 0
        /\ worker' = [worker EXCEPT ![w] = "settle"]
        /\ UNCHANGED <<logger, queue, hand, handle, accepted, written, crashed>>
    BY <1>7 DEF WorkerCleansUp
  <2>2. \A v \in Workers : worker'[v] = IF v = w THEN "settle" ELSE worker[v]
    BY <1>1, <2>1
  <2>3. LoggerTypeOK'
    BY <1>1, <2>1 DEF LoggerTypeOK, WorkerPlace
  <2>4. WorkersInTurn' /\ OneWriter'
    BY <1>2, <2>1, <2>2 DEF WorkersInTurn, OneWriter, Busy
  <2>5. NothingLost'
    BY <1>1, <2>1, <2>2 DEF NothingLost, Whole
  <2> QED
    BY <2>1, <2>3, <2>4, <2>5 DEF LoggerInv
<1>8. CASE WorkerSettles(w)
  <2>1. /\ worker[w] = "settle" /\ logger' = SettledLogger(logger)
        /\ worker' = [worker EXCEPT ![w] = "notify"]
        /\ UNCHANGED <<queue, hand, file, handle, accepted, written, crashed>>
    BY <1>8 DEF WorkerSettles
  <2>2. logger' \in LoggerRecords /\ logger'.worker = logger.worker
    <3> DEFINE stopped == [logger EXCEPT !.state = "Stopped"]
               unowed == [stopped EXCEPT !.resumeWhenStopped = FALSE]
               cleared == [unowed EXCEPT !.stopRequested = FALSE]
               opened == [cleared EXCEPT !.admission = "Open"]
    <3>1. stopped \in LoggerRecords /\ stopped.worker = logger.worker
      BY <1>1, FieldWritten DEF LoggerRecords, LoggerStates
    <3>2. unowed \in LoggerRecords /\ unowed.worker = logger.worker
      <4> HIDE DEF stopped
      <4> QED
        BY <3>1, FieldWritten DEF LoggerRecords
    <3>3. cleared \in LoggerRecords /\ cleared.worker = logger.worker
      <4> HIDE DEF unowed
      <4> QED
        BY <3>2, FieldWritten DEF LoggerRecords
    <3>4. opened \in LoggerRecords /\ opened.worker = logger.worker
      <4> HIDE DEF cleared
      <4> QED
        BY <3>3, FieldWritten DEF LoggerRecords
    <3>5. logger' = logger \/ logger' = stopped \/ logger' = opened
      BY <2>1 DEF SettledLogger
    <3> HIDE DEF stopped, opened
    <3> QED
      BY <1>1, <3>1, <3>4, <3>5
  <2>3. \A v \in Workers : worker'[v] = IF v = w THEN "notify" ELSE worker[v]
    BY <1>1, <2>1
  <2>4. \A v \in Workers : worker'[v] \notin Busy
    BY <1>2, <2>1, <2>3 DEF Busy
  <2>5. LoggerTypeOK'
    BY <1>1, <2>1, <2>2 DEF LoggerTypeOK, WorkerPlace, LoggerRecords, LoggerStates
  <2>6. WorkersInTurn' /\ OneWriter'
    BY <2>4 DEF WorkersInTurn, OneWriter, Busy
  <2>7. NothingLost'
    BY <1>1, <2>1, <2>3 DEF NothingLost, Whole
  <2> QED
    BY <2>1, <2>2, <2>5, <2>6, <2>7 DEF LoggerInv
<1>9. CASE WorkerEnds(w)
  <2>1. /\ worker[w] = "notify"
        /\ worker' = [v \in Workers |-> Awake([worker EXCEPT ![w] = "ended"][v])]
        /\ UNCHANGED <<logger, queue, hand, file, handle, accepted, written, crashed>>
    BY <1>9 DEF WorkerEnds, NotifyAll
  <2>2. \A v \in Workers :
           IF v = w THEN worker'[v] = "ended"
           ELSE worker'[v] = worker[v] \/ (worker[v] = "asleep" /\ worker'[v] = "check")
    BY <1>1, <2>1 DEF Awake
  <2>3. worker' \in [Workers -> WorkerPlace]
    BY <1>1, <2>1 DEF Awake, WorkerPlace
  <2>4. LoggerTypeOK'
    BY <1>1, <2>1, <2>3 DEF LoggerTypeOK
  <2>5. WorkersInTurn' /\ OneWriter'
    BY <1>1, <2>1, <2>2 DEF WorkersInTurn, OneWriter, Busy
  <2>6. NothingLost'
    BY <1>1, <2>1, <2>2 DEF NothingLost, Whole
  <2> QED
    BY <2>1, <2>4, <2>5, <2>6 DEF LoggerInv
<1> QED
  BY <1>3, <1>4, <1>5, <1>6, <1>7, <1>8, <1>9 DEF WorkerThread
-----------------------------------------------------------------------------
(* Every step of the library keeps its logger in order.                    *)

\* A step that is not the logger's.
LEMMA IdleKeepsLogger ==
    ASSUME LoggerInv, UNCHANGED <<loggerVars, handle>>
    PROVE  LoggerInv' /\ logger' = logger /\ crashed' = crashed
<1>1. logger \in LoggerRecords
  BY LoggerTyped DEF LoggerInv
<1>2. LeavesLoggerInOrder
  BY <1>1 DEF loggerVars, LeavesLoggerInOrder, LoggerInv, LoggerTypeOK
<1> QED
  BY <1>2, UndisturbedLogger DEF loggerVars

LEMMA StepKeepsLogger ==
    ASSUME LoggerInv, [Next]_vars
    PROVE  LoggerInv'
<1> USE UnloadAssumption DEF LoggerInv
<1>1. CASE UNCHANGED vars
  BY <1>1, IdleKeepsLogger DEF vars
<1>2. CASE \E t \in Activators : ClientCalls(t) \/ EntryRuns(t)
  <2>1. PICK t \in Threads : ClientCalls(t) \/ EntryRuns(t)
    BY <1>2
  <2>2. CASE Log(t)
    BY <2>2, LogLeavesLogger, UndisturbedLogger, PushKeepsLogger, StartKeepsLogger DEF Log
  <2>3. CASE ResumeAfterUnloadRejected(t)
    BY <2>3, ResumeLeavesLogger, UndisturbedLogger
  <2>4. CASE UNCHANGED <<loggerVars, handle>>
    BY <2>4, IdleKeepsLogger
  <2> QED
    BY <2>1, <2>2, <2>3, <2>4
    DEF ClientCalls, EntryRuns, Enters, Uses, Releases, ResumedInEntry, Leaves, Used
<1>3. CASE \E u \in Unloaders : Asks(u) \/ UnloadRuns(u)
  <2>1. PICK u \in Threads : Asks(u) \/ UnloadRuns(u)
    BY <1>3
  <2>2. CASE BeginUnloadQuiescence(u) \/ ResumeAfterUnloadRejected(u)
    BY <2>2, QuiescenceLeavesLogger, ResumeLeavesLogger, UndisturbedLogger
  <2>3. CASE UNCHANGED <<loggerVars, handle>>
    BY <2>3, IdleKeepsLogger
  <2> QED
    BY <2>1, <2>2, <2>3
    DEF Asks, UnloadRuns, Closes, EntriesDrained, DrainTimesOut, ChecksLockAgain, Reopens
<1>4. CASE \E w \in Workers : LoggerRuns(w)
  BY <1>4, WorkerKeepsLogger DEF LoggerRuns
<1> QED
  BY <1>1, <1>2, <1>3, <1>4 DEF Next

LEMMA InitLogger == Init => LoggerInv
<1> SUFFICES ASSUME Init PROVE LoggerInv
  OBVIOUS
<1>1. LoggerTypeOK
  <2>1. logger \in LoggerRecords
    BY LoggerAssumption DEF Init, LoggerInit, LoggerRecords, LoggerStates
  <2>2. /\ queue \in Seq(Nat) /\ written \in Seq(Nat) /\ accepted \in Nat
        /\ worker \in [Workers -> WorkerPlace] /\ hand \in [Workers -> Nat]
    BY DEF Init, LoggerInit, WorkerPlace
  <2>3. file \in 0..MaxStarts /\ handle \in [Threads -> 0..MaxStarts]
    BY LoggerAssumption DEF Init, LoggerInit
  <2>4. crashed \in BOOLEAN
    BY DEF Init, LoggerInit
  <2> QED
    BY <2>1, <2>2, <2>3, <2>4 DEF LoggerTypeOK, LoggerRecords, LoggerStates
<1>2. WorkersInTurn /\ OneWriter
  BY DEF Init, LoggerInit, WorkersInTurn, OneWriter, Busy
<1>3. NothingLost
  BY DEF Init, LoggerInit, NothingLost, Whole
<1> QED
  BY <1>1, <1>2, <1>3 DEF LoggerInv

\* The worker that delivers is the only one with a message in its hand.
LEMMA OneHand == LoggerInv => MessagesInOrder
<1> SUFFICES ASSUME LoggerInv PROVE MessagesInOrder
  OBVIOUS
<1>1. CASE \A w \in Workers : worker[w] # "deliver"
  <2>1. InHand = {}
    BY <1>1 DEF LoggerInv, NothingLost, InHand
  <2>2. Whole(<<>>)
    BY <1>1 DEF LoggerInv, NothingLost
  <2>3. Cardinality(InHand) = 0
    BY <2>1, FS_EmptySet
  <2> QED
    BY <2>1, <2>2, <2>3 DEF MessagesInOrder, Whole
<1>2. CASE \E w \in Workers : worker[w] = "deliver"
  <2>1. PICK w \in Workers : worker[w] = "deliver"
    BY <1>2
  <2>2. hand[w] # 0 /\ Whole(<<hand[w]>>)
    BY <2>1 DEF LoggerInv, NothingLost
  <2>3. \A v \in Workers \ {w} : hand[v] = 0
    BY <2>1 DEF LoggerInv, NothingLost, WorkersInTurn, Busy
  <2>4. InHand = {hand[w]}
    BY <2>2, <2>3 DEF InHand
  <2>5. Cardinality(InHand) = 1
    BY <2>4, FS_Singleton
  <2>6. (CHOOSE m \in InHand : TRUE) = hand[w]
    BY <2>4
  <2> DEFINE m == CHOOSE n \in InHand : TRUE
  <2>7. m = hand[w] /\ InHand # {}
    BY <2>4, <2>6
  <2>8. (IF InHand = {} THEN <<>> ELSE <<m>>) = <<hand[w]>>
    BY <2>7
  <2> HIDE DEF m
  <2>9. Cardinality(InHand) <= 1
    BY <2>5
  <2>10. written \o (IF InHand = {} THEN <<>> ELSE <<m>>) \o queue = [i \in 1..accepted |-> i]
    BY <2>2, <2>8 DEF Whole
  <2> QED
    BY <2>9, <2>10 DEF MessagesInOrder, m
<1> QED
  BY <1>1, <1>2
-----------------------------------------------------------------------------
(* The clients. *)

\* A client holds no more objects than it made calls, the one it is in left out.
ClientsTyped ==
    /\ admission \in {"Open", "Closing"}
    /\ entered \in SUBSET Activators
    /\ calls \in 0..MaxCalls /\ unloads \in 0..MaxUnloads
    /\ objects \in [Activators -> Nat]
    /\ \A t \in Activators : IF pc[t] = "out" THEN objects[t] <= calls
                             ELSE objects[t] + 1 <= calls

\* A thread other than t moves only when it is woken.
OthersStay(t) ==
    \A s \in Threads \ {t} : \/ pc'[s] = pc[s]
                             \/ pc[s] = "quiesceAsleep" /\ pc'[s] = "quiesceCheck"

LEMMA GoingMovesOne ==
    ASSUME pc \in [Threads -> Place], NEW t \in Threads, NEW place, Goto(t, place)
    PROVE  OthersStay(t) /\ pc'[t] = place
BY DEF Goto, OthersStay

LEMMA WakingMovesOne ==
    ASSUME pc \in [Threads -> Place], NEW t \in Threads,
           NEW place \in Place \ {"quiesceAsleep"},
           \/ NotifyOne([pc EXCEPT ![t] = place])
           \/ \E workers : NotifyAll(workers, [pc EXCEPT ![t] = place])
    PROVE  OthersStay(t) /\ pc'[t] = place
<1> DEFINE places == [pc EXCEPT ![t] = place]
<1>1. /\ \A s \in Threads \ {t} : places[s] = pc[s]
      /\ places[t] = place /\ places \in [Threads -> Place]
  OBVIOUS
<1> HIDE DEF places
<1>2. \A s \in Threads : \/ pc'[s] = places[s]
                         \/ places[s] = "quiesceAsleep" /\ pc'[s] = "quiesceCheck"
  BY <1>1 DEF NotifyOne, NotifyAll, AwakeWaiter, SleepingThreads, places
<1> QED
  BY <1>1, <1>2 DEF OthersStay

\* Log, and what it does with the handle.
LEMMA LogMovesOne ==
    ASSUME pc \in [Threads -> Place], NEW t \in Threads, Log(t)
    PROVE  /\ OthersStay(t)
           /\ pc[t] # "out" /\ pc'[t] \in {"logJoin", "logAgain", "logNotify", "logged"}
<1>1. CASE LogNotifies(t)
  BY <1>1, WakingMovesOne DEF LogNotifies, At, Place
<1>2. CASE LogRefused(t) \/ LogJoinsCompletedWorker(t) \/ LogJoined(t) \/ LogStarts(t)
           \/ LogPushes(t)
  <2>1. pc[t] # "out"
    BY <1>2
    DEF LogRefused, LogJoinsCompletedWorker, LogJoined, LogStarts, LogPushes, At
  <2>2. \E place \in {"logJoin", "logAgain", "logNotify", "logged"} : Goto(t, place)
    BY <1>2 DEF LogRefused, LogJoinsCompletedWorker, LogJoined, LogStarts, LogPushes
  <2> QED
    BY <2>1, <2>2, GoingMovesOne
<1> QED
  BY <1>1, <1>2 DEF Log

LEMMA ResumeMovesOne ==
    ASSUME pc \in [Threads -> Place], NEW t \in Threads, ResumeAfterUnloadRejected(t)
    PROVE  /\ OthersStay(t)
           /\ pc[t] # "out" /\ pc'[t] \in {"resumeJoin", "resumeNotify", "resumed"}
<1>1. CASE ResumeNotifies(t)
  BY <1>1, WakingMovesOne DEF ResumeNotifies, At, Place
<1>2. CASE ResumeBegins(t) \/ ResumeReopens(t)
  <2>1. \E place \in {"resumeJoin", "resumeNotify", "resumed"} : Goto(t, place)
    BY <1>2 DEF ResumeBegins, ResumeReopens
  <2> QED
    BY <1>2, <2>1, GoingMovesOne DEF ResumeBegins, ResumeReopens, At
<1> QED
  BY <1>1, <1>2 DEF ResumeAfterUnloadRejected

LEMMA QuiescenceMovesOne ==
    ASSUME pc \in [Threads -> Place], NEW t \in Threads, BeginUnloadQuiescence(t)
    PROVE  OthersStay(t)
<1>1. CASE QuiesceNotifies(t)
  BY <1>1, WakingMovesOne DEF QuiesceNotifies, Place
<1>2. CASE QuiesceBegins(t) \/ QuiesceChecks(t) \/ QuiesceTimesOut(t) \/ QuiesceJoins(t)
  <2>1. \E place : Goto(t, place)
    BY <1>2
    DEF QuiesceBegins, QuiesceChecks, QuiesceTimesOut, QuiesceJoins, AwaitStopped
  <2> QED
    BY <2>1, GoingMovesOne
<1> QED
  BY <1>1, <1>2 DEF BeginUnloadQuiescence

LEMMA WorkerMovesNone ==
    ASSUME pc \in [Threads -> Place], NEW w \in Workers, WorkerThread(w)
    PROVE  \A s \in Threads : \/ pc'[s] = pc[s]
                              \/ pc[s] = "quiesceAsleep" /\ pc'[s] = "quiesceCheck"
<1>1. CASE WorkerTakes(w) \/ WorkerDelivers(w) \/ WorkerCleansUp(w) \/ WorkerSettles(w)
  BY <1>1 DEF WorkerTakes, WorkerDelivers, WorkerCleansUp, WorkerSettles
<1>2. CASE WorkerFails(w) \/ WorkerEnds(w)
  BY <1>2 DEF WorkerFails, WorkerEnds, NotifyAll, AwakeWaiter
<1> QED
  BY <1>1, <1>2 DEF WorkerThread

\* The clients go on while no call of theirs begins or ends.
LEMMA CallsGoOn ==
    ASSUME ClientsTyped, objects' = objects, calls' = calls,
           admission' \in {"Open", "Closing"}, entered' \in SUBSET Activators,
           unloads' \in 0..MaxUnloads,
           \A t \in Activators : pc'[t] = "out" <=> pc[t] = "out"
    PROVE  ClientsTyped'
BY DEF ClientsTyped

LEMMA StepKeepsClients ==
    ASSUME PlacesTyped, ClientsTyped, [Next]_vars
    PROVE  ClientsTyped'
<1> USE UnloadAssumption DEF gateVars, clientVars
<1>1. pc \in [Threads -> Place]
  BY DEF PlacesTyped
<1>2. CASE UNCHANGED vars
  BY <1>2, CallsGoOn DEF vars, ClientsTyped
<1>3. CASE \E t \in Activators : ClientCalls(t) \/ EntryRuns(t)
  <2>1. PICK t \in Activators : ClientCalls(t) \/ EntryRuns(t)
    BY <1>3
  <2>2. CASE Enters(t) \/ Uses(t)
    <3>1. PICK place \in Place \ {"out"} : Goto(t, place)
      BY <2>2 DEF Enters, Uses, Place
    <3>2. /\ pc[t] = "out" /\ pc'[t] # "out"
          /\ \A s \in Activators \ {t} : pc'[s] = pc[s]
      BY <1>1, <2>2, <3>1 DEF Enters, Uses, Goto, At
    <3>3. /\ calls' = calls + 1 /\ calls < MaxCalls
          /\ objects' = objects /\ unloads' = unloads
          /\ admission' \in {"Open", "Closing"} /\ entered' \in SUBSET Activators
      BY <2>2 DEF Enters, Uses, ClientsTyped
    <3> QED
      BY <3>2, <3>3 DEF ClientsTyped
  <2>3. CASE Leaves(t) \/ Used(t)
    <3>1. PICK made \in {0, 1} : objects' = [objects EXCEPT ![t] = @ + made]
      BY <2>3 DEF Leaves, Used
    <3>2. /\ pc[t] # "out" /\ pc'[t] = "out"
          /\ \A s \in Activators \ {t} : pc'[s] = pc[s]
      BY <1>1, <2>3 DEF Leaves, Used, Goto, At
    <3>3. /\ calls' = calls /\ unloads' = unloads
          /\ admission' \in {"Open", "Closing"} /\ entered' \in SUBSET Activators
      BY <2>3 DEF Leaves, Used, ClientsTyped
    <3>4. /\ objects' \in [Activators -> Nat] /\ objects'[t] = objects[t] + made
          /\ \A s \in Activators \ {t} : objects'[s] = objects[s]
      BY <3>1 DEF ClientsTyped
    <3>5. objects'[t] <= calls
      BY <3>2, <3>4 DEF ClientsTyped
    <3> QED
      BY <3>2, <3>3, <3>4, <3>5 DEF ClientsTyped
  <2>4. CASE Releases(t)
    <3>1. /\ objects' = [objects EXCEPT ![t] = @ - 1] /\ objects[t] # 0 /\ pc[t] = "out"
          /\ UNCHANGED <<pc, calls, unloads, admission, entered>>
      BY <2>4 DEF Releases, At
    <3>2. /\ objects' \in [Activators -> Nat]
          /\ \A s \in Activators : objects'[s] <= objects[s]
      BY <3>1 DEF ClientsTyped
    <3> QED
      BY <3>1, <3>2 DEF ClientsTyped
  <2>5. CASE ResumedInEntry(t)
    <3>1. \A s \in Activators : pc'[s] = "out" <=> pc[s] = "out"
      BY <1>1, <2>5 DEF ResumedInEntry, Goto, At
    <3> QED
      BY <2>5, <3>1, CallsGoOn DEF ResumedInEntry, ClientsTyped
  <2>6. CASE (Log(t) \/ ResumeAfterUnloadRejected(t)) /\ UNCHANGED <<gateVars, clientVars>>
    <3>1. \A s \in Activators : pc'[s] = "out" <=> pc[s] = "out"
      BY <1>1, <2>6, LogMovesOne, ResumeMovesOne DEF OthersStay
    <3> QED
      BY <2>6, <3>1, CallsGoOn DEF ClientsTyped
  <2> QED
    BY <2>1, <2>2, <2>3, <2>4, <2>5, <2>6 DEF ClientCalls, EntryRuns
<1>4. CASE \E u \in Unloaders : Asks(u) \/ UnloadRuns(u)
  <2>1. PICK u \in Unloaders : Asks(u) \/ UnloadRuns(u)
    BY <1>4
  <2>2. OthersStay(u)
    <3>1. CASE BeginUnloadQuiescence(u) \/ ResumeAfterUnloadRejected(u)
      BY <1>1, <3>1, QuiescenceMovesOne, ResumeMovesOne
    <3>2. CASE \E place : Goto(u, place)
      BY <1>1, <3>2, GoingMovesOne
    <3> QED
      BY <2>1, <3>1, <3>2
      DEF Asks, UnloadRuns, Closes, EntriesDrained, DrainTimesOut, ChecksLockAgain, Reopens
  <2>3. \A s \in Activators : pc'[s] = "out" <=> pc[s] = "out"
    BY <2>2 DEF OthersStay
  <2>4. /\ objects' = objects /\ calls' = calls
        /\ admission' \in {"Open", "Closing"} /\ entered' \in SUBSET Activators
        /\ unloads' \in 0..MaxUnloads
    BY <2>1
    DEF Asks, UnloadRuns, Closes, EntriesDrained, DrainTimesOut, ChecksLockAgain, Reopens,
        ClientsTyped
  <2> QED
    BY <2>3, <2>4, CallsGoOn
<1>5. CASE \E w \in Workers : LoggerRuns(w)
  <2>1. \A s \in Threads : pc'[s] = "out" <=> pc[s] = "out"
    BY <1>1, <1>5, WorkerMovesNone DEF LoggerRuns
  <2> QED
    BY <1>5, <2>1, CallsGoOn DEF LoggerRuns, ClientsTyped
<1> QED
  BY <1>2, <1>3, <1>4, <1>5 DEF Next
-----------------------------------------------------------------------------
(* The theorems about the logger. *)

\* For any number of clients, of threads that ask to unload and of workers, and
\* whatever fails: what Log accepted is written once and in the order of the
\* calls, and no worker closes the file under the next one.
THEOREM LoggerSoundHolds == Spec => []LoggerSound
<1> DEFINE Inv == LoggerInv /\ PlacesTyped /\ OnlyLateEntries /\ ClientsTyped
<1>1. Init => Inv
  <2>1. Init => PlacesTyped /\ OnlyLateEntries
    BY UnloadAssumption DEF Init, PlacesTyped, OnlyLateEntries, PastDrain, Place
  <2>2. Init => ClientsTyped
    BY UnloadAssumption DEF Init, ClientsTyped
  <2> QED
    BY <2>1, <2>2, InitLogger
<1>2. Inv /\ [Next]_vars => Inv'
  BY StepKeepsLogger, StepKeepsLateEntries, StepKeepsClients
<1>3. Inv => LoggerSound
  <2> SUFFICES ASSUME Inv PROVE TypeOK /\ MessagesInOrder /\ OneWriter
    BY DEF LoggerSound
  <2>1. objects \in [Activators -> 0..MaxCalls]
    BY UnloadAssumption DEF ClientsTyped
  <2>2. TypeOK
    BY <2>1 DEF TypeOK, LoggerInv, PlacesTyped, ClientsTyped
  <2> QED
    BY <2>2, OneHand DEF LoggerInv
<1> QED
  BY <1>1, <1>2, <1>3, PTL DEF Spec
=============================================================================
