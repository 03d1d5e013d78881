----------------------- MODULE ProviderSession_proofs -----------------------
(***************************************************************************)
(* The provider's life and its offer of pipes: for any number of clients,  *)
(* processes and pairs, whatever the clients say and whatever fails.       *)
(* Then where anything is said: on the talker's own pipes, while it holds  *)
(* them.  What is said there is the matter of Conversation_proofs.         *)
(***************************************************************************)
EXTENDS ProviderSession, FiniteSetTheorems, SequenceTheorems, TLAPS

-----------------------------------------------------------------------------
(* The invariants.  A field whose type no proof needs ranges over its      *)
(* value.                                                                  *)

PairFields(r) ==
    [owner : Processes \cup {NoProcess}, control : Ends, audio : Ends,
     commands : {r.commands}, replies : {r.replies}, pcm : {r.pcm}]

TypedPairs(f) == f = [p \in Pairs |-> f[p]] /\ \A p \in Pairs : f[p] \in PairFields(f[p])

Timers == {"none", "armed", "due"}

ProcFields ==
    [place : Place, at : 0 .. MaxPairs, shutdown : BOOLEAN, timer : Timers, stale : BOOLEAN,
     active : Nat]

ProcTyped ==
    proc = [q \in Processes |-> proc[q]] /\ \A q \in Processes : proc[q] \in ProcFields

Serving == {"reading", "cancelling"}

SessionTyped ==
    /\ session = [p \in Pairs |-> session[p]]
    /\ \A p \in Pairs : session[p] \in Serving \cup {"none", "ended"}

ServedBy(q) == {p \in Pairs : pairs[p].owner = q /\ session[p] \in Serving}

\* A pair that is offered, or accepted and not yet opened, is new.
OfferedIsNew ==
    \A q \in Processes : proc[q].place \in {"control", "audio", "accept", "opened"} =>
       /\ proc[q].at \in Pairs /\ pairs[proc[q].at].owner = q
       /\ session[proc[q].at] = "none"

FreeIsNew ==
    \A p \in FreePairs :
       pairs[p].control = "none" /\ pairs[p].audio = "none" /\ session[p] = "none"

ServersRun ==
    \A p \in Pairs : session[p] \in Serving => pairs[p].owner \in Processes /\ Running(pairs[p].owner)

\* ProviderLifetime counts the sessions, and times the process when there is none.
ActiveCounts == \A q \in Processes : proc[q].active = Cardinality(ServedBy(q))

IdleIsTimed ==
    \A q \in Processes :
       Running(q) /\ proc[q].active = 0 => proc[q].shutdown \/ proc[q].timer # "none"

LifetimeInv ==
    /\ TypedPairs(pairs) /\ ProcTyped /\ SessionTyped
    /\ OfferedIsNew /\ FreeIsNew /\ ServersRun /\ ActiveCounts /\ IdleIsTimed

-----------------------------------------------------------------------------
(* Who has which instance.                                                 *)

ClientFields(r) ==
    [place : ClientPlaces, control : 0 .. MaxPairs, audio : 0 .. MaxPairs, own : {r.own},
     tries : {r.tries}]

ClientTyped ==
    /\ client = [c \in Clients |-> client[c]]
    /\ \A c \in Clients : client[c] \in ClientFields(client[c])

\* A control pipe that is a client's is the one the client has its handle of.
ControlIsHeld ==
    \A p \in Pairs : \A c \in Clients : pairs[p].control = c =>
       client[c].control = p /\ client[c].place \in {"audio", "connected", "closing"}

Accepting == {"control", "audio", "accept"}

Offers(q, p) == proc[q].place \in Accepting /\ proc[q].at = p

\* Only the pair a process offers listens, its audio pipe from when it is created.
ListensWhenOffered ==
    \A p \in Pairs :
       /\ pairs[p].control = "listening" => \E q \in Processes : Offers(q, p)
       /\ pairs[p].audio = "listening" =>
             \E q \in Processes : Offers(q, p) /\ proc[q].place # "control"

\* One process has been launched, or none.
Alone ==
    \A q, r \in Processes : proc[q].place # "absent" /\ proc[r].place # "absent" => q = r

\* Then the pair whose control pipe a client has opened is still the one that is
\* offered, with its audio pipe still to be had; or the process has exited.
HalfOpen(c) ==
    LET p == client[c].control
        q == pairs[p].owner
    IN  /\ p \in Pairs /\ q \in Processes
        /\ IF pairs[p].control = c
           THEN Offers(q, p) /\ (proc[q].place # "control" => pairs[p].audio = "listening")
           ELSE proc[q].place = "exited"

\* And a control pipe nobody has opened yet has its audio pipe beside it.
AudioFollows ==
    Alone => \A p \in Pairs : \A q \in Processes :
       pairs[p].control = "listening" /\ Offers(q, p) /\ proc[q].place # "control" =>
          pairs[p].audio = "listening"

Uncrossed ==
    Alone => \A c \in Clients :
       /\ Is(c, "audio") => HalfOpen(c)
       /\ Is(c, "connected") => client[c].control = client[c].audio

CrossInv ==
    /\ LifetimeInv /\ ClientTyped
    /\ ControlIsHeld /\ ListensWhenOffered /\ AudioFollows /\ Uncrossed
-----------------------------------------------------------------------------
(* What happens in the pipes leaves their ends alone. *)

SameEnds(f, g) ==
    /\ TypedPairs(g)
    /\ \A p \in Pairs : /\ g[p].owner = f[p].owner
                        /\ g[p].control = f[p].control /\ g[p].audio = f[p].audio

LEMMA CommandsMove ==
    ASSUME NEW f, TypedPairs(f), NEW x, NEW v
    PROVE  SameEnds(f, [f EXCEPT ![x].commands = v])
<1> DEFINE g == [f EXCEPT ![x].commands = v]
<1>1. \A p \in Pairs : f[p] \in PairFields(f[p]) /\ f = [r \in Pairs |-> f[r]]
  BY DEF TypedPairs
<1>2. \A p \in Pairs : g[p] = IF p = x THEN [f[p] EXCEPT !.commands = v] ELSE f[p]
  BY <1>1
<1>3. g = [p \in Pairs |-> g[p]]
  BY DEF TypedPairs
<1> HIDE DEF g
<1>4. \A p \in Pairs : /\ g[p].owner = f[p].owner
                       /\ g[p].control = f[p].control /\ g[p].audio = f[p].audio
                       /\ g[p] \in PairFields(g[p])
  BY <1>1, <1>2, ZenonT(40) DEF PairFields
<1>5. SameEnds(f, g)
  BY <1>3, <1>4 DEF SameEnds, TypedPairs
<1> QED
  BY <1>5 DEF g

LEMMA RepliesMove ==
    ASSUME NEW f, TypedPairs(f), NEW x, NEW v
    PROVE  SameEnds(f, [f EXCEPT ![x].replies = v])
<1> DEFINE g == [f EXCEPT ![x].replies = v]
<1>1. \A p \in Pairs : f[p] \in PairFields(f[p]) /\ f = [r \in Pairs |-> f[r]]
  BY DEF TypedPairs
<1>2. \A p \in Pairs : g[p] = IF p = x THEN [f[p] EXCEPT !.replies = v] ELSE f[p]
  BY <1>1
<1>3. g = [p \in Pairs |-> g[p]]
  BY DEF TypedPairs
<1> HIDE DEF g
<1>4. \A p \in Pairs : /\ g[p].owner = f[p].owner
                       /\ g[p].control = f[p].control /\ g[p].audio = f[p].audio
                       /\ g[p] \in PairFields(g[p])
  BY <1>1, <1>2, ZenonT(40) DEF PairFields
<1>5. SameEnds(f, g)
  BY <1>3, <1>4 DEF SameEnds, TypedPairs
<1> QED
  BY <1>5 DEF g

LEMMA AudioMoves ==
    ASSUME NEW f, TypedPairs(f), NEW x, NEW v
    PROVE  SameEnds(f, [f EXCEPT ![x].pcm = v])
<1> DEFINE g == [f EXCEPT ![x].pcm = v]
<1>1. \A p \in Pairs : f[p] \in PairFields(f[p]) /\ f = [r \in Pairs |-> f[r]]
  BY DEF TypedPairs
<1>2. \A p \in Pairs : g[p] = IF p = x THEN [f[p] EXCEPT !.pcm = v] ELSE f[p]
  BY <1>1
<1>3. g = [p \in Pairs |-> g[p]]
  BY DEF TypedPairs
<1> HIDE DEF g
<1>4. \A p \in Pairs : /\ g[p].owner = f[p].owner
                       /\ g[p].control = f[p].control /\ g[p].audio = f[p].audio
                       /\ g[p] \in PairFields(g[p])
  BY <1>1, <1>2, ZenonT(40) DEF PairFields
<1>5. SameEnds(f, g)
  BY <1>3, <1>4 DEF SameEnds, TypedPairs
<1> QED
  BY <1>5 DEF g

LEMMA NothingMoves ==
    ASSUME TypedPairs(pairs), pairs' = pairs
    PROVE  SameEnds(pairs, pairs')
BY DEF SameEnds

\* A session that serves goes on serving, and no other begins or ends.
SameServing ==
    /\ SessionTyped'
    /\ \A p \in Pairs : \/ session'[p] = session[p]
                        \/ session[p] \in Serving /\ session'[p] \in Serving

\* A step inside the pipes, a session or a client.
Inside == SameEnds(pairs, pairs') /\ UNCHANGED proc /\ SameServing

LEMMA ReadsInside ==
    ASSUME TypedPairs(pairs), SessionTyped, Reads
    PROVE  Inside /\ UNCHANGED client
<1>1. UNCHANGED <<proc, session, client>> /\ ReadSteps
  BY DEF Reads, conversation, ReadSteps, BeginControlRead, BeginAudioRead, ControlArrives,
         AudioArrives, ReadsMessage, Overflows, PipeEnds, CancelsRead, CancellationTakes,
         Returns
<1>2. SameServing
  BY <1>1 DEF SameServing, SessionTyped
<1>3. CASE ControlArrives
  <2>1. PICK x, v : pairs' = [pairs EXCEPT ![x].replies = v]
    BY <1>3 DEF ControlArrives
  <2> QED
    <3>1. SameEnds(pairs, [pairs EXCEPT ![x].replies = v])
      BY RepliesMove
    <3> QED
      BY <1>1, <1>2, <2>1, <3>1 DEF Inside
<1>4. CASE AudioArrives
  <2>1. PICK x, v : pairs' = [pairs EXCEPT ![x].pcm = v]
    BY <1>4 DEF AudioArrives
  <2> QED
    <3>1. SameEnds(pairs, [pairs EXCEPT ![x].pcm = v])
      BY AudioMoves
    <3> QED
      BY <1>1, <1>2, <2>1, <3>1 DEF Inside
<1>5. CASE pairs' = pairs
  BY <1>1, <1>2, <1>5, NothingMoves DEF Inside
<1> QED
  BY <1>1, <1>3, <1>4, <1>5 DEF ReadSteps, BeginControlRead, BeginAudioRead, ReadsMessage,
     Overflows, PipeEnds, CancelsRead, CancellationTakes, Returns

LEMMA TalkInside ==
    ASSUME TypedPairs(pairs), SessionTyped, AsksInfo \/ GetsInfo \/ SendsSpeak \/ BeginsCancel \/ SendsCancel
    PROVE  Inside /\ UNCHANGED client
<1>1. /\ UNCHANGED <<proc, session, client>>
      /\ pairs' = pairs \/ \E kind, id, shape : SendCommand(Talker, kind, id, shape)
  BY DEF AsksInfo, GetsInfo, SendsSpeak, BeginsCancel, SendsCancel
<1>2. SameServing
  BY <1>1 DEF SameServing, SessionTyped
<1>3. CASE \E kind, id, shape : SendCommand(Talker, kind, id, shape)
  <2>1. PICK x, v : pairs' = [pairs EXCEPT ![x].commands = v]
    BY <1>3 DEF SendCommand
  <2> QED
    <3>1. SameEnds(pairs, [pairs EXCEPT ![x].commands = v])
      BY CommandsMove
    <3> QED
      BY <1>1, <1>2, <2>1, <3>1 DEF Inside
<1> QED
  BY <1>1, <1>2, <1>3, NothingMoves DEF Inside

LEMMA SynthesisInside ==
    ASSUME TypedPairs(pairs), SessionTyped, NEW y \in Pairs, Synthesizes(y)
    PROVE  Inside /\ UNCHANGED client
<1>1. UNCHANGED <<proc, session, client>> /\ TaskSteps(y)
  BY DEF Synthesizes, clientSide, TaskSteps, TaskCancelled, EndsText, SaysWord, WritesFirst,
         BuffersWord, FirstWritten, Completes, FlushesNext, BufferWritten, WriteCancelled,
         SaysLateBoundary, AcknowledgesCancel, ReportsError, TaskFails, Speaks
<1>2. SameServing
  BY <1>1 DEF SameServing, SessionTyped
<1>3. CASE \E x, v : pairs' = [pairs EXCEPT ![x].replies = v]
  <2>1. PICK x, v : pairs' = [pairs EXCEPT ![x].replies = v]
    BY <1>3
  <2>2. SameEnds(pairs, [pairs EXCEPT ![x].replies = v])
    BY RepliesMove
  <2> QED
    BY <1>1, <1>2, <2>1, <2>2 DEF Inside
<1>4. CASE \E x, v : pairs' = [pairs EXCEPT ![x].pcm = v]
  <2>1. PICK x, v : pairs' = [pairs EXCEPT ![x].pcm = v]
    BY <1>4
  <2>2. SameEnds(pairs, [pairs EXCEPT ![x].pcm = v])
    BY AudioMoves
  <2> QED
    BY <1>1, <1>2, <2>1, <2>2 DEF Inside
<1>5. CASE pairs' = pairs
  BY <1>1, <1>2, <1>5, NothingMoves DEF Inside
<1>6. ASSUME NEW event, NEW bytes, Emit(y, event, bytes)
      PROVE  \E x, v : pairs' = [pairs EXCEPT ![x].replies = v]
  BY <1>6 DEF Emit, WriteRecord
<1>7. CASE \E event, bytes : Emit(y, event, bytes)
  BY <1>3, <1>6, <1>7
<1>8. CASE SaysWord(y) \/ Completes(y) \/ SaysLateBoundary(y)
  BY <1>7, <1>8 DEF SaysWord, Completes, SaysLateBoundary
<1>9. CASE AcknowledgesCancel(y) \/ ReportsError(y)
  BY <1>7, <1>9 DEF AcknowledgesCancel, ReportsError
<1>10. CASE WritesFirst(y)
  <2> DEFINE v == <<task.id, task.id>>
  <2>1. pairs' = [pairs EXCEPT ![y].pcm = v]
    BY <1>10 DEF WritesFirst
  <2> HIDE DEF v
  <2> QED
    BY <1>4, <2>1
<1>11. CASE WriteCancelled(y)
  <2> DEFINE v == <<>>
  <2>1. pairs' = [pairs EXCEPT ![y].pcm = v]
    BY <1>11 DEF WriteCancelled
  <2> HIDE DEF v
  <2> QED
    BY <1>4, <2>1
<1>12. CASE FlushesNext(y)
  <2>1. pairs' = pairs \/ \E x, v : pairs' = [pairs EXCEPT ![x].pcm = v]
    BY <1>12 DEF FlushesNext
  <2> QED
    BY <1>4, <1>5, <2>1
<1>13. CASE TaskCancelled(y) \/ EndsText(y) \/ BuffersWord(y) \/ FirstWritten(y)
            \/ BufferWritten(y) \/ TaskFails(y)
  BY <1>5, <1>13 DEF TaskCancelled, EndsText, BuffersWord, FirstWritten, BufferWritten, TaskFails
<1> QED
  BY <1>1, <1>8, <1>9, <1>10, <1>11, <1>12, <1>13 DEF TaskSteps

\* The loop takes a command.
LEMMA LoopInside ==
    ASSUME TypedPairs(pairs), SessionTyped, NEW y \in Pairs,
           \/ AnswersQuery(y) \/ RefusesSpeak(y) \/ StartsSpeak(y) \/ HandlesCancel(y)
           \/ CancelAwaited(y)
    PROVE  SameEnds(pairs, pairs') /\ UNCHANGED proc /\ SameServing
<1>1. SameEnds(pairs, Taken(y))
  <2> DEFINE v == Tail(pairs[y].commands)
  <2>1. Taken(y) = [pairs EXCEPT ![y].commands = v]
    BY DEF Taken
  <2> HIDE DEF v
  <2>2. SameEnds(pairs, [pairs EXCEPT ![y].commands = v])
    BY CommandsMove
  <2> QED
    BY <2>1, <2>2
<1>2. SameServing
  <2>1. CASE session' = session
    BY <2>1 DEF SameServing, SessionTyped
  <2>2. CASE HandlesCancel(y)
    <3>1. session[y] = "reading" /\ (session' = session
             \/ session' = [session EXCEPT ![y] = "cancelling"])
      BY <2>2 DEF HandlesCancel, NextCommand, SessionTyped
    <3> QED
      BY <3>1 DEF SameServing, SessionTyped, Serving
  <2>3. CASE CancelAwaited(y)
    <3>1. session[y] = "cancelling" /\ session' = [session EXCEPT ![y] = "reading"]
      BY <2>3 DEF CancelAwaited
    <3> QED
      BY <3>1 DEF SameServing, SessionTyped, Serving
  <2> QED
    BY <2>1, <2>2, <2>3 DEF AnswersQuery, RefusesSpeak, StartsSpeak
<1>3. ASSUME \E event, id : Reply(Taken(y), y, event, id)
      PROVE  SameEnds(pairs, pairs')
  <2>1. CASE pairs' = Taken(y)
    BY <1>1, <2>1
  <2>2. CASE \E v : pairs' = [Taken(y) EXCEPT ![y].replies = v]
    <3>1. PICK v : pairs' = [Taken(y) EXCEPT ![y].replies = v]
      BY <2>2
    <3>2. SameEnds(Taken(y), [Taken(y) EXCEPT ![y].replies = v])
      BY <1>1, RepliesMove, SMTT(40) DEF SameEnds
    <3> QED
      BY <1>1, <3>1, <3>2 DEF SameEnds
  <2>3. pairs' = Taken(y) \/ \E v : pairs' = [Taken(y) EXCEPT ![y].replies = v]
    BY <1>3 DEF Reply, WriteRecord
  <2> QED
    BY <2>1, <2>2, <2>3
<1>4. SameEnds(pairs, pairs')
  BY <1>1, <1>3, NothingMoves
     DEF AnswersQuery, RefusesSpeak, StartsSpeak, HandlesCancel, CancelAwaited
<1>5. UNCHANGED proc
  BY DEF AnswersQuery, RefusesSpeak, StartsSpeak, HandlesCancel, CancelAwaited
<1> QED
  BY <1>2, <1>4, <1>5

\* What happens inside keeps the invariant.
LEMMA InsideKeepsLifetime ==
    ASSUME LifetimeInv, TypedPairs(pairs'), UNCHANGED proc, SameServing,
           \A p \in Pairs : pairs'[p].owner = pairs[p].owner,
           \A p \in FreePairs : pairs'[p].control = "none" /\ pairs'[p].audio = "none"
    PROVE  LifetimeInv'
<1>1. \A q \in Processes : ServedBy(q)' = ServedBy(q)
  BY DEF ServedBy, SameServing
<1>2. \A p \in Pairs : session[p] = "none" => session'[p] = "none"
  BY DEF SameServing, Serving
<1>3. ProcTyped' /\ OfferedIsNew'
  BY <1>2 DEF LifetimeInv, ProcTyped, OfferedIsNew
<1>4. FreeIsNew'
  BY <1>2 DEF LifetimeInv, FreeIsNew, FreePairs
<1>5. ServersRun'
  BY DEF LifetimeInv, ServersRun, SameServing, Running
<1>6. ActiveCounts'
  <2> SUFFICES ASSUME NEW q \in Processes
               PROVE  proc'[q].active = Cardinality(ServedBy(q)')
    BY DEF ActiveCounts
  <2> QED
    BY <1>1 DEF LifetimeInv, ActiveCounts
<1>7. IdleIsTimed'
  BY DEF LifetimeInv, IdleIsTimed, Running
<1> QED
  BY <1>3, <1>4, <1>5, <1>6, <1>7 DEF LifetimeInv, SameServing
-----------------------------------------------------------------------------
(* The provider's process. *)

Offering == {"control", "audio", "accept", "opened"}

Alive(r) == r.place \notin {"absent", "exited"}

LEMMA ProcessMoves ==
    ASSUME ProcTyped, NEW q \in Processes, NEW r \in ProcFields,
           proc' = [proc EXCEPT ![q] = r]
    PROVE  /\ ProcTyped' /\ proc'[q] = r
           /\ \A x \in Processes \ {q} : proc'[x] = proc[x]
<1>1. \A x \in Processes : proc'[x] = IF x = q THEN r ELSE proc[x]
  BY DEF ProcTyped
<1>2. proc' = [x \in Processes |-> proc'[x]]
  BY DEF ProcTyped
<1> QED
  BY <1>1, <1>2 DEF ProcTyped

\* A step of a process that leaves its pairs and sessions alone.
LEMMA ProcessKeepsLifetime ==
    ASSUME LifetimeInv, UNCHANGED <<pairs, session>>, NEW q \in Processes, NEW r \in ProcFields,
           proc' = [proc EXCEPT ![q] = r], r.active = proc[q].active,
           r.place \in Offering => proc[q].place \in Offering /\ r.at = proc[q].at,
           Alive(proc[q]) => Alive(r),
           Alive(r) /\ r.active = 0 => r.shutdown \/ r.timer # "none"
    PROVE  LifetimeInv'
<1>1. /\ ProcTyped' /\ proc'[q] = r
      /\ \A x \in Processes \ {q} : proc'[x] = proc[x]
  BY ProcessMoves DEF LifetimeInv
<1>2. OfferedIsNew' /\ FreeIsNew'
  BY <1>1 DEF LifetimeInv, OfferedIsNew, FreeIsNew, FreePairs, Offering
<1>3. ServersRun'
  BY <1>1 DEF LifetimeInv, ServersRun, Running, Alive
<1>4. ActiveCounts'
  <2>1. \A x \in Processes : proc'[x].active = proc[x].active
    BY <1>1
  <2>2. \A x \in Processes : ServedBy(x)' = ServedBy(x)
    BY DEF ServedBy
  <2> QED
    BY <2>1, <2>2 DEF LifetimeInv, ActiveCounts
<1>5. IdleIsTimed'
  BY <1>1 DEF LifetimeInv, IdleIsTimed, Running, Alive
<1> QED
  BY <1>1, <1>2, <1>3, <1>4, <1>5 DEF LifetimeInv, TypedPairs, SessionTyped

LEMMA WaitingKeepsLifetime ==
    ASSUME LifetimeInv, NEW q \in Processes,
           StartsWaits(q) \/ Accepts(q) \/ DelayEnds(q) \/ TryTriggerShutdown(q)
    PROVE  LifetimeInv' /\ UNCHANGED <<pairs, session>>
<1> DEFINE m == proc[q]
<1>1. m \in ProcFields /\ proc = [x \in Processes |-> proc[x]] /\ UNCHANGED <<pairs, session>>
  BY DEF LifetimeInv, ProcTyped, StartsWaits, Accepts, DelayEnds, TryTriggerShutdown
<1>2. Alive(m) /\ m.active = 0 => m.shutdown \/ m.timer # "none"
  BY DEF LifetimeInv, IdleIsTimed, Running, Alive
<1>3. CASE StartsWaits(q)
  <2> DEFINE r == [m EXCEPT !.place = "accept"]
  <2>1. proc' = [proc EXCEPT ![q] = r] /\ m.place = "audio"
    BY <1>1, <1>3 DEF StartsWaits, At
  <2> HIDE DEF m
  <2>2. r \in ProcFields /\ r.active = m.active /\ (Alive(m) => Alive(r))
        /\ (r.place \in Offering => m.place \in Offering /\ r.at = m.at)
        /\ (Alive(r) /\ r.active = 0 => r.shutdown \/ r.timer # "none")
    BY <1>1, <1>2, <2>1 DEF ProcFields, Alive, Offering, Place, Timers
  <2> HIDE DEF r
  <2> QED
    BY <1>1, <2>1, <2>2, ProcessKeepsLifetime DEF m
<1>4. CASE Accepts(q)
  <2> DEFINE r == [m EXCEPT !.place = "opened"]
  <2>1. proc' = [proc EXCEPT ![q] = r] /\ m.place = "accept"
    BY <1>1, <1>4 DEF Accepts, At
  <2> HIDE DEF m
  <2>2. r \in ProcFields /\ r.active = m.active /\ (Alive(m) => Alive(r))
        /\ (r.place \in Offering => m.place \in Offering /\ r.at = m.at)
        /\ (Alive(r) /\ r.active = 0 => r.shutdown \/ r.timer # "none")
    BY <1>1, <1>2, <2>1 DEF ProcFields, Alive, Offering, Place, Timers
  <2> HIDE DEF r
  <2> QED
    BY <1>1, <2>1, <2>2, ProcessKeepsLifetime DEF m
<1>5. CASE DelayEnds(q)
  <2> DEFINE r == [m EXCEPT !.timer = "due"]
  <2>1. proc' = [proc EXCEPT ![q] = r]
    BY <1>1, <1>5 DEF DelayEnds
  <2> HIDE DEF m
  <2>2. r \in ProcFields /\ r.active = m.active /\ (Alive(m) => Alive(r))
        /\ (r.place \in Offering => m.place \in Offering /\ r.at = m.at)
        /\ (Alive(r) /\ r.active = 0 => r.shutdown \/ r.timer # "none")
    BY <1>1, <1>2, <2>1 DEF ProcFields, Alive, Offering, Place, Timers
  <2> HIDE DEF r
  <2> QED
    BY <1>1, <2>1, <2>2, ProcessKeepsLifetime DEF m
<1>6. CASE /\ proc[q].active = 0
           /\ proc' = [proc EXCEPT ![q].timer = "none", ![q].shutdown = TRUE]
  <2> DEFINE r == [m EXCEPT !.timer = "none", !.shutdown = TRUE]
  <2>1. proc' = [proc EXCEPT ![q] = r]
    BY <1>1, <1>6 DEF At
  <2> HIDE DEF m
  <2>2. r \in ProcFields /\ r.active = m.active /\ (Alive(m) => Alive(r))
        /\ (r.place \in Offering => m.place \in Offering /\ r.at = m.at)
        /\ (Alive(r) /\ r.active = 0 => r.shutdown \/ r.timer # "none")
    BY <1>1, <1>2, <2>1 DEF ProcFields, Alive, Offering, Place, Timers
  <2> HIDE DEF r
  <2> QED
    BY <1>1, <2>1, <2>2, ProcessKeepsLifetime DEF m
<1>7. CASE proc' = [proc EXCEPT ![q].stale = FALSE]
  <2> DEFINE r == [m EXCEPT !.stale = FALSE]
  <2>1. proc' = [proc EXCEPT ![q] = r]
    BY <1>1, <1>7 DEF At
  <2> HIDE DEF m
  <2>2. r \in ProcFields /\ r.active = m.active /\ (Alive(m) => Alive(r))
        /\ (r.place \in Offering => m.place \in Offering /\ r.at = m.at)
        /\ (Alive(r) /\ r.active = 0 => r.shutdown \/ r.timer # "none")
    BY <1>1, <1>2, <2>1 DEF ProcFields, Alive, Offering, Place, Timers
  <2> HIDE DEF r
  <2> QED
    BY <1>1, <2>1, <2>2, ProcessKeepsLifetime DEF m
<1> QED
  BY <1>1, <1>3, <1>4, <1>5, <1>6, <1>7 DEF TryTriggerShutdown

LEMMA DisposedIs ==
    ASSUME NEW r, r \in PairFields(r)
    PROVE  /\ Disposed(r) \in PairFields(Disposed(r)) /\ Disposed(r).owner = r.owner
           /\ Disposed(r).control = "closed" /\ Disposed(r).audio = "closed"
BY DEF Disposed, PairFields, Ends

\* Few enough to be counted.
LEMMA ServedIsFinite ==
    ASSUME NEW q
    PROVE  IsFiniteSet(ServedBy(q)) /\ Cardinality(ServedBy(q)) \in Nat
<1>1. IsFiniteSet(Pairs)
  BY PipesAssumption, FS_Interval DEF Pairs
<1>2. ServedBy(q) \subseteq Pairs
  BY DEF ServedBy
<1> QED
  BY <1>1, <1>2, FS_Subset, FS_CardinalityType

\* A process offers a new pair: its control pipe, then its audio pipe.
ControlCreated(q) ==
    \E p \in FreePairs :
       /\ proc[q].place = "boot" /\ proc'[q].place = "control" /\ proc'[q].at = p
       /\ \A x \in Processes \ {q} : proc'[x] = proc[x]
       /\ pairs'[p].owner = q /\ pairs'[p].control = "listening" /\ pairs'[p].audio = "none"
       /\ \A x \in Pairs \ {p} : pairs'[x] = pairs[x]

AudioCreated(q) ==
    LET p == proc[q].at
    IN  /\ p \in Pairs
        /\ proc[q].place = "control" /\ proc'[q].place = "audio" /\ proc'[q].at = p
        /\ \A x \in Processes \ {q} : proc'[x] = proc[x]
        /\ pairs'[p].owner = q /\ pairs'[p].control = pairs[p].control
        /\ pairs'[p].audio = "listening"
        /\ \A x \in Pairs \ {p} : pairs'[x] = pairs[x]

LEMMA CreationKeepsLifetime ==
    ASSUME LifetimeInv, NEW q \in Processes, CreatesControl(q) \/ CreatesAudio(q)
    PROVE  LifetimeInv' /\ (ControlCreated(q) \/ AudioCreated(q))
<1> DEFINE m == proc[q]
<1>1. /\ m \in ProcFields /\ proc = [x \in Processes |-> proc[x]] /\ UNCHANGED session
      /\ pairs = [x \in Pairs |-> pairs[x]] /\ \A x \in Pairs : pairs[x] \in PairFields(pairs[x])
      /\ NoProcess \notin Processes
  BY PipesAssumption
     DEF LifetimeInv, ProcTyped, TypedPairs, CreatesControl, CreatesAudio
<1>2. CASE CreatesControl(q)
  <2>1. PICK p \in FreePairs :
           /\ pairs' = [pairs EXCEPT ![p].owner = q, ![p].control = "listening"]
           /\ proc' = [proc EXCEPT ![q].place = "control", ![q].at = p]
    BY <1>2 DEF CreatesControl
  <2> DEFINE r == [pairs[p] EXCEPT !.owner = q, !.control = "listening"]
             n == [m EXCEPT !.place = "control", !.at = p]
  <2>2. p \in Pairs /\ p \in 0 .. MaxPairs /\ pairs[p].owner = NoProcess
        /\ session[p] = "none" /\ m.place = "boot"
    BY <1>2, PipesAssumption DEF FreePairs, Pairs, LifetimeInv, FreeIsNew, CreatesControl, At
  <2>3. pairs' = [pairs EXCEPT ![p] = r] /\ proc' = [proc EXCEPT ![q] = n]
    BY <1>1, <2>1, <2>2
  <2> DEFINE old == pairs[p]
  <2>4. old \in PairFields(old)
    BY <1>1, <2>2
  <2> HIDE DEF m
  <2>5. n \in ProcFields /\ n.place = "control" /\ n.at = p /\ n.active = m.active
        /\ n.shutdown = m.shutdown /\ n.timer = m.timer
    BY <1>1, <2>2 DEF ProcFields, Place
  <2> HIDE DEF n, old
  <2>6. r \in PairFields(r) /\ r.owner = q /\ r.control = "listening" /\ r.audio = old.audio
    <3>1. r = [old EXCEPT !.owner = q, !.control = "listening"]
      BY DEF old
    <3> QED
      BY <2>4, <3>1 DEF PairFields, Ends
  <2> HIDE DEF r
  <2>7. \A x \in Pairs : pairs'[x] = IF x = p THEN r ELSE pairs[x]
    BY <1>1, <2>3
  <2>8. TypedPairs(pairs')
    <3>1. pairs' = [x \in Pairs |-> pairs'[x]]
      BY <1>1, <2>3
    <3> QED
      BY <1>1, <2>6, <2>7, <3>1 DEF TypedPairs
  <2>9. ProcTyped' /\ proc'[q] = n /\ \A x \in Processes \ {q} : proc'[x] = proc[x]
    BY <2>3, <2>5, ProcessMoves DEF LifetimeInv
  <2>10. OfferedIsNew'
    BY <1>1, <2>2, <2>5, <2>6, <2>7, <2>9 DEF LifetimeInv, OfferedIsNew
  <2>11. FreeIsNew' /\ ServersRun'
    BY <1>1, <2>2, <2>5, <2>6, <2>7, <2>9
       DEF LifetimeInv, FreeIsNew, FreePairs, ServersRun, Running, m, Serving
  <2>12. \A x \in Processes : ServedBy(x)' = ServedBy(x)
    BY <1>1, <2>2, <2>7 DEF ServedBy, Serving
  <2>13. ActiveCounts'
    BY <2>5, <2>9, <2>12 DEF LifetimeInv, ActiveCounts, m
  <2>14. IdleIsTimed'
    BY <2>2, <2>5, <2>9 DEF LifetimeInv, IdleIsTimed, Running, m
  <2>15. SessionTyped'
    BY <1>1 DEF LifetimeInv, SessionTyped
  <2>16. ControlCreated(q)
    <3>1. old.audio = "none" /\ p \in FreePairs
      BY <2>1 DEF old, LifetimeInv, FreeIsNew
    <3> QED
      BY <2>2, <2>5, <2>6, <2>7, <2>9, <3>1 DEF ControlCreated, m
  <2> QED
    BY <2>8, <2>9, <2>10, <2>11, <2>13, <2>14, <2>15, <2>16 DEF LifetimeInv
<1>3. CASE CreatesAudio(q)
  <2> DEFINE p == m.at
             old == pairs[p]
             r == [old EXCEPT !.audio = "listening"]
             n == [m EXCEPT !.place = "audio"]
  <2>1. m.place = "control" /\ p \in Pairs /\ old.owner = q
    BY <1>3 DEF CreatesAudio, At, LifetimeInv, OfferedIsNew
  <2>2. pairs' = [pairs EXCEPT ![p] = r] /\ proc' = [proc EXCEPT ![q] = n]
    BY <1>1, <1>3, <2>1 DEF CreatesAudio
  <2>3. old \in PairFields(old)
    BY <1>1, <2>1
  <2> HIDE DEF m
  <2>4. n \in ProcFields /\ n.place = "audio" /\ n.at = p /\ n.active = m.active
        /\ n.shutdown = m.shutdown /\ n.timer = m.timer
    BY <1>1 DEF ProcFields, Place
  <2> HIDE DEF n, p, old
  <2>5. r \in PairFields(r) /\ r.owner = q /\ r.control = old.control /\ r.audio = "listening"
    BY <2>1, <2>3 DEF PairFields, Ends
  <2> HIDE DEF r
  <2>6. \A x \in Pairs : pairs'[x] = IF x = p THEN r ELSE pairs[x]
    BY <1>1, <2>2
  <2>7. TypedPairs(pairs')
    <3>1. pairs' = [x \in Pairs |-> pairs'[x]]
      BY <1>1, <2>2
    <3> QED
      BY <1>1, <2>5, <2>6, <3>1 DEF TypedPairs
  <2>8. ProcTyped' /\ proc'[q] = n /\ \A x \in Processes \ {q} : proc'[x] = proc[x]
    BY <2>2, <2>4, ProcessMoves DEF LifetimeInv
  <2>9. \A x \in Pairs : pairs'[x].owner = pairs[x].owner
    BY <2>1, <2>5, <2>6 DEF old
  <2>10. OfferedIsNew'
    BY <1>1, <2>1, <2>4, <2>8, <2>9 DEF LifetimeInv, OfferedIsNew, p, m
  <2>11. FreeIsNew'
    BY <1>1, <2>1, <2>5, <2>6, <2>9 DEF LifetimeInv, FreeIsNew, FreePairs
  <2>12. ServersRun'
    BY <1>1, <2>1, <2>4, <2>8, <2>9 DEF LifetimeInv, ServersRun, Running, m
  <2>13. \A x \in Processes : ServedBy(x)' = ServedBy(x)
    BY <1>1, <2>9 DEF ServedBy
  <2>14. ActiveCounts'
    BY <2>4, <2>8, <2>13 DEF LifetimeInv, ActiveCounts, m
  <2>15. IdleIsTimed'
    BY <2>1, <2>4, <2>8 DEF LifetimeInv, IdleIsTimed, Running, m
  <2>16. SessionTyped'
    BY <1>1 DEF LifetimeInv, SessionTyped
  <2>17. AudioCreated(q)
    BY <2>1, <2>4, <2>5, <2>6, <2>8 DEF AudioCreated, p, m, old
  <2> QED
    BY <2>7, <2>8, <2>10, <2>11, <2>12, <2>14, <2>15, <2>16, <2>17 DEF LifetimeInv
<1> QED
  BY <1>2, <1>3

LEMMA OpeningKeepsLifetime ==
    ASSUME LifetimeInv, NEW q \in Processes, Opens(q)
    PROVE  LifetimeInv'
<1> DEFINE m == proc[q]
           p == m.at
           stale == m.stale \/ m.timer = "due"
           active == m.active + 1
           n == [m EXCEPT !.place = "boot", !.active = active, !.stale = stale,
                          !.timer = "none"]
<1>1. /\ m \in ProcFields /\ proc = [x \in Processes |-> proc[x]] /\ UNCHANGED pairs
      /\ session = [x \in Pairs |-> session[x]]
      /\ \A x \in Pairs : session[x] \in Serving \cup {"none", "ended"}
      /\ NoProcess \notin Processes
  BY PipesAssumption DEF LifetimeInv, ProcTyped, SessionTyped, Opens
<1>2. /\ m.place = "opened" /\ p \in Pairs /\ pairs[p].owner = q /\ session[p] = "none"
      /\ session' = [session EXCEPT ![p] = "reading"]
  BY DEF Opens, At, LifetimeInv, OfferedIsNew
<1>3. proc' = [proc EXCEPT ![q] = n]
  BY <1>1 DEF Opens
<1> HIDE DEF m
<1>4. stale \in BOOLEAN /\ m.active \in Nat
  BY <1>1 DEF ProcFields
<1>4a. active \in Nat
  BY <1>4
<1> HIDE DEF active, stale
<1>5. n \in ProcFields /\ n.place = "boot" /\ n.active = active
  BY <1>1, <1>4, <1>4a DEF ProcFields, Place, Timers
<1> HIDE DEF n, p
<1>6. ProcTyped' /\ proc'[q] = n /\ \A x \in Processes \ {q} : proc'[x] = proc[x]
  BY <1>3, <1>5, ProcessMoves DEF LifetimeInv
<1>7. \A x \in Pairs : session'[x] = IF x = p THEN "reading" ELSE session[x]
  BY <1>1, <1>2
<1>8. SessionTyped'
  <2>1. session' = [x \in Pairs |-> session'[x]]
    BY <1>1, <1>2
  <2> QED
    BY <1>1, <1>7, <2>1 DEF SessionTyped, Serving
<1>9. OfferedIsNew'
  BY <1>1, <1>2, <1>5, <1>6, <1>7 DEF LifetimeInv, OfferedIsNew
<1>10. FreeIsNew' /\ ServersRun'
  BY <1>1, <1>2, <1>5, <1>6, <1>7
     DEF LifetimeInv, FreeIsNew, FreePairs, ServersRun, Running, m, Serving
<1>11. ActiveCounts'
  <2>1. \A x \in Processes \ {q} : ServedBy(x)' = ServedBy(x)
    BY <1>1, <1>2, <1>7 DEF ServedBy
  <2>2. ServedBy(q)' = ServedBy(q) \cup {p} /\ p \notin ServedBy(q)
    BY <1>1, <1>2, <1>7 DEF ServedBy, Serving
  <2>3. Cardinality(ServedBy(q) \cup {p}) = Cardinality(ServedBy(q)) + 1
    <3> DEFINE had == ServedBy(q)
    <3>1. IsFiniteSet(had)
      BY ServedIsFinite
    <3>2. p \notin had
      BY <2>2
    <3> HIDE DEF had
    <3>3. Cardinality(had \cup {p}) = Cardinality(had) + 1
      BY <3>1, <3>2, FS_AddElement
    <3> QED
      BY <3>3 DEF had
  <2>4. m.active = Cardinality(ServedBy(q))
    BY DEF LifetimeInv, ActiveCounts, m
  <2>5. \A x \in Processes \ {q} : proc'[x].active = Cardinality(ServedBy(x)')
    BY <1>6, <2>1 DEF LifetimeInv, ActiveCounts
  <2>6. proc'[q].active = Cardinality(ServedBy(q)')
    BY <1>5, <1>6, <2>2, <2>3, <2>4 DEF active
  <2> QED
    BY <2>5, <2>6 DEF ActiveCounts
<1>12. IdleIsTimed'
  <2>1. active # 0
    BY <1>4 DEF active
  <2> QED
    BY <1>5, <1>6, <2>1 DEF LifetimeInv, IdleIsTimed, Running
<1>13. TypedPairs(pairs')
  BY <1>1 DEF LifetimeInv
<1> QED
  BY <1>6, <1>8, <1>9, <1>10, <1>11, <1>12, <1>13 DEF LifetimeInv

LEMMA ExitKeepsLifetime ==
    ASSUME LifetimeInv, NEW q \in Processes, Exits(q)
    PROVE  /\ LifetimeInv' /\ proc'[q].place = "exited"
           /\ \A x \in Processes \ {q} : proc'[x] = proc[x]
           /\ \A p \in Pairs : /\ pairs'[p].owner = pairs[p].owner
                               /\ IF pairs[p].owner = q
                                  THEN pairs'[p].control = "closed" /\ pairs'[p].audio = "closed"
                                  ELSE pairs'[p] = pairs[p]
<1> DEFINE m == proc[q]
           n == [m EXCEPT !.place = "exited", !.timer = "none", !.stale = FALSE,
                          !.active = 0, !.at = 0]
<1>1. /\ m \in ProcFields /\ proc = [x \in Processes |-> proc[x]]
      /\ \A x \in Pairs : pairs[x] \in PairFields(pairs[x])
      /\ \A x \in Pairs : session[x] \in Serving \cup {"none", "ended"}
      /\ NoProcess \notin Processes /\ 0 \in 0 .. MaxPairs
  BY PipesAssumption DEF LifetimeInv, ProcTyped, SessionTyped, TypedPairs
<1>2. /\ pairs' = [p \in Pairs |-> IF pairs[p].owner = q THEN Disposed(pairs[p]) ELSE pairs[p]]
      /\ session' = [p \in Pairs |-> IF pairs[p].owner = q /\ session[p] # "none" THEN "ended"
                                     ELSE session[p]]
  BY DEF Exits
<1>3. proc' = [proc EXCEPT ![q] = n]
  BY <1>1 DEF Exits
<1> HIDE DEF m
<1>4. n \in ProcFields /\ n.place = "exited" /\ n.active = 0
  BY <1>1 DEF ProcFields, Place, Timers
<1> HIDE DEF n
<1>5. ProcTyped' /\ proc'[q] = n /\ \A x \in Processes \ {q} : proc'[x] = proc[x]
  BY <1>3, <1>4, ProcessMoves DEF LifetimeInv
<1>6. \A p \in Pairs :
         /\ pairs'[p] \in PairFields(pairs'[p]) /\ pairs'[p].owner = pairs[p].owner
         /\ IF pairs[p].owner = q
            THEN pairs'[p].control = "closed" /\ pairs'[p].audio = "closed"
            ELSE pairs'[p] = pairs[p]
  BY <1>1, <1>2, DisposedIs
<1>7. TypedPairs(pairs')
  BY <1>2, <1>6 DEF TypedPairs
<1>8. SessionTyped'
  BY <1>1, <1>2 DEF SessionTyped
<1>9. OfferedIsNew'
  BY <1>1, <1>2, <1>4, <1>5, <1>6 DEF LifetimeInv, OfferedIsNew
<1>10. FreeIsNew'
  BY <1>1, <1>2, <1>6 DEF LifetimeInv, FreeIsNew, FreePairs
<1>11. ServersRun'
  BY <1>1, <1>2, <1>4, <1>5, <1>6 DEF LifetimeInv, ServersRun, Running, Serving
<1>12. ActiveCounts'
  <2>1. \A x \in Processes \ {q} : ServedBy(x)' = ServedBy(x)
    BY <1>2, <1>6 DEF ServedBy
  <2>2. ServedBy(q)' = {}
    BY <1>1, <1>2, <1>6 DEF ServedBy, Serving
  <2>3. \A x \in Processes \ {q} : proc'[x].active = Cardinality(ServedBy(x)')
    BY <1>5, <2>1 DEF LifetimeInv, ActiveCounts
  <2>4. proc'[q].active = Cardinality(ServedBy(q)')
    BY <1>4, <1>5, <2>2, FS_EmptySet
  <2> QED
    BY <2>3, <2>4 DEF ActiveCounts
<1>13. IdleIsTimed'
  BY <1>4, <1>5 DEF LifetimeInv, IdleIsTimed, Running
<1> QED
  BY <1>4, <1>5, <1>6, <1>7, <1>8, <1>9, <1>10, <1>11, <1>12, <1>13 DEF LifetimeInv

LEMMA EndKeepsLifetime ==
    ASSUME LifetimeInv, NEW y \in Pairs, SessionEnds(y)
    PROVE  /\ LifetimeInv'
           /\ \A x \in Processes : /\ proc'[x].place = proc[x].place /\ proc'[x].at = proc[x].at
                                   /\ proc[x].shutdown <=> proc'[x].shutdown
           /\ \A p \in Pairs : /\ pairs'[p].owner = pairs[p].owner
                               /\ IF p = y
                                  THEN pairs'[p].control = "closed" /\ pairs'[p].audio = "closed"
                                  ELSE pairs'[p] = pairs[p]
           /\ session[y] = "reading"
<1>0. PICK q \in Processes : pairs[y].owner = q /\ Running(q)
  <2>1. pairs[y].owner \in Processes /\ Running(pairs[y].owner)
    BY DEF SessionEnds, LifetimeInv, ServersRun, Serving
  <2> QED
    BY <2>1
<1> DEFINE m == proc[q]
           timer == IF m.active = 1 THEN "armed" ELSE m.timer
           stale == m.stale \/ (m.active = 1 /\ m.timer = "due")
           active == m.active - 1
           n == [m EXCEPT !.active = active, !.timer = timer, !.stale = stale]
<1>1. /\ proc = [x \in Processes |-> proc[x]]
      /\ pairs = [x \in Pairs |-> pairs[x]]
      /\ \A x \in Pairs : pairs[x] \in PairFields(pairs[x])
      /\ session = [x \in Pairs |-> session[x]]
      /\ \A x \in Pairs : session[x] \in Serving \cup {"none", "ended"}
      /\ NoProcess \notin Processes
  BY PipesAssumption DEF LifetimeInv, ProcTyped, SessionTyped, TypedPairs
<1>2. /\ session[y] = "reading" /\ session' = [session EXCEPT ![y] = "ended"]
      /\ pairs' = [pairs EXCEPT ![y] = Disposed(pairs[y])]
      /\ proc' = [proc EXCEPT ![q] = n]
  BY <1>0, <1>1 DEF SessionEnds, Closed
<1>3. m \in ProcFields
  BY DEF LifetimeInv, ProcTyped
<1>4. y \in ServedBy(q) /\ m.active = Cardinality(ServedBy(q))
  BY <1>0, <1>2 DEF ServedBy, Serving, LifetimeInv, ActiveCounts
<1>5. /\ ServedBy(q) \ {y} = ServedBy(q)' /\ IsFiniteSet(ServedBy(q))
      /\ \A x \in Processes \ {q} : ServedBy(x)' = ServedBy(x)
  <2>1. \A x \in Pairs : session'[x] = IF x = y THEN "ended" ELSE session[x]
    BY <1>1, <1>2
  <2>2. \A x \in Pairs : pairs'[x].owner = pairs[x].owner
    BY <1>1, <1>2, DisposedIs
  <2>3. ServedBy(q) \ {y} = ServedBy(q)'
    BY <2>1, <2>2 DEF ServedBy, Serving
  <2>4. \A x \in Processes \ {q} : ServedBy(x)' = ServedBy(x)
    BY <1>0, <2>1, <2>2 DEF ServedBy
  <2> QED
    BY <2>3, <2>4, ServedIsFinite
<1>6. m.active \in Nat /\ m.active # 0 /\ m.active - 1 = Cardinality(ServedBy(q)')
  <2> DEFINE had == ServedBy(q)
  <2>1. IsFiniteSet(had) /\ y \in had
    BY <1>4, <1>5
  <2> HIDE DEF had
  <2>2. Cardinality(had \ {y}) = Cardinality(had) - 1 /\ Cardinality(had) # 0
        /\ Cardinality(had) \in Nat
    BY <2>1, FS_RemoveElement, FS_EmptySet, FS_CardinalityType
  <2> QED
    BY <1>4, <1>5, <2>2 DEF had
<1>7. timer \in Timers /\ stale \in BOOLEAN /\ (m.active = 1 => timer = "armed")
  BY <1>3 DEF ProcFields, Timers
<1>8. active \in Nat /\ active = Cardinality(ServedBy(q)')
  BY <1>6
<1> HIDE DEF m, timer, stale, active
<1>9. /\ n \in ProcFields /\ n.place = m.place /\ n.active = active /\ n.at = m.at
      /\ n.shutdown = m.shutdown /\ n.timer = timer
  BY <1>3, <1>7, <1>8 DEF ProcFields
<1> HIDE DEF n
<1>10. ProcTyped' /\ proc'[q] = n /\ \A x \in Processes \ {q} : proc'[x] = proc[x]
  BY <1>2, <1>3, <1>9, ProcessMoves DEF LifetimeInv
<1>11. \A x \in Processes : /\ proc'[x].place = proc[x].place /\ proc'[x].at = proc[x].at
                            /\ proc'[x].shutdown = proc[x].shutdown
  BY <1>9, <1>10 DEF m
<1>12. \A p \in Pairs :
         /\ pairs'[p] \in PairFields(pairs'[p]) /\ pairs'[p].owner = pairs[p].owner
         /\ IF p = y
            THEN pairs'[p].control = "closed" /\ pairs'[p].audio = "closed"
            ELSE pairs'[p] = pairs[p]
  BY <1>1, <1>2, DisposedIs
<1>13. TypedPairs(pairs')
  <2>1. pairs' = [p \in Pairs |-> pairs'[p]]
    BY <1>1, <1>2
  <2> QED
    BY <1>12, <2>1 DEF TypedPairs
<1>14. \A x \in Pairs : session'[x] = IF x = y THEN "ended" ELSE session[x]
  BY <1>1, <1>2
<1>15. SessionTyped'
  <2>1. session' = [p \in Pairs |-> session'[p]]
    BY <1>1, <1>2
  <2> QED
    BY <1>1, <1>14, <2>1 DEF SessionTyped
<1>16. OfferedIsNew'
  BY <1>2, <1>11, <1>12, <1>14 DEF LifetimeInv, OfferedIsNew
<1>17. FreeIsNew'
  BY <1>0, <1>1, <1>12, <1>14 DEF LifetimeInv, FreeIsNew, FreePairs
<1>18. ServersRun'
  BY <1>11, <1>12, <1>14 DEF LifetimeInv, ServersRun, Running, Serving
<1>19. ActiveCounts'
  <2>1. \A x \in Processes \ {q} : proc'[x].active = Cardinality(ServedBy(x)')
    BY <1>5, <1>10 DEF LifetimeInv, ActiveCounts
  <2>2. proc'[q].active = Cardinality(ServedBy(q)')
    BY <1>8, <1>9, <1>10
  <2>3. \A x \in Processes : proc'[x].active = Cardinality(ServedBy(x)')
    BY <2>1, <2>2
  <2> QED
    BY <2>3 DEF ActiveCounts
<1>20. IdleIsTimed'
  <2>1. proc'[q].active = 0 => proc'[q].timer # "none"
    BY <1>6, <1>7, <1>9, <1>10 DEF active
  <2> QED
    BY <1>10, <2>1 DEF LifetimeInv, IdleIsTimed, Running
<1> QED
  BY <1>2, <1>10, <1>11, <1>12, <1>13, <1>15, <1>16, <1>17, <1>18, <1>19, <1>20 DEF LifetimeInv

-----------------------------------------------------------------------------
(* The clients open instances and leave them. *)

LEMMA ControlEnds ==
    ASSUME NEW f, TypedPairs(f), NEW x \in Pairs, NEW v \in Ends
    PROVE  LET g == [f EXCEPT ![x].control = v]
           IN  /\ TypedPairs(g)
               /\ \A p \in Pairs : /\ g[p].owner = f[p].owner /\ g[p].audio = f[p].audio
                                   /\ g[p].control = IF p = x THEN v ELSE f[p].control
<1> DEFINE g == [f EXCEPT ![x].control = v]
<1>1. \A p \in Pairs : f[p] \in PairFields(f[p]) /\ f = [r \in Pairs |-> f[r]]
  BY DEF TypedPairs
<1>2. \A p \in Pairs : g[p] = IF p = x THEN [f[p] EXCEPT !.control = v] ELSE f[p]
  BY <1>1
<1>3. g = [p \in Pairs |-> g[p]]
  BY DEF TypedPairs
<1> HIDE DEF g
<1>4. \A p \in Pairs : /\ g[p].owner = f[p].owner /\ g[p].audio = f[p].audio
                       /\ g[p].control = (IF p = x THEN v ELSE f[p].control)
                       /\ g[p] \in PairFields(g[p])
  BY <1>1, <1>2, ZenonT(40) DEF PairFields
<1>5. TypedPairs(g)
  BY <1>3, <1>4 DEF TypedPairs
<1> QED
  BY <1>4, <1>5 DEF g

LEMMA AudioEnds ==
    ASSUME NEW f, TypedPairs(f), NEW x \in Pairs, NEW v \in Ends
    PROVE  LET g == [f EXCEPT ![x].audio = v]
           IN  /\ TypedPairs(g)
               /\ \A p \in Pairs : /\ g[p].owner = f[p].owner /\ g[p].control = f[p].control
                                   /\ g[p].audio = IF p = x THEN v ELSE f[p].audio
<1> DEFINE g == [f EXCEPT ![x].audio = v]
<1>1. \A p \in Pairs : f[p] \in PairFields(f[p]) /\ f = [r \in Pairs |-> f[r]]
  BY DEF TypedPairs
<1>2. \A p \in Pairs : g[p] = IF p = x THEN [f[p] EXCEPT !.audio = v] ELSE f[p]
  BY <1>1
<1>3. g = [p \in Pairs |-> g[p]]
  BY DEF TypedPairs
<1> HIDE DEF g
<1>4. \A p \in Pairs : /\ g[p].owner = f[p].owner /\ g[p].control = f[p].control
                       /\ g[p].audio = (IF p = x THEN v ELSE f[p].audio)
                       /\ g[p] \in PairFields(g[p])
  BY <1>1, <1>2, ZenonT(40) DEF PairFields
<1>5. TypedPairs(g)
  BY <1>3, <1>4 DEF TypedPairs
<1> QED
  BY <1>4, <1>5 DEF g

LEMMA LeftIs ==
    ASSUME NEW f, TypedPairs(f), NEW c \in Clients
    PROVE  /\ TypedPairs(LeftBy(c, f))
           /\ \A p \in Pairs : /\ LeftBy(c, f)[p].owner = f[p].owner
                               /\ LeftBy(c, f)[p].control = Broken(f[p].control, c)
                               /\ LeftBy(c, f)[p].audio = Broken(f[p].audio, c)
<1> DEFINE g == LeftBy(c, f)
           left(p) == [f[p] EXCEPT !.control = Broken(@, c), !.audio = Broken(@, c),
                                   !.replies = IF f[p].control = c THEN <<>> ELSE @,
                                   !.pcm = IF f[p].audio = c THEN <<>> ELSE @]
<1>1. g = [p \in Pairs |-> left(p)]
  BY DEF LeftBy
<1>2. ASSUME NEW p \in Pairs
      PROVE  /\ left(p).owner = f[p].owner
             /\ left(p).control = Broken(f[p].control, c)
             /\ left(p).audio = Broken(f[p].audio, c)
             /\ left(p) \in PairFields(left(p))
  <2> DEFINE control == Broken(f[p].control, c)
             audio == Broken(f[p].audio, c)
             replies == IF f[p].control = c THEN <<>> ELSE f[p].replies
             pcm == IF f[p].audio = c THEN <<>> ELSE f[p].pcm
             old == f[p]
             new == [old EXCEPT !.control = control, !.audio = audio,
                                !.replies = replies, !.pcm = pcm]
  <2>1. left(p) = new
    OBVIOUS
  <2>2. old \in PairFields(old)
    BY <1>2 DEF TypedPairs
  <2>3. control \in Ends /\ audio \in Ends
    BY <2>2 DEF PairFields, Ends, Broken
  <2> HIDE DEF control, audio, replies, pcm, old
  <2>4. /\ new.owner = old.owner /\ new.control = control /\ new.audio = audio
        /\ new \in PairFields(new)
    BY <2>2, <2>3 DEF PairFields
  <2> QED
    BY <2>1, <2>4 DEF control, audio, old
<1> HIDE DEF left
<1>3. \A p \in Pairs : g[p] = left(p)
  BY <1>1
<1>4. g = [p \in Pairs |-> g[p]]
  BY <1>1
<1> HIDE DEF g
<1>5. TypedPairs(g)
  BY <1>2, <1>3, <1>4 DEF TypedPairs
<1> QED
  BY <1>2, <1>3, <1>5 DEF g

\* Where a client stands has nothing to do with the provider's sessions.
LEMMA ClientKeepsLifetime ==
    ASSUME LifetimeInv, NEW c \in Clients, Connects(c) \/ Leaves(c) \/ Closes(c)
    PROVE  LifetimeInv' /\ UNCHANGED <<proc, session>>
<1>1. UNCHANGED <<proc, session>> /\ TypedPairs(pairs) /\ SameServing
  <2>1. UNCHANGED <<proc, session>>
    BY DEF Connects, Leaves, Closes, conversation, ConnectSteps, BeginConnect, OpensControl,
       ControlUnavailable, OpensAudio, ModeFails, AudioUnavailable, Denied, TriesAgain, GivesUp,
       LaunchFails, CancelsIo, ClosesHandles
  <2> QED
    BY <2>1 DEF LifetimeInv, SameServing, SessionTyped
<1>2. ASSUME TypedPairs(pairs'),
             \A p \in Pairs : /\ pairs'[p].owner = pairs[p].owner
                              /\ pairs[p].control = "none" => pairs'[p].control = "none"
                              /\ pairs[p].audio = "none" => pairs'[p].audio = "none"
      PROVE  LifetimeInv'
  <2>1. \A p \in FreePairs : pairs'[p].control = "none" /\ pairs'[p].audio = "none"
    BY <1>2 DEF LifetimeInv, FreeIsNew, FreePairs
  <2> QED
    BY <1>1, <1>2, <2>1, InsideKeepsLifetime
<1>3. CASE pairs' = pairs
  BY <1>1, <1>2, <1>3
<1>4. CASE pairs' = LeftBy(c, pairs)
  BY <1>1, <1>2, <1>4, LeftIs, PipesAssumption DEF Broken
<1>5. CASE OpensControl(c)
  <2>1. PICK p \in Pairs : pairs[p].control = "listening"
                           /\ pairs' = [pairs EXCEPT ![p].control = c]
    BY <1>5 DEF OpensControl, Listening
  <2>2. c \in Ends
    BY DEF Ends
  <2>3. /\ TypedPairs(pairs')
        /\ \A x \in Pairs : /\ pairs'[x].owner = pairs[x].owner /\ pairs'[x].audio = pairs[x].audio
                            /\ pairs'[x].control = IF x = p THEN c ELSE pairs[x].control
    <3> DEFINE g == [pairs EXCEPT ![p].control = c]
    <3>1. /\ TypedPairs(g)
          /\ \A x \in Pairs : /\ g[x].owner = pairs[x].owner /\ g[x].audio = pairs[x].audio
                              /\ g[x].control = IF x = p THEN c ELSE pairs[x].control
      BY <1>1, <2>2, ControlEnds
    <3> HIDE DEF g
    <3>2. pairs' = g
      BY <2>1 DEF g
    <3> QED
      BY <3>1, <3>2
  <2> QED
    BY <1>1, <1>2, <2>1, <2>3
<1>6. CASE OpensAudio(c) \/ ModeFails(c)
  <2>1. PICK p \in Pairs, v \in Ends : pairs[p].audio = "listening"
                           /\ pairs' = [pairs EXCEPT ![p].audio = v]
    BY <1>6 DEF OpensAudio, ModeFails, Listening, Ends
  <2>2. /\ TypedPairs(pairs')
        /\ \A x \in Pairs : /\ pairs'[x].owner = pairs[x].owner
                            /\ pairs'[x].control = pairs[x].control
                            /\ pairs'[x].audio = IF x = p THEN v ELSE pairs[x].audio
    <3> DEFINE g == [pairs EXCEPT ![p].audio = v]
    <3>1. /\ TypedPairs(g)
          /\ \A x \in Pairs : /\ g[x].owner = pairs[x].owner /\ g[x].control = pairs[x].control
                              /\ g[x].audio = IF x = p THEN v ELSE pairs[x].audio
      BY <1>1, AudioEnds
    <3> HIDE DEF g
    <3>2. pairs' = g
      BY <2>1 DEF g
    <3> QED
      BY <3>1, <3>2
  <2> QED
    BY <1>1, <1>2, <2>1, <2>2
<1> QED
  BY <1>1, <1>3, <1>4, <1>5, <1>6
     DEF Connects, Leaves, Closes, conversation, ConnectSteps, BeginConnect, ControlUnavailable,
         AudioUnavailable, Denied, TriesAgain, GivesUp, LaunchFails, CancelsIo, ClosesHandles

\* A process is launched with its timer set.
LEMMA LaunchKeepsLifetime ==
    ASSUME LifetimeInv, NEW c \in Clients, Launches(c)
    PROVE  /\ LifetimeInv' /\ UNCHANGED <<pairs, session>>
           /\ \E q \in Absent : /\ client' = [client EXCEPT ![c].place = "waiting", ![c].own = q]
                                /\ proc'[q].place = "boot"
                                /\ proc'[q].shutdown = proc[q].shutdown
                                /\ \A x \in Processes \ {q} : proc'[x] = proc[x]
<1>1. UNCHANGED <<pairs, session>> /\ Is(c, "launch")
  BY DEF Launches, conversation
<1>2. PICK q \in Absent : /\ client' = [client EXCEPT ![c].place = "waiting", ![c].own = q]
                          /\ proc' = Launched(q)
  BY DEF Launches
<1> DEFINE m == proc[q]
           r == [m EXCEPT !.place = "boot", !.timer = "armed"]
<1>3. q \in Processes /\ m \in ProcFields /\ m.place = "absent"
  BY DEF Absent, At, LifetimeInv, ProcTyped
<1>4. proc' = [proc EXCEPT ![q] = r]
  BY <1>2, <1>3 DEF Launched
<1> HIDE DEF m
<1>5. /\ r \in ProcFields /\ r.place = "boot" /\ r.active = m.active /\ r.shutdown = m.shutdown
      /\ r.timer = "armed"
  BY <1>3 DEF ProcFields, Place, Timers
<1> HIDE DEF r
<1>6. LifetimeInv'
  <2>1. /\ r.place \notin Offering /\ r.active = proc[q].active /\ ~Alive(proc[q])
        /\ r.timer # "none"
    BY <1>3, <1>5 DEF Offering, Alive, m
  <2> QED
    BY <1>1, <1>3, <1>4, <1>5, <2>1, ProcessKeepsLifetime
<1>7. proc'[q] = r /\ \A x \in Processes \ {q} : proc'[x] = proc[x]
  BY <1>3, <1>4, <1>5, ProcessMoves DEF LifetimeInv
<1> QED
  BY <1>1, <1>2, <1>5, <1>6, <1>7 DEF m

LEMMA LifetimeAtFirst ==
    ASSUME Init
    PROVE  LifetimeInv
<1>1. pairs = [p \in Pairs |-> NoPair] /\ session = [p \in Pairs |-> "none"]
  BY DEF Init, PairsInit, MockInit
<1> DEFINE r == [place |-> "absent", at |-> 0, shutdown |-> FALSE, timer |-> "none",
                 stale |-> FALSE, active |-> 0]
<1>2. proc = [q \in Processes |-> r]
  BY DEF Init, MockInit
<1>3. NoPair \in PairFields(NoPair) /\ NoPair.control = "none" /\ NoPair.audio = "none"
      /\ NoPair.owner = NoProcess
  BY DEF NoPair, PairFields, Ends
<1>4. r \in ProcFields
  BY PipesAssumption DEF ProcFields, Place, Timers
<1>5. TypedPairs(pairs)
  BY <1>1, <1>3 DEF TypedPairs
<1>6. ProcTyped
  BY <1>2, <1>4 DEF ProcTyped
<1>7. SessionTyped /\ ServersRun
  BY <1>1 DEF SessionTyped, ServersRun, Serving
<1>8. FreeIsNew
  BY <1>1, <1>3 DEF FreeIsNew, FreePairs
<1>9. OfferedIsNew /\ IdleIsTimed
  BY <1>2 DEF OfferedIsNew, IdleIsTimed, Running
<1>10. \A q \in Processes : ServedBy(q) = {}
  BY <1>1 DEF ServedBy, Serving
<1>11. ActiveCounts
  <2>1. Cardinality({}) = 0
    BY FS_EmptySet
  <2> QED
    BY <1>2, <1>10, <2>1 DEF ActiveCounts
<1> QED
  BY <1>5, <1>6, <1>7, <1>8, <1>9, <1>11 DEF LifetimeInv

LEMMA LifetimeStep ==
    ASSUME LifetimeInv, [Next]_vars
    PROVE  LifetimeInv'
<1>1. ASSUME Inside
      PROVE  LifetimeInv'
  <2>1. \A p \in FreePairs : pairs'[p].control = "none" /\ pairs'[p].audio = "none"
    BY <1>1 DEF LifetimeInv, FreeIsNew, FreePairs, Inside, SameEnds
  <2> QED
    BY <1>1, <2>1, InsideKeepsLifetime DEF Inside, SameEnds
<1>2. TypedPairs(pairs) /\ SessionTyped
  BY DEF LifetimeInv
<1>3. ASSUME NEW c \in Clients, Connects(c) \/ Leaves(c) \/ Closes(c)
      PROVE  LifetimeInv'
  BY <1>3, ClientKeepsLifetime
<1>4. ASSUME NEW c \in Clients, Launches(c)
      PROVE  LifetimeInv'
  BY <1>4, LaunchKeepsLifetime
<1>5. CASE Reads \/ AsksInfo \/ GetsInfo \/ SendsSpeak \/ BeginsCancel \/ SendsCancel
  BY <1>1, <1>2, <1>5, ReadsInside, TalkInside
<1>6. ASSUME NEW q \in Processes, Runs(q)
      PROVE  LifetimeInv'
  BY <1>6, CreationKeepsLifetime, WaitingKeepsLifetime, OpeningKeepsLifetime, ExitKeepsLifetime
     DEF Runs, ProcessEnds
<1>7. ASSUME NEW p \in Pairs, Loops(p)
      PROVE  LifetimeInv'
  BY <1>1, <1>2, <1>7, LoopInside, EndKeepsLifetime DEF Loops, LoopSteps, ConversationEnds, Inside
<1>8. ASSUME NEW p \in Pairs, Synthesizes(p)
      PROVE  LifetimeInv'
  BY <1>1, <1>2, <1>8, SynthesisInside
<1>9. CASE UNCHANGED vars
  <2>1. Inside
    BY <1>2, <1>9, NothingMoves DEF vars, Inside, SameServing, SessionTyped
  <2> QED
    BY <1>1, <2>1
<1> QED
  BY <1>3, <1>4, <1>5, <1>6, <1>7, <1>8, <1>9 DEF Next

\* The count of a provider's sessions, its timer and the pair it offers agree, for
\* any number of clients, processes and pairs (ProviderLifetime, AcceptSessionAsync).
THEOREM LifetimeHolds == Spec => []LifetimeInv
<1>1. Init => LifetimeInv
  BY LifetimeAtFirst
<1>2. LifetimeInv /\ [Next]_vars => LifetimeInv'
  BY LifetimeStep
<1> QED
  BY <1>1, <1>2, PTL DEF Spec

\* A running provider without a session has its idle timer set, or has been told
\* to shut down (ProviderLifetime).
THEOREM IdleProviderIsTimedHolds == Spec => []IdleProviderIsTimed
<1>1. LifetimeInv => IdleProviderIsTimed
  <2> SUFFICES ASSUME LifetimeInv, NEW q \in Processes, Running(q), ~Serves(q)
               PROVE  proc[q].shutdown \/ proc[q].timer # "none"
    BY DEF IdleProviderIsTimed
  <2>1. ServedBy(q) = {}
    BY DEF Serves, ServedBy, Serving
  <2>2. proc[q].active = 0
    BY <2>1, FS_EmptySet DEF LifetimeInv, ActiveCounts
  <2> QED
    BY <2>2 DEF LifetimeInv, IdleIsTimed
<1> QED
  BY <1>1, LifetimeHolds, PTL

\* Only the idle timer tells a process to shut down, when it counts no session.
LEMMA ShutdownIsIdle ==
    ASSUME LifetimeInv, NEW q \in Processes, Runs(q), NEW x \in Processes,
           ~proc[x].shutdown, proc'[x].shutdown
    PROVE  proc[x].active = 0
<1>1. proc[x] \in ProcFields /\ proc = [y \in Processes |-> proc[y]]
  BY DEF LifetimeInv, ProcTyped
<1>2. CASE CreatesControl(q) \/ CreatesAudio(q) \/ StartsWaits(q) \/ Accepts(q) \/ Opens(q)
           \/ Exits(q) \/ DelayEnds(q)
  <2>1. CASE CreatesControl(q)
    <3>1. PICK p : proc' = [proc EXCEPT ![q].place = "control", ![q].at = p]
      BY <2>1 DEF CreatesControl
    <3> QED
      BY <1>1, <3>1 DEF ProcFields
  <2>2. CASE CreatesAudio(q) \/ StartsWaits(q) \/ Accepts(q)
    <3>1. PICK v : proc' = [proc EXCEPT ![q].place = v]
      BY <2>2 DEF CreatesAudio, StartsWaits, Accepts
    <3> QED
      BY <1>1, <3>1 DEF ProcFields
  <2>3. CASE Opens(q)
    BY <1>1, <2>3 DEF Opens, ProcFields
  <2>4. CASE Exits(q)
    BY <1>1, <2>4 DEF Exits, ProcFields
  <2>5. CASE DelayEnds(q)
    BY <1>1, <2>5 DEF DelayEnds, ProcFields
  <2> QED
    BY <1>2, <2>1, <2>2, <2>3, <2>4, <2>5
<1>3. CASE TryTriggerShutdown(q)
  BY <1>1, <1>3 DEF ProcFields, TryTriggerShutdown
<1> QED
  BY <1>2, <1>3 DEF Runs, ProcessEnds

\* The idle timer never shuts down a process that serves a session, however late
\* a timer that was replaced comes (TryTriggerShutdown).
THEOREM ServedSessionSurvivesHolds == Spec => ServedSessionSurvives
<1> DEFINE Survives ==
      \A q \in Processes : (Serves(q) /\ ~proc[q].shutdown) => ~proc'[q].shutdown
<1>1. LifetimeInv /\ [Next]_vars => Survives
  <2> SUFFICES ASSUME LifetimeInv, [Next]_vars, NEW x \in Processes, Serves(x),
                      ~proc[x].shutdown, proc'[x].shutdown
               PROVE  FALSE
    OBVIOUS
  <2>1. proc[x].active # 0
    <3> DEFINE had == ServedBy(x)
    <3>1. had # {} /\ IsFiniteSet(had)
      BY ServedIsFinite DEF Serves, ServedBy, Serving
    <3>2. proc[x].active = Cardinality(had)
      BY DEF LifetimeInv, ActiveCounts
    <3> HIDE DEF had
    <3> QED
      BY <3>1, <3>2, FS_EmptySet
  <2>2. TypedPairs(pairs) /\ SessionTyped
    BY DEF LifetimeInv
  <2>3. UNCHANGED proc => FALSE
    OBVIOUS
  <2>4. ASSUME NEW c \in Clients, Connects(c) \/ Leaves(c) \/ Closes(c)
        PROVE  FALSE
    BY <2>3, <2>4, ClientKeepsLifetime
  <2>5. ASSUME NEW c \in Clients, Launches(c)
        PROVE  FALSE
    <3>1. PICK q \in Absent : /\ proc'[q].shutdown = proc[q].shutdown
                              /\ \A y \in Processes \ {q} : proc'[y] = proc[y]
      BY <2>5, LaunchKeepsLifetime
    <3> QED
      BY <3>1
  <2>6. CASE Reads \/ AsksInfo \/ GetsInfo \/ SendsSpeak \/ BeginsCancel \/ SendsCancel
    BY <2>2, <2>3, <2>6, ReadsInside, TalkInside DEF Inside
  <2>7. ASSUME NEW q \in Processes, Runs(q)
        PROVE  FALSE
    BY <2>1, <2>7, ShutdownIsIdle
  <2>8. ASSUME NEW p \in Pairs, Loops(p)
        PROVE  FALSE
    BY <2>2, <2>3, <2>8, LoopInside, EndKeepsLifetime DEF Loops, LoopSteps, ConversationEnds
  <2>9. ASSUME NEW p \in Pairs, Synthesizes(p)
        PROVE  FALSE
    BY <2>2, <2>3, <2>9, SynthesisInside DEF Inside
  <2>10. CASE UNCHANGED vars
    BY <2>3, <2>10 DEF vars
  <2> QED
    BY <2>4, <2>5, <2>6, <2>7, <2>8, <2>9, <2>10 DEF Next
<1>2. LifetimeInv /\ [Next]_vars => [Survives]_vars
  BY <1>1
<1> QED
  BY <1>2, LifetimeHolds, PTL DEF Spec, ServedSessionSurvives

-----------------------------------------------------------------------------
(* The two pipes of a client: the steps of the clients. *)

LEMMA ClientMoves ==
    ASSUME ClientTyped, NEW c \in Clients, NEW r, r \in ClientFields(r),
           client' = [client EXCEPT ![c] = r]
    PROVE  /\ ClientTyped' /\ client'[c] = r
           /\ \A d \in Clients \ {c} : client'[d] = client[d]
<1>1. \A d \in Clients : client'[d] = IF d = c THEN r ELSE client[d]
  BY DEF ClientTyped
<1>2. client' = [d \in Clients |-> client'[d]]
  BY DEF ClientTyped
<1> QED
  BY <1>1, <1>2 DEF ClientTyped

\* The client has no control pipe that it could lose or cross.
LEMMA PlaceKeepsCross ==
    ASSUME CrossInv, LifetimeInv', UNCHANGED <<pairs, proc>>, NEW c \in Clients,
           ClientTyped', \A d \in Clients \ {c} : client'[d] = client[d],
           client'[c].place \notin {"audio", "connected"},
           client[c].place \in {"audio", "connected", "closing"} =>
              client'[c].place = "closing" /\ client'[c].control = client[c].control
    PROVE  CrossInv'
<1>1. ControlIsHeld'
  BY DEF CrossInv, ControlIsHeld
<1>2. ListensWhenOffered' /\ AudioFollows'
  BY DEF CrossInv, ListensWhenOffered, AudioFollows, Offers, Alone
<1>3. Uncrossed'
  BY DEF CrossInv, Uncrossed, Alone, Is, HalfOpen, Offers
<1> QED
  BY <1>1, <1>2, <1>3 DEF CrossInv

LEMMA OpensControlKeepsCross ==
    ASSUME CrossInv, LifetimeInv', UNCHANGED proc, NEW c \in Clients, OpensControl(c)
    PROVE  CrossInv'
<1>1. PICK p \in Pairs :
         /\ pairs[p].control = "listening" /\ pairs' = [pairs EXCEPT ![p].control = c]
         /\ client' = [client EXCEPT ![c].place = "audio", ![c].control = p]
  BY DEF OpensControl, Listening
<1> DEFINE g == [pairs EXCEPT ![p].control = c]
           m == client[c]
           r == [m EXCEPT !.place = "audio", !.control = p]
<1>2. \A x \in Pairs : /\ g[x].owner = pairs[x].owner /\ g[x].audio = pairs[x].audio
                       /\ g[x].control = IF x = p THEN c ELSE pairs[x].control
  <2>1. c \in Ends /\ TypedPairs(pairs)
    BY DEF Ends, CrossInv, LifetimeInv
  <2> QED
    BY <2>1, ControlEnds, ZenonT(40)
<1> HIDE DEF g
<1>3. pairs' = g
  BY <1>1 DEF g
<1>4. m \in ClientFields(m) /\ client' = [client EXCEPT ![c] = r] /\ m.place = "open"
      /\ p \in 0 .. MaxPairs
  <2>1. m \in ClientFields(m) /\ client = [d \in Clients |-> client[d]] /\ m.place = "open"
    BY DEF CrossInv, ClientTyped, OpensControl, Is
  <2>2. p \in 0 .. MaxPairs
    BY PipesAssumption DEF Pairs
  <2>3. client' = [client EXCEPT ![c] = r]
    BY <1>1, <2>1
  <2> QED
    BY <2>1, <2>2, <2>3
<1> HIDE DEF m
<1>5. r \in ClientFields(r) /\ r.place = "audio" /\ r.control = p
  BY <1>4 DEF ClientFields, ClientPlaces
<1> HIDE DEF r
<1>6. ClientTyped' /\ client'[c] = r /\ \A d \in Clients \ {c} : client'[d] = client[d]
  BY <1>4, <1>5, ClientMoves DEF CrossInv
<1>7. PICK q \in Processes : Offers(q, p)
  BY <1>1 DEF CrossInv, ListensWhenOffered
<1>8. pairs[p].owner = q
  BY <1>7 DEF CrossInv, LifetimeInv, OfferedIsNew, Offers, Accepting
<1>9. ControlIsHeld'
  <2> SUFFICES ASSUME NEW x \in Pairs, NEW d \in Clients, pairs'[x].control = d
               PROVE  /\ client'[d].control = x
                      /\ client'[d].place \in {"audio", "connected", "closing"}
    BY DEF ControlIsHeld
  <2>1. CASE x = p
    BY <1>2, <1>3, <1>5, <1>6, <2>1
  <2>2. CASE x # p
    <3>1. pairs[x].control = d
      BY <1>2, <1>3, <2>2
    <3>2. d # c
      BY <1>4, <3>1 DEF CrossInv, ControlIsHeld, m
    <3> QED
      BY <1>6, <3>1, <3>2 DEF CrossInv, ControlIsHeld
  <2> QED
    BY <2>1, <2>2
<1>10. ListensWhenOffered'
  <2>1. \A x \in Pairs : /\ pairs'[x].control = "listening" => pairs[x].control = "listening"
                         /\ pairs'[x].audio = pairs[x].audio
    BY <1>1, <1>2, <1>3, PipesAssumption
  <2> QED
    BY <2>1 DEF CrossInv, ListensWhenOffered, Offers
<1>11. AudioFollows'
  <2>1. \A x \in Pairs : /\ pairs'[x].control = "listening" => pairs[x].control = "listening"
                         /\ pairs'[x].audio = pairs[x].audio
    BY <1>1, <1>2, <1>3, PipesAssumption
  <2> QED
    BY <2>1 DEF CrossInv, AudioFollows, Offers, Alone
<1>12. Uncrossed'
  <2> SUFFICES ASSUME Alone', NEW d \in Clients
               PROVE  /\ Is(d, "audio")' => HalfOpen(d)'
                      /\ Is(d, "connected")' => client'[d].control = client'[d].audio
    BY DEF Uncrossed
  <2>1. Alone
    BY DEF Alone
  <2>2. CASE d = c
    <3>1. proc[q].place # "control" => pairs[p].audio = "listening"
      BY <1>1, <1>7, <2>1 DEF CrossInv, AudioFollows
    <3>2. HalfOpen(c)'
      BY <1>2, <1>3, <1>5, <1>6, <1>7, <1>8, <3>1 DEF HalfOpen, Offers
    <3> QED
      BY <1>5, <1>6, <2>2, <3>2 DEF Is
  <2>3. CASE d # c
    <3>1. client'[d] = client[d]
      BY <1>6, <2>3
    <3>2. ASSUME Is(d, "audio")
          PROVE  HalfOpen(d)'
      <4>1. HalfOpen(d)
        BY <2>1, <3>2 DEF CrossInv, Uncrossed
      <4>2. client[d].control # p
        BY <1>1, <1>7, <1>8, <4>1, PipesAssumption DEF HalfOpen, Offers, Accepting
      <4> QED
        BY <1>2, <1>3, <3>1, <4>1, <4>2 DEF HalfOpen, Offers
    <3> QED
      BY <2>1, <3>1, <3>2 DEF CrossInv, Uncrossed, Is
  <2> QED
    BY <2>2, <2>3
<1> QED
  BY <1>6, <1>9, <1>10, <1>11, <1>12 DEF CrossInv

LEMMA OpensAudioKeepsCross ==
    ASSUME CrossInv, LifetimeInv', UNCHANGED proc, NEW c \in Clients, OpensAudio(c)
    PROVE  CrossInv'
<1> DEFINE m == client[c]
           held == m.control
<1>1. PICK p \in Pairs :
         /\ pairs[p].audio = "listening" /\ pairs' = [pairs EXCEPT ![p].audio = c]
         /\ client' = [client EXCEPT ![c] = [NoHandles EXCEPT !.place = "connected",
                                             !.control = held, !.audio = p]]
  BY DEF OpensAudio, Listening
<1> DEFINE g == [pairs EXCEPT ![p].audio = c]
           r == [NoHandles EXCEPT !.place = "connected", !.control = held, !.audio = p]
<1>2. \A x \in Pairs : /\ g[x].owner = pairs[x].owner /\ g[x].control = pairs[x].control
                       /\ g[x].audio = IF x = p THEN c ELSE pairs[x].audio
  <2>1. c \in Ends /\ TypedPairs(pairs)
    BY DEF Ends, CrossInv, LifetimeInv
  <2> QED
    BY <2>1, AudioEnds, ZenonT(40)
<1> HIDE DEF g
<1>3. pairs' = g
  BY <1>1 DEF g
<1>4. held \in 0 .. MaxPairs /\ m.place = "audio" /\ p \in 0 .. MaxPairs
  BY PipesAssumption DEF CrossInv, ClientTyped, ClientFields, OpensAudio, Is, Pairs
<1>5. client' = [client EXCEPT ![c] = r]
  BY <1>1
<1>6. pairs[held].control = c
  BY DEF OpensAudio
<1> HIDE DEF held, m
<1>7. r \in ClientFields(r) /\ r.place = "connected" /\ r.control = held /\ r.audio = p
  BY <1>4 DEF ClientFields, ClientPlaces, NoHandles
<1> HIDE DEF r
<1>8. ClientTyped' /\ client'[c] = r /\ \A d \in Clients \ {c} : client'[d] = client[d]
  BY <1>5, <1>7, ClientMoves DEF CrossInv
<1>9. c # "listening"
  BY PipesAssumption
<1>10. ControlIsHeld'
  <2> SUFFICES ASSUME NEW x \in Pairs, NEW d \in Clients, pairs'[x].control = d
               PROVE  /\ client'[d].control = x
                      /\ client'[d].place \in {"audio", "connected", "closing"}
    BY DEF ControlIsHeld
  <2>1. pairs[x].control = d
    BY <1>2, <1>3
  <2>2. client[d].control = x /\ client[d].place \in {"audio", "connected", "closing"}
    BY <2>1 DEF CrossInv, ControlIsHeld
  <2> QED
    BY <1>7, <1>8, <2>2 DEF held, m
<1>11. \A x \in Pairs : /\ pairs'[x].audio = "listening" => pairs[x].audio = "listening"
                        /\ pairs'[x].control = pairs[x].control
                        /\ pairs'[x].owner = pairs[x].owner
  BY <1>2, <1>3, <1>9
<1>12. ListensWhenOffered'
  BY <1>11 DEF CrossInv, ListensWhenOffered, Offers
\* Alone, a process offers the pair whose control pipe the client has.
<1>13. Alone => held = p
  <2> SUFFICES ASSUME Alone
               PROVE  held = p
    OBVIOUS
  <2>1. HalfOpen(c)
    BY <1>4 DEF CrossInv, Uncrossed, Is, m
  <2>2. PICK q \in Processes : Offers(q, held)
    BY <1>6, <2>1 DEF HalfOpen, held, m
  <2>3. PICK x \in Processes : Offers(x, p)
    BY <1>1 DEF CrossInv, ListensWhenOffered
  <2>4. proc[q].place # "absent" /\ proc[x].place # "absent"
    BY <2>2, <2>3 DEF Offers, Accepting
  <2>5. q = x
    BY <2>4 DEF Alone
  <2> QED
    BY <2>2, <2>3, <2>5 DEF Offers
<1>14. AudioFollows'
  <2> SUFFICES ASSUME Alone', NEW x \in Pairs, NEW q \in Processes,
                      pairs'[x].control = "listening", Offers(q, x)', proc'[q].place # "control"
               PROVE  pairs'[x].audio = "listening"
    BY DEF AudioFollows
  <2>1. Alone /\ Offers(q, x) /\ pairs[x].control = "listening" /\ proc[q].place # "control"
    BY <1>11 DEF Alone, Offers
  <2>2. pairs[x].audio = "listening"
    BY <2>1 DEF CrossInv, AudioFollows
  <2>3. x # p
    BY <1>6, <1>9, <1>13, <2>1
  <2> QED
    BY <1>2, <1>3, <2>2, <2>3
<1>15. Uncrossed'
  <2> SUFFICES ASSUME Alone', NEW d \in Clients
               PROVE  /\ Is(d, "audio")' => HalfOpen(d)'
                      /\ Is(d, "connected")' => client'[d].control = client'[d].audio
    BY DEF Uncrossed
  <2>1. Alone
    BY DEF Alone
  <2>2. CASE d = c
    BY <1>7, <1>8, <1>13, <2>1, <2>2 DEF Is
  <2>3. CASE d # c
    <3>1. client'[d] = client[d]
      BY <1>8, <2>3
    <3>2. ASSUME Is(d, "audio")
          PROVE  HalfOpen(d)'
      <4>1. HalfOpen(d)
        BY <2>1, <3>2 DEF CrossInv, Uncrossed
      <4>2. pairs[client[d].control].control = d => client[d].control # p
        BY <1>6, <1>13, <2>1, <2>3
      <4> QED
        BY <1>2, <1>3, <3>1, <4>1, <4>2 DEF HalfOpen, Offers
    <3> QED
      BY <2>1, <3>1, <3>2 DEF CrossInv, Uncrossed, Is
  <2> QED
    BY <2>2, <2>3
<1> QED
  BY <1>8, <1>10, <1>12, <1>14, <1>15 DEF CrossInv

LEMMA ModeFailsKeepsCross ==
    ASSUME CrossInv, LifetimeInv', UNCHANGED proc, NEW c \in Clients, ModeFails(c)
    PROVE  CrossInv'
<1> DEFINE m == client[c]
           r == [m EXCEPT !.place = "waiting", !.control = 0]
<1>1. PICK p \in Pairs :
         pairs[p].audio = "listening" /\ pairs' = [pairs EXCEPT ![p].audio = "broken"]
  BY DEF ModeFails, Listening
<1> DEFINE g == [pairs EXCEPT ![p].audio = "broken"]
<1>2. \A x \in Pairs : /\ g[x].owner = pairs[x].owner /\ g[x].control = pairs[x].control
                       /\ g[x].audio = IF x = p THEN "broken" ELSE pairs[x].audio
  <2>1. "broken" \in Ends /\ TypedPairs(pairs)
    BY DEF Ends, CrossInv, LifetimeInv
  <2> QED
    BY <2>1, AudioEnds, ZenonT(40)
<1> HIDE DEF g
<1>3. pairs' = g
  BY <1>1 DEF g
<1>4. /\ m \in ClientFields(m) /\ client = [d \in Clients |-> client[d]] /\ m.place = "audio"
      /\ 0 \in 0 .. MaxPairs
  BY PipesAssumption DEF CrossInv, ClientTyped, ModeFails, Is
<1>5. client' = [client EXCEPT ![c] = r]
  BY <1>4 DEF ModeFails, AttemptFails
<1>6. pairs[m.control].control # c
  BY DEF ModeFails
<1> HIDE DEF m
<1>7. r \in ClientFields(r) /\ r.place = "waiting"
  BY <1>4 DEF ClientFields, ClientPlaces
<1> HIDE DEF r
<1>8. ClientTyped' /\ client'[c] = r /\ \A d \in Clients \ {c} : client'[d] = client[d]
  BY <1>5, <1>7, ClientMoves DEF CrossInv
<1>9. ControlIsHeld'
  <2> SUFFICES ASSUME NEW x \in Pairs, NEW d \in Clients, pairs'[x].control = d
               PROVE  /\ client'[d].control = x
                      /\ client'[d].place \in {"audio", "connected", "closing"}
    BY DEF ControlIsHeld
  <2>1. pairs[x].control = d
    BY <1>2, <1>3
  <2>2. client[d].control = x /\ client[d].place \in {"audio", "connected", "closing"}
    BY <2>1 DEF CrossInv, ControlIsHeld
  <2>3. d # c
    BY <1>6, <2>1, <2>2 DEF m
  <2> QED
    BY <1>8, <2>2, <2>3
<1>10. ListensWhenOffered'
  <2>1. \A x \in Pairs : /\ pairs'[x].audio = "listening" => pairs[x].audio = "listening"
                         /\ pairs'[x].control = pairs[x].control
    BY <1>2, <1>3
  <2> QED
    BY <2>1 DEF CrossInv, ListensWhenOffered, Offers
\* Alone, the process behind a control pipe that is gone has exited, and no other
\* offers an audio pipe.
<1>11. ~Alone
  <2> SUFFICES ASSUME Alone
               PROVE  FALSE
    OBVIOUS
  <2>1. HalfOpen(c)
    BY <1>4 DEF CrossInv, Uncrossed, Is, m
  <2>2. PICK q \in Processes : proc[q].place = "exited"
    BY <1>6, <2>1 DEF HalfOpen, m
  <2>3. PICK x \in Processes : proc[x].place \in Accepting
    BY <1>1 DEF CrossInv, ListensWhenOffered, Offers
  <2>4. q = x
    BY <2>2, <2>3 DEF Alone, Accepting
  <2> QED
    BY <2>2, <2>3, <2>4 DEF Accepting
<1>12. AudioFollows' /\ Uncrossed'
  <2>1. ~Alone'
    BY <1>11 DEF Alone
  <2> QED
    BY <2>1 DEF AudioFollows, Uncrossed
<1> QED
  BY <1>8, <1>9, <1>10, <1>12 DEF CrossInv

\* The client lets its handles go.
LEMMA LeavingKeepsCross ==
    ASSUME CrossInv, LifetimeInv', UNCHANGED proc, NEW c \in Clients, pairs' = LeftBy(c, pairs),
           ClientTyped', \A d \in Clients \ {c} : client'[d] = client[d],
           client'[c].place \notin {"audio", "connected"}
    PROVE  CrossInv'
<1>1. TypedPairs(pairs)
  BY DEF CrossInv, LifetimeInv
<1>2. \A x \in Pairs : /\ pairs'[x].owner = pairs[x].owner
                       /\ pairs'[x].control = Broken(pairs[x].control, c)
                       /\ pairs'[x].audio = Broken(pairs[x].audio, c)
  BY <1>1, LeftIs
<1>3. c # "listening" /\ "broken" \notin Clients
  BY PipesAssumption
<1>4. \A x \in Pairs : /\ pairs'[x].control = "listening" <=> pairs[x].control = "listening"
                       /\ pairs'[x].audio = "listening" <=> pairs[x].audio = "listening"
                       /\ \A d \in Clients : pairs'[x].control = d <=> pairs[x].control = d /\ d # c
  BY <1>2, <1>3 DEF Broken
<1>5. ControlIsHeld'
  BY <1>4 DEF CrossInv, ControlIsHeld
<1>6. ListensWhenOffered' /\ AudioFollows'
  BY <1>4 DEF CrossInv, ListensWhenOffered, AudioFollows, Offers, Alone
<1>7. Uncrossed'
  <2> SUFFICES ASSUME Alone', NEW d \in Clients \ {c}
               PROVE  /\ Is(d, "audio")' => HalfOpen(d)'
                      /\ Is(d, "connected")' => client'[d].control = client'[d].audio
    BY DEF Uncrossed, Is
  <2>1. Alone
    BY DEF Alone
  <2>2. ASSUME Is(d, "audio")
        PROVE  HalfOpen(d)'
    <3>1. HalfOpen(d)
      BY <2>1, <2>2 DEF CrossInv, Uncrossed
    <3> QED
      BY <1>2, <1>4, <3>1 DEF HalfOpen, Offers
  <2> QED
    BY <2>1, <2>2 DEF CrossInv, Uncrossed, Is
<1> QED
  BY <1>5, <1>6, <1>7 DEF CrossInv

LEMMA ClientKeepsCross ==
    ASSUME CrossInv, NEW c \in Clients, Connects(c) \/ Leaves(c) \/ Closes(c)
    PROVE  CrossInv'
<1> DEFINE m == client[c]
           Others == \A d \in Clients \ {c} : client'[d] = client[d]
<1>1. /\ m \in ClientFields(m) /\ client = [d \in Clients |-> client[d]] /\ 0 \in 0 .. MaxPairs
      /\ ClientTyped
  BY PipesAssumption DEF CrossInv, ClientTyped
<1>2. LifetimeInv' /\ UNCHANGED proc
  BY ClientKeepsLifetime DEF CrossInv
<1>3. ASSUME NEW place \in ClientPlaces, ClientGoes(c, place)
      PROVE  ClientTyped' /\ Others /\ client'[c].place = place /\ client'[c].control = m.control
  <2> DEFINE r == [m EXCEPT !.place = place]
  <2>1. client' = [client EXCEPT ![c] = r]
    BY <1>1, <1>3 DEF ClientGoes
  <2> HIDE DEF m
  <2>2. r \in ClientFields(r) /\ r.place = place /\ r.control = m.control
    BY <1>1 DEF ClientFields
  <2> HIDE DEF r
  <2> QED
    BY <1>1, <2>1, <2>2, ClientMoves
<1>4. ASSUME NEW place \in ClientPlaces, ConnectReturns(c, place)
      PROVE  ClientTyped' /\ Others /\ client'[c].place = place
  <2> DEFINE r == [NoHandles EXCEPT !.place = place]
  <2>1. client' = [client EXCEPT ![c] = r]
    BY <1>4 DEF ConnectReturns
  <2>2. r \in ClientFields(r) /\ r.place = place
    BY <1>1 DEF ClientFields, NoHandles
  <2> HIDE DEF r
  <2> QED
    BY <1>1, <2>1, <2>2, ClientMoves
<1>5. ASSUME AttemptFails(c)
      PROVE  ClientTyped' /\ Others /\ client'[c].place = "waiting"
  <2> DEFINE r == [m EXCEPT !.place = "waiting", !.control = 0]
  <2>1. client' = [client EXCEPT ![c] = r]
    BY <1>1, <1>5 DEF AttemptFails
  <2> HIDE DEF m
  <2>2. r \in ClientFields(r) /\ r.place = "waiting"
    BY <1>1 DEF ClientFields, ClientPlaces
  <2> HIDE DEF r
  <2> QED
    BY <1>1, <2>1, <2>2, ClientMoves
<1>6. CASE BeginConnect(c) \/ TriesAgain(c)
  <2>1. PICK n : /\ client' = [client EXCEPT ![c].place = "open", ![c].tries = n]
                 /\ UNCHANGED pairs /\ m.place \in {"idle", "waiting"}
    BY <1>6 DEF BeginConnect, TriesAgain, Is
  <2> DEFINE r == [m EXCEPT !.place = "open", !.tries = n]
  <2>2. client' = [client EXCEPT ![c] = r]
    BY <1>1, <2>1
  <2> HIDE DEF m
  <2>3. r \in ClientFields(r) /\ r.place = "open"
    BY <1>1 DEF ClientFields, ClientPlaces
  <2> HIDE DEF r
  <2>4. ClientTyped' /\ Others /\ client'[c].place = "open"
    BY <1>1, <2>2, <2>3, ClientMoves
  <2> QED
    BY <1>2, <2>1, <2>4, PlaceKeepsCross DEF m
<1>7. CASE ControlUnavailable(c)
  <2>1. PICK place \in {"launch", "waiting"} : ClientGoes(c, place)
    BY <1>7 DEF ControlUnavailable
  <2>2. UNCHANGED pairs /\ m.place = "open" /\ place \in ClientPlaces
    BY <1>7 DEF ControlUnavailable, Is, ClientPlaces
  <2>3. ClientTyped' /\ Others /\ client'[c].place = place
    BY <1>3, <2>1, <2>2
  <2> QED
    BY <1>2, <2>1, <2>2, <2>3, PlaceKeepsCross
<1>8. CASE GivesUp(c) \/ LaunchFails(c)
  <2>1. ConnectReturns(c, "failed") /\ UNCHANGED pairs /\ m.place \in {"waiting", "launch"}
    BY <1>8 DEF GivesUp, LaunchFails, Is
  <2>2. ClientTyped' /\ Others /\ client'[c].place = "failed"
    BY <1>4, <2>1 DEF ClientPlaces
  <2> QED
    BY <1>2, <2>1, <2>2, PlaceKeepsCross
<1>9. CASE Leaves(c)
  <2>1. ClientGoes(c, "closing") /\ UNCHANGED pairs
    BY <1>9 DEF Leaves, CancelsIo
  <2>2. /\ ClientTyped' /\ Others /\ client'[c].place = "closing"
        /\ client'[c].control = m.control
    BY <1>3, <2>1 DEF ClientPlaces
  <2> QED
    BY <1>2, <2>1, <2>2, PlaceKeepsCross
<1>10. CASE AudioUnavailable(c) \/ Denied(c) \/ Closes(c)
  <2>1. pairs' = LeftBy(c, pairs)
    BY <1>10 DEF AudioUnavailable, Denied, Closes, ClosesHandles
  <2>2. AttemptFails(c) \/ ConnectReturns(c, "failed") \/ ConnectReturns(c, "closed")
    BY <1>10 DEF AudioUnavailable, Denied, Closes, ClosesHandles
  <2>3. ClientTyped' /\ Others /\ client'[c].place \in {"waiting", "failed", "closed"}
    BY <1>4, <1>5, <2>2 DEF ClientPlaces
  <2> QED
    BY <1>2, <2>1, <2>3, LeavingKeepsCross
<1> QED
  BY <1>2, <1>6, <1>7, <1>8, <1>9, <1>10, OpensControlKeepsCross, OpensAudioKeepsCross,
     ModeFailsKeepsCross DEF Connects, ConnectSteps

-----------------------------------------------------------------------------
(* The two pipes of a client: the steps of the provider. *)

LEMMA InsideKeepsCross ==
    ASSUME CrossInv, LifetimeInv', SameEnds(pairs, pairs'), UNCHANGED <<proc, client>>
    PROVE  CrossInv'
<1>1. ClientTyped' /\ ControlIsHeld'
  BY DEF CrossInv, ClientTyped, ControlIsHeld, SameEnds
<1>2. ListensWhenOffered'
  BY DEF CrossInv, ListensWhenOffered, Offers, SameEnds
<1>3. AudioFollows'
  BY DEF CrossInv, AudioFollows, Offers, SameEnds, Alone
<1>4. Uncrossed'
  <2> SUFFICES ASSUME Alone', NEW d \in Clients
               PROVE  /\ Is(d, "audio")' => HalfOpen(d)'
                      /\ Is(d, "connected")' => client'[d].control = client'[d].audio
    BY DEF Uncrossed
  <2>1. Alone
    BY DEF Alone
  <2>2. HalfOpen(d) => HalfOpen(d)'
    BY DEF HalfOpen, Offers, SameEnds
  <2> QED
    BY <2>1, <2>2 DEF CrossInv, Uncrossed, Is
<1> QED
  BY <1>1, <1>2, <1>3, <1>4 DEF CrossInv

\* The process waits for its clients, has them, serves them, or is timed.
LEMMA WaitingKeepsCross ==
    ASSUME CrossInv, LifetimeInv', UNCHANGED <<pairs, client>>, NEW q \in Processes,
           StartsWaits(q) \/ Accepts(q) \/ Opens(q) \/ DelayEnds(q) \/ TryTriggerShutdown(q)
    PROVE  CrossInv'
<1>1. proc[q] \in ProcFields /\ proc = [y \in Processes |-> proc[y]]
  BY DEF CrossInv, LifetimeInv, ProcTyped
<1>2. \A x \in Processes \ {q} : proc'[x] = proc[x]
  BY <1>1 DEF StartsWaits, Accepts, Opens, DelayEnds, TryTriggerShutdown
<1>3. \/ /\ proc[q].place = "audio" /\ proc'[q].place = "accept"
         /\ proc'[q].at = proc[q].at
      \/ /\ proc[q].place = "accept" /\ proc'[q].place = "opened"
         /\ \A k \in Channels : pairs[proc[q].at][k] # "listening"
      \/ proc[q].place = "opened" /\ proc'[q].place = "boot"
      \/ /\ proc'[q].place = proc[q].place /\ proc'[q].at = proc[q].at
         /\ proc[q].place \notin {"absent", "exited"}
  <2>1. CASE StartsWaits(q)
    BY <1>1, <2>1 DEF StartsWaits, At, ProcFields
  <2>2. CASE Accepts(q)
    BY <1>1, <2>2 DEF Accepts, At, ProcFields, Offered
  <2>3. CASE Opens(q)
    BY <1>1, <2>3 DEF Opens, At, ProcFields
  <2>4. CASE DelayEnds(q)
    BY <1>1, <2>4 DEF DelayEnds, Running, ProcFields
  <2>5. CASE TryTriggerShutdown(q)
    BY <1>1, <2>5 DEF TryTriggerShutdown, Running, ProcFields
  <2> QED
    BY <2>1, <2>2, <2>3, <2>4, <2>5
\* What is offered stays so, unless nothing of it listens any more.
<1>4. \A x \in Processes, p \in Pairs :
         \/ Offers(x, p) /\ Offers(x, p)' /\ (proc'[x].place = "control" <=> proc[x].place = "control")
         \/ ~Offers(x, p) /\ ~Offers(x, p)'
         \/ /\ Offers(x, p) /\ ~Offers(x, p)' /\ proc[x].place # "control"
            /\ pairs[p].control # "listening" /\ pairs[p].audio # "listening"
  BY <1>2, <1>3 DEF Offers, Accepting, Channels
<1>5. \A x \in Processes : /\ proc'[x].place = "absent" <=> proc[x].place = "absent"
                           /\ proc[x].place = "exited" => proc'[x].place = "exited"
  BY <1>2, <1>3
<1>6. ClientTyped' /\ ControlIsHeld'
  BY DEF CrossInv, ClientTyped, ControlIsHeld
<1>7. ListensWhenOffered' /\ AudioFollows'
  BY <1>4, <1>5 DEF CrossInv, ListensWhenOffered, AudioFollows, Alone
<1>8. Uncrossed'
  <2> SUFFICES ASSUME Alone', NEW d \in Clients
               PROVE  /\ Is(d, "audio")' => HalfOpen(d)'
                      /\ Is(d, "connected")' => client'[d].control = client'[d].audio
    BY DEF Uncrossed
  <2>1. Alone
    BY <1>5 DEF Alone
  <2>2. HalfOpen(d) => HalfOpen(d)'
    BY <1>4, <1>5 DEF HalfOpen
  <2> QED
    BY <2>1, <2>2 DEF CrossInv, Uncrossed, Is
<1> QED
  BY <1>6, <1>7, <1>8 DEF CrossInv

LEMMA ExitKeepsCross ==
    ASSUME CrossInv, UNCHANGED client, NEW q \in Processes, Exits(q)
    PROVE  CrossInv'
<1>1. /\ LifetimeInv' /\ proc'[q].place = "exited"
      /\ \A x \in Processes \ {q} : proc'[x] = proc[x]
      /\ \A p \in Pairs : /\ pairs'[p].owner = pairs[p].owner
                          /\ IF pairs[p].owner = q
                             THEN pairs'[p].control = "closed" /\ pairs'[p].audio = "closed"
                             ELSE pairs'[p] = pairs[p]
  BY ExitKeepsLifetime DEF CrossInv
<1>2. "closed" \notin Clients
  BY PipesAssumption
<1>3. proc[q].place \in {"boot", "audio", "accept"}
  BY DEF Exits, At
<1>4. ClientTyped' /\ ControlIsHeld'
  BY <1>1, <1>2 DEF CrossInv, ClientTyped, ControlIsHeld
<1>5. \A x \in Processes, p \in Pairs : Offers(x, p) => pairs[p].owner = x
  BY DEF CrossInv, LifetimeInv, OfferedIsNew, Offers, Accepting
<1>6. ~\E p \in Pairs : Offers(q, p)'
  BY <1>1 DEF Offers, Accepting
<1>7. \A x \in Processes : proc'[x].place = "absent" <=> proc[x].place = "absent"
  BY <1>1, <1>3
<1>8. ListensWhenOffered' /\ AudioFollows'
  <2>1. \A p \in Pairs : pairs'[p].control = "listening" \/ pairs'[p].audio = "listening" =>
                            pairs[p].owner # q /\ pairs'[p] = pairs[p]
    BY <1>1
  <2> QED
    BY <1>1, <1>5, <1>6, <1>7, <2>1 DEF CrossInv, ListensWhenOffered, AudioFollows, Alone, Offers
<1>9. Uncrossed'
  <2> SUFFICES ASSUME Alone', NEW d \in Clients
               PROVE  /\ Is(d, "audio")' => HalfOpen(d)'
                      /\ Is(d, "connected")' => client'[d].control = client'[d].audio
    BY DEF Uncrossed
  <2>1. Alone
    BY <1>7 DEF Alone
  <2>2. HalfOpen(d) => HalfOpen(d)'
    <3> SUFFICES ASSUME HalfOpen(d)
                 PROVE  HalfOpen(d)'
      OBVIOUS
    <3> DEFINE p == client[d].control
    <3>1. p \in Pairs /\ pairs[p].owner \in Processes /\ proc[pairs[p].owner].place # "absent"
      BY DEF HalfOpen, Offers, Accepting
    <3>2. pairs[p].owner = q
      BY <1>3, <2>1, <3>1 DEF Alone
    <3> QED
      BY <1>1, <1>2, <3>1, <3>2 DEF HalfOpen
  <2> QED
    BY <2>1, <2>2 DEF CrossInv, Uncrossed, Is
<1> QED
  BY <1>1, <1>4, <1>8, <1>9 DEF CrossInv

LEMMA EndKeepsCross ==
    ASSUME CrossInv, UNCHANGED client, NEW y \in Pairs, SessionEnds(y)
    PROVE  CrossInv'
<1>1. /\ LifetimeInv'
      /\ \A x \in Processes : proc'[x].place = proc[x].place /\ proc'[x].at = proc[x].at
      /\ \A p \in Pairs : /\ pairs'[p].owner = pairs[p].owner
                          /\ IF p = y
                             THEN pairs'[p].control = "closed" /\ pairs'[p].audio = "closed"
                             ELSE pairs'[p] = pairs[p]
      /\ session[y] = "reading"
  BY EndKeepsLifetime DEF CrossInv
<1>2. "closed" \notin Clients
  BY PipesAssumption
<1>3. ClientTyped' /\ ControlIsHeld'
  BY <1>1, <1>2 DEF CrossInv, ClientTyped, ControlIsHeld
<1>4. \A x \in Processes, p \in Pairs : Offers(x, p)' <=> Offers(x, p)
  BY <1>1 DEF Offers
<1>5. ListensWhenOffered'
  BY <1>1, <1>4 DEF CrossInv, ListensWhenOffered
<1>6. AudioFollows'
  BY <1>1, <1>4 DEF CrossInv, AudioFollows, Alone
<1>7. Uncrossed'
  <2> SUFFICES ASSUME Alone', NEW d \in Clients
               PROVE  /\ Is(d, "audio")' => HalfOpen(d)'
                      /\ Is(d, "connected")' => client'[d].control = client'[d].audio
    BY DEF Uncrossed
  <2>1. Alone
    BY <1>1 DEF Alone
  <2>2. HalfOpen(d) => HalfOpen(d)'
    <3> SUFFICES ASSUME HalfOpen(d)
                 PROVE  HalfOpen(d)'
      OBVIOUS
    <3>1. client[d].control # y
      BY <1>1 DEF HalfOpen, Offers, Accepting, CrossInv, LifetimeInv, OfferedIsNew, ServersRun,
         Serving, Running
    <3> QED
      BY <1>1, <1>4, <3>1 DEF HalfOpen
  <2> QED
    BY <2>1, <2>2 DEF CrossInv, Uncrossed, Is
<1> QED
  BY <1>1, <1>3, <1>5, <1>6, <1>7 DEF CrossInv

LEMMA CreatesControlKeepsCross ==
    ASSUME CrossInv, LifetimeInv', UNCHANGED client, NEW q \in Processes, ControlCreated(q)
    PROVE  CrossInv'
<1>1. PICK p \in FreePairs :
         /\ proc[q].place = "boot" /\ proc'[q].place = "control" /\ proc'[q].at = p
         /\ \A x \in Processes \ {q} : proc'[x] = proc[x]
         /\ pairs'[p].owner = q /\ pairs'[p].control = "listening" /\ pairs'[p].audio = "none"
         /\ \A x \in Pairs \ {p} : pairs'[x] = pairs[x]
  BY DEF ControlCreated
<1>2. p \in Pairs /\ pairs[p].owner \notin Processes /\ "listening" \notin Clients
  BY PipesAssumption DEF FreePairs
<1>3. \A x \in Processes, r \in Pairs : Offers(x, r) => x # q /\ r # p /\ Offers(x, r)'
  BY <1>1, <1>2 DEF Offers, Accepting, CrossInv, LifetimeInv, OfferedIsNew
<1>4. Offers(q, p)' /\ \A x \in Processes, r \in Pairs : Offers(x, r)' => x = q \/ Offers(x, r)
  BY <1>1 DEF Offers, Accepting
<1>5. ClientTyped' /\ ControlIsHeld'
  BY <1>1, <1>2 DEF CrossInv, ClientTyped, ControlIsHeld
<1>6. ListensWhenOffered'
  <2> SUFFICES ASSUME NEW r \in Pairs
               PROVE  /\ pairs'[r].control = "listening" => \E x \in Processes : Offers(x, r)'
                      /\ pairs'[r].audio = "listening" =>
                            \E x \in Processes : Offers(x, r)' /\ proc'[x].place # "control"
    BY DEF ListensWhenOffered
  <2>1. CASE r = p
    BY <1>1, <1>4, <2>1
  <2>2. CASE r # p
    BY <1>1, <1>3, <2>2 DEF CrossInv, ListensWhenOffered
  <2> QED
    BY <2>1, <2>2
<1>7. Alone' => Alone
  BY <1>1 DEF Alone
<1>8. AudioFollows'
  <2> SUFFICES ASSUME Alone', NEW r \in Pairs, NEW x \in Processes,
                      pairs'[r].control = "listening", Offers(x, r)', proc'[x].place # "control"
               PROVE  pairs'[r].audio = "listening"
    BY DEF AudioFollows
  <2>1. x # q /\ Offers(x, r) /\ r # p
    BY <1>1, <1>3, <1>4
  <2> QED
    BY <1>1, <1>7, <2>1 DEF CrossInv, AudioFollows
\* No client is half-way: the process it would be with is offering no pair.
<1>9. Uncrossed'
  <2> SUFFICES ASSUME Alone', NEW d \in Clients
               PROVE  /\ ~Is(d, "audio")
                      /\ Is(d, "connected") => client[d].control = client[d].audio
    BY DEF Uncrossed, Is
  <2>1. Alone
    BY <1>7
  <2>2. ~HalfOpen(d)
    <3> SUFFICES ASSUME HalfOpen(d)
                 PROVE  FALSE
      OBVIOUS
    <3> DEFINE x == pairs[client[d].control].owner
    <3>1. x \in Processes /\ proc[x].place \in Accepting \cup {"exited"}
      BY DEF HalfOpen, Offers
    <3>2. x = q
      BY <1>1, <2>1, <3>1 DEF Alone, Accepting
    <3> QED
      BY <1>1, <3>1, <3>2 DEF Accepting
  <2> QED
    BY <2>1, <2>2 DEF CrossInv, Uncrossed
<1> QED
  BY <1>5, <1>6, <1>8, <1>9 DEF CrossInv

LEMMA CreatesAudioKeepsCross ==
    ASSUME CrossInv, LifetimeInv', UNCHANGED client, NEW q \in Processes, AudioCreated(q)
    PROVE  CrossInv'
<1> DEFINE p == proc[q].at
<1>1. /\ p \in Pairs
      /\ proc[q].place = "control" /\ proc'[q].place = "audio" /\ proc'[q].at = p
      /\ \A x \in Processes \ {q} : proc'[x] = proc[x]
      /\ pairs'[p].owner = q /\ pairs'[p].control = pairs[p].control
      /\ pairs'[p].audio = "listening"
      /\ \A x \in Pairs \ {p} : pairs'[x] = pairs[x]
  BY DEF AudioCreated
<1>2. Offers(q, p) /\ pairs[p].owner = q
  BY <1>1 DEF Offers, Accepting, CrossInv, LifetimeInv, OfferedIsNew
<1>3. \A x \in Processes, r \in Pairs : Offers(x, r)' <=> Offers(x, r)
  BY <1>1 DEF Offers, Accepting
<1>4. \A x \in Processes : /\ proc'[x].place = "absent" <=> proc[x].place = "absent"
                           /\ proc'[x].place = "exited" <=> proc[x].place = "exited"
                           /\ proc'[x].place = "control" => proc[x].place = "control"
  BY <1>1
<1>5. \A r \in Pairs : /\ pairs'[r].owner = pairs[r].owner /\ pairs'[r].control = pairs[r].control
                       /\ r # p => pairs'[r].audio = pairs[r].audio
  BY <1>1, <1>2
<1>6. \A r \in Pairs : Offers(q, r) => r = p
  BY DEF Offers
<1>7. pairs'[p].audio = "listening" /\ proc'[q].place = "audio"
      /\ \A x \in Processes \ {q} : proc'[x].place = proc[x].place
  BY <1>1
<1> HIDE DEF p
<1>8. ClientTyped' /\ ControlIsHeld'
  BY <1>5 DEF CrossInv, ClientTyped, ControlIsHeld
<1>9. ListensWhenOffered'
  <2> SUFFICES ASSUME NEW r \in Pairs
               PROVE  /\ pairs'[r].control = "listening" => \E x \in Processes : Offers(x, r)'
                      /\ pairs'[r].audio = "listening" =>
                            \E x \in Processes : Offers(x, r)' /\ proc'[x].place # "control"
    BY DEF ListensWhenOffered
  <2>1. pairs'[r].control = "listening" => \E x \in Processes : Offers(x, r)'
    BY <1>3, <1>5 DEF CrossInv, ListensWhenOffered
  <2>2. pairs'[r].audio = "listening" =>
           \E x \in Processes : Offers(x, r)' /\ proc'[x].place # "control"
    <3>1. CASE r = p
      BY <1>2, <1>3, <1>7, <3>1
    <3>2. CASE r # p
      BY <1>3, <1>4, <1>5, <3>2 DEF CrossInv, ListensWhenOffered
    <3> QED
      BY <3>1, <3>2
  <2> QED
    BY <2>1, <2>2
<1>10. Alone' => Alone
  BY <1>4 DEF Alone
<1>11. AudioFollows'
  <2> SUFFICES ASSUME Alone', NEW r \in Pairs, NEW x \in Processes,
                      pairs'[r].control = "listening", Offers(x, r)', proc'[x].place # "control"
               PROVE  pairs'[r].audio = "listening"
    BY DEF AudioFollows
  <2>1. CASE r = p
    BY <1>7, <2>1
  <2>2. CASE r # p
    <3>1. Offers(x, r) /\ pairs[r].control = "listening" /\ x # q
      BY <1>3, <1>5, <1>6, <2>2
    <3>2. proc[x].place # "control"
      BY <1>7, <3>1
    <3> QED
      BY <1>5, <1>10, <2>2, <3>1, <3>2 DEF CrossInv, AudioFollows
  <2> QED
    BY <2>1, <2>2
<1>12. Uncrossed'
  <2> SUFFICES ASSUME Alone', NEW d \in Clients
               PROVE  /\ Is(d, "audio") => HalfOpen(d)'
                      /\ Is(d, "connected") => client[d].control = client[d].audio
    BY DEF Uncrossed, Is
  <2>1. Alone
    BY <1>10
  <2>2. HalfOpen(d) => HalfOpen(d)'
    <3> SUFFICES ASSUME HalfOpen(d)
                 PROVE  HalfOpen(d)'
      OBVIOUS
    <3> DEFINE r == client[d].control
               x == pairs[r].owner
    <3>1. r \in Pairs /\ x \in Processes /\ r = client'[d].control /\ pairs'[r].owner = x
      BY <1>5 DEF HalfOpen
    <3>2. CASE pairs[r].control = d
      <4>1. Offers(x, r) /\ (proc[x].place # "control" => pairs[r].audio = "listening")
        BY <3>2 DEF HalfOpen
      <4>2. proc'[x].place # "control" => pairs'[r].audio = "listening"
        BY <1>2, <1>5, <1>6, <1>7, <3>1, <4>1
      <4> QED
        BY <1>3, <1>5, <3>1, <3>2, <4>1, <4>2 DEF HalfOpen
    <3>3. CASE pairs[r].control # d
      <4>1. proc[x].place = "exited"
        BY <3>3 DEF HalfOpen
      <4> QED
        BY <1>4, <1>5, <3>1, <3>3, <4>1 DEF HalfOpen
    <3> QED
      BY <3>2, <3>3
  <2> QED
    BY <2>1, <2>2 DEF CrossInv, Uncrossed
<1> QED
  BY <1>8, <1>9, <1>11, <1>12 DEF CrossInv

LEMMA LaunchKeepsCross ==
    ASSUME CrossInv, NEW c \in Clients, Launches(c)
    PROVE  CrossInv'
<1>1. LifetimeInv' /\ UNCHANGED pairs /\ Is(c, "launch")
  BY LaunchKeepsLifetime DEF CrossInv, Launches
<1>2. PICK q \in Absent : /\ client' = [client EXCEPT ![c].place = "waiting", ![c].own = q]
                          /\ proc'[q].place = "boot"
                          /\ \A x \in Processes \ {q} : proc'[x] = proc[x]
  BY LaunchKeepsLifetime DEF CrossInv
<1>3. q \in Processes /\ proc[q].place = "absent"
  BY DEF Absent, At
<1> DEFINE m == client[c]
           r == [m EXCEPT !.place = "waiting", !.own = q]
<1>4. /\ m \in ClientFields(m) /\ client = [d \in Clients |-> client[d]] /\ m.place = "launch"
      /\ ClientTyped
  BY <1>1 DEF CrossInv, ClientTyped, Is
<1>5. client' = [client EXCEPT ![c] = r]
  BY <1>2, <1>4
<1> HIDE DEF m
<1>6. r \in ClientFields(r) /\ r.place = "waiting"
  BY <1>4 DEF ClientFields, ClientPlaces
<1> HIDE DEF r
<1>7. ClientTyped' /\ client'[c].place = "waiting"
      /\ \A d \in Clients \ {c} : client'[d] = client[d]
  BY <1>4, <1>5, <1>6, ClientMoves
<1>8. \A x \in Processes, p \in Pairs : Offers(x, p)' <=> Offers(x, p)
  BY <1>2, <1>3 DEF Offers, Accepting
<1>9. ControlIsHeld'
  BY <1>1, <1>4, <1>7 DEF CrossInv, ControlIsHeld, m
<1>10. Alone' => \A x \in Processes : x # q => proc[x].place = "absent"
  BY <1>2, <1>3 DEF Alone
<1>11. Alone' => Alone
  BY <1>3, <1>10 DEF Alone
<1>12. ListensWhenOffered' /\ AudioFollows'
  <2>1. \A x \in Processes, p \in Pairs : Offers(x, p) => proc'[x] = proc[x]
    BY <1>2, <1>3 DEF Offers, Accepting
  <2> QED
    BY <1>1, <1>8, <1>11, <2>1 DEF CrossInv, ListensWhenOffered, AudioFollows
\* The first process: no client has opened a pipe yet.
<1>13. Uncrossed'
  <2> SUFFICES ASSUME Alone', NEW d \in Clients \ {c}
               PROVE  /\ ~Is(d, "audio")
                      /\ Is(d, "connected") => client[d].control = client[d].audio
    BY <1>7 DEF Uncrossed, Is
  <2>1. ~HalfOpen(d)
    BY <1>3, <1>10 DEF HalfOpen, Offers, Accepting
  <2> QED
    BY <1>11, <2>1 DEF CrossInv, Uncrossed
<1> QED
  BY <1>1, <1>7, <1>9, <1>12, <1>13 DEF CrossInv

LEMMA CrossAtFirst ==
    ASSUME Init
    PROVE  CrossInv
<1>1. LifetimeInv
  BY LifetimeAtFirst
<1>2. pairs = [p \in Pairs |-> NoPair] /\ client = [c \in Clients |-> NoHandles]
  BY DEF Init, PairsInit, ClientInit
<1>3. NoHandles \in ClientFields(NoHandles) /\ NoHandles.place = "idle"
  BY PipesAssumption DEF ClientFields, ClientPlaces, NoHandles
<1>4. NoPair.control = "none" /\ NoPair.audio = "none" /\ "none" \notin Clients
  BY PipesAssumption DEF NoPair
<1>5. ClientTyped
  BY <1>2, <1>3 DEF ClientTyped
<1>6. ControlIsHeld /\ ListensWhenOffered /\ AudioFollows
  BY <1>2, <1>4 DEF ControlIsHeld, ListensWhenOffered, AudioFollows
<1>7. Uncrossed
  BY <1>2, <1>3 DEF Uncrossed, Is
<1> QED
  BY <1>1, <1>5, <1>6, <1>7 DEF CrossInv

LEMMA CrossStep ==
    ASSUME CrossInv, [Next]_vars
    PROVE  CrossInv'
<1>1. LifetimeInv /\ LifetimeInv' /\ TypedPairs(pairs) /\ SessionTyped
  BY LifetimeStep DEF CrossInv, LifetimeInv
<1>2. ASSUME NEW c \in Clients, Connects(c) \/ Launches(c) \/ Leaves(c) \/ Closes(c)
      PROVE  CrossInv'
  BY <1>2, ClientKeepsCross, LaunchKeepsCross
<1>3. CASE Reads \/ AsksInfo \/ GetsInfo \/ SendsSpeak \/ BeginsCancel \/ SendsCancel
  BY <1>1, <1>3, ReadsInside, TalkInside, InsideKeepsCross DEF Inside
<1>4. ASSUME NEW q \in Processes, Runs(q)
      PROVE  CrossInv'
  <2>1. UNCHANGED client
    BY <1>4 DEF Runs, clientSide
  <2>2. CASE CreatesControl(q) \/ CreatesAudio(q)
    BY <1>1, <2>1, <2>2, CreationKeepsLifetime, CreatesControlKeepsCross, CreatesAudioKeepsCross
  <2>3. CASE StartsWaits(q) \/ Accepts(q) \/ Opens(q) \/ DelayEnds(q) \/ TryTriggerShutdown(q)
    <3>1. UNCHANGED pairs
      BY <2>3 DEF StartsWaits, Accepts, Opens, DelayEnds, TryTriggerShutdown
    <3> QED
      BY <1>1, <2>1, <2>3, <3>1, WaitingKeepsCross
  <2>4. CASE Exits(q)
    BY <2>1, <2>4, ExitKeepsCross
  <2> QED
    BY <1>4, <2>2, <2>3, <2>4 DEF Runs, ProcessEnds
<1>5. ASSUME NEW p \in Pairs, Loops(p)
      PROVE  CrossInv'
  <2>1. UNCHANGED client
    BY <1>5 DEF Loops, clientSide
  <2>2. CASE SessionEnds(p)
    BY <2>1, <2>2, EndKeepsCross
  <2> QED
    BY <1>1, <1>5, <2>1, <2>2, LoopInside, InsideKeepsCross
       DEF Loops, LoopSteps, ConversationEnds
<1>6. ASSUME NEW p \in Pairs, Synthesizes(p)
      PROVE  CrossInv'
  BY <1>1, <1>6, SynthesisInside, InsideKeepsCross DEF Inside
<1>7. CASE UNCHANGED vars
  <2>1. SameEnds(pairs, pairs') /\ UNCHANGED <<proc, client>>
    BY <1>1, <1>7, NothingMoves DEF vars
  <2> QED
    BY <1>1, <2>1, InsideKeepsCross
<1> QED
  BY <1>2, <1>3, <1>4, <1>5, <1>6, <1>7 DEF Next

\* Two processes that have been launched are two fewer that are absent.
LEMMA TwoLaunched ==
    ASSUME NEW q \in Processes, NEW r \in Processes, q # r, q \notin Absent, r \notin Absent
    PROVE  Cardinality(Absent) < Cardinality(Processes) - 1
<1> DEFINE Left == Processes \ {q}
           Rest == Left \ {r}
<1>1. IsFiniteSet(Processes)
  BY PipesAssumption
<1>2. IsFiniteSet(Left) /\ Cardinality(Left) = Cardinality(Processes) - 1
  BY <1>1, FS_RemoveElement
<1>3. r \in Left /\ Absent \subseteq Rest
  BY DEF Absent
<1> HIDE DEF Left
<1>4. IsFiniteSet(Rest) /\ Cardinality(Rest) = Cardinality(Left) - 1
  BY <1>2, <1>3, FS_RemoveElement
<1> HIDE DEF Rest
<1>5. Cardinality(Absent) <= Cardinality(Rest)
  BY <1>3, <1>4, FS_Subset
<1>6. Cardinality(Absent) \in Nat /\ Cardinality(Processes) \in Nat /\ Cardinality(Rest) \in Nat
  BY <1>1, <1>3, <1>4, FS_Subset, FS_CardinalityType
<1> QED
  BY <1>2, <1>4, <1>5, <1>6

\* The two pipes of a client are of one pair unless two providers have been
\* launched: whatever order clients, accepting provider and failures come in
\* (PipeClient::Connect against AcceptSessionAsync).
THEOREM CrossedOnlyByDuplicatesHolds == Spec => []CrossedOnlyByDuplicates
<1>1. Init => CrossInv
  BY CrossAtFirst
<1>2. CrossInv /\ [Next]_vars => CrossInv'
  BY CrossStep
<1>3. CrossInv => CrossedOnlyByDuplicates
  <2> SUFFICES ASSUME CrossInv, NEW c \in Clients, Is(c, "connected"),
                      client[c].control # client[c].audio
               PROVE  Cardinality(Absent) < Cardinality(Processes) - 1
    BY DEF CrossedOnlyByDuplicates
  <2>1. ~Alone
    BY DEF CrossInv, Uncrossed
  <2>2. PICK q \in Processes, r \in Processes : q # r /\ q \notin Absent /\ r \notin Absent
    BY <2>1 DEF Alone, Absent, At
  <2> QED
    BY <2>2, TwoLaunched
<1> QED
  BY <1>1, <1>2, <1>3, PTL DEF Spec
-----------------------------------------------------------------------------
(* What a step does to the data in the pipes, pair by pair. *)

LEMMA CommandsAre ==
    ASSUME NEW f, TypedPairs(f), NEW x \in Pairs, NEW v
    PROVE  LET g == [f EXCEPT ![x].commands = v]
           IN  \A p \in Pairs : /\ g[p].commands = IF p = x THEN v ELSE f[p].commands
                                /\ g[p].replies = f[p].replies /\ g[p].pcm = f[p].pcm
<1> DEFINE g == [f EXCEPT ![x].commands = v]
<1>1. \A p \in Pairs : f[p] \in PairFields(f[p]) /\ f = [r \in Pairs |-> f[r]]
  BY DEF TypedPairs
<1>2. \A p \in Pairs : g[p] = IF p = x THEN [f[p] EXCEPT !.commands = v] ELSE f[p]
  BY <1>1
<1> HIDE DEF g
<1>3. \A p \in Pairs : /\ g[p].commands = IF p = x THEN v ELSE f[p].commands
                       /\ g[p].replies = f[p].replies /\ g[p].pcm = f[p].pcm
  BY <1>1, <1>2, ZenonT(40) DEF PairFields
<1> QED
  BY <1>3 DEF g

LEMMA RepliesAre ==
    ASSUME NEW f, TypedPairs(f), NEW x \in Pairs, NEW v
    PROVE  LET g == [f EXCEPT ![x].replies = v]
           IN  \A p \in Pairs : /\ g[p].replies = IF p = x THEN v ELSE f[p].replies
                                /\ g[p].commands = f[p].commands /\ g[p].pcm = f[p].pcm
<1> DEFINE g == [f EXCEPT ![x].replies = v]
<1>1. \A p \in Pairs : f[p] \in PairFields(f[p]) /\ f = [r \in Pairs |-> f[r]]
  BY DEF TypedPairs
<1>2. \A p \in Pairs : g[p] = IF p = x THEN [f[p] EXCEPT !.replies = v] ELSE f[p]
  BY <1>1
<1> HIDE DEF g
<1>3. \A p \in Pairs : /\ g[p].replies = IF p = x THEN v ELSE f[p].replies
                       /\ g[p].commands = f[p].commands /\ g[p].pcm = f[p].pcm
  BY <1>1, <1>2, ZenonT(40) DEF PairFields
<1> QED
  BY <1>3 DEF g

LEMMA AudioIs ==
    ASSUME NEW f, TypedPairs(f), NEW x \in Pairs, NEW v
    PROVE  LET g == [f EXCEPT ![x].pcm = v]
           IN  \A p \in Pairs : /\ g[p].pcm = IF p = x THEN v ELSE f[p].pcm
                                /\ g[p].commands = f[p].commands /\ g[p].replies = f[p].replies
<1> DEFINE g == [f EXCEPT ![x].pcm = v]
<1>1. \A p \in Pairs : f[p] \in PairFields(f[p]) /\ f = [r \in Pairs |-> f[r]]
  BY DEF TypedPairs
<1>2. \A p \in Pairs : g[p] = IF p = x THEN [f[p] EXCEPT !.pcm = v] ELSE f[p]
  BY <1>1
<1> HIDE DEF g
<1>3. \A p \in Pairs : /\ g[p].pcm = IF p = x THEN v ELSE f[p].pcm
                       /\ g[p].commands = f[p].commands /\ g[p].replies = f[p].replies
  BY <1>1, <1>2, ZenonT(40) DEF PairFields
<1> QED
  BY <1>3 DEF g

\* The data of a pair are as they were.
SameData(f, g) ==
    \A p \in Pairs : /\ g[p].commands = f[p].commands
                     /\ g[p].replies = f[p].replies /\ g[p].pcm = f[p].pcm

LEMMA EndsKeepData ==
    ASSUME NEW f, TypedPairs(f), NEW x \in Pairs, NEW v, NEW w
    PROVE  /\ SameData(f, [f EXCEPT ![x].control = v])
           /\ SameData(f, [f EXCEPT ![x].audio = v])
           /\ SameData(f, [f EXCEPT ![x].owner = w, ![x].control = v])
<1> DEFINE g == [f EXCEPT ![x].control = v]
           h == [f EXCEPT ![x].audio = v]
           e == [f EXCEPT ![x].owner = w, ![x].control = v]
<1>1. \A p \in Pairs : f[p] \in PairFields(f[p]) /\ f = [r \in Pairs |-> f[r]]
  BY DEF TypedPairs
<1>2. /\ \A p \in Pairs : g[p] = IF p = x THEN [f[p] EXCEPT !.control = v] ELSE f[p]
      /\ \A p \in Pairs : h[p] = IF p = x THEN [f[p] EXCEPT !.audio = v] ELSE f[p]
      /\ \A p \in Pairs : e[p] = IF p = x THEN [f[p] EXCEPT !.owner = w, !.control = v] ELSE f[p]
  BY <1>1
<1> HIDE DEF g, h, e
<1>3. SameData(f, g)
  BY <1>1, <1>2 DEF PairFields, SameData
<1>4. SameData(f, h)
  BY <1>1, <1>2 DEF PairFields, SameData
<1>5. SameData(f, e)
  BY <1>1, <1>2 DEF PairFields, SameData
<1> QED
  BY <1>3, <1>4, <1>5 DEF g, h, e

LEMMA LeftData ==
    ASSUME NEW f, TypedPairs(f), NEW c
    PROVE  \A p \in Pairs :
              /\ LeftBy(c, f)[p].commands = f[p].commands
              /\ LeftBy(c, f)[p].replies = IF f[p].control = c THEN <<>> ELSE f[p].replies
              /\ LeftBy(c, f)[p].pcm = IF f[p].audio = c THEN <<>> ELSE f[p].pcm
<1> TAKE p \in Pairs
<1>1. f[p] \in PairFields(f[p])
  BY DEF TypedPairs
<1> DEFINE r == [f[p] EXCEPT !.control = Broken(@, c), !.audio = Broken(@, c),
                             !.replies = IF f[p].control = c THEN <<>> ELSE @,
                             !.pcm = IF f[p].audio = c THEN <<>> ELSE @]
<1>2. LeftBy(c, f)[p] = r
  BY DEF LeftBy
<1>3. /\ r.commands = f[p].commands
      /\ r.replies = IF f[p].control = c THEN <<>> ELSE f[p].replies
      /\ r.pcm = IF f[p].audio = c THEN <<>> ELSE f[p].pcm
  BY <1>1 DEF PairFields
<1> QED
  BY <1>2, <1>3

LEMMA DisposedData ==
    ASSUME NEW r, r \in PairFields(r)
    PROVE  /\ Disposed(r).commands = r.commands /\ Disposed(r).replies = r.replies
           /\ Disposed(r).pcm = <<>>
BY DEF Disposed, PairFields
-----------------------------------------------------------------------------
(* The pipes around the conversation.                                      *)

\* The talker has its two pipes; it has not had them yet; it has closed them.
Held == client[Talker].place \in {"connected", "closing"}

Gone == Is(Talker, "closed")

Home == client[Talker].control

Lost(end) == end \in {"broken", "closed"}

\* The talker's control pipe stays its own until the provider has closed it.
HomeStands ==
    /\ Is(Talker, "audio") => Home \in Pairs
    /\ Held => /\ Home \in Pairs /\ client[Talker].audio \in Pairs
               /\ pairs[Home].control \in {Talker, "closed"}

\* What clients and processes do around the conversation: no commands go, audio
\* goes only with the pipe, and no pair that has been served is connected again.
PipeGoes(p) ==
    /\ pairs'[p].commands = pairs[p].commands
    /\ pairs'[p].replies \in {pairs[p].replies, <<>>}
    /\ pairs'[p].pcm = pairs[p].pcm \/ (pairs'[p].pcm = <<>> /\ ~Connected(p)')
    /\ Connected(p)' /\ session[p] # "none" => Connected(p)
    /\ Lost(pairs[p].control) => Lost(pairs'[p].control)
    /\ session[p] # "none" => session'[p] # "none"
    /\ session[p] = "ended" => session'[p] = "ended"
    /\ pairs[p].control = Talker /\ Held =>
          /\ pairs'[p].control \in {Talker, "closed"} /\ pairs'[p].replies = pairs[p].replies
          /\ session[p] # "none" /\ Connected(p) /\ pairs'[p].pcm # <<>> => Connected(p)'
    /\ pairs[p].control = "closed" =>
          pairs'[p].control = "closed" /\ pairs'[p].replies = pairs[p].replies

PipesGo == \A p \in Pairs : PipeGoes(p)

LEMMA PipesRest ==
    ASSUME SessionTyped, UNCHANGED <<pairs, session>>
    PROVE  PipesGo
BY PipesAssumption DEF PipesGo, PipeGoes, Connected, Lost

LEMMA EndsDiffer ==
    /\ Talker \in Clients
    /\ \A c \in Clients : c \notin {"none", "listening", "broken", "closed"}
BY PipesAssumption

\* A pair that listens has not been served.
LEMMA ListeningIsNew ==
    ASSUME LifetimeInv, ListensWhenOffered, NEW p \in Pairs,
           pairs[p].control = "listening" \/ pairs[p].audio = "listening"
    PROVE  session[p] = "none"
<1>1. PICK q \in Processes : Offers(q, p)
  BY DEF ListensWhenOffered
<1> QED
  BY <1>1 DEF LifetimeInv, OfferedIsNew, Offers, Accepting

LEMMA LeavingGoes ==
    ASSUME CrossInv, NEW c \in Clients, pairs' = LeftBy(c, pairs), UNCHANGED session,
           c = Talker => ~Held
    PROVE  PipesGo
<1> SUFFICES ASSUME NEW p \in Pairs
             PROVE  PipeGoes(p)
  BY DEF PipesGo
<1>1. TypedPairs(pairs)
  BY DEF CrossInv, LifetimeInv
<1>2. /\ pairs'[p].commands = pairs[p].commands
      /\ pairs'[p].replies = IF pairs[p].control = c THEN <<>> ELSE pairs[p].replies
      /\ pairs'[p].pcm = IF pairs[p].audio = c THEN <<>> ELSE pairs[p].pcm
  BY <1>1, LeftData
<1>3. /\ pairs'[p].control = Broken(pairs[p].control, c)
      /\ pairs'[p].audio = Broken(pairs[p].audio, c)
  BY <1>1, LeftIs
<1> QED
  BY <1>2, <1>3, EndsDiffer DEF PipeGoes, Broken, Connected, Channels, Lost

LEMMA ConnectingGoes ==
    ASSUME CrossInv, NEW c \in Clients, ConnectSteps(c), UNCHANGED session
    PROVE  PipesGo
<1>1. TypedPairs(pairs) /\ SessionTyped
  BY DEF CrossInv, LifetimeInv
<1>2. CASE UNCHANGED pairs
  BY <1>1, <1>2, PipesRest
<1>3. CASE OpensControl(c)
  <2>1. PICK x \in Pairs : pairs[x].control = "listening"
                           /\ pairs' = [pairs EXCEPT ![x].control = c]
    BY <1>3 DEF OpensControl, Listening
  <2> SUFFICES ASSUME NEW p \in Pairs
               PROVE  PipeGoes(p)
    BY DEF PipesGo
  <2>2. /\ pairs'[p].commands = pairs[p].commands
        /\ pairs'[p].replies = pairs[p].replies /\ pairs'[p].pcm = pairs[p].pcm
    BY <1>1, <2>1, EndsKeepData DEF SameData
  <2>3. /\ pairs'[p].audio = pairs[p].audio
        /\ pairs'[p].control = IF p = x THEN c ELSE pairs[p].control
    <3>1. c \in Ends
      BY DEF Ends
    <3> QED
      BY <1>1, <2>1, <3>1, ControlEnds
  <2>4. session[x] = "none"
    BY <2>1, ListeningIsNew DEF CrossInv
  <2> QED
    BY <2>1, <2>2, <2>3, <2>4, EndsDiffer DEF PipeGoes, Connected, Channels, Lost
<1>4. CASE OpensAudio(c) \/ ModeFails(c)
  <2>1. PICK x \in Pairs, v \in Ends : pairs[x].audio = "listening"
                           /\ pairs' = [pairs EXCEPT ![x].audio = v]
    BY <1>4 DEF OpensAudio, ModeFails, Listening, Ends
  <2> SUFFICES ASSUME NEW p \in Pairs
               PROVE  PipeGoes(p)
    BY DEF PipesGo
  <2>2. /\ pairs'[p].commands = pairs[p].commands
        /\ pairs'[p].replies = pairs[p].replies /\ pairs'[p].pcm = pairs[p].pcm
    BY <1>1, <2>1, EndsKeepData DEF SameData
  <2>3. /\ pairs'[p].control = pairs[p].control
        /\ pairs'[p].audio = IF p = x THEN v ELSE pairs[p].audio
    BY <1>1, <2>1, AudioEnds
  <2>4. session[x] = "none"
    BY <2>1, ListeningIsNew DEF CrossInv
  <2> QED
    BY <2>1, <2>2, <2>3, <2>4, EndsDiffer DEF PipeGoes, Connected, Channels, Lost
<1>5. CASE AudioUnavailable(c) \/ Denied(c)
  <2>1. pairs' = LeftBy(c, pairs) /\ (c = Talker => ~Held)
    BY <1>5 DEF AudioUnavailable, Denied, Is, Held
  <2> QED
    BY <2>1, LeavingGoes
<1> QED
  BY <1>2, <1>3, <1>4, <1>5 DEF ConnectSteps, BeginConnect, ControlUnavailable, TriesAgain,
     GivesUp, LaunchFails

LEMMA ProcessGoes ==
    ASSUME CrossInv, NEW q \in Processes,
           \/ CreatesControl(q) \/ CreatesAudio(q) \/ StartsWaits(q) \/ Accepts(q) \/ Opens(q)
           \/ DelayEnds(q) \/ TryTriggerShutdown(q)
    PROVE  PipesGo
<1>1. TypedPairs(pairs) /\ SessionTyped
  BY DEF CrossInv, LifetimeInv
<1>2. CASE CreatesControl(q)
  <2>1. PICK x \in FreePairs :
           pairs' = [pairs EXCEPT ![x].owner = q, ![x].control = "listening"]
    BY <1>2 DEF CreatesControl
  <2> SUFFICES ASSUME NEW p \in Pairs
               PROVE  PipeGoes(p)
    BY DEF PipesGo
  <2>2. x \in Pairs /\ pairs[x].control = "none"
    BY DEF CrossInv, LifetimeInv, FreeIsNew, FreePairs
  <2>3. /\ pairs'[p].commands = pairs[p].commands
        /\ pairs'[p].replies = pairs[p].replies /\ pairs'[p].pcm = pairs[p].pcm
    <3>1. SameData(pairs, [pairs EXCEPT ![x].owner = q, ![x].control = "listening"])
      BY <1>1, <2>2, EndsKeepData
    <3> QED
      BY <2>1, <3>1 DEF SameData
  <2>4. pairs[p] \in PairFields(pairs[p]) /\ pairs = [y \in Pairs |-> pairs[y]]
    BY <1>1 DEF TypedPairs
  <2>5. pairs'[p] = IF p = x THEN [pairs[p] EXCEPT !.owner = q, !.control = "listening"]
                    ELSE pairs[p]
    BY <2>1, <2>2, <2>4
  <2>6. /\ pairs'[p].control = IF p = x THEN "listening" ELSE pairs[p].control
        /\ pairs'[p].audio = pairs[p].audio
    BY <2>4, <2>5 DEF PairFields
  <2>7. UNCHANGED session
    BY <1>2 DEF CreatesControl
  <2> QED
    BY <2>2, <2>3, <2>6, <2>7, EndsDiffer DEF PipeGoes, Connected, Channels, Lost
<1>3. CASE CreatesAudio(q)
  <2> DEFINE x == proc[q].at
  <2>1. x \in Pairs /\ pairs' = [pairs EXCEPT ![x].audio = "listening"]
    BY <1>3 DEF CreatesAudio, At, CrossInv, LifetimeInv, OfferedIsNew
  <2> SUFFICES ASSUME NEW p \in Pairs
               PROVE  PipeGoes(p)
    BY DEF PipesGo
  <2> HIDE DEF x
  <2>2. /\ pairs'[p].commands = pairs[p].commands
        /\ pairs'[p].replies = pairs[p].replies /\ pairs'[p].pcm = pairs[p].pcm
    BY <1>1, <2>1, EndsKeepData DEF SameData
  <2>3. /\ pairs'[p].control = pairs[p].control
        /\ pairs'[p].audio = IF p = x THEN "listening" ELSE pairs[p].audio
    <3>1. "listening" \in Ends
      BY DEF Ends
    <3> QED
      BY <1>1, <2>1, <3>1, AudioEnds
  <2>4. UNCHANGED session /\ session[x] = "none"
    BY <1>3 DEF CreatesAudio, At, CrossInv, LifetimeInv, OfferedIsNew, x
  <2> QED
    BY <2>2, <2>3, <2>4, EndsDiffer DEF PipeGoes, Connected, Channels, Lost
<1>4. CASE Opens(q)
  <2>1. UNCHANGED pairs /\ session' = [session EXCEPT ![proc[q].at] = "reading"]
        /\ session[proc[q].at] = "none" /\ proc[q].at \in Pairs
    BY <1>4 DEF Opens, At, CrossInv, LifetimeInv, OfferedIsNew
  <2>2. \A p \in Pairs : session'[p] = IF p = proc[q].at THEN "reading" ELSE session[p]
    BY <1>1, <2>1 DEF SessionTyped
  <2> QED
    BY <2>1, <2>2, EndsDiffer DEF PipesGo, PipeGoes, Connected, Channels, Lost
<1>5. CASE StartsWaits(q) \/ Accepts(q) \/ DelayEnds(q) \/ TryTriggerShutdown(q)
  <2>1. UNCHANGED <<pairs, session>>
    BY <1>5 DEF StartsWaits, Accepts, DelayEnds, TryTriggerShutdown
  <2> QED
    BY <1>1, <2>1, PipesRest
<1> QED
  BY <1>2, <1>3, <1>4, <1>5

\* A process that exits, or a session that ends, closes its pipes.
ClosedBy(S) ==
    \A p \in Pairs :
       /\ pairs'[p].commands = pairs[p].commands /\ pairs'[p].replies = pairs[p].replies
       /\ IF p \in S
          THEN /\ pairs'[p].pcm = <<>> /\ ~Connected(p)'
               /\ pairs'[p].control = "closed" /\ session'[p] \in {"none", "ended"}
               /\ session[p] # "none" => session'[p] = "ended"
          ELSE pairs'[p] = pairs[p] /\ session'[p] = session[p]

LEMMA ClosingGoes ==
    ASSUME NEW S, ClosedBy(S)
    PROVE  PipesGo
BY EndsDiffer DEF ClosedBy, PipesGo, PipeGoes, Connected, Channels, Lost

LEMMA ExitCloses ==
    ASSUME LifetimeInv, NEW q \in Processes, Exits(q)
    PROVE  ClosedBy({p \in Pairs : pairs[p].owner = q})
<1>1. TypedPairs(pairs) /\ SessionTyped
  BY DEF LifetimeInv
<1> SUFFICES ASSUME NEW p \in Pairs
             PROVE  /\ pairs'[p].commands = pairs[p].commands
                    /\ pairs'[p].replies = pairs[p].replies
                    /\ IF pairs[p].owner = q
                       THEN /\ pairs'[p].pcm = <<>> /\ ~Connected(p)'
                            /\ pairs'[p].control = "closed" /\ session'[p] \in {"none", "ended"}
                            /\ session[p] # "none" => session'[p] = "ended"
                       ELSE pairs'[p] = pairs[p] /\ session'[p] = session[p]
  BY DEF ClosedBy
<1>2. /\ pairs'[p] = IF pairs[p].owner = q THEN Disposed(pairs[p]) ELSE pairs[p]
      /\ session'[p] = IF pairs[p].owner = q /\ session[p] # "none" THEN "ended" ELSE session[p]
  BY DEF Exits
<1>3. pairs[p] \in PairFields(pairs[p])
  BY <1>1 DEF TypedPairs
<1> QED
  BY <1>2, <1>3, DisposedIs, DisposedData, EndsDiffer DEF Connected, Channels

LEMMA EndCloses ==
    ASSUME LifetimeInv, NEW y \in Pairs, SessionEnds(y)
    PROVE  ClosedBy({y})
<1>1. TypedPairs(pairs) /\ SessionTyped
  BY DEF LifetimeInv
<1> SUFFICES ASSUME NEW p \in Pairs
             PROVE  /\ pairs'[p].commands = pairs[p].commands
                    /\ pairs'[p].replies = pairs[p].replies
                    /\ IF p = y
                       THEN /\ pairs'[p].pcm = <<>> /\ ~Connected(p)'
                            /\ pairs'[p].control = "closed" /\ session'[p] \in {"none", "ended"}
                            /\ session[p] # "none" => session'[p] = "ended"
                       ELSE pairs'[p] = pairs[p] /\ session'[p] = session[p]
  BY DEF ClosedBy
<1>2. pairs[p] \in PairFields(pairs[p]) /\ pairs = [x \in Pairs |-> pairs[x]]
      /\ session = [x \in Pairs |-> session[x]]
  BY <1>1 DEF TypedPairs, SessionTyped
<1>3. /\ pairs'[p] = IF p = y THEN Disposed(pairs[p]) ELSE pairs[p]
      /\ session'[p] = IF p = y THEN "ended" ELSE session[p]
  BY <1>2 DEF SessionEnds
<1> QED
  BY <1>2, <1>3, DisposedIs, DisposedData, EndsDiffer DEF Connected, Channels
-----------------------------------------------------------------------------
(* What the conversation does to the data in the pipes.                    *)

\* The pipes of x hold commands cs, replies rs and audio as, the others what they held.
DataBut(x, cs, rs, as) ==
    \A p \in Pairs :
       IF p = x
       THEN pairs'[p].commands = cs /\ pairs'[p].replies = rs /\ pairs'[p].pcm = as
       ELSE /\ pairs'[p].commands = pairs[p].commands
            /\ pairs'[p].replies = pairs[p].replies /\ pairs'[p].pcm = pairs[p].pcm

LEMMA SendingMoves ==
    ASSUME TypedPairs(pairs), Home \in Pairs, NEW kind, NEW id, NEW shape,
           SendCommand(Talker, kind, id, shape)
    PROVE  /\ SameEnds(pairs, pairs')
           /\ DataBut(Home, Append(pairs[Home].commands, [kind |-> kind, id |-> id, shape |-> shape]),
                      pairs[Home].replies, pairs[Home].pcm)
<1> DEFINE v == Append(pairs[Home].commands, [kind |-> kind, id |-> id, shape |-> shape])
<1>1. pairs' = [pairs EXCEPT ![Home].commands = v]
  BY DEF SendCommand, Home
<1> HIDE DEF v
<1>2. SameEnds(pairs, pairs')
  BY <1>1, CommandsMove
<1>3. DataBut(Home, v, pairs[Home].replies, pairs[Home].pcm)
  BY <1>1, CommandsAre DEF DataBut
<1> QED
  BY <1>2, <1>3 DEF v

LEMMA TakingMoves ==
    ASSUME TypedPairs(pairs), NEW x \in Pairs
    PROVE  /\ SameEnds(pairs, Taken(x))
           /\ \A p \in Pairs :
                 /\ Taken(x)[p].commands = IF p = x THEN Tail(pairs[x].commands)
                                           ELSE pairs[p].commands
                 /\ Taken(x)[p].replies = pairs[p].replies
                 /\ Taken(x)[p].pcm = pairs[p].pcm
<1> DEFINE v == Tail(pairs[x].commands)
<1>1. Taken(x) = [pairs EXCEPT ![x].commands = v]
  BY DEF Taken
<1> HIDE DEF v
<1>2. SameEnds(pairs, Taken(x))
  <2>1. SameEnds(pairs, [pairs EXCEPT ![x].commands = v])
    BY CommandsMove
  <2> QED
    BY <1>1, <2>1
<1>3. \A p \in Pairs : /\ Taken(x)[p].commands = IF p = x THEN v ELSE pairs[p].commands
                       /\ Taken(x)[p].replies = pairs[p].replies
                       /\ Taken(x)[p].pcm = pairs[p].pcm
  BY <1>1, CommandsAre
<1> QED
  BY <1>2, <1>3 DEF v

LEMMA WritingMoves ==
    ASSUME NEW f, TypedPairs(f), NEW x \in Pairs, NEW event, NEW id, NEW bytes, NEW end,
           WriteRecord(f, x, event, id, bytes, end)
    PROVE  /\ SameEnds(f, pairs')
           /\ \A p \in Pairs :
                 /\ pairs'[p].replies = IF p = x
                                        THEN f[x].replies \o Text(Len(sent) + 1, event) \o end
                                        ELSE f[p].replies
                 /\ pairs'[p].commands = f[p].commands
                 /\ pairs'[p].pcm = f[p].pcm
           /\ sent' = Append(sent, [event |-> event, id |-> id, bytes |-> bytes])
<1> DEFINE v == f[x].replies \o Text(Len(sent) + 1, event) \o end
<1>1. /\ pairs' = [f EXCEPT ![x].replies = v]
      /\ sent' = Append(sent, [event |-> event, id |-> id, bytes |-> bytes])
  BY DEF WriteRecord
<1> HIDE DEF v
<1>2. SameEnds(f, pairs')
  BY <1>1, RepliesMove
<1>3. \A p \in Pairs : /\ pairs'[p].replies = IF p = x THEN v ELSE f[p].replies
                       /\ pairs'[p].commands = f[p].commands
                       /\ pairs'[p].pcm = f[p].pcm
  <2> DEFINE g == [f EXCEPT ![x].replies = v]
  <2>1. \A p \in Pairs : /\ g[p].replies = IF p = x THEN v ELSE f[p].replies
                         /\ g[p].commands = f[p].commands /\ g[p].pcm = f[p].pcm
    BY RepliesAre
  <2> HIDE DEF g
  <2>2. pairs' = g
    BY <1>1 DEF g
  <2> QED
    BY <2>1, <2>2
<1> QED
  BY <1>1, <1>2, <1>3 DEF v

LEMMA EmittingMoves ==
    ASSUME TypedPairs(pairs), NEW x \in Pairs, NEW event, NEW bytes, Emit(x, event, bytes)
    PROVE  /\ SameEnds(pairs, pairs')
           /\ DataBut(x, pairs[x].commands,
                      pairs[x].replies \o Text(Len(sent) + 1, event) \o <<LF>>, pairs[x].pcm)
           /\ sent' = Append(sent, [event |-> event, id |-> task.id, bytes |-> bytes])
<1>1. WriteRecord(pairs, x, event, task.id, bytes, <<LF>>)
  BY DEF Emit
<1>2. /\ SameEnds(pairs, pairs')
      /\ \A p \in Pairs :
            /\ pairs'[p].replies = IF p = x
                                   THEN pairs[x].replies \o Text(Len(sent) + 1, event) \o <<LF>>
                                   ELSE pairs[p].replies
            /\ pairs'[p].commands = pairs[p].commands
            /\ pairs'[p].pcm = pairs[p].pcm
      /\ sent' = Append(sent, [event |-> event, id |-> task.id, bytes |-> bytes])
  BY <1>1, WritingMoves
<1> QED
  BY <1>2 DEF DataBut

\* The answer to a command that is taken.
LEMMA ReplyingMoves ==
    ASSUME TypedPairs(pairs), NEW x \in Pairs, NEW event, NEW id, Reply(Taken(x), x, event, id)
    PROVE  /\ SameEnds(pairs, pairs')
           /\ \/ /\ Connected(x)
                 /\ DataBut(x, Tail(pairs[x].commands),
                            pairs[x].replies \o Text(Len(sent) + 1, event) \o <<CR, LF>>,
                            pairs[x].pcm)
                 /\ sent' = Append(sent, [event |-> event, id |-> id, bytes |-> 0])
              \/ /\ ~Connected(x)
                 /\ DataBut(x, Tail(pairs[x].commands), pairs[x].replies, pairs[x].pcm)
                 /\ sent' = sent
<1>1. SameEnds(pairs, Taken(x)) /\ TypedPairs(Taken(x))
  BY TakingMoves DEF SameEnds
<1>2. CASE Connected(x)
  <2>1. WriteRecord(Taken(x), x, event, id, 0, <<CR, LF>>)
    BY <1>2 DEF Reply
  <2>2. /\ SameEnds(Taken(x), pairs')
        /\ \A p \in Pairs :
              /\ pairs'[p].replies = IF p = x
                                     THEN Taken(x)[x].replies \o Text(Len(sent) + 1, event)
                                             \o <<CR, LF>>
                                     ELSE Taken(x)[p].replies
              /\ pairs'[p].commands = Taken(x)[p].commands
              /\ pairs'[p].pcm = Taken(x)[p].pcm
        /\ sent' = Append(sent, [event |-> event, id |-> id, bytes |-> 0])
    BY <1>1, <2>1, WritingMoves
  <2>3. SameEnds(pairs, pairs')
    BY <1>1, <2>2 DEF SameEnds
  <2> QED
    BY <1>2, <2>2, <2>3, TakingMoves, ZenonT(40) DEF DataBut
<1>3. CASE ~Connected(x)
  <2>1. pairs' = Taken(x) /\ sent' = sent
    BY <1>3 DEF Reply
  <2> QED
    BY <1>1, <1>3, <2>1, TakingMoves DEF DataBut
<1> QED
  BY <1>2, <1>3

LEMMA TakenAlone ==
    ASSUME TypedPairs(pairs), NEW x \in Pairs, pairs' = Taken(x)
    PROVE  /\ SameEnds(pairs, pairs')
           /\ DataBut(x, Tail(pairs[x].commands), pairs[x].replies, pairs[x].pcm)
BY TakingMoves DEF DataBut

LEMMA SoundMoves ==
    ASSUME TypedPairs(pairs), NEW x \in Pairs, NEW v, pairs' = [pairs EXCEPT ![x].pcm = v]
    PROVE  /\ SameEnds(pairs, pairs')
           /\ DataBut(x, pairs[x].commands, pairs[x].replies, v)
<1>1. SameEnds(pairs, pairs')
  BY AudioMoves
<1>2. DataBut(x, pairs[x].commands, pairs[x].replies, v)
  BY AudioIs DEF DataBut
<1> QED
  BY <1>1, <1>2

LEMMA RecordsMove ==
    ASSUME TypedPairs(pairs), NEW x \in Pairs, NEW v, pairs' = [pairs EXCEPT ![x].replies = v]
    PROVE  /\ SameEnds(pairs, pairs')
           /\ DataBut(x, pairs[x].commands, v, pairs[x].pcm)
<1>1. SameEnds(pairs, pairs')
  BY RepliesMove
<1>2. DataBut(x, pairs[x].commands, v, pairs[x].pcm)
  BY RepliesAre DEF DataBut
<1> QED
  BY <1>1, <1>2

LEMMA DataRests ==
    ASSUME TypedPairs(pairs), NEW x, pairs' = pairs
    PROVE  /\ SameEnds(pairs, pairs')
           /\ DataBut(x, pairs[x].commands, pairs[x].replies, pairs[x].pcm)
BY DEF SameEnds, DataBut

LEMMA EndsStay ==
    ASSUME SameEnds(pairs, pairs'), NEW p \in Pairs
    PROVE  (Connected(p)' <=> Connected(p)) /\ pairs'[p].control = pairs[p].control
BY DEF SameEnds, Connected, Channels
-----------------------------------------------------------------------------
(* Sequences. *)

\* A set of naturals that is not empty has a least member.
LEMMA MinOf ==
    ASSUME NEW S, S \subseteq Nat, S # {}
    PROVE  Min(S) \in S /\ \A y \in S : Min(S) <= y
<1>1. PICK x \in S : \A y \in S : ~ (<<y, x>> \in OpToRel(<, Nat))
  BY NatLessThanWellFounded, WFMin
<1>2. \A y \in S : x <= y
  <2> SUFFICES ASSUME NEW y \in S
               PROVE  x <= y
    OBVIOUS
  <2>1. x \in Nat /\ y \in Nat
    OBVIOUS
  <2>2. ~ (<<y, x>> \in {ss \in Nat \X Nat : ss[1] < ss[2]})
    BY <1>1 DEF OpToRel
  <2>3. <<y, x>> \in Nat \X Nat /\ <<y, x>>[1] = y /\ <<y, x>>[2] = x
    BY <2>1
  <2>4. ~ (y < x)
    BY <2>2, <2>3
  <2> QED
    BY <2>1, <2>4
<1> QED
  BY <1>2 DEF Min

LEMMA TextTyped ==
    ASSUME NEW k \in Nat, NEW event
    PROVE  /\ Text(k, event) \in Seq(Nat) /\ Len(Text(k, event)) \in Nat \ {0}
           /\ \A i \in 1 .. Len(Text(k, event)) : Text(k, event)[i] = 32 + k
<1> DEFINE n == IF event = "error" THEN 8 ELSE 1
           t == [i \in 1 .. n |-> 32 + k]
<1>1. n \in Nat \ {0}
  OBVIOUS
<1> HIDE DEF n
<1>2. t \in [1 .. n -> Nat]
  OBVIOUS
<1>3. t \in Seq(Nat) /\ Len(t) = n
  BY <1>1, <1>2
<1>4. Text(k, event) = t
  BY DEF Text, TextOf, n
<1> QED
  BY <1>1, <1>3, <1>4

LEMMA UpTo ==
    ASSUME NEW n \in Nat
    PROVE  IsFiniteSet(1 .. n) /\ Cardinality(1 .. n) = n
<1>1. IsFiniteSet(1 .. n) /\ Cardinality(1 .. n) = IF 1 > n THEN 0 ELSE n - 1 + 1
  BY FS_Interval
<1>2. (IF 1 > n THEN 0 ELSE n - 1 + 1) = n
  OBVIOUS
<1> QED
  BY <1>1, <1>2

\* The members of a sequence that are x are counted piece by piece.
LEMMA CountTyped ==
    ASSUME NEW s \in Seq(Nat), NEW x
    PROVE  /\ IsFiniteSet({i \in DOMAIN s : s[i] = x})
           /\ Count(x, s) \in Nat /\ Count(x, s) <= Len(s)
<1>1. DOMAIN s = 1 .. Len(s) /\ Len(s) \in Nat
  OBVIOUS
<1>2. IsFiniteSet(1 .. Len(s)) /\ Cardinality(1 .. Len(s)) = Len(s)
  BY <1>1, UpTo
<1> QED
  BY <1>1, <1>2, FS_Subset, FS_CardinalityType DEF Count

LEMMA CountNone ==
    ASSUME NEW s \in Seq(Nat), NEW x, \A i \in 1 .. Len(s) : s[i] # x
    PROVE  Count(x, s) = 0
<1>1. {i \in DOMAIN s : s[i] = x} = {}
  OBVIOUS
<1> QED
  BY <1>1, FS_EmptySet DEF Count

LEMMA CountAll ==
    ASSUME NEW s \in Seq(Nat), NEW x, \A i \in 1 .. Len(s) : s[i] = x
    PROVE  Count(x, s) = Len(s)
<1>1. {i \in DOMAIN s : s[i] = x} = 1 .. Len(s) /\ Len(s) \in Nat
  OBVIOUS
<1> QED
  BY <1>1, UpTo DEF Count

LEMMA CountConcat ==
    ASSUME NEW s \in Seq(Nat), NEW t \in Seq(Nat), NEW x
    PROVE  Count(x, s \o t) = Count(x, s) + Count(x, t)
<1> DEFINE n == Len(s)
           S == {i \in DOMAIN s : s[i] = x}
           T == {i \in DOMAIN t : t[i] = x}
           U == {i \in DOMAIN (s \o t) : (s \o t)[i] = x}
           R == {i \in n + 1 .. n + Len(t) : t[i - n] = x}
           f == [i \in T |-> n + i]
<1>1. /\ n \in Nat /\ Len(t) \in Nat /\ DOMAIN s = 1 .. n /\ DOMAIN t = 1 .. Len(t)
      /\ DOMAIN (s \o t) = 1 .. n + Len(t)
      /\ \A i \in 1 .. n : (s \o t)[i] = s[i]
      /\ \A i \in n + 1 .. n + Len(t) : (s \o t)[i] = t[i - n]
  OBVIOUS
<1>2. IsFiniteSet(S) /\ IsFiniteSet(T)
  BY CountTyped
<1>3. f \in [T -> R]
  BY <1>1
<1>4. \A a, b \in T : f[a] = f[b] => a = b
  BY <1>1
<1>5. \A r \in R : \E a \in T : f[a] = r
  <2> SUFFICES ASSUME NEW r \in R
               PROVE  \E a \in T : f[a] = r
    OBVIOUS
  <2>1. r - n \in T /\ n + (r - n) = r
    BY <1>1
  <2> QED
    BY <2>1
<1>6. f \in Bijection(T, R)
  BY <1>3, <1>4, <1>5 DEF Bijection, Injection, Surjection, IsInjective
<1>7. IsFiniteSet(R) /\ Cardinality(R) = Cardinality(T)
  BY <1>2, <1>6, FS_Bijection DEF ExistsBijection
<1>8. U = S \cup R /\ S \cap R = {}
  <2>1. \A i : i \in U <=> i \in S \/ i \in R
    BY <1>1
  <2> QED
    BY <1>1, <2>1
<1>9. Cardinality(S) \in Nat /\ Cardinality(T) \in Nat /\ Cardinality(S \cap R) = 0
  BY <1>2, <1>8, FS_CardinalityType, FS_EmptySet
<1>10. /\ Count(x, s) = Cardinality(S) /\ Count(x, t) = Cardinality(T)
       /\ Count(x, s \o t) = Cardinality(U)
  BY DEF Count
<1> HIDE DEF S, T, U, R
<1>11. Cardinality(S \cup R) = Cardinality(S) + Cardinality(R) - Cardinality(S \cap R)
  BY <1>2, <1>7, FS_Union
<1> QED
  BY <1>7, <1>8, <1>9, <1>10, <1>11
-----------------------------------------------------------------------------
(* The types of the conversation, and where it takes place.                *)

Command ==
    {m \in [kind : {"info", "voices", "speak", "cancel", "unknown"}, id : Nat, shape : Shapes] :
        m.kind = "speak" => m.id >= 1}

DataTyped ==
    \A p \in Pairs :
       /\ pairs[p].commands \in Seq(Command) /\ pairs[p].replies \in Seq(Nat)
       /\ pairs[p].pcm \in Seq(Nat) /\ Len(pairs[p].pcm) <= 2

TaskType ==
    [pair : 0 .. MaxPairs, id : Nat, shape : Shapes, place : TaskPlaces, left : Nat,
     first : BOOLEAN, buffered : Nat, total : Nat, written : Nat, cancelled : BOOLEAN]

TalkFields ==
    [greeted : BOOLEAN, asked : BOOLEAN, id : Nat, cancelled : SUBSET Nat,
     pending : SUBSET Nat, late : SUBSET Nat]

\* A cancel is pending when it has been begun.
TalkType == {r \in TalkFields : r.pending \subseteq r.cancelled}

LEMMA TalkIsTyped ==
    ASSUME NEW r
    PROVE  r \in TalkType <=> r \in TalkFields /\ r.pending \subseteq r.cancelled
BY DEF TalkType

StreamType == [buffer : Seq(Nat), readOffset : Nat, searchOffset : Nat]

ReadType == [thread : ThreadPlaces, kernel : Operations, bytes : Seq(Nat)]

SayingTyped ==
    task \in TaskType /\ sent \in Seq(Record) /\ talk \in TalkType /\ plan \in Plans

HearingTyped ==
    /\ io \in [Channels -> ReadType] /\ stream \in StreamType
    /\ lines \in Seq(Seq(Nat)) /\ heard \in Seq(Nat)

Empty(p) == pairs[p].commands = <<>> /\ pairs[p].replies = <<>> /\ pairs[p].pcm = <<>>

NothingSaid ==
    /\ sent = <<>> /\ heard = <<>> /\ lines = <<>> /\ stream = EmptyControlBuffer
    /\ io = [k \in Channels |-> NoRead] /\ talk = NoTalk

\* Nothing is said before the talker has its pipes or after it has closed them, and
\* what is said is said on its control pipe.
Silence == ~Held => NothingSaid

BeforeTalk == ~Held /\ ~Gone => task.place = "none" /\ \A p \in Pairs : Empty(p)

AtHome == Held => task.pair \in {0, Home} /\ \A p \in Pairs \ {Home} : Empty(p)

AfterTalk ==
    Gone => \A p \in Pairs : pairs[p].commands # <<>> \/ task.pair = p => Lost(pairs[p].control)

TaskStands ==
    /\ task.pair # 0 => task.pair \in Pairs /\ session[task.pair] # "none" /\ task.id >= 1
    /\ task.place = "none" => task.pair = 0 /\ ~task.cancelled
    /\ task.pair = 0 => task.id = 0 /\ task.place \in {"none", "done"}
    /\ task.place \in {"delay", "write"} => task.left >= 1
    /\ task.place = "flushing" => task.buffered >= 1

\* A read that is under way has a thread that waits for it, and only a read that is
\* done has bytes.
ReadsStand ==
    \A k \in Channels :
       /\ io[k].thread \in {"idle", "error"} <=> io[k].kernel = "none"
       /\ io[k].kernel # "done" => io[k].bytes = <<>>
       /\ io[k].kernel = "pending" => Talking

SpokenInv ==
    /\ CrossInv /\ HomeStands /\ DataTyped /\ SayingTyped /\ HearingTyped
    /\ Silence /\ BeforeTalk /\ AtHome /\ AfterTalk /\ TaskStands /\ ReadsStand

\* The talker stands where it stood, or has no conversation yet.
TalkerMoves ==
    \/ client'[Talker] = client[Talker]
    \/ /\ ~Held /\ ~Gone /\ client'[Talker].place \notin {"closing", "closed"}
       /\ Is(Talker, "audio")' => client'[Talker].control \in Pairs
       /\ Is(Talker, "connected")' =>
             /\ client'[Talker].control \in Pairs /\ client'[Talker].audio \in Pairs
             /\ pairs'[client'[Talker].control].control = Talker

LEMMA GoingKeepsData ==
    ASSUME DataTyped, PipesGo
    PROVE  DataTyped' /\ \A p \in Pairs : Empty(p) => Empty(p)'
<1>1. <<>> \in Seq(Nat) /\ Len(<<>>) = 0
  OBVIOUS
<1> DEFINE e == <<>>
<1> HIDE DEF e
<1>2. \A p \in Pairs : /\ pairs'[p].commands = pairs[p].commands
                       /\ pairs'[p].replies \in {pairs[p].replies, e}
                       /\ pairs'[p].pcm \in {pairs[p].pcm, e}
  BY DEF PipesGo, PipeGoes, e
<1>3. e \in Seq(Nat) /\ Len(e) <= 2
  BY <1>1 DEF e
<1>4. DataTyped'
  BY <1>2, <1>3 DEF DataTyped
<1>5. \A p \in Pairs : Empty(p) => Empty(p)'
  BY <1>2 DEF Empty, e
<1> QED
  BY <1>4, <1>5

\* The task goes on, is forgotten when it has ended or its pipe is gone, or is cancelled
\* by the end of its session.
TaskEnds ==
    \/ task' = task
    \/ task' = NoTask /\ (task.place = "done" \/ \E p \in Pairs : task.pair = p /\ ~Connected(p)')
    \/ /\ task.pair # 0 /\ session'[task.pair] = "ended"
       /\ task' = [task EXCEPT !.cancelled = TRUE]

LEMMA EndingTask ==
    ASSUME task \in TaskType, TaskEnds
    PROVE  /\ task' \in TaskType
           /\ \/ task' = NoTask /\ task'.pair = 0 /\ task'.id = 0 /\ task'.place = "none"
                 /\ ~task'.cancelled
              \/ /\ task'.pair = task.pair /\ task'.id = task.id /\ task'.place = task.place
                 /\ task'.left = task.left /\ task'.buffered = task.buffered
                 /\ task'.written = task.written /\ task'.total = task.total
                 /\ task'.cancelled # task.cancelled => task.pair # 0
<1>1. CASE task' = task
  BY <1>1
<1>2. CASE task' = NoTask
  <2>1. NoTask \in TaskType
    BY PipesAssumption DEF NoTask, TaskType, Shapes, TaskPlaces
  <2> QED
    BY <1>2, <2>1 DEF NoTask
<1>3. CASE task.pair # 0 /\ task' = [task EXCEPT !.cancelled = TRUE]
  BY <1>3 DEF TaskType
<1> QED
  BY <1>1, <1>2, <1>3 DEF TaskEnds

\* A step around the conversation.
LEMMA AroundKeepsSpoken ==
    ASSUME SpokenInv, CrossInv', PipesGo, TalkerMoves, TaskEnds,
           UNCHANGED <<sent, talk, plan, ioVars>>
    PROVE  SpokenInv'
<1>1. DataTyped' /\ \A p \in Pairs : Empty(p) => Empty(p)'
  BY GoingKeepsData DEF SpokenInv
<1>0. /\ task' \in TaskType
      /\ \/ task' = NoTask /\ task'.pair = 0 /\ task'.id = 0 /\ task'.place = "none"
            /\ ~task'.cancelled
         \/ /\ task'.pair = task.pair /\ task'.id = task.id /\ task'.place = task.place
            /\ task'.left = task.left /\ task'.buffered = task.buffered
            /\ task'.written = task.written /\ task'.total = task.total
            /\ task'.cancelled # task.cancelled => task.pair # 0
  BY EndingTask DEF SpokenInv, SayingTyped
<1>2. SayingTyped' /\ HearingTyped'
  BY <1>0 DEF SpokenInv, SayingTyped, HearingTyped, ioVars
<1>3. TaskStands'
  <2>1. task \in TaskType
    BY DEF SpokenInv, SayingTyped
  <2> QED
    BY <1>0, <2>1 DEF SpokenInv, TaskStands, PipesGo, PipeGoes, TaskType
<1>4. CASE client'[Talker] = client[Talker]
  <2>1. (Held' <=> Held) /\ (Gone' <=> Gone) /\ Home' = Home /\ (Talking' <=> Talking)
    BY <1>4 DEF Held, Gone, Home, Talking, Is
  <2>2. HomeStands'
    BY <1>4, <2>1 DEF SpokenInv, HomeStands, PipesGo, PipeGoes, Is
  <2>3. Silence' /\ ReadsStand'
    BY <2>1 DEF SpokenInv, Silence, NothingSaid, ReadsStand, ioVars
  <2>4. BeforeTalk' /\ AtHome'
    BY <1>0, <1>1, <2>1 DEF SpokenInv, BeforeTalk, AtHome
  <2>5. AfterTalk'
    BY <1>0, <2>1, PipesAssumption DEF SpokenInv, AfterTalk, PipesGo, PipeGoes, Pairs
  <2> QED
    BY <1>1, <1>2, <1>3, <2>2, <2>3, <2>4, <2>5 DEF SpokenInv
<1>5. CASE /\ ~Held /\ ~Gone /\ client'[Talker].place \notin {"closing", "closed"}
           /\ Is(Talker, "audio")' => client'[Talker].control \in Pairs
           /\ Is(Talker, "connected")' =>
                 /\ client'[Talker].control \in Pairs /\ client'[Talker].audio \in Pairs
                 /\ pairs'[client'[Talker].control].control = Talker
  <2>1. NothingSaid /\ task'.place = "none" /\ task'.pair = 0 /\ \A p \in Pairs : Empty(p)'
    BY <1>0, <1>1, <1>5 DEF SpokenInv, Silence, BeforeTalk, TaskStands
  <2>2. NothingSaid'
    BY <2>1 DEF NothingSaid, ioVars
  <2>3. HomeStands'
    BY <1>5 DEF HomeStands, Held, Home, Is
  <2>4. Silence' /\ BeforeTalk' /\ AtHome' /\ ~Gone'
    BY <1>5, <2>1, <2>2 DEF Silence, BeforeTalk, AtHome, Gone, Is
  <2>5. ReadsStand'
    BY <2>2 DEF NothingSaid, ReadsStand, NoRead
  <2>6. AfterTalk'
    BY <2>4 DEF AfterTalk
  <2> QED
    BY <1>1, <1>2, <1>3, <2>3, <2>4, <2>5, <2>6 DEF SpokenInv
<1> QED
  BY <1>4, <1>5 DEF TalkerMoves

LEMMA ConnectsKeepsSpoken ==
    ASSUME SpokenInv, CrossInv', NEW c \in Clients, Connects(c)
    PROVE  SpokenInv'
<1>1. /\ ConnectSteps(c) /\ UNCHANGED <<session, task, sent, plan, talk>>
      /\ client = [d \in Clients |-> client[d]] /\ client[c] \in ClientFields(client[c])
      /\ Talker \in Clients
  BY PipesAssumption DEF Connects, conversation, SpokenInv, CrossInv, ClientTyped
<1>2. PipesGo
  BY <1>1, ConnectingGoes DEF SpokenInv
<1>3. UNCHANGED ioVars
  BY <1>1 DEF ConnectSteps, BeginConnect, OpensControl, ControlUnavailable, OpensAudio,
     ModeFails, AudioUnavailable, Denied, TriesAgain, GivesUp, LaunchFails
<1>4. \E r : client' = [client EXCEPT ![c] = r]
  BY <1>1 DEF ConnectSteps, BeginConnect, OpensControl, ControlUnavailable, OpensAudio,
     ModeFails, AudioUnavailable, Denied, TriesAgain, GivesUp, LaunchFails, ClientGoes,
     ConnectReturns, AttemptFails
<1>5. TalkerMoves
  <2>1. CASE c # Talker
    BY <1>1, <1>4, <2>1 DEF TalkerMoves
  <2>2. CASE c = Talker
    <3> DEFINE m == client[Talker]
    <3>1. /\ m \in ClientFields(m) /\ ~Held /\ ~Gone
      BY <1>1, <2>2 DEF Held, Gone, Is, ConnectSteps, BeginConnect, OpensControl,
         ControlUnavailable, OpensAudio, ModeFails, AudioUnavailable, Denied, TriesAgain,
         GivesUp, LaunchFails
    <3>2. CASE OpensControl(c)
      <4>1. PICK p \in Pairs :
               client' = [client EXCEPT ![c].place = "audio", ![c].control = p]
        BY <3>2 DEF OpensControl, Listening
      <4>2. client'[Talker] = [m EXCEPT !.place = "audio", !.control = p]
        BY <1>1, <2>2, <4>1
      <4>3. client'[Talker].place = "audio" /\ client'[Talker].control = p
        BY <3>1, <4>2 DEF ClientFields
      <4> QED
        BY <3>1, <4>3 DEF TalkerMoves, Is
    <3>3. CASE OpensAudio(c)
      <4>1. PICK p \in Pairs :
               /\ pairs[m.control].control = c /\ pairs' = [pairs EXCEPT ![p].audio = c]
               /\ client' = [client EXCEPT ![c] = [NoHandles EXCEPT !.place = "connected",
                                                     !.control = client[c].control, !.audio = p]]
        BY <2>2, <3>3 DEF OpensAudio, Listening
      <4>2. client'[Talker] = [NoHandles EXCEPT !.place = "connected", !.control = m.control,
                                                !.audio = p]
        BY <1>1, <2>2, <4>1
      <4>3. /\ client'[Talker].place = "connected" /\ client'[Talker].control = m.control
            /\ client'[Talker].audio = p
        BY <4>2 DEF NoHandles
      <4>4. m.control \in Pairs
        BY <2>2, <3>3 DEF OpensAudio, SpokenInv, HomeStands, Home
      <4>5. c \in Ends /\ TypedPairs(pairs)
        BY DEF Ends, SpokenInv, CrossInv, LifetimeInv
      <4>6. pairs'[m.control].control = pairs[m.control].control
        BY <4>1, <4>4, <4>5, AudioEnds
      <4> QED
        BY <2>2, <3>1, <4>1, <4>3, <4>4, <4>6 DEF TalkerMoves, Is
    <3>4. CASE \E x \in ClientPlaces \ {"audio", "connected", "closing", "closed"} :
                  client'[Talker].place = x
      BY <3>1, <3>4 DEF TalkerMoves, Is
    <3>5. CASE BeginConnect(c) \/ TriesAgain(c)
      <4>1. client'[Talker].place = "open"
        BY <1>1, <2>2, <3>1, <3>5 DEF BeginConnect, TriesAgain, ClientFields
      <4> QED
        BY <3>4, <4>1 DEF ClientPlaces
    <3>6. CASE ControlUnavailable(c)
      <4>1. client'[Talker].place \in {"launch", "waiting"}
        BY <1>1, <2>2, <3>1, <3>6 DEF ControlUnavailable, ClientGoes, ClientFields
      <4> QED
        BY <3>4, <4>1 DEF ClientPlaces
    <3>7. CASE ModeFails(c) \/ AudioUnavailable(c)
      <4>1. client'[Talker].place = "waiting"
        BY <1>1, <2>2, <3>1, <3>7 DEF ModeFails, AudioUnavailable, AttemptFails, ClientFields
      <4> QED
        BY <3>4, <4>1 DEF ClientPlaces
    <3>8. CASE Denied(c) \/ GivesUp(c) \/ LaunchFails(c)
      <4>1. client'[Talker].place = "failed"
        BY <1>1, <2>2, <3>1, <3>8 DEF Denied, GivesUp, LaunchFails, ConnectReturns, NoHandles
      <4> QED
        BY <3>4, <4>1 DEF ClientPlaces
    <3> QED
      BY <1>1, <3>2, <3>3, <3>5, <3>6, <3>7, <3>8 DEF ConnectSteps
  <2> QED
    BY <2>1, <2>2
<1> QED
  BY <1>1, <1>2, <1>3, <1>5, AroundKeepsSpoken DEF TaskEnds

LEMMA LaunchesKeepsSpoken ==
    ASSUME SpokenInv, CrossInv', NEW c \in Clients, Launches(c)
    PROVE  SpokenInv'
<1>1. /\ UNCHANGED <<pairs, ioVars, session, task, sent, plan, talk>> /\ Is(c, "launch")
      /\ \E q : client' = [client EXCEPT ![c].place = "waiting", ![c].own = q]
      /\ client = [d \in Clients |-> client[d]] /\ client[c] \in ClientFields(client[c])
      /\ Talker \in Clients /\ SessionTyped
  <2>1. SessionTyped
    BY LaunchKeepsLifetime DEF SpokenInv, CrossInv, LifetimeInv
  <2> QED
    BY <2>1, PipesAssumption DEF Launches, conversation, SpokenInv, CrossInv, ClientTyped
<1>2. PipesGo
  BY <1>1, PipesRest
<1>3. TalkerMoves
  <2>1. CASE c # Talker
    BY <1>1, <2>1 DEF TalkerMoves
  <2>2. CASE c = Talker
    <3>1. client'[Talker].place = "waiting"
      BY <1>1, <2>2 DEF ClientFields
    <3> QED
      BY <1>1, <2>2, <3>1 DEF TalkerMoves, Is, Held, Gone
  <2> QED
    BY <2>1, <2>2
<1> QED
  BY <1>1, <1>2, <1>3, AroundKeepsSpoken DEF TaskEnds

LEMMA ProcessKeepsSpoken ==
    ASSUME SpokenInv, CrossInv', NEW q \in Processes, Runs(q), ~ProcessEnds(q)
    PROVE  SpokenInv'
<1>1. UNCHANGED <<task, sent, talk, plan, client, ioVars>>
  BY DEF Runs, clientSide
<1>2. PipesGo
  BY ProcessGoes DEF SpokenInv, Runs
<1> QED
  BY <1>1, <1>2, AroundKeepsSpoken DEF TalkerMoves, TaskEnds

LEMMA OthersCloseKeepsSpoken ==
    ASSUME SpokenInv, CrossInv', NEW c \in Clients, Closes(c), c # Talker
    PROVE  SpokenInv'
<1>1. /\ pairs' = LeftBy(c, pairs) /\ ConnectReturns(c, "closed")
      /\ UNCHANGED <<ioVars, talk, session, task, sent, plan>>
  BY DEF Closes, ClosesHandles
<1>2. client'[Talker] = client[Talker]
  BY <1>1, PipesAssumption DEF ConnectReturns, SpokenInv, CrossInv, ClientTyped
<1>3. PipesGo
  BY <1>1, LeavingGoes DEF SpokenInv
<1> QED
  BY <1>1, <1>2, <1>3, AroundKeepsSpoken DEF TalkerMoves, TaskEnds

\* A process that exits takes the task of its session with it.
LEMMA ExitEndsTask ==
    ASSUME LifetimeInv, TaskStands, NEW q \in Processes, ProcessEnds(q)
    PROVE  TaskEnds
<1>1. CASE task.pair # 0 /\ pairs[task.pair].owner = q
  <2>1. task' = NoTask /\ task.pair \in Pairs
    BY <1>1 DEF ProcessEnds, TaskStands
  <2> DEFINE S == {p \in Pairs : pairs[p].owner = q}
  <2>2. ClosedBy(S) /\ task.pair \in S
    BY <1>1, <2>1, ExitCloses DEF ProcessEnds
  <2>3. \A p \in Pairs : p = task.pair => ~Connected(p)'
    BY <2>2 DEF ClosedBy
  <2> QED
    BY <2>1, <2>3 DEF TaskEnds
<1>2. CASE ~(task.pair # 0 /\ pairs[task.pair].owner = q)
  BY <1>2 DEF ProcessEnds, TaskEnds
<1> QED
  BY <1>1, <1>2

LEMMA ExitsKeepsSpoken ==
    ASSUME SpokenInv, CrossInv', NEW q \in Processes, ProcessEnds(q), UNCHANGED clientSide
    PROVE  SpokenInv'
<1>1. PipesGo
  BY ExitCloses, ClosingGoes DEF SpokenInv, CrossInv, ProcessEnds
<1>2. TaskEnds
  BY ExitEndsTask DEF SpokenInv, CrossInv
<1> QED
  BY <1>1, <1>2, AroundKeepsSpoken DEF TalkerMoves, ProcessEnds, clientSide

\* What the end of a session does to the task.
LEMMA SessionEndsTask ==
    ASSUME task \in TaskType, TaskStands, SessionTyped, NEW y \in Pairs, ConversationEnds(y)
    PROVE  TaskEnds
<1>1. CASE task' = [task EXCEPT !.cancelled = task.cancelled \/ task.pair = y]
  <2>1. CASE task.cancelled \/ task.pair # y
    <3>1. (task.cancelled \/ task.pair = y) = task.cancelled
      BY <2>1 DEF TaskType
    <3>2. task' = [task EXCEPT !.cancelled = task.cancelled]
      BY <1>1, <3>1
    <3>3. task' = task
      BY <3>2 DEF TaskType
    <3>4. TaskEnds
      BY <3>3 DEF TaskEnds
    <3> QED
      BY <3>3, <3>4
  <2>2. CASE ~task.cancelled /\ task.pair = y
    <3>1. (task.cancelled \/ task.pair = y) = TRUE
      BY <2>2
    <3>2. task' = [task EXCEPT !.cancelled = TRUE]
      BY <1>1, <3>1
    <3>3. task.pair # 0
      BY <2>2, PipesAssumption DEF Pairs
    <3>4. session'[y] = "ended"
      BY DEF ConversationEnds, SessionEnds, SessionTyped
    <3>5. TaskEnds
      BY <2>2, <3>2, <3>3, <3>4 DEF TaskEnds
    <3> QED
      BY <3>5
  <2> QED
    BY <2>1, <2>2 DEF TaskType
<1>2. CASE task.place = "done" /\ task' = NoTask
  <2>1. TaskEnds
    BY <1>2 DEF TaskEnds
  <2> QED
    BY <1>2, <2>1
<1> QED
  BY <1>1, <1>2 DEF ConversationEnds

LEMMA EndsKeepsSpoken ==
    ASSUME SpokenInv, CrossInv', NEW y \in Pairs, ConversationEnds(y), UNCHANGED clientSide
    PROVE  SpokenInv'
<1>1. PipesGo
  BY EndCloses, ClosingGoes DEF SpokenInv, CrossInv, ConversationEnds
<1>2. TaskEnds
  BY SessionEndsTask DEF SpokenInv, SayingTyped, CrossInv, LifetimeInv
<1> QED
  BY <1>1, <1>2, AroundKeepsSpoken DEF TalkerMoves, ConversationEnds, clientSide

LEMMA TalkerCloseKeepsSpoken ==
    ASSUME SpokenInv, CrossInv', Closes(Talker)
    PROVE  SpokenInv' /\ Gone' /\ NothingSaid'
<1>1. /\ pairs' = LeftBy(Talker, pairs) /\ UNCHANGED <<session, task, plan>>
      /\ client' = [client EXCEPT ![Talker] = [NoHandles EXCEPT !.place = "closed"]]
      /\ Held /\ Talker \in Clients
      /\ client = [d \in Clients |-> client[d]]
      /\ NothingSaid'
  BY PipesAssumption DEF Closes, ClosesHandles, ConnectReturns, Held, Is, NothingSaid,
     SpokenInv, CrossInv, ClientTyped
<1>2. client'[Talker].place = "closed"
  <2>1. client'[Talker] = [NoHandles EXCEPT !.place = "closed"]
    BY <1>1
  <2> QED
    BY <2>1 DEF NoHandles
<1>3. Gone' /\ ~Held'
  BY <1>2 DEF Gone, Held, Is
<1>4. TypedPairs(pairs)
  BY DEF SpokenInv, CrossInv, LifetimeInv
<1>5. \A p \in Pairs :
         /\ pairs'[p].commands = pairs[p].commands
         /\ pairs'[p].replies = IF pairs[p].control = Talker THEN <<>> ELSE pairs[p].replies
         /\ pairs'[p].pcm = IF pairs[p].audio = Talker THEN <<>> ELSE pairs[p].pcm
         /\ pairs'[p].control = Broken(pairs[p].control, Talker)
  BY <1>1, <1>4, LeftData, LeftIs
<1>6. DataTyped'
  <2> DEFINE e == <<>>
  <2>1. e \in Seq(Nat) /\ Len(e) <= 2
    OBVIOUS
  <2>2. \A p \in Pairs : /\ pairs'[p].commands = pairs[p].commands
                         /\ pairs'[p].replies \in {pairs[p].replies, e}
                         /\ pairs'[p].pcm \in {pairs[p].pcm, e}
    BY <1>5
  <2> HIDE DEF e
  <2> QED
    BY <2>1, <2>2 DEF SpokenInv, DataTyped
<1>7. SayingTyped' /\ HearingTyped'
  <2>1. NothingSaid'
    BY <1>1
  <2>2. NoTalk \in TalkType
    BY DEF NoTalk, TalkType, TalkFields
  <2>3. sent' = <<>> /\ talk' = NoTalk /\ task' = task /\ plan' = plan
    BY <1>1, <2>1 DEF NothingSaid
  <2>4. SayingTyped'
    BY <2>2, <2>3 DEF SpokenInv, SayingTyped
  <2>5. EmptyControlBuffer \in StreamType /\ NoRead \in ReadType
    BY DEF EmptyControlBuffer, StreamType, NoRead, ReadType, ThreadPlaces, Operations
  <2>6. /\ io' = [k \in Channels |-> NoRead] /\ stream' = EmptyControlBuffer
        /\ lines' = <<>> /\ heard' = <<>>
    BY <2>1 DEF NothingSaid
  <2>7. HearingTyped'
    BY <2>5, <2>6 DEF HearingTyped
  <2> QED
    BY <2>4, <2>7
<1>8. TaskStands'
  BY <1>1 DEF SpokenInv, TaskStands
<1>9. ReadsStand'
  BY <1>1 DEF NothingSaid, ReadsStand, NoRead
<1>10. AfterTalk'
  <2> SUFFICES ASSUME NEW p \in Pairs, pairs'[p].commands # <<>> \/ task'.pair = p
               PROVE  Lost(pairs'[p].control)
    BY DEF AfterTalk
  <2>1. p = Home
    BY <1>1, <1>5, PipesAssumption DEF SpokenInv, AtHome, Empty, Pairs
  <2> QED
    BY <1>1, <1>5, <2>1 DEF SpokenInv, HomeStands, Lost, Broken
<1>11. HomeStands' /\ Silence' /\ BeforeTalk' /\ AtHome'
  BY <1>1, <1>3 DEF HomeStands, Silence, BeforeTalk, AtHome, Gone, Is
<1> QED
  BY <1>1, <1>3, <1>6, <1>7, <1>8, <1>9, <1>10, <1>11 DEF SpokenInv

LEMMA LeavesKeepsSpoken ==
    ASSUME SpokenInv, CrossInv', NEW c \in Clients, Leaves(c)
    PROVE  /\ SpokenInv'
           /\ \A k \in Channels : io'[k].bytes = io[k].bytes
           /\ Held /\ Held' /\ Home' = Home
<1>1. /\ c = Talker /\ Talking
      /\ client' = [client EXCEPT ![Talker].place = "closing"]
      /\ io' = [k \in Channels |-> IF Operation(k) = "pending"
                                   THEN [io[k] EXCEPT !.kernel = "aborted"] ELSE io[k]]
      /\ UNCHANGED <<pairs, proc, session, task, sent, plan, talk, stream, lines, heard>>
  BY DEF Leaves, CancelsIo, ClientGoes, conversation, Talking
<1>2. /\ client'[Talker].place = "closing" /\ client'[Talker].control = client[Talker].control
      /\ client'[Talker].audio = client[Talker].audio
  <2>1. /\ client = [d \in Clients |-> client[d]] /\ Talker \in Clients
        /\ client[Talker] \in ClientFields(client[Talker])
    BY PipesAssumption DEF SpokenInv, CrossInv, ClientTyped
  <2>2. client'[Talker] = [client[Talker] EXCEPT !.place = "closing"]
    BY <1>1, <2>1
  <2> QED
    BY <2>1, <2>2 DEF ClientFields
<1>3. Held /\ Held' /\ Home' = Home /\ ~Gone /\ ~Gone' /\ ~Talking' /\ ~Is(Talker, "audio")'
  BY <1>1, <1>2 DEF Held, Home, Gone, Talking, Is
<1>4. \A k \in Channels :
         /\ io'[k] = IF io[k].kernel = "pending" THEN [io[k] EXCEPT !.kernel = "aborted"]
                     ELSE io[k]
         /\ io[k] \in ReadType
  BY <1>1 DEF Operation, SpokenInv, HearingTyped
<1>5. \A k \in Channels :
         /\ io'[k] \in ReadType /\ io'[k].thread = io[k].thread /\ io'[k].bytes = io[k].bytes
         /\ io'[k].kernel = IF io[k].kernel = "pending" THEN "aborted" ELSE io[k].kernel
  BY <1>4 DEF ReadType, Operations
<1>6. io' = [k \in Channels |-> io'[k]]
  BY <1>1
<1>7. HearingTyped'
  <2>1. io' \in [Channels -> ReadType]
    BY <1>5, <1>6
  <2> QED
    BY <1>1, <2>1 DEF SpokenInv, HearingTyped
<1>8. ReadsStand'
  BY <1>3, <1>5 DEF SpokenInv, ReadsStand
<1>9. SayingTyped' /\ TaskStands' /\ DataTyped'
  BY <1>1 DEF SpokenInv, SayingTyped, TaskStands, DataTyped
<1>10. HomeStands' /\ AtHome'
  BY <1>1, <1>2, <1>3 DEF SpokenInv, HomeStands, AtHome, Empty
<1>11. Silence' /\ BeforeTalk' /\ AfterTalk'
  BY <1>3 DEF Silence, BeforeTalk, AfterTalk
<1> QED
  BY <1>3, <1>5, <1>7, <1>8, <1>9, <1>10, <1>11 DEF SpokenInv
-----------------------------------------------------------------------------
(* Steps of the conversation.                                              *)

\* What is sent, said and heard on the talker's pipes.
LEMMA HomeKeepsSpoken ==
    ASSUME SpokenInv, CrossInv', Held, UNCHANGED client, SameEnds(pairs, pairs'),
           NEW cs \in Seq(Command), NEW rs \in Seq(Nat), NEW as \in Seq(Nat), Len(as) <= 2,
           DataBut(Home, cs, rs, as),
           SayingTyped', HearingTyped', TaskStands', ReadsStand', task'.pair \in {0, Home}
    PROVE  SpokenInv'
<1>1. (Held' <=> Held) /\ (Gone' <=> Gone) /\ Home' = Home /\ ~Gone
  BY DEF Held, Gone, Home, Is
<1>2. HomeStands'
  BY <1>1, EndsStay DEF SpokenInv, HomeStands, Is, Home
<1>3. DataTyped'
  BY DEF SpokenInv, DataTyped, DataBut
<1>4. \A p \in Pairs \ {Home} : Empty(p) => Empty(p)'
  BY DEF Empty, DataBut
<1>5. AtHome'
  BY <1>1, <1>4 DEF SpokenInv, AtHome
<1>6. Silence' /\ BeforeTalk' /\ AfterTalk'
  BY <1>1 DEF Silence, BeforeTalk, AfterTalk
<1> QED
  BY <1>2, <1>3, <1>5, <1>6 DEF SpokenInv

\* What the provider still does when the talker has gone.
LEMMA LateKeepsSpoken ==
    ASSUME SpokenInv, CrossInv', Gone, UNCHANGED <<client, sent, talk, plan, ioVars>>,
           SameEnds(pairs, pairs'), NEW x \in Pairs,
           pairs[x].commands # <<>> \/ task.pair = x,
           NEW cs \in Seq(Command), DataBut(x, cs, pairs[x].replies, pairs[x].pcm),
           task' \in TaskType, TaskStands', task'.pair \in {0, x, task.pair}
    PROVE  SpokenInv'
<1>1. (Held' <=> Held) /\ (Gone' <=> Gone) /\ ~Held
  BY DEF Held, Gone, Is
<1>2. HomeStands'
  BY <1>1 DEF SpokenInv, HomeStands, Is, Home
<1>3. DataTyped'
  BY DEF SpokenInv, DataTyped, DataBut
<1>4. SayingTyped' /\ HearingTyped'
  BY DEF SpokenInv, SayingTyped, HearingTyped, ioVars
<1>5. Silence' /\ ReadsStand'
  BY <1>1 DEF SpokenInv, Silence, NothingSaid, ReadsStand, ioVars, Talking, Is
<1>6. BeforeTalk' /\ AtHome'
  BY <1>1 DEF BeforeTalk, AtHome
<1>7. AfterTalk'
  <2>1. \A p \in Pairs : pairs'[p].control = pairs[p].control
    BY EndsStay
  <2>2. Lost(pairs[x].control)
    BY DEF SpokenInv, AfterTalk
  <2>3. \A p \in Pairs : p # x => pairs'[p].commands = pairs[p].commands
    BY DEF DataBut
  <2> QED
    BY <2>1, <2>2, <2>3, PipesAssumption DEF SpokenInv, AfterTalk, Pairs
<1> QED
  BY <1>2, <1>3, <1>4, <1>5, <1>6, <1>7 DEF SpokenInv

\* The talker's commands are of their type, and a request has a number.
LEMMA CommandTyped ==
    ASSUME NEW kind \in {"info", "voices", "speak", "cancel", "unknown"}, NEW id \in Nat,
           NEW shape \in Shapes, kind = "speak" => id >= 1
    PROVE  [kind |-> kind, id |-> id, shape |-> shape] \in Command
BY DEF Command

\* What the four steps of the engine send and note.
LEMMA TalkMoves ==
    ASSUME SpokenInv, AsksInfo \/ GetsInfo \/ SendsSpeak \/ BeginsCancel \/ SendsCancel
    PROVE  /\ Talking /\ Held /\ UNCHANGED <<session, task, sent, client, ioVars, plan>>
           /\ SameEnds(pairs, pairs') /\ talk' \in TalkType
           /\ \E cs \in Seq(Command) : DataBut(Home, cs, pairs[Home].replies, pairs[Home].pcm)
<1>1. Talking /\ Held /\ UNCHANGED <<session, task, sent, client, ioVars, plan>>
  BY DEF AsksInfo, GetsInfo, SendsSpeak, BeginsCancel, SendsCancel, Talking, Held, Is
<1>2. TypedPairs(pairs) /\ Home \in Pairs /\ pairs[Home].commands \in Seq(Command)
      /\ talk \in TalkType /\ plan \in Plans
  BY <1>1 DEF SpokenInv, CrossInv, LifetimeInv, HomeStands, DataTyped, SayingTyped
<1>3. talk' \in TalkType
  <2>1. talk \in TalkFields /\ talk.pending \subseteq talk.cancelled
    BY <1>2, TalkIsTyped
  <2>2. CASE AsksInfo \/ GetsInfo \/ SendsSpeak
    <3>1. PICK r \in {[talk EXCEPT !.asked = TRUE], [talk EXCEPT !.greeted = TRUE],
                      [talk EXCEPT !.id = @ + 1]} : talk' = r
      BY <2>2 DEF AsksInfo, GetsInfo, SendsSpeak
    <3>2. r \in TalkFields /\ r.pending = talk.pending /\ r.cancelled = talk.cancelled
      <4>1. CASE r = [talk EXCEPT !.asked = TRUE]
        BY <2>1, <4>1 DEF TalkFields
      <4>2. CASE r = [talk EXCEPT !.greeted = TRUE]
        BY <2>1, <4>2 DEF TalkFields
      <4>3. CASE r = [talk EXCEPT !.id = @ + 1]
        BY <2>1, <4>3 DEF TalkFields
      <4> QED
        BY <3>1, <4>1, <4>2, <4>3
    <3> QED
      BY <2>1, <3>1, <3>2, TalkIsTyped
  <2>3. CASE BeginsCancel
    <3> DEFINE S == talk.cancelled \cup {talk.id}
               T == talk.pending \cup {talk.id}
               r == [talk EXCEPT !.cancelled = S, !.pending = T]
    <3>1. talk' = r
      BY <2>3 DEF BeginsCancel
    <3>2. S \in SUBSET Nat /\ T \in SUBSET Nat /\ T \subseteq S
      BY <2>1 DEF TalkFields
    <3> HIDE DEF S, T
    <3>3. r \in TalkFields /\ r.pending = T /\ r.cancelled = S
      BY <2>1, <3>2 DEF TalkFields
    <3> HIDE DEF r
    <3> QED
      BY <3>1, <3>2, <3>3, TalkIsTyped
  <2>4. CASE SendsCancel
    <3>1. PICK id \in talk.pending :
             talk' = [talk EXCEPT !.pending = @ \ {id},
                                  !.late = IF id = talk.id THEN @ ELSE @ \cup {talk.id}]
      BY <2>4 DEF SendsCancel
    <3> DEFINE S == talk.pending \ {id}
               T == IF id = talk.id THEN talk.late ELSE talk.late \cup {talk.id}
               r == [talk EXCEPT !.pending = S, !.late = T]
    <3>2. talk' = r
      BY <3>1
    <3>3. S \in SUBSET Nat /\ T \in SUBSET Nat /\ S \subseteq talk.cancelled
      BY <2>1 DEF TalkFields
    <3> HIDE DEF S, T
    <3>4. r \in TalkFields /\ r.pending = S /\ r.cancelled = talk.cancelled
      BY <2>1, <3>3 DEF TalkFields
    <3> HIDE DEF r
    <3> QED
      BY <3>2, <3>3, <3>4, TalkIsTyped
  <2> QED
    BY <2>2, <2>3, <2>4
<1>9. talk.id \in Nat /\ talk.pending \subseteq Nat
  BY <1>2, TalkIsTyped DEF TalkFields
<1>4. CASE GetsInfo \/ BeginsCancel
  BY <1>1, <1>2, <1>3, <1>4, DataRests DEF GetsInfo, BeginsCancel
<1>5. ASSUME NEW kind \in {"info", "voices", "speak", "cancel", "unknown"}, NEW id \in Nat,
             NEW shape \in Shapes, kind = "speak" => id >= 1,
             SendCommand(Talker, kind, id, shape)
      PROVE  /\ SameEnds(pairs, pairs')
             /\ \E cs \in Seq(Command) : DataBut(Home, cs, pairs[Home].replies, pairs[Home].pcm)
  <2> DEFINE m == [kind |-> kind, id |-> id, shape |-> shape]
  <2>1. m \in Command
    BY <1>5, CommandTyped
  <2>2. /\ SameEnds(pairs, pairs')
        /\ DataBut(Home, Append(pairs[Home].commands, m), pairs[Home].replies, pairs[Home].pcm)
    BY <1>2, <1>5, SendingMoves
  <2> HIDE DEF m
  <2>3. Append(pairs[Home].commands, m) \in Seq(Command)
    BY <1>2, <2>1
  <2> QED
    BY <2>2, <2>3
<1>6. CASE AsksInfo
  <2>1. SendCommand(Talker, "info", 0, "none") /\ "none" \in Shapes /\ "info" # "speak"
    BY <1>6 DEF AsksInfo, Shapes
  <2> QED
    BY <1>1, <1>3, <1>5, <2>1
<1>7. CASE SendsSpeak
  <2>1. talk.id \in Nat /\ talk.id + 1 \in DOMAIN plan.requests
        /\ plan.requests \in Seq(SUBSET Shapes)
    BY <1>2, <1>7, <1>9, PlansAssumption DEF SendsSpeak
  <2>2. PICK shape \in plan.requests[talk.id + 1] : SendCommand(Talker, "speak", talk.id + 1, shape)
    BY <1>7 DEF SendsSpeak
  <2>3. shape \in Shapes
    BY <2>1, <2>2
  <2>4. talk.id + 1 \in Nat /\ talk.id + 1 >= 1
    BY <2>1
  <2> QED
    BY <1>1, <1>3, <1>5, <2>2, <2>3, <2>4
<1>8. CASE SendsCancel
  <2>1. PICK id \in talk.pending : SendCommand(Talker, "cancel", id, "none")
    BY <1>8 DEF SendsCancel
  <2>2. id \in Nat /\ "none" \in Shapes /\ "cancel" # "speak"
    BY <1>9 DEF Shapes
  <2> QED
    BY <1>1, <1>3, <1>5, <2>1, <2>2
<1> QED
  BY <1>4, <1>6, <1>7, <1>8

LEMMA TalkKeepsSpoken ==
    ASSUME SpokenInv, CrossInv', AsksInfo \/ GetsInfo \/ SendsSpeak \/ BeginsCancel \/ SendsCancel
    PROVE  SpokenInv'
<1>1. /\ Talking /\ Held /\ UNCHANGED <<session, task, sent, client, ioVars, plan>>
      /\ SameEnds(pairs, pairs') /\ talk' \in TalkType
      /\ \E cs \in Seq(Command) : DataBut(Home, cs, pairs[Home].replies, pairs[Home].pcm)
  BY TalkMoves
<1>2. PICK cs \in Seq(Command) : DataBut(Home, cs, pairs[Home].replies, pairs[Home].pcm)
  BY <1>1
<1>3. Home \in Pairs /\ pairs[Home].replies \in Seq(Nat) /\ pairs[Home].pcm \in Seq(Nat)
      /\ Len(pairs[Home].pcm) <= 2 /\ task.pair \in {0, Home}
  BY <1>1 DEF SpokenInv, HomeStands, DataTyped, AtHome
<1>4. SayingTyped' /\ HearingTyped' /\ TaskStands'
  BY <1>1 DEF SpokenInv, SayingTyped, HearingTyped, TaskStands, ioVars
<1>5. ReadsStand'
  BY <1>1 DEF SpokenInv, ReadsStand, ioVars, Talking, Is
<1> QED
  BY <1>1, <1>2, <1>3, <1>4, <1>5, HomeKeepsSpoken

LEMMA PartTyped ==
    ASSUME NEW s \in Seq(Nat), NEW m \in Nat, NEW n \in Nat, n <= Len(s)
    PROVE  /\ SubSeq(s, m + 1, n) \in Seq(Nat)
           /\ Len(SubSeq(s, m + 1, n)) = IF m < n THEN n - m ELSE 0
           /\ \A i \in 1 .. Len(SubSeq(s, m + 1, n)) : SubSeq(s, m + 1, n)[i] = s[m + i]
<1>1. Len(s) \in Nat /\ m + 1 \in Nat /\ m + 1 >= 1 /\ \A i \in 1 .. Len(s) : s[i] \in Nat
  OBVIOUS
<1>2. CASE m < n
  <2>1. \A i \in m + 1 .. n : s[i] \in Nat
    BY <1>1
  <2> DEFINE t == [i \in 1 .. n - m |-> s[m + i]]
  <2>2. SubSeq(s, m + 1, n) = t
    BY <1>1, <1>2
  <2>3. t \in [1 .. n - m -> Nat] /\ n - m \in Nat
    BY <1>1, <1>2, <2>1
  <2>4. t \in Seq(Nat) /\ Len(t) = n - m
    BY <2>3
  <2>5. \A i \in 1 .. n - m : t[i] = s[m + i]
    OBVIOUS
  <2> HIDE DEF t
  <2> QED
    BY <1>2, <2>2, <2>4, <2>5
<1>3. CASE ~(m < n)
  BY <1>1, <1>3
<1> QED
  BY <1>2, <1>3

\* The line that is found lies between the read offset and the end.
LEMMA LineFound ==
    ASSUME stream \in StreamType, HasLine(stream)
    PROVE  /\ Min(Newlines(stream)) \in stream.searchOffset + 1 .. Len(stream.buffer)
           /\ stream.buffer[Min(Newlines(stream))] = LF
           /\ \A i \in stream.searchOffset + 1 .. Len(stream.buffer) :
                 stream.buffer[i] = LF => Min(Newlines(stream)) <= i
<1>1. stream.buffer \in Seq(Nat) /\ stream.searchOffset \in Nat /\ Len(stream.buffer) \in Nat
  BY DEF StreamType
<1>2. Newlines(stream) \subseteq Nat /\ Newlines(stream) # {}
  BY <1>1 DEF Newlines, HasLine
<1>3. Min(Newlines(stream)) \in Newlines(stream)
      /\ \A i \in Newlines(stream) : Min(Newlines(stream)) <= i
  BY <1>2, MinOf
<1> QED
  BY <1>3 DEF Newlines

LEMMA LineTyped ==
    ASSUME stream \in StreamType, HasLine(stream)
    PROVE  Line(stream) \in Seq(Nat)
<1> DEFINE n == Min(Newlines(stream)) - 1
           s == SubSeq(stream.buffer, stream.readOffset + 1, n)
<1>1. /\ n \in Nat /\ n <= Len(stream.buffer)
      /\ stream.buffer \in Seq(Nat) /\ stream.readOffset \in Nat
  BY LineFound DEF StreamType
<1> HIDE DEF n
<1>2. s \in Seq(Nat)
  BY <1>1, PartTyped
<1>3. Line(stream) = TrimCR(s)
  BY DEF Line, n
<1> HIDE DEF s
<1>4. CASE s # <<>> /\ s[Len(s)] = CR
  <2>1. TrimCR(s) = SubSeq(s, 0 + 1, Len(s) - 1) /\ Len(s) - 1 \in Nat /\ Len(s) - 1 <= Len(s)
    BY <1>2, <1>4 DEF TrimCR
  <2> QED
    BY <1>2, <1>3, <2>1, PartTyped
<1>5. CASE ~(s # <<>> /\ s[Len(s)] = CR)
  BY <1>2, <1>3, <1>5 DEF TrimCR
<1> QED
  BY <1>4, <1>5

LEMMA StreamsTyped ==
    ASSUME stream \in StreamType
    PROVE  /\ Searched(stream) \in StreamType
           /\ \A chunk \in Seq(Nat) : AppendChunk(stream, chunk) \in StreamType
           /\ HasLine(stream) => Compacted(ExtractLine(stream)) \in StreamType
<1>1. stream.buffer \in Seq(Nat) /\ Len(stream.buffer) \in Nat
  BY DEF StreamType
<1>2. Searched(stream) \in StreamType
  BY <1>1 DEF Searched, StreamType
<1>3. ASSUME NEW chunk \in Seq(Nat)
      PROVE  AppendChunk(stream, chunk) \in StreamType
  <2>1. stream.buffer \o chunk \in Seq(Nat)
    BY <1>1
  <2> QED
    BY <2>1 DEF AppendChunk, StreamType
<1>4. ASSUME HasLine(stream)
      PROVE  Compacted(ExtractLine(stream)) \in StreamType
  <2> DEFINE n == Min(Newlines(stream))
             b == [stream EXCEPT !.readOffset = n, !.searchOffset = n]
  <2>1. n \in Nat
    BY <1>4, LineFound DEF StreamType
  <2>2. ExtractLine(stream) = b
    BY DEF ExtractLine
  <2> HIDE DEF n
  <2>3. b \in StreamType /\ b.buffer = stream.buffer /\ b.readOffset = n
    BY <2>1 DEF StreamType
  <2> HIDE DEF b
  <2> DEFINE rest == SubSeq(b.buffer, b.readOffset + 1, Len(b.buffer))
  <2>4. rest \in Seq(Nat)
    BY <1>1, <2>1, <2>3, PartTyped
  <2> HIDE DEF rest
  <2>5. Compact(b) \in {b, [buffer |-> rest, readOffset |-> 0, searchOffset |-> 0]}
    BY DEF Compact, rest
  <2>6. [buffer |-> rest, readOffset |-> 0, searchOffset |-> 0] \in StreamType
    BY <2>4 DEF StreamType
  <2> QED
    BY <2>2, <2>3, <2>5, <2>6 DEF Compacted
<1> QED
  BY <1>2, <1>3, <1>4
-----------------------------------------------------------------------------
(* The reads of the talker.                                                *)

Bytes == io["audio"].bytes

\* What has been read from the audio pipe and not been heard.
ReadStands(r) ==
    /\ r \in ReadType
    /\ r.thread \in {"idle", "error"} <=> r.kernel = "none"
    /\ r.kernel # "done" => r.bytes = <<>>

\* A read of one pipe takes a step.
LEMMA OneRead ==
    ASSUME HearingTyped, ReadsStand, UNCHANGED client, NEW k \in Channels, NEW r,
           ReadStands(r), r.kernel = "pending" => Talking, io' = [io EXCEPT ![k] = r]
    PROVE  /\ io' \in [Channels -> ReadType] /\ ReadsStand'
           /\ io'[k] = r /\ \A j \in Channels : j # k => io'[j] = io[j]
<1>1. io \in [Channels -> ReadType]
  BY DEF HearingTyped
<1>2. io'[k] = r /\ \A j \in Channels : j # k => io'[j] = io[j]
  BY <1>1
<1>3. io' \in [Channels -> ReadType]
  BY <1>1 DEF ReadStands
<1>4. Talking' <=> Talking
  BY DEF Talking, Is
<1>5. ReadsStand'
  BY <1>2, <1>4 DEF ReadsStand, ReadStands
<1> QED
  BY <1>2, <1>3, <1>5

\* What a step of the reads leaves alone, and what it may do.
AroundReads ==
    /\ Held /\ UNCHANGED <<session, task, sent, talk, plan, client>>
    /\ SameEnds(pairs, pairs') /\ HearingTyped' /\ ReadsStand'

\* Nothing is heard; a line may be cut off.
ReadsOn ==
    /\ \E rs \in Seq(Nat) : DataBut(Home, pairs[Home].commands, rs, pairs[Home].pcm)
    /\ Bytes' = Bytes /\ heard' = heard
    /\ lines' = lines \/ \E line \in Seq(Nat) : lines' = Append(lines, line)

\* Audio leaves the pipe.
TakesAudio ==
    \E n \in 1 .. Len(pairs[Home].pcm) :
       /\ Bytes = <<>> /\ Bytes' = SubSeq(pairs[Home].pcm, 1, n)
       /\ DataBut(Home, pairs[Home].commands, pairs[Home].replies,
                  SubSeq(pairs[Home].pcm, n + 1, Len(pairs[Home].pcm)))
       /\ UNCHANGED <<heard, lines>>

\* The audio that was read is heard.
HearsAudio ==
    /\ heard' = heard \o Bytes /\ Bytes' = <<>> /\ lines' = lines
    /\ DataBut(Home, pairs[Home].commands, pairs[Home].replies, pairs[Home].pcm)

\* A read that has begun is the talker's.
LEMMA ReadIsHeld ==
    ASSUME SpokenInv
    PROVE  /\ \A k \in Channels : io[k].kernel = "pending" => Talking /\ io[k].bytes = <<>>
           /\ \A k \in Channels : io[k].thread \in {"waiting", "reaping"} => Held
           /\ Talking => Held
<1>1. \A k \in Channels : io[k].kernel = "pending" => Talking /\ io[k].bytes = <<>>
  BY DEF SpokenInv, ReadsStand
<1>2. \A k \in Channels : io[k].thread \in {"waiting", "reaping"} => Held
  BY DEF SpokenInv, Silence, NothingSaid, NoRead
<1>3. Talking => Held
  BY DEF Talking, Is, Held
<1> QED
  BY <1>1, <1>2, <1>3

LEMMA QuietReads ==
    ASSUME SpokenInv, UNCHANGED <<session, task, sent, talk, plan>>,
           \/ BeginControlRead \/ BeginAudioRead \/ Overflows
           \/ \E k \in Channels : PipeEnds(k) \/ CancelsRead(k) \/ CancellationTakes(k)
    PROVE  AroundReads /\ ReadsOn
<1>1. UNCHANGED <<pairs, client, lines, heard>>
  BY DEF BeginControlRead, BeginAudioRead, Overflows, PipeEnds, CancelsRead, CancellationTakes
<1>2. io \in [Channels -> ReadType] /\ HearingTyped /\ ReadsStand /\ stream \in StreamType
  BY DEF SpokenInv, HearingTyped
<1>3. stream' \in StreamType
  BY <1>2, StreamsTyped DEF BeginControlRead, BeginAudioRead, Overflows, PipeEnds, CancelsRead,
     CancellationTakes
<1>4. ASSUME NEW k \in Channels, NEW r, ReadStands(r), r.kernel = "pending" => Talking, Held,
             r.bytes = io[k].bytes, io' = [io EXCEPT ![k] = r]
      PROVE  AroundReads /\ ReadsOn
  <2>1. /\ io' \in [Channels -> ReadType] /\ ReadsStand'
        /\ io'[k] = r /\ \A j \in Channels : j # k => io'[j] = io[j]
    BY <1>1, <1>2, <1>4, OneRead
  <2>2. \A j \in Channels : io'[j].bytes = io[j].bytes
    BY <1>4, <2>1
  <2>3. Home \in Pairs /\ pairs[Home].replies \in Seq(Nat) /\ TypedPairs(pairs)
    BY <1>4 DEF SpokenInv, HomeStands, DataTyped, CrossInv, LifetimeInv
  <2>4. SameEnds(pairs, pairs')
        /\ DataBut(Home, pairs[Home].commands, pairs[Home].replies, pairs[Home].pcm)
    BY <1>1, <2>3, DataRests
  <2>5. AroundReads
    BY <1>1, <1>3, <1>4, <2>1, <2>4 DEF AroundReads, SpokenInv, HearingTyped
  <2>6. ReadsOn
    BY <1>1, <2>2, <2>3, <2>4 DEF ReadsOn, Bytes, Channels
  <2> QED
    BY <2>5, <2>6
<1>5. ASSUME NEW k \in Channels, Talking, io[k].thread = "idle", ReadPending(k)
      PROVE  AroundReads /\ ReadsOn
  <2> DEFINE r == [thread |-> "waiting", kernel |-> "pending", bytes |-> <<>>]
  <2>1. io' = [io EXCEPT ![k] = r] /\ Held
    BY <1>5, ReadIsHeld DEF ReadPending
  <2>2. ReadStands(r) /\ r.bytes = <<>>
    BY DEF ReadStands, ReadType, ThreadPlaces, Operations
  <2>3. io[k].bytes = <<>>
    BY <1>2, <1>5 DEF ReadsStand
  <2> HIDE DEF r
  <2> QED
    BY <1>4, <1>5, <2>1, <2>2, <2>3
<1>6. CASE BeginControlRead \/ BeginAudioRead
  BY <1>5, <1>6 DEF BeginControlRead, BeginAudioRead, Channels
<1>7. CASE Overflows
  <2> DEFINE r == [io["control"] EXCEPT !.thread = "error"]
  <2>1. Talking /\ Held /\ io["control"].thread = "idle" /\ io' = [io EXCEPT !["control"].thread = "error"]
    BY <1>7, ReadIsHeld DEF Overflows
  <2>2. io' = [io EXCEPT !["control"] = r] /\ "control" \in Channels
    BY <2>1 DEF Channels
  <2>3. ReadStands(r) /\ r.bytes = io["control"].bytes
    BY <1>2, <2>1, <2>2 DEF ReadStands, ReadsStand, ReadType, ThreadPlaces
  <2> HIDE DEF r
  <2> QED
    BY <1>4, <2>1, <2>2, <2>3
<1>8. ASSUME NEW k \in Channels, PipeEnds(k) \/ CancellationTakes(k)
      PROVE  AroundReads /\ ReadsOn
  <2>1. PICK v \in {"failed", "aborted"} :
           io[k].kernel = "pending" /\ io' = [io EXCEPT ![k].kernel = v]
    BY <1>8 DEF PipeEnds, CancellationTakes, Operation
  <2> DEFINE r == [io[k] EXCEPT !.kernel = v]
  <2>2. io' = [io EXCEPT ![k] = r] /\ Talking /\ Held
    BY <2>1, ReadIsHeld
  <2>3. ReadStands(r) /\ r.bytes = io[k].bytes
    BY <1>2, <2>1 DEF ReadStands, ReadsStand, ReadType, Operations
  <2> HIDE DEF r
  <2> QED
    BY <1>4, <2>2, <2>3
<1>9. ASSUME NEW k \in Channels, CancelsRead(k)
      PROVE  AroundReads /\ ReadsOn
  <2>1. io[k].thread = "waiting" /\ io[k].kernel = "pending" /\ io' = [io EXCEPT ![k].thread = "reaping"]
    BY <1>9 DEF CancelsRead, Operation
  <2> DEFINE r == [io[k] EXCEPT !.thread = "reaping"]
  <2>2. io' = [io EXCEPT ![k] = r] /\ Talking /\ Held
    BY <2>1, ReadIsHeld
  <2>3. ReadStands(r) /\ r.bytes = io[k].bytes
    BY <1>2, <2>1 DEF ReadStands, ReadsStand, ReadType, ThreadPlaces
  <2> HIDE DEF r
  <2> QED
    BY <1>4, <2>2, <2>3
<1> QED
  BY <1>6, <1>7, <1>8, <1>9

\* The parts a sequence is cut into.
LEMMA CutTyped ==
    ASSUME NEW s \in Seq(Nat), NEW n \in 1 .. Len(s)
    PROVE  /\ SubSeq(s, 1, n) \in Seq(Nat) /\ SubSeq(s, n + 1, Len(s)) \in Seq(Nat)
           /\ Len(SubSeq(s, 1, n)) = n /\ Len(SubSeq(s, n + 1, Len(s))) = Len(s) - n
           /\ \A i \in 1 .. n : SubSeq(s, 1, n)[i] = s[i]
           /\ \A i \in 1 .. Len(s) - n : SubSeq(s, n + 1, Len(s))[i] = s[n + i]
<1>1. Len(s) \in Nat /\ n \in Nat /\ n <= Len(s) /\ 1 <= n /\ 0 \in Nat
  OBVIOUS
<1>2. /\ SubSeq(s, 0 + 1, n) \in Seq(Nat)
      /\ Len(SubSeq(s, 0 + 1, n)) = IF 0 < n THEN n - 0 ELSE 0
      /\ \A i \in 1 .. Len(SubSeq(s, 0 + 1, n)) : SubSeq(s, 0 + 1, n)[i] = s[0 + i]
  BY <1>1, PartTyped
<1>3. /\ SubSeq(s, n + 1, Len(s)) \in Seq(Nat)
      /\ Len(SubSeq(s, n + 1, Len(s))) = IF n < Len(s) THEN Len(s) - n ELSE 0
      /\ \A i \in 1 .. Len(SubSeq(s, n + 1, Len(s))) : SubSeq(s, n + 1, Len(s))[i] = s[n + i]
  BY <1>1, PartTyped
<1>4. 0 + 1 = 1 /\ (IF 0 < n THEN n - 0 ELSE 0) = n /\ \A i \in 1 .. n : 0 + i = i
      /\ (IF n < Len(s) THEN Len(s) - n ELSE 0) = Len(s) - n
  BY <1>1
<1> QED
  BY <1>2, <1>3, <1>4

\* The kernel takes bytes from a pipe for a read that waits for them.
LEMMA ArrivalIs ==
    ASSUME SpokenInv, NEW k \in Channels, io[k].kernel = "pending", UNCHANGED client,
           NEW b \in Seq(Nat), io' = [io EXCEPT ![k].kernel = "done", ![k].bytes = b]
    PROVE  /\ io' \in [Channels -> ReadType] /\ ReadsStand'
           /\ io'[k].bytes = b /\ \A j \in Channels : j # k => io'[j] = io[j]
<1> DEFINE r == [io[k] EXCEPT !.kernel = "done", !.bytes = b]
<1>1. io' = [io EXCEPT ![k] = r] /\ HearingTyped /\ ReadsStand /\ io[k] \in ReadType
  BY DEF SpokenInv, HearingTyped
<1>2. ReadStands(r) /\ r.bytes = b /\ r.kernel = "done"
  BY <1>1 DEF ReadStands, ReadsStand, ReadType, Operations
<1> HIDE DEF r
<1> QED
  BY <1>1, <1>2, OneRead

LEMMA ControlArrivesReads ==
    ASSUME SpokenInv, UNCHANGED <<session, task, sent, talk, plan>>, ControlArrives
    PROVE  AroundReads /\ ReadsOn
<1> DEFINE there == pairs[Home].replies
           n == Min({ChunkBytes, Len(there)})
<1>1. /\ io["control"].kernel = "pending" /\ n > 0
      /\ io' = [io EXCEPT !["control"].kernel = "done", !["control"].bytes = SubSeq(there, 1, n)]
      /\ pairs' = [pairs EXCEPT ![Home].replies = SubSeq(there, n + 1, Len(there))]
      /\ UNCHANGED <<client, stream, lines, heard>> /\ "control" \in Channels
  BY DEF ControlArrives, PipeOf, Home, Operation, Channels
<1>2. Held
  BY <1>1, ReadIsHeld
<1>3. Home \in Pairs /\ there \in Seq(Nat) /\ TypedPairs(pairs)
  BY <1>2 DEF SpokenInv, HomeStands, DataTyped, CrossInv, LifetimeInv
<1>4. n \in 1 .. Len(there)
  <2>1. {ChunkBytes, Len(there)} \subseteq Nat
    BY <1>3, ClientAssumption
  <2>2. n \in {ChunkBytes, Len(there)} /\ \A y \in {ChunkBytes, Len(there)} : n <= y
    BY <2>1, MinOf
  <2> HIDE DEF n
  <2> QED
    BY <1>1, <2>1, <2>2
<1> HIDE DEF n
<1>5. SubSeq(there, 1, n) \in Seq(Nat) /\ SubSeq(there, n + 1, Len(there)) \in Seq(Nat)
  BY <1>3, <1>4, CutTyped
<1>6. /\ io' \in [Channels -> ReadType] /\ ReadsStand'
      /\ \A j \in Channels : j # "control" => io'[j] = io[j]
  BY <1>1, <1>5, ArrivalIs
<1>7. /\ SameEnds(pairs, pairs')
      /\ DataBut(Home, pairs[Home].commands, SubSeq(there, n + 1, Len(there)), pairs[Home].pcm)
  BY <1>1, <1>3, RecordsMove
<1>8. AroundReads
  BY <1>1, <1>2, <1>6, <1>7 DEF AroundReads, SpokenInv, HearingTyped
<1>9. Bytes' = Bytes
  BY <1>6 DEF Bytes, Channels
<1>10. ReadsOn
  BY <1>1, <1>5, <1>7, <1>9 DEF ReadsOn
<1> QED
  BY <1>8, <1>10

LEMMA AudioArrivesReads ==
    ASSUME SpokenInv, UNCHANGED <<session, task, sent, talk, plan>>, AudioArrives
    PROVE  AroundReads /\ TakesAudio
<1> DEFINE x == client[Talker].audio
<1>1. PICK n \in 1 .. Len(pairs[x].pcm) :
         /\ io' = [io EXCEPT !["audio"].kernel = "done",
                             !["audio"].bytes = SubSeq(pairs[x].pcm, 1, n)]
         /\ pairs' = [pairs EXCEPT ![x].pcm = SubSeq(@, n + 1, Len(@))]
  BY DEF AudioArrives, PipeOf
<1>2. /\ io["audio"].kernel = "pending" /\ "audio" \in Channels
      /\ UNCHANGED <<client, stream, lines, heard>>
  BY DEF AudioArrives, Operation, Channels
<1>3. Held /\ Bytes = <<>>
  BY <1>2, ReadIsHeld DEF Bytes
<1>4. x \in Pairs /\ Home \in Pairs /\ pairs[x].pcm \in Seq(Nat) /\ TypedPairs(pairs)
  BY <1>3 DEF SpokenInv, HomeStands, DataTyped, CrossInv, LifetimeInv
<1>5. x = Home
  <2>1. pairs[x].pcm # <<>>
    BY <1>1
  <2> QED
    BY <1>3, <1>4, <2>1 DEF SpokenInv, AtHome, Empty
<1> DEFINE there == pairs[Home].pcm
<1>6. there \in Seq(Nat) /\ n \in 1 .. Len(there)
  BY <1>1, <1>4, <1>5
<1>7. SubSeq(there, 1, n) \in Seq(Nat) /\ SubSeq(there, n + 1, Len(there)) \in Seq(Nat)
  BY <1>6, CutTyped
<1>8. /\ io' \in [Channels -> ReadType] /\ ReadsStand'
      /\ io'["audio"].bytes = SubSeq(there, 1, n)
  BY <1>1, <1>2, <1>5, <1>7, ArrivalIs
<1>9. /\ SameEnds(pairs, pairs')
      /\ DataBut(Home, pairs[Home].commands, pairs[Home].replies, SubSeq(there, n + 1, Len(there)))
  <2>1. pairs' = [pairs EXCEPT ![Home].pcm = SubSeq(there, n + 1, Len(there))]
    BY <1>1, <1>5
  <2> QED
    BY <1>4, <2>1, SoundMoves
<1>10. AroundReads
  BY <1>2, <1>3, <1>8, <1>9 DEF AroundReads, SpokenInv, HearingTyped
<1>11. TakesAudio
  BY <1>2, <1>3, <1>6, <1>8, <1>9 DEF TakesAudio, Bytes
<1> QED
  BY <1>10, <1>11

LEMMA ReturnReads ==
    ASSUME SpokenInv, UNCHANGED <<session, task, sent, talk, plan>>,
           NEW k \in Channels, Returns(k)
    PROVE  AroundReads /\ (ReadsOn \/ HearsAudio)
<1>1. /\ UNCHANGED <<pairs, client, lines>> /\ Held
      /\ IF io[k].kernel = "done" THEN TakesBytes(k) ELSE UNCHANGED <<stream, heard>>
      /\ io[k].kernel # "pending"
  BY ReadIsHeld DEF Returns, Operation
<1>2. PICK r \in {[NoRead EXCEPT !.thread = "error"], NoRead} : io' = [io EXCEPT ![k] = r]
  BY DEF Returns
<1>3. ReadStands(r) /\ r.bytes = <<>> /\ r.kernel = "none"
  <2>1. NoRead = [thread |-> "idle", kernel |-> "none", bytes |-> <<>>]
    BY DEF NoRead
  <2>2. [NoRead EXCEPT !.thread = "error"] = [thread |-> "error", kernel |-> "none", bytes |-> <<>>]
    BY <2>1
  <2> DEFINE e == [thread |-> "error", kernel |-> "none", bytes |-> <<>>]
             i == [thread |-> "idle", kernel |-> "none", bytes |-> <<>>]
  <2>3. ReadStands(e) /\ e.bytes = <<>> /\ e.kernel = "none"
    BY DEF ReadStands, ReadType, ThreadPlaces, Operations
  <2>4. ReadStands(i) /\ i.bytes = <<>> /\ i.kernel = "none"
    BY DEF ReadStands, ReadType, ThreadPlaces, Operations
  <2> HIDE DEF e, i
  <2>5. r = e \/ r = i
    BY <1>2, <2>1, <2>2 DEF e, i
  <2> QED
    BY <2>3, <2>4, <2>5
<1>4. HearingTyped /\ ReadsStand /\ io \in [Channels -> ReadType] /\ stream \in StreamType
      /\ io[k].bytes \in Seq(Nat) /\ heard \in Seq(Nat)
  BY DEF SpokenInv, HearingTyped, ReadType
<1>5. /\ io' \in [Channels -> ReadType] /\ ReadsStand'
      /\ io'[k] = r /\ \A j \in Channels : j # k => io'[j] = io[j]
  BY <1>1, <1>2, <1>3, <1>4, OneRead
<1>6. stream' \in StreamType /\ heard' \in Seq(Nat)
  <2>1. heard \o io[k].bytes \in Seq(Nat)
    BY <1>4
  <2>2. AppendChunk(stream, io[k].bytes) \in StreamType
    BY <1>4, StreamsTyped
  <2> QED
    BY <1>1, <1>4, <2>1, <2>2 DEF TakesBytes
<1>7. Home \in Pairs /\ pairs[Home].replies \in Seq(Nat) /\ TypedPairs(pairs)
  BY <1>1 DEF SpokenInv, HomeStands, DataTyped, CrossInv, LifetimeInv
<1>8. SameEnds(pairs, pairs')
      /\ DataBut(Home, pairs[Home].commands, pairs[Home].replies, pairs[Home].pcm)
  BY <1>1, <1>7, DataRests
<1>9. AroundReads
  BY <1>1, <1>4, <1>5, <1>6, <1>8 DEF AroundReads, HearingTyped
<1>10. CASE k = "control"
  <2>1. Bytes' = Bytes /\ heard' = heard
    BY <1>1, <1>5, <1>10 DEF Bytes, Channels, TakesBytes
  <2> QED
    BY <1>1, <1>7, <1>8, <1>9, <2>1 DEF ReadsOn
<1>11. CASE k = "audio" /\ io[k].kernel = "done"
  <2>1. heard' = heard \o Bytes /\ Bytes' = <<>>
    BY <1>1, <1>3, <1>5, <1>11 DEF Bytes, TakesBytes
  <2> QED
    BY <1>1, <1>8, <1>9, <2>1 DEF HearsAudio
<1>12. CASE k = "audio" /\ io[k].kernel # "done"
  <2>1. heard' = heard /\ Bytes' = Bytes
    BY <1>1, <1>3, <1>4, <1>5, <1>12 DEF Bytes, ReadsStand
  <2> QED
    BY <1>1, <1>7, <1>8, <1>9, <2>1 DEF ReadsOn
<1> QED
  BY <1>10, <1>11, <1>12 DEF Channels

LEMMA MessageReads ==
    ASSUME SpokenInv, UNCHANGED <<session, task, sent, talk, plan>>, ReadsMessage
    PROVE  AroundReads /\ ReadsOn
<1>1. /\ Held /\ HasLine(stream) /\ lines' = Append(lines, Line(stream))
      /\ stream' = Compacted(ExtractLine(stream)) /\ UNCHANGED <<pairs, client, io, heard>>
  BY ReadIsHeld DEF ReadsMessage
<1>2. HearingTyped /\ ReadsStand /\ stream \in StreamType /\ lines \in Seq(Seq(Nat))
  BY DEF SpokenInv, HearingTyped
<1>3. Line(stream) \in Seq(Nat) /\ stream' \in StreamType
  BY <1>1, <1>2, LineTyped, StreamsTyped
<1>4. lines' \in Seq(Seq(Nat))
  BY <1>1, <1>2, <1>3
<1>5. Home \in Pairs /\ pairs[Home].replies \in Seq(Nat) /\ TypedPairs(pairs)
  BY <1>1 DEF SpokenInv, HomeStands, DataTyped, CrossInv, LifetimeInv
<1>6. SameEnds(pairs, pairs')
      /\ DataBut(Home, pairs[Home].commands, pairs[Home].replies, pairs[Home].pcm)
  BY <1>1, <1>5, DataRests
<1>7. HearingTyped'
  BY <1>1, <1>2, <1>3, <1>4 DEF HearingTyped
<1>8. ReadsStand'
  BY <1>1, <1>2 DEF ReadsStand, Talking, Is
<1>9. AroundReads
  BY <1>1, <1>6, <1>7, <1>8 DEF AroundReads
<1>10. Bytes' = Bytes
  BY <1>1 DEF Bytes
<1>11. ReadsOn
  BY <1>1, <1>3, <1>5, <1>6, <1>10 DEF ReadsOn
<1> QED
  BY <1>9, <1>11

\* A step of the reads, whichever it is.
LEMMA ReadsMove ==
    ASSUME SpokenInv, Reads
    PROVE  AroundReads /\ (ReadsOn \/ TakesAudio \/ HearsAudio)
<1>1. ReadSteps /\ UNCHANGED <<session, task, sent, talk, plan>>
  BY DEF Reads, conversation
<1> QED
  BY <1>1, QuietReads, ControlArrivesReads, AudioArrivesReads, ReturnReads, MessageReads
     DEF ReadSteps

LEMMA ReadsKeepsSpoken ==
    ASSUME SpokenInv, CrossInv', Reads
    PROVE  SpokenInv'
<1>1. AroundReads /\ (ReadsOn \/ TakesAudio \/ HearsAudio)
  BY ReadsMove
<1>2. Home \in Pairs /\ pairs[Home].replies \in Seq(Nat) /\ pairs[Home].pcm \in Seq(Nat)
      /\ pairs[Home].commands \in Seq(Command)
      /\ Len(pairs[Home].pcm) <= 2 /\ task.pair \in {0, Home} /\ TaskStands /\ SayingTyped
  BY <1>1 DEF AroundReads, SpokenInv, HomeStands, DataTyped, AtHome
<1>3. \E rs \in Seq(Nat), as \in Seq(Nat) :
         Len(as) <= 2 /\ DataBut(Home, pairs[Home].commands, rs, as)
  <2>1. CASE TakesAudio
    <3>1. PICK n \in 1 .. Len(pairs[Home].pcm) :
             DataBut(Home, pairs[Home].commands, pairs[Home].replies,
                     SubSeq(pairs[Home].pcm, n + 1, Len(pairs[Home].pcm)))
      BY <2>1 DEF TakesAudio
    <3> DEFINE as == SubSeq(pairs[Home].pcm, n + 1, Len(pairs[Home].pcm))
    <3>2. as \in Seq(Nat) /\ Len(as) = Len(pairs[Home].pcm) - n
      BY <1>2, CutTyped
    <3> HIDE DEF as
    <3>3. Len(as) <= 2
      BY <1>2, <3>2
    <3> QED
      BY <1>2, <3>1, <3>2, <3>3 DEF as
  <2> QED
    BY <1>1, <1>2, <2>1 DEF ReadsOn, HearsAudio
<1>4. SayingTyped' /\ TaskStands'
  BY <1>1, <1>2 DEF AroundReads, SayingTyped, TaskStands
<1> QED
  BY <1>1, <1>2, <1>3, <1>4, HomeKeepsSpoken DEF AroundReads
-----------------------------------------------------------------------------
(* The commands of the loop.                                               *)

LEMMA HeadTyped ==
    ASSUME DataTyped, NEW p \in Pairs, pairs[p].commands # <<>>
    PROVE  /\ Head(pairs[p].commands) \in Command /\ Tail(pairs[p].commands) \in Seq(Command)
           /\ 1 \in DOMAIN pairs[p].commands
           /\ Head(pairs[p].commands) = pairs[p].commands[1]
           /\ Len(Tail(pairs[p].commands)) = Len(pairs[p].commands) - 1
           /\ \A i \in DOMAIN Tail(pairs[p].commands) :
                 /\ i + 1 \in DOMAIN pairs[p].commands
                 /\ Tail(pairs[p].commands)[i] = pairs[p].commands[i + 1]
<1>1. pairs[p].commands \in Seq(Command)
  BY DEF DataTyped
<1> QED
  BY <1>1

\* What a command makes of the task.
LEMMA LoopTask ==
    ASSUME task \in TaskType, TaskStands, DataTyped, SessionTyped, NEW p \in Pairs,
           AnswersQuery(p) \/ RefusesSpeak(p) \/ StartsSpeak(p) \/ HandlesCancel(p)
    PROVE  /\ task' \in TaskType /\ TaskStands' /\ task'.pair \in {p, task.pair}
           /\ pairs[p].commands # <<>>
<1>1. pairs[p].commands # <<>> /\ session[p] = "reading"
  BY DEF AnswersQuery, RefusesSpeak, StartsSpeak, HandlesCancel, NextCommand
<1>2. CASE AnswersQuery(p) \/ RefusesSpeak(p)
  BY <1>1, <1>2 DEF AnswersQuery, RefusesSpeak, TaskStands
<1>3. CASE StartsSpeak(p)
  <2> DEFINE m == Head(pairs[p].commands)
             place == IF m.shape = "bad" THEN "error" ELSE "word"
  <2>1. m \in Command /\ m.kind = "speak" /\ UNCHANGED session
    BY <1>1, <1>3, HeadTyped DEF StartsSpeak, NextCommand
  <2>2. m.id \in Nat /\ m.id >= 1 /\ m.shape \in Shapes
    BY <2>1 DEF Command
  <2>3. Words[m.shape] \in Nat
    BY <2>2 DEF Words, Shapes
  <2>4. place \in {"error", "word"} /\ place \in TaskPlaces
    BY DEF TaskPlaces
  <2>5. task' = [NoTask EXCEPT !.pair = p, !.id = m.id, !.shape = m.shape,
                               !.left = Words[m.shape], !.place = place]
    BY <1>3 DEF StartsSpeak
  <2> HIDE DEF m, place
  <2>6. task' = [pair |-> p, id |-> m.id, shape |-> m.shape, place |-> place,
                 left |-> Words[m.shape], first |-> TRUE, buffered |-> 0, total |-> 0,
                 written |-> 0, cancelled |-> FALSE]
    BY <2>5 DEF NoTask
  <2>7. p \in 0 .. MaxPairs /\ p # 0
    BY PipesAssumption DEF Pairs
  <2>8. task' \in TaskType
    BY <2>2, <2>3, <2>4, <2>6, <2>7 DEF TaskType
  <2>9. task'.pair = p /\ task'.id = m.id /\ task'.place = place
    BY <2>6
  <2>10. TaskStands'
    BY <1>1, <2>1, <2>2, <2>4, <2>7, <2>9 DEF TaskStands
  <2> QED
    BY <1>1, <2>8, <2>9, <2>10
<1>4. CASE HandlesCancel(p)
  <2>1. task' = [task EXCEPT !.cancelled = task.place # "none"]
        /\ session' = [session EXCEPT ![p] = IF task.place = "none" THEN @ ELSE "cancelling"]
    BY <1>4 DEF HandlesCancel
  <2> DEFINE c == (task.place # "none")
  <2>2. c \in BOOLEAN
    OBVIOUS
  <2>3. task' \in TaskType /\ task'.pair = task.pair /\ task'.id = task.id
        /\ task'.place = task.place /\ task'.cancelled = c /\ task'.left = task.left
        /\ task'.buffered = task.buffered
    <3>1. task' = [task EXCEPT !.cancelled = c]
      BY <2>1
    <3> HIDE DEF c
    <3> QED
      BY <2>2, <3>1 DEF TaskType
  <2>4. \A x \in Pairs : session[x] # "none" => session'[x] # "none"
    BY <1>1, <2>1 DEF SessionTyped
  <2>5. TaskStands'
    BY <2>3, <2>4 DEF TaskStands
  <2> QED
    BY <1>1, <2>3, <2>5
<1> QED
  BY <1>2, <1>3, <1>4

\* What it makes of the pipes, and the record it may be answered with.
AnswerTo(event, id) == [event |-> event, id |-> id, bytes |-> 0]

LEMMA LoopMoves ==
    ASSUME TypedPairs(pairs), DataTyped, NEW p \in Pairs,
           AnswersQuery(p) \/ RefusesSpeak(p) \/ StartsSpeak(p) \/ HandlesCancel(p)
    PROVE  /\ SameEnds(pairs, pairs')
           /\ \/ /\ sent' = sent
                 /\ DataBut(p, Tail(pairs[p].commands), pairs[p].replies, pairs[p].pcm)
              \/ /\ Connected(p) /\ (AnswersQuery(p) \/ RefusesSpeak(p))
                 /\ \E event \in {"log", "info", "voices", "unknown"}, id \in Nat :
                       /\ AnswersQuery(p) => event # "log" /\ id = 0
                       /\ RefusesSpeak(p) => id = Head(pairs[p].commands).id
                       /\ sent' = Append(sent, AnswerTo(event, id))
                       /\ DataBut(p, Tail(pairs[p].commands),
                                  pairs[p].replies \o Text(Len(sent) + 1, event) \o <<CR, LF>>,
                                  pairs[p].pcm)
<1>1. CASE StartsSpeak(p) \/ HandlesCancel(p)
  BY <1>1, TakenAlone DEF StartsSpeak, HandlesCancel
<1>2. CASE AnswersQuery(p)
  <2> DEFINE event == Head(pairs[p].commands).kind
  <2>1. event \in {"info", "voices", "unknown"} /\ Reply(Taken(p), p, event, 0)
    BY <1>2 DEF AnswersQuery, NextCommand
  <2> HIDE DEF event
  <2>2. ~RefusesSpeak(p) /\ 0 \in Nat
    BY <1>2 DEF AnswersQuery, RefusesSpeak, NextCommand
  <2> QED
    BY <1>2, <2>1, <2>2, ReplyingMoves DEF AnswerTo
<1>3. CASE RefusesSpeak(p)
  <2>1. Reply(Taken(p), p, "log", Head(pairs[p].commands).id)
    BY <1>3 DEF RefusesSpeak
  <2>2. ~AnswersQuery(p) /\ Head(pairs[p].commands).id \in Nat
    BY <1>3, HeadTyped DEF AnswersQuery, RefusesSpeak, NextCommand, Command
  <2> QED
    BY <1>3, <2>1, <2>2, ReplyingMoves DEF AnswerTo
<1> QED
  BY <1>1, <1>2, <1>3

LEMMA RepliesTyped ==
    ASSUME NEW s \in Seq(Nat), NEW k \in Nat, NEW event, NEW end \in Seq(Nat)
    PROVE  s \o Text(k, event) \o end \in Seq(Nat)
BY TextTyped

LEMMA LoopsKeepsSpoken ==
    ASSUME SpokenInv, CrossInv', NEW p \in Pairs, UNCHANGED clientSide,
           AnswersQuery(p) \/ RefusesSpeak(p) \/ StartsSpeak(p) \/ HandlesCancel(p)
    PROVE  SpokenInv'
<1>1. TypedPairs(pairs) /\ SessionTyped /\ task \in TaskType /\ sent \in Seq(Record)
  BY DEF SpokenInv, CrossInv, LifetimeInv, SayingTyped
<1>2. /\ task' \in TaskType /\ TaskStands' /\ task'.pair \in {p, task.pair}
      /\ pairs[p].commands # <<>>
  BY <1>1, LoopTask DEF SpokenInv
<1>3. /\ Head(pairs[p].commands) \in Command /\ Tail(pairs[p].commands) \in Seq(Command)
      /\ pairs[p].replies \in Seq(Nat) /\ pairs[p].pcm \in Seq(Nat) /\ Len(pairs[p].pcm) <= 2
  BY <1>2, HeadTyped DEF SpokenInv, DataTyped
<1>4. UNCHANGED <<client, talk, plan, ioVars>>
  BY DEF clientSide
<1>5. Held \/ Gone
  BY <1>2 DEF SpokenInv, BeforeTalk, Empty
<1>6. /\ SameEnds(pairs, pairs')
      /\ \/ /\ sent' = sent
            /\ DataBut(p, Tail(pairs[p].commands), pairs[p].replies, pairs[p].pcm)
         \/ /\ Connected(p) /\ (AnswersQuery(p) \/ RefusesSpeak(p))
            /\ \E event \in {"log", "info", "voices", "unknown"}, id \in Nat :
                  /\ AnswersQuery(p) => event # "log" /\ id = 0
                  /\ RefusesSpeak(p) => id = Head(pairs[p].commands).id
                  /\ sent' = Append(sent, AnswerTo(event, id))
                  /\ DataBut(p, Tail(pairs[p].commands),
                             pairs[p].replies \o Text(Len(sent) + 1, event) \o <<CR, LF>>,
                             pairs[p].pcm)
  BY <1>1, LoopMoves DEF SpokenInv
<1>7. CASE Gone
  <2>1. Lost(pairs[p].control)
    BY <1>2, <1>7 DEF SpokenInv, AfterTalk
  <2>2. ~Connected(p)
    BY <2>1, EndsDiffer DEF Lost, Connected, Channels
  <2> QED
    BY <1>2, <1>3, <1>4, <1>6, <1>7, <2>2, LateKeepsSpoken
<1>8. CASE Held
  <2>1. p = Home /\ task.pair \in {0, Home}
    BY <1>2, <1>8 DEF SpokenInv, AtHome, Empty
  <2>2. HearingTyped' /\ ReadsStand'
    BY <1>4 DEF SpokenInv, HearingTyped, ReadsStand, ioVars, Talking, Is
  <2>3. CASE sent' = sent /\ DataBut(p, Tail(pairs[p].commands), pairs[p].replies, pairs[p].pcm)
    <3>1. SayingTyped'
      BY <1>2, <1>4, <2>3 DEF SpokenInv, SayingTyped
    <3> QED
      BY <1>2, <1>3, <1>4, <1>6, <1>8, <2>1, <2>2, <2>3, <3>1, HomeKeepsSpoken
  <2>4. CASE \E event \in {"log", "info", "voices", "unknown"}, id \in Nat :
                  /\ AnswersQuery(p) => event # "log" /\ id = 0
                  /\ RefusesSpeak(p) => id = Head(pairs[p].commands).id
                  /\ sent' = Append(sent, AnswerTo(event, id))
                  /\ DataBut(p, Tail(pairs[p].commands),
                             pairs[p].replies \o Text(Len(sent) + 1, event) \o <<CR, LF>>,
                             pairs[p].pcm)
             /\ (AnswersQuery(p) \/ RefusesSpeak(p))
    <3>1. PICK event \in {"log", "info", "voices", "unknown"}, id \in Nat :
                  /\ AnswersQuery(p) => id = 0
                  /\ RefusesSpeak(p) => id = Head(pairs[p].commands).id
                  /\ sent' = Append(sent, AnswerTo(event, id))
                  /\ DataBut(p, Tail(pairs[p].commands),
                             pairs[p].replies \o Text(Len(sent) + 1, event) \o <<CR, LF>>,
                             pairs[p].pcm)
      BY <2>4
    <3>3. AnswerTo(event, id) \in Record
      BY DEF AnswerTo, Record
    <3>4. sent' \in Seq(Record)
      BY <1>1, <3>1, <3>3
    <3>5. SayingTyped'
      BY <1>2, <1>4, <3>4 DEF SpokenInv, SayingTyped
    <3>6. <<CR, LF>> \in Seq(Nat)
      BY DEF CR, LF
    <3> DEFINE end == <<CR, LF>>
               rs == pairs[p].replies \o Text(Len(sent) + 1, event) \o end
    <3> HIDE DEF end
    <3>7. rs \in Seq(Nat)
      <4>1. Len(sent) + 1 \in Nat /\ end \in Seq(Nat)
        BY <1>1, <3>6 DEF end
      <4> QED
        BY <1>3, <4>1, RepliesTyped
    <3>8. DataBut(p, Tail(pairs[p].commands), rs, pairs[p].pcm)
      BY <3>1 DEF end
    <3> HIDE DEF rs
    <3> QED
      BY <1>2, <1>3, <1>4, <1>6, <1>8, <2>1, <2>2, <3>5, <3>7, <3>8, HomeKeepsSpoken
  <2> QED
    BY <1>6, <2>3, <2>4
<1> QED
  BY <1>5, <1>7, <1>8

LEMMA AwaitedKeepsSpoken ==
    ASSUME SpokenInv, CrossInv', NEW p \in Pairs, UNCHANGED clientSide, CancelAwaited(p)
    PROVE  SpokenInv'
<1>1. SessionTyped /\ session[p] = "cancelling" /\ session' = [session EXCEPT ![p] = "reading"]
      /\ UNCHANGED <<pairs, task, sent>>
  BY DEF CancelAwaited, SpokenInv, CrossInv, LifetimeInv
<1>2. \A x \in Pairs : /\ session[x] # "none" => session'[x] # "none"
                       /\ session[x] = "ended" => session'[x] = "ended"
                       /\ session'[x] # "none" => session[x] # "none"
  BY <1>1 DEF SessionTyped
<1>3. PipesGo
  BY <1>1, <1>2 DEF PipesGo, PipeGoes, Connected
<1> QED
  BY <1>1, <1>3, AroundKeepsSpoken DEF clientSide, TalkerMoves, TaskEnds
-----------------------------------------------------------------------------
(* The steps of the task.                                                  *)

Quiet(p) ==
    TaskCancelled(p) \/ EndsText(p) \/ BuffersWord(p) \/ FirstWritten(p) \/ BufferWritten(p)

Says(p) ==
    SaysWord(p) \/ Completes(p) \/ SaysLateBoundary(p) \/ AcknowledgesCancel(p) \/ ReportsError(p)

Sounds(p) == WritesFirst(p) \/ FlushesNext(p) \/ WriteCancelled(p)

LEMMA TaskStepIs ==
    ASSUME NEW p \in Pairs, TaskSteps(p)
    PROVE  Quiet(p) \/ Says(p) \/ Sounds(p) \/ TaskFails(p)
BY DEF TaskSteps, Quiet, Says, Sounds

\* Where the task goes on.
LEMMA TaskGoesIs ==
    ASSUME task \in TaskType, NEW place \in TaskPlaces, TaskGoes(place)
    PROVE  /\ task' \in TaskType /\ task'.place = place
           /\ task'.pair = task.pair /\ task'.id = task.id /\ task'.shape = task.shape
           /\ task'.left = task.left /\ task'.first = task.first
           /\ task'.buffered = task.buffered /\ task'.total = task.total
           /\ task'.written = task.written /\ task'.cancelled = task.cancelled
<1>1. task' = [task EXCEPT !.place = place]
  BY DEF TaskGoes
<1> QED
  BY <1>1 DEF TaskType

\* The fields of the task that do not go with its place.
SameTask ==
    /\ task'.pair = task.pair /\ task'.id = task.id /\ task'.cancelled = task.cancelled
    /\ task' \in TaskType

LEMMA QuietTask ==
    ASSUME task \in TaskType, TaskStands, NEW p \in Pairs, Quiet(p)
    PROVE  /\ SameTask /\ UNCHANGED <<pairs, sent, session>> /\ task.pair = p /\ Connected(p)
           /\ \/ /\ TaskCancelled(p) /\ task.cancelled /\ task'.place = "late"
                 /\ task.place \in {"word", "delay", "complete"}
                 /\ UNCHANGED <<task.left, task.buffered, task.total, task.written>>
              \/ /\ EndsText(p) /\ task.place = "word" /\ task'.place = "complete"
                 /\ UNCHANGED <<task.left, task.buffered, task.total, task.written>>
              \/ /\ BuffersWord(p) /\ task.place = "delay" /\ task'.place = "word"
                 /\ task'.buffered = task.buffered + 1 /\ task'.total = task.total + 2
                 /\ task'.written = task.written
              \/ /\ FirstWritten(p) /\ task.place = "write" /\ task'.place = "word"
                 /\ task'.buffered = task.buffered /\ task'.total = task.total + 2
                 /\ task'.written = task.written + 2 /\ pairs[p].pcm = <<>>
              \/ /\ BufferWritten(p) /\ task.place = "flushing" /\ task'.place = "flush"
                 /\ task'.buffered = task.buffered - 1 /\ task'.total = task.total
                 /\ task'.written = task.written + 2 /\ pairs[p].pcm = <<>>
<1>1. UNCHANGED <<pairs, sent, session>> /\ task.pair = p /\ Connected(p)
  BY DEF Quiet, TaskCancelled, EndsText, BuffersWord, FirstWritten, BufferWritten, Speaks
<1>2. CASE TaskCancelled(p)
  <2>1. TaskGoes("late") /\ "late" \in TaskPlaces /\ task.cancelled
        /\ task.place \in {"word", "delay", "complete"}
    BY <1>2 DEF TaskCancelled, TaskPlaces, Speaks
  <2> QED
    BY <1>1, <1>2, <2>1, TaskGoesIs DEF SameTask
<1>3. CASE EndsText(p)
  <2>1. TaskGoes("complete") /\ "complete" \in TaskPlaces /\ task.place = "word"
    BY <1>3 DEF EndsText, TaskPlaces, Speaks
  <2> QED
    BY <1>1, <1>3, <2>1, TaskGoesIs DEF SameTask
<1>4. CASE BuffersWord(p)
  <2>1. task.place = "delay" /\ task.left >= 1 /\ task.left \in Nat
    BY <1>4 DEF BuffersWord, Speaks, TaskStands, TaskType
  <2>2. task' = [task EXCEPT !.place = "word", !.left = task.left - 1,
                             !.buffered = task.buffered + 1, !.total = task.total + 2]
    BY <1>4 DEF BuffersWord
  <2>3. task.left - 1 \in Nat
    BY <2>1
  <2> QED
    <3>1. task'.place = "word" /\ task'.buffered = task.buffered + 1
          /\ task'.total = task.total + 2 /\ task'.written = task.written
      BY <2>2 DEF TaskType
    <3>2. SameTask
      <4>1. task' = [pair |-> task.pair, id |-> task.id, shape |-> task.shape, place |-> "word",
                   left |-> task.left - 1, first |-> task.first, buffered |-> task.buffered + 1,
                   total |-> task.total + 2, written |-> task.written,
                   cancelled |-> task.cancelled]
        BY <2>2 DEF TaskType
      <4>2. task.buffered \in Nat /\ task.total \in Nat /\ task.written \in Nat
        BY DEF TaskType
      <4>3. task.buffered + 1 \in Nat /\ task.total + 2 \in Nat /\ task.written + 2 \in Nat
        BY <4>2
      <4> QED
        BY <2>3, <4>1, <4>3 DEF SameTask, TaskType, TaskPlaces
    <3> QED
      BY <1>1, <1>4, <2>1, <3>1, <3>2
<1>5. CASE FirstWritten(p)
  <2>1. task.place = "write" /\ task.left >= 1 /\ task.left \in Nat /\ pairs[p].pcm = <<>>
    BY <1>5 DEF FirstWritten, Speaks, TaskStands, TaskType
  <2>2. task' = [task EXCEPT !.place = "word", !.left = task.left - 1, !.first = FALSE,
                             !.total = task.total + 2, !.written = task.written + 2]
    BY <1>5 DEF FirstWritten
  <2>3. task.left - 1 \in Nat
    BY <2>1
  <2> QED
    <3>1. task'.place = "word" /\ task'.buffered = task.buffered
          /\ task'.total = task.total + 2 /\ task'.written = task.written + 2
      BY <2>2 DEF TaskType
    <3>2. SameTask
      <4>1. task' = [pair |-> task.pair, id |-> task.id, shape |-> task.shape, place |-> "word",
                   left |-> task.left - 1, first |-> FALSE, buffered |-> task.buffered,
                   total |-> task.total + 2, written |-> task.written + 2,
                   cancelled |-> task.cancelled]
        BY <2>2 DEF TaskType
      <4>2. task.buffered \in Nat /\ task.total \in Nat /\ task.written \in Nat
        BY DEF TaskType
      <4>3. task.buffered + 1 \in Nat /\ task.total + 2 \in Nat /\ task.written + 2 \in Nat
        BY <4>2
      <4> QED
        BY <2>3, <4>1, <4>3 DEF SameTask, TaskType, TaskPlaces
    <3> QED
      BY <1>1, <1>5, <2>1, <3>1, <3>2
<1>6. CASE BufferWritten(p)
  <2>1. task.place = "flushing" /\ task.buffered >= 1 /\ task.buffered \in Nat
        /\ pairs[p].pcm = <<>>
    BY <1>6 DEF BufferWritten, Speaks, TaskStands, TaskType
  <2>2. task' = [task EXCEPT !.place = "flush", !.buffered = task.buffered - 1,
                             !.written = task.written + 2]
    BY <1>6 DEF BufferWritten
  <2>3. task.buffered - 1 \in Nat
    BY <2>1
  <2> QED
    <3>1. task'.place = "flush" /\ task'.buffered = task.buffered - 1
          /\ task'.total = task.total /\ task'.written = task.written + 2
      BY <2>2 DEF TaskType
    <3>2. SameTask
      <4>1. task' = [pair |-> task.pair, id |-> task.id, shape |-> task.shape, place |-> "flush",
                   left |-> task.left, first |-> task.first, buffered |-> task.buffered - 1,
                   total |-> task.total, written |-> task.written + 2,
                   cancelled |-> task.cancelled]
        BY <2>2 DEF TaskType
      <4>2. task.buffered \in Nat /\ task.total \in Nat /\ task.written \in Nat
        BY DEF TaskType
      <4>3. task.buffered + 1 \in Nat /\ task.total + 2 \in Nat /\ task.written + 2 \in Nat
        BY <4>2
      <4> QED
        BY <2>3, <4>1, <4>3 DEF SameTask, TaskType, TaskPlaces
    <3> QED
      BY <1>1, <1>6, <2>1, <3>1, <3>2
<1> QED
  BY <1>2, <1>3, <1>4, <1>5, <1>6 DEF Quiet

LEMMA SayingTask ==
    ASSUME task \in TaskType, TypedPairs(pairs), NEW p \in Pairs, Says(p)
    PROVE  /\ SameTask /\ UNCHANGED session /\ task.pair = p /\ Connected(p)
           /\ UNCHANGED <<task.left, task.buffered, task.total, task.written>>
           /\ SameEnds(pairs, pairs')
           /\ \E event \in {"word_boundary", "sentence_boundary", "synthesis_complete",
                            "synthesis_cancelled", "error"}, bytes \in Nat :
                 /\ DataBut(p, pairs[p].commands,
                            pairs[p].replies \o Text(Len(sent) + 1, event) \o <<LF>>, pairs[p].pcm)
                 /\ sent' = Append(sent, [event |-> event, id |-> task.id, bytes |-> bytes])
                 /\ \/ /\ event = "word_boundary" /\ task.place = "word"
                       /\ task'.place = "delay" /\ task.left > 0
                    \/ /\ event = "synthesis_complete" /\ task.place = "complete"
                       /\ task'.place = "flush" /\ bytes = task.total
                    \/ /\ event = "sentence_boundary" /\ task.place = "late"
                       /\ task'.place = "ack"
                    \/ /\ event = "synthesis_cancelled" /\ task.place = "ack"
                       /\ task'.place = "done" /\ bytes = task.written
                    \/ event = "error" /\ task.place = "error" /\ task'.place = "done"
<1> DEFINE Events == {"word_boundary", "sentence_boundary", "synthesis_complete",
                      "synthesis_cancelled", "error"}
           Goal(event, bytes) ==
              \/ /\ event = "word_boundary" /\ task.place = "word"
                 /\ task'.place = "delay" /\ task.left > 0
              \/ /\ event = "synthesis_complete" /\ task.place = "complete"
                 /\ task'.place = "flush" /\ bytes = task.total
              \/ /\ event = "sentence_boundary" /\ task.place = "late"
                 /\ task'.place = "ack"
              \/ /\ event = "synthesis_cancelled" /\ task.place = "ack"
                 /\ task'.place = "done" /\ bytes = task.written
              \/ event = "error" /\ task.place = "error" /\ task'.place = "done"
<1>1. UNCHANGED session /\ task.pair = p /\ Connected(p) /\ task.total \in Nat /\ task.written \in Nat
  BY DEF Says, SaysWord, Completes, SaysLateBoundary, AcknowledgesCancel, ReportsError, Speaks,
     TaskType
<1>2. ASSUME NEW event \in Events, NEW bytes \in Nat, NEW place \in TaskPlaces,
             Emit(p, event, bytes), TaskGoes(place), Goal(event, bytes)
      PROVE  /\ SameTask /\ UNCHANGED <<task.left, task.buffered, task.total, task.written>>
             /\ SameEnds(pairs, pairs')
             /\ \E e \in Events, b \in Nat :
                   /\ DataBut(p, pairs[p].commands,
                              pairs[p].replies \o Text(Len(sent) + 1, e) \o <<LF>>, pairs[p].pcm)
                   /\ sent' = Append(sent, [event |-> e, id |-> task.id, bytes |-> b])
                   /\ Goal(e, b)
  <2> HIDE DEF Goal, Events
  <2>1. SameTask /\ UNCHANGED <<task.left, task.buffered, task.total, task.written>>
    BY <1>2, TaskGoesIs DEF SameTask
  <2>2. /\ SameEnds(pairs, pairs')
        /\ DataBut(p, pairs[p].commands,
                   pairs[p].replies \o Text(Len(sent) + 1, event) \o <<LF>>, pairs[p].pcm)
        /\ sent' = Append(sent, [event |-> event, id |-> task.id, bytes |-> bytes])
    BY <1>2, EmittingMoves
  <2> QED
    BY <1>2, <2>1, <2>2
<1>3. \A place \in TaskPlaces : TaskGoes(place) => task'.place = place
  BY TaskGoesIs
<1>4. CASE SaysWord(p)
  <2>1. Emit(p, "word_boundary", 0) /\ TaskGoes("delay") /\ task.place = "word" /\ task.left > 0
        /\ "delay" \in TaskPlaces
    BY <1>4 DEF SaysWord, Speaks, TaskPlaces
  <2>2. Goal("word_boundary", 0) /\ "word_boundary" \in Events /\ 0 \in Nat
    BY <1>3, <2>1
  <2> HIDE DEF Goal, Events
  <2>3. /\ SameTask /\ UNCHANGED <<task.left, task.buffered, task.total, task.written>>
        /\ SameEnds(pairs, pairs')
        /\ \E e \in Events, b \in Nat :
              /\ DataBut(p, pairs[p].commands,
                         pairs[p].replies \o Text(Len(sent) + 1, e) \o <<LF>>, pairs[p].pcm)
              /\ sent' = Append(sent, [event |-> e, id |-> task.id, bytes |-> b])
              /\ Goal(e, b)
    BY <1>2, <2>1, <2>2
  <2> QED
    BY <1>1, <2>3 DEF Goal, Events
<1>5. CASE Completes(p)
  <2>1. Emit(p, "synthesis_complete", task.total) /\ TaskGoes("flush")
        /\ task.place = "complete" /\ "flush" \in TaskPlaces
    BY <1>5 DEF Completes, Speaks, TaskPlaces
  <2>2. Goal("synthesis_complete", task.total) /\ "synthesis_complete" \in Events
    BY <1>3, <2>1
  <2> HIDE DEF Goal, Events
  <2>3. /\ SameTask /\ UNCHANGED <<task.left, task.buffered, task.total, task.written>>
        /\ SameEnds(pairs, pairs')
        /\ \E e \in Events, b \in Nat :
              /\ DataBut(p, pairs[p].commands,
                         pairs[p].replies \o Text(Len(sent) + 1, e) \o <<LF>>, pairs[p].pcm)
              /\ sent' = Append(sent, [event |-> e, id |-> task.id, bytes |-> b])
              /\ Goal(e, b)
    BY <1>1, <1>2, <2>1, <2>2
  <2> QED
    BY <1>1, <2>3 DEF Goal, Events
<1>6. CASE SaysLateBoundary(p)
  <2>1. Emit(p, "sentence_boundary", 0) /\ TaskGoes("ack") /\ task.place = "late"
        /\ "ack" \in TaskPlaces
    BY <1>6 DEF SaysLateBoundary, Speaks, TaskPlaces
  <2>2. Goal("sentence_boundary", 0) /\ "sentence_boundary" \in Events /\ 0 \in Nat
    BY <1>3, <2>1
  <2> HIDE DEF Goal, Events
  <2>3. /\ SameTask /\ UNCHANGED <<task.left, task.buffered, task.total, task.written>>
        /\ SameEnds(pairs, pairs')
        /\ \E e \in Events, b \in Nat :
              /\ DataBut(p, pairs[p].commands,
                         pairs[p].replies \o Text(Len(sent) + 1, e) \o <<LF>>, pairs[p].pcm)
              /\ sent' = Append(sent, [event |-> e, id |-> task.id, bytes |-> b])
              /\ Goal(e, b)
    BY <1>2, <2>1, <2>2
  <2> QED
    BY <1>1, <2>3 DEF Goal, Events
<1>7. CASE AcknowledgesCancel(p)
  <2>1. Emit(p, "synthesis_cancelled", task.written) /\ TaskGoes("done") /\ task.place = "ack"
        /\ "done" \in TaskPlaces
    BY <1>7 DEF AcknowledgesCancel, Speaks, TaskPlaces
  <2>2. Goal("synthesis_cancelled", task.written) /\ "synthesis_cancelled" \in Events
    BY <1>3, <2>1
  <2> HIDE DEF Goal, Events
  <2>3. /\ SameTask /\ UNCHANGED <<task.left, task.buffered, task.total, task.written>>
        /\ SameEnds(pairs, pairs')
        /\ \E e \in Events, b \in Nat :
              /\ DataBut(p, pairs[p].commands,
                         pairs[p].replies \o Text(Len(sent) + 1, e) \o <<LF>>, pairs[p].pcm)
              /\ sent' = Append(sent, [event |-> e, id |-> task.id, bytes |-> b])
              /\ Goal(e, b)
    BY <1>1, <1>2, <2>1, <2>2
  <2> QED
    BY <1>1, <2>3 DEF Goal, Events
<1>8. CASE ReportsError(p)
  <2>1. Emit(p, "error", 0) /\ TaskGoes("done") /\ task.place = "error" /\ "done" \in TaskPlaces
    BY <1>8 DEF ReportsError, Speaks, TaskPlaces
  <2>2. Goal("error", 0) /\ "error" \in Events /\ 0 \in Nat
    BY <1>3, <2>1
  <2> HIDE DEF Goal, Events
  <2>3. /\ SameTask /\ UNCHANGED <<task.left, task.buffered, task.total, task.written>>
        /\ SameEnds(pairs, pairs')
        /\ \E e \in Events, b \in Nat :
              /\ DataBut(p, pairs[p].commands,
                         pairs[p].replies \o Text(Len(sent) + 1, e) \o <<LF>>, pairs[p].pcm)
              /\ sent' = Append(sent, [event |-> e, id |-> task.id, bytes |-> b])
              /\ Goal(e, b)
    BY <1>2, <2>1, <2>2
  <2> QED
    BY <1>1, <2>3 DEF Goal, Events
<1> QED
  BY <1>4, <1>5, <1>6, <1>7, <1>8 DEF Says

LEMMA SoundingTask ==
    ASSUME task \in TaskType, TypedPairs(pairs), NEW p \in Pairs, Sounds(p)
    PROVE  /\ SameTask /\ UNCHANGED <<session, sent>> /\ task.pair = p /\ Connected(p)
           /\ UNCHANGED <<task.left, task.buffered, task.total, task.written>>
           /\ SameEnds(pairs, pairs')
           /\ \/ /\ task.place = "delay" /\ task'.place = "write"
                 /\ DataBut(p, pairs[p].commands, pairs[p].replies, <<task.id, task.id>>)
              \/ /\ task.place = "flush" /\ task'.place = "done" /\ task.buffered = 0
                 /\ DataBut(p, pairs[p].commands, pairs[p].replies, pairs[p].pcm)
              \/ /\ task.place = "flush" /\ task'.place = "late" /\ task.cancelled
                 /\ DataBut(p, pairs[p].commands, pairs[p].replies, pairs[p].pcm)
              \/ /\ task.place = "flush" /\ task'.place = "flushing" /\ task.buffered # 0
                 /\ DataBut(p, pairs[p].commands, pairs[p].replies, <<task.id, task.id>>)
              \/ /\ task.place \in {"write", "flushing"} /\ task'.place = "late" /\ task.cancelled
                 /\ pairs[p].pcm # <<>>
                 /\ DataBut(p, pairs[p].commands, pairs[p].replies, <<>>)
<1>1. UNCHANGED <<session, sent>> /\ task.pair = p /\ Connected(p)
  BY DEF Sounds, WritesFirst, FlushesNext, WriteCancelled, Speaks
<1>2. /\ {"write", "done", "late", "flushing"} \subseteq TaskPlaces
      /\ \A place \in {"write", "done", "late", "flushing"} : TaskGoes(place) =>
            /\ SameTask /\ UNCHANGED <<task.left, task.buffered, task.total, task.written>>
            /\ task'.place = place
  <2>1. {"write", "done", "late", "flushing"} \subseteq TaskPlaces
    BY DEF TaskPlaces
  <2> QED
    BY <2>1, TaskGoesIs DEF SameTask
<1>3. \A v : pairs' = [pairs EXCEPT ![p].pcm = v] =>
         SameEnds(pairs, pairs') /\ DataBut(p, pairs[p].commands, pairs[p].replies, v)
  BY SoundMoves
<1>4. pairs' = pairs =>
         SameEnds(pairs, pairs') /\ DataBut(p, pairs[p].commands, pairs[p].replies, pairs[p].pcm)
  BY DataRests
<1> DEFINE two == <<task.id, task.id>>
           none == <<>>
<1>5. CASE WritesFirst(p)
  <2>1. task.place = "delay" /\ TaskGoes("write") /\ pairs' = [pairs EXCEPT ![p].pcm = two]
    BY <1>5 DEF WritesFirst, Speaks
  <2> HIDE DEF two
  <2>2. SameEnds(pairs, pairs') /\ DataBut(p, pairs[p].commands, pairs[p].replies, two)
    BY <1>3, <2>1
  <2> QED
    BY <1>1, <1>2, <2>1, <2>2 DEF two
<1>6. CASE FlushesNext(p)
  <2>1. task.place = "flush"
    BY <1>6 DEF FlushesNext, Speaks
  <2>2. CASE task.buffered = 0
    BY <1>1, <1>2, <1>4, <1>6, <2>1, <2>2 DEF FlushesNext
  <2>3. CASE task.buffered # 0 /\ task.cancelled
    BY <1>1, <1>2, <1>4, <1>6, <2>1, <2>3 DEF FlushesNext
  <2>4. CASE task.buffered # 0 /\ ~task.cancelled
    <3>1. TaskGoes("flushing") /\ pairs' = [pairs EXCEPT ![p].pcm = two]
      BY <1>6, <2>4 DEF FlushesNext
    <3> HIDE DEF two
    <3>2. SameEnds(pairs, pairs') /\ DataBut(p, pairs[p].commands, pairs[p].replies, two)
      BY <1>3, <3>1
    <3> QED
      BY <1>1, <1>2, <2>1, <2>4, <3>1, <3>2 DEF two
  <2> QED
    BY <2>2, <2>3, <2>4
<1>7. CASE WriteCancelled(p)
  <2>1. /\ task.place \in {"write", "flushing"} /\ task.cancelled /\ pairs[p].pcm # <<>>
        /\ TaskGoes("late") /\ pairs' = [pairs EXCEPT ![p].pcm = none]
    BY <1>7 DEF WriteCancelled, Speaks
  <2> HIDE DEF none
  <2>2. SameEnds(pairs, pairs') /\ DataBut(p, pairs[p].commands, pairs[p].replies, none)
    BY <1>3, <2>1
  <2> QED
    BY <1>1, <1>2, <2>1, <2>2 DEF none
<1> QED
  BY <1>5, <1>6, <1>7 DEF Sounds

LEMMA FailingTask ==
    ASSUME NEW p \in Pairs, TaskFails(p)
    PROVE  /\ task' = [NoTask EXCEPT !.place = "done"] /\ UNCHANGED <<pairs, session, sent>>
           /\ task' \in TaskType /\ TaskStands' /\ task'.pair = 0 /\ task'.id = 0
           /\ task'.place = "done" /\ ~task'.cancelled
           /\ task.pair = p /\ ~Connected(p)
<1>1. /\ task' = [NoTask EXCEPT !.place = "done"] /\ UNCHANGED <<pairs, session, sent>>
      /\ task.pair = p /\ ~Connected(p)
  BY DEF TaskFails
<1> DEFINE r == [pair |-> 0, id |-> 0, shape |-> "none", place |-> "done", left |-> 0,
                 first |-> TRUE, buffered |-> 0, total |-> 0, written |-> 0, cancelled |-> FALSE]
<1>2. task' = r
  BY <1>1 DEF NoTask
<1>3. r \in TaskType
  BY PipesAssumption DEF TaskType, Shapes, TaskPlaces
<1>4. r.pair = 0 /\ r.id = 0 /\ r.place = "done" /\ ~r.cancelled
  OBVIOUS
<1> HIDE DEF r
<1>5. TaskStands'
  BY <1>2, <1>4 DEF TaskStands
<1> QED
  BY <1>1, <1>2, <1>3, <1>4, <1>5

\* Only a task that fails goes on without the talker.
LEMMA TaskIsHome ==
    ASSUME SpokenInv, NEW p \in Pairs, task.pair = p
    PROVE  /\ Held \/ Gone
           /\ Held => p = Home
           /\ Gone => ~Connected(p)
<1>1. task.pair # 0
  BY PipesAssumption DEF Pairs
<1>2. Held \/ Gone
  BY <1>1 DEF SpokenInv, BeforeTalk, TaskStands
<1>3. Held => p = Home
  BY <1>1 DEF SpokenInv, AtHome
<1>4. Gone => Lost(pairs[p].control)
  BY DEF SpokenInv, AfterTalk
<1> QED
  BY <1>2, <1>3, <1>4, EndsDiffer DEF Lost, Connected, Channels

\* A task that goes on stands.
LEMMA StandsOn ==
    ASSUME TaskStands, SameTask, UNCHANGED session, task.pair \in Pairs, task'.place # "none",
           task'.place \in {"delay", "write"} => task'.left >= 1,
           task'.place = "flushing" => task'.buffered >= 1
    PROVE  TaskStands'
<1>1. task.pair # 0
  BY PipesAssumption DEF Pairs
<1>2. session[task.pair] # "none" /\ task.id >= 1
  BY <1>1 DEF TaskStands
<1>3. /\ task'.pair \in Pairs /\ session'[task'.pair] # "none" /\ task'.id >= 1
      /\ task'.pair # 0
  BY <1>1, <1>2 DEF SameTask
<1> QED
  BY <1>3 DEF TaskStands

LEMMA SynthesisKeepsSpoken ==
    ASSUME SpokenInv, CrossInv', NEW p \in Pairs, Synthesizes(p)
    PROVE  SpokenInv'
<1>1. TaskSteps(p) /\ UNCHANGED <<client, talk, plan, ioVars>>
  BY DEF Synthesizes, clientSide
<1>2. TypedPairs(pairs) /\ SessionTyped /\ task \in TaskType /\ sent \in Seq(Record) /\ TaskStands
  BY DEF SpokenInv, CrossInv, LifetimeInv, SayingTyped
<1>3. /\ pairs[p].commands \in Seq(Command) /\ pairs[p].replies \in Seq(Nat)
      /\ pairs[p].pcm \in Seq(Nat) /\ Len(pairs[p].pcm) <= 2
  BY DEF SpokenInv, DataTyped
<1>4. HearingTyped' /\ ReadsStand'
  BY <1>1 DEF SpokenInv, HearingTyped, ReadsStand, ioVars, Talking, Is
<1>5. ASSUME task.pair = p, Connected(p), SameTask, TaskStands', sent' \in Seq(Record),
             SameEnds(pairs, pairs'),
             NEW rs \in Seq(Nat), NEW as \in Seq(Nat), Len(as) <= 2,
             DataBut(p, pairs[p].commands, rs, as)
      PROVE  SpokenInv'
  <2>1. Held /\ p = Home
    BY <1>5, TaskIsHome
  <2>2. SayingTyped' /\ task'.pair \in {0, Home}
    BY <1>1, <1>5, <2>1 DEF SpokenInv, SayingTyped, SameTask
  <2> QED
    BY <1>1, <1>3, <1>4, <1>5, <2>1, <2>2, HomeKeepsSpoken
<1>6. CASE Quiet(p)
  <2>1. /\ SameTask /\ UNCHANGED <<pairs, sent, session>> /\ task.pair = p /\ Connected(p)
        /\ task'.place \in {"late", "complete", "word", "flush"}
    BY <1>2, <1>6, QuietTask
  <2>2. TaskStands'
    BY <1>2, <2>1, StandsOn
  <2>3. SameEnds(pairs, pairs')
        /\ DataBut(p, pairs[p].commands, pairs[p].replies, pairs[p].pcm)
    BY <1>2, <2>1, DataRests
  <2> QED
    BY <1>2, <1>3, <1>5, <2>1, <2>2, <2>3
<1>7. CASE Says(p)
  <2>1. /\ SameTask /\ UNCHANGED session /\ task.pair = p /\ Connected(p)
        /\ UNCHANGED <<task.left, task.buffered, task.total, task.written>>
        /\ SameEnds(pairs, pairs')
    BY <1>2, <1>7, SayingTask
  <2> DEFINE end == <<LF>>
  <2>2. PICK event \in {"word_boundary", "sentence_boundary", "synthesis_complete",
                        "synthesis_cancelled", "error"}, bytes \in Nat :
           /\ DataBut(p, pairs[p].commands,
                      pairs[p].replies \o Text(Len(sent) + 1, event) \o end, pairs[p].pcm)
           /\ sent' = Append(sent, [event |-> event, id |-> task.id, bytes |-> bytes])
           /\ task'.place \in {"delay", "flush", "ack", "done"}
           /\ task'.place = "delay" => task.left > 0
    BY <1>2, <1>7, SayingTask
  <2>3. TaskStands'
    <3>1. task.left \in Nat /\ task'.left = task.left
      BY <1>2, <2>1 DEF TaskType
    <3>2. task'.place = "delay" => task'.left >= 1
      BY <2>2, <3>1
    <3> QED
      BY <1>2, <2>1, <2>2, <3>2, StandsOn
  <2>4. sent' \in Seq(Record)
    <3>1. task.id \in Nat
      BY <1>2 DEF TaskType
    <3>2. [event |-> event, id |-> task.id, bytes |-> bytes] \in Record
      BY <3>1 DEF Record
    <3> QED
      BY <1>2, <2>2, <3>2
  <2> DEFINE rs == pairs[p].replies \o Text(Len(sent) + 1, event) \o end
  <2>5. rs \in Seq(Nat)
    <3>1. Len(sent) + 1 \in Nat /\ end \in Seq(Nat)
      BY <1>2 DEF LF
    <3> HIDE DEF end
    <3> QED
      BY <1>3, <3>1, RepliesTyped
  <2>6. DataBut(p, pairs[p].commands, rs, pairs[p].pcm)
    BY <2>2
  <2> HIDE DEF rs
  <2> QED
    BY <1>3, <1>5, <2>1, <2>3, <2>4, <2>5, <2>6
<1>8. CASE Sounds(p)
  <2> DEFINE two == <<task.id, task.id>>
             none == <<>>
  <2>1. /\ SameTask /\ UNCHANGED <<session, sent>> /\ task.pair = p /\ Connected(p)
        /\ UNCHANGED <<task.left, task.buffered, task.total, task.written>>
        /\ SameEnds(pairs, pairs')
        /\ task'.place = "write" => task.place = "delay"
        /\ task'.place \in {"write", "done", "late", "flushing"}
        /\ task'.place = "flushing" => task.buffered # 0
    BY <1>2, <1>8, SoundingTask
  <2>2. PICK as \in {two, none, pairs[p].pcm} :
           DataBut(p, pairs[p].commands, pairs[p].replies, as)
    BY <1>2, <1>8, SoundingTask
  <2>3. two \in Seq(Nat) /\ none \in Seq(Nat) /\ Len(two) = 2 /\ Len(none) = 0
    BY <1>2 DEF TaskType
  <2> HIDE DEF two, none
  <2>4. as \in Seq(Nat) /\ Len(as) <= 2
    <3>1. Len(two) <= 2 /\ Len(none) <= 2
      BY <2>3
    <3> QED
      BY <1>3, <2>2, <2>3, <3>1
  <2>5. TaskStands'
    <3>1. task.left \in Nat /\ task'.left = task.left /\ task.buffered \in Nat
          /\ task'.buffered = task.buffered
      BY <1>2, <2>1 DEF TaskType
    <3>2. /\ task'.place \in {"delay", "write"} => task'.left >= 1
          /\ task'.place = "flushing" => task'.buffered >= 1
      BY <1>2, <2>1, <3>1 DEF TaskStands
    <3> QED
      BY <1>2, <2>1, <3>2, StandsOn
  <2> QED
    BY <1>2, <1>3, <1>5, <2>1, <2>2, <2>4, <2>5
<1>9. CASE TaskFails(p)
  <2>1. /\ UNCHANGED <<pairs, session, sent>> /\ task' \in TaskType /\ TaskStands'
        /\ task'.pair = 0 /\ task.pair = p
    BY <1>9, FailingTask
  <2>2. SameEnds(pairs, pairs')
        /\ DataBut(p, pairs[p].commands, pairs[p].replies, pairs[p].pcm)
    BY <1>2, <2>1, DataRests
  <2>3. CASE Held
    <3>1. SayingTyped' /\ p = Home
      BY <1>1, <2>1, <2>3, TaskIsHome DEF SpokenInv, SayingTyped
    <3> QED
      BY <1>1, <1>3, <1>4, <2>1, <2>2, <2>3, <3>1, HomeKeepsSpoken
  <2>4. CASE Gone
    BY <1>1, <1>3, <2>1, <2>2, <2>4, LateKeepsSpoken
  <2> QED
    BY <2>1, <2>3, <2>4, TaskIsHome
<1> QED
  BY <1>1, <1>6, <1>7, <1>8, <1>9, TaskStepIs
-----------------------------------------------------------------------------
LEMMA SpokenAtFirst == Init => SpokenInv
<1> SUFFICES ASSUME Init
             PROVE  SpokenInv
  OBVIOUS
<1>1. CrossInv
  BY CrossAtFirst
<1>2. Talker \in Clients /\ client = [c \in Clients |-> NoHandles]
  BY PipesAssumption DEF Init, ClientInit
<1>3. client[Talker].place = "idle"
  BY <1>2 DEF NoHandles
<1>4. ~Held /\ ~Gone /\ ~Is(Talker, "audio")
  BY <1>3 DEF Held, Gone, Is
<1>5. NothingSaid
  BY DEF Init, ClientInit, SynthesisInit, NothingSaid
<1>6. \A p \in Pairs : Empty(p)
  <2> DEFINE e == <<>>
  <2>1. \A p \in Pairs : pairs[p] = [owner |-> NoProcess, control |-> "none", audio |-> "none",
                                     commands |-> e, replies |-> e, pcm |-> e]
    BY DEF Init, PairsInit, NoPair
  <2> HIDE DEF e
  <2>2. \A p \in Pairs : pairs[p].commands = e /\ pairs[p].replies = e /\ pairs[p].pcm = e
    BY <2>1
  <2> QED
    BY <2>2 DEF Empty, e
<1>7. DataTyped
  <2> DEFINE e == <<>>
  <2>1. e \in Seq(Nat) /\ e \in Seq(Command) /\ Len(e) = 0
    OBVIOUS
  <2>2. \A p \in Pairs : pairs[p].commands = e /\ pairs[p].replies = e /\ pairs[p].pcm = e
    BY <1>6 DEF Empty
  <2> HIDE DEF e
  <2>3. Len(e) <= 2
    BY <2>1
  <2> QED
    BY <2>1, <2>2, <2>3 DEF DataTyped
<1>8. task = NoTask /\ plan \in Plans
  BY DEF Init, SynthesisInit
<1>9. task \in TaskType /\ task.pair = 0 /\ task.place = "none" /\ ~task.cancelled /\ task.id = 0
  <2>1. NoTask \in TaskType
    BY PipesAssumption DEF NoTask, TaskType, Shapes, TaskPlaces
  <2> QED
    BY <1>8, <2>1 DEF NoTask
<1>10. SayingTyped
  <2>1. talk \in TalkType
    BY <1>5 DEF NothingSaid, NoTalk, TalkType, TalkFields
  <2>2. sent \in Seq(Record)
    BY <1>5 DEF NothingSaid
  <2> QED
    BY <1>8, <1>9, <2>1, <2>2 DEF SayingTyped
<1>11. HearingTyped
  <2>1. EmptyControlBuffer \in StreamType /\ NoRead \in ReadType
    BY DEF EmptyControlBuffer, StreamType, NoRead, ReadType, ThreadPlaces, Operations
  <2> QED
    BY <1>5, <2>1 DEF NothingSaid, HearingTyped
<1>12. TaskStands /\ HomeStands /\ Silence /\ BeforeTalk /\ AtHome /\ AfterTalk
  BY <1>4, <1>5, <1>6, <1>9 DEF TaskStands, HomeStands, Silence, BeforeTalk, AtHome, AfterTalk
<1>13. ReadsStand
  BY <1>5 DEF NothingSaid, ReadsStand, NoRead
<1> QED
  BY <1>1, <1>7, <1>10, <1>11, <1>12, <1>13 DEF SpokenInv

LEMMA StillSpoken ==
    ASSUME SpokenInv, CrossInv', UNCHANGED vars
    PROVE  SpokenInv'
<1>1. SessionTyped /\ UNCHANGED <<pairs, session, task, sent, client, talk, plan, ioVars>>
  BY DEF SpokenInv, CrossInv, LifetimeInv, vars, ioVars
<1>2. PipesGo
  BY <1>1, PipesRest
<1> QED
  BY <1>1, <1>2, AroundKeepsSpoken DEF TalkerMoves, TaskEnds

LEMMA SpokenStep ==
    ASSUME SpokenInv, [Next]_vars
    PROVE  SpokenInv'
<1>1. CrossInv'
  BY CrossStep DEF SpokenInv
<1>2. ASSUME NEW c \in Clients, Connects(c) \/ Launches(c) \/ Leaves(c) \/ Closes(c)
      PROVE  SpokenInv'
  BY <1>1, <1>2, ConnectsKeepsSpoken, LaunchesKeepsSpoken, LeavesKeepsSpoken,
     OthersCloseKeepsSpoken, TalkerCloseKeepsSpoken
<1>3. CASE Reads \/ AsksInfo \/ GetsInfo \/ SendsSpeak \/ BeginsCancel \/ SendsCancel
  BY <1>1, <1>3, ReadsKeepsSpoken, TalkKeepsSpoken
<1>4. ASSUME NEW q \in Processes, Runs(q)
      PROVE  SpokenInv'
  BY <1>1, <1>4, ProcessKeepsSpoken, ExitsKeepsSpoken DEF Runs
<1>5. ASSUME NEW p \in Pairs, Loops(p)
      PROVE  SpokenInv'
  BY <1>1, <1>5, LoopsKeepsSpoken, AwaitedKeepsSpoken, EndsKeepsSpoken DEF Loops, LoopSteps
<1>6. ASSUME NEW p \in Pairs, Synthesizes(p)
      PROVE  SpokenInv'
  BY <1>1, <1>6, SynthesisKeepsSpoken
<1>7. CASE UNCHANGED vars
  BY <1>1, <1>7, StillSpoken
<1> QED
  BY <1>2, <1>3, <1>4, <1>5, <1>6, <1>7 DEF Next
=============================================================================
