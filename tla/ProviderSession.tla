--------------------------- MODULE ProviderSession --------------------------
(***************************************************************************)
(* Engines with their PipeClients and the mock provider behind the pipes:  *)
(* the connection of several clients at once, and the conversation of one  *)
(* of them, which speaks and cancels in the order CoreEngine does.         *)
(***************************************************************************)
EXTENDS MockSynthesis, PipeClient

CONSTANT Plans      \* the clients that connect, the shapes each request may have,
                    \* whether the system gives the control pipe a buffer, and,
                    \* as a bound, the pairs of instances that are offered

ASSUME PlansAssumption ==
    Plans \subseteq [who : SUBSET Clients, requests : Seq(SUBSET Shapes),
                    buffered : BOOLEAN, offers : Nat]

VARIABLES
    plan,           \* the one of Plans that is played
    talk            \* the talker: greeted with an info reply, the request it
                    \* has made last, the requests it has begun to cancel,
                    \* those whose cancel is not yet sent (pending), and those
                    \* made before the cancel of an earlier one was sent (late)

vars == <<pairs, proc, session, task, sent, client, io, stream, lines, heard, plan, talk>>

TypeOK ==
    /\ PairsTypeOK /\ MockTypeOK /\ SynthesisTypeOK /\ ClientTypeOK
    /\ plan \in Plans
    /\ talk \in [greeted : BOOLEAN, asked : BOOLEAN, id : Nat, cancelled : SUBSET Nat,
                 pending : SUBSET Nat, late : SUBSET Nat]

NoTalk == [greeted |-> FALSE, asked |-> FALSE, id |-> 0, cancelled |-> {}, pending |-> {},
           late |-> {}]

Init ==
    /\ PairsInit /\ MockInit /\ SynthesisInit /\ ClientInit
    /\ plan \in Plans
    /\ talk = NoTalk

conversation == <<session, task, sent, plan, talk>>
-----------------------------------------------------------------------------
(* The records the talker has got, and what they say of a request.         *)

Got == {sent[k] : k \in {i \in DOMAIN sent : Text(i, sent[i].event) \in Range(lines)}}

Count(id, halves) == Cardinality({i \in DOMAIN halves : halves[i] = id})

HalvesOf(id) == Count(id, heard)

\* Reading a half into io takes it from the pipe before it is heard.
TakenOf(id) == HalvesOf(id) + Count(id, io["audio"].bytes)

Ended(id) ==
    \/ id = 0
    \/ \E r \in Got :
          /\ r.id = id
          /\ \/ r.event \in {"synthesis_cancelled", "log"}
             \/ r.event = "synthesis_complete" /\ HalvesOf(id) = r.bytes
-----------------------------------------------------------------------------
(* The engine behind the talker: CreateProviderSessionLocked asks for the  *)
(* format, then Speak sends one request after the other.                   *)

AsksInfo ==
    /\ Talking /\ plan.requests # <<>> /\ ~talk.asked
    /\ SendCommand(Talker, "info", 0, "none")
    /\ talk' = [talk EXCEPT !.asked = TRUE]
    /\ UNCHANGED <<proc, session, task, sent, client, ioVars, plan>>

GetsInfo ==
    /\ Talking /\ ~talk.greeted
    /\ \E r \in Got : r.event = "info"
    /\ talk' = [talk EXCEPT !.greeted = TRUE]
    /\ UNCHANGED <<pairs, proc, session, task, sent, client, ioVars, plan>>

SendsSpeak ==
    /\ Talking /\ talk.greeted
    /\ talk.id < Len(plan.requests) /\ Ended(talk.id)
    /\ \E shape \in plan.requests[talk.id + 1] : SendCommand(Talker, "speak", talk.id + 1, shape)
    /\ talk' = [talk EXCEPT !.id = @ + 1]
    /\ UNCHANGED <<proc, session, task, sent, client, ioVars, plan>>

\* BeginCancellationLocked, by whichever thread asks for it.
BeginsCancel ==
    /\ Talking /\ talk.id \notin talk.cancelled /\ ~Ended(talk.id)
    /\ talk' = [talk EXCEPT !.cancelled = @ \cup {talk.id}, !.pending = @ \cup {talk.id}]
    /\ UNCHANGED <<pairs, proc, session, task, sent, client, ioVars, plan>>

\* SendCancellation, outside the mutex: the request may have ended since, and
\* another thread may have made the next one.
SendsCancel ==
    /\ Talking
    /\ \E id \in talk.pending :
          /\ SendCommand(Talker, "cancel", id, "none")
          /\ talk' = [talk EXCEPT !.pending = @ \ {id},
                                  !.late = IF id = talk.id THEN @ ELSE @ \cup {talk.id}]
    /\ UNCHANGED <<proc, session, task, sent, client, ioVars, plan>>

\* LaunchProviderProcess.
Launches(c) ==
    /\ Is(c, "launch")
    /\ \E q \in Absent :
          /\ proc' = Launched(q)
          /\ client' = [client EXCEPT ![c].place = "waiting", ![c].own = q]
    /\ UNCHANGED <<pairs, ioVars, conversation>>

Connects(c) == c \in plan.who /\ ConnectSteps(c) /\ UNCHANGED conversation

Reads == plan.requests # <<>> /\ ReadSteps /\ UNCHANGED conversation

Leaves(c) == CancelsIo(c) /\ UNCHANGED conversation

Closes(c) ==
    /\ ClosesHandles(c)
    /\ IF c = Talker THEN talk' = NoTalk /\ sent' = <<>> ELSE UNCHANGED <<talk, sent>>
    /\ UNCHANGED <<session, task, plan>>

clientSide == <<client, ioVars, plan, talk>>

Runs(q) ==
    /\ \/ /\ \/ CreatesControl(q) /\ Cardinality(Pairs \ FreePairs) < plan.offers
             \/ CreatesAudio(q) \/ StartsWaits(q) \/ Accepts(q) \/ Opens(q)
             \/ DelayEnds(q) \/ TryTriggerShutdown(q)
          /\ UNCHANGED <<task, sent>>
       \/ ProcessEnds(q)
    /\ UNCHANGED clientSide

\* NamedPipeServerStream asks for no buffer, which the system need not follow.
Unbuffered(p) == pairs[p].control = Talker /\ ~plan.buffered

\* A read of the client's waits for the next record of pair p.
Listens(p) ==
    Unbuffered(p) => pairs[p].replies = <<>> /\ Operation("control") = "pending"

Loops(p) == LoopSteps(p) /\ (sent' = sent \/ Listens(p)) /\ UNCHANGED clientSide

\* WriteControlEventAsync comes back when the record before has been read.
Synthesizes(p) ==
    /\ TaskSteps(p)
    /\ Unbuffered(p) /\ Connected(p) => pairs[p].replies = <<>>
    /\ sent' = sent \/ Listens(p)
    /\ UNCHANGED clientSide

Next ==
    \/ \E c \in Clients : Connects(c) \/ Launches(c) \/ Leaves(c) \/ Closes(c)
    \/ Reads \/ AsksInfo \/ GetsInfo \/ SendsSpeak \/ BeginsCancel \/ SendsCancel
    \/ \E q \in Processes : Runs(q)
    \/ \E p \in Pairs : Loops(p) \/ Synthesizes(p)

Spec == Init /\ [][Next]_vars
-----------------------------------------------------------------------------
(* Properties.                                                             *)

\* However the control stream is cut into reads, whichever line ending a record
\* has, and whatever read is cancelled in the middle, the lines PipeClient hands
\* out are the records the provider wrote, each once and in order; and the
\* buffer holds no more than what is not yet compacted, a record that is not yet
\* complete, and one read.  The state has its types.
FramesAreRecords ==
    /\ TypeOK
    /\ \A i \in DOMAIN lines : i \in DOMAIN sent /\ lines[i] = Text(i, sent[i].event)
    /\ Len(stream.buffer) < CompactAt + MaxRecordBytes + ChunkBytes

\* A request that ran to its end, unharmed, announced the audio it delivered:
\* no cancelled read drops bytes and no buffer is forgotten (total_audio_bytes).
CompletedTotalExact ==
    (task.place = "done" /\ ~task.cancelled) =>
        \A i \in DOMAIN sent :
            (sent[i].event = "synthesis_complete" /\ sent[i].id = task.id) =>
                sent[i].bytes = TakenOf(task.id)

\* What synthesis_cancelled reports is no more than what CoreEngine got, and
\* less by a part of one buffer at most, the one whose write was cancelled.
CancelledTotalWithinOneBuffer ==
    \A i \in DOMAIN sent :
        sent[i].event = "synthesis_cancelled" =>
            TakenOf(sent[i].id) - sent[i].bytes \in {0, 1}

\* After synthesis_cancelled no audio of the request is put on the pipe, and
\* none is left there.
NoAudioAfterCancelAck ==
    \A i \in DOMAIN sent : sent[i].event = "synthesis_cancelled" =>
        \A p \in Pairs : sent[i].id \notin Range(pairs[p].pcm)

\* The byte totals on the control pipe agree with the audio pipe, although
\* reads time out and writes are cancelled half way.
TotalsMatchAudio ==
    CompletedTotalExact /\ CancelledTotalWithinOneBuffer /\ NoAudioAfterCancelAck

\* The handler of "cancel" does not look at speak_id, and cancels whatever task
\* there is.  A request CoreEngine still waits for is ended by a cancel of its
\* own, by the end of its session, or by a cancel that was late: begun for an
\* earlier request, under the mutex, and sent after this one had been made.
\* Nothing else reaches it, no cancel of an earlier request sent in time, nor
\* one a later request has sent behind it.
CancelHitsItsRequest ==
    (Talking /\ task.cancelled /\ ~Ended(task.id)) =>
        task.id \in talk.cancelled \cup talk.late \/ session[task.pair] = "ended"

\* The two pipes of a client are of different sessions only where two providers
\* have been launched under one name: a single provider, which offers one pair
\* at a time, never mixes up its sessions.
CrossedOnlyByDuplicates ==
    \A c \in Clients :
        (Is(c, "connected") /\ client[c].control # client[c].audio) =>
            Cardinality(Absent) < Cardinality(Processes) - 1

Serves(q) ==
    \E p \in Pairs : pairs[p].owner = q /\ session[p] \in {"reading", "cancelling"}

\* The idle timer never shuts a process down that has a session, however late
\* a timer that was replaced gets to the lock.
ServedSessionSurvives ==
    [][\A q \in Processes : (Serves(q) /\ ~proc[q].shutdown) => ~proc'[q].shutdown]_vars

\* A provider without a session will shut itself down, whatever ended its last
\* session and whatever client left its control pipe open half-way: its timer is
\* set, or has done its work.
IdleProviderIsTimed ==
    \A q \in Processes :
        (Running(q) /\ ~Serves(q)) => proc[q].shutdown \/ proc[q].timer # "none"

\* The client's control thread does not read: it has met an error, or the worker
\* it belongs to is going.
ReaderGone == ~Talking \/ io["control"].thread = "error"

ReadsControl ==
    \/ BeginControlRead \/ ControlArrives \/ ReadsMessage \/ Overflows \/ Returns("control")
    \/ PipeEnds("control") \/ CancellationTakes("control")

\* While the loop waits for the task it has cancelled, which keeps it from any
\* further command, the two sides never wait for each other: the task can go on,
\* or it waits for a record to be read and the client's control thread can go on
\* reading.  Neither a synthesis that stalls nor audio that nobody reads holds the
\* task; a client that reads no more but keeps its handles does.
CancelledTaskMoves ==
    \A p \in Pairs :
        (session[p] = "cancelling" /\ ~TaskCompleted /\ ~ReaderGone) =>
            ENABLED Synthesizes(p) \/ ENABLED ReadsControl
=============================================================================
