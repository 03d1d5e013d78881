---------------------------- MODULE MockSynthesis ---------------------------
(***************************************************************************)
(* The conversation of one session of the mock provider: the commands of   *)
(* Program.cs, and the speak task of SynthesisEngine.cs that runs beside   *)
(* the loop that reads them.  An audio buffer is two halves, so that the   *)
(* client may have read a part of a write that is cancelled; a write on    *)
(* the audio pipe is over when the client has read all of it.  A record is *)
(* smaller than what the client reads at a time: on a control pipe without *)
(* a buffer the step that writes it is the moment a read takes it, and the *)
(* writer waits for that where it stands (ProviderSession).  One client    *)
(* talks, so there is one task and one history of records.                 *)
(***************************************************************************)
EXTENDS MockProvider

VARIABLES
    task,       \* SpeakTask, SpeakCts and the SynthesisSessionState
    sent        \* history: the records written to the control pipe

Words == [none |-> 0, empty |-> 0, one |-> 1, two |-> 2, stall |-> 1, bad |-> 0]

TaskPlaces == {"none", "word", "delay", "write", "complete", "flush", "flushing",
               "late", "ack", "error", "done"}

Record == [event : {"info", "voices", "unknown", "log", "error", "word_boundary",
                    "sentence_boundary", "synthesis_complete", "synthesis_cancelled"},
           id : Nat, bytes : Nat]

SynthesisTypeOK ==
    /\ task \in [pair : 0 .. MaxPairs, id : Nat, shape : Shapes, place : TaskPlaces,
                 left : Nat, first : BOOLEAN, buffered : Nat, total : Nat,
                 written : Nat, cancelled : BOOLEAN]
    /\ sent \in Seq(Record)

NoTask == [pair |-> 0, id |-> 0, shape |-> "none", place |-> "none", left |-> 0,
           first |-> TRUE, buffered |-> 0, total |-> 0, written |-> 0, cancelled |-> FALSE]

SynthesisInit == task = NoTask /\ sent = <<>>

TaskCompleted == task.place \in {"none", "done"}
-----------------------------------------------------------------------------
(* Records on the control pipe.  One byte stands for the text of a record; *)
(* an exception's text is longer than any other.                           *)

TextOf(k) == 32 + k

Text(k, event) == [i \in 1 .. IF event = "error" THEN 8 ELSE 1 |-> TextOf(k)]

WriteRecord(ps, p, event, id, bytes, end) ==
    /\ pairs' = [ps EXCEPT ![p].replies = @ \o Text(Len(sent) + 1, event) \o end]
    /\ sent' = Append(sent, [event |-> event, id |-> id, bytes |-> bytes])

\* StreamWriter.WriteLine; the exception of a broken pipe is only printed.
Reply(ps, p, event, id) ==
    IF Connected(p)
    THEN WriteRecord(ps, p, event, id, 0, <<CR, LF>>)
    ELSE pairs' = ps /\ sent' = sent

\* WriteControlEventAsync by the task of pair p.
Emit(p, event, bytes) == WriteRecord(pairs, p, event, task.id, bytes, <<LF>>)
-----------------------------------------------------------------------------
(* ProcessSessionLine: the loop takes the next command.                    *)

Taken(p) == [pairs EXCEPT ![p].commands = Tail(@)]

NextCommand(p, kinds) ==
    /\ session[p] = "reading"
    /\ pairs[p].commands # <<>> /\ Head(pairs[p].commands).kind \in kinds

AnswersQuery(p) ==
    /\ NextCommand(p, {"info", "voices", "unknown"})
    /\ Reply(Taken(p), p, Head(pairs[p].commands).kind, 0)
    /\ UNCHANGED <<proc, session, task>>

RefusesSpeak(p) ==
    /\ NextCommand(p, {"speak"}) /\ ~TaskCompleted
    /\ Reply(Taken(p), p, "log", Head(pairs[p].commands).id)
    /\ UNCHANGED <<proc, session, task>>

\* Mutant: the token source of the last request is used again.
StartsSpeakOnOldToken(p) ==
    /\ NextCommand(p, {"speak"}) /\ TaskCompleted
    /\ LET command == Head(pairs[p].commands) IN
       task' = [NoTask EXCEPT !.pair = p, !.id = command.id, !.shape = command.shape,
                              !.left = Words[command.shape], !.cancelled = task.cancelled,
                              !.place = IF command.shape = "bad" THEN "error" ELSE "word"]
    /\ pairs' = Taken(p)
    /\ UNCHANGED <<proc, session, sent>>

StartsSpeak(p) ==
    /\ NextCommand(p, {"speak"}) /\ TaskCompleted
    /\ LET command == Head(pairs[p].commands) IN
       task' = [NoTask EXCEPT !.pair = p, !.id = command.id, !.shape = command.shape,
                              !.left = Words[command.shape],
                              !.place = IF command.shape = "bad" THEN "error" ELSE "word"]
    /\ pairs' = Taken(p)
    /\ UNCHANGED <<proc, session, sent>>

\* Mutant: the handler waits for the task and does not cancel it.
HandlesCancelByWaiting(p) ==
    /\ NextCommand(p, {"cancel"})
    /\ session' = [session EXCEPT ![p] = IF task.place = "none" THEN @ ELSE "cancelling"]
    /\ pairs' = Taken(p)
    /\ UNCHANGED <<proc, task, sent>>

\* HandleCancel: the loop goes on when the task has ended.
HandlesCancel(p) ==
    /\ NextCommand(p, {"cancel"})
    /\ task' = [task EXCEPT !.cancelled = task.place # "none"]
    /\ session' = [session EXCEPT ![p] = IF task.place = "none" THEN @ ELSE "cancelling"]
    /\ pairs' = Taken(p)
    /\ UNCHANGED <<proc, sent>>

CancelAwaited(p) ==
    /\ session[p] = "cancelling" /\ TaskCompleted
    /\ session' = [session EXCEPT ![p] = "reading"]
    /\ UNCHANGED <<proc, pairs, task, sent>>

\* The end of a session cancels its task.
ConversationEnds(p) ==
    /\ SessionEnds(p)
    /\ task' = IF task.place = "done" /\ task.pair \in {0, p} THEN NoTask
                ELSE [task EXCEPT !.cancelled = @ \/ task.pair = p]
    /\ UNCHANGED sent

ProcessEnds(q) ==
    /\ Exits(q)
    /\ task' = IF task.pair # 0 /\ pairs[task.pair].owner = q
               THEN NoTask ELSE task
    /\ UNCHANGED sent
-----------------------------------------------------------------------------
(* HandleSpeakAsync, from one await to the next.                           *)

Speaks(p, place) ==
    /\ task.pair = p /\ task.place = place
    /\ Connected(p)
    /\ UNCHANGED <<proc, session>>

TaskGoes(place) == task' = [task EXCEPT !.place = place]

\* A cancelled token ends a delay, and keeps an event or a write from starting.
TaskCancelled(p) ==
    /\ \E place \in {"word", "delay", "complete"} : Speaks(p, place)
    /\ task.cancelled
    /\ TaskGoes("late")
    /\ UNCHANGED <<pairs, sent>>

\* Without a text left, and at the next word.
EndsText(p) ==
    /\ Speaks(p, "word") /\ ~task.cancelled /\ task.left = 0
    /\ TaskGoes("complete")
    /\ UNCHANGED <<pairs, sent>>

SaysWord(p) ==
    /\ Speaks(p, "word") /\ ~task.cancelled
    /\ task.left > 0 /\ task.shape # "stall"
    /\ Emit(p, "word_boundary", 0)
    /\ TaskGoes("delay")

\* The first buffer is written at once, the others are kept.
WritesFirst(p) ==
    /\ Speaks(p, "delay") /\ ~task.cancelled /\ task.first
    /\ pairs' = [pairs EXCEPT ![p].pcm = <<task.id, task.id>>]
    /\ TaskGoes("write")
    /\ UNCHANGED sent

BuffersWord(p) ==
    /\ Speaks(p, "delay") /\ ~task.cancelled /\ ~task.first
    /\ task' = [task EXCEPT !.place = "word", !.left = @ - 1, !.buffered = @ + 1, !.total = @ + 2]
    /\ UNCHANGED <<pairs, sent>>

FirstWritten(p) ==
    /\ Speaks(p, "write") /\ pairs[p].pcm = <<>>
    /\ task' = [task EXCEPT !.place = "word", !.left = @ - 1, !.first = FALSE,
                            !.total = @ + 2, !.written = @ + 2]
    /\ UNCHANGED <<pairs, sent>>

Completes(p) ==
    /\ Speaks(p, "complete") /\ ~task.cancelled
    /\ Emit(p, "synthesis_complete", task.total)
    /\ TaskGoes("flush")

FlushesNext(p) ==
    /\ Speaks(p, "flush")
    /\ IF task.buffered = 0
       THEN TaskGoes("done") /\ pairs' = pairs
       ELSE IF task.cancelled
            THEN TaskGoes("late") /\ pairs' = pairs
            ELSE TaskGoes("flushing") /\ pairs' = [pairs EXCEPT ![p].pcm = <<task.id, task.id>>]
    /\ UNCHANGED sent

BufferWritten(p) ==
    /\ Speaks(p, "flushing") /\ pairs[p].pcm = <<>>
    /\ task' = [task EXCEPT !.place = "flush", !.buffered = @ - 1, !.written = @ + 2]
    /\ UNCHANGED <<pairs, sent>>

\* The part of a cancelled write that nobody has read is taken back; the part
\* that was read is not counted in AudioBytesWritten.
WriteCancelled(p) ==
    /\ \E place \in {"write", "flushing"} : Speaks(p, place)
    /\ task.cancelled /\ pairs[p].pcm # <<>>
    /\ pairs' = [pairs EXCEPT ![p].pcm = <<>>]
    /\ TaskGoes("late")
    /\ UNCHANGED sent

\* EmitLateCancellationEvents.
SaysLateBoundary(p) ==
    /\ Speaks(p, "late")
    /\ Emit(p, "sentence_boundary", 0)
    /\ TaskGoes("ack")

AcknowledgesCancel(p) ==
    /\ Speaks(p, "ack")
    /\ Emit(p, "synthesis_cancelled", task.written)
    /\ TaskGoes("done")

\* Fragments that are not an array throw, and the exception is reported.
ReportsError(p) ==
    /\ Speaks(p, "error")
    /\ Emit(p, "error", 0)
    /\ TaskGoes("done")

\* On a pipe that is gone the write fails, and so does that of the log record.
TaskFails(p) ==
    /\ task.pair = p /\ ~TaskCompleted /\ ~Connected(p)
    /\ task' = [NoTask EXCEPT !.place = "done"]
    /\ UNCHANGED <<proc, session, pairs, sent>>

TaskSteps(p) ==
    \/ TaskCancelled(p) \/ EndsText(p) \/ SaysWord(p) \/ WritesFirst(p) \/ BuffersWord(p)
    \/ FirstWritten(p) \/ Completes(p) \/ FlushesNext(p) \/ BufferWritten(p)
    \/ WriteCancelled(p) \/ SaysLateBoundary(p) \/ AcknowledgesCancel(p)
    \/ ReportsError(p) \/ TaskFails(p)

LoopSteps(p) ==
    \/ AnswersQuery(p) \/ RefusesSpeak(p) \/ StartsSpeak(p) \/ HandlesCancel(p)
    \/ CancelAwaited(p) \/ ConversationEnds(p)
=============================================================================
