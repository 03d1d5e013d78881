----------------------------- MODULE PipeClient -----------------------------
(***************************************************************************)
(* PipeClient.cpp.  Connect opens the two pipes by name, launches the      *)
(* provider when its control pipe does not exist, and tries again for a    *)
(* second.  A read is an overlapped operation of the kernel and a thread   *)
(* that waits for it, gives up after a timeout, cancels it and waits for   *)
(* what has become of it; both pipes are read at the same time.            *)
(***************************************************************************)
EXTENDS ProviderPipes

CONSTANTS
    MaxTries,       \* bound: attempts of one Connect
    ChunkBytes,     \* the bytes one read of the control pipe can take
    CompactAt,      \* the read offset from which the buffer is compacted
    MaxRecordBytes, \* the longest record taken for a record
    Faults          \* what may go wrong under CoreEngine

ASSUME ClientAssumption ==
    /\ MaxTries \in Nat \ {0} /\ ChunkBytes \in Nat \ {0}
    /\ CompactAt \in Nat \ {0} /\ MaxRecordBytes \in Nat
    /\ Faults \subseteq {"denied", "launchFails"}

VARIABLES
    client,     \* where each client stands, the pairs its handles are of, the
                \* process it launched and its attempts so far
    io,         \* the talker's read of each pipe: its thread and the kernel
    stream,     \* m_controlBuffer
    lines,      \* history: the lines it was cut into
    heard       \* history: the request of each half read from the audio pipe

ioVars == <<io, stream, lines, heard>>

ClientPlaces == {"idle", "open", "audio", "launch", "waiting", "connected",
                 "failed", "closing", "closed"}

ThreadPlaces == {"idle", "waiting", "reaping", "error"}

Operations == {"none", "pending", "done", "failed", "aborted"}

ClientTypeOK ==
    /\ client \in [Clients -> [place : ClientPlaces, control : 0 .. MaxPairs,
                               audio : 0 .. MaxPairs, own : Processes \cup {NoProcess},
                               tries : 0 .. MaxTries]]
    /\ io \in [Channels -> [thread : ThreadPlaces, kernel : Operations,
                            bytes : Seq(Nat)]]
    /\ stream \in [buffer : Seq(Nat), readOffset : Nat, searchOffset : Nat]
    /\ lines \in Seq(Seq(Nat))
    /\ heard \in Seq(Nat)

NoRead == [thread |-> "idle", kernel |-> "none", bytes |-> <<>>]

NoHandles == [place |-> "idle", control |-> 0, audio |-> 0, own |-> NoProcess, tries |-> 0]

ClientInit ==
    /\ client = [c \in Clients |-> NoHandles]
    /\ io = [k \in Channels |-> NoRead]
    /\ stream = EmptyControlBuffer
    /\ lines = <<>>
    /\ heard = <<>>

Is(c, place) == client[c].place = place
-----------------------------------------------------------------------------
(* Connect: "open" and "audio" lie before the two calls of CreateFile,     *)
(* "launch" before LaunchProviderProcess, "waiting" at the head of the     *)
(* loop.                                                                   *)

ClientGoes(c, place) == client' = [client EXCEPT ![c].place = place]

ConnectReturns(c, place) == client' = [client EXCEPT ![c] = [NoHandles EXCEPT !.place = place]]

\* An attempt has failed and its handles are closed.
AttemptFails(c) == client' = [client EXCEPT ![c].place = "waiting", ![c].control = 0]

BeginConnect(c) ==
    /\ Is(c, "idle")
    /\ client' = [client EXCEPT ![c].place = "open", ![c].tries = 1]
    /\ UNCHANGED <<pairs, proc, ioVars>>

OpensControl(c) ==
    /\ Is(c, "open")
    /\ \E p \in Listening("control") :
          /\ pairs' = [pairs EXCEPT ![p].control = c]
          /\ client' = [client EXCEPT ![c].place = "audio", ![c].control = p]
    /\ UNCHANGED <<proc, ioVars>>

\* ShouldSpawnProvider, when the client has not launched a provider yet.
ShouldSpawnProvider(c) == client[c].own = NoProcess /\ NotFound("control")

ControlUnavailable(c) ==
    /\ Is(c, "open") /\ Listening("control") = {}
    /\ ClientGoes(c, IF ShouldSpawnProvider(c) THEN "launch" ELSE "waiting")
    /\ UNCHANGED <<pairs, proc, ioVars>>

\* Setting the read mode fails if the provider has closed the control pipe.
OpensAudio(c) ==
    /\ Is(c, "audio")
    /\ \E p \in Listening("audio") :
          /\ pairs[client[c].control].control = c
          /\ pairs' = [pairs EXCEPT ![p].audio = c]
          /\ client' = [client EXCEPT ![c] = [NoHandles EXCEPT !.place = "connected",
                                              !.control = client[c].control, !.audio = p]]
    /\ UNCHANGED <<proc, ioVars>>

ModeFails(c) ==
    /\ Is(c, "audio") /\ pairs[client[c].control].control # c
    /\ \E p \in Listening("audio") : pairs' = [pairs EXCEPT ![p].audio = "broken"]
    /\ AttemptFails(c)
    /\ UNCHANGED <<proc, ioVars>>

AudioUnavailable(c) ==
    /\ Is(c, "audio") /\ Listening("audio") = {}
    /\ pairs' = LeftBy(c, pairs)
    /\ AttemptFails(c)
    /\ UNCHANGED <<proc, ioVars>>

Denied(c) ==
    /\ "denied" \in Faults
    /\ Is(c, "open") \/ Is(c, "audio")
    /\ pairs' = LeftBy(c, pairs)
    /\ ConnectReturns(c, "failed")
    /\ UNCHANGED <<proc, ioVars>>

OwnExited(c) == client[c].own # NoProcess /\ proc[client[c].own].place = "exited"

TriesAgain(c) ==
    /\ Is(c, "waiting") /\ ~OwnExited(c)
    /\ client[c].tries < MaxTries
    /\ client' = [client EXCEPT ![c].place = "open", ![c].tries = @ + 1]
    /\ UNCHANGED <<pairs, proc, ioVars>>

\* The second is over, or the launched provider has exited.
GivesUp(c) ==
    /\ Is(c, "waiting")
    /\ ConnectReturns(c, "failed")
    /\ UNCHANGED <<pairs, proc, ioVars>>

LaunchFails(c) ==
    /\ "launchFails" \in Faults
    /\ Is(c, "launch")
    /\ ConnectReturns(c, "failed")
    /\ UNCHANGED <<pairs, proc, ioVars>>

ConnectSteps(c) ==
    \/ BeginConnect(c) \/ OpensControl(c) \/ ControlUnavailable(c) \/ OpensAudio(c)
    \/ ModeFails(c) \/ AudioUnavailable(c) \/ Denied(c) \/ TriesAgain(c) \/ GivesUp(c)
    \/ LaunchFails(c)
-----------------------------------------------------------------------------
(* Overlapped reads.  thread "waiting" is in GetOverlappedResultEx and     *)
(* "reaping", after the timeout and CancelIoEx, in GetOverlappedResult.    *)

Talking == Is(Talker, "connected")

\* The pair the talker's handle of a channel belongs to.
PipeOf(k) == client[Talker][k]

Operation(k) == io[k].kernel

ReadPending(k) ==
    io' = [io EXCEPT ![k] = [thread |-> "waiting", kernel |-> "pending", bytes |-> <<>>]]

\* ReadControlMessageUtf8 reads when the buffer holds no line and has room.
BeginControlRead ==
    /\ Talking /\ io["control"].thread = "idle"
    /\ ~HasLine(stream) /\ UnconsumedBytes(stream) <= MaxRecordBytes
    /\ ReadPending("control")
    /\ stream' = Searched(stream)
    /\ UNCHANGED <<pairs, proc, client, lines, heard>>

BeginAudioRead ==
    /\ Talking /\ io["audio"].thread = "idle"
    /\ ReadPending("audio")
    /\ UNCHANGED <<pairs, proc, client, stream, lines, heard>>

\* The kernel takes what is there, up to the size of the reader's buffer.
ControlArrives ==
    /\ Operation("control") = "pending"
    /\ LET there == pairs[PipeOf("control")].replies
           n == Min({ChunkBytes, Len(there)}) IN
          /\ n > 0
          /\ io' = [io EXCEPT !["control"].kernel = "done",
                              !["control"].bytes = SubSeq(there, 1, n)]
          /\ pairs' = [pairs EXCEPT ![PipeOf("control")].replies = SubSeq(@, n + 1, Len(@))]
    /\ UNCHANGED <<proc, client, stream, lines, heard>>

AudioArrives ==
    /\ Operation("audio") = "pending"
    /\ LET there == pairs[PipeOf("audio")].pcm IN
       \E n \in 1 .. Len(there) :
          /\ io' = [io EXCEPT !["audio"].kernel = "done",
                              !["audio"].bytes = SubSeq(there, 1, n)]
          /\ pairs' = [pairs EXCEPT ![PipeOf("audio")].pcm = SubSeq(@, n + 1, Len(@))]
    /\ UNCHANGED <<proc, client, stream, lines, heard>>

PipeEnds(k) ==
    /\ Operation(k) = "pending"
    /\ pairs[PipeOf(k)][k] # Talker
    /\ k = "control" => pairs[PipeOf(k)].replies = <<>>
    /\ io' = [io EXCEPT ![k].kernel = "failed"]
    /\ UNCHANGED <<pairs, proc, client, stream, lines, heard>>

\* The wait times out and CancelIoEx asks for the cancellation; a completion may
\* have come in between, and may still come first.  Bound: one read at a time.
CancelsRead(k) ==
    /\ io[k].thread = "waiting" /\ Operation(k) = "pending"
    /\ \A j \in Channels : io[j].thread # "reaping"
    /\ io' = [io EXCEPT ![k].thread = "reaping"]
    /\ UNCHANGED <<pairs, proc, client, stream, lines, heard>>

CancellationTakes(k) ==
    /\ io[k].thread = "reaping" /\ Operation(k) = "pending"
    /\ io' = [io EXCEPT ![k].kernel = "aborted"]
    /\ UNCHANGED <<pairs, proc, client, stream, lines, heard>>

\* What the thread does with the bytes of a read that succeeded.
TakesBytes(k) ==
    IF k = "control"
    THEN stream' = AppendChunk(stream, io[k].bytes) /\ heard' = heard
    ELSE heard' = heard \o io[k].bytes /\ stream' = stream

\* Mutant: a read that timed out is reported as a timeout, whatever it read.
ReturnsTimeout(k) ==
    /\ io[k].thread \in {"waiting", "reaping"} /\ Operation(k) # "pending"
    /\ IF Operation(k) = "done" /\ io[k].thread = "waiting"
       THEN TakesBytes(k) ELSE UNCHANGED <<stream, heard>>
    /\ io' = [io EXCEPT ![k] = IF Operation(k) = "failed"
                               THEN [NoRead EXCEPT !.thread = "error"] ELSE NoRead]
    /\ UNCHANGED <<pairs, proc, client, lines>>

\* CompleteOverlappedOperation returns: bytes, a timeout, or an error.
Returns(k) ==
    /\ io[k].thread \in {"waiting", "reaping"} /\ Operation(k) # "pending"
    /\ IF Operation(k) = "done" THEN TakesBytes(k) ELSE UNCHANGED <<stream, heard>>
    /\ io' = [io EXCEPT ![k] = IF Operation(k) = "failed"
                               THEN [NoRead EXCEPT !.thread = "error"] ELSE NoRead]
    /\ UNCHANGED <<pairs, proc, client, lines>>

\* CompactControlBuffer, after a record has been parsed.
Compacted(b) ==
    IF b.readOffset = Len(b.buffer) \/ b.readOffset >= CompactAt THEN Compact(b) ELSE b

TooLong == Len(Line(stream)) > MaxRecordBytes

ReadsMessage ==
    /\ Talking /\ io["control"].thread = "idle"
    /\ HasLine(stream) /\ ~TooLong
    /\ lines' = Append(lines, Line(stream))
    /\ stream' = Compacted(ExtractLine(stream))
    /\ UNCHANGED <<pairs, proc, client, io, heard>>

\* ERROR_BUFFER_OVERFLOW.
Overflows ==
    /\ Talking /\ io["control"].thread = "idle"
    /\ IF HasLine(stream) THEN TooLong ELSE UnconsumedBytes(stream) > MaxRecordBytes
    /\ io' = [io EXCEPT !["control"].thread = "error"]
    /\ UNCHANGED <<pairs, proc, client, stream, lines, heard>>

ReadSteps ==
    \/ BeginControlRead \/ BeginAudioRead \/ ControlArrives \/ AudioArrives
    \/ ReadsMessage \/ Overflows
    \/ \E k \in Channels : \/ PipeEnds(k) \/ CancelsRead(k)
                           \/ CancellationTakes(k) \/ Returns(k)
-----------------------------------------------------------------------------
(* Cancel and the destructor; the worker that reads is joined in between.  *)
(* What a client has read goes with it.                                    *)

CancelsIo(c) ==
    /\ Is(c, "connected") /\ c = Talker
    /\ \E k \in Channels : Operation(k) = "pending"
    /\ ClientGoes(c, "closing")
    /\ io' = [k \in Channels |-> IF Operation(k) = "pending"
                                 THEN [io[k] EXCEPT !.kernel = "aborted"] ELSE io[k]]
    /\ UNCHANGED <<pairs, proc, stream, lines, heard>>

ClosesHandles(c) ==
    /\ Is(c, "connected") \/ Is(c, "closing")
    /\ c = Talker => \A k \in Channels : io[k].thread \in {"idle", "error"}
    /\ pairs' = LeftBy(c, pairs)
    /\ ConnectReturns(c, "closed")
    /\ IF c = Talker
       THEN /\ io' = [k \in Channels |-> NoRead]
            /\ stream' = EmptyControlBuffer /\ lines' = <<>> /\ heard' = <<>>
       ELSE UNCHANGED ioVars
    /\ UNCHANGED proc

SendCommand(c, kind, id, shape) ==
    pairs' = [pairs EXCEPT ![client[c].control].commands =
                  Append(@, [kind |-> kind, id |-> id, shape |-> shape])]
=============================================================================
