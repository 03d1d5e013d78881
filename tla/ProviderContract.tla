-------------------------- MODULE ProviderContract -------------------------
(***************************************************************************)
(* The far end of a session: the control pipe, the audio pipe and the      *)
(* provider behind them.  Providers are separate programs; what they may   *)
(* do is what CoreEngine relies on: one request at a time, whole frames on *)
(* the audio pipe, one synthesis_complete with the exact total (possibly   *)
(* before the audio is written), one synthesis_cancelled with the bytes    *)
(* committed for a cancel that arrives while the request is active.        *)
(* The constant Env switches on what else may happen: departures from the  *)
(* contract and failures of the transport.                                 *)
(***************************************************************************)
EXTENDS PcmFrameAssembler, ControlEventPolicy, FiniteSets

CONSTANTS
    MaxSpeaks,       \* bound: Speak calls made by the host
    Totals,          \* the audio lengths, in bytes, a request may have
    PipeCapacity,    \* bound: bytes the audio pipe holds
    MaxBoundaries,   \* bound: boundary events sent for a request
    MaxDeviations,   \* bound: departures from the contract in a run
    Env              \* the environment behaviours that are switched on

\* Departures of the provider from its contract.
Deviations == {"info", "fatal", "lateError", "duplicate", "badTotal",
               "misaligned", "orphan", "badBoundary", "foreign",
               "malformed", "legacy", "extraAudio"}

\* Everything Env may name: the host's conduct, the failures of the transport
\* and of memory, the passing of time, and the provider's conduct.
EnvBehaviours ==
    {"abort", "reject", "direct", "teardown"}
        \cup {"crash", "sendFail", "createFail", "oom"}
        \cup {"time"}
        \cup {"error"} \cup Deviations

ASSUME ProviderAssumption ==
    /\ MaxSpeaks \in Nat
    /\ Totals \subseteq {n \in Nat : n % BlockAlign = 0}
    /\ PipeCapacity \in Nat
    /\ MaxBoundaries \in Nat
    /\ MaxDeviations \in Nat
    /\ Env \subseteq EnvBehaviours

Ids == 1 .. MaxSpeaks

VARIABLES
    connected,      \* the provider's ends of the pipes are open
    commands,       \* control pipe, towards the provider
    events,         \* control pipe, towards CoreEngine
    audio,          \* audio pipe: for each byte, the request it belongs to
    provider,       \* the provider's side of the session
    promised        \* history: the audio length of each request taken up, and
                    \* the boundary events sent for it

pipeVars == <<connected, commands, events, audio>>
providerVars == <<connected, commands, events, audio, provider, promised>>

Command == [kind : {"sapi_speak", "cancel"}, speakId : 0 .. MaxSpeaks]

Provider ==
    [speakId : 0 .. MaxSpeaks, busy : BOOLEAN, total : Nat, written : Nat,
     declared : BOOLEAN, deviations : Nat]

Promise == [audio : Nat, events : Nat]

IdleProvider ==
    [speakId |-> 0, busy |-> FALSE, total |-> 0, written |-> 0,
     declared |-> FALSE, deviations |-> 0]

EventOf(type, speakId, bytes) ==
    [type |-> type, speakId |-> speakId, valid |-> TRUE, bytes |-> bytes]

Emit(event) == events' = Append(events, event)

\* A request is active until its total is declared and its last byte is
\* committed to the pipe.
Settled(p) == [p EXCEPT !.busy = ~(p.declared /\ p.written = p.total)]
-----------------------------------------------------------------------------
ProviderInit ==
    /\ connected = FALSE
    /\ commands = <<>>
    /\ events = <<>>
    /\ audio = <<>>
    /\ provider = IdleProvider
    /\ promised = [r \in Ids |-> [audio |-> 0, events |-> 0]]

\* A fresh pair of pipes with a provider behind it.
OpenPipes ==
    /\ connected' = TRUE
    /\ commands' = <<>>
    /\ events' = <<>>
    /\ audio' = <<>>
    /\ provider' = [IdleProvider EXCEPT !.deviations = provider.deviations]

ClosePipes ==
    /\ connected' = FALSE
    /\ commands' = <<>>
    /\ events' = <<>>
    /\ audio' = <<>>
    /\ provider' = [provider EXCEPT !.busy = FALSE]

NextCommandIs(kind) == connected /\ commands # <<>> /\ Head(commands).kind = kind

TakesSpeak ==
    /\ NextCommandIs("sapi_speak")
    /\ ~provider.busy
    /\ \E total \in Totals :
        /\ provider' = [IdleProvider EXCEPT
                            !.speakId = Head(commands).speakId, !.busy = TRUE,
                            !.total = total, !.deviations = provider.deviations]
        /\ promised' = [promised EXCEPT ![Head(commands).speakId].audio = total]
    /\ commands' = Tail(commands)
    /\ UNCHANGED <<connected, events, audio>>

\* A second request while one is active is refused with an error log.
RefusesOverlap ==
    /\ NextCommandIs("sapi_speak")
    /\ provider.busy
    /\ Emit(EventOf("logError", Head(commands).speakId, 0))
    /\ commands' = Tail(commands)
    /\ UNCHANGED <<connected, audio, provider, promised>>

WritesFrame ==
    /\ connected
    /\ provider.busy
    /\ provider.written < provider.total
    /\ Len(audio) + BlockAlign <= PipeCapacity
    /\ audio' = audio \o [i \in 1 .. BlockAlign |-> provider.speakId]
    /\ provider' = Settled([provider EXCEPT !.written = @ + BlockAlign])
    /\ UNCHANGED <<connected, commands, events, promised>>

EmitsBoundary ==
    /\ connected
    /\ provider.busy
    /\ ~provider.declared
    /\ promised[provider.speakId].events < MaxBoundaries
    /\ Emit(EventOf("boundary", provider.speakId, 0))
    /\ promised' = [promised EXCEPT ![provider.speakId].events = @ + 1]
    /\ UNCHANGED <<connected, commands, audio, provider>>

DeclaresComplete ==
    /\ connected
    /\ provider.busy
    /\ ~provider.declared
    /\ Emit(EventOf("complete", provider.speakId, provider.total))
    /\ provider' = Settled([provider EXCEPT !.declared = TRUE])
    /\ UNCHANGED <<connected, commands, audio, promised>>

\* An active request is cut short and acknowledged with the bytes committed.
AcknowledgesCancel ==
    /\ NextCommandIs("cancel")
    /\ provider.busy /\ provider.speakId = Head(commands).speakId
    /\ Emit(EventOf("cancelled", provider.speakId, provider.written))
    /\ provider' = [provider EXCEPT !.busy = FALSE]
    /\ commands' = Tail(commands)
    /\ UNCHANGED <<connected, audio, promised>>

\* A request that is over, or another one, is not cancelled.
IgnoresCancel ==
    /\ NextCommandIs("cancel")
    /\ ~(provider.busy /\ provider.speakId = Head(commands).speakId)
    /\ commands' = Tail(commands)
    /\ UNCHANGED <<connected, events, audio, provider, promised>>

\* A request fails before any of its audio is written.
FailsRequest ==
    /\ connected
    /\ "error" \in Env
    /\ provider.busy /\ provider.written = 0 /\ ~provider.declared
    /\ Emit(EventOf("logError", provider.speakId, 0))
    /\ provider' = [provider EXCEPT !.busy = FALSE]
    /\ UNCHANGED <<connected, commands, audio, promised>>

\* What a departure puts on the control pipe, about the last request taken up.
DeviantEvent(kind) ==
    CASE kind = "info"        -> EventOf("logInfo", provider.speakId, 0)
      [] kind = "fatal"       -> EventOf("logFatal", provider.speakId, 0)
      [] kind = "lateError"   -> EventOf("logError", provider.speakId, 0)
      [] kind = "duplicate"   -> EventOf("complete", provider.speakId, provider.total)
      [] kind = "misaligned"  -> EventOf("complete", provider.speakId, provider.total + 1)
      [] kind = "orphan"      -> EventOf("boundary", 0, 0)
      [] kind = "foreign"     -> EventOf("complete", MaxSpeaks + 1, 0)
      [] kind = "legacy"      -> EventOf("other", provider.speakId, 0)
      [] kind = "badTotal"    -> [EventOf("complete", provider.speakId, 0) EXCEPT !.valid = FALSE]
      [] kind = "badBoundary" -> [EventOf("boundary", provider.speakId, 0) EXCEPT !.valid = FALSE]
      [] OTHER                -> [EventOf("other", provider.speakId, 0) EXCEPT !.type = "malformed"]

Deviates ==
    /\ connected
    /\ provider.speakId # 0
    /\ provider.deviations < MaxDeviations
    /\ provider' = [provider EXCEPT !.deviations = @ + 1]
    /\ \/ /\ \E kind \in (Env \cap Deviations) \ {"extraAudio"} : Emit(DeviantEvent(kind))
          /\ UNCHANGED audio
       \/ /\ "extraAudio" \in Env
          /\ Len(audio) + BlockAlign <= PipeCapacity
          /\ audio' = audio \o [i \in 1 .. BlockAlign |-> provider.speakId]
          /\ UNCHANGED events
    /\ UNCHANGED <<connected, commands, promised>>

\* The provider process ends; what it had written may still be read, or not.
Crashes ==
    /\ connected
    /\ "crash" \in Env
    /\ connected' = FALSE
    /\ commands' = <<>>
    /\ provider' = [provider EXCEPT !.busy = FALSE]
    /\ \/ UNCHANGED <<events, audio>>
       \/ events' = <<>> /\ audio' = <<>>
    /\ UNCHANGED promised

ProviderNext ==
    \/ TakesSpeak \/ RefusesOverlap \/ WritesFrame \/ EmitsBoundary
    \/ DeclaresComplete \/ AcknowledgesCancel \/ IgnoresCancel
    \/ FailsRequest \/ Deviates \/ Crashes
=============================================================================
