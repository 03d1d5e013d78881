------------------------- MODULE SpeechStatePolicy -------------------------
(***************************************************************************)
(* The request context of a SpeechWorker and the pure decisions taken on   *)
(* it under m_requestMutex: SpeechWorkerTypes.h, SpeechStatePolicy.cpp.    *)
(* The cancellation deadline is not a field here: time is modelled by the  *)
(* flags of SpeechWorker (idleElapsed, deadlinePassed).                    *)
(***************************************************************************)
EXTENDS Integers

UpstreamState == {"Idle", "Active", "Completed", "Cancelled", "Failed", "Faulted"}

DownstreamState == {"Idle", "Speaking", "Cancelling", "Faulted"}

\* The results a synchronous caller can be given.
HResult == {"S_OK", "E_FAIL", "E_ABORT", "E_UNEXPECTED", "TIMEOUT"}

Context ==
    [speakId : Nat, generation : Nat,
     upstreamState : UpstreamState, downstreamState : DownstreamState,
     rawAudioBytesRead : Nat, deliveredAudioBytes : Nat,
     upstreamTerminalBytes : Nat, upstreamFinished : BOOLEAN,
     faultPending : BOOLEAN, completionHr : HResult]

FreshContext ==
    [speakId |-> 0, generation |-> 0,
     upstreamState |-> "Idle", downstreamState |-> "Idle",
     rawAudioBytesRead |-> 0, deliveredAudioBytes |-> 0,
     upstreamTerminalBytes |-> 0, upstreamFinished |-> FALSE,
     faultPending |-> FALSE, completionHr |-> "S_OK"]

Token(ctx) == [speakId |-> ctx.speakId, generation |-> ctx.generation]

\* RequestContext::Reset clears everything but the generation.
Reset(ctx) == [FreshContext EXCEPT !.generation = ctx.generation]

\* Forgets any terminal already declared: from here on only a terminal event
\* handled after the transition ends the request.
TransitionToCancelling(ctx) ==
    [ctx EXCEPT !.upstreamFinished = FALSE,
                !.upstreamTerminalBytes = 0,
                !.downstreamState = "Cancelling"]

IsAwaitingTerminalAudio(ctx) ==
    ctx.upstreamFinished /\ ctx.downstreamState = "Speaking"

IsActivelySynthesizing(ctx) == ctx.upstreamState = "Active"

IsDrainingCancellation(ctx) == ctx.downstreamState = "Cancelling"
-----------------------------------------------------------------------------
\* Mutant: only a pending fault refuses a start.
StartAfterFault(ctx) == ~ctx.faultPending

StartAccepted(ctx) ==
    /\ ctx.upstreamState = "Idle"
    /\ ctx.downstreamState = "Idle"
    /\ ~ctx.faultPending

\* The order of the tests is the precedence of the faults.
UpstreamTerminalAction(ctx, hasValidTerminalBytes, isFrameAligned) ==
    IF ctx.upstreamFinished THEN "DuplicateFault"
    ELSE IF ~hasValidTerminalBytes THEN "InvalidBytesFault"
    ELSE IF ~isFrameAligned THEN "MisalignedBytesFault"
    ELSE "Apply"

TerminalBoundaryAction(ctx, facts) ==
    IF ctx.upstreamState = "Failed" THEN "UtteranceFailedReset"
    ELSE IF ~ctx.upstreamFinished THEN "Continue"
    ELSE IF IsAwaitingTerminalAudio(ctx) /\ facts.speakingAudioOverrun
         THEN "OverrunFault"
    ELSE IF IsAwaitingTerminalAudio(ctx) /\ facts.speakingTerminalReached
         THEN "NormalCompleteReset"
    ELSE IF IsDrainingCancellation(ctx) /\ facts.cancellationTerminalReached
         THEN "CancelDrainReset"
    ELSE "Continue"

\* Mutant: a cancellation is begun again while one is draining.
BeginCancellationAgain(ctx) ==
    IF ctx.downstreamState = "Idle" THEN "AlreadyIdle"
    ELSE IF "Faulted" \in {ctx.downstreamState, ctx.upstreamState} THEN "Faulted"
    ELSE "TransitionToCancelling"

BeginCancellationAction(ctx) ==
    IF ctx.downstreamState = "Idle" THEN "AlreadyIdle"
    ELSE IF "Faulted" \in {ctx.downstreamState, ctx.upstreamState} THEN "Faulted"
    ELSE IF IsDrainingCancellation(ctx) THEN "AlreadyCancelling"
    ELSE "TransitionToCancelling"

\* EvaluateStop: there is a request to reset and cancel.
StopResets(ctx) ==
    /\ ctx.downstreamState \notin {"Idle", "Faulted"}
    /\ ctx.upstreamState # "Faulted"

CancellationTimedOut(ctx, deadlinePassed) ==
    IsDrainingCancellation(ctx) /\ deadlinePassed

\* Mutant: the watchdog stops at the declared terminal.
TimedOutWhileSynthesizing(ctx, deadlinePassed, idleElapsed) ==
    /\ ~CancellationTimedOut(ctx, deadlinePassed)
    /\ IsActivelySynthesizing(ctx)
    /\ idleElapsed

\* The cancellation deadline is looked at first, the watchdog second.
InactivityTimedOut(ctx, deadlinePassed, idleElapsed) ==
    /\ ~CancellationTimedOut(ctx, deadlinePassed)
    /\ IsActivelySynthesizing(ctx) \/ IsAwaitingTerminalAudio(ctx)
    /\ idleElapsed

\* Mutant: the wait ends with the declared terminal.
IsWaitDeclared(ctx, exitSignaled) ==
    ctx.downstreamState \in {"Idle", "Faulted"} \/ ctx.upstreamFinished \/ exitSignaled

IsWaitTerminal(ctx, exitSignaled) ==
    ctx.downstreamState \in {"Idle", "Faulted"} \/ exitSignaled
=============================================================================
