------------------------- MODULE PcmDeliveryPolicy -------------------------
(***************************************************************************)
(* The pure decisions the audio thread takes under m_requestMutex:         *)
(* PcmDeliveryPolicy.cpp.                                                  *)
(***************************************************************************)
EXTENDS SpeechStatePolicy

ChunkAction(ctx) ==
    CASE ctx.downstreamState = "Speaking"   -> "AssembleSpeakingAudio"
      [] ctx.downstreamState = "Cancelling" -> "DrainCancellationAudio"
      [] ctx.downstreamState = "Idle"       -> "FaultUnexpectedIdleAudio"
      [] OTHER                              -> "DrainFaultedSessionAudio"

\* Once the total is declared, only bytes inside it are framed.
BytesToFrame(ctx, bytesRead) ==
    LET room == ctx.upstreamTerminalBytes - ctx.rawAudioBytesRead
    IN IF ~ctx.upstreamFinished \/ bytesRead <= room THEN bytesRead
       ELSE IF room > 0 THEN room ELSE 0

\* Mutant: admission is per batch.
SpanAlwaysAllowed(ctx, batchToken) == TRUE

SpanAllowed(ctx, batchToken) ==
    /\ Token(ctx) = batchToken
    /\ ctx.downstreamState = "Speaking"
    /\ ~ctx.faultPending

\* Mutant: the token of the batch is not looked at.
BatchActionForAny(ctx, batchToken, sapiWriteRejected) ==
    IF ctx.downstreamState \in {"Idle", "Faulted"} THEN "IgnoreStaleOrInactive"
    ELSE IF IsDrainingCancellation(ctx) THEN "CheckCancellationBoundary"
    ELSE IF sapiWriteRejected THEN "CreditAndBeginCancellation"
    ELSE "CreditAndCheckBoundary"

BatchAction(ctx, batchToken, sapiWriteRejected) ==
    IF \/ Token(ctx) # batchToken
       \/ ctx.downstreamState \in {"Idle", "Faulted"} THEN "IgnoreStaleOrInactive"
    ELSE IF IsDrainingCancellation(ctx) THEN "CheckCancellationBoundary"
    ELSE IF sapiWriteRejected THEN "CreditAndBeginCancellation"
    ELSE "CreditAndCheckBoundary"

\* Mutant: the last byte counts as an overrun.
FactsOverrunAtEnd(ctx, assemblerHasCarry) ==
    [speakingAudioOverrun |-> ctx.rawAudioBytesRead >= ctx.upstreamTerminalBytes,
     speakingTerminalReached |-> ctx.deliveredAudioBytes = ctx.upstreamTerminalBytes,
     cancellationTerminalReached |-> ctx.rawAudioBytesRead >= ctx.upstreamTerminalBytes]

\* Mutant: bytes read count as bytes delivered.
FactsWhenRead(ctx, assemblerHasCarry) ==
    [speakingAudioOverrun |-> ctx.rawAudioBytesRead > ctx.upstreamTerminalBytes,
     speakingTerminalReached |-> ctx.rawAudioBytesRead = ctx.upstreamTerminalBytes,
     cancellationTerminalReached |-> ctx.rawAudioBytesRead >= ctx.upstreamTerminalBytes]

\* Mutant: the acknowledgement ends a cancellation, drained or not.
FactsWhenAcknowledged(ctx, assemblerHasCarry) ==
    [speakingAudioOverrun |-> ctx.rawAudioBytesRead > ctx.upstreamTerminalBytes,
     speakingTerminalReached |-> ctx.deliveredAudioBytes = ctx.upstreamTerminalBytes,
     cancellationTerminalReached |-> TRUE]

TerminalBoundaryFacts(ctx, assemblerHasCarry) ==
    [speakingAudioOverrun |->
        \/ ctx.rawAudioBytesRead > ctx.upstreamTerminalBytes
        \/ ctx.deliveredAudioBytes > ctx.upstreamTerminalBytes,
     speakingTerminalReached |->
        /\ ctx.rawAudioBytesRead = ctx.upstreamTerminalBytes
        /\ ctx.deliveredAudioBytes = ctx.upstreamTerminalBytes
        /\ ~assemblerHasCarry,
     cancellationTerminalReached |->
        ctx.rawAudioBytesRead >= ctx.upstreamTerminalBytes]

IsTerminalByteCountFrameAligned(bytes, blockAlign) == bytes % blockAlign = 0
=============================================================================
