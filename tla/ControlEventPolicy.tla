------------------------- MODULE ControlEventPolicy ------------------------
(***************************************************************************)
(* Provider control events and the pure decisions taken on them:           *)
(* ControlEventPolicy.cpp.  A parsed event keeps what the decisions tell   *)
(* apart: its kind, its speak_id, whether its numbers were valid           *)
(* (hasValidSpeechOffsets, hasValidTerminalBytes) and the byte total of a  *)
(* terminal event.  "boundary" stands for word_boundary, sentence_boundary *)
(* and bookmark_reached, which are treated alike; "logInfo" for the log    *)
(* severities other than error and fatal; "other" for the legacy           *)
(* "completed" event and for unknown event names; "malformed" for a line   *)
(* of the control pipe that is not JSON.                                   *)
(***************************************************************************)
EXTENDS SpeechStatePolicy

EventType == {"boundary", "complete", "cancelled",
              "logInfo", "logError", "logFatal", "other", "malformed"}

Event == [type : EventType, speakId : Nat, valid : BOOLEAN, bytes : Nat]

IsTerminalEvent(event) == event.type \in {"complete", "cancelled"}

IsLogEvent(event) == event.type \in {"logInfo", "logError", "logFatal"}

\* A usable session: neither faulted nor about to be.
Usable(ctx) ==
    /\ ctx.upstreamState # "Faulted"
    /\ ctx.downstreamState # "Faulted"
    /\ ~ctx.faultPending

EventAction(event, ctx) ==
    IF event.speakId # ctx.speakId THEN "NoLockedAction"
    ELSE IF event.type = "boundary" THEN
        IF event.valid THEN "SpeechBoundary" ELSE "MalformedSpeechBoundary"
    ELSE IF IsTerminalEvent(event) THEN "Terminal"
    ELSE IF event.type = "logError" THEN "RequestErrorLog"
    ELSE IF event.type = "logFatal" THEN "FatalLog"
    ELSE "NoLockedAction"

\* Valid boundaries and terminals of the active request feed the watchdog; log
\* events do not.
RefreshesProgress(event, ctx) ==
    /\ event.speakId = ctx.speakId
    /\ event.type = "boundary" \/ IsTerminalEvent(event)
    /\ event.valid
    /\ ctx.downstreamState \in {"Speaking", "Cancelling"}

\* Evaluated on the context as it is before the event takes effect.
ShouldForwardToSapi(event, ctx) ==
    /\ Usable(ctx)
    /\ (event.speakId = ctx.speakId /\ event.type = "boundary")
         => (event.valid /\ ctx.downstreamState = "Speaking")

\* Mutant: only log events are admitted.
FinalAdmissionOfLogs(event, ctx) == event.speakId = ctx.speakId /\ IsLogEvent(event)

FinalAdmission(event, ctx) ==
    /\ event.speakId = ctx.speakId
    /\ \/ IsLogEvent(event)
       \/ ctx.downstreamState = "Speaking" /\ ~ctx.faultPending
=============================================================================
