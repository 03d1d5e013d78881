---------------------------- MODULE SpeakService ----------------------------
(***************************************************************************)
(* What CSapiEngine promises of a Speak call, and of the request it makes, *)
(* to somebody who sees neither threads nor pipes: calls are answered one  *)
(* at a time, every request has a number of its own, it is started on an   *)
(* idle session only, it ends because the provider said so, because the    *)
(* session faults or because it is stopped, and no call returns before.    *)
(***************************************************************************)
EXTENDS Naturals

CONSTANT Stoppable      \* a direct caller may call SpeechWorker::Stop

VARIABLES
    calling,    \* a Speak call is in progress
    calls,      \* the Speak calls so far
    phase,      \* downstreamState of the session's request
    ended,      \* the provider declared the end of the request
    request     \* its speakId, 0 before the first request of the session

vars == <<calling, calls, phase, ended, request>>

InUse == phase \in {"Speaking", "Cancelling"}

Init ==
    /\ ~calling
    /\ calls = 0
    /\ phase = "Idle"
    /\ ~ended
    /\ request = 0
-----------------------------------------------------------------------------
Calls ==
    /\ ~calling
    /\ calling' = TRUE
    /\ calls' = calls + 1
    /\ UNCHANGED <<phase, ended, request>>

\* A call returns when its request is over, or was never started.
Returns ==
    /\ calling
    /\ ~InUse
    /\ calling' = FALSE
    /\ UNCHANGED <<calls, phase, ended, request>>

\* A session is created, by SetObjectToken or by a call that found none or a
\* faulted one; never under a request in use.
Connects ==
    /\ ~InUse
    /\ phase' = "Idle"
    /\ ended' = FALSE
    /\ request' = 0
    /\ UNCHANGED <<calling, calls>>

\* The call starts its request, which has a number no request had before.
Starts ==
    /\ calling
    /\ phase = "Idle"
    /\ request < calls
    /\ phase' = "Speaking"
    /\ ended' = FALSE
    /\ request' = calls
    /\ UNCHANGED <<calling, calls>>

\* A cancellation forgets an end declared before it.
Cancels ==
    /\ phase = "Speaking"
    /\ phase' = "Cancelling"
    /\ ended' = FALSE
    /\ UNCHANGED <<calling, calls, request>>

\* The end is declared once for each request; it is reached with it or later.
Declares ==
    /\ ~ended /\ request # 0
    /\ ended' = TRUE
    /\ \/ UNCHANGED phase
       \/ InUse /\ phase' = "Idle"
    /\ UNCHANGED <<calling, calls, request>>

\* All that was declared has been delivered or drained.
Drains ==
    /\ InUse /\ ended
    /\ phase' = "Idle"
    /\ UNCHANGED <<calling, calls, ended, request>>

\* The provider logs an error of the request, whatever its phase.
Fails ==
    /\ phase' = "Idle"
    /\ ended' = TRUE
    /\ UNCHANGED <<calling, calls, request>>

Faults ==
    /\ phase' = "Faulted"
    /\ UNCHANGED <<calling, calls, ended, request>>

Stops ==
    /\ Stoppable
    /\ InUse
    /\ phase' = "Idle"
    /\ UNCHANGED <<calling, calls, ended, request>>

Next ==
    \/ Calls \/ Returns \/ Connects \/ Starts
    \/ Cancels \/ Declares \/ Drains \/ Fails \/ Faults \/ Stops

Spec == Init /\ [][Next]_vars
=============================================================================
