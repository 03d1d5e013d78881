---------------------------- MODULE MCSapiEngine ----------------------------
(***************************************************************************)
(* The environments SapiEngine is model-checked in: each names the conduct *)
(* of the host and of the provider, and the failures, that one run allows. *)
(***************************************************************************)
EXTENDS SapiEngine

\* The host aborts, SAPI refuses audio, the provider reports failed requests.
Cancelling == {"abort", "reject", "error"}

\* The provider departs from its contract, while the host may abort.
Deviating == {"abort"} \cup Deviations

\* The provider may die or fall silent, a session may not come about, memory may
\* run out, and the engine is torn down.
Recovering == {"crash", "createFail", "oom", "teardown", "time"}

\* A direct caller of the worker races Speak and the audio thread to cancel a
\* request, the pipe may refuse the cancel, and the engine is torn down.
Aborting == {"abort", "reject", "direct", "sendFail", "time", "teardown"}

\* The environment of the run that refutes the documented quarantine.
ErrorAfterFault == {"fatal", "error"}
=============================================================================
