----------------------------- MODULE MCDllUnload ----------------------------
(***************************************************************************)
(* Threads for model checking DllUnload.                                   *)
(***************************************************************************)
EXTENDS DllUnload

CONSTANTS a1, a2, u1

TwoClients == {a1, a2}
OneUnloader == {u1}
TwoAndOne == {a1, a2, u1}
=============================================================================
