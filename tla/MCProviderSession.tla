------------------------- MODULE MCProviderSession --------------------------
(***************************************************************************)
(* Three plans: both clients connect at the same time and hold their       *)
(* connections, or one of them connects and makes two requests, on a       *)
(* control pipe with a buffer or without.                                  *)
(***************************************************************************)
EXTENDS ProviderSession

CONSTANTS c1, c2, q1, q2

MCPlans ==
    {[who |-> {c1, c2}, requests |-> <<>>, buffered |-> FALSE, offers |-> 4],
     [who |-> {c1}, requests |-> <<{"two", "stall"}, {"empty"}>>, buffered |-> FALSE, offers |-> 1],
     [who |-> {c1}, requests |-> <<{"two", "bad"}, {"empty"}>>, buffered |-> TRUE, offers |-> 1]}
=============================================================================
