--------------------------- MODULE MockProviderV1 ---------------------------
(***************************************************************************)
(* v1/MockProvider/dllmain.cpp: ProviderSpeak on the worker's own thread,  *)
(* five blocks of zeros for each fragment and one event behind them.       *)
(***************************************************************************)
EXTENDS SpeechWorkerV1

CONSTANT Blocks     \* five in the code

MockEnters(e) ==
    /\ Dll[e] = "mock" /\ call[e].at = "entry"
    /\ call' = [call EXCEPT ![e].at = "mock"]
    /\ UNCHANGED eng

Fragment(e) == eng[e].request[call[e].frag]

\* The word or bookmark event of the current fragment.
EventItem(e) ==
    IF Fragment(e).action = "bookmark"
    THEN [kind |-> "mark", what |-> Fragment(e).text]
    ELSE [kind |-> "word", what |-> <<Fragment(e).offset, Fragment(e).offset, 0>>]

\* The loop over the fragments ends, by the end of the list or by the flag.
MockReturns(e) ==
    /\ call[e].at = "mock" /\ call[e].block = 0
    /\ \/ call[e].frag > Len(eng[e].request) /\ call' = Returned(e, TRUE)
       \/ call[e].frag <= Len(eng[e].request) /\ eng[e].abort /\ call' = Returned(e, FALSE)
    /\ UNCHANGED eng

\* One block: a refused block ends the call.  The flag was clear at block 0.
MockWrites(e) ==
    /\ call[e].at = "mock" /\ call[e].frag <= Len(eng[e].request)
    /\ call[e].block = 0 => ~eng[e].abort
    /\ Fragment(e).action # "bookmark" /\ call[e].block < Blocks
    /\ LET block == [kind |-> "audio", what |-> "quiet"] IN
       IF Admits(e, block)
       THEN \E flaws \in SiteFlaws(block) :
               /\ eng' = Delivers(e, eng[e].site, block, flaws)
               /\ call' = IF flaws = {} THEN [call EXCEPT ![e].block = @ + 1]
                          ELSE Returned(e, FALSE)
       ELSE /\ call' = Returned(e, FALSE)
            /\ UNCHANGED eng

MockReports(e) ==
    /\ call[e].at = "mock" /\ call[e].frag <= Len(eng[e].request)
    /\ IF Fragment(e).action = "bookmark" THEN ~eng[e].abort ELSE call[e].block = Blocks
    /\ eng' = IF Admits(e, EventItem(e)) THEN Delivers(e, eng[e].site, EventItem(e), {}) ELSE eng
    /\ call' = [call EXCEPT ![e].frag = @ + 1, ![e].block = 0]

MockSteps(e) == MockEnters(e) \/ MockReturns(e) \/ MockWrites(e) \/ MockReports(e)
=============================================================================
