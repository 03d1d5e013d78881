--------------------------- MODULE SpeechWorkerV1 ---------------------------
(***************************************************************************)
(* v1/CoreEngine: the SAPI engine object (SapiEngine.cpp), its worker      *)
(* thread (SpeechWorker.cpp) and the provider DLL it holds                 *)
(* (ProviderWrapper.cpp), for several engine objects in one process.  What *)
(* a provider does between ThreadProc's call and its return is in          *)
(* MockProviderV1 and AzureProvider, which come back through the two       *)
(* callbacks.                                                              *)
(***************************************************************************)
EXTENDS Integers, Sequences, FiniteSets

CONSTANTS
    Engines,        \* engine objects, each driven by one host thread
    Dll,            \* the provider DLL of an engine's token: "azure" or "mock"
    Plans,          \* what the hosts will speak: one list of requests, each a
                    \* list of fragments, for every engine
    MaxSpeaks,      \* bound: the longest of those lists
    Faults          \* failures of the environment that may happen

\* The requests of the plans.
Requests == UNION {{plan[e][i] : i \in DOMAIN plan[e]} : plan \in Plans, e \in Engines}

ASSUME PlansAssumption ==
    /\ MaxSpeaks \in Nat
    /\ \A plan \in Plans : \A e \in Engines :
          plan[e] \in Seq(Requests) /\ Len(plan[e]) <= MaxSpeaks

VARIABLES
    eng,    \* each engine: module and entry (ProviderWrapper's handle and its
            \* ProviderSpeak pointer), host (where the host thread is), site,
            \* wantsAbort (SPVES_ABORT), abort, running, thread (SpeechWorker),
            \* request, told (what the site was handed), todo (requests to come)
    call    \* the provider call of each worker thread

Nobody == 0

\* What is wrong with what a site was handed: its Write failed, or an earlier
\* request's synthesis was still going on.
Flaws == {"refused", "mixed"}

Silence == [audio |-> <<>>, words |-> {}, marks |-> <<>>, stray |-> FALSE, flaws |-> {}]

NoCall == [at |-> "out", synth |-> Nobody, frag |-> 1, block |-> 0, ok |-> FALSE]

WorkerTypeOK ==
    /\ \A e \in Engines :
          /\ eng[e].module \in BOOLEAN /\ eng[e].entry \in BOOLEAN
          /\ eng[e].host \in {"new", "ready", "polling", "stopping", "leaving", "gone"}
          /\ eng[e].site \in 0 .. MaxSpeaks /\ Len(eng[e].todo) <= MaxSpeaks
          /\ {eng[e].wantsAbort, eng[e].abort, eng[e].running} \subseteq BOOLEAN
          /\ eng[e].thread \in {"none", "on", "exited"} /\ eng[e].told.flaws \subseteq Flaws
    /\ \A e \in Engines : call[e].at \in
          {"out", "entry", "returned", "mock", "bypass", "acquire", "waiting", "attach",
           "talking"}

WorkerInit ==
    /\ \E plan \in Plans :
         eng = [e \in Engines |->
                [module |-> FALSE, entry |-> FALSE, host |-> "new", site |-> Nobody,
                 wantsAbort |-> FALSE, abort |-> FALSE, running |-> FALSE, thread |-> "none",
                 request |-> <<>>, told |-> Silence,
                 todo |-> plan[e]]]
    /\ call = [e \in Engines |-> NoCall]
-----------------------------------------------------------------------------
(* SetObjectToken with LoadProviderFromToken and ProviderWrapper::Load.    *)
(* The host speaks only through an engine whose token it could set.        *)

Loads(e) ==
    /\ eng[e].host = "new" /\ eng[e].todo # <<>>
    /\ eng' = [eng EXCEPT ![e].module = TRUE, ![e].entry = TRUE, ![e].host = "ready"]
    /\ UNCHANGED call

\* No library, an export missing or another ABI version: SetObjectToken fails
\* and SAPI drops the engine.
FailsToLoad(e) ==
    /\ "badDll" \in Faults /\ eng[e].host = "new" /\ eng[e].todo # <<>>
    /\ eng' = [eng EXCEPT ![e].host = "gone"]
    /\ UNCHANGED call

\* SAPI's actions by the provider's numbers: SPVA_Silence goes through as 1,
\* which is PROVIDER_ACTION_SPELL_OUT.
ProviderFragments(request) ==
    [i \in DOMAIN request |->
       IF request[i].action = "silence" THEN [request[i] EXCEPT !.action = "spellOut"]
       ELSE request[i]]

\* Each Speak call has a site of its own.
NextSite(e) == Len(eng[e].todo)

\* Speak up to the return of m_pWorker->Start.
SpeakStarts(e) ==
    /\ eng[e].host = "ready" /\ eng[e].todo # <<>>
    /\ eng' = [eng EXCEPT ![e].site = NextSite(e), ![e].todo = Tail(@),
                          ![e].request = Head(eng[e].todo), ![e].abort = FALSE,
                          ![e].running = TRUE, ![e].thread = "on",
                          ![e].host = "polling"]
    /\ UNCHANGED call

\* The thread cannot be created: Speak fails with the site still held and
\* m_isRunning set.
SpeakThrows(e) ==
    /\ "noThread" \in Faults
    /\ eng[e].host = "ready" /\ eng[e].todo # <<>>
    /\ eng' = [eng EXCEPT ![e].site = NextSite(e), ![e].todo = Tail(@),
                          ![e].abort = FALSE, ![e].running = TRUE]
    /\ UNCHANGED call

\* The application purges the voice: the site's GetActions will say so.
SapiAborts(e) ==
    /\ eng[e].host = "polling" /\ ~eng[e].wantsAbort
    /\ eng' = [eng EXCEPT ![e].wantsAbort = TRUE]
    /\ UNCHANGED call

Polls(e) ==
    /\ eng[e].host = "polling"
    /\ \/ /\ ~eng[e].running
          /\ eng' = [eng EXCEPT ![e].host = "leaving"]
       \/ /\ eng[e].running /\ eng[e].wantsAbort
          /\ eng' = [eng EXCEPT ![e].host = "stopping", ![e].abort = TRUE]
    /\ UNCHANGED call

\* Mutant: the aborted call returns without waiting for its worker.
LeavesAtOnce(e) ==
    /\ eng[e].host \in {"leaving", "stopping"}
    /\ eng' = [eng EXCEPT ![e].host = "ready", ![e].site = Nobody, ![e].wantsAbort = FALSE]
    /\ UNCHANGED call

\* WaitUntilFinished, the site given back, S_OK.
Leaves(e) ==
    /\ eng[e].host \in {"leaving", "stopping"} /\ eng[e].thread = "exited"
    /\ eng' = [eng EXCEPT ![e].host = "ready", ![e].thread = "none", ![e].site = Nobody,
                          ![e].wantsAbort = FALSE, ![e].request = <<>>,
                          ![e].told = [Silence EXCEPT !.stray = eng[e].told.stray]]
    /\ UNCHANGED call

\* The destructor, after the last request of the plan: Stop, site dropped,
\* WaitUntilFinished, worker, wrapper.
Destroys(e) ==
    /\ eng[e].host = "ready" /\ eng[e].todo = <<>> /\ eng[e].thread # "on"
    /\ eng' = [eng EXCEPT ![e].host = "gone", ![e].abort = TRUE, ![e].site = Nobody,
                          ![e].thread = "none", ![e].module = FALSE, ![e].entry = FALSE]
    /\ UNCHANGED call
-----------------------------------------------------------------------------
(* ThreadProc: into the provider, m_isRunning cleared, out of the thread.  *)

CallsProvider(e) ==
    /\ eng[e].thread = "on" /\ eng[e].running /\ call[e].at = "out"
    /\ call' = [call EXCEPT ![e] = [NoCall EXCEPT !.at = IF eng[e].entry THEN "entry"
                                                         ELSE "returned"]]
    /\ UNCHANGED eng

WorkerFinishes(e) ==
    /\ eng[e].thread = "on"
    /\ \/ /\ call[e].at = "returned" /\ eng[e].running
          /\ eng' = [eng EXCEPT ![e].running = FALSE]
          /\ UNCHANGED call
       \/ /\ call[e].at = "returned" /\ ~eng[e].running
          /\ eng' = [eng EXCEPT ![e].thread = "exited"]
          /\ call' = [call EXCEPT ![e].at = "out"]

Returned(e, ok) == [call EXCEPT ![e] = [NoCall EXCEPT !.at = "returned", !.ok = ok]]
-----------------------------------------------------------------------------
(* The callbacks.  Both are dropped once the abort flag is set; OnAudioData*)
(* also asks the site whether to go on.                                    *)

IsAudio(item) == item.kind = "audio"

Admits(e, item) ==
    /\ ~eng[e].abort /\ eng[e].site # Nobody
    /\ IsAudio(item) => ~eng[e].wantsAbort

\* What site number n of e has received, with the item.
Told(e, n, item) ==
    IF n # eng[e].site THEN [eng[e].told EXCEPT !.stray = TRUE]
    ELSE CASE item.kind = "audio" -> [eng[e].told EXCEPT !.audio = Append(@, item.what)]
           [] item.kind = "word"  -> [eng[e].told EXCEPT !.words = @ \union {item.what}]
           [] OTHER               -> [eng[e].told EXCEPT !.marks = Append(@, item.what)]

Delivers(e, n, item, flaws) ==
    [eng EXCEPT ![e].told = [Told(e, n, item) EXCEPT !.flaws = @ \union flaws]]

\* The site's Write may fail, and OnAudioData then returns false; what
\* AddEvents returns is not looked at.
SiteFlaws(item) ==
    {{}} \union (IF IsAudio(item) /\ "noWrite" \in Faults THEN {{"refused"}} ELSE {})
=============================================================================
