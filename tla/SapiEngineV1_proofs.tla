------------------------- MODULE SapiEngineV1_proofs -------------------------
(***************************************************************************)
(* The pool of synthesizers and the parameter block of the first version:  *)
(* for any number of engines, requests and synthesizers, any voices and    *)
(* any limit of the pool, whatever fails.                                  *)
(***************************************************************************)
EXTENDS SapiEngineV1, SequenceTheorems, FiniteSetTheorems, TLAPS

-----------------------------------------------------------------------------
(* The engines.  A field whose type no proof needs ranges over its value.  *)

Hosts == {"new", "ready", "polling", "stopping", "leaving", "gone"}

\* A host thread inside Speak.
Speaking == {"polling", "stopping", "leaving"}

Places == {"out", "entry", "returned", "mock", "bypass", "acquire", "waiting", "attach",
           "talking"}

Lists == {q \in Seq(Requests) : Len(q) <= MaxSpeaks}

ToldFields(r) ==
    [audio : {r.audio}, words : {r.words}, marks : {r.marks}, stray : {FALSE},
     flaws : SUBSET Flaws]

EngineFields(r) ==
    [module : BOOLEAN, entry : BOOLEAN, host : Hosts, site : 0..MaxSpeaks,
     wantsAbort : BOOLEAN, abort : BOOLEAN, running : BOOLEAN,
     thread : {"none", "on", "exited"}, request : {r.request},
     told : ToldFields(r.told), todo : Lists]

CallFields(c) ==
    [at : Places, synth : {c.synth}, frag : {c.frag}, block : {c.block}, ok : {c.ok}]

\* A call is made by a thread, a thread belongs to a Speak, and a Speak has its DLL.
EngineSound(r, c) ==
    /\ c.at # "out" => r.thread = "on"
    /\ r.thread # "none" => r.host \in Speaking
    /\ r.host \in Speaking \cup {"ready"} => r.module

EngineInv(r, c) == r \in EngineFields(r) /\ c \in CallFields(c) /\ EngineSound(r, c)

WorkerInv ==
    /\ eng = [e \in Engines |-> eng[e]] /\ call = [e \in Engines |-> call[e]]
    /\ \A e \in Engines : EngineInv(eng[e], call[e])

\* A step of one engine and its call.
OneEngine(e, r, c) == eng' = [eng EXCEPT ![e] = r] /\ call' = [call EXCEPT ![e] = c]

LEMMA OneEngineMoves ==
    ASSUME WorkerInv, NEW e \in Engines, NEW r, NEW c, OneEngine(e, r, c), EngineInv(r, c)
    PROVE  /\ WorkerInv' /\ eng'[e] = r /\ call'[e] = c
           /\ \A f \in Engines \ {e} : eng'[f] = eng[f] /\ call'[f] = call[f]
<1>1. /\ \A f \in Engines : eng'[f] = IF f = e THEN r ELSE eng[f]
      /\ \A f \in Engines : call'[f] = IF f = e THEN c ELSE call[f]
  BY DEF OneEngine, WorkerInv
<1>2. eng' = [f \in Engines |-> eng'[f]] /\ call' = [f \in Engines |-> call'[f]]
  BY DEF OneEngine, WorkerInv
<1>3. \A f \in Engines : EngineInv(eng'[f], call'[f])
  BY <1>1 DEF WorkerInv
<1> QED
  BY <1>1, <1>2, <1>3 DEF WorkerInv

\* The call that is left alone.
LEMMA SameCall ==
    ASSUME WorkerInv, NEW e \in Engines, UNCHANGED call
    PROVE  call' = [call EXCEPT ![e] = call[e]]
BY DEF WorkerInv

LEMMA SameEngine ==
    ASSUME WorkerInv, NEW e \in Engines, UNCHANGED eng
    PROVE  eng' = [eng EXCEPT ![e] = eng[e]]
BY DEF WorkerInv

\* The request that is taken off a list, and the site made for it.
LEMMA ListShrinks ==
    ASSUME NEW q \in Lists, q # <<>>
    PROVE  Tail(q) \in Lists /\ Len(q) \in 0..MaxSpeaks /\ Head(q) \in Requests
<1>1. q \in Seq(Requests) /\ Len(q) <= MaxSpeaks /\ Len(q) \in Nat
  BY LenProperties DEF Lists
<1>2. Tail(q) \in Seq(Requests) /\ Len(Tail(q)) = Len(q) - 1 /\ Head(q) \in Requests
  BY <1>1
<1>3. MaxSpeaks \in Nat
  BY PlansAssumption
<1> QED
  BY <1>1, <1>2, <1>3 DEF Lists
-----------------------------------------------------------------------------
(* The host thread. *)

\* A call that has a synthesizer keeps it, and its site; no other call gets one.
KeepsHolders ==
    \A f \in Engines :
       IF call[f].at \in {"attach", "talking"}
       THEN call'[f] = call[f] /\ eng'[f].site = eng[f].site
       ELSE call'[f].at \notin {"attach", "talking"}

LEMMA EngineKeepsHolders ==
    ASSUME WorkerInv, NEW e \in Engines, NEW r, NEW c, OneEngine(e, r, c), EngineInv(r, c),
           IF call[e].at \in {"attach", "talking"}
           THEN c = call[e] /\ r.site = eng[e].site
           ELSE c.at \notin {"attach", "talking"}
    PROVE  WorkerInv' /\ KeepsHolders
<1>1. /\ WorkerInv' /\ eng'[e] = r /\ call'[e] = c
      /\ \A f \in Engines \ {e} : eng'[f] = eng[f] /\ call'[f] = call[f]
  BY OneEngineMoves
<1> QED
  BY <1>1 DEF KeepsHolders

LEMMA HostStepMoves ==
    ASSUME WorkerInv, NEW e \in Engines, NEW r,
           eng' = [eng EXCEPT ![e] = r], call' = call, EngineInv(r, call[e]),
           call[e].at # "out" => r.site = eng[e].site
    PROVE  WorkerInv' /\ KeepsHolders
<1>1. OneEngine(e, r, call[e])
  BY SameCall DEF OneEngine
<1> QED
  BY <1>1, EngineKeepsHolders

LEMMA CallStepMoves ==
    ASSUME WorkerInv, NEW e \in Engines, NEW c, call' = [call EXCEPT ![e] = c], eng' = eng,
           EngineInv(eng[e], c), call[e].at \notin {"attach", "talking"},
           c.at \notin {"attach", "talking"}
    PROVE  WorkerInv' /\ KeepsHolders
<1>1. OneEngine(e, eng[e], c)
  BY SameEngine DEF OneEngine
<1> QED
  BY <1>1, EngineKeepsHolders

LEMMA HostChoicesMove ==
    ASSUME WorkerInv, NEW e \in Engines, HostChoices(e) \/ HostSteps(e)
    PROVE  WorkerInv' /\ KeepsHolders
<1> DEFINE r == eng[e]
           c == call[e]
<1>0. r \in EngineFields(r) /\ c \in CallFields(c) /\ EngineSound(r, c)
      /\ eng = [f \in Engines |-> eng[f]]
  BY DEF WorkerInv, EngineInv
<1>9. Nobody \in 0..MaxSpeaks
  BY PlansAssumption DEF Nobody
<1>1. CASE Loads(e)
  <2> DEFINE q == [r EXCEPT !.module = TRUE, !.entry = TRUE, !.host = "ready"]
  <2>1. eng' = [eng EXCEPT ![e] = q] /\ call' = call /\ r.host = "new"
    BY <1>0, <1>1 DEF Loads
  <2> HIDE DEF r, c
  <2>2. q \in EngineFields(q)
    BY <1>0 DEF EngineFields, ToldFields, Hosts
  <2>3. EngineSound(q, c) /\ q.site = r.site
    BY <1>0, <2>1 DEF EngineFields, EngineSound, Speaking
  <2> HIDE DEF q
  <2> QED
    BY <1>0, <2>1, <2>2, <2>3, HostStepMoves DEF EngineInv, r, c
<1>2. CASE FailsToLoad(e)
  <2> DEFINE q == [r EXCEPT !.host = "gone"]
  <2>1. eng' = [eng EXCEPT ![e] = q] /\ call' = call /\ r.host = "new"
    BY <1>0, <1>2 DEF FailsToLoad
  <2> HIDE DEF r, c
  <2>2. q \in EngineFields(q)
    BY <1>0 DEF EngineFields, ToldFields, Hosts
  <2>3. EngineSound(q, c) /\ q.site = r.site
    BY <1>0, <2>1 DEF EngineFields, EngineSound, Speaking
  <2> HIDE DEF q
  <2> QED
    BY <1>0, <2>1, <2>2, <2>3, HostStepMoves DEF EngineInv, r, c
<1>3. CASE SpeakStarts(e)
  <2> DEFINE q == [r EXCEPT !.site = Len(r.todo), !.todo = Tail(r.todo),
                            !.request = Head(r.todo), !.abort = FALSE,
                            !.running = TRUE, !.thread = "on", !.host = "polling"]
  <2>1. eng' = [eng EXCEPT ![e] = q] /\ call' = call /\ r.host = "ready" /\ r.todo # <<>>
    BY <1>0, <1>3 DEF SpeakStarts, NextSite
  <2> HIDE DEF r, c
  <2>2. r.todo \in Lists
    BY <1>0 DEF EngineFields
  <2>3. Tail(r.todo) \in Lists /\ Len(r.todo) \in 0..MaxSpeaks
    BY <2>1, <2>2, ListShrinks
  <2>4. q \in EngineFields(q)
    BY <1>0, <2>3 DEF EngineFields, ToldFields, Hosts
  <2>5. EngineSound(q, c) /\ c.at = "out"
    BY <1>0, <2>1 DEF EngineFields, EngineSound, Speaking
  <2> HIDE DEF q
  <2> QED
    BY <1>0, <2>1, <2>4, <2>5, HostStepMoves DEF EngineInv, r, c
<1>4. CASE SpeakThrows(e)
  <2> DEFINE q == [r EXCEPT !.site = Len(r.todo), !.todo = Tail(r.todo),
                            !.abort = FALSE, !.running = TRUE]
  <2>1. eng' = [eng EXCEPT ![e] = q] /\ call' = call /\ r.host = "ready" /\ r.todo # <<>>
    BY <1>0, <1>4 DEF SpeakThrows, NextSite
  <2> HIDE DEF r, c
  <2>2. r.todo \in Lists
    BY <1>0 DEF EngineFields
  <2>3. Tail(r.todo) \in Lists /\ Len(r.todo) \in 0..MaxSpeaks
    BY <2>1, <2>2, ListShrinks
  <2>4. q \in EngineFields(q)
    BY <1>0, <2>3 DEF EngineFields, ToldFields, Hosts
  <2>5. EngineSound(q, c) /\ c.at = "out"
    BY <1>0, <2>1 DEF EngineFields, EngineSound, Speaking
  <2> HIDE DEF q
  <2> QED
    BY <1>0, <2>1, <2>4, <2>5, HostStepMoves DEF EngineInv, r, c
<1>5. CASE SapiAborts(e)
  <2> DEFINE q == [r EXCEPT !.wantsAbort = TRUE]
  <2>1. eng' = [eng EXCEPT ![e] = q] /\ call' = call
    BY <1>0, <1>5 DEF SapiAborts
  <2> HIDE DEF r, c
  <2>2. q \in EngineFields(q)
    BY <1>0 DEF EngineFields, ToldFields, Hosts
  <2>3. EngineSound(q, c) /\ q.site = r.site
    BY <1>0 DEF EngineFields, EngineSound, Speaking
  <2> HIDE DEF q
  <2> QED
    BY <1>0, <2>1, <2>2, <2>3, HostStepMoves DEF EngineInv, r, c
<1>6. CASE Polls(e)
  <2> DEFINE q == [r EXCEPT !.host = "leaving"]
             p == [r EXCEPT !.host = "stopping", !.abort = TRUE]
  <2>1. /\ eng' = [eng EXCEPT ![e] = q] \/ eng' = [eng EXCEPT ![e] = p]
        /\ call' = call /\ r.host = "polling"
    BY <1>0, <1>6 DEF Polls
  <2> HIDE DEF r, c
  <2>2. q \in EngineFields(q) /\ p \in EngineFields(p)
    BY <1>0 DEF EngineFields, ToldFields, Hosts
  <2>3. /\ EngineSound(q, c) /\ q.site = r.site
        /\ EngineSound(p, c) /\ p.site = r.site
    BY <1>0, <2>1 DEF EngineFields, EngineSound, Speaking
  <2> HIDE DEF p, q
  <2> QED
    BY <1>0, <2>1, <2>2, <2>3, HostStepMoves DEF EngineInv, r, c
<1>7. CASE Leaves(e)
  <2> DEFINE t == [Silence EXCEPT !.stray = r.told.stray]
             q == [r EXCEPT !.host = "ready", !.thread = "none", !.site = Nobody,
                            !.wantsAbort = FALSE, !.request = <<>>, !.told = t]
  <2>1. /\ eng' = [eng EXCEPT ![e] = q] /\ call' = call
        /\ r.thread = "exited"
    BY <1>0, <1>7 DEF Leaves
  <2> HIDE DEF r, c
  <2>2. t \in ToldFields(t)
    BY <1>0 DEF EngineFields, ToldFields, Silence
  <2> HIDE DEF t
  <2>3. q \in EngineFields(q)
    BY <1>0, <1>9, <2>2 DEF EngineFields, Hosts
  <2>4. EngineSound(q, c) /\ c.at = "out"
    BY <1>0, <2>1 DEF EngineFields, EngineSound, Speaking
  <2> HIDE DEF q
  <2> QED
    BY <1>0, <2>1, <2>3, <2>4, HostStepMoves DEF EngineInv, r, c
<1>8. CASE Destroys(e)
  <2> DEFINE q == [r EXCEPT !.host = "gone", !.abort = TRUE, !.site = Nobody,
                            !.thread = "none", !.module = FALSE, !.entry = FALSE]
  <2>1. eng' = [eng EXCEPT ![e] = q] /\ call' = call /\ r.thread # "on"
    BY <1>0, <1>8 DEF Destroys
  <2> HIDE DEF r, c
  <2>2. q \in EngineFields(q)
    BY <1>0, <1>9 DEF EngineFields, ToldFields, Hosts
  <2>3. EngineSound(q, c) /\ c.at = "out"
    BY <1>0, <2>1 DEF EngineFields, EngineSound, Speaking
  <2> HIDE DEF q
  <2> QED
    BY <1>0, <2>1, <2>2, <2>3, HostStepMoves DEF EngineInv, r, c
<1> QED
  BY <1>1, <1>2, <1>3, <1>4, <1>5, <1>6, <1>7, <1>8 DEF HostChoices, HostSteps
-----------------------------------------------------------------------------
(* The worker thread, and the mock provider on it. *)

\* A thread that is in a call stays in one, or returns.
LEMMA CallGoesOn ==
    ASSUME WorkerInv, NEW e \in Engines, NEW c, c \in CallFields(c),
           c.at = "out" \/ eng[e].thread = "on"
    PROVE  EngineInv(eng[e], c)
BY DEF WorkerInv, EngineInv, EngineSound

FlawSets == SUBSET Flaws

\* What is delivered to the site that is the engine's own is not stray.
LEMMA DeliveredHere ==
    ASSUME WorkerInv, NEW e \in Engines, NEW item, NEW flaws,
           flaws \in FlawSets
    PROVE  \E r : /\ Delivers(e, eng[e].site, item, flaws) = [eng EXCEPT ![e] = r]
                  /\ r \in EngineFields(r) /\ r.site = eng[e].site
                  /\ \A c : EngineSound(eng[e], c) => EngineSound(r, c)
<1> DEFINE r == eng[e]
           t == Told(e, r.site, item)
           u == [t EXCEPT !.flaws = t.flaws \cup flaws]
           q == [r EXCEPT !.told = u]
<1>1. r \in EngineFields(r) /\ eng = [f \in Engines |-> eng[f]]
  BY DEF WorkerInv, EngineInv
<1>2. Delivers(e, eng[e].site, item, flaws) = [eng EXCEPT ![e] = q]
  BY <1>1 DEF Delivers
<1>3. r.told \in ToldFields(r.told)
  BY <1>1 DEF EngineFields
<1>4. \/ t = [r.told EXCEPT !.audio = Append(r.told.audio, item.what)]
      \/ t = [r.told EXCEPT !.words = r.told.words \cup {item.what}]
      \/ t = [r.told EXCEPT !.marks = Append(r.told.marks, item.what)]
  <2>1. CASE item.kind = "audio"
    BY <1>3, <2>1 DEF Told
  <2>2. CASE item.kind = "word"
    BY <1>3, <2>2 DEF Told
  <2>3. CASE item.kind \notin {"audio", "word"}
    <3>1. t = CASE item.kind = "audio" -> [r.told EXCEPT !.audio = Append(@, item.what)]
                [] item.kind = "word"  -> [r.told EXCEPT !.words = @ \union {item.what}]
                [] OTHER               -> [r.told EXCEPT !.marks = Append(@, item.what)]
      BY DEF Told
    <3> QED
      BY <2>3, <3>1
  <2> QED
    BY <2>1, <2>2, <2>3
<1> HIDE DEF t, r
<1>5. t \in ToldFields(t)
  BY <1>3, <1>4 DEF ToldFields
<1>8. u \in ToldFields(u)
  BY <1>5 DEF ToldFields, FlawSets
<1> HIDE DEF u
<1>6. q \in EngineFields(q) /\ q.site = r.site
  BY <1>1, <1>8 DEF EngineFields
<1>7. \A c : EngineSound(r, c) => EngineSound(q, c)
  BY <1>1 DEF EngineSound, EngineFields
<1> HIDE DEF q
<1> QED
  BY <1>2, <1>6, <1>7 DEF r

\* CallsProvider and WorkerFinishes.
LEMMA WorkerStepsMove ==
    ASSUME WorkerInv, NEW e \in Engines, WorkerSteps(e)
    PROVE  WorkerInv' /\ KeepsHolders
<1> DEFINE r == eng[e]
           c == call[e]
<1>0. r \in EngineFields(r) /\ c \in CallFields(c) /\ EngineSound(r, c)
      /\ eng = [f \in Engines |-> eng[f]] /\ call = [f \in Engines |-> call[f]]
  BY DEF WorkerInv, EngineInv
<1>1. CASE CallsProvider(e)
  <2>1. PICK place \in {"entry", "returned"} :
           call' = [call EXCEPT ![e] = [NoCall EXCEPT !.at = place]]
    BY <1>1 DEF CallsProvider
  <2>2. eng' = eng /\ r.thread = "on" /\ c.at = "out"
    BY <1>1 DEF CallsProvider
  <2> DEFINE d == [NoCall EXCEPT !.at = place]
  <2>3. d \in CallFields(d) /\ d.at \notin {"attach", "talking"}
    BY DEF CallFields, NoCall, Places
  <2> HIDE DEF d
  <2>4. call' = [call EXCEPT ![e] = d]
    BY <2>1 DEF d
  <2> QED
    BY <2>2, <2>3, <2>4, CallGoesOn, CallStepMoves
<1>2. CASE eng' = [eng EXCEPT ![e].running = FALSE] /\ call' = call
  <2> DEFINE q == [r EXCEPT !.running = FALSE]
  <2>1. eng' = [eng EXCEPT ![e] = q]
    BY <1>0, <1>2
  <2> HIDE DEF r, c
  <2>2. q \in EngineFields(q) /\ q.site = r.site
    BY <1>0 DEF EngineFields, ToldFields, Hosts
  <2>3. EngineSound(q, c)
    BY <1>0 DEF EngineFields, EngineSound, Speaking
  <2> HIDE DEF q
  <2> QED
    BY <1>0, <1>2, <2>1, <2>2, <2>3, HostStepMoves DEF EngineInv, r, c
<1>3. CASE /\ eng' = [eng EXCEPT ![e].thread = "exited"]
           /\ call' = [call EXCEPT ![e].at = "out"]
           /\ c.at = "returned"
  <2> DEFINE q == [r EXCEPT !.thread = "exited"]
             d == [c EXCEPT !.at = "out"]
  <2>1. /\ eng' = [eng EXCEPT ![e] = q] /\ call' = [call EXCEPT ![e] = d]
        /\ c.at = "returned"
    BY <1>0, <1>3
  <2> HIDE DEF r, c
  <2>2. q \in EngineFields(q) /\ d \in CallFields(d)
    BY <1>0 DEF EngineFields, ToldFields, Hosts, CallFields, Places
  <2>3. EngineSound(q, d) /\ d.at = "out"
    BY <1>0, <2>1 DEF EngineFields, EngineSound, Speaking, CallFields
  <2> HIDE DEF q, d
  <2>4. OneEngine(e, q, d) /\ EngineInv(q, d)
    BY <2>1, <2>2, <2>3 DEF OneEngine, EngineInv
  <2> QED
    BY <2>1, <2>3, <2>4, EngineKeepsHolders DEF c
<1> QED
  BY <1>1, <1>2, <1>3 DEF WorkerSteps, WorkerFinishes

\* A call that returns.
LEMMA ReturningMoves ==
    ASSUME WorkerInv, NEW e \in Engines, NEW ok, call' = Returned(e, ok), eng' = eng,
           call[e].at \notin {"out", "attach", "talking"}
    PROVE  WorkerInv' /\ KeepsHolders
<1> DEFINE d == [NoCall EXCEPT !.at = "returned", !.ok = ok]
<1>1. d \in CallFields(d) /\ d.at = "returned"
  BY DEF CallFields, NoCall, Places
<1>2. call' = [call EXCEPT ![e] = d]
  BY DEF Returned
<1>3. eng[e].thread = "on"
  BY DEF WorkerInv, EngineInv, EngineSound
<1> HIDE DEF d
<1> QED
  BY <1>1, <1>2, <1>3, CallGoesOn, CallStepMoves

\* A call that goes on or returns, and reports something to its own site.
LEMMA HandingMoves ==
    ASSUME WorkerInv, NEW e \in Engines, NEW d, d \in CallFields(d),
           call[e].at \notin {"out", "attach", "talking"},
           d.at \notin {"attach", "talking"}, call' = [call EXCEPT ![e] = d],
           NEW item, NEW flaws, flaws \in FlawSets,
           eng' = Delivers(e, eng[e].site, item, flaws)
    PROVE  WorkerInv' /\ KeepsHolders
<1>1. EngineSound(eng[e], call[e]) /\ eng[e].thread = "on"
  BY DEF WorkerInv, EngineInv, EngineSound
<1>2. PICK r : /\ Delivers(e, eng[e].site, item, flaws) = [eng EXCEPT ![e] = r]
               /\ r \in EngineFields(r) /\ r.site = eng[e].site
               /\ \A k : EngineSound(eng[e], k) => EngineSound(r, k)
  BY DeliveredHere
<1>3. EngineSound(eng[e], d)
  BY <1>1, CallGoesOn DEF EngineInv
<1>4. EngineInv(r, d)
  BY <1>2, <1>3 DEF EngineInv
<1>5. OneEngine(e, r, d)
  BY <1>2 DEF OneEngine
<1> QED
  BY <1>4, <1>5, EngineKeepsHolders

\* A call that goes on, and may report something to its own site.
LEMMA ReportingMoves ==
    ASSUME WorkerInv, NEW e \in Engines, NEW place \in Places, NEW frag, NEW block, NEW item,
           call[e].at \notin {"out", "attach", "talking"},
           place \notin {"attach", "talking"},
           call' = [call EXCEPT ![e].at = place, ![e].frag = frag, ![e].block = block],
           eng' = Delivers(e, eng[e].site, item, {}) \/ eng' = eng
    PROVE  WorkerInv' /\ KeepsHolders
<1> DEFINE c == call[e]
           d == [c EXCEPT !.at = place, !.frag = frag, !.block = block]
<1>0. c \in CallFields(c) /\ EngineSound(eng[e], c) /\ eng[e].thread = "on"
      /\ call = [f \in Engines |-> call[f]]
  BY DEF WorkerInv, EngineInv, EngineSound
<1>1. call' = [call EXCEPT ![e] = d]
  BY <1>0
<1> HIDE DEF c
<1>2. d \in CallFields(d) /\ d.at = place
  BY <1>0 DEF CallFields
<1> HIDE DEF d
<1>3. CASE eng' = eng
  BY <1>0, <1>1, <1>2, <1>3, CallGoesOn, CallStepMoves
<1>4. CASE eng' = Delivers(e, eng[e].site, item, {})
  <2> DEFINE none == {}
  <2>1. none \in FlawSets
    BY DEF FlawSets
  <2> HIDE DEF none
  <2>2. eng' = Delivers(e, eng[e].site, item, none)
    BY <1>4 DEF none
  <2> QED
    BY <1>1, <1>2, <2>1, <2>2, HandingMoves
<1> QED
  BY <1>3, <1>4

\* What a site answers is a set of flaws.
LEMMA FlawsOfSite == ASSUME NEW item PROVE SiteFlaws(item) \subseteq FlawSets
BY DEF SiteFlaws, Flaws, FlawSets

\* The mock provider uses the operators of the worker through its own instance.
LEMMA MockIsOnWorker ==
    ASSUME NEW e, NEW n, NEW item, NEW ok, NEW flaws
    PROVE  /\ Mock!Returned(e, ok) = Returned(e, ok)
           /\ Mock!Delivers(e, n, item, flaws) = Delivers(e, n, item, flaws)
           /\ Mock!SiteFlaws(item) = SiteFlaws(item)
BY DEF Mock!Returned, Returned, Mock!NoCall, NoCall, Mock!Nobody, Nobody,
       Mock!Delivers, Delivers, Mock!Told, Told, Mock!SiteFlaws, SiteFlaws,
       Mock!IsAudio, IsAudio

LEMMA MockStepsMove ==
    ASSUME WorkerInv, NEW e \in Engines, Mock!MockSteps(e)
    PROVE  WorkerInv' /\ KeepsHolders
<1> DEFINE c == call[e]
<1>0. c \in CallFields(c) /\ call = [f \in Engines |-> call[f]]
  BY DEF WorkerInv, EngineInv
<1>1. CASE Mock!MockEnters(e)
  <2>1. call' = [call EXCEPT ![e].at = "mock", ![e].frag = c.frag, ![e].block = c.block]
    <3>1. call' = [call EXCEPT ![e] = [c EXCEPT !.at = "mock"]]
      BY <1>0, <1>1 DEF Mock!MockEnters
    <3>2. [c EXCEPT !.at = "mock"] = [c EXCEPT !.at = "mock", !.frag = c.frag, !.block = c.block]
      BY <1>0 DEF CallFields
    <3> QED
      BY <1>0, <3>1, <3>2
  <2>2. c.at = "entry" /\ eng' = eng
    BY <1>1 DEF Mock!MockEnters
  <2> QED
    BY <2>1, <2>2, ReportingMoves DEF Places
<1>2. CASE Mock!MockReturns(e)
  <2>1. c.at = "mock" /\ eng' = eng /\ \E ok \in BOOLEAN : call' = Returned(e, ok)
    BY <1>2, MockIsOnWorker DEF Mock!MockReturns
  <2> QED
    BY <2>1, ReturningMoves
<1>3. CASE Mock!MockWrites(e)
  <2>0. c.at = "mock"
    BY <1>3 DEF Mock!MockWrites
  <2>1. CASE call' = Returned(e, FALSE) /\ eng' = eng
    BY <2>0, <2>1, ReturningMoves
  <2> DEFINE item == [kind |-> "audio", what |-> "quiet"]
             went == [NoCall EXCEPT !.at = "returned", !.ok = FALSE]
             on == [c EXCEPT !.block = c.block + 1]
  <2>2. ASSUME NEW flaws \in SiteFlaws(item),
               eng' = Delivers(e, eng[e].site, item, flaws),
               call' = [call EXCEPT ![e].block = c.block + 1] \/ call' = Returned(e, FALSE)
        PROVE  WorkerInv' /\ KeepsHolders
    <3>1. PICK d \in {went, on} : call' = [call EXCEPT ![e] = d]
      BY <1>0, <2>2 DEF Returned
    <3>2. /\ went \in CallFields(went) /\ went.at = "returned"
          /\ on \in CallFields(on) /\ on.at = "mock"
      BY <1>0, <2>0 DEF CallFields, NoCall, Places
    <3>3. flaws \in FlawSets
      BY FlawsOfSite
    <3> HIDE DEF went, on, item
    <3>4. d \in CallFields(d) /\ d.at \notin {"attach", "talking"}
      BY <3>2
    <3> QED
      BY <2>0, <2>2, <3>1, <3>3, <3>4, HandingMoves
  <2>3. \/ call' = Returned(e, FALSE) /\ eng' = eng
        \/ \E flaws \in SiteFlaws(item) :
              /\ eng' = Delivers(e, eng[e].site, item, flaws)
              /\ \/ call' = [call EXCEPT ![e].block = c.block + 1]
                 \/ call' = Returned(e, FALSE)
    BY <1>3, MockIsOnWorker DEF Mock!MockWrites
  <2> QED
    BY <2>1, <2>2, <2>3
<1>4. CASE Mock!MockReports(e)
  <2>1. /\ c.at = "mock"
        /\ call' = [call EXCEPT ![e].frag = c.frag + 1, ![e].block = 0]
    BY <1>4 DEF Mock!MockReports
  <2>2. call' = [call EXCEPT ![e].at = "mock", ![e].frag = c.frag + 1, ![e].block = 0]
    <3>1. call' = [call EXCEPT ![e] = [c EXCEPT !.frag = c.frag + 1, !.block = 0]]
      BY <1>0, <2>1
    <3>2. [c EXCEPT !.frag = c.frag + 1, !.block = 0]
            = [c EXCEPT !.at = "mock", !.frag = c.frag + 1, !.block = 0]
      BY <1>0, <2>1 DEF CallFields
    <3> QED
      BY <1>0, <3>1, <3>2
  <2>3. PICK item : eng' = Delivers(e, eng[e].site, item, {}) \/ eng' = eng
    <3>1. eng' = Mock!Delivers(e, eng[e].site, Mock!EventItem(e), {}) \/ eng' = eng
      BY <1>4 DEF Mock!MockReports
    <3> QED
      BY <3>1, MockIsOnWorker
  <2> DEFINE frag == c.frag + 1
  <2>4. "mock" \in Places /\ call[e].at \notin {"out", "attach", "talking"}
    BY <2>1 DEF Places
  <2>5. call' = [call EXCEPT ![e].at = "mock", ![e].frag = frag, ![e].block = 0]
    BY <2>2
  <2> HIDE DEF frag
  <2> QED
    BY <2>3, <2>4, <2>5, ReportingMoves
<1> QED
  BY <1>1, <1>2, <1>3, <1>4 DEF Mock!MockSteps
-----------------------------------------------------------------------------
(* A provider call of the Azure DLL outside its synthesizer. *)

LEMMA GoingMoves ==
    ASSUME WorkerInv, NEW e \in Engines, NEW place \in Places, Moves(e, place), eng' = eng,
           call[e].at \notin {"out", "attach", "talking"},
           place \notin {"attach", "talking"}
    PROVE  WorkerInv' /\ KeepsHolders
<1> DEFINE c == call[e]
           d == [c EXCEPT !.at = place]
<1>0. c \in CallFields(c) /\ EngineSound(eng[e], c) /\ eng[e].thread = "on"
      /\ call = [f \in Engines |-> call[f]]
  BY DEF WorkerInv, EngineInv, EngineSound
<1>1. call' = [call EXCEPT ![e] = d]
  BY <1>0 DEF Moves
<1> HIDE DEF c
<1>2. d \in CallFields(d) /\ d.at = place
  BY <1>0 DEF CallFields
<1> HIDE DEF d
<1> QED
  BY <1>0, <1>1, <1>2, CallGoesOn, CallStepMoves DEF c

LEMMA PreparingMoves ==
    ASSUME WorkerInv, NEW e \in Engines, AzureEnters(e) \/ Bypasses(e) \/ GivesUp(e)
    PROVE  WorkerInv' /\ KeepsHolders /\ UNCHANGED <<pool, synths>>
<1> DEFINE c == call[e]
<1>0. c \in CallFields(c) /\ call = [f \in Engines |-> call[f]]
  BY DEF WorkerInv, EngineInv
<1>1. CASE AzureEnters(e)
  <2>1. PICK place \in {"acquire", "bypass"} : Moves(e, place)
    BY <1>1 DEF AzureEnters
  <2>2. c.at = "entry" /\ UNCHANGED <<eng, pool, synths>>
    BY <1>1 DEF AzureEnters, At
  <2> QED
    BY <2>1, <2>2, GoingMoves DEF Places
<1>2. CASE Bypasses(e) /\ call' = Returned(e, TRUE) /\ eng' = eng
  BY <1>2, ReturningMoves DEF Bypasses, At
<1>3. CASE Bypasses(e) /\ call' = [call EXCEPT ![e].frag = c.frag + 1]
  <2>1. /\ c.at = "bypass" /\ UNCHANGED <<pool, synths>>
    BY <1>3 DEF Bypasses, At
  <2>2. \/ call' = Returned(e, TRUE) /\ eng' = eng
        \/ \E item : eng' = Delivers(e, eng[e].site, item, {})
        \/ eng' = eng
    BY <1>3 DEF Bypasses
  <2>3. call' = [call EXCEPT ![e].at = "bypass", ![e].frag = c.frag + 1, ![e].block = c.block]
    <3>1. call' = [call EXCEPT ![e] = [c EXCEPT !.frag = c.frag + 1]]
      BY <1>0, <1>3
    <3>2. [c EXCEPT !.frag = c.frag + 1]
            = [c EXCEPT !.at = "bypass", !.frag = c.frag + 1, !.block = c.block]
      BY <1>0, <2>1 DEF CallFields
    <3> QED
      BY <1>0, <3>1, <3>2
  <2> QED
    BY <2>1, <2>2, <2>3, ReportingMoves DEF Places
<1>4. CASE GivesUp(e)
  BY <1>4, ReturningMoves DEF GivesUp, At
<1> QED
  BY <1>1, <1>2, <1>3, <1>4 DEF Bypasses

-----------------------------------------------------------------------------
(* The synthesizers.  Arguments c and g stand for the calls and engines.   *)

Attached == {"attach", "talking"}

Holding(c, e, s) == c[e].synth = s /\ c[e].at \in Attached

SynthFields(r) ==
    [voice : {r.voice}, busy : BOOLEAN, params : {r.params}, map : {r.map},
     heard : BOOLEAN, sdk : {"idle", "speaking", "completed", "cancelled"},
     output : {r.output}, callback : {r.callback},
     stopper : {"none", "stopping", "waiting"}, leftover : BOOLEAN]

\* The SDK is at rest, or at the synthesis of a call that gave it back.
AtRest(r) == r.leftover \/ r.sdk = "idle"

\* The worker that has a synthesizer is its only user, and finds it at rest.
UsedByWorker(s, r, c) ==
    \A e \in Engines : Holding(c, e, s) =>
       r.busy /\ r.stopper = "none" /\ (c[e].at = "attach" => AtRest(r))

\* Busy means used, and a synthesizer nobody uses is at rest.
BusyMeansUsed(s, r, c) ==
    /\ r.busy <=> (r.stopper # "none" \/ \E e \in Engines : Holding(c, e, s))
    /\ ~r.busy => AtRest(r)

\* A handler is bound to a call in its wait, and a callback is of that call.
BoundToCall(s, r, c) ==
    r.params # Nobody =>
       /\ r.params \in Engines /\ Holding(c, r.params, s)
       /\ c[r.params].at = "talking"

CallbackOfCall(r, g) ==
    r.callback # <<>> =>
       /\ r.params # Nobody /\ r.sdk = "speaking"
       /\ \E item : r.callback =
             <<[to |-> r.params, site |-> g[r.params].site, item |-> item]>>

SynthSound(s, r, c, g, p) ==
    /\ r \in SynthFields(r)
    /\ UsedByWorker(s, r, c) /\ BusyMeansUsed(s, r, c)
    /\ BoundToCall(s, r, c) /\ CallbackOfCall(r, g)
    /\ r.sdk # "speaking" => r.output = <<>>
    /\ s \in p => r.voice # "none"

SoleHolders(c) ==
    /\ \A e \in Engines : c[e].at \in Attached => c[e].synth \in Synths
    /\ \A e, f \in Engines :
          c[e].at \in Attached /\ Holding(c, f, c[e].synth) => e = f

SynthInv ==
    /\ synths = [s \in Synths |-> synths[s]] /\ pool \subseteq Synths
    /\ SoleHolders(call)
    /\ \A s \in Synths : SynthSound(s, synths[s], call, eng, pool)
    /\ PoolWithinLimit

\* The synthesizer s is held by the same calls, with the same sites, after a step.
SameHolders(s, c, g, c2, g2) ==
    \A e \in Engines :
       /\ Holding(c, e, s) => c2[e] = c[e] /\ g2[e].site = g[e].site
       /\ Holding(c2, e, s) => Holding(c, e, s)

LEMMA SoundElsewhere ==
    ASSUME NEW s, NEW r, NEW c, NEW g, NEW p, NEW c2, NEW g2, NEW p2,
           SynthSound(s, r, c, g, p), SameHolders(s, c, g, c2, g2), s \in p2 => s \in p
    PROVE  SynthSound(s, r, c2, g2, p2)
<1>1. UsedByWorker(s, r, c2)
  BY DEF SynthSound, UsedByWorker, SameHolders, Holding
<1>2. BusyMeansUsed(s, r, c2)
  BY DEF SynthSound, BusyMeansUsed, SameHolders, Holding
<1>3. BoundToCall(s, r, c2)
  BY DEF SynthSound, BoundToCall, SameHolders, Holding
<1>4. CallbackOfCall(r, g2)
  BY DEF SynthSound, BoundToCall, CallbackOfCall, SameHolders
<1> QED
  BY <1>1, <1>2, <1>3, <1>4 DEF SynthSound

\* Nothing of the pool moves, and whoever holds a synthesizer goes on holding it.
LEMMA PoolAtRest ==
    ASSUME SynthInv, KeepsHolders, UNCHANGED <<pool, synths>>
    PROVE  SynthInv'
<1>1. \A s \in Synths : SameHolders(s, call, eng, call', eng')
  BY DEF KeepsHolders, SameHolders, Holding, Attached
<1>2. \A s \in Synths : SynthSound(s, synths'[s], call', eng', pool')
  BY <1>1, SoundElsewhere DEF SynthInv
<1>3. SoleHolders(call')
  BY DEF SynthInv, KeepsHolders, SoleHolders, Holding, Attached
<1>4. PoolWithinLimit'
  BY DEF SynthInv, PoolWithinLimit, OfVoice
<1> QED
  BY <1>2, <1>3, <1>4 DEF SynthInv

\* One synthesizer moves, and keeps its voice while it is in the pool.
LEMMA OneSynthMoves ==
    ASSUME SynthInv, NEW s \in Synths, NEW r,
           synths' = [synths EXCEPT ![s] = r], UNCHANGED pool,
           s \in pool => r.voice = synths[s].voice,
           SynthSound(s, r, call', eng', pool), SoleHolders(call'),
           \A t \in Synths \ {s} : SameHolders(t, call, eng, call', eng')
    PROVE  SynthInv'
<1>1. \A t \in Synths : synths'[t] = IF t = s THEN r ELSE synths[t]
  BY DEF SynthInv
<1>2. synths' = [t \in Synths |-> synths'[t]]
  BY DEF SynthInv
<1>3. \A t \in Synths : SynthSound(t, synths'[t], call', eng', pool')
  <2>1. \A t \in Synths \ {s} : SynthSound(t, synths[t], call', eng', pool')
    BY SoundElsewhere DEF SynthInv
  <2> QED
    BY <1>1, <2>1
<1>4. PoolWithinLimit'
  <2> SUFFICES ASSUME NEW e \in Engines
               PROVE  {t \in pool : synths'[t].voice = Voice[e]} = OfVoice(e, pool)
    BY DEF SynthInv, PoolWithinLimit, OfVoice
  <2> QED
    BY <1>1 DEF SynthInv, OfVoice
<1> QED
  BY <1>2, <1>3, <1>4 DEF SynthInv

\* A call moves in its place: the engine and the other calls stay as they are.
LEMMA OneCallMoves ==
    ASSUME WorkerInv, NEW e \in Engines, NEW d, d \in CallFields(d), call[e].at # "out",
           call' = [call EXCEPT ![e] = d], eng' = eng
    PROVE  /\ WorkerInv' /\ call'[e] = d
           /\ \A f \in Engines \ {e} : call'[f] = call[f]
<1>1. eng[e].thread = "on"
  BY DEF WorkerInv, EngineInv, EngineSound
<1>2. EngineInv(eng[e], d)
  BY <1>1, CallGoesOn
<1>3. OneEngine(e, eng[e], d)
  BY SameEngine DEF OneEngine
<1> QED
  BY <1>2, <1>3, OneEngineMoves

\* A call gives its synthesizer back, or leaves it to the thread that stops it.
LEMMA HolderLeaves ==
    ASSUME WorkerInv, SynthInv, NEW e \in Engines, call[e].at \in Attached, NEW ok,
           call' = Returned(e, ok), UNCHANGED <<eng, pool>>,
           NEW r, synths' = [synths EXCEPT ![call[e].synth] = r],
           r \in SynthFields(r), r.busy <=> r.stopper # "none", ~r.busy => AtRest(r),
           r.params = Nobody, r.callback = <<>>, r.sdk # "speaking" => r.output = <<>>,
           call[e].synth \in pool => r.voice = synths[call[e].synth].voice
    PROVE  WorkerInv' /\ SynthInv'
<1> DEFINE s == call[e].synth
           d == [NoCall EXCEPT !.at = "returned", !.ok = ok]
<1>1. d \in CallFields(d) /\ d.at = "returned"
  BY DEF CallFields, NoCall, Places
<1>2. call' = [call EXCEPT ![e] = d] /\ call[e].at # "out"
  BY DEF Returned, Attached
<1> HIDE DEF d
<1>3. /\ WorkerInv' /\ call'[e] = d
      /\ \A f \in Engines \ {e} : call'[f] = call[f]
  BY <1>1, <1>2, OneCallMoves
<1>4. s \in Synths /\ \A f \in Engines : ~Holding(call', f, s)
  BY <1>1, <1>3 DEF SynthInv, SoleHolders, Holding, Attached
<1>5. SoleHolders(call')
  BY <1>1, <1>3 DEF SynthInv, SoleHolders, Holding, Attached
<1>6. \A t \in Synths \ {s} : SameHolders(t, call, eng, call', eng')
  BY <1>1, <1>3 DEF SameHolders, Holding, Attached
<1>7. SynthSound(s, r, call', eng', pool)
  <2>1. SynthSound(s, synths[s], call, eng, pool)
    BY <1>4 DEF SynthInv
  <2> QED
    BY <1>4, <2>1 DEF SynthSound, UsedByWorker, BusyMeansUsed, BoundToCall, CallbackOfCall
<1> HIDE DEF s
<1>8. synths' = [synths EXCEPT ![s] = r] /\ (s \in pool => r.voice = synths[s].voice)
  BY DEF s
<1> QED
  BY <1>3, <1>4, <1>5, <1>6, <1>7, <1>8, OneSynthMoves

\* What the holder finds in its synthesizer.
LEMMA HolderFinds ==
    ASSUME SynthInv, NEW e \in Engines, call[e].at \in Attached
    PROVE  /\ call[e].synth \in Synths /\ Mine(e) \in SynthFields(Mine(e))
           /\ Mine(e).busy /\ Mine(e).stopper = "none"
           /\ Mine(e).sdk # "speaking" => Mine(e).output = <<>> /\ Mine(e).callback = <<>>
           /\ At(e, "attach") => AtRest(Mine(e)) /\ Mine(e).callback = <<>>
           /\ call[e].synth \in pool => Mine(e).voice # "none"
           /\ \A f \in Engines : Holding(call, f, call[e].synth) => f = e
           /\ Mine(e).params # Nobody => Mine(e).params = e
BY DEF SynthInv, SoleHolders, SynthSound, UsedByWorker, CallbackOfCall, BoundToCall,
       Holding, Mine, At

\* A synthesizer given back, and perhaps freed.
GivenBack(r) ==
    /\ r \in SynthFields(r) /\ r.busy = FALSE /\ AtRest(r) /\ r.stopper = "none"
    /\ r.params = Nobody /\ r.callback = <<>> /\ (r.sdk # "speaking" => r.output = <<>>)

LEMMA SettledIsGivenBack ==
    ASSUME NEW r, GivenBack(r), NEW s
    PROVE  GivenBack(Settled(s, r)) /\ (s \in pool => Settled(s, r).voice = r.voice)
<1>1. CASE s \in pool
  BY <1>1 DEF Settled
<1>2. CASE s \notin pool
  <2>1. Settled(s, r) = Unused
    BY <1>2 DEF Settled, GivenBack
  <2> QED
    BY <1>2, <2>1 DEF Unused, SynthFields, GivenBack, AtRest
<1> QED
  BY <1>1, <1>2

\* A call that returns and gives its synthesizer back.
LEMMA GivingBackMoves ==
    ASSUME WorkerInv, SynthInv, NEW e \in Engines, call[e].at \in Attached, NEW ok,
           call' = Returned(e, ok), UNCHANGED <<eng, pool>>, NEW r, GivenBack(r),
           r.voice = Mine(e).voice,
           synths' = [synths EXCEPT ![call[e].synth] = Settled(call[e].synth, r)]
    PROVE  WorkerInv' /\ SynthInv'
<1> DEFINE s == call[e].synth
           q == Settled(s, r)
<1>1. GivenBack(q) /\ (s \in pool => q.voice = r.voice)
  BY SettledIsGivenBack
<1>2. Mine(e) = synths[s]
  BY DEF Mine
<1> HIDE DEF q
<1>3. synths' = [synths EXCEPT ![s] = q]
  BY DEF q
<1> QED
  BY <1>1, <1>2, <1>3, HolderLeaves DEF GivenBack

LEMMA FinishingMoves ==
    ASSUME WorkerInv, SynthInv, NEW e \in Engines,
           Finishes(e) \/ Abandons(e) \/ AttachThrows(e) \/ AbandonThrows(e)
    PROVE  WorkerInv' /\ SynthInv'
<1> DEFINE s == call[e].synth
           m == Mine(e)
<1>0. m = synths[s] /\ synths = [t \in Synths |-> synths[t]]
  BY DEF SynthInv, Mine
<1>1. CASE Finishes(e)
  <2> DEFINE r == [m EXCEPT !.params = Nobody, !.map = <<>>, !.busy = FALSE, !.sdk = "idle",
                            !.leftover = FALSE]
  <2>1. /\ call[e].at \in Attached /\ m.sdk \in {"completed", "cancelled"}
        /\ UNCHANGED <<eng, pool>> /\ \E ok : call' = Returned(e, ok)
        /\ synths' = [synths EXCEPT ![s] =
                        Settled(s, [Detached(m) EXCEPT !.busy = FALSE, !.sdk = "idle",
                                                       !.leftover = FALSE])]
    BY <1>1 DEF Finishes, At, Attached
  <2>2. /\ m \in SynthFields(m) /\ m.stopper = "none"
        /\ m.output = <<>> /\ m.callback = <<>>
    BY <2>1, HolderFinds
  <2> HIDE DEF s, m
  <2>3. [Detached(m) EXCEPT !.busy = FALSE, !.sdk = "idle", !.leftover = FALSE] = r
    BY <2>2 DEF Detached, SynthFields
  <2>4. GivenBack(r) /\ r.voice = m.voice
    BY <2>2 DEF SynthFields, GivenBack, AtRest
  <2> HIDE DEF r
  <2> QED
    BY <2>1, <2>3, <2>4, GivingBackMoves DEF s, m
<1>2. CASE Abandons(e)
  <2> DEFINE r == [m EXCEPT !.params = Nobody, !.map = <<>>, !.stopper = "stopping"]
  <2>1. /\ call[e].at \in Attached /\ m.callback = <<>>
        /\ UNCHANGED <<eng, pool>> /\ call' = Returned(e, TRUE)
        /\ synths' = [synths EXCEPT ![s] = [Detached(synths[s]) EXCEPT !.stopper = "stopping"]]
    BY <1>0, <1>2 DEF Abandons, At, Attached
  <2>2. /\ m \in SynthFields(m) /\ m.busy /\ (m.sdk # "speaking" => m.output = <<>>)
    BY <2>1, HolderFinds
  <2> HIDE DEF s, m
  <2>3. [Detached(m) EXCEPT !.stopper = "stopping"] = r
    BY <2>2 DEF Detached, SynthFields
  <2>4. /\ r \in SynthFields(r) /\ r.voice = m.voice /\ r.busy /\ r.stopper # "none"
        /\ r.params = Nobody /\ r.callback = <<>> /\ (r.sdk # "speaking" => r.output = <<>>)
    BY <2>1, <2>2 DEF SynthFields
  <2>5. synths' = [synths EXCEPT ![s] = r]
    BY <1>0, <2>1, <2>3
  <2> HIDE DEF r
  <2> QED
    BY <1>0, <2>1, <2>4, <2>5, HolderLeaves DEF s
<1>3. CASE AttachThrows(e)
  <2> DEFINE r == [m EXCEPT !.params = Nobody, !.map = <<>>, !.heard = FALSE, !.busy = FALSE]
  <2>1. /\ call[e].at \in Attached /\ AtRest(m) /\ m.callback = <<>>
        /\ UNCHANGED <<eng, pool>> /\ call' = Returned(e, FALSE)
        /\ synths' = [synths EXCEPT ![s] =
                        Settled(s, [Detached(AttachContext(e)) EXCEPT !.busy = FALSE])]
    BY <1>3, HolderFinds DEF AttachThrows, At, Attached
  <2>2. m \in SynthFields(m) /\ m.stopper = "none" /\ (m.sdk # "speaking" => m.output = <<>>)
    BY <2>1, HolderFinds
  <2>3. AttachContext(e) = [m EXCEPT !.params = e, !.map = Parsed(e).map, !.heard = FALSE]
    BY DEF AttachContext
  <2> HIDE DEF s, m
  <2>4. [Detached(AttachContext(e)) EXCEPT !.busy = FALSE] = r
    BY <2>2, <2>3 DEF Detached, SynthFields
  <2>5. GivenBack(r) /\ r.voice = m.voice
    BY <2>1, <2>2 DEF SynthFields, GivenBack, AtRest
  <2> HIDE DEF r
  <2> QED
    BY <2>1, <2>4, <2>5, GivingBackMoves DEF s, m
<1>4. CASE AbandonThrows(e)
  <2> DEFINE speaking == m.sdk = "speaking"
             r == [m EXCEPT !.params = Nobody, !.map = <<>>, !.busy = FALSE,
                            !.leftover = speaking, !.sdk = IF speaking THEN m.sdk ELSE "idle"]
             given == [Detached(m) EXCEPT !.busy = FALSE, !.leftover = speaking,
                                          !.sdk = IF speaking THEN @ ELSE "idle"]
  <2>1. /\ call[e].at \in Attached /\ m.callback = <<>>
        /\ UNCHANGED <<eng, pool>> /\ call' = Returned(e, FALSE)
        /\ synths' = [synths EXCEPT ![s] = Settled(s, given)]
    BY <1>4 DEF AbandonThrows, At, Attached
  <2>2. m \in SynthFields(m) /\ m.stopper = "none" /\ (m.sdk # "speaking" => m.output = <<>>)
    BY <2>1, HolderFinds
  <2> HIDE DEF s, m
  <2>3. given = r
    BY <2>2 DEF Detached, SynthFields
  <2>4. GivenBack(r) /\ r.voice = m.voice
    BY <2>1, <2>2 DEF SynthFields, GivenBack, AtRest
  <2> HIDE DEF r, given
  <2> QED
    BY <2>1, <2>3, <2>4, GivingBackMoves DEF s, m
<1> QED
  BY <1>1, <1>2, <1>3, <1>4

LEMMA AttachingMoves ==
    ASSUME WorkerInv, SynthInv, NEW e \in Engines, Attaches(e)
    PROVE  WorkerInv' /\ SynthInv'
<1> DEFINE s == call[e].synth
           m == Mine(e)
           map == Parsed(e).map
           output == m.output \o Outputs[Request(e)]
           c == call[e]
           d == [c EXCEPT !.at = "talking"]
           r == [m EXCEPT !.params = e, !.map = map, !.heard = FALSE, !.sdk = "speaking",
                          !.output = output]
<1>1. /\ c \in CallFields(c) /\ call = [f \in Engines |-> call[f]]
      /\ synths = [t \in Synths |-> synths[t]] /\ m = synths[s]
  BY DEF WorkerInv, EngineInv, SynthInv, Mine
<1>2. /\ c.at = "attach" /\ UNCHANGED <<eng, pool>> /\ call' = [call EXCEPT ![e] = d]
      /\ synths' = [synths EXCEPT ![s] = [AttachContext(e) EXCEPT !.sdk = "speaking",
                                                                  !.output = output]]
  <2>1. Mine(e) = synths[s] /\ AttachContext(e).output = m.output
    BY <1>1, HolderFinds DEF AttachContext, SynthFields, Attaches, At, Attached
  <2> QED
    BY <1>1, <2>1 DEF Attaches, At, Moves
<1>3. /\ s \in Synths /\ m \in SynthFields(m) /\ m.busy /\ m.stopper = "none"
      /\ m.callback = <<>> /\ (s \in pool => m.voice # "none")
      /\ \A f \in Engines : Holding(call, f, s) => f = e
  BY <1>2, HolderFinds DEF Attached, At
<1>4. AttachContext(e) = [m EXCEPT !.params = e, !.map = map, !.heard = FALSE]
  BY DEF AttachContext
<1> HIDE DEF s, m, map, output
<1>5. [AttachContext(e) EXCEPT !.sdk = "speaking", !.output = output] = r
  BY <1>3, <1>4 DEF SynthFields
<1>6. /\ r \in SynthFields(r) /\ r.voice = m.voice /\ r.busy /\ r.stopper = "none"
      /\ r.params = e /\ r.callback = <<>> /\ r.sdk = "speaking"
  BY <1>3 DEF SynthFields
<1>7. synths' = [synths EXCEPT ![s] = r]
  BY <1>2, <1>5
<1>8. c.synth = s
  BY DEF s
<1> HIDE DEF c, r
<1>9. d \in CallFields(d) /\ d.at = "talking" /\ d.synth = s
  BY <1>1, <1>8 DEF CallFields, Places
<1> HIDE DEF d
<1>10. /\ WorkerInv' /\ call'[e] = d
       /\ \A f \in Engines \ {e} : call'[f] = call[f]
  <2>1. call[e].at # "out"
    BY <1>2 DEF c
  <2> QED
    BY <1>2, <1>9, <2>1, OneCallMoves
<1>11. Holding(call, e, s) /\ Holding(call', e, s) /\ call'[e].at = "talking"
  BY <1>2, <1>8, <1>9, <1>10 DEF Holding, Attached, c
<1>12. \A f \in Engines : Holding(call', f, s) => f = e
  BY <1>3, <1>10 DEF Holding
<1>13. SynthSound(s, r, call', eng', pool)
  BY <1>3, <1>6, <1>11, <1>12
     DEF SynthSound, UsedByWorker, BusyMeansUsed, BoundToCall, CallbackOfCall
<1>14. SoleHolders(call')
  <2>1. \A f \in Engines : call'[f].at \in Attached =>
           call[f].at \in Attached /\ call'[f].synth = call[f].synth
    BY <1>9, <1>10, <1>11 DEF Holding
  <2> QED
    BY <2>1 DEF SynthInv, SoleHolders, Holding
<1>15. \A t \in Synths \ {s} : SameHolders(t, call, eng, call', eng')
  BY <1>2, <1>9, <1>10, <1>11 DEF SameHolders, Holding
<1> QED
  BY <1>1, <1>2, <1>3, <1>6, <1>7, <1>10, <1>13, <1>14, <1>15, OneSynthMoves
-----------------------------------------------------------------------------
(* The thread that stops a synthesizer, and the SDK. *)

\* Calls and pool stay as they are, and so does every engine's site.
LEMMA SynthMovesAlone ==
    ASSUME WorkerInv, SynthInv, NEW s \in Synths, NEW r, UNCHANGED <<eng, call, pool>>,
           synths' = [synths EXCEPT ![s] = r], s \in pool => r.voice = synths[s].voice,
           SynthSound(s, r, call, eng, pool)
    PROVE  WorkerInv' /\ SynthInv'
<1>1. WorkerInv' /\ SoleHolders(call')
  BY DEF WorkerInv, SynthInv
<1>2. \A t \in Synths \ {s} : SameHolders(t, call, eng, call', eng')
  BY DEF SameHolders
<1>3. SynthSound(s, r, call', eng', pool)
  OBVIOUS
<1> QED
  BY <1>1, <1>2, <1>3, OneSynthMoves

LEMMA StoppingMoves ==
    ASSUME WorkerInv, SynthInv, NEW s \in Synths,
           StopperSteps(s) \/ SdkEnds(s) \/ LeftoverEnds(s)
    PROVE  WorkerInv' /\ SynthInv'
<1> DEFINE m == synths[s]
<1>0. /\ synths = [t \in Synths |-> synths[t]] /\ UNCHANGED <<eng, call, pool>>
      /\ m \in SynthFields(m) /\ SynthSound(s, m, call, eng, pool)
  BY DEF SynthInv, SynthSound, StopperSteps, StopperStops, StopperReleases, SdkEnds,
         LeftoverEnds
<1>1. CASE StopperStops(s)
  <2> DEFINE p == [m EXCEPT !.stopper = "waiting", !.output = <<>>]
             q == [m EXCEPT !.stopper = "waiting"]
  <2>1. /\ m.stopper = "stopping" /\ m.callback = <<>>
        /\ \/ synths' = [synths EXCEPT ![s] = p]
           \/ synths' = [synths EXCEPT ![s] = q]
    <3>1. PICK stopped \in BOOLEAN :
             synths' = [synths EXCEPT ![s].stopper = "waiting",
                                      ![s].output = IF stopped THEN <<>> ELSE @]
      BY <1>1 DEF StopperStops
    <3>2. [m EXCEPT !.stopper = "waiting", !.output = m.output] = q
      BY <1>0 DEF SynthFields
    <3> QED
      BY <1>0, <1>1, <3>1, <3>2 DEF StopperStops
  <2> HIDE DEF m
  <2>2. /\ p \in SynthFields(p) /\ p.voice = m.voice /\ SynthSound(s, p, call, eng, pool)
        /\ q \in SynthFields(q) /\ q.voice = m.voice /\ SynthSound(s, q, call, eng, pool)
    <3>1. /\ p \in SynthFields(p) /\ p.voice = m.voice /\ p.busy = m.busy
          /\ p.stopper = "waiting" /\ p.params = m.params /\ p.callback = <<>>
          /\ p.sdk = m.sdk /\ p.output = <<>> /\ p.leftover = m.leftover
      BY <1>0, <2>1 DEF SynthFields
    <3>2. /\ q \in SynthFields(q) /\ q.voice = m.voice /\ q.busy = m.busy
          /\ q.stopper = "waiting" /\ q.params = m.params /\ q.callback = <<>>
          /\ q.sdk = m.sdk /\ q.output = m.output /\ q.leftover = m.leftover
      BY <1>0, <2>1 DEF SynthFields
    <3> HIDE DEF p, q
    <3> QED
      BY <1>0, <2>1, <3>1, <3>2
         DEF SynthSound, UsedByWorker, BusyMeansUsed, BoundToCall, CallbackOfCall, AtRest
  <2> HIDE DEF p, q
  <2> QED
    BY <1>0, <2>1, <2>2, SynthMovesAlone DEF m
<1>2. CASE StopperReleases(s)
  <2> DEFINE r == [m EXCEPT !.stopper = "none", !.busy = FALSE, !.sdk = "idle",
                            !.leftover = FALSE]
             q == Settled(s, r)
  <2>1. /\ m.stopper = "waiting" /\ m.sdk \in {"completed", "cancelled"}
        /\ synths' = [synths EXCEPT ![s] = q]
    BY <1>0, <1>2 DEF StopperReleases
  <2> HIDE DEF m
  <2>2. /\ m.output = <<>> /\ m.callback = <<>> /\ m.params = Nobody
        /\ \A e \in Engines : ~Holding(call, e, s)
    BY <1>0, <2>1 DEF SynthSound, CallbackOfCall, UsedByWorker, BoundToCall
  <2>3. GivenBack(r) /\ r.voice = m.voice
    BY <1>0, <2>2 DEF SynthFields, GivenBack, AtRest
  <2> HIDE DEF r
  <2>4. GivenBack(q) /\ (s \in pool => q.voice = m.voice)
    BY <2>3, SettledIsGivenBack
  <2> HIDE DEF q
  <2>5. SynthSound(s, q, call, eng, pool)
    BY <1>0, <2>2, <2>4 DEF SynthSound, UsedByWorker, BusyMeansUsed, BoundToCall,
                            CallbackOfCall, GivenBack
  <2> QED
    BY <1>0, <2>1, <2>4, <2>5, SynthMovesAlone DEF m
<1>3. CASE SdkEnds(s)
  <2> DEFINE p == [m EXCEPT !.sdk = "completed"]
             q == [m EXCEPT !.sdk = "cancelled", !.output = <<>>]
  <2>1. /\ m.sdk = "speaking" /\ m.callback = <<>> /\ m.busy
        /\ \/ m.output = <<>> /\ synths' = [synths EXCEPT ![s] = p]
           \/ synths' = [synths EXCEPT ![s] = q]
    BY <1>0, <1>3 DEF SdkEnds
  <2> HIDE DEF m
  <2>2. /\ p \in SynthFields(p) /\ p.voice = m.voice /\ p.busy = m.busy
        /\ p.stopper = m.stopper /\ p.params = m.params /\ p.callback = <<>>
        /\ p.sdk = "completed" /\ p.output = m.output /\ p.leftover = m.leftover
    BY <1>0, <2>1 DEF SynthFields
  <2>3. /\ q \in SynthFields(q) /\ q.voice = m.voice /\ q.busy = m.busy
        /\ q.stopper = m.stopper /\ q.params = m.params /\ q.callback = <<>>
        /\ q.sdk = "cancelled" /\ q.output = <<>> /\ q.leftover = m.leftover
    BY <1>0, <2>1 DEF SynthFields
  <2> HIDE DEF p, q
  <2>4. /\ m.output = <<>> => SynthSound(s, p, call, eng, pool)
        /\ SynthSound(s, q, call, eng, pool)
    BY <1>0, <2>1, <2>2, <2>3
       DEF SynthSound, UsedByWorker, BusyMeansUsed, BoundToCall, CallbackOfCall, AtRest
  <2> QED
    BY <1>0, <2>1, <2>2, <2>3, <2>4, SynthMovesAlone DEF m
<1>4. CASE LeftoverEnds(s)
  <2> DEFINE q == [m EXCEPT !.sdk = "idle", !.output = <<>>, !.leftover = FALSE]
  <2>1. ~m.busy /\ synths' = [synths EXCEPT ![s] = q]
    BY <1>0, <1>4 DEF LeftoverEnds
  <2> HIDE DEF m
  <2>2. /\ m.params = Nobody /\ m.callback = <<>> /\ m.stopper = "none"
        /\ \A e \in Engines : ~Holding(call, e, s)
    BY <1>0, <2>1 DEF SynthSound, UsedByWorker, BusyMeansUsed, BoundToCall, CallbackOfCall
  <2>3. GivenBack(q) /\ q.voice = m.voice
    BY <1>0, <2>1, <2>2 DEF SynthFields, GivenBack, AtRest
  <2> HIDE DEF q
  <2>4. SynthSound(s, q, call, eng, pool)
    BY <1>0, <2>2, <2>3 DEF SynthSound, UsedByWorker, BusyMeansUsed, BoundToCall,
                            CallbackOfCall, GivenBack
  <2> QED
    BY <1>0, <2>1, <2>3, <2>4, SynthMovesAlone DEF m
<1> QED
  BY <1>1, <1>2, <1>3, <1>4 DEF StopperSteps

LEMMA CallbackBeginMoves ==
    ASSUME WorkerInv, SynthInv, NEW s \in Synths, CallbackBegins(s)
    PROVE  WorkerInv' /\ SynthInv'
<1> DEFINE m == synths[s]
           item == Head(m.output)
           rest == Tail(m.output)
           heard == Hears(s, item)
           note == <<[to |-> m.params, site |-> eng[m.params].site, item |-> Mapped(s, item)]>>
           callback == IF Passes(s, item) THEN note ELSE <<>>
           r == [m EXCEPT !.output = rest, !.heard = heard, !.callback = callback]
<1>1. /\ synths = [t \in Synths |-> synths[t]] /\ UNCHANGED <<eng, call, pool>>
      /\ m \in SynthFields(m) /\ SynthSound(s, m, call, eng, pool) /\ m.sdk = "speaking"
  BY DEF SynthInv, SynthSound, CallbackBegins
<1>2. synths' = [synths EXCEPT ![s] = r]
  BY <1>1 DEF CallbackBegins, Owner
<1>3. callback # <<>> => m.params # Nobody /\ callback = note
  BY DEF Passes, Owner
<1>4. heard \in BOOLEAN
  BY <1>1 DEF Hears, SynthFields
<1>5. \E it : note = <<[to |-> m.params, site |-> eng[m.params].site, item |-> it]>>
  OBVIOUS
<1> HIDE DEF m, item, rest, heard, note, callback
<1>6. /\ r \in SynthFields(r) /\ r.voice = m.voice /\ r.busy = m.busy /\ r.sdk = m.sdk
      /\ r.stopper = m.stopper /\ r.params = m.params /\ r.callback = callback
      /\ r.leftover = m.leftover
  BY <1>1, <1>4 DEF SynthFields
<1> HIDE DEF r
<1>7. UsedByWorker(s, r, call) /\ BusyMeansUsed(s, r, call) /\ BoundToCall(s, r, call)
  BY <1>1, <1>6 DEF SynthSound, UsedByWorker, BusyMeansUsed, BoundToCall, AtRest
<1>8. CallbackOfCall(r, eng)
  BY <1>1, <1>3, <1>5, <1>6 DEF CallbackOfCall
<1>9. SynthSound(s, r, call, eng, pool)
  BY <1>1, <1>6, <1>7, <1>8 DEF SynthSound
<1> QED
  BY <1>1, <1>2, <1>6, <1>9, SynthMovesAlone DEF m

LEMMA CallbackEndMoves ==
    ASSUME WorkerInv, SynthInv, NEW s \in Synths, CallbackEnds(s)
    PROVE  WorkerInv' /\ SynthInv'
<1> DEFINE m == synths[s]
           e == m.params
           q == [m EXCEPT !.callback = <<>>]
<1>1. /\ synths = [t \in Synths |-> synths[t]] /\ UNCHANGED <<call, pool>>
      /\ m \in SynthFields(m) /\ SynthSound(s, m, call, eng, pool) /\ m.callback # <<>>
      /\ synths' = [synths EXCEPT ![s] = q]
  BY DEF SynthInv, SynthSound, CallbackEnds
<1>0. PICK flaws \in FlawSets :
         eng' = Delivers(m.callback[1].to, m.callback[1].site, m.callback[1].item, flaws)
  <2> DEFINE old == IF synths[s].leftover THEN {"mixed"} ELSE {}
  <2>1. \E refused \in SiteFlaws(m.callback[1].item) :
           eng' = Delivers(m.callback[1].to, m.callback[1].site, m.callback[1].item,
                           refused \union old)
    BY DEF CallbackEnds
  <2>2. old \in FlawSets
    BY DEF Flaws, FlawSets
  <2> HIDE DEF old, m
  <2>3. \A refused \in SiteFlaws(m.callback[1].item) : refused \union old \in FlawSets
    BY <2>2, FlawsOfSite DEF FlawSets
  <2> QED
    BY <2>1, <2>3
<1>2. PICK item : m.callback = <<[to |-> e, site |-> eng[e].site, item |-> item]>>
  BY <1>1 DEF SynthSound, CallbackOfCall
<1>3. e \in Engines /\ m.sdk = "speaking"
  BY <1>1 DEF SynthSound, CallbackOfCall, BoundToCall
<1>4. eng' = Delivers(e, eng[e].site, item, flaws)
  BY <1>0, <1>2
<1> HIDE DEF e
<1>5. PICK r : /\ Delivers(e, eng[e].site, item, flaws) = [eng EXCEPT ![e] = r]
               /\ r \in EngineFields(r) /\ r.site = eng[e].site
               /\ \A k : EngineSound(eng[e], k) => EngineSound(r, k)
  BY <1>3, DeliveredHere
<1>6. EngineInv(r, call[e])
  BY <1>3, <1>5 DEF WorkerInv, EngineInv
<1>7. WorkerInv' /\ KeepsHolders
  BY <1>1, <1>3, <1>4, <1>5, <1>6, HostStepMoves
<1>8. \A t \in Synths : SameHolders(t, call, eng, call', eng')
  BY <1>7 DEF KeepsHolders, SameHolders, Holding, Attached
<1>9. SoleHolders(call')
  BY <1>1 DEF SynthInv
<1> HIDE DEF m
<1>10. /\ q \in SynthFields(q) /\ q.voice = m.voice /\ q.busy = m.busy /\ q.sdk = m.sdk
       /\ q.stopper = m.stopper /\ q.params = m.params /\ q.output = m.output
       /\ q.callback = <<>> /\ q.leftover = m.leftover
  BY <1>1 DEF SynthFields
<1> HIDE DEF q
<1>11. SynthSound(s, q, call, eng, pool)
  BY <1>1, <1>10
     DEF SynthSound, UsedByWorker, BusyMeansUsed, BoundToCall, CallbackOfCall, AtRest
<1>12. SynthSound(s, q, call', eng', pool)
  BY <1>8, <1>11, SoundElsewhere
<1> QED
  BY <1>1, <1>7, <1>8, <1>9, <1>10, <1>12, OneSynthMoves DEF m
-----------------------------------------------------------------------------
(* AcquireSynthesizer. *)

\* What the scan leaves of the pool p of engine e, and of the synthesizers.
Purged(kept) ==
    [s \in Synths |-> IF s \in pool \ kept /\ ~synths[s].busy THEN Unused ELSE synths[s]]

LEMMA PurgedIsSound ==
    ASSUME SynthInv, NEW kept, kept \subseteq pool
    PROVE  /\ Purged(kept) = [s \in Synths |-> Purged(kept)[s]]
           /\ \A s \in Synths : SynthSound(s, Purged(kept)[s], call, eng, kept)
           /\ \A s \in kept : Purged(kept)[s] = synths[s]
<1>1. /\ Purged(kept) = [s \in Synths |-> Purged(kept)[s]]
      /\ \A s \in kept : Purged(kept)[s] = synths[s]
  BY DEF Purged, SynthInv
<1>2. ASSUME NEW s \in Synths
      PROVE  SynthSound(s, Purged(kept)[s], call, eng, kept)
  <2>1. SynthSound(s, synths[s], call, eng, pool)
    BY DEF SynthInv
  <2>2. CASE Purged(kept)[s] = synths[s]
    BY <2>1, <2>2 DEF SynthSound
  <2>3. CASE Purged(kept)[s] = Unused /\ s \notin kept /\ ~synths[s].busy
    <3>1. \A e \in Engines : ~Holding(call, e, s)
      BY <2>1, <2>3 DEF SynthSound, UsedByWorker
    <3>2. Unused \in SynthFields(Unused)
      BY DEF Unused, SynthFields
    <3>3. /\ ~Unused.busy /\ Unused.stopper = "none" /\ Unused.sdk = "idle"
          /\ Unused.params = Nobody /\ Unused.callback = <<>> /\ Unused.output = <<>>
      BY DEF Unused
    <3> QED
      BY <2>3, <3>1, <3>2, <3>3
         DEF SynthSound, UsedByWorker, BusyMeansUsed, BoundToCall, CallbackOfCall, AtRest
  <2> QED
    BY <2>2, <2>3 DEF Purged
<1> QED
  BY <1>1, <1>2

\* How many of one voice there are in a smaller pool.
LEMMA FewerOfVoice ==
    ASSUME SynthInv, NEW e \in Engines, NEW some, some \subseteq OfVoice(e, pool)
    PROVE  IsFiniteSet(some) /\ Cardinality(some) \in Nat /\ Cardinality(some) <= PoolLimit
<1>1. IsFiniteSet(Synths) /\ OfVoice(e, pool) \subseteq Synths /\ PoolLimit \in Nat
  BY PoolAssumption DEF SynthInv, OfVoice
<1>2. IsFiniteSet(OfVoice(e, pool))
  BY <1>1, FS_Subset
<1>3. /\ IsFiniteSet(some) /\ Cardinality(some) <= Cardinality(OfVoice(e, pool))
      /\ Cardinality(some) \in Nat /\ Cardinality(OfVoice(e, pool)) \in Nat
  BY <1>2, FS_Subset, FS_CardinalityType
<1>4. Cardinality(OfVoice(e, pool)) <= PoolLimit
  BY DEF SynthInv, PoolWithinLimit
<1> QED
  BY <1>1, <1>3, <1>4

LEMMA PurgeMoves ==
    ASSUME SynthInv, KeepsHolders, NEW kept, kept \subseteq pool,
           pool' = kept, synths' = Purged(kept)
    PROVE  SynthInv'
<1>1. \A s \in Synths : SameHolders(s, call, eng, call', eng')
  BY DEF KeepsHolders, SameHolders, Holding, Attached
<1>2. \A s \in Synths : SynthSound(s, synths'[s], call', eng', pool')
  BY <1>1, PurgedIsSound, SoundElsewhere
<1>3. SoleHolders(call')
  BY DEF SynthInv, KeepsHolders, SoleHolders, Holding, Attached
<1>4. PoolWithinLimit'
  <2> SUFFICES ASSUME NEW e \in Engines
               PROVE  Cardinality({t \in kept : synths'[t].voice = Voice[e]}) <= PoolLimit
    BY DEF PoolWithinLimit, OfVoice
  <2>1. {t \in kept : synths'[t].voice = Voice[e]} \subseteq OfVoice(e, pool)
    BY PurgedIsSound DEF OfVoice
  <2> QED
    BY <2>1, FewerOfVoice
<1>5. synths' = [s \in Synths |-> synths'[s]] /\ pool' \subseteq Synths
  BY PurgedIsSound DEF SynthInv
<1> QED
  BY <1>2, <1>3, <1>4, <1>5 DEF SynthInv

\* A call is handed a synthesizer.
LEMMA GettingMoves ==
    ASSUME WorkerInv, SynthInv, NEW e \in Engines, call[e].at \in {"acquire", "waiting"},
           NEW p, p \subseteq pool, NEW rest, rest = [s \in Synths |-> rest[s]],
           \A s \in Synths : SynthSound(s, rest[s], call, eng, p),
           \A s \in p : rest[s] = synths[s],
           Gets(e, p, rest), UNCHANGED eng
    PROVE  WorkerInv' /\ SynthInv'
<1> DEFINE c == call[e]
           voice == Voice[e]
<1>1. PICK s \in Synths :
         /\ \/ s \in Idle(e, p) /\ pool' = p
            \/ /\ Idle(e, p) = {} /\ Cardinality(OfVoice(e, p)) < PoolLimit
               /\ s \in Dead(p, rest) /\ pool' = p \union {s}
         /\ synths' = [rest EXCEPT ![s].busy = TRUE, ![s].voice = voice]
         /\ call' = [call EXCEPT ![e].at = "attach", ![e].synth = s]
  BY DEF Gets
<1> DEFINE m == rest[s]
           r == [m EXCEPT !.busy = TRUE, !.voice = voice]
           d == [c EXCEPT !.at = "attach", !.synth = s]
<1>2. /\ c \in CallFields(c) /\ call = [f \in Engines |-> call[f]] /\ c.at \notin Attached
      /\ c.at # "out"
  BY DEF WorkerInv, EngineInv, Attached
<1>3. ~m.busy /\ SynthSound(s, m, call, eng, p)
  BY <1>1 DEF Idle, OfVoice, Dead, Unused
<1>4. call' = [call EXCEPT ![e] = d] /\ synths' = [rest EXCEPT ![s] = r]
  BY <1>1, <1>2
<1>5. voice # "none"
  BY PoolAssumption
<1> HIDE DEF c, m, voice
<1>6. d \in CallFields(d) /\ d.at = "attach" /\ d.synth = s
  BY <1>2 DEF CallFields, Places
<1> HIDE DEF d
<1>7. WorkerInv' /\ call'[e] = d /\ \A f \in Engines \ {e} : call'[f] = call[f]
  BY <1>2, <1>4, <1>6, OneCallMoves DEF c
<1>8. /\ \A f \in Engines : ~Holding(call, f, s)
      /\ m.stopper = "none" /\ AtRest(m) /\ m.params = Nobody /\ m.callback = <<>>
      /\ (m.sdk # "speaking" => m.output = <<>>) /\ m \in SynthFields(m)
  BY <1>3 DEF SynthSound, UsedByWorker, BusyMeansUsed, BoundToCall, CallbackOfCall
<1>9. /\ r \in SynthFields(r) /\ r.voice = voice /\ r.busy /\ AtRest(r)
      /\ r.stopper = "none" /\ r.params = Nobody /\ r.callback = <<>>
      /\ (r.sdk # "speaking" => r.output = <<>>)
  BY <1>8 DEF SynthFields, AtRest
<1> HIDE DEF r
<1>10. /\ \A f \in Engines : Holding(call', f, s) <=> f = e
       /\ call'[e].at = "attach"
  BY <1>6, <1>7, <1>8 DEF Holding, Attached
<1>11. SynthSound(s, r, call', eng', pool')
  BY <1>5, <1>9, <1>10
     DEF SynthSound, UsedByWorker, BusyMeansUsed, BoundToCall, CallbackOfCall
<1>12. \A t \in Synths : synths'[t] = IF t = s THEN r ELSE rest[t]
  BY <1>4
<1>13. synths' = [t \in Synths |-> synths'[t]] /\ pool' \subseteq Synths
  BY <1>1, <1>4 DEF SynthInv
<1>14. \A t \in Synths : SynthSound(t, synths'[t], call', eng', pool')
  <2>1. \A t \in Synths \ {s} : SameHolders(t, call, eng, call', eng')
    BY <1>2, <1>6, <1>7 DEF SameHolders, Holding, c
  <2>2. \A t \in Synths \ {s} : t \in pool' => t \in p
    BY <1>1
  <2>3. \A t \in Synths \ {s} : SynthSound(t, rest[t], call', eng', pool')
    BY <2>1, <2>2, SoundElsewhere
  <2> QED
    BY <1>11, <1>12, <2>3
<1>15. SoleHolders(call')
  <2>1. \A f \in Engines \ {e} : call'[f].at \in Attached => call[f].synth # s
    BY <1>7, <1>8 DEF Holding
  <2> QED
    BY <1>6, <1>7, <2>1 DEF SynthInv, SoleHolders, Holding
<1>16. PoolWithinLimit'
  <2> SUFFICES ASSUME NEW f \in Engines
               PROVE  Cardinality({t \in pool' : synths'[t].voice = Voice[f]}) <= PoolLimit
    BY DEF PoolWithinLimit, OfVoice
  <2> DEFINE now == {t \in pool' : synths'[t].voice = Voice[f]}
  <2>1. \A t \in p \ {s} : synths'[t].voice = synths[t].voice
    BY <1>12 DEF SynthInv
  <2>2. CASE s \in Idle(e, p) /\ pool' = p
    <3>1. now \subseteq OfVoice(f, pool)
      BY <1>9, <1>12, <2>1, <2>2 DEF Idle, OfVoice, voice
    <3> QED
      BY <3>1, FewerOfVoice
  <2>3. CASE Cardinality(OfVoice(e, p)) < PoolLimit /\ pool' = p \union {s}
             /\ Voice[f] = Voice[e]
    <3>1. OfVoice(e, p) \subseteq OfVoice(e, pool)
      BY DEF OfVoice
    <3>2. IsFiniteSet(OfVoice(e, p)) /\ Cardinality(OfVoice(e, p)) \in Nat
      BY <3>1, FewerOfVoice
    <3>3. /\ IsFiniteSet(OfVoice(e, p) \union {s})
          /\ Cardinality(OfVoice(e, p) \union {s}) <= Cardinality(OfVoice(e, p)) + 1
      <4> DEFINE had == OfVoice(e, p)
      <4>1. IsFiniteSet(had) /\ Cardinality(had) \in Nat
        BY <3>2
      <4> HIDE DEF had
      <4>2. /\ IsFiniteSet(had \union {s})
            /\ Cardinality(had \union {s}) <= Cardinality(had) + 1
        <5>1. /\ IsFiniteSet(had \union {s})
              /\ Cardinality(had \union {s}) =
                    IF s \in had THEN Cardinality(had) ELSE Cardinality(had) + 1
          BY <4>1, FS_AddElement, Zenon
        <5> QED
          BY <4>1, <5>1
      <4> QED
        BY <4>2 DEF had
    <3>4. now \subseteq OfVoice(e, p) \union {s}
      BY <2>1, <2>3 DEF OfVoice
    <3>5. Cardinality(now) <= Cardinality(OfVoice(e, p) \union {s})
      BY <3>3, <3>4, FS_Subset
    <3>6. /\ Cardinality(now) \in Nat /\ PoolLimit \in Nat
          /\ Cardinality(OfVoice(e, p) \union {s}) \in Nat
      BY <3>3, <3>4, FS_Subset, FS_CardinalityType, PoolAssumption
    <3> HIDE DEF now
    <3>7. Cardinality(now) <= PoolLimit
      BY <2>3, <3>2, <3>3, <3>5, <3>6
    <3> QED
      BY <3>7 DEF now
  <2>4. CASE pool' = p \union {s} /\ Voice[f] # Voice[e]
    <3>1. now \subseteq OfVoice(f, pool)
      BY <1>9, <1>12, <2>1, <2>4 DEF OfVoice, voice
    <3> QED
      BY <3>1, FewerOfVoice
  <2> QED
    BY <1>1, <2>2, <2>3, <2>4
<1> QED
  BY <1>7, <1>13, <1>14, <1>15, <1>16 DEF SynthInv

LEMMA AcquiringMoves ==
    ASSUME WorkerInv, SynthInv, NEW e \in Engines,
           Acquires(e) \/ Rescans(e) \/ CannotCreate(e)
    PROVE  WorkerInv' /\ SynthInv'
<1>1. OfVoice(e, pool) \subseteq pool
  BY DEF OfVoice
<1>2. CASE Acquires(e)
  <2>1. call[e].at = "acquire" /\ UNCHANGED eng
    BY <1>2 DEF Acquires, At
  <2>2. CASE Gets(e, OfVoice(e, pool), Purged(OfVoice(e, pool)))
    BY <1>1, <2>1, <2>2, PurgedIsSound, GettingMoves
  <2>3. CASE /\ pool' = OfVoice(e, pool) /\ synths' = Purged(OfVoice(e, pool))
             /\ Moves(e, "waiting")
    <3>1. WorkerInv' /\ KeepsHolders
      BY <2>1, <2>3, GoingMoves DEF Places
    <3> QED
      BY <1>1, <2>3, <3>1, PurgeMoves
  <2> QED
    BY <1>2, <2>2, <2>3 DEF Acquires, Purged
<1>3. CASE Rescans(e)
  <2>1. call[e].at = "waiting" /\ UNCHANGED eng /\ Gets(e, pool, synths)
    BY <1>3 DEF Rescans, At
  <2> QED
    BY <2>1, GettingMoves DEF SynthInv
<1>4. CASE CannotCreate(e)
  <2>1. PICK kept \in {OfVoice(e, pool), pool} :
           pool' = kept /\ synths' = Purged(kept)
    BY <1>4 DEF CannotCreate, Purged
  <2>2. WorkerInv' /\ KeepsHolders
    BY <1>4, ReturningMoves DEF CannotCreate
  <2> QED
    BY <1>1, <2>1, <2>2, PurgeMoves
<1> QED
  BY <1>2, <1>3, <1>4
-----------------------------------------------------------------------------
(* The theorems. *)

IInv == WorkerInv /\ SynthInv

LEMMA InitSound == Init => IInv
<1> SUFFICES ASSUME Init
             PROVE  IInv
  OBVIOUS
<1>1. PICK plan \in Plans :
        eng = [e \in Engines |->
                [module |-> FALSE, entry |-> FALSE, host |-> "new", site |-> Nobody,
                 wantsAbort |-> FALSE, abort |-> FALSE, running |-> FALSE, thread |-> "none",
                 request |-> <<>>, told |-> Silence, todo |-> plan[e]]]
  BY DEF Init, WorkerInit
<1>2. /\ call = [e \in Engines |-> NoCall] /\ pool = {}
      /\ synths = [s \in Synths |-> Unused]
  BY DEF Init, WorkerInit, PoolInit
<1>3. WorkerInv
  <2> SUFFICES ASSUME NEW e \in Engines
               PROVE  EngineInv(eng[e], call[e])
    BY <1>1, <1>2 DEF WorkerInv
  <2>1. plan[e] \in Lists /\ Nobody \in 0..MaxSpeaks
    BY PlansAssumption DEF Lists, Nobody
  <2>2. Silence \in ToldFields(Silence)
    BY DEF Silence, ToldFields, Flaws
  <2>3. eng[e] \in EngineFields(eng[e])
    BY <1>1, <2>1, <2>2 DEF EngineFields, Hosts
  <2>4. call[e] \in CallFields(call[e])
    BY <1>2 DEF CallFields, NoCall, Places
  <2>5. EngineSound(eng[e], call[e])
    BY <1>1, <1>2 DEF EngineSound, NoCall, Speaking
  <2> QED
    BY <2>3, <2>4, <2>5 DEF EngineInv
<1>4. SoleHolders(call)
  BY <1>2 DEF SoleHolders, NoCall, Attached
<1>5. \A s \in Synths : SynthSound(s, synths[s], call, eng, pool)
  <2> SUFFICES ASSUME NEW s \in Synths
               PROVE  SynthSound(s, Unused, call, eng, pool)
    BY <1>2
  <2>1. \A e \in Engines : ~Holding(call, e, s)
    BY <1>2 DEF Holding, NoCall, Attached
  <2>2. Unused \in SynthFields(Unused)
    BY DEF Unused, SynthFields
  <2>3. /\ ~Unused.busy /\ Unused.stopper = "none" /\ Unused.sdk = "idle"
        /\ Unused.params = Nobody /\ Unused.callback = <<>> /\ Unused.output = <<>>
    BY DEF Unused
  <2> QED
    BY <1>2, <2>1, <2>2, <2>3
       DEF SynthSound, UsedByWorker, BusyMeansUsed, BoundToCall, CallbackOfCall, AtRest
<1>6. PoolWithinLimit
  <2>1. \A e \in Engines : OfVoice(e, pool) = {}
    BY <1>2 DEF OfVoice
  <2> QED
    BY <2>1, FS_EmptySet, PoolAssumption DEF PoolWithinLimit
<1> QED
  BY <1>2, <1>3, <1>4, <1>5, <1>6 DEF IInv, SynthInv

LEMMA StepSound == IInv /\ [Next]_vars => IInv'
<1> SUFFICES ASSUME WorkerInv, SynthInv, [Next]_vars
             PROVE  WorkerInv' /\ SynthInv'
  BY DEF IInv
<1>1. CASE UNCHANGED vars
  <2>1. UNCHANGED <<eng, call, pool, synths>>
    BY <1>1 DEF vars
  <2>2. WorkerInv'
    BY <2>1 DEF WorkerInv
  <2>3. KeepsHolders
    BY <2>1 DEF KeepsHolders
  <2> QED
    BY <2>1, <2>2, <2>3, PoolAtRest
<1>2. ASSUME NEW e \in Engines, EngineNext(e)
      PROVE  WorkerInv' /\ SynthInv'
  <2>1. CASE (HostChoices(e) \/ HostSteps(e)) /\ UNCHANGED <<pool, synths>>
    BY <2>1, HostChoicesMove, PoolAtRest
  <2>2. CASE WorkerSteps(e) /\ UNCHANGED <<pool, synths>>
    BY <2>2, WorkerStepsMove, PoolAtRest
  <2>3. CASE Mock!MockSteps(e) /\ UNCHANGED <<pool, synths>>
    BY <2>3, MockStepsMove, PoolAtRest
  <2>4. CASE AzureEnters(e) \/ Bypasses(e) \/ GivesUp(e)
    BY <2>4, PreparingMoves, PoolAtRest
  <2>5. CASE Acquires(e) \/ Rescans(e) \/ CannotCreate(e)
    BY <2>5, AcquiringMoves
  <2>6. CASE Attaches(e)
    BY <2>6, AttachingMoves
  <2>7. CASE Finishes(e) \/ Abandons(e) \/ AttachThrows(e) \/ AbandonThrows(e)
    BY <2>7, FinishingMoves
  <2> QED
    BY <1>2, <2>1, <2>2, <2>3, <2>4, <2>5, <2>6, <2>7
       DEF EngineNext, ThreadSteps, CallSteps, CallFaults
<1>3. ASSUME NEW s \in Synths, SynthNext(s)
      PROVE  WorkerInv' /\ SynthInv'
  <2>1. CASE StopperSteps(s) \/ SdkEnds(s) \/ LeftoverEnds(s)
    BY <2>1, StoppingMoves
  <2>2. CASE CallbackBegins(s)
    BY <2>2, CallbackBeginMoves
  <2>3. CASE CallbackEnds(s)
    BY <2>3, CallbackEndMoves
  <2> QED
    BY <1>3, <2>1, <2>2, <2>3 DEF SynthNext, HandlerSteps
<1> QED
  BY <1>1, <1>2, <1>3 DEF Next

\* Everything that is reached satisfies the invariant.
LEMMA Sound == Spec => []IInv
BY InitSound, StepSound, PTL DEF Spec

\* Busy and used go together, one user at a time.
LEMMA OneUserEach ==
    ASSUME WorkerInv, SynthInv
    PROVE  OneUser
<1> SUFFICES ASSUME NEW s \in Synths
             PROVE  Cardinality(Users(s)) = IF synths[s].busy THEN 1 ELSE 0
  BY DEF OneUser
<1>1. /\ UsedByWorker(s, synths[s], call) /\ BusyMeansUsed(s, synths[s], call)
      /\ \A e, f \in Engines : Holding(call, e, s) /\ Holding(call, f, s) => e = f
      /\ synths[s] \in SynthFields(synths[s])
  BY DEF SynthInv, SynthSound, SoleHolders, Holding
<1>2. \A e \in Engines : Holds(e, s) <=> Holding(call, e, s)
  BY DEF Holds, Holding, Attached
<1>3. CASE ~synths[s].busy
  <2>1. Users(s) = {}
    BY <1>1, <1>2, <1>3 DEF Users, BusyMeansUsed
  <2> QED
    BY <1>3, <2>1, FS_EmptySet
<1>4. CASE synths[s].busy
  <2>1. \E u : Users(s) = {u}
    <3>1. CASE synths[s].stopper # "none"
      <4>1. Users(s) = {<<"stopper", s>>}
        BY <1>1, <1>2, <3>1 DEF Users, UsedByWorker
      <4> QED
        BY <4>1
    <3>2. CASE synths[s].stopper = "none"
      <4>1. PICK e \in Engines : Holding(call, e, s)
        BY <1>1, <1>4, <3>2 DEF BusyMeansUsed
      <4>2. Users(s) = {<<"worker", e>>}
        BY <1>1, <1>2, <3>2, <4>1 DEF Users
      <4> QED
        BY <4>2
    <3> QED
      BY <3>1, <3>2
  <2> QED
    BY <1>4, <2>1, FS_Singleton
<1> QED
  BY <1>3, <1>4

LEMMA OneCallback ==
    ASSUME NEW r, NEW g, CallbackOfCall(r, g)
    PROVE  /\ Len(r.callback) <= 1
           /\ r.callback # <<>> =>
                 /\ r.params # Nobody /\ r.callback[1].to = r.params
                 /\ r.callback[1].site = g[r.callback[1].to].site
<1>1. CASE r.callback = <<>>
  BY <1>1
<1>2. CASE r.callback # <<>>
  <2>1. PICK item : r.callback =
                       <<[to |-> r.params, site |-> g[r.params].site, item |-> item]>>
    BY <1>2 DEF CallbackOfCall
  <2> DEFINE note == [to |-> r.params, site |-> g[r.params].site, item |-> item]
  <2>2. note.to = r.params /\ note.site = g[r.params].site
    OBVIOUS
  <2> HIDE DEF note
  <2>3. r.callback = <<note>>
    BY <2>1 DEF note
  <2>4. Len(r.callback) = 1 /\ r.callback[1] = note
    BY <2>3
  <2> QED
    BY <1>2, <2>2, <2>4 DEF CallbackOfCall
<1> QED
  BY <1>1, <1>2

\* For any number of engines, requests and synthesizers, and whatever fails, the
\* pool hands a synthesizer to one user at a time, gets it back at rest (unless the
\* aborted call could create no thread to wait for the SDK) and holds no more of a
\* voice than its limit (SynthesizerPool.cpp, AcquireSynthesizer and
\* ReleaseSynthesizer); every state has its types.
THEOREM PoolSoundHolds == Spec => []PoolSound
<1>1. IInv => PoolSound
  <2> SUFFICES ASSUME WorkerInv, SynthInv
               PROVE  PoolSound
    BY DEF IInv
  <2>1. WorkerTypeOK
    <3>1. \A e \in Engines : eng[e] \in EngineFields(eng[e]) /\ call[e] \in CallFields(call[e])
      BY DEF WorkerInv, EngineInv
    <3> QED
      BY <3>1 DEF WorkerTypeOK, EngineFields, CallFields, Lists, Hosts, Places, ToldFields
  <2>2. PoolTypeOK
    <3> SUFFICES ASSUME NEW s \in Synths
                 PROVE  /\ synths[s].busy \in BOOLEAN /\ synths[s].heard \in BOOLEAN
                        /\ synths[s].leftover \in BOOLEAN
                        /\ synths[s].sdk \in {"idle", "speaking", "completed", "cancelled"}
                        /\ synths[s].stopper \in {"none", "stopping", "waiting"}
                        /\ Len(synths[s].callback) <= 1
                        /\ synths[s] = Unused => s \notin pool
      BY DEF PoolTypeOK, SynthInv
    <3>1. SynthSound(s, synths[s], call, eng, pool)
      BY DEF SynthInv
    <3>2. Len(synths[s].callback) <= 1
      BY <3>1, OneCallback DEF SynthSound
    <3>3. synths[s] = Unused => s \notin pool
      BY <3>1 DEF SynthSound, Unused
    <3> QED
      BY <3>1, <3>2, <3>3 DEF SynthSound, SynthFields
  <2>3. FreeIsQuiet
    BY DEF FreeIsQuiet, SynthInv, SynthSound, UsedByWorker, BusyMeansUsed, BoundToCall,
           CallbackOfCall, AtRest
  <2> QED
    BY <2>1, <2>2, <2>3, OneUserEach DEF PoolSound, TypeOK, SynthInv
<1> QED
  BY <1>1, Sound, PTL

\* provider_abi.h, for every engine and synthesizer: a handler is bound to a
\* parameter block only while the ProviderSpeak it was passed to lasts, a callback
\* under way belongs to such a call, and the DLL of a call stays loaded.
THEOREM ParamsOutliveUseHolds == Spec => []ParamsOutliveUse
<1>1. IInv => ParamsOutliveUse
  <2> SUFFICES ASSUME WorkerInv, SynthInv
               PROVE  ParamsOutliveUse
    BY DEF IInv
  <2>1. ASSUME NEW s \in Synths
        PROVE  /\ synths[s].params # Nobody => Holds(synths[s].params, s)
               /\ synths[s].callback # <<>> => Holds(synths[s].callback[1].to, s)
    <3>1. BoundToCall(s, synths[s], call) /\ CallbackOfCall(synths[s], eng)
      BY DEF SynthInv, SynthSound
    <3>2. synths[s].params # Nobody => Holds(synths[s].params, s)
      BY <3>1 DEF BoundToCall, Holding, Holds, Attached
    <3>3. synths[s].callback # <<>> => /\ synths[s].callback[1].to = synths[s].params
                                       /\ synths[s].params # Nobody
      BY <3>1, OneCallback
    <3> QED
      BY <3>2, <3>3
  <2>2. \A e \in Engines : call[e].at # "out" => eng[e].module
    BY DEF WorkerInv, EngineInv, EngineSound
  <2> QED
    BY <2>1, <2>2 DEF ParamsOutliveUse
<1> QED
  BY <1>1, Sound, PTL

\* Whatever a provider hands up, on the worker or on a thread of the SDK, reaches
\* the site of the Speak it was made for, before that Speak gives the site back.
THEOREM NothingStrayHolds == Spec => []NothingStray
<1>1. IInv => NothingStray
  <2> SUFFICES ASSUME WorkerInv, SynthInv
               PROVE  NothingStray
    BY DEF IInv
  <2>1. \A e \in Engines : ~eng[e].told.stray
    BY DEF WorkerInv, EngineInv, EngineFields, ToldFields
  <2>2. ASSUME NEW s \in Synths, synths[s].callback # <<>>
        PROVE  synths[s].callback[1].site = eng[synths[s].callback[1].to].site
    BY <2>2, OneCallback DEF SynthInv, SynthSound
  <2> QED
    BY <2>1, <2>2 DEF NothingStray
<1> QED
  BY <1>1, Sound, PTL
=============================================================================
