---------------------------- MODULE SapiEngineV1 ----------------------------
(***************************************************************************)
(* The first version of the adapter: engine objects of one process, the    *)
(* workers they start, and the mock or the Azure provider DLL under them.  *)
(***************************************************************************)
EXTENDS AzureProvider

CONSTANT Blocks

Mock == INSTANCE MockProviderV1

vars == <<eng, call, pool, synths>>

Init == WorkerInit /\ PoolInit

HostSteps(e) == Polls(e) \/ Leaves(e)

HostChoices(e) ==
    \/ Loads(e) \/ FailsToLoad(e) \/ SpeakStarts(e) \/ SpeakThrows(e) \/ SapiAborts(e)
    \/ Destroys(e)

WorkerSteps(e) == CallsProvider(e) \/ WorkerFinishes(e)

ThreadSteps(e) ==
    \/ (HostSteps(e) \/ WorkerSteps(e)) /\ UNCHANGED <<pool, synths>>
    \/ Mock!MockSteps(e) /\ UNCHANGED <<pool, synths>>
    \/ CallSteps(e)

EngineNext(e) ==
    \/ HostChoices(e) /\ UNCHANGED <<pool, synths>>
    \/ ThreadSteps(e) \/ CallFaults(e)

SynthNext(s) == HandlerSteps(s) \/ StopperSteps(s) \/ SdkEnds(s) \/ LeftoverEnds(s)

Next == (\E e \in Engines : EngineNext(e)) \/ (\E s \in Synths : SynthNext(s))

Spec == Init /\ [][Next]_vars

\* While a host thread, a worker or a site in a callback can go on, one of them
\* does; of the SDK nothing is assumed.
Fairness ==
    WF_vars((\E e \in Engines : ThreadSteps(e)) \/ (\E s \in Synths : CallbackEnds(s)))

FairSpec == Spec /\ Fairness
-----------------------------------------------------------------------------
(* Types of the whole. *)
TypeOK == WorkerTypeOK /\ PoolTypeOK

Holds(e, s) == call[e].synth = s /\ call[e].at \in {"attach", "talking"}

Users(s) ==
    {<<"worker", e>> : e \in {e \in Engines : Holds(e, s)}}
       \union (IF synths[s].stopper # "none" THEN {<<"stopper", s>>} ELSE {})

\* A pooled synthesizer is marked busy exactly while one thread uses it: the
\* worker it was handed to, or the detached thread that stops it.  Two
\* requests never drive one synthesizer, and none is lost to the pool.
OneUser == \A s \in Synths : Cardinality(Users(s)) = (IF synths[s].busy THEN 1 ELSE 0)

\* A synthesizer that is free to be handed out is silent: no request's
\* parameters are bound to it, no callback is under way, its SDK side is at
\* rest and none is left to come; but for one an aborted call gave back because
\* it could create no thread to wait for the SDK.
FreeIsQuiet ==
    \A s \in Synths : ~synths[s].busy =>
       /\ synths[s].params = Nobody /\ synths[s].callback = <<>>
       /\ ~synths[s].leftover => synths[s].sdk = "idle" /\ synths[s].output = <<>>

\* The pool never holds more synthesizers of one voice than its limit.
PoolWithinLimit ==
    \A e \in Engines : Cardinality(OfVoice(e, pool)) <= PoolLimit

\* The pool gives a synthesizer to one user at a time, takes it back at rest, and
\* keeps to its limit; and the state has its types.
PoolSound == TypeOK /\ OneUser /\ FreeIsQuiet /\ PoolWithinLimit

\* provider_abi.h: the parameter block lives only as long as the call of
\* ProviderSpeak.  A handler is bound to a block only while that call lasts,
\* and a callback under way belongs to a call that has not returned.  The DLL
\* stays in memory while a worker is inside it.
ParamsOutliveUse ==
    /\ \A s \in Synths :
          /\ synths[s].params # Nobody => Holds(synths[s].params, s)
          /\ synths[s].callback # <<>> => Holds(synths[s].callback[1].to, s)
    /\ \A e \in Engines : call[e].at # "out" => eng[e].module

\* What the provider hands up reaches the site of its own request, before
\* Speak gives that site back.
NothingStray ==
    /\ \A e \in Engines : ~eng[e].told.stray
    /\ \A s \in Synths : synths[s].callback # <<>> =>
          synths[s].callback[1].site = eng[synths[s].callback[1].to].site

\* A word event names the place in the application's text where its word is,
\* further on by just as much as the earlier characters of its own fragment are
\* longer in the document: an entity moves the words behind it, against what
\* v1/CoreEngine/README.md says, but only those of its fragment, and neither
\* spaces nor tags nor other fragments move any.
WordsWhereTheyWere ==
    \A e \in Engines : "mixed" \notin eng[e].told.flaws =>
       \A w \in eng[e].told.words : w[1] = w[2] + w[3]

Marks(q) == [i \in DOMAIN SelectSeq(q, LAMBDA f : f.action = "bookmark") |->
               SelectSeq(q, LAMBDA f : f.action = "bookmark")[i].text]

Sounds(audio) == Cardinality({i \in DOMAIN audio : audio[i] = "sound"})

\* A request whose provider call returned true without an abort has handed its
\* site every bookmark, in order, and the audio of every word.  From the mock
\* provider the site has taken all of it; the Azure provider returns true too
\* when the site refused audio, and what it refused is not heard.  An Azure
\* request begins with its first sound: no leading silence is handed to the
\* site, whatever request the synthesizer served before.  Only a synthesizer
\* given back while it speaks mixes two requests.
ToldInFull ==
    \A e \in Engines : LET told == eng[e].told IN "mixed" \notin told.flaws =>
       /\ Dll[e] = "azure" /\ told.audio # <<>> => Head(told.audio) = "sound"
       /\ call[e].at = "returned" /\ call[e].ok /\ ~eng[e].abort /\ ~eng[e].wantsAbort =>
             /\ told.marks = Marks(Request(e))
             /\ Dll[e] = "azure" =>
                   Sounds(told.audio) = Cardinality({i \in 2 .. Len(Parsed(e).doc) :
                                                        WordBegins(Parsed(e).doc, i)})
             /\ Dll[e] = "mock" =>
                   /\ told.flaws = {}
                   /\ Len(told.audio) = Blocks * (Len(Request(e)) - Len(Marks(Request(e))))

\* The prosody under which the i-th token is read.
Heard(doc, i) ==
    LET tags == {j \in 1 .. i : doc[j].tag \in {"prosody", "/prosody"}}
    IN  IF tags = {} THEN "plain"
        ELSE LET j == CHOOSE j \in tags : \A k \in tags : k <= j IN doc[j].prosody

\* The document: prosody elements opened and closed in turn, none left open,
\* and every character read under the prosody of its own fragment.
ProsodyFits ==
    \A e \in Engines : At(e, "attach") =>
       LET doc == Parsed(e).doc
           tags == SelectSeq(doc, LAMBDA t : t.tag \in {"prosody", "/prosody"})
       IN  /\ Len(tags) % 2 = 0
           /\ \A i \in DOMAIN tags : tags[i].tag = (IF i % 2 = 1 THEN "prosody" ELSE "/prosody")
           /\ \A i \in DOMAIN doc : doc[i].tag = "char" => Heard(doc, i) = doc[i].prosody

\* What the parser inserts changes where the application finds its words by
\* nothing but the entities of their own fragment, and how its fragments are read
\* not at all.
DocumentFits == WordsWhereTheyWere /\ ProsodyFits

\* An aborted Speak returns, however silent the SDK is and however full the
\* pool: the worker leaves the SDK to a detached thread.  A plan has finitely
\* many calls, so some day none is left waiting for its worker.
AbortReturns == <>[](\A e \in Engines : eng[e].host # "stopping")
=============================================================================
