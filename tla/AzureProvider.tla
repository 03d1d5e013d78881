--------------------------- MODULE AzureProvider ----------------------------
(***************************************************************************)
(* v1/AzureEmbeddedSpeechProvider: ProviderSpeak with the pool of          *)
(* synthesizers (SynthesizerPool.cpp), the stream handler of each and the  *)
(* cancellation that outlives its call (AzureEmbeddedSynthesizer.cpp).     *)
(* The speech SDK is external: while it speaks it hands audio and events   *)
(* to the handler on a thread of its own, and its future is ready after    *)
(* the last of them.  Regions under s_poolMutex are one action; a callback *)
(* holds m_contextMutex from the action that begins it to the one that     *)
(* ends it.                                                                *)
(***************************************************************************)
EXTENDS SpeechWorkerV1, SapiSsmlParser

CONSTANTS
    Voice,          \* the VoiceId of each engine's token
    PoolLimit,      \* synthesizers of one voice in the pool; two in the code
    Synths          \* bound: synthesizers alive at the same time, 1 .. n

ASSUME PoolAssumption ==
    /\ IsFiniteSet(Synths) /\ PoolLimit \in Nat
    /\ \A e \in Engines : Voice[e] # "none"

VARIABLES
    pool,           \* s_pool: the synthesizers in it
    synths          \* each synthesizer with its handler, its SDK side, the
                    \* detached thread that stops it, and whether the SDK may
                    \* still speak for a call that gave it back (leftover)

Unused == [voice |-> "none", busy |-> FALSE, params |-> Nobody, map |-> <<>>,
           heard |-> FALSE, sdk |-> "idle", output |-> <<>>, callback |-> <<>>,
           stopper |-> "none", leftover |-> FALSE]

PoolTypeOK ==
    /\ pool \subseteq Synths
    /\ \A s \in Synths :
          /\ {synths[s].busy, synths[s].heard, synths[s].leftover} \subseteq BOOLEAN
          /\ synths[s].sdk \in {"idle", "speaking", "completed", "cancelled"}
          /\ synths[s].stopper \in {"none", "stopping", "waiting"}
          /\ Len(synths[s].callback) <= 1
          /\ synths[s] = Unused => s \notin pool

PoolInit == pool = {} /\ synths = [s \in Synths |-> Unused]

Request(e) == eng[e].request

\* Every request of the plans with what the parser makes of it.
Documents == [q \in Requests |-> Parse(ProviderFragments(q))]

Parsed(e) == Documents[Request(e)]

At(e, place) == call[e].at = place

Moves(e, place) == call' = [call EXCEPT ![e].at = place]

\* A synthesizer nobody refers to any more is freed.
Settled(s, record) == IF ~record.busy /\ s \notin pool THEN Unused ELSE record
-----------------------------------------------------------------------------
(* AzureEmbeddedSynthesizer::Speak before it needs a synthesizer.          *)

AzureEnters(e) ==
    /\ Dll[e] = "azure" /\ At(e, "entry")
    /\ Moves(e, IF Parsed(e).speakable THEN "acquire" ELSE "bypass")
    /\ UNCHANGED <<eng, pool, synths>>

\* Nothing to speak: the bookmarks are reported one by one.
Bypasses(e) ==
    /\ At(e, "bypass")
    /\ IF call[e].frag > Len(Request(e))
       THEN call' = Returned(e, TRUE) /\ UNCHANGED eng
       ELSE LET f == Request(e)[call[e].frag]
                mark == [kind |-> "mark", what |-> f.text]
            IN  /\ call' = [call EXCEPT ![e].frag = @ + 1]
                /\ eng' = IF f.action = "bookmark" /\ Admits(e, mark)
                          THEN Delivers(e, eng[e].site, mark, {}) ELSE eng
    /\ UNCHANGED <<pool, synths>>
-----------------------------------------------------------------------------
(* AcquireSynthesizer.                                                     *)

OfVoice(e, p) == {s \in p : synths[s].voice = Voice[e]}

Idle(e, p) == {s \in OfVoice(e, p) : ~synths[s].busy}

Dead(p, rest) == {s \in Synths \ p : rest[s] = Unused}

\* The call leaves the lock with a synthesizer, if one can be had.
Gets(e, p, rest) ==
    \E s \in Synths :
       /\ \/ s \in Idle(e, p) /\ pool' = p
          \/ /\ Idle(e, p) = {} /\ Cardinality(OfVoice(e, p)) < PoolLimit
             /\ s \in Dead(p, rest) /\ \A t \in Dead(p, rest) : s <= t
             /\ pool' = p \union {s}
       /\ synths' = [rest EXCEPT ![s].busy = TRUE, ![s].voice = Voice[e]]
       /\ call' = [call EXCEPT ![e].at = "attach", ![e].synth = s]

CannotGet(e, p) == Idle(e, p) = {} /\ Cardinality(OfVoice(e, p)) >= PoolLimit

\* The scan of the pool, after its synthesizers of other voices were dropped.
Acquires(e) ==
    /\ At(e, "acquire")
    /\ LET kept == OfVoice(e, pool)
           rest == [s \in Synths |-> IF s \in pool \ kept /\ ~synths[s].busy
                                     THEN Unused ELSE synths[s]]
       IN  \/ Gets(e, kept, rest)
           \/ /\ CannotGet(e, kept)
              /\ pool' = kept /\ synths' = rest
              /\ Moves(e, "waiting")
    /\ UNCHANGED eng

\* A wake-up, or 50 ms without an abort, that finds what the waiter needs.
\* The pool is not purged again.
Rescans(e) ==
    /\ At(e, "waiting") /\ Gets(e, pool, synths)
    /\ UNCHANGED eng

\* Mutant: the flag is looked at only where nothing else is wanted.
GivesUpIfEmpty(e) ==
    /\ At(e, "waiting") /\ eng[e].abort /\ pool = {}
    /\ call' = Returned(e, TRUE)
    /\ UNCHANGED <<eng, pool, synths>>

\* 50 ms passed and the request is aborted.
GivesUp(e) ==
    /\ At(e, "waiting") /\ eng[e].abort
    /\ call' = Returned(e, TRUE)
    /\ UNCHANGED <<eng, pool, synths>>

\* The SDK cannot create the synthesizer.
CannotCreate(e) ==
    /\ "noSynth" \in Faults /\ call[e].at \in {"acquire", "waiting"}
    /\ LET kept == IF At(e, "acquire") THEN OfVoice(e, pool) ELSE pool IN
       /\ Idle(e, kept) = {} /\ Cardinality(OfVoice(e, kept)) < PoolLimit
       /\ pool' = kept
       /\ synths' = [s \in Synths |-> IF s \in pool \ kept /\ ~synths[s].busy
                                      THEN Unused ELSE synths[s]]
    /\ call' = Returned(e, FALSE)
    /\ UNCHANGED eng
-----------------------------------------------------------------------------
(* The handler bound to the call, and the wait for the future.             *)

Mine(e) == synths[call[e].synth]

\* What the SDK makes of a document: a word event where a word begins, a
\* bookmark event, and two buffers for each text, quiet before it sounds.
WordBegins(doc, i) ==
    /\ doc[i].char = "letter"
    /\ doc[i - 1].char # "letter"

TokenOutput(doc, i) ==
    CASE doc[i].tag = "bookmark" -> <<[kind |-> "mark", what |-> doc[i].name]>>
      [] doc[i].tag = "char" /\ WordBegins(doc, i) ->
            <<[kind |-> "word",
               what |-> <<Width(SubSeq(doc, 1, i - 1)), doc[i].src, doc[i].shift>>],
              [kind |-> "audio", what |-> "quiet"], [kind |-> "audio", what |-> "sound"]>>
      [] OTHER -> <<>>

Outputs ==
    [q \in DOMAIN Documents |->
       LET doc == Documents[q].doc
       IN  FlattenSeq([i \in DOMAIN doc |-> TokenOutput(doc, i)])]

AttachContext(e) ==
    [Mine(e) EXCEPT !.params = e, !.map = Parsed(e).map, !.heard = FALSE]

Detached(record) == [record EXCEPT !.params = Nobody, !.map = <<>>]

\* SpeakSsmlAsync; the SDK speaks one text after the other.
Attaches(e) ==
    /\ At(e, "attach")
    /\ synths' = [synths EXCEPT ![call[e].synth] =
                    [AttachContext(e) EXCEPT !.sdk = "speaking",
                                             !.output = @ \o Outputs[Request(e)]]]
    /\ Moves(e, "talking")
    /\ UNCHANGED <<eng, pool>>

\* SpeakSsmlAsync throws: detached, released, FALSE.
AttachThrows(e) ==
    /\ "noSpeak" \in Faults /\ At(e, "attach")
    /\ LET s == call[e].synth
           record == [Detached(AttachContext(e)) EXCEPT !.busy = FALSE]
       IN  synths' = [synths EXCEPT ![s] = Settled(s, record)]
    /\ call' = Returned(e, FALSE)
    /\ UNCHANGED <<eng, pool>>

\* Mutant: the first 50 ms are taken for the end of the synthesis.
FinishesUnready(e) ==
    /\ At(e, "talking") /\ Mine(e).callback = <<>>
    /\ synths' = [synths EXCEPT ![call[e].synth] = [Detached(@) EXCEPT !.stopper = "waiting"]]
    /\ call' = Returned(e, Mine(e).sdk # "cancelled")
    /\ UNCHANGED <<eng, pool>>

\* The future is ready: detached, released, TRUE unless it was cancelled.
Finishes(e) ==
    /\ At(e, "talking") /\ Mine(e).sdk \in {"completed", "cancelled"}
    /\ LET s == call[e].synth
           record == [Detached(Mine(e)) EXCEPT !.busy = FALSE, !.sdk = "idle",
                                               !.leftover = FALSE]
       IN  synths' = [synths EXCEPT ![s] = Settled(s, record)]
    /\ call' = Returned(e, Mine(e).sdk = "completed")
    /\ UNCHANGED <<eng, pool>>

\* Mutant: the abort path leaves the handler attached.
AbandonsAttached(e) ==
    /\ At(e, "talking") /\ eng[e].abort
    /\ synths' = [synths EXCEPT ![call[e].synth].stopper = "stopping"]
    /\ call' = Returned(e, TRUE)
    /\ UNCHANGED <<eng, pool>>

\* Another 50 ms without the future and the flag is set: DetachContext waits
\* for the callback under way, a detached thread takes the synthesizer.
Abandons(e) ==
    /\ At(e, "talking") /\ eng[e].abort /\ Mine(e).callback = <<>>
    /\ synths' = [synths EXCEPT ![call[e].synth] =
                    [Detached(@) EXCEPT !.stopper = "stopping"]]
    /\ call' = Returned(e, TRUE)
    /\ UNCHANGED <<eng, pool>>

\* That thread cannot be created: the catch returns FALSE and the guard gives
\* the synthesizer back, though the SDK may still speak.
AbandonThrows(e) ==
    /\ "noThread" \in Faults
    /\ At(e, "talking") /\ eng[e].abort /\ Mine(e).callback = <<>>
    /\ LET s == call[e].synth
           speaking == Mine(e).sdk = "speaking"
           record == [Detached(Mine(e)) EXCEPT !.busy = FALSE, !.leftover = speaking,
                                               !.sdk = IF speaking THEN @ ELSE "idle"]
       IN  synths' = [synths EXCEPT ![s] = Settled(s, record)]
    /\ call' = Returned(e, FALSE)
    /\ UNCHANGED <<eng, pool>>
-----------------------------------------------------------------------------
(* The detached thread.                                                    *)

\* StopSpeakingAsync is answered; it may also throw, which changes nothing.
StopperStops(s) ==
    /\ synths[s].stopper = "stopping" /\ synths[s].callback = <<>>
    /\ \E stopped \in {TRUE} \union (IF "noStop" \in Faults THEN {FALSE} ELSE {}) :
          synths' = [synths EXCEPT ![s].stopper = "waiting",
                                   ![s].output = IF stopped THEN <<>> ELSE @]
    /\ UNCHANGED <<eng, call, pool>>

\* Mutant: released when the stop is answered, before the future is ready.
StopperReleasesEarly(s) ==
    /\ synths[s].stopper = "waiting"
    /\ synths' = [synths EXCEPT ![s] = Settled(s, [@ EXCEPT !.stopper = "none", !.busy = FALSE])]
    /\ UNCHANGED <<eng, call, pool>>

\* The future is ready: ReleaseSynthesizer.
StopperReleases(s) ==
    /\ synths[s].stopper = "waiting" /\ synths[s].sdk \in {"completed", "cancelled"}
    /\ synths' = [synths EXCEPT ![s] = Settled(s, [@ EXCEPT !.stopper = "none",
                                                            !.busy = FALSE, !.sdk = "idle",
                                                            !.leftover = FALSE])]
    /\ UNCHANGED <<eng, call, pool>>
-----------------------------------------------------------------------------
(* The SDK's thread inside AudioStreamHandler.                             *)

Owner(s) == synths[s].params

Quiet(item) == item.kind = "audio" /\ item.what = "quiet"

\* The item as the handler passes it on.
Mapped(s, item) ==
    IF item.kind = "word"
    THEN [item EXCEPT !.what[1] = ReverseMapOffset(item.what[1], synths[s].map)]
    ELSE item

\* Write drops leading silence; FindLeadingAudioOffset tells quiet from sound.
Passes(s, item) ==
    /\ Owner(s) # Nobody
    /\ Admits(Owner(s), item)
    /\ Quiet(item) => synths[s].heard

Hears(s, item) ==
    synths[s].heard \/ (item.kind = "audio" /\ item.what = "sound" /\ Owner(s) # Nobody
                          /\ ~eng[Owner(s)].abort)

CallbackBegins(s) ==
    /\ synths[s].sdk = "speaking" /\ synths[s].output # <<>> /\ synths[s].callback = <<>>
    /\ LET item == Head(synths[s].output) IN
       synths' = [synths EXCEPT
                    ![s].output = Tail(@), ![s].heard = Hears(s, item),
                    ![s].callback = IF Passes(s, item)
                                    THEN <<[to |-> Owner(s), site |-> eng[Owner(s)].site,
                                            item |-> Mapped(s, item)]>>
                                    ELSE <<>>]
    /\ UNCHANGED <<eng, call, pool>>

\* The site's Write or AddEvents returns and the context is unlocked.  Write
\* answers 0 for refused audio; what the SDK makes of that is its own affair.
CallbackEnds(s) ==
    /\ synths[s].callback # <<>>
    /\ LET c == synths[s].callback[1]
           old == IF synths[s].leftover THEN {"mixed"} ELSE {}
       IN  \E flaws \in SiteFlaws(c.item) : eng' = Delivers(c.to, c.site, c.item, flaws \union old)
    /\ synths' = [synths EXCEPT ![s].callback = <<>>]
    /\ UNCHANGED <<call, pool>>

\* All is said; or the SDK cancels the synthesis on its own.
SdkEnds(s) ==
    /\ synths[s].busy /\ synths[s].sdk = "speaking" /\ synths[s].callback = <<>>
    /\ \/ /\ synths[s].output = <<>>
          /\ synths' = [synths EXCEPT ![s].sdk = "completed"]
       \/ /\ "sdkCancels" \in Faults
          /\ synths' = [synths EXCEPT ![s].sdk = "cancelled", ![s].output = <<>>]
    /\ UNCHANGED <<eng, call, pool>>

\* The same for a synthesis nobody waits for.
LeftoverEnds(s) ==
    /\ ~synths[s].busy /\ synths[s].leftover
    /\ synths[s].output = <<>> \/ "sdkCancels" \in Faults
    /\ synths' = [synths EXCEPT ![s].sdk = "idle", ![s].output = <<>>, ![s].leftover = FALSE]
    /\ UNCHANGED <<eng, call, pool>>
-----------------------------------------------------------------------------
CallSteps(e) ==
    \/ AzureEnters(e) \/ Bypasses(e) \/ Acquires(e) \/ Rescans(e) \/ GivesUp(e)
    \/ Attaches(e) \/ Finishes(e) \/ Abandons(e)

CallFaults(e) == CannotCreate(e) \/ AttachThrows(e) \/ AbandonThrows(e)

HandlerSteps(s) == CallbackBegins(s) \/ CallbackEnds(s)

StopperSteps(s) == StopperStops(s) \/ StopperReleases(s)
=============================================================================
