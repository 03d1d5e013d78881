----------------------------- MODULE Contract_proofs -----------------------------
(***************************************************************************)
(* What a provider that keeps its contract makes true of a session: its    *)
(* control and audio pipes hold nothing but the request in use, and        *)
(* nothing at all when the next one may start.  The host may abort, SAPI   *)
(* refuse audio, requests fail, memory run out, writes fail, time pass and *)
(* the provider die; only a provider that departs from the contract and a  *)
(* caller that stops the worker behind Speak's back are left out.          *)
(***************************************************************************)
EXTENDS SapiEngine_proofs

ContractKept == Env \cap (Deviations \cup {"direct"}) = {}
-----------------------------------------------------------------------------
(* The request of a call.                                                  *)

AfterStart == {"send", "wait", "sendCancel", "drain"}

\* A call works on the request it started, and no other request is in use.
OwnerInv ==
    /\ pc["speak"] \in AfterStart => ctx.speakId = speakCounter
    /\ InUse(ctx) => ctx.speakId = speakCounter

\* Speak's thread reaches the places after the start only through it.
LEMMA SpeakGoesOn ==
    ASSUME TypeInv, [Next]_vars, ~Starts
    PROVE  /\ pc'["speak"] \in AfterStart => pc["speak"] \in AfterStart
           /\ speakCounter' # speakCounter => SpeakBegins
<1>1. pc \in [Threads -> Place] /\ "speak" \in Threads
  BY DEF TypeInv, TypeOK, Threads, Callers
<1>2. CASE ~SpeakThread
  BY <1>2, OthersLeaveCall DEF engineVars
<1>3. CASE SpeakThread
  <2>1. speakCounter' # speakCounter => SpeakBegins
    BY <1>3 DEF SpeakThread, SetsObjectToken, CreatesSession, FindsSessionActive,
                BeginsRetirement, Retires, RecreatesSession, HasNoSession, StartRefused, SendsSpeak,
                SpeakSendFails, WaitEnds, WaitTimesOut, ObservesAbort, SpeakCancels, DrainEnds,
                DrainTimesOut, SpeakReturns, BeginsDestruction, Destroys, engineVars
  <2>2. CASE EnterFaultedState("speak")
    BY <1>1, <2>1, <2>2, FaultLeavesPlaces DEF Readers
  <2>3. CASE SetsObjectToken \/ RecreatesSession
    BY <1>1, <2>1, <2>3 DEF SetsObjectToken, RecreatesSession, CreatesSession, AfterStart
  <2>4. CASE BeginsRetirement \/ BeginsDestruction
    <3>1. pc'["speak"] \in {"retire", "destroy"}
      BY <1>1, <2>4 DEF BeginsRetirement, BeginsDestruction
    <3> QED
      BY <2>1, <3>1 DEF AfterStart
  <2>5. CASE \/ SpeakBegins \/ FindsSessionActive \/ Retires \/ HasNoSession \/ StartRefused
             \/ SendsSpeak \/ SpeakSendFails \/ WaitEnds \/ WaitTimesOut \/ ObservesAbort
             \/ SpeakCancels \/ DrainEnds \/ DrainTimesOut \/ SpeakReturns \/ Destroys
    BY <1>1, <2>1, <2>5
    DEF SpeakBegins, FindsSessionActive, Retires, HasNoSession, StartRefused, SendsSpeak,
        SpeakSendFails, WaitEnds, WaitTimesOut, ObservesAbort, SpeakCancels, SendsCancel,
        CancelSendFails, DrainEnds, DrainTimesOut, SpeakReturns, Destroys, Returns, Goto, At,
        AfterStart
  <2> QED
    BY <1>3, <2>2, <2>3, <2>4, <2>5 DEF SpeakThread
<1> QED
  BY <1>2, <1>3

LEMMA OwnerInvHolds == Spec => []OwnerInv
<1>1. Init => OwnerInv
  BY DEF Init, OwnerInv, FreshContext, InUse, AfterStart, Threads, Callers
<1>2. ASSUME TypeInv, LifecycleMatrix, CallInv, OwnerInv, [Next]_vars PROVE OwnerInv'
  <2>1. ctx \in Context
    BY <1>2 DEF TypeInv, TypeOK
  <2>2. CASE Starts
    <3>1. ctx'.speakId = speakCounter /\ speakCounter' = speakCounter
      BY <2>1, <2>2, ContextOperators DEF Starts, Context, speakId, engineVars
    <3> QED
      BY <3>1 DEF OwnerInv
  <2>3. CASE SetsObjectToken \/ RecreatesSession
    <3>1. /\ pc \in [Threads -> Place] /\ "speak" \in Threads
      BY <1>2 DEF TypeInv, TypeOK, Threads, Callers
    <3>2. pc["speak"] \in {"idle", "session"} /\ pc'["speak"] \in {"idle", "start"}
      BY <2>3, <3>1 DEF SetsObjectToken, RecreatesSession, CreatesSession, At
    <3>3. ~InUse(ctx) /\ (ctx' = ctx \/ ctx' = FreshContext)
      BY <1>2, <2>3, <3>2 DEF CallInv, NoRequestOutside, Outside, SetsObjectToken,
         RecreatesSession, CreatesSession, requestVars
    <3> QED
      BY <3>2, <3>3 DEF OwnerInv, InUse, FreshContext, AfterStart
  <2>4. CASE ~(SetsObjectToken \/ RecreatesSession \/ Starts)
    <3>1. ctx'.speakId = ctx.speakId /\ (InUse(ctx') => InUse(ctx))
      BY <1>2, <2>4, EveryOtherStep, RequestStepKeeps
    <3>2. SpeakBegins => ~InUse(ctx) /\ pc'["speak"] \notin AfterStart
      BY <1>2 DEF SpeakBegins, At, Goto, CallInv, NoRequestOutside, Outside, TypeInv, TypeOK,
                  Threads, Callers, AfterStart
    <3> QED
      BY <1>2, <2>4, <3>1, <3>2, SpeakGoesOn DEF OwnerInv
  <2> QED
    BY <2>2, <2>3, <2>4
<1> QED
  BY <1>1, <1>2, TypeCorrect, LifecycleMatrixHolds, CallInvHolds, PTL DEF Spec
-----------------------------------------------------------------------------
(* A session without a stranger: what the pipes of a context c with the    *)
(* partial frame k may hold while its provider is at p.                    *)

\* The provider has taken up the request of the context.
Taken(c, p) == p.speakId = c.speakId /\ c.speakId # 0

Silent(p, ev, au) == ev = <<>> /\ au = <<>> /\ ~p.busy

NoSpeak(cm) == \A i \in 1 .. Len(cm) : cm[i].kind # "sapi_speak"

\* Whole frames, never more than promised, and at rest once all is said.
ProviderFits(p) ==
    /\ p.written <= p.total
    /\ p.written % BlockAlign = 0 /\ p.total % BlockAlign = 0
    /\ p.busy => p.speakId # 0 /\ ~(p.declared /\ p.written = p.total)

EventFits(p, e) ==
    /\ e.speakId = p.speakId /\ e.valid
    /\ e.type \in {"boundary", "complete", "cancelled", "logError"}
    /\ e.type = "complete" => p.declared /\ e.bytes = p.total
    /\ e.type = "cancelled" =>
          ~p.busy /\ e.bytes = p.written /\ (p.declared => p.written < p.total)
    /\ e.type = "logError" => ~p.busy /\ ~p.declared /\ p.written = 0

\* After a completion only the acknowledgement of a cancel may come, and nothing
\* comes after that or after an error.
EventsFit(p, ev) ==
    \A i \in 1 .. Len(ev) :
        /\ EventFits(p, ev[i])
        /\ ev[i].type \in {"cancelled", "logError"} => i = Len(ev)
        /\ ev[i].type = "complete" =>
              \A j \in 1 .. Len(ev) : i < j => ev[j].type = "cancelled"

AudioFits(c, p, au) ==
    /\ \A i \in 1 .. Len(au) : au[i] = p.speakId
    /\ IF Taken(c, p) THEN c.rawAudioBytesRead + Len(au) <= p.written
       ELSE c.rawAudioBytesRead = 0 /\ c.deliveredAudioBytes = 0

PhaseFits(c, k, p, cm, ev, au) ==
    /\ ~Taken(c, p) => Silent(p, ev, au)
    /\ c.downstreamState = "Idle" => Silent(p, ev, au) /\ NoSpeak(cm) /\ k = <<>>

TerminalFits(c, p, ev) ==
    /\ c.upstreamState = "Completed" =>
          /\ Taken(c, p) /\ p.declared
          /\ \A i \in 1 .. Len(ev) : ev[i].type = "cancelled"
    /\ c.upstreamState = "Cancelled" => Taken(c, p) /\ ~p.busy /\ ev = <<>>
    /\ InUse(c) /\ c.upstreamFinished =>
          \/ c.upstreamState = "Completed" /\ c.upstreamTerminalBytes = p.total
          \/ c.upstreamState = "Cancelled" /\ c.upstreamTerminalBytes = p.written

\* The one sapi_speak in the pipe is that of the context.
SpeakFits(c, p, cm) ==
    /\ p.speakId <= c.speakId
    /\ \A i \in 1 .. Len(cm) : cm[i].kind = "sapi_speak" =>
          /\ cm[i].speakId = c.speakId /\ p.speakId < c.speakId
          /\ \A j \in 1 .. Len(cm) : cm[j].kind = "sapi_speak" => j = i

Fits(c, k, p, cm, ev, au) ==
    /\ ProviderFits(p)
    /\ EventsFit(p, ev)
    /\ AudioFits(c, p, au)
    /\ PhaseFits(c, k, p, cm, ev, au)
    /\ TerminalFits(c, p, ev)
    /\ SpeakFits(c, p, cm)

\* What is on its way fits the request of the context.
SessionFits == Fits(ctx, carry, provider, commands, events, audio)
-----------------------------------------------------------------------------
(* What the regions of the request mutex do to the fit.                    *)

\* A fault marked, the request faulted, or its cancellation begun.
LEMMA MarkFits ==
    ASSUME NEW c \in Context, NEW k, NEW p \in Provider, NEW cm, NEW ev, NEW au,
           Fits(c, k, p, cm, ev, au)
    PROVE  /\ \A b \in BOOLEAN : Fits([c EXCEPT !.faultPending = b], k, p, cm, ev, au)
           /\ \A l : Fits(TransitionRequestToFaulted(c), l, p, cm, ev, au)
           /\ Fits(TransitionToCancelling(c), <<>>, p, cm, ev, au)
           /\ c.downstreamState # "Idle" => \A l : Fits(c, l, p, cm, ev, au)
<1>1. ASSUME NEW d \in Context, NEW l,
             d.speakId = c.speakId, d.rawAudioBytesRead = c.rawAudioBytesRead,
             d.deliveredAudioBytes = c.deliveredAudioBytes,
             d.downstreamState = "Idle" => c.downstreamState = "Idle" /\ l = k,
             TerminalFits(d, p, ev)
      PROVE  Fits(d, l, p, cm, ev, au)
  <2>1. AudioFits(d, p, au) /\ SpeakFits(d, p, cm)
    BY <1>1 DEF Fits, AudioFits, SpeakFits, Taken
  <2>2. PhaseFits(d, l, p, cm, ev, au)
    BY <1>1 DEF Fits, PhaseFits, Taken
  <2> QED
    BY <1>1, <2>1, <2>2 DEF Fits
<1>2. TerminalFits(c, p, ev)
  BY DEF Fits
<1>3. ASSUME NEW b \in BOOLEAN
      PROVE  Fits([c EXCEPT !.faultPending = b], k, p, cm, ev, au)
  <2> DEFINE d == [c EXCEPT !.faultPending = b]
  <2>1. /\ d \in Context /\ d.speakId = c.speakId
        /\ d.rawAudioBytesRead = c.rawAudioBytesRead
        /\ d.deliveredAudioBytes = c.deliveredAudioBytes
        /\ d.downstreamState = c.downstreamState /\ d.upstreamState = c.upstreamState
        /\ d.upstreamFinished = c.upstreamFinished
        /\ d.upstreamTerminalBytes = c.upstreamTerminalBytes
    BY DEF Context
  <2> HIDE DEF d
  <2>2. TerminalFits(d, p, ev)
    BY <1>2, <2>1 DEF TerminalFits, Taken, InUse
  <2>3. Fits(d, k, p, cm, ev, au)
    BY <1>1, <2>1, <2>2
  <2> QED
    BY <2>3 DEF d
<1>4. ASSUME NEW l
      PROVE  Fits(TransitionRequestToFaulted(c), l, p, cm, ev, au)
  <2> DEFINE d == TransitionRequestToFaulted(c)
  <2>1. /\ d \in Context /\ d.speakId = c.speakId
        /\ d.rawAudioBytesRead = c.rawAudioBytesRead
        /\ d.deliveredAudioBytes = c.deliveredAudioBytes
        /\ d.downstreamState = "Faulted" /\ d.upstreamState = "Faulted"
    BY ContextOperators DEF Context, TransitionRequestToFaulted
  <2> HIDE DEF d
  <2>2. TerminalFits(d, p, ev)
    BY <2>1 DEF TerminalFits, InUse
  <2>3. Fits(d, l, p, cm, ev, au)
    BY <1>1, <2>1, <2>2
  <2> QED
    BY <2>3 DEF d
<1>5. Fits(TransitionToCancelling(c), <<>>, p, cm, ev, au)
  <2> DEFINE d == TransitionToCancelling(c)
  <2>1. /\ d \in Context /\ d.speakId = c.speakId
        /\ d.rawAudioBytesRead = c.rawAudioBytesRead
        /\ d.deliveredAudioBytes = c.deliveredAudioBytes
        /\ d.downstreamState = "Cancelling" /\ d.upstreamState = c.upstreamState
        /\ ~d.upstreamFinished
    BY ContextOperators DEF Context, TransitionToCancelling
  <2> HIDE DEF d
  <2>2. TerminalFits(d, p, ev)
    BY <1>2, <2>1 DEF TerminalFits, Taken
  <2>3. Fits(d, <<>>, p, cm, ev, au)
    BY <1>1, <2>1, <2>2
  <2> QED
    BY <2>3 DEF d
<1>6. ASSUME c.downstreamState # "Idle", NEW l
      PROVE  Fits(c, l, p, cm, ev, au)
  BY <1>1, <1>2, <1>6
<1> QED
  BY <1>3, <1>4, <1>5, <1>6

\* Silence needs no provider that has said all: a boundary that is reached leaves
\* nothing in either pipe.
LEMMA ReachedIsSilent ==
    ASSUME NEW c \in Context, NEW k, NEW p \in Provider, NEW cm, NEW ev \in Seq(Event),
           NEW au \in Span, Fits(c, k, p, cm, ev, au),
           InUse(c), c.upstreamFinished, c.rawAudioBytesRead >= c.upstreamTerminalBytes
    PROVE  Silent(p, ev, au) /\ NoSpeak(cm) /\ Taken(c, p)
<1>1. /\ c.rawAudioBytesRead \in Nat /\ c.upstreamTerminalBytes \in Nat /\ Len(au) \in Nat
      /\ p.written \in Nat /\ p.total \in Nat
  BY DEF Context, Provider, Span
<1>2. Taken(c, p)
  BY DEF Fits, TerminalFits
<1>3. c.rawAudioBytesRead + Len(au) <= p.written /\ p.written <= p.total
  BY <1>2 DEF Fits, AudioFits, ProviderFits
<1>4. NoSpeak(cm)
  BY <1>2 DEF Fits, SpeakFits, NoSpeak, Taken, Provider, Context
<1>5. CASE c.upstreamState = "Completed" /\ c.upstreamTerminalBytes = p.total
  <2>1. Len(au) = 0 /\ p.written = p.total
    BY <1>1, <1>3, <1>5
  <2>2. p.declared /\ ~p.busy
    BY <1>5, <2>1 DEF Fits, TerminalFits, ProviderFits
  <2>3. ASSUME ev # <<>> PROVE FALSE
    <3>1. 1 \in 1 .. Len(ev)
      BY <2>3
    <3>2. ev[1].type = "cancelled" /\ EventFits(p, ev[1])
      BY <1>5, <3>1 DEF Fits, TerminalFits, EventsFit
    <3> QED
      BY <1>1, <2>1, <2>2, <3>2 DEF EventFits
  <2> QED
    BY <1>2, <1>4, <2>1, <2>2, <2>3 DEF Silent, Span
<1>6. CASE c.upstreamState = "Cancelled" /\ c.upstreamTerminalBytes = p.written
  <2>1. Len(au) = 0
    BY <1>1, <1>3, <1>6
  <2> QED
    BY <1>2, <1>4, <1>6, <2>1 DEF Fits, TerminalFits, Silent, Span
<1> QED
  BY <1>5, <1>6 DEF Fits, TerminalFits

\* A context whose request is reset fits pipes that hold nothing.
LEMMA ResetFits ==
    ASSUME NEW c \in Context, NEW k, NEW p \in Provider, NEW cm, NEW ev, NEW au,
           Fits(c, k, p, cm, ev, au), Silent(p, ev, au), NoSpeak(cm),
           NEW d \in Context, d.speakId = c.speakId,
           d.rawAudioBytesRead = c.rawAudioBytesRead,
           d.deliveredAudioBytes = c.deliveredAudioBytes,
           d.upstreamState = "Idle", d.downstreamState = "Idle"
    PROVE  Fits(d, <<>>, p, cm, ev, au)
<1>1. AudioFits(d, p, au) /\ SpeakFits(d, p, cm)
  BY DEF Fits, AudioFits, SpeakFits, Taken
<1>2. PhaseFits(d, <<>>, p, cm, ev, au) /\ TerminalFits(d, p, ev)
  BY DEF PhaseFits, TerminalFits, InUse
<1> QED
  BY <1>1, <1>2 DEF Fits

\* CheckTerminalBoundaryLocked keeps the fit: it resets a request when its last
\* byte is read and nothing more is to come.
LEMMA BoundaryFits ==
    ASSUME NEW c \in Context, NEW k, NEW p \in Provider, NEW cm, NEW ev \in Seq(Event),
           NEW au \in Span, Fits(c, k, p, cm, ev, au), c.upstreamState # "Failed"
    PROVE  LET r == CheckTerminalBoundary(c, k)
           IN /\ r.ctx \in Context
              /\ Fits(r.ctx, r.carry, p, cm, ev, au)
              /\ r.ctx.downstreamState = "Idle" => c.downstreamState = "Idle" \/ Taken(c, p)
<1> DEFINE r == CheckTerminalBoundary(c, k)
<1>1. CASE r.ctx = c /\ r.carry = k
  BY <1>1
<1>2. CASE ~(r.ctx = c /\ r.carry = k)
  <2>1. /\ r.ctx = ResetToIdle(c) /\ r.carry = <<>> /\ c.upstreamFinished /\ InUse(c)
        /\ c.rawAudioBytesRead >= c.upstreamTerminalBytes
    <3> DEFINE facts == TerminalBoundaryFacts(c, k # <<>>)
               action == TerminalBoundaryAction(c, facts)
    <3>1. action \notin {"Continue", "OverrunFault"}
      BY <1>2 DEF CheckTerminalBoundary
    <3>2. r.ctx = ResetToIdle(c) /\ r.carry = <<>>
      BY <3>1 DEF CheckTerminalBoundary
    <3>3. /\ c.rawAudioBytesRead \in Nat /\ c.upstreamTerminalBytes \in Nat
          /\ c.upstreamFinished \in BOOLEAN
      BY DEF Context
    <3>4. /\ facts.speakingTerminalReached =>
                c.rawAudioBytesRead >= c.upstreamTerminalBytes
          /\ facts.cancellationTerminalReached =>
                c.rawAudioBytesRead >= c.upstreamTerminalBytes
      <4>1. /\ facts.speakingTerminalReached =>
                  c.rawAudioBytesRead = c.upstreamTerminalBytes
            /\ facts.cancellationTerminalReached =>
                  c.rawAudioBytesRead >= c.upstreamTerminalBytes
        BY Zenon DEF TerminalBoundaryFacts
      <4> HIDE DEF facts
      <4> QED
        BY <3>3, <4>1
    <3> HIDE DEF facts
    <3>5. c.upstreamFinished /\ InUse(c) /\ c.rawAudioBytesRead >= c.upstreamTerminalBytes
      BY <3>1, <3>4 DEF TerminalBoundaryAction, IsAwaitingTerminalAudio,
                        IsDrainingCancellation, InUse
    <3> QED
      BY <3>2, <3>5
  <2>2. Silent(p, ev, au) /\ NoSpeak(cm) /\ Taken(c, p)
    BY <2>1, ReachedIsSilent
  <2>3. /\ r.ctx \in Context /\ r.ctx.speakId = c.speakId
        /\ r.ctx.rawAudioBytesRead = c.rawAudioBytesRead
        /\ r.ctx.deliveredAudioBytes = c.deliveredAudioBytes
        /\ r.ctx.upstreamState = "Idle" /\ r.ctx.downstreamState = "Idle"
    <3>1. ResetToIdle(c) \in Context /\ ResetToIdle(c).speakId = c.speakId
      BY ContextOperators
    <3>2. /\ ResetToIdle(c).rawAudioBytesRead = c.rawAudioBytesRead
          /\ ResetToIdle(c).deliveredAudioBytes = c.deliveredAudioBytes
          /\ ResetToIdle(c).upstreamState = "Idle" /\ ResetToIdle(c).downstreamState = "Idle"
      BY DEF ResetToIdle, Context
    <3> QED
      BY <2>1, <3>1, <3>2
  <2>4. Fits(r.ctx, <<>>, p, cm, ev, au)
    BY <2>2, <2>3, ResetFits
  <2> QED
    BY <2>1, <2>2, <2>3, <2>4
<1> QED
  BY <1>1, <1>2

\* The region ends with what fits.
LEMMA PublishFits ==
    ASSUME NEW r, r.ctx \in Context, Publish(r), NEW p \in Provider, NEW cm, NEW ev, NEW au,
           Fits(r.ctx, r.carry, p, cm, ev, au)
    PROVE  /\ Fits(ctx', carry', p, cm, ev, au)
           /\ ctx'.downstreamState = r.ctx.downstreamState
<1>1. [r.ctx EXCEPT !.faultPending = TRUE].downstreamState = r.ctx.downstreamState
  BY DEF Context
<1>2. Fits([r.ctx EXCEPT !.faultPending = TRUE], r.carry, p, cm, ev, au)
  BY MarkFits
<1> QED
  BY <1>1, <1>2 DEF Publish

\* The event that is read leaves the rest of the pipe fitting, and is one of the
\* request of a context that is not idle.
LEMMA NextEventFits ==
    ASSUME TypeInv, SessionFits, events # <<>>
    PROVE  /\ events = <<Head(events)>> \o Tail(events)
           /\ Head(events) \in Event /\ EventFits(provider, Head(events))
           /\ Head(events).type \in {"cancelled", "logError"} => Tail(events) = <<>>
           /\ Head(events).type = "complete" =>
                 \A i \in 1 .. Len(Tail(events)) : Tail(events)[i].type = "cancelled"
           /\ Taken(ctx, provider) /\ ctx.downstreamState # "Idle"
           /\ Tail(events) \in Seq(Event)
           /\ Fits(ctx, carry, provider, commands, Tail(events), audio)
<1> DEFINE rest == Tail(events)
<1>1. /\ events \in Seq(Event) /\ rest \in Seq(Event) /\ Len(events) \in Nat \ {0}
      /\ Head(events) = events[1] /\ Len(rest) = Len(events) - 1
      /\ \A i \in 1 .. Len(rest) : rest[i] = events[i + 1] /\ i + 1 \in 1 .. Len(events)
      /\ 1 \in 1 .. Len(events)
  BY DEF TypeInv, TypeOK
<1>2. events = <<Head(events)>> \o rest
  BY <1>1, HeadTailProperties DEF TypeInv, TypeOK
<1>3. /\ EventsFit(provider, events) /\ AudioFits(ctx, provider, audio)
      /\ PhaseFits(ctx, carry, provider, commands, events, audio)
      /\ TerminalFits(ctx, provider, events)
  BY DEF SessionFits, Fits
<1>4. Taken(ctx, provider) /\ ctx.downstreamState # "Idle"
  BY <1>3 DEF PhaseFits, Silent
<1>5. EventsFit(provider, rest)
  <2>1. SUFFICES ASSUME NEW i \in 1 .. Len(rest)
                 PROVE  /\ EventFits(provider, rest[i])
                        /\ rest[i].type \in {"cancelled", "logError"} => i = Len(rest)
                        /\ rest[i].type = "complete" =>
                              \A j \in 1 .. Len(rest) : i < j => rest[j].type = "cancelled"
    BY DEF EventsFit
  <2>2. /\ EventFits(provider, events[i + 1])
        /\ events[i + 1].type \in {"cancelled", "logError"} => i + 1 = Len(events)
        /\ events[i + 1].type = "complete" =>
              \A j \in 1 .. Len(events) : i + 1 < j => events[j].type = "cancelled"
    BY <1>1, <1>3 DEF EventsFit
  <2>3. \A j \in 1 .. Len(rest) : rest[j] = events[j + 1] /\ j + 1 \in 1 .. Len(events)
    BY <1>1
  <2>4. Len(rest) \in Nat /\ Len(rest) + 1 = Len(events)
    BY <1>1
  <2> HIDE DEF rest
  <2>5. ASSUME NEW j \in 1 .. Len(rest), i < j, events[i + 1].type = "complete"
        PROVE  rest[j].type = "cancelled"
    <3>1. j + 1 \in 1 .. Len(events) /\ i + 1 < j + 1 /\ rest[j] = events[j + 1]
      BY <2>3, <2>5
    <3> QED
      BY <2>2, <2>5, <3>1
  <2>6. rest[i] = events[i + 1]
    BY <2>3
  <2>7. rest[i].type \in {"cancelled", "logError"} => i = Len(rest)
    BY <2>2, <2>4, <2>6
  <2>8. EventFits(provider, rest[i])
    BY <2>2, <2>6
  <2>9. rest[i].type = "complete" =>
           \A j \in 1 .. Len(rest) : i < j => rest[j].type = "cancelled"
    BY <2>5, <2>6
  <2> QED
    BY <2>7, <2>8, <2>9
<1>6. /\ EventFits(provider, Head(events))
      /\ Head(events).type \in {"cancelled", "logError"} => Len(events) = 1
      /\ Head(events).type = "complete" =>
            \A i \in 1 .. Len(rest) : rest[i].type = "cancelled"
  <2>1. /\ EventFits(provider, events[1])
        /\ events[1].type \in {"cancelled", "logError"} => 1 = Len(events)
        /\ events[1].type = "complete" =>
              \A j \in 1 .. Len(events) : 1 < j => events[j].type = "cancelled"
    BY <1>1, <1>3 DEF EventsFit
  <2>2. ASSUME NEW i \in 1 .. Len(rest), events[1].type = "complete"
        PROVE  rest[i].type = "cancelled"
    <3>1. i + 1 \in 1 .. Len(events) /\ 1 < i + 1 /\ rest[i] = events[i + 1]
      BY <1>1
    <3> QED
      BY <2>1, <2>2, <3>1
  <2> HIDE DEF rest
  <2> QED
    BY <1>1, <2>1, <2>2
<1>7. Len(events) = 1 => rest = <<>>
  BY <1>1
<1>8. TerminalFits(ctx, provider, rest)
  <2>1. ctx.upstreamState # "Cancelled"
    BY <1>3 DEF TerminalFits
  <2>2. ctx.upstreamState = "Completed" => \A i \in 1 .. Len(rest) : rest[i].type = "cancelled"
    BY <1>1, <1>3 DEF TerminalFits
  <2> HIDE DEF rest
  <2> QED
    BY <1>3, <2>1, <2>2 DEF TerminalFits
<1>9. PhaseFits(ctx, carry, provider, commands, rest, audio)
  BY <1>4 DEF PhaseFits
<1> QED
  BY <1>1, <1>2, <1>3, <1>4, <1>5, <1>6, <1>7, <1>8, <1>9 DEF SessionFits, Fits

\* HandleParsedControlEvent keeps the fit.
LEMMA EventKeepsFit ==
    ASSUME TypeInv, LifecycleMatrix, SessionFits, events # <<>>
    PROVE  LET r == HandleParsedControlEvent(Head(events))
           IN /\ r.ctx \in Context
              /\ Fits(r.ctx, r.carry, provider, commands, Tail(events), audio)
<1> DEFINE event == Head(events)
           rest == Tail(events)
           r == HandleParsedControlEvent(event)
<1>1. /\ event \in Event /\ EventFits(provider, event)
      /\ event.type \in {"cancelled", "logError"} => rest = <<>>
      /\ event.type = "complete" => \A i \in 1 .. Len(rest) : rest[i].type = "cancelled"
      /\ Taken(ctx, provider) /\ ctx.downstreamState # "Idle"
      /\ rest \in Seq(Event)
      /\ Fits(ctx, carry, provider, commands, rest, audio)
  BY NextEventFits
<1> HIDE DEF event, rest
<1>2. /\ ctx \in Context /\ ctx.upstreamState # "Failed" /\ provider \in Provider
      /\ audio \in Span
  BY MatrixExcludesFailed DEF TypeInv, TypeOK
<1>3. r.ctx \in Context
  BY <1>1, HandleParsedControlEventType
<1>4. event.bytes \in Nat /\ ctx.rawAudioBytesRead \in Nat
  BY <1>1, <1>2 DEF Event, Context
<1>5. CASE EventAction(event, ctx) = "Terminal"
  <2>1. event.type \in {"complete", "cancelled"}
    BY <1>5 DEF EventAction, IsTerminalEvent
  <2> DEFINE action == UpstreamTerminalAction(ctx, event.valid,
                          IsTerminalByteCountFrameAligned(event.bytes, BlockAlign))
             c1 == [ctx EXCEPT !.upstreamTerminalBytes = event.bytes,
                               !.upstreamFinished = TRUE,
                               !.upstreamState = IF event.type = "complete"
                                                 THEN "Completed" ELSE "Cancelled"]
  <2>2. r = IF action # "Apply"
            THEN [ctx |-> TransitionRequestToFaulted(ctx), carry |-> carry, fault |-> TRUE]
            ELSE CheckTerminalBoundary(c1, carry)
    BY <1>5 DEF HandleParsedControlEvent, HandleTerminalEvent
  <2> HIDE DEF r
  <2>3. CASE action # "Apply"
    <3>1. r.ctx = TransitionRequestToFaulted(ctx) /\ r.carry = carry
      BY <2>2, <2>3
    <3> QED
      BY <1>1, <1>2, <1>3, <3>1, MarkFits DEF event, rest, r
  <2>4. CASE action = "Apply"
    <3>1. /\ c1 \in Context /\ c1.speakId = ctx.speakId
          /\ c1.rawAudioBytesRead = ctx.rawAudioBytesRead
          /\ c1.deliveredAudioBytes = ctx.deliveredAudioBytes
          /\ c1.downstreamState = ctx.downstreamState
          /\ c1.upstreamTerminalBytes = event.bytes
          /\ c1.upstreamState = IF event.type = "complete" THEN "Completed" ELSE "Cancelled"
      BY <1>2, <1>4 DEF Context, UpstreamState
    <3> HIDE DEF c1
    <3>2. AudioFits(c1, provider, audio) /\ SpeakFits(c1, provider, commands)
      BY <1>1, <3>1 DEF Fits, AudioFits, SpeakFits, Taken
    <3>3. PhaseFits(c1, carry, provider, commands, rest, audio) /\ Taken(c1, provider)
      BY <1>1, <3>1 DEF PhaseFits, Taken
    <3>4. TerminalFits(c1, provider, rest)
      BY <1>1, <2>1, <3>1, <3>3 DEF TerminalFits, EventFits
    <3>5. Fits(c1, carry, provider, commands, rest, audio)
      BY <1>1, <3>2, <3>3, <3>4 DEF Fits
    <3>6. Fits(CheckTerminalBoundary(c1, carry).ctx, CheckTerminalBoundary(c1, carry).carry,
               provider, commands, rest, audio)
      BY <1>1, <1>2, <3>1, <3>5, BoundaryFits
    <3> QED
      BY <1>3, <2>2, <2>4, <3>6 DEF event, rest, r
  <2> QED
    BY <2>3, <2>4
<1>6. CASE EventAction(event, ctx) = "RequestErrorLog"
  <2>1. event.type = "logError"
    BY <1>6 DEF EventAction, IsTerminalEvent
  <2> DEFINE c1 == [ctx EXCEPT !.upstreamState = "Failed", !.upstreamFinished = TRUE,
                               !.completionHr = "E_FAIL",
                               !.upstreamTerminalBytes = ctx.rawAudioBytesRead]
  <2>2. /\ c1 \in Context /\ c1.speakId = ctx.speakId
        /\ c1.rawAudioBytesRead = ctx.rawAudioBytesRead
        /\ c1.deliveredAudioBytes = ctx.deliveredAudioBytes
        /\ c1.upstreamState = "Failed"
    BY <1>2, <1>4 DEF Context, UpstreamState, HResult
  <2>3. r = CheckTerminalBoundary(c1, carry)
    BY <1>6 DEF HandleParsedControlEvent, HandleErrorLog
  <2> HIDE DEF c1
  <2>4. r.ctx = ResetToIdle(c1) /\ r.carry = <<>>
    BY <2>2, <2>3 DEF CheckTerminalBoundary, TerminalBoundaryAction
  <2>5. /\ ResetToIdle(c1).speakId = ctx.speakId
        /\ ResetToIdle(c1).rawAudioBytesRead = ctx.rawAudioBytesRead
        /\ ResetToIdle(c1).deliveredAudioBytes = ctx.deliveredAudioBytes
        /\ ResetToIdle(c1).upstreamState = "Idle" /\ ResetToIdle(c1).downstreamState = "Idle"
        /\ ResetToIdle(c1) \in Context
    BY <2>2, ContextOperators DEF ResetToIdle, Context
  <2>6. rest = <<>> /\ ~provider.busy /\ provider.written = 0
    BY <1>1, <2>1 DEF EventFits
  <2>7. Len(audio) = 0
    BY <1>1, <1>2, <1>4, <2>6 DEF Fits, AudioFits, Span
  <2>8. NoSpeak(commands)
    BY <1>1, <1>2 DEF Fits, SpeakFits, NoSpeak, Taken, Provider, Context
  <2>9. Silent(provider, rest, audio)
    BY <1>2, <2>6, <2>7 DEF Silent, Span
  <2>10. Fits(ResetToIdle(c1), <<>>, provider, commands, rest, audio)
    BY <1>1, <1>2, <2>5, <2>8, <2>9, ResetFits
  <2> QED
    BY <1>3, <2>4, <2>10 DEF event, rest
<1>7. CASE EventAction(event, ctx) \notin {"Terminal", "RequestErrorLog"}
  <2>1. r.ctx = ctx /\ r.carry = carry
    BY <1>7 DEF HandleParsedControlEvent
  <2> QED
    BY <1>1, <1>2, <2>1 DEF event, rest
<1> QED
  BY <1>5, <1>6, <1>7
-----------------------------------------------------------------------------
(* The threads keep the fit.                                               *)

\* A context becomes idle only by the end of the request its provider has taken.
FitKept ==
    /\ SessionFits'
    /\ ctx'.downstreamState = "Idle" => ctx.downstreamState = "Idle" \/ Taken(ctx, provider)

\* A cancel in the pipe fits any context.
LEMMA CancelFits ==
    ASSUME NEW c, NEW k, NEW p, NEW cm \in Seq(Command), NEW ev, NEW au,
           NEW id, Fits(c, k, p, cm, ev, au)
    PROVE  Fits(c, k, p, Append(cm, [kind |-> "cancel", speakId |-> id]), ev, au)
<1> DEFINE cancel == [kind |-> "cancel", speakId |-> id]
           longer == Append(cm, cancel)
<1>1. /\ Len(cm) \in Nat /\ Len(longer) = Len(cm) + 1
      /\ \A i \in 1 .. Len(longer) :
            longer[i].kind = "sapi_speak" => i \in 1 .. Len(cm) /\ longer[i] = cm[i]
  <2>1. /\ Len(cm) \in Nat /\ Len(longer) = Len(cm) + 1
        /\ \A i \in 1 .. Len(cm) : longer[i] = cm[i]
        /\ longer[Len(cm) + 1] = cancel
    OBVIOUS
  <2>2. cancel.kind # "sapi_speak"
    OBVIOUS
  <2> HIDE DEF longer, cancel
  <2> QED
    BY <2>1, <2>2
<1> HIDE DEF longer
<1>2. SpeakFits(c, p, longer)
  BY <1>1 DEF Fits, SpeakFits
<1>3. PhaseFits(c, k, p, longer, ev, au)
  BY <1>1 DEF Fits, PhaseFits, NoSpeak
<1> QED
  BY <1>2, <1>3 DEF Fits, longer

\* What was read of the audio pipe is audio of the context's request.
LEMMA ReadFits ==
    ASSUME TypeInv, SessionFits, NEW data, Reads(data)
    PROVE  /\ Taken(ctx, provider) /\ ctx.downstreamState # "Idle"
           /\ Fits(ctx, carry, provider, commands, events, audio')
           /\ Fits(Counted(data), carry, provider, commands, events, audio')
           /\ Counted(data) \in Context
           /\ Counted(data).downstreamState = ctx.downstreamState
           /\ Counted(data).upstreamState = ctx.upstreamState
           /\ audio' \in Span
           /\ UNCHANGED <<connected, commands, events, provider, promised>>
<1>1. /\ data \in Span /\ audio' \in Span
      /\ Counted(data) \in Context
      /\ UNCHANGED <<connected, commands, events, provider, promised>>
  BY ReadsType
<1>2. /\ ctx \in Context /\ provider \in Provider /\ audio \in Span /\ audio # <<>>
  BY DEF TypeInv, TypeOK, Reads
<1>3. Taken(ctx, provider) /\ ctx.downstreamState # "Idle"
  BY <1>2 DEF SessionFits, Fits, PhaseFits, Silent
<1>4. PICK n \in 1 .. ReadMax : n <= Len(audio) /\ data = SubSeq(audio, 1, n)
  BY DEF Reads
<1>5. /\ n \in 0 .. Len(audio) /\ Len(data) = n /\ Len(audio') = Len(audio) - n
      /\ Len(audio) \in Nat
      /\ \A i \in 1 .. Len(audio') : audio'[i] = audio[i + n]
  <2>1. n \in Nat /\ Len(audio) \in Nat /\ n <= Len(audio)
    BY <1>2, <1>4, ReadMaxAssumption DEF Span
  <2>2. Len(data) = n
    BY <1>2, <1>4, <2>1, PrefixSuffix DEF Span
  <2>3. audio' = SubSeq(audio, n + 1, Len(audio))
    BY <2>2 DEF Reads
  <2>4. \A i \in 1 .. Len(audio) - n : audio'[i] = audio[i + n]
    BY <1>2, <2>1, <2>3 DEF Span
  <2> QED
    BY <1>2, <2>1, <2>2, <2>3, <2>4, PrefixSuffix DEF Span
<1>6. /\ Counted(data).speakId = ctx.speakId
      /\ Counted(data).rawAudioBytesRead = ctx.rawAudioBytesRead + Len(data)
      /\ Counted(data).deliveredAudioBytes = ctx.deliveredAudioBytes
      /\ Counted(data).downstreamState = ctx.downstreamState
      /\ Counted(data).upstreamState = ctx.upstreamState
      /\ Counted(data).upstreamFinished = ctx.upstreamFinished
      /\ Counted(data).upstreamTerminalBytes = ctx.upstreamTerminalBytes
  BY <1>2 DEF Counted, Context
<1>7. ASSUME NEW c \in Context, c.speakId = ctx.speakId,
             c.rawAudioBytesRead \in {ctx.rawAudioBytesRead, ctx.rawAudioBytesRead + Len(data)},
             c.deliveredAudioBytes = ctx.deliveredAudioBytes,
             c.downstreamState = ctx.downstreamState, c.upstreamState = ctx.upstreamState,
             c.upstreamFinished = ctx.upstreamFinished,
             c.upstreamTerminalBytes = ctx.upstreamTerminalBytes
      PROVE  Fits(c, carry, provider, commands, events, audio')
  <2>1. AudioFits(c, provider, audio')
    <3>1. \A i \in 1 .. Len(audio') : i + n \in 1 .. Len(audio)
      BY <1>5
    <3>2. \A i \in 1 .. Len(audio') : audio'[i] = provider.speakId
      BY <1>5, <3>1 DEF SessionFits, Fits, AudioFits
    <3>3. ctx.rawAudioBytesRead + Len(audio) <= provider.written
      BY <1>3 DEF SessionFits, Fits, AudioFits
    <3>4. ctx.rawAudioBytesRead \in Nat /\ provider.written \in Nat
      BY <1>2 DEF Context, Provider
    <3>5. c.rawAudioBytesRead + Len(audio') <= provider.written
      BY <1>5, <1>7, <3>3, <3>4
    <3> QED
      BY <1>3, <1>7, <3>2, <3>5 DEF AudioFits, Taken
  <2>2. SpeakFits(c, provider, commands)
    BY <1>7 DEF SessionFits, Fits, SpeakFits
  <2>3. PhaseFits(c, carry, provider, commands, events, audio')
    BY <1>3, <1>7 DEF PhaseFits, Taken
  <2>4. TerminalFits(c, provider, events)
    BY <1>7 DEF SessionFits, Fits, TerminalFits, Taken, InUse
  <2> QED
    BY <2>1, <2>2, <2>3, <2>4 DEF SessionFits, Fits
<1>8. Fits(ctx, carry, provider, commands, events, audio')
  BY <1>2, <1>7
<1>9. Fits(Counted(data), carry, provider, commands, events, audio')
  BY <1>1, <1>6, <1>7
<1> QED
  BY <1>1, <1>3, <1>6, <1>8, <1>9

\* EnterFaultedState.
LEMMA FaultKeepsFit ==
    ASSUME TypeInv, SessionFits, NEW t \in Threads, EnterFaultedState(t)
    PROVE  FitKept
<1>1. ctx \in Context /\ provider \in Provider /\ UNCHANGED providerVars
  BY DEF TypeInv, TypeOK, EnterFaultedState, FaultsRequest, PublishesFault, CancelsIo
<1>2. CASE FaultsRequest(t)
  <2> DEFINE d == TransitionRequestToFaulted(ctx)
  <2>1. Fits(d, <<>>, provider, commands, events, audio)
    BY <1>1, MarkFits DEF SessionFits
  <2>2. d \in Context /\ d.downstreamState = "Faulted"
    BY <1>1, ContextOperators DEF TransitionRequestToFaulted, Context
  <2> HIDE DEF d
  <2>3. /\ Fits([d EXCEPT !.faultPending = TRUE], <<>>, provider, commands, events, audio)
        /\ [d EXCEPT !.faultPending = TRUE].downstreamState = "Faulted"
    BY <1>1, <2>1, <2>2, MarkFits DEF Context
  <2>4. carry' = <<>> /\ ctx' \in {d, [d EXCEPT !.faultPending = TRUE]}
    BY <1>2 DEF FaultsRequest, d
  <2>5. /\ Fits(ctx', carry', provider, commands, events, audio)
        /\ ctx'.downstreamState = "Faulted"
    BY <2>1, <2>2, <2>3, <2>4
  <2> QED
    BY <1>1, <2>5 DEF FitKept, SessionFits, providerVars
<1>3. CASE PublishesFault(t)
  <2>1. /\ Fits([ctx EXCEPT !.faultPending = FALSE], carry, provider, commands, events, audio)
        /\ [ctx EXCEPT !.faultPending = FALSE].downstreamState = ctx.downstreamState
    BY <1>1, MarkFits DEF SessionFits, Context
  <2> QED
    BY <1>1, <1>3, <2>1 DEF FitKept, SessionFits, PublishesFault, providerVars
<1>4. CASE CancelsIo(t)
  BY <1>1, <1>4 DEF CancelsIo, FitKept, SessionFits, requestVars, providerVars
<1> QED
  BY <1>2, <1>3, <1>4 DEF EnterFaultedState

DeliversTaken == Delivering => batch.token.speakId <= provider.speakId

\* A batch of the request in the context is one its provider has taken.
LEMMA CurrentIsTaken ==
    ASSUME TypeInv, SessionFits, DeliveryInv, DeliversTaken, Delivering,
           Token(ctx) = batch.token
    PROVE  Taken(ctx, provider)
<1>1. ctx.speakId = batch.token.speakId /\ ctx.speakId \in Ids
  BY DEF DeliveryInv, Token
<1>2. provider.speakId <= ctx.speakId /\ provider.speakId \in Nat /\ ctx.speakId \in Nat
  BY DEF SessionFits, Fits, SpeakFits, TypeInv, TypeOK, Provider, Context
<1> QED
  BY <1>1, <1>2 DEF DeliversTaken, Taken, Ids

\* UpdateAfterAudioDeliveryLocked.
LEMMA UpdateKeepsFit ==
    ASSUME TypeInv, LifecycleMatrix, SessionFits, DeliveryInv, DeliversTaken,
           UpdatesAfterDelivery
    PROVE  FitKept
<1> DEFINE action == BatchAction(ctx, batch.token, ~batch.accepted)
           credited == [ctx EXCEPT !.deliveredAudioBytes = @ + batch.credited]
           c == IF action = "CreditAndCheckBoundary" THEN credited ELSE ctx
           r == CheckTerminalBoundary(c, carry)
<1>1. /\ ctx \in Context /\ ctx.upstreamState # "Failed" /\ provider \in Provider
      /\ audio \in Span /\ events \in Seq(Event) /\ batch.credited \in Nat
      /\ UNCHANGED <<commands, events, audio, provider>>
  BY MatrixExcludesFailed DEF TypeInv, TypeOK, Batch, UpdatesAfterDelivery, providerVars
<1>2. CASE action = "IgnoreStaleOrInactive" /\ UNCHANGED requestVars
  BY <1>1, <1>2 DEF FitKept, SessionFits, requestVars
<1>3. CASE action # "IgnoreStaleOrInactive"
  <2>1. Token(ctx) = batch.token /\ ctx.downstreamState \notin {"Idle", "Faulted"}
    BY <1>3 DEF BatchAction
  <2>2. Delivering
    BY DEF UpdatesAfterDelivery, At, Delivering
  <2>3. Taken(ctx, provider)
    BY <2>1, <2>2, CurrentIsTaken
  <2>4. /\ credited \in Context /\ credited.speakId = ctx.speakId
        /\ credited.rawAudioBytesRead = ctx.rawAudioBytesRead
        /\ credited.downstreamState = ctx.downstreamState
        /\ credited.upstreamState = ctx.upstreamState
        /\ credited.upstreamFinished = ctx.upstreamFinished
        /\ credited.upstreamTerminalBytes = ctx.upstreamTerminalBytes
    BY <1>1, ContextOperators DEF Context
  <2> HIDE DEF credited
  <2>5. Fits(credited, carry, provider, commands, events, audio)
    <3>1. AudioFits(credited, provider, audio) /\ SpeakFits(credited, provider, commands)
      BY <2>3, <2>4 DEF SessionFits, Fits, AudioFits, SpeakFits, Taken
    <3>2. /\ PhaseFits(credited, carry, provider, commands, events, audio)
          /\ TerminalFits(credited, provider, events)
      BY <2>1, <2>3, <2>4 DEF SessionFits, Fits, PhaseFits, TerminalFits, Taken, InUse
    <3> QED
      BY <3>1, <3>2 DEF SessionFits, Fits
  <2>6. CASE Publish(r)
    <3>1. Fits(c, carry, provider, commands, events, audio) /\ c \in Context
          /\ c.upstreamState # "Failed"
      BY <1>1, <2>4, <2>5 DEF SessionFits
    <3> HIDE DEF c
    <3>2. r.ctx \in Context /\ Fits(r.ctx, r.carry, provider, commands, events, audio)
      BY <1>1, <3>1, BoundaryFits
    <3>3. Fits(ctx', carry', provider, commands, events, audio)
      BY <1>1, <2>6, <3>2, PublishFits
    <3> QED
      BY <1>1, <2>3, <3>3 DEF FitKept, SessionFits
  <2>7. CASE ctx' = TransitionToCancelling(credited) /\ carry' = <<>>
    BY <1>1, <2>3, <2>4, <2>5, <2>7, MarkFits DEF FitKept, SessionFits
  <2> QED
    BY <1>3, <2>6, <2>7 DEF UpdatesAfterDelivery, credited
<1> QED
  BY <1>2, <1>3 DEF UpdatesAfterDelivery

\* The audio thread.
LEMMA AudioKeepsFit ==
    ASSUME TypeInv, LifecycleMatrix, SessionFits, DeliveryInv, DeliversTaken, AudioThread
    PROVE  FitKept
<1>1. /\ ctx \in Context /\ ctx.upstreamState # "Failed" /\ provider \in Provider
      /\ audio \in Span /\ events \in Seq(Event) /\ commands \in Seq(Command)
      /\ "audio" \in Threads
  BY MatrixExcludesFailed DEF TypeInv, TypeOK, Threads, Readers
<1>2. ASSUME NEW data, NEW k, Reads(data), Publish(CheckTerminalBoundary(Counted(data), k)),
             k = carry \/ ctx.downstreamState = "Speaking"
      PROVE  FitKept
  <2>1. /\ Taken(ctx, provider) /\ ctx.downstreamState # "Idle"
        /\ Fits(Counted(data), k, provider, commands, events, audio')
        /\ Counted(data) \in Context /\ Counted(data).upstreamState # "Failed"
        /\ audio' \in Span /\ UNCHANGED <<commands, events, provider>>
    BY <1>1, <1>2, ReadFits, MarkFits
  <2> DEFINE r == CheckTerminalBoundary(Counted(data), k)
  <2>2. r.ctx \in Context /\ Fits(r.ctx, r.carry, provider, commands, events, audio')
    BY <1>1, <2>1, BoundaryFits
  <2> HIDE DEF r
  <2>3. Publish(r)
    BY <1>2 DEF r
  <2>4. Fits(ctx', carry', provider, commands, events, audio')
    BY <1>1, <2>2, <2>3, PublishFits
  <2> QED
    BY <2>1, <2>4 DEF FitKept, SessionFits
<1>3. ASSUME NEW data, Reads(data),
             ctx' \in {ctx, Counted(data)},
             carry' = carry \/ ctx.downstreamState = "Speaking"
      PROVE  FitKept
  <2>1. /\ Taken(ctx, provider) /\ ctx.downstreamState # "Idle"
        /\ Fits(ctx', carry', provider, commands, events, audio')
        /\ UNCHANGED <<commands, events, provider>>
    BY <1>1, <1>3, ReadFits, MarkFits
  <2> QED
    BY <2>1 DEF FitKept, SessionFits
<1>4. CASE AssemblesSpeakingAudio
  <2>1. PICK data \in Chunks : AssemblesSpeakingAudio!(data)
    BY <1>4 DEF AssemblesSpeakingAudio
  <2> DEFINE framed == Process(carry, SubSeq(data, 1, BytesToFrame(ctx, Len(data))))
  <2>2. /\ Reads(data) /\ ctx.downstreamState = "Speaking"
        /\ \/ Publish(CheckTerminalBoundary(Counted(data), framed.carry))
           \/ ctx' = Counted(data)
    BY <2>1 DEF ChunkAction
  <2> QED
    BY <1>2, <1>3, <2>2
<1>5. CASE AssemblyThrows
  <2>1. PICK data \in Chunks : /\ Reads(data) /\ ctx' = Counted(data) /\ carry' = carry
    BY <1>5 DEF AssemblyThrows
  <2> QED
    BY <1>3, <2>1
<1>6. CASE DrainsCancellationAudio
  <2>1. PICK data \in Chunks : /\ Reads(data)
                               /\ Publish(CheckTerminalBoundary(Counted(data), carry))
    BY <1>6 DEF DrainsCancellationAudio
  <2> QED
    BY <1>2, <2>1
<1>7. CASE FaultsOnIdleAudio
  <2>1. PICK data \in Chunks : Reads(data) /\ ctx.downstreamState = "Idle"
    BY <1>7 DEF FaultsOnIdleAudio, ChunkAction
  <2> QED
    BY <2>1, ReadFits
<1>8. CASE DrainsFaultedAudio
  <2>1. PICK data \in Chunks : Reads(data) /\ ctx' = ctx /\ carry' = carry
    BY <1>8 DEF DrainsFaultedAudio, requestVars
  <2> QED
    BY <1>3, <2>1
<1>9. CASE UpdatesAfterDelivery
  BY <1>9, UpdateKeepsFit
<1>10. CASE EnterFaultedState("audio")
  BY <1>1, <1>10, FaultKeepsFit
<1>11. CASE AudioSendsCancel
  <2>1. /\ ctx' = ctx /\ carry' = carry /\ UNCHANGED <<events, audio, provider>>
        /\ \/ commands' = commands
           \/ commands' = Append(commands, [kind |-> "cancel", speakId |-> cancelId["audio"]])
    BY <1>11 DEF AudioSendsCancel, SendsCancel, CancelSendFails, requestVars, providerVars
  <2> QED
    BY <1>1, <2>1, CancelFits DEF FitKept, SessionFits
<1>12. CASE \/ ReadBreaks("audio") \/ ReadFailed("audio") \/ LeavesLoop("audio")
            \/ AdmitsSpan \/ CapturesSite \/ SiteAcceptsSpan \/ SiteRejectsSpan
  <2>1. UNCHANGED requestVars /\ UNCHANGED providerVars
    BY <1>12 DEF ReadBreaks, ReadFailed, LeavesLoop, AdmitsSpan, CapturesSite, SiteAcceptsSpan,
                 SiteRejectsSpan
  <2> QED
    BY <2>1 DEF FitKept, SessionFits, requestVars, providerVars
<1> QED
  BY <1>4, <1>5, <1>6, <1>7, <1>8, <1>9, <1>10, <1>11, <1>12 DEF AudioThread

\* The control thread meets only events of the request of the context.
LEMMA ControlKeepsFit ==
    ASSUME TypeInv, LifecycleMatrix, SessionFits, ControlThread
    PROVE  FitKept
<1>1. /\ ctx \in Context /\ provider \in Provider /\ "control" \in Threads
  BY DEF TypeInv, TypeOK, Threads, Readers
<1>2. CASE ReadsMalformedLine \/ ReadsOrphanEvent \/ HandlesEvent
  <2>1. NextEvent
    BY <1>2 DEF ReadsMalformedLine, ReadsOrphanEvent, HandlesEvent
  <2>2. /\ EventFits(provider, Head(events)) /\ Taken(ctx, provider)
        /\ events' = Tail(events) /\ UNCHANGED <<commands, audio, provider>>
    BY <2>1, NextEventFits DEF NextEvent
  <2>3. Head(events).type # "malformed" /\ Head(events).speakId # 0
    BY <2>2 DEF EventFits, Taken
  <2> DEFINE r == HandleParsedControlEvent(Head(events))
  <2>4. r.ctx \in Context /\ Fits(r.ctx, r.carry, provider, commands, Tail(events), audio)
    BY <2>1, EventKeepsFit DEF NextEvent
  <2>5. Publish(r)
    BY <1>2, <2>3 DEF HandlesEvent, ReadsMalformedLine, ReadsOrphanEvent
  <2> HIDE DEF r
  <2>6. Fits(ctx', carry', provider, commands, Tail(events), audio)
    BY <1>1, <2>4, <2>5, PublishFits
  <2> QED
    BY <2>2, <2>6 DEF FitKept, SessionFits
<1>3. CASE EnterFaultedState("control")
  BY <1>1, <1>3, FaultKeepsFit
<1>4. CASE \/ ReadBreaks("control") \/ ReadFailed("control") \/ LeavesLoop("control")
           \/ AdmitsEvent \/ CapturesEventSite \/ NotifiesSite
  <2>1. UNCHANGED requestVars /\ UNCHANGED providerVars
    BY <1>4 DEF ReadBreaks, ReadFailed, LeavesLoop, AdmitsEvent, CapturesEventSite, NotifiesSite
  <2> QED
    BY <2>1 DEF FitKept, SessionFits, requestVars, providerVars
<1> QED
  BY <1>2, <1>3, <1>4 DEF ControlThread

\* A session that is created, or gone, has pipes that hold nothing.
LEMMA SessionKeepsFit ==
    ASSUME TypeInv, SessionFits,
           SetsObjectToken \/ RecreatesSession \/ Retires \/ Destroys
    PROVE  SessionFits'
<1>1. CASE UNCHANGED requestVars /\ UNCHANGED providerVars
  BY <1>1 DEF SessionFits, requestVars, providerVars
<1>2. CASE ctx' = FreshContext /\ carry' = <<>> /\ OpenPipes
  <2>1. /\ provider'.speakId = 0 /\ ~provider'.busy
        /\ provider'.written = 0 /\ provider'.total = 0
        /\ commands' = <<>> /\ events' = <<>> /\ audio' = <<>>
    BY <1>2 DEF OpenPipes, IdleProvider
  <2>2. /\ ctx'.speakId = 0 /\ ctx'.rawAudioBytesRead = 0 /\ ctx'.deliveredAudioBytes = 0
        /\ ctx'.upstreamState = "Idle" /\ ctx'.downstreamState = "Idle"
    BY <1>2 DEF FreshContext
  <2>3. 0 % BlockAlign = 0
    BY BlockAlignAssumption, MultipleHasNoRemainder
  <2>4. ProviderFits(provider') /\ EventsFit(provider', events')
    BY <2>1, <2>3 DEF ProviderFits, EventsFit
  <2>5. AudioFits(ctx', provider', audio') /\ SpeakFits(ctx', provider', commands')
    BY <2>1, <2>2 DEF AudioFits, SpeakFits, Taken
  <2>6. /\ PhaseFits(ctx', carry', provider', commands', events', audio')
        /\ TerminalFits(ctx', provider', events')
    BY <1>2, <2>1, <2>2 DEF PhaseFits, TerminalFits, Silent, NoSpeak, InUse
  <2> QED
    BY <2>4, <2>5, <2>6 DEF SessionFits, Fits
<1>3. CASE UNCHANGED requestVars /\ ClosePipes
  <2>1. /\ provider' = [provider EXCEPT !.busy = FALSE]
        /\ commands' = <<>> /\ events' = <<>> /\ audio' = <<>>
        /\ ctx' = ctx /\ carry' = carry /\ provider \in Provider
    BY <1>3 DEF ClosePipes, requestVars, TypeInv, TypeOK
  <2>2. /\ provider'.speakId = provider.speakId /\ ~provider'.busy
        /\ provider'.written = provider.written /\ provider'.total = provider.total
        /\ provider'.declared = provider.declared
    BY <2>1 DEF Provider
  <2>3. ProviderFits(provider') /\ EventsFit(provider', events')
    BY <2>1, <2>2 DEF SessionFits, Fits, ProviderFits, EventsFit
  <2>4. AudioFits(ctx', provider', audio') /\ SpeakFits(ctx', provider', commands')
    <3>1. ctx.rawAudioBytesRead \in Nat /\ Len(audio) \in Nat /\ provider.written \in Nat
      BY DEF TypeInv, TypeOK, Context, Provider, Span
    <3> QED
      BY <2>1, <2>2, <3>1 DEF SessionFits, Fits, AudioFits, SpeakFits, Taken
  <2>5. /\ PhaseFits(ctx', carry', provider', commands', events', audio')
        /\ TerminalFits(ctx', provider', events')
    BY <2>1, <2>2 DEF SessionFits, Fits, PhaseFits, TerminalFits, Silent, NoSpeak, Taken
  <2> QED
    BY <2>3, <2>4, <2>5 DEF SessionFits, Fits
<1> QED
  BY <1>1, <1>2, <1>3 DEF SetsObjectToken, RecreatesSession, CreatesSession, Retires, Destroys,
                          requestVars, providerVars

\* Speak starts a request on pipes that hold nothing, with a number no request of
\* the session had.
LEMMA StartKeepsFit ==
    ASSUME TypeInv, CallInv, SessionFits, Starts
    PROVE  SessionFits' /\ provider.speakId < speakCounter /\ NoSpeak(commands)
<1>1. /\ ctx \in Context /\ provider \in Provider /\ speakCounter \in Nat
      /\ carry' = <<>> /\ UNCHANGED <<commands, events, audio, provider>>
      /\ ctx.downstreamState = "Idle"
  BY ProviderAssumption DEF TypeInv, TypeOK, Starts, StartAccepted, providerVars
<1>2. /\ ctx'.speakId = speakCounter /\ ctx'.upstreamState = "Active"
      /\ ctx'.rawAudioBytesRead = 0 /\ ctx'.deliveredAudioBytes = 0
      /\ ctx'.downstreamState = "Speaking" /\ ~ctx'.upstreamFinished
  BY <1>1 DEF Starts, Reset, FreshContext, speakId
<1>3. ctx.speakId < speakCounter
  BY DEF CallInv, NumbersAreFresh, Starts, At
<1>4. /\ Silent(provider, events, audio) /\ NoSpeak(commands)
      /\ provider.speakId <= ctx.speakId
  BY <1>1 DEF SessionFits, Fits, PhaseFits, SpeakFits
<1>5. provider.speakId < speakCounter
  BY <1>1, <1>3, <1>4 DEF Context, Provider
<1>6. ~Taken(ctx', provider) /\ provider.speakId <= ctx'.speakId
  BY <1>1, <1>2, <1>5 DEF Taken, Provider
<1>7. /\ AudioFits(ctx', provider, audio) /\ SpeakFits(ctx', provider, commands)
      /\ PhaseFits(ctx', carry', provider, commands, events, audio)
      /\ TerminalFits(ctx', provider, events)
  BY <1>2, <1>4, <1>6 DEF AudioFits, SpeakFits, PhaseFits, TerminalFits, NoSpeak, Silent
<1> QED
  BY <1>1, <1>4, <1>5, <1>7 DEF SessionFits, Fits

\* Speak sends its sapi_speak to a provider that has yet to take a request of its
\* number.
LEMMA SendKeepsFit ==
    ASSUME TypeInv, OwnerInv, SessionFits, SendsSpeak,
           provider.speakId < speakCounter, NoSpeak(commands), ctx.downstreamState # "Idle"
    PROVE  FitKept
<1> DEFINE longer == Append(commands, [kind |-> "sapi_speak", speakId |-> speakCounter])
<1>1. /\ ctx' = ctx /\ carry' = carry /\ UNCHANGED <<events, audio, provider>>
      /\ commands' = longer /\ commands \in Seq(Command)
  BY DEF SendsSpeak, requestVars, speakId, TypeInv, TypeOK
<1>2. ctx.speakId = speakCounter
  BY DEF SendsSpeak, At, OwnerInv, AfterStart
<1>3. \A i \in 1 .. Len(longer) : longer[i].kind = "sapi_speak" =>
         i = Len(longer) /\ longer[i].speakId = speakCounter
  <2>1. /\ Len(commands) \in Nat /\ Len(longer) = Len(commands) + 1
        /\ \A i \in 1 .. Len(commands) : longer[i] = commands[i]
        /\ longer[Len(commands) + 1].speakId = speakCounter
    BY <1>1
  <2> HIDE DEF longer
  <2> QED
    BY <2>1 DEF NoSpeak
<1> HIDE DEF longer
<1>4. SpeakFits(ctx, provider, longer)
  BY <1>2, <1>3 DEF SessionFits, Fits, SpeakFits
<1>5. PhaseFits(ctx, carry, provider, longer, events, audio)
  BY DEF SessionFits, Fits, PhaseFits
<1> QED
  BY <1>1, <1>4, <1>5 DEF FitKept, SessionFits, Fits
-----------------------------------------------------------------------------
(* The provider keeps the fit.                                             *)

\* The command the provider takes leaves the rest fitting.
LEMMA NextCommandFits ==
    ASSUME NEW c, NEW p, NEW cm \in Seq(Command), cm # <<>>, SpeakFits(c, p, cm)
    PROVE  /\ SpeakFits(c, p, Tail(cm))
           /\ NoSpeak(cm) => NoSpeak(Tail(cm))
           /\ Head(cm).kind = "sapi_speak" =>
                 /\ NoSpeak(Tail(cm)) /\ ~NoSpeak(cm)
                 /\ Head(cm).speakId = c.speakId /\ p.speakId < c.speakId
<1> DEFINE rest == Tail(cm)
<1>1. /\ Len(cm) \in Nat \ {0} /\ Len(rest) = Len(cm) - 1 /\ Head(cm) = cm[1]
      /\ 1 \in 1 .. Len(cm)
      /\ \A i \in 1 .. Len(rest) : rest[i] = cm[i + 1] /\ i + 1 \in 1 .. Len(cm) /\ i + 1 # 1
  OBVIOUS
<1> HIDE DEF rest
<1>2. NoSpeak(cm) => NoSpeak(rest)
  BY <1>1 DEF NoSpeak
<1>3. ASSUME Head(cm).kind = "sapi_speak"
      PROVE  /\ NoSpeak(rest) /\ ~NoSpeak(cm)
             /\ Head(cm).speakId = c.speakId /\ p.speakId < c.speakId
  <2>1. /\ cm[1].speakId = c.speakId /\ p.speakId < c.speakId
        /\ \A j \in 1 .. Len(cm) : cm[j].kind = "sapi_speak" => j = 1
    BY <1>1, <1>3 DEF SpeakFits
  <2> QED
    BY <1>1, <1>3, <2>1 DEF NoSpeak
<1>4. SpeakFits(c, p, rest)
  <2>1. SUFFICES ASSUME NEW i \in 1 .. Len(rest), rest[i].kind = "sapi_speak"
                 PROVE  /\ rest[i].speakId = c.speakId /\ p.speakId < c.speakId
                        /\ \A j \in 1 .. Len(rest) : rest[j].kind = "sapi_speak" => j = i
    BY DEF SpeakFits
  <2>2. /\ cm[i + 1].speakId = c.speakId /\ p.speakId < c.speakId
        /\ \A j \in 1 .. Len(cm) : cm[j].kind = "sapi_speak" => j = i + 1
    BY <1>1, <2>1 DEF SpeakFits
  <2>3. ASSUME NEW j \in 1 .. Len(rest), rest[j].kind = "sapi_speak" PROVE j = i
    <3>1. j + 1 \in 1 .. Len(cm) /\ cm[j + 1].kind = "sapi_speak"
      BY <1>1, <2>3
    <3>2. j + 1 = i + 1
      BY <2>2, <3>1
    <3> QED
      BY <3>2
  <2> QED
    BY <1>1, <2>2, <2>3
<1> QED
  BY <1>2, <1>3, <1>4 DEF rest

\* An event of a request at work fits at the end of the pipe.
LEMMA EmitFits ==
    ASSUME NEW p, NEW q, NEW ev \in Seq(Event), NEW e,
           EventsFit(p, ev), p.busy,
           EventFits(q, e), \A i \in 1 .. Len(ev) : EventFits(q, ev[i]),
           e.type = "cancelled" \/ \A i \in 1 .. Len(ev) : ev[i].type # "complete"
    PROVE  EventsFit(q, Append(ev, e))
<1> DEFINE longer == Append(ev, e)
<1>1. /\ Len(ev) \in Nat /\ Len(longer) = Len(ev) + 1
      /\ \A i \in 1 .. Len(ev) : longer[i] = ev[i]
      /\ longer[Len(longer)] = e
  OBVIOUS
<1>2. \A i \in 1 .. Len(ev) : ev[i].type \notin {"cancelled", "logError"}
  BY DEF EventsFit, EventFits
<1> HIDE DEF longer
<1>3. SUFFICES ASSUME NEW i \in 1 .. Len(longer)
               PROVE  /\ EventFits(q, longer[i])
                      /\ longer[i].type \in {"cancelled", "logError"} => i = Len(longer)
                      /\ longer[i].type = "complete" =>
                            \A j \in 1 .. Len(longer) : i < j => longer[j].type = "cancelled"
  BY DEF EventsFit, longer
<1>4. CASE i = Len(longer)
  BY <1>1, <1>4
<1>5. CASE i # Len(longer)
  <2>1. i \in 1 .. Len(ev) /\ longer[i] = ev[i]
    BY <1>1, <1>5
  <2>2. ASSUME NEW j \in 1 .. Len(longer), i < j, ev[i].type = "complete"
        PROVE  longer[j].type = "cancelled"
    <3>1. e.type = "cancelled"
      BY <2>1, <2>2
    <3>2. j # Len(longer) => j \in 1 .. Len(ev)
      BY <1>1
    <3>3. j # Len(longer) => ev[j].type = "cancelled"
      BY <2>1, <2>2, <3>2 DEF EventsFit
    <3> QED
      BY <1>1, <1>2, <3>1, <3>2, <3>3
  <2> QED
    BY <1>2, <2>1, <2>2
<1> QED
  BY <1>4, <1>5

\* A provider at work is at work on the request of the context, which is not over.
LEMMA BusyFits ==
    ASSUME TypeInv, SessionFits, provider.busy
    PROVE  /\ Taken(ctx, provider) /\ ctx.downstreamState # "Idle"
           /\ ctx.upstreamState # "Cancelled"
           /\ \A i \in 1 .. Len(events) : events[i].type \in {"boundary", "complete"}
           /\ ~provider.declared =>
                 /\ ctx.upstreamState # "Completed"
                 /\ \A i \in 1 .. Len(events) : events[i].type = "boundary"
<1>1. Taken(ctx, provider) /\ ctx.downstreamState # "Idle"
  BY DEF SessionFits, Fits, PhaseFits, Silent
<1>2. /\ ctx.upstreamState # "Cancelled"
      /\ ~provider.declared => ctx.upstreamState # "Completed"
  BY DEF SessionFits, Fits, TerminalFits
<1>3. /\ \A i \in 1 .. Len(events) : events[i].type \in {"boundary", "complete"}
      /\ ~provider.declared => \A i \in 1 .. Len(events) : events[i].type = "boundary"
  BY DEF SessionFits, Fits, EventsFit, EventFits
<1> QED
  BY <1>1, <1>2, <1>3

LEMMA TakesSpeakFits ==
    ASSUME TypeInv, SessionFits, TakesSpeak, ctx' = ctx, carry' = carry
    PROVE  SessionFits' /\ provider'.speakId = Head(commands).speakId
<1>1. /\ ctx \in Context /\ provider \in Provider /\ commands \in Seq(Command)
      /\ commands # <<>> /\ Head(commands).kind = "sapi_speak"
      /\ commands' = Tail(commands) /\ UNCHANGED <<events, audio>>
  BY DEF TypeInv, TypeOK, TakesSpeak, NextCommandIs
<1>2. /\ SpeakFits(ctx, provider, Tail(commands)) /\ NoSpeak(Tail(commands))
      /\ ~NoSpeak(commands)
      /\ Head(commands).speakId = ctx.speakId /\ provider.speakId < ctx.speakId
  BY <1>1, NextCommandFits DEF SessionFits, Fits
<1>3. ~Taken(ctx, provider) /\ ctx.downstreamState # "Idle"
  BY <1>1, <1>2 DEF SessionFits, Fits, PhaseFits, Taken, Provider, Context
<1>4. events = <<>> /\ audio = <<>>
  BY <1>3 DEF SessionFits, Fits, PhaseFits, Silent
<1>5. PICK total \in Totals :
         provider' = [IdleProvider EXCEPT !.speakId = Head(commands).speakId, !.busy = TRUE,
                          !.total = total, !.deviations = provider.deviations]
  BY DEF TakesSpeak
<1>6. total \in Nat /\ total % BlockAlign = 0
  BY ProviderAssumption
<1>7. /\ provider'.speakId = ctx.speakId /\ provider'.busy /\ ~provider'.declared
      /\ provider'.total = total /\ provider'.written = 0
  BY <1>2, <1>5 DEF IdleProvider
<1>8. Taken(ctx, provider') /\ ctx.speakId # 0
  BY <1>1, <1>2, <1>7 DEF Taken, Provider, Context
<1>9. ProviderFits(provider') /\ EventsFit(provider', events)
  <2>1. 0 % BlockAlign = 0
    BY BlockAlignAssumption, MultipleHasNoRemainder
  <2> QED
    BY <1>4, <1>6, <1>7, <1>8, <2>1 DEF ProviderFits, EventsFit
<1>10. AudioFits(ctx, provider', audio)
  <2>1. ctx.rawAudioBytesRead = 0
    BY <1>3 DEF SessionFits, Fits, AudioFits
  <2> QED
    BY <1>4, <1>7, <1>8, <2>1 DEF AudioFits
<1>11. /\ PhaseFits(ctx, carry, provider', Tail(commands), events, audio)
       /\ TerminalFits(ctx, provider', events)
  BY <1>3, <1>8 DEF PhaseFits, SessionFits, Fits, TerminalFits
<1>12. SpeakFits(ctx, provider', Tail(commands))
  BY <1>1, <1>2, <1>7 DEF SpeakFits, NoSpeak, Context
<1> QED
  BY <1>1, <1>2, <1>7, <1>9, <1>10, <1>11, <1>12 DEF SessionFits, Fits

LEMMA WritesFrameFits ==
    ASSUME TypeInv, SessionFits, WritesFrame, ctx' = ctx, carry' = carry
    PROVE  SessionFits' /\ provider'.speakId = provider.speakId
<1> DEFINE longer == audio \o [i \in 1 .. BlockAlign |-> provider.speakId]
<1>1. /\ ctx \in Context /\ provider \in Provider /\ audio \in Span
      /\ provider.written < provider.total /\ provider.busy
      /\ audio' = longer /\ UNCHANGED <<commands, events>>
      /\ provider' = Settled([provider EXCEPT !.written = @ + BlockAlign])
      /\ provider.written \in Nat /\ provider.total \in Nat /\ ctx.rawAudioBytesRead \in Nat
  BY DEF TypeInv, TypeOK, WritesFrame, Provider, Context
<1>2. /\ provider'.speakId = provider.speakId /\ provider'.total = provider.total
      /\ provider'.written = provider.written + BlockAlign
      /\ provider'.declared = provider.declared
      /\ provider'.busy = ~(provider'.declared /\ provider'.written = provider'.total)
  BY <1>1 DEF Settled, Provider
<1>3. /\ Taken(ctx, provider) /\ ctx.downstreamState # "Idle"
      /\ ctx.upstreamState # "Cancelled"
      /\ \A i \in 1 .. Len(events) : events[i].type \in {"boundary", "complete"}
  BY <1>1, BusyFits
<1>4. Taken(ctx, provider')
  BY <1>2, <1>3 DEF Taken
<1>5. /\ provider'.written <= provider'.total /\ provider'.written % BlockAlign = 0
      /\ provider'.total % BlockAlign = 0
  BY <1>1, <1>2, BlockAlignAssumption, WholeFrameFits DEF SessionFits, Fits, ProviderFits
<1>6. ProviderFits(provider')
  BY <1>1, <1>2, <1>5 DEF SessionFits, Fits, ProviderFits
<1>7. EventsFit(provider', events)
  BY <1>2, <1>3 DEF SessionFits, Fits, EventsFit, EventFits
<1>8. AudioFits(ctx, provider', audio')
  <2>1. /\ Len(audio) \in Nat /\ Len(longer) = Len(audio) + BlockAlign
        /\ \A i \in 1 .. Len(longer) :
              longer[i] = IF i <= Len(audio) THEN audio[i] ELSE provider.speakId
    BY <1>1, BlockAlignAssumption DEF Span
  <2> HIDE DEF longer
  <2>2. \A i \in 1 .. Len(longer) : longer[i] = provider.speakId
    BY <2>1 DEF SessionFits, Fits, AudioFits
  <2>3. ctx.rawAudioBytesRead + Len(longer) <= provider'.written
    <3>1. ctx.rawAudioBytesRead + Len(audio) <= provider.written
      BY <1>3 DEF SessionFits, Fits, AudioFits
    <3> QED
      BY <1>1, <1>2, <2>1, <3>1, BlockAlignAssumption
  <2> QED
    BY <1>1, <1>2, <1>4, <2>2, <2>3 DEF AudioFits
<1>9. /\ PhaseFits(ctx, carry, provider', commands, events, audio')
      /\ TerminalFits(ctx, provider', events) /\ SpeakFits(ctx, provider', commands)
  BY <1>2, <1>3, <1>4 DEF PhaseFits, SessionFits, Fits, TerminalFits, SpeakFits
<1> QED
  BY <1>1, <1>2, <1>6, <1>7, <1>8, <1>9 DEF SessionFits, Fits

\* The provider emits an event about the request at work.
LEMMA EmittingFits ==
    ASSUME TypeInv, SessionFits, provider.busy, NEW e \in Event,
           events' = Append(events, e), audio' = audio, ctx' = ctx, carry' = carry,
           SpeakFits(ctx, provider, commands'),
           provider' \in Provider,
           provider'.speakId = provider.speakId, provider'.total = provider.total,
           provider'.written = provider.written,
           provider.declared => provider'.declared,
           provider'.busy => ~(provider'.declared /\ provider'.written = provider'.total),
           EventFits(provider', e),
           provider.declared => e.type = "cancelled"
    PROVE  SessionFits'
<1>1. /\ Taken(ctx, provider) /\ ctx.downstreamState # "Idle"
      /\ ctx.upstreamState # "Cancelled"
      /\ \A i \in 1 .. Len(events) : events[i].type \in {"boundary", "complete"}
      /\ ~provider.declared =>
            /\ ctx.upstreamState # "Completed"
            /\ \A i \in 1 .. Len(events) : events[i].type = "boundary"
  BY BusyFits
<1>2. ProviderFits(provider')
  BY DEF SessionFits, Fits, ProviderFits
<1>3. EventsFit(provider', events')
  <2>1. EventsFit(provider, events) /\ events \in Seq(Event)
    BY DEF SessionFits, Fits, TypeInv, TypeOK
  <2>2. \A i \in 1 .. Len(events) : EventFits(provider', events[i])
    BY <1>1, <2>1 DEF EventsFit, EventFits
  <2>3. e.type = "cancelled" \/ \A i \in 1 .. Len(events) : events[i].type # "complete"
    BY <1>1
  <2> QED
    BY <2>1, <2>2, <2>3, EmitFits
<1>4. Taken(ctx, provider')
  BY <1>1 DEF Taken
<1>5. AudioFits(ctx, provider', audio)
  BY <1>1, <1>4 DEF SessionFits, Fits, AudioFits
<1>6. PhaseFits(ctx, carry, provider', commands', events', audio)
  BY <1>1, <1>4 DEF PhaseFits
<1>7. TerminalFits(ctx, provider', events')
  <2>1. ctx.upstreamState = "Completed" =>
           \A i \in 1 .. Len(events') : events'[i].type = "cancelled"
    <3>1. SUFFICES ASSUME ctx.upstreamState = "Completed", NEW i \in 1 .. Len(events')
                   PROVE  events'[i].type = "cancelled"
      OBVIOUS
    <3>2. /\ Len(events) \in Nat /\ Len(events') = Len(events) + 1
          /\ \A j \in 1 .. Len(events) : events'[j] = events[j]
          /\ events'[Len(events) + 1] = e
      BY DEF TypeInv, TypeOK
    <3>3. e.type = "cancelled" /\ \A j \in 1 .. Len(events) : events[j].type = "cancelled"
      BY <1>1, <3>1 DEF SessionFits, Fits, TerminalFits
    <3> QED
      BY <3>2, <3>3
  <2> QED
    BY <1>1, <1>4, <2>1 DEF SessionFits, Fits, TerminalFits
<1>8. SpeakFits(ctx, provider', commands')
  BY DEF SpeakFits
<1> QED
  BY <1>2, <1>3, <1>5, <1>6, <1>7, <1>8 DEF SessionFits, Fits

\* What the commands in the pipe go through: they stay, the provider takes the
\* first of them, or they are lost with the connection.
Stay == commands' = commands /\ connected' = connected /\ provider'.speakId = provider.speakId

TakesFirst ==
    /\ commands # <<>> /\ commands' = Tail(commands) /\ connected' = connected
    /\ provider'.speakId = IF Head(commands).kind = "sapi_speak" THEN Head(commands).speakId
                           ELSE provider.speakId

Lost == ~connected' /\ commands' = <<>> /\ provider'.speakId = provider.speakId

\* A provider that keeps its contract.
LEMMA ProviderKeepsFit ==
    ASSUME TypeInv, SessionFits, ContractKept, ProviderNext, ctx' = ctx, carry' = carry
    PROVE  FitKept /\ (Stay \/ TakesFirst \/ Lost)
<1>1. /\ ctx \in Context /\ provider \in Provider /\ commands \in Seq(Command)
      /\ events \in Seq(Event)
      /\ provider.speakId \in Nat /\ provider.written \in Nat /\ provider.total \in Nat
  BY DEF TypeInv, TypeOK, Provider
<1>2. SUFFICES SessionFits' /\ (Stay \/ TakesFirst \/ Lost)
  BY DEF FitKept
<1>3. \A type \in {"boundary", "complete", "cancelled", "logError"}, n \in Nat :
         /\ EventOf(type, provider.speakId, n) \in Event
         /\ EventOf(type, provider.speakId, n).type = type
         /\ EventOf(type, provider.speakId, n).speakId = provider.speakId
         /\ EventOf(type, provider.speakId, n).valid
         /\ EventOf(type, provider.speakId, n).bytes = n
  BY <1>1 DEF EventOf, Event, EventType
<1>4. /\ SpeakFits(ctx, provider, commands) /\ ProviderFits(provider)
      /\ commands # <<>> => SpeakFits(ctx, provider, Tail(commands))
      /\ commands # <<>> /\ NoSpeak(commands) => NoSpeak(Tail(commands))
  BY <1>1, NextCommandFits DEF SessionFits, Fits
<1>5. CASE TakesSpeak
  BY <1>5, TakesSpeakFits DEF TakesSpeak, NextCommandIs, TakesFirst
<1>6. CASE RefusesOverlap
  <2>1. commands # <<>> /\ Head(commands).kind = "sapi_speak" /\ provider.busy
    BY <1>6 DEF RefusesOverlap, NextCommandIs
  <2>2. Head(commands).speakId = ctx.speakId /\ provider.speakId < ctx.speakId
    BY <1>1, <1>4, <2>1, NextCommandFits
  <2> QED
    BY <1>1, <2>1, <2>2, BusyFits DEF Taken, Context
<1>7. CASE WritesFrame
  BY <1>7, WritesFrameFits DEF WritesFrame, Stay
<1>8. CASE EmitsBoundary
  <2> DEFINE e == EventOf("boundary", provider.speakId, 0)
  <2>1. /\ events' = Append(events, e) /\ provider.busy /\ ~provider.declared
        /\ UNCHANGED <<connected, commands, audio, provider>>
    BY <1>8 DEF EmitsBoundary, Emit
  <2>2. EventFits(provider, e) /\ e \in Event
    BY <1>3 DEF EventFits
  <2> HIDE DEF e
  <2> QED
    BY <1>1, <1>4, <2>1, <2>2, EmittingFits DEF Stay, ProviderFits
<1>9. CASE DeclaresComplete
  <2> DEFINE e == EventOf("complete", provider.speakId, provider.total)
  <2>1. /\ events' = Append(events, e) /\ provider.busy /\ ~provider.declared
        /\ UNCHANGED <<connected, commands, audio>>
        /\ provider' = Settled([provider EXCEPT !.declared = TRUE])
    BY <1>9 DEF DeclaresComplete, Emit
  <2>2. /\ provider' \in Provider
        /\ provider'.speakId = provider.speakId /\ provider'.total = provider.total
        /\ provider'.written = provider.written /\ provider'.declared
        /\ provider'.busy = ~(provider'.declared /\ provider'.written = provider'.total)
    BY <1>1, <2>1 DEF Settled, Provider
  <2>3. EventFits(provider', e) /\ e \in Event
    BY <1>1, <1>3, <2>2 DEF EventFits
  <2> HIDE DEF e
  <2> QED
    BY <1>1, <1>4, <2>1, <2>2, <2>3, EmittingFits DEF Stay
<1>10. CASE AcknowledgesCancel
  <2> DEFINE e == EventOf("cancelled", provider.speakId, provider.written)
  <2>1. /\ events' = Append(events, e) /\ provider.busy
        /\ commands # <<>> /\ Head(commands).kind = "cancel"
        /\ UNCHANGED <<connected, audio>>
        /\ provider' = [provider EXCEPT !.busy = FALSE]
        /\ commands' = Tail(commands)
    BY <1>10 DEF AcknowledgesCancel, NextCommandIs, Emit
  <2>2. /\ provider' \in Provider
        /\ provider'.speakId = provider.speakId /\ provider'.total = provider.total
        /\ provider'.written = provider.written /\ provider'.declared = provider.declared
        /\ ~provider'.busy
    BY <1>1, <2>1 DEF Provider
  <2>3. EventFits(provider', e) /\ e \in Event /\ e.type = "cancelled"
    BY <1>1, <1>3, <1>4, <2>1, <2>2 DEF EventFits, ProviderFits
  <2> HIDE DEF e
  <2> QED
    BY <1>1, <1>4, <2>1, <2>2, <2>3, EmittingFits DEF TakesFirst
<1>11. CASE IgnoresCancel
  <2>1. /\ commands # <<>> /\ Head(commands).kind = "cancel" /\ commands' = Tail(commands)
        /\ UNCHANGED <<connected, events, audio, provider>>
    BY <1>11 DEF IgnoresCancel, NextCommandIs
  <2>2. PhaseFits(ctx, carry, provider, Tail(commands), events, audio)
    BY <1>4, <2>1 DEF SessionFits, Fits, PhaseFits
  <2> QED
    BY <1>4, <2>1, <2>2 DEF SessionFits, Fits, TakesFirst
<1>12. CASE FailsRequest
  <2> DEFINE e == EventOf("logError", provider.speakId, 0)
  <2>1. /\ events' = Append(events, e)
        /\ provider.busy /\ provider.written = 0 /\ ~provider.declared
        /\ UNCHANGED <<connected, commands, audio>>
        /\ provider' = [provider EXCEPT !.busy = FALSE]
    BY <1>12 DEF FailsRequest, Emit
  <2>2. /\ provider' \in Provider
        /\ provider'.speakId = provider.speakId /\ provider'.total = provider.total
        /\ provider'.written = provider.written /\ provider'.declared = provider.declared
        /\ ~provider'.busy
    BY <1>1, <2>1 DEF Provider
  <2>3. EventFits(provider', e) /\ e \in Event
    BY <1>3, <2>1, <2>2 DEF EventFits
  <2> HIDE DEF e
  <2> QED
    BY <1>1, <1>4, <2>1, <2>2, <2>3, EmittingFits DEF Stay
<1>13. CASE Deviates
  <2>1. Env \cap Deviations = {} /\ "extraAudio" \notin Env
    BY DEF ContractKept, Deviations
  <2> QED
    BY <1>13, <2>1 DEF Deviates
<1>14. CASE Crashes
  <2>1. /\ ~connected' /\ commands' = <<>>
        /\ provider' = [provider EXCEPT !.busy = FALSE]
        /\ \/ UNCHANGED <<events, audio>>
           \/ events' = <<>> /\ audio' = <<>>
    BY <1>14 DEF Crashes
  <2>2. /\ provider'.speakId = provider.speakId /\ provider'.total = provider.total
        /\ provider'.written = provider.written /\ provider'.declared = provider.declared
        /\ ~provider'.busy
    BY <1>1, <2>1 DEF Provider
  <2>3. ProviderFits(provider') /\ EventsFit(provider', events')
    BY <2>1, <2>2 DEF SessionFits, Fits, ProviderFits, EventsFit, EventFits
  <2>4. AudioFits(ctx, provider', audio') /\ SpeakFits(ctx, provider', commands')
    <3>1. ctx.rawAudioBytesRead \in Nat /\ Len(audio) \in Nat
      BY DEF TypeInv, TypeOK, Context, Span
    <3> QED
      BY <1>1, <2>1, <2>2, <3>1 DEF SessionFits, Fits, AudioFits, SpeakFits, Taken
  <2>5. /\ PhaseFits(ctx, carry, provider', commands', events', audio')
        /\ TerminalFits(ctx, provider', events')
    BY <2>1, <2>2 DEF SessionFits, Fits, PhaseFits, TerminalFits, Silent, NoSpeak, Taken
  <2> QED
    BY <2>1, <2>2, <2>3, <2>4, <2>5 DEF SessionFits, Fits, Lost
<1> QED
  BY <1>5, <1>6, <1>7, <1>8, <1>9, <1>10, <1>11, <1>12, <1>13, <1>14 DEF ProviderNext
-----------------------------------------------------------------------------
(* The order of the commands.                                              *)

\* A command for request r is with the provider, or in the pipe before it.
Asked(p, cm, r) ==
    \/ r <= p.speakId
    \/ \E i \in 1 .. Len(cm) : cm[i].kind = "sapi_speak" /\ cm[i].speakId = r

CancelsFollow(p, cm) ==
    \A i \in 1 .. Len(cm) : cm[i].kind = "cancel" =>
        \/ cm[i].speakId <= p.speakId
        \/ \E j \in 1 .. Len(cm) : /\ j < i /\ cm[j].kind = "sapi_speak"
                                   /\ cm[j].speakId = cm[i].speakId

\* Speak sends a request the provider has yet to take, waits for one that was
\* sent, and no thread cancels, and no span is on its way for, one that was not.
OrderInv ==
    /\ pc["speak"] = "send" =>
          provider.speakId < speakCounter /\ NoSpeak(commands) /\ ctx.downstreamState # "Idle"
    /\ connected /\ pc["speak"] = "wait" => Asked(provider, commands, speakCounter)
    /\ connected => \A t \in Threads :
          pc[t] = "sendCancel" => Asked(provider, commands, cancelId[t])
    /\ DeliversTaken
    /\ CancelsFollow(provider, commands)

\* What one step may do to the commands, and to who is about to send one.
Cancels(t) ==
    /\ pc[t] = "sendCancel" /\ connected /\ connected'
    /\ commands' = Append(commands, [kind |-> "cancel", speakId |-> cancelId[t]])
    /\ provider'.speakId = provider.speakId

AsksStep ==
    \A t \in Threads : pc'[t] = "sendCancel" =>
        \/ pc[t] = "sendCancel" /\ cancelId'[t] = cancelId[t]
        \/ cancelId'[t] = ctx.speakId /\ (Taken(ctx, provider) \/ pc["speak"] = "wait")

BatchStep ==
    Delivering' => \/ Delivering /\ batch'.token = batch.token
                   \/ batch'.token = Token(ctx) /\ Taken(ctx, provider)

\* EnterFaultedState and the steps that go elsewhere ask and batch nothing.
LEMMA FaultAsksNothing ==
    ASSUME TypeInv, NEW t \in Threads, EnterFaultedState(t)
    PROVE  AsksStep /\ BatchStep /\ Stay
<1>1. UNCHANGED localVars /\ UNCHANGED providerVars
  BY DEF EnterFaultedState, FaultsRequest, PublishesFault, CancelsIo
<1>2. \A u \in Threads : pc'[u] = pc[u] \/ pc'[u] = "failed"
  BY FaultLeavesPlaces
<1>3. "audio" \in Threads
  BY DEF Threads, Readers
<1> QED
  BY <1>1, <1>2, <1>3 DEF localVars, providerVars, AsksStep, BatchStep, Delivering, Stay

\* The audio thread.
LEMMA AudioAsks ==
    ASSUME TypeInv, SessionFits, DeliveryInv, DeliversTaken, AudioThread
    PROVE  AsksStep /\ BatchStep /\ (Stay \/ Cancels("audio"))
<1>1. "audio" \in Threads /\ pc \in [Threads -> Place]
  BY DEF TypeInv, TypeOK, Threads, Readers
<1>2. CASE AssemblesSpeakingAudio
  <2>1. PICK data \in Chunks : AssemblesSpeakingAudio!(data)
    BY <1>2 DEF AssemblesSpeakingAudio
  <2>2. Taken(ctx, provider) /\ UNCHANGED <<connected, commands, provider>>
    BY <2>1, ReadFits
  <2>3. cancelId' = cancelId /\ (pc' = pc \/ Goto("audio", "deliver"))
    BY <2>1
  <2>4. \/ batch' = batch /\ pc' = pc
        \/ batch'.token = Token(ctx)
    BY <2>1 DEF NoBatch
  <2> QED
    BY <1>1, <2>2, <2>3, <2>4 DEF AsksStep, BatchStep, Stay, Goto, Delivering
<1>3. CASE UpdatesAfterDelivery
  <2>1. Delivering /\ Stay /\ pc'["audio"] \in {"read", "sendCancel"}
    BY <1>1, <1>3 DEF UpdatesAfterDelivery, At, Goto, Delivering, Stay, providerVars
  <2>2. ~Delivering'
    BY <2>1 DEF Delivering
  <2>3. CASE Goto("audio", "read") /\ UNCHANGED cancelId
    BY <1>1, <2>1, <2>2, <2>3 DEF AsksStep, BatchStep, Goto
  <2>4. CASE /\ BatchAction(ctx, batch.token, ~batch.accepted) = "CreditAndBeginCancellation"
             /\ Goto("audio", "sendCancel")
             /\ cancelId' = [cancelId EXCEPT !["audio"] = ctx.speakId]
    <3>1. Token(ctx) = batch.token
      BY <2>4 DEF BatchAction
    <3>2. Taken(ctx, provider)
      BY <2>1, <3>1, CurrentIsTaken
    <3>3. cancelId \in [Threads -> 0 .. MaxSpeaks]
      BY DEF TypeInv, TypeOK
    <3> QED
      BY <1>1, <2>1, <2>2, <2>4, <3>2, <3>3 DEF AsksStep, BatchStep, Goto
  <2> QED
    BY <1>3, <2>3, <2>4 DEF UpdatesAfterDelivery
<1>4. CASE AudioSendsCancel
  <2>1. /\ UNCHANGED localVars /\ Goto("audio", "read")
        /\ Stay \/ Cancels("audio")
    BY <1>4 DEF AudioSendsCancel, SendsCancel, CancelSendFails, Cancels, Stay, At, providerVars
  <2> QED
    BY <1>1, <2>1 DEF AsksStep, BatchStep, Goto, localVars, Delivering
<1>5. CASE EnterFaultedState("audio")
  BY <1>1, <1>5, FaultAsksNothing
<1>6. CASE \/ AssemblyThrows \/ DrainsCancellationAudio \/ FaultsOnIdleAudio
           \/ DrainsFaultedAudio
  <2>1. PICK data \in Chunks : Reads(data)
    BY <1>6 DEF AssemblyThrows, DrainsCancellationAudio, FaultsOnIdleAudio, DrainsFaultedAudio
  <2>2. UNCHANGED <<connected, commands, provider>>
    BY <2>1 DEF Reads
  <2>3. UNCHANGED localVars /\ (pc' = pc \/ Goto("audio", "exit"))
    BY <1>6 DEF AssemblyThrows, DrainsCancellationAudio, FaultsOnIdleAudio, DrainsFaultedAudio
  <2> QED
    BY <1>1, <2>2, <2>3 DEF AsksStep, BatchStep, Goto, localVars, Delivering, Stay
<1>7. CASE \/ ReadBreaks("audio") \/ ReadFailed("audio") \/ LeavesLoop("audio")
  <2>1. /\ UNCHANGED localVars /\ UNCHANGED providerVars
        /\ Goto("audio", "failed") \/ Goto("audio", "exit")
    BY <1>7 DEF ReadBreaks, ReadFailed, LeavesLoop
  <2> QED
    BY <1>1, <2>1 DEF AsksStep, BatchStep, Goto, localVars, Delivering, Stay, providerVars
<1>8. CASE AdmitsSpan \/ CapturesSite \/ SiteAcceptsSpan \/ SiteRejectsSpan
  <2>1. /\ cancelId' = cancelId /\ UNCHANGED providerVars /\ Delivering
        /\ Goto("audio", "write") \/ Goto("audio", "update") \/ Goto("audio", "writing")
              \/ Goto("audio", "deliver")
    BY <1>8 DEF AdmitsSpan, CapturesSite, SiteAcceptsSpan, SiteRejectsSpan, At, Delivering,
                localVars
  <2>2. batch'.token = batch.token
    BY <1>8 DEF AdmitsSpan, CapturesSite, SiteAcceptsSpan, SiteRejectsSpan, localVars,
                TypeInv, TypeOK, Batch
  <2> QED
    BY <1>1, <2>1, <2>2 DEF AsksStep, BatchStep, Goto, Stay, providerVars
<1> QED
  BY <1>2, <1>3, <1>4, <1>5, <1>6, <1>7, <1>8 DEF AudioThread

\* The control thread.
LEMMA ControlAsks ==
    ASSUME TypeInv, ControlThread
    PROVE  AsksStep /\ BatchStep /\ Stay
<1>1. {"audio", "control"} \subseteq Threads /\ pc \in [Threads -> Place]
  BY DEF TypeInv, TypeOK, Threads, Readers
<1>2. CASE EnterFaultedState("control")
  BY <1>1, <1>2, FaultAsksNothing
<1>3. CASE ~EnterFaultedState("control")
  <2>1. /\ batch' = batch /\ cancelId' = cancelId
        /\ \/ pc' = pc
           \/ \E place \in {"failed", "exit", "read", "forward", "callback", "notify"} :
                 Goto("control", place)
    BY <1>3 DEF ControlThread, ReadBreaks, ReadFailed, LeavesLoop, ReadsMalformedLine,
                ReadsOrphanEvent, HandlesEvent, AdmitsEvent, CapturesEventSite, NotifiesSite,
                Dispatched, localVars
  <2>2. Stay
    BY <1>3 DEF ControlThread, ReadBreaks, ReadFailed, LeavesLoop, ReadsMalformedLine,
                ReadsOrphanEvent, HandlesEvent, AdmitsEvent, CapturesEventSite, NotifiesSite,
                NextEvent, Stay, providerVars
  <2> QED
    BY <1>1, <2>1, <2>2 DEF AsksStep, BatchStep, Goto, Delivering
<1> QED
  BY <1>2, <1>3

\* Speak's thread, apart from the steps that change the session or the request.
LEMMA CallerKeepsFit ==
    ASSUME TypeInv, SessionFits, SpeakThread,
           ~(SetsObjectToken \/ RecreatesSession \/ Retires \/ Destroys \/ Starts \/ SendsSpeak)
    PROVE  FitKept /\ AsksStep /\ BatchStep /\ (Stay \/ Cancels("speak"))
<1>1. /\ ctx \in Context /\ provider \in Provider /\ commands \in Seq(Command)
      /\ {"audio", "speak"} \subseteq Threads /\ pc \in [Threads -> Place]
      /\ cancelId \in [Threads -> 0 .. MaxSpeaks]
  BY DEF TypeInv, TypeOK, Threads, Readers, Callers
<1>2. CASE ObservesAbort
  <2>1. /\ ctx' = TransitionToCancelling(ctx) /\ carry' = <<>> /\ UNCHANGED providerVars
        /\ cancelId' = [cancelId EXCEPT !["speak"] = ctx.speakId]
        /\ Goto("speak", "sendCancel") /\ pc["speak"] = "wait" /\ batch' = batch
    BY <1>2 DEF ObservesAbort, BeginsCancellation, At
  <2>2. ctx'.downstreamState = "Cancelling"
    BY <1>1, <2>1 DEF TransitionToCancelling, Context
  <2>3. Fits(ctx', carry', provider, commands, events, audio)
    BY <1>1, <2>1, MarkFits DEF SessionFits
  <2> QED
    BY <1>1, <2>1, <2>2, <2>3
    DEF FitKept, SessionFits, providerVars, AsksStep, BatchStep, Stay, Goto, Delivering
<1>3. CASE SpeakCancels
  <2>1. /\ UNCHANGED requestVars /\ UNCHANGED localVars
        /\ UNCHANGED <<events, audio, provider, connected>>
        /\ Goto("speak", "drain") \/ Goto("speak", "cleanup")
        /\ \/ commands' = commands
           \/ /\ commands' = Append(commands, [kind |-> "cancel", speakId |-> cancelId["speak"]])
              /\ pc["speak"] = "sendCancel" /\ connected
    BY <1>3 DEF SpeakCancels, SendsCancel, CancelSendFails, At, providerVars
  <2>2. FitKept
    BY <1>1, <2>1, CancelFits DEF FitKept, SessionFits, requestVars
  <2>3. AsksStep /\ BatchStep
    BY <1>1, <2>1 DEF AsksStep, BatchStep, Goto, localVars, Delivering
  <2> QED
    BY <2>1, <2>2, <2>3 DEF Stay, Cancels
<1>4. CASE EnterFaultedState("speak")
  BY <1>1, <1>4, FaultKeepsFit, FaultAsksNothing
<1>5. CASE BeginsRetirement \/ BeginsDestruction
  <2>1. /\ UNCHANGED requestVars /\ UNCHANGED localVars /\ UNCHANGED providerVars
        /\ \A u \in Threads : pc'[u] = pc[u] \/ pc'[u] \in {"retire", "destroy", "done", "failed"}
    BY <1>5 DEF BeginsRetirement, BeginsDestruction
  <2> QED
    BY <1>1, <2>1 DEF FitKept, SessionFits, requestVars, providerVars, localVars, AsksStep,
                      BatchStep, Stay, Delivering
<1>6. CASE \/ SpeakBegins \/ FindsSessionActive \/ HasNoSession \/ StartRefused
           \/ SpeakSendFails \/ WaitEnds \/ WaitTimesOut \/ DrainEnds \/ DrainTimesOut
           \/ SpeakReturns
  <2>1. /\ UNCHANGED requestVars /\ UNCHANGED localVars /\ UNCHANGED providerVars
        /\ \E place \in {"session", "start", "cleanup", "idle"} : Goto("speak", place)
    BY <1>6 DEF SpeakBegins, FindsSessionActive, HasNoSession, StartRefused, SpeakSendFails,
                WaitEnds, WaitTimesOut, DrainEnds, DrainTimesOut, SpeakReturns, Returns
  <2> QED
    BY <1>1, <2>1 DEF FitKept, SessionFits, requestVars, providerVars, localVars, AsksStep,
                      BatchStep, Stay, Delivering, Goto
<1> QED
  BY <1>2, <1>3, <1>4, <1>5, <1>6 DEF SpeakThread

\* Speak comes to its send only by starting, and to its wait only by sending.
LEMMA SpeakPlaces ==
    ASSUME TypeInv, [Next]_vars
    PROVE  /\ pc'["speak"] = "send" => Starts \/ pc["speak"] = "send"
           /\ pc'["speak"] = "wait" => SendsSpeak \/ pc["speak"] = "wait"
           /\ SendsSpeak => pc'["speak"] = "wait"
<1>1. pc \in [Threads -> Place] /\ "speak" \in Threads
  BY DEF TypeInv, TypeOK, Threads, Callers
<1>2. SendsSpeak => pc'["speak"] = "wait"
  BY <1>1 DEF SendsSpeak, Goto
<1>3. CASE ~SpeakThread
  BY <1>2, <1>3, OthersLeaveCall
<1>4. CASE Starts \/ SendsSpeak
  BY <1>1, <1>2, <1>4 DEF Starts, Goto
<1>5. CASE EnterFaultedState("speak")
  BY <1>1, <1>2, <1>5, FaultLeavesPlaces DEF Readers
<1>6. CASE SetsObjectToken \/ RecreatesSession
  BY <1>1, <1>2, <1>6 DEF SetsObjectToken, RecreatesSession, CreatesSession, At
<1>7. CASE BeginsRetirement \/ BeginsDestruction
  <2>1. pc'["speak"] \in {"retire", "destroy"}
    BY <1>1, <1>7 DEF BeginsRetirement, BeginsDestruction
  <2> QED
    BY <1>2, <2>1
<1>8. CASE \/ SpeakBegins \/ FindsSessionActive \/ Retires \/ HasNoSession \/ StartRefused
           \/ SpeakSendFails \/ WaitEnds \/ WaitTimesOut \/ ObservesAbort \/ SpeakCancels
           \/ DrainEnds \/ DrainTimesOut \/ SpeakReturns \/ Destroys
  <2>1. pc'["speak"] \notin {"send", "wait"}
    BY <1>1, <1>8
    DEF SpeakBegins, FindsSessionActive, Retires, HasNoSession, StartRefused, SpeakSendFails,
        WaitEnds, WaitTimesOut, ObservesAbort, SpeakCancels, SendsCancel, CancelSendFails,
        DrainEnds, DrainTimesOut, SpeakReturns, Destroys, Returns, Goto
  <2> QED
    BY <1>2, <2>1
<1> QED
  BY <1>3, <1>4, <1>5, <1>6, <1>7, <1>8 DEF SpeakThread

\* Commands once in the pipe keep their requests with the provider or before them.
LEMMA CommandsKeepOrder ==
    ASSUME NEW p, NEW q, NEW cm \in Seq(Command), NEW next,
           p.speakId \in Nat, q.speakId \in Nat, CancelsFollow(p, cm),
           \/ next = cm /\ q.speakId = p.speakId
           \/ /\ cm # <<>> /\ next = Tail(cm) /\ p.speakId <= q.speakId
              /\ q.speakId = IF Head(cm).kind = "sapi_speak" THEN Head(cm).speakId
                             ELSE p.speakId
           \/ \E e : /\ next = Append(cm, e) /\ q.speakId = p.speakId
                     /\ e.kind = "cancel" => Asked(p, cm, e.speakId)
    PROVE  /\ CancelsFollow(q, next)
           /\ \A r \in Nat : Asked(p, cm, r) => Asked(q, next, r)
<1>1. CASE next = cm /\ q.speakId = p.speakId
  BY <1>1 DEF CancelsFollow, Asked
<1>2. CASE /\ cm # <<>> /\ next = Tail(cm) /\ p.speakId <= q.speakId
           /\ q.speakId = IF Head(cm).kind = "sapi_speak" THEN Head(cm).speakId
                          ELSE p.speakId
  <2>1. /\ Len(cm) \in Nat \ {0} /\ Len(next) = Len(cm) - 1 /\ Head(cm) = cm[1]
        /\ \A i \in 1 .. Len(next) : next[i] = cm[i + 1] /\ i + 1 \in 1 .. Len(cm)
    BY <1>2
  <2>2. \A i \in 1 .. Len(cm) : i # 1 => i - 1 \in 1 .. Len(next) /\ next[i - 1] = cm[i]
    <3>1. SUFFICES ASSUME NEW i \in 1 .. Len(cm), i # 1
                   PROVE  i - 1 \in 1 .. Len(next) /\ next[i - 1] = cm[i]
      OBVIOUS
    <3>2. i - 1 \in 1 .. Len(next) /\ (i - 1) + 1 = i
      BY <2>1, <3>1
    <3>3. next[i - 1] = cm[(i - 1) + 1]
      BY <2>1, <3>2
    <3> QED
      BY <3>2, <3>3
  <2>3. \A i \in 1 .. Len(cm) : cm[i].speakId \in Nat
    <3>1. \A i \in 1 .. Len(cm) : cm[i] \in Command
      OBVIOUS
    <3> QED
      BY <3>1, ProviderAssumption DEF Command
  <2>4. \A i \in 1 .. Len(cm) : cm[i].kind = "sapi_speak" /\ i = 1 => cm[i].speakId <= q.speakId
    <3>1. cm[1].kind = "sapi_speak" => cm[1].speakId = q.speakId
      BY <1>2, <2>1
    <3>2. q.speakId <= q.speakId
      OBVIOUS
    <3> QED
      BY <3>1, <3>2
  <2>5. CancelsFollow(q, next)
    <3>1. SUFFICES ASSUME NEW i \in 1 .. Len(next), next[i].kind = "cancel",
                          ~(next[i].speakId <= q.speakId)
                   PROVE  \E j \in 1 .. Len(next) : /\ j < i /\ next[j].kind = "sapi_speak"
                                                    /\ next[j].speakId = next[i].speakId
      BY DEF CancelsFollow
    <3>2. i + 1 \in 1 .. Len(cm) /\ next[i] = cm[i + 1] /\ cm[i + 1].speakId \in Nat
      BY <2>1, <2>3
    <3>3. ~(cm[i + 1].speakId <= p.speakId)
      BY <1>2, <3>1, <3>2
    <3>4. PICK j \in 1 .. Len(cm) : /\ j < i + 1 /\ cm[j].kind = "sapi_speak"
                                    /\ cm[j].speakId = cm[i + 1].speakId
      BY <3>1, <3>2, <3>3 DEF CancelsFollow
    <3>5. j # 1
      BY <2>1, <2>4, <3>1, <3>2, <3>4
    <3>6. j - 1 \in 1 .. Len(next) /\ next[j - 1] = cm[j] /\ j - 1 < i
      BY <2>2, <3>4, <3>5
    <3> QED
      BY <3>2, <3>4, <3>6
  <2>6. ASSUME NEW r \in Nat, Asked(p, cm, r) PROVE Asked(q, next, r)
    <3>1. CASE r <= p.speakId
      BY <1>2, <3>1 DEF Asked
    <3>2. CASE \E i \in 1 .. Len(cm) : cm[i].kind = "sapi_speak" /\ cm[i].speakId = r
      <4>1. PICK i \in 1 .. Len(cm) : cm[i].kind = "sapi_speak" /\ cm[i].speakId = r
        BY <3>2
      <4>2. CASE i = 1
        BY <2>4, <4>1, <4>2 DEF Asked
      <4>3. CASE i # 1
        BY <2>2, <4>1, <4>3 DEF Asked
      <4> QED
        BY <4>2, <4>3
    <3> QED
      BY <2>6, <3>1, <3>2 DEF Asked
  <2> QED
    BY <2>5, <2>6
<1>3. CASE \E e : /\ next = Append(cm, e) /\ q.speakId = p.speakId
                  /\ e.kind = "cancel" => Asked(p, cm, e.speakId)
  <2>1. PICK e : /\ next = Append(cm, e) /\ q.speakId = p.speakId
                 /\ e.kind = "cancel" => Asked(p, cm, e.speakId)
    BY <1>3
  <2>2. /\ Len(cm) \in Nat /\ Len(next) = Len(cm) + 1
        /\ \A i \in 1 .. Len(cm) : next[i] = cm[i] /\ i \in 1 .. Len(next) /\ i < Len(cm) + 1
        /\ next[Len(cm) + 1] = e
    BY <2>1
  <2>3. CancelsFollow(q, next)
    <3>1. SUFFICES ASSUME NEW i \in 1 .. Len(next), next[i].kind = "cancel"
                   PROVE  \/ next[i].speakId <= q.speakId
                          \/ \E j \in 1 .. Len(next) : /\ j < i /\ next[j].kind = "sapi_speak"
                                                       /\ next[j].speakId = next[i].speakId
      BY DEF CancelsFollow
    <3>2. CASE i = Len(cm) + 1
      <4>1. next[i] = e /\ Asked(p, cm, e.speakId)
        BY <2>1, <2>2, <3>1, <3>2
      <4>2. CASE e.speakId <= p.speakId
        BY <2>1, <4>1, <4>2
      <4>3. CASE \E j \in 1 .. Len(cm) : cm[j].kind = "sapi_speak" /\ cm[j].speakId = e.speakId
        BY <2>2, <3>2, <4>1, <4>3
      <4> QED
        BY <4>1, <4>2, <4>3 DEF Asked
    <3>3. CASE i # Len(cm) + 1
      <4>1. i \in 1 .. Len(cm)
        BY <2>2, <3>3
      <4>2. \/ cm[i].speakId <= p.speakId
            \/ \E j \in 1 .. Len(cm) : /\ j < i /\ cm[j].kind = "sapi_speak"
                                       /\ cm[j].speakId = cm[i].speakId
        BY <2>2, <3>1, <4>1 DEF CancelsFollow
      <4> QED
        BY <2>1, <2>2, <4>1, <4>2
    <3> QED
      BY <3>2, <3>3
  <2>4. \A r \in Nat : Asked(p, cm, r) => Asked(q, next, r)
    <3>1. SUFFICES ASSUME NEW r \in Nat, Asked(p, cm, r) PROVE Asked(q, next, r)
      OBVIOUS
    <3>2. CASE r <= p.speakId
      BY <2>1, <3>2 DEF Asked
    <3>3. CASE \E j \in 1 .. Len(cm) : cm[j].kind = "sapi_speak" /\ cm[j].speakId = r
      BY <2>2, <3>3 DEF Asked
    <3> QED
      BY <3>1, <3>2, <3>3 DEF Asked
  <2> QED
    BY <2>3, <2>4
<1> QED
  BY <1>1, <1>2, <1>3
-----------------------------------------------------------------------------
(* The invariant.                                                          *)

\* Without a direct caller nobody but Speak calls the worker.
LEMMA NoDirectCallNext ==
    ASSUME "direct" \notin Env, TypeInv, DispositionIsHeld, NoDirectCall, [Next]_vars
    PROVE  NoDirectCall' /\ ~DirectCaller
<1>1. /\ pc \in [Threads -> Place] /\ fault \in [Threads -> FaultStage]
      /\ {"audio", "control", "speak", "purge"} \subseteq Threads
  BY DEF TypeInv, TypeOK, Threads, Readers, Callers
<1>2. ~DirectCaller
  BY DEF DirectCaller, DrainsDirectly, Stops, DirectCallBegins, StopSends, DirectDrainEnds,
         SendsCancel, CancelSendFails, EnterFaultedState, FaultsRequest, PublishesFault,
         CancelsIo, At, NoDirectCall
<1>3. CASE AudioThread \/ ControlThread
  BY <1>2, <1>3, AudioLeavesOthers, ControlLeavesOthers DEF DirectCallKept, NoDirectCall
<1>4. CASE SpeakThread
  <2>1. CASE SetsObjectToken \/ RecreatesSession
    BY <1>1, <1>2, <2>1 DEF SetsObjectToken, RecreatesSession, CreatesSession, NoDirectCall
  <2>2. CASE BeginsRetirement \/ BeginsDestruction
    <3>1. PICK hit \in PendingReads :
             \/ pc' = [u \in Threads |-> IF u = "speak" THEN "retire"
                                         ELSE IF u \in hit THEN "failed" ELSE pc[u]]
             \/ pc' = [u \in Threads |-> IF u = "speak" THEN "destroy"
                                         ELSE IF u = "purge" THEN "done"
                                         ELSE IF u \in hit THEN "failed" ELSE pc[u]]
      BY <2>2 DEF BeginsRetirement, BeginsDestruction
    <3>2. "purge" \notin hit
      BY DEF PendingReads, Readers
    <3>3. pc'["purge"] \in {pc["purge"], "done"}
      BY <1>1, <3>1, <3>2
    <3> QED
      BY <1>2, <2>2, <3>3 DEF BeginsRetirement, BeginsDestruction, NoDirectCall
  <2> QED
    BY <1>2, <1>4, <2>1, <2>2, SpeakLeavesOthers DEF DirectCallKept, NoDirectCall
<1>5. CASE \/ InactivityElapses \/ DeadlinePasses \/ UNCHANGED <<workerVars, engineVars>>
           \/ UNCHANGED vars
  BY <1>2, <1>5 DEF InactivityElapses, DeadlinePasses, workerVars, vars, NoDirectCall
<1> QED
  BY <1>2, <1>3, <1>4, <1>5 DEF Next, Terminated

ContractInv == NoDirectCall /\ SessionFits /\ OrderInv

LEMMA ContractInvInit == Init => ContractInv
<1> SUFFICES ASSUME Init PROVE ContractInv
  OBVIOUS
<1>1. /\ ctx = FreshContext /\ carry = <<>> /\ ProviderInit
      /\ \A t \in Threads : pc[t] \in {"idle", "ready", "exit"} /\ fault[t] = "none"
      /\ pc["speak"] = "idle" /\ pc["purge"] = "ready" /\ pc["audio"] = "exit"
      /\ fault["purge"] = "none"
  BY DEF Init, Threads, Readers, Callers
<1>2. /\ provider.speakId = 0 /\ ~provider.busy /\ provider.written = 0 /\ provider.total = 0
      /\ commands = <<>> /\ events = <<>> /\ audio = <<>> /\ ~connected
  BY <1>1 DEF ProviderInit, IdleProvider
<1>3. /\ ctx.speakId = 0 /\ ctx.rawAudioBytesRead = 0 /\ ctx.deliveredAudioBytes = 0
      /\ ctx.upstreamState = "Idle" /\ ctx.downstreamState = "Idle"
  BY <1>1 DEF FreshContext
<1>4. 0 % BlockAlign = 0
  BY BlockAlignAssumption, MultipleHasNoRemainder
<1>5. ProviderFits(provider) /\ EventsFit(provider, events)
  BY <1>2, <1>4 DEF ProviderFits, EventsFit
<1>6. AudioFits(ctx, provider, audio) /\ SpeakFits(ctx, provider, commands)
  BY <1>2, <1>3 DEF AudioFits, SpeakFits, Taken
<1>7. /\ PhaseFits(ctx, carry, provider, commands, events, audio)
      /\ TerminalFits(ctx, provider, events)
  BY <1>1, <1>2, <1>3 DEF PhaseFits, TerminalFits, Silent, NoSpeak, InUse
<1>8. OrderInv
  BY <1>1, <1>2 DEF OrderInv, DeliversTaken, Delivering, CancelsFollow
<1>9. NoDirectCall
  BY <1>1 DEF NoDirectCall
<1> QED
  BY <1>5, <1>6, <1>7, <1>8, <1>9 DEF ContractInv, SessionFits, Fits

\* What a step does to the commands in the pipe.
CommandsMove ==
    \/ Stay \/ TakesFirst \/ Lost \/ SendsSpeak
    \/ \E t \in Threads : Cancels(t)

\* A step of a session that stays keeps the order.
LEMMA OrderKept ==
    ASSUME TypeInv, TypeInv', OwnerInv, SessionFits, OrderInv, ~Starts,
           FitKept, AsksStep, BatchStep, CommandsMove, speakCounter' = speakCounter \/ SpeakBegins,
           pc'["speak"] = "send" => pc["speak"] = "send",
           pc'["speak"] = "wait" => SendsSpeak \/ pc["speak"] = "wait",
           SendsSpeak => pc'["speak"] = "wait"
    PROVE  OrderInv'
<1>1. /\ commands \in Seq(Command) /\ provider \in Provider /\ ctx \in Context
      /\ provider.speakId \in Nat /\ provider'.speakId \in Nat /\ speakCounter \in Nat
      /\ ctx.speakId \in Nat
      /\ \A t \in Threads : cancelId[t] \in Nat /\ cancelId'[t] \in Nat
  BY ProviderAssumption DEF TypeInv, TypeOK, Provider, Context
<1>2. connected' => connected /\ ~Lost
  BY DEF CommandsMove, Lost, Stay, TakesFirst, SendsSpeak, Cancels
<1>3. /\ commands # <<>> /\ Head(commands).kind = "sapi_speak" =>
            /\ ~NoSpeak(commands) /\ Head(commands).speakId = ctx.speakId
            /\ provider.speakId < ctx.speakId
      /\ commands # <<>> /\ NoSpeak(commands) => NoSpeak(Tail(commands))
  <2>1. SpeakFits(ctx, provider, commands)
    BY DEF SessionFits, Fits
  <2>2. CASE commands # <<>>
    BY <1>1, <2>1, <2>2, NextCommandFits
  <2> QED
    BY <2>2
<1>4. provider.speakId <= provider'.speakId
  <2>1. \/ provider'.speakId = provider.speakId
        \/ TakesFirst
    BY DEF CommandsMove, Stay, Lost, SendsSpeak, Cancels
  <2>2. TakesFirst => provider.speakId <= provider'.speakId
    BY <1>1, <1>3 DEF TakesFirst
  <2> QED
    BY <1>1, <2>1, <2>2
<1>5. \A t \in Threads : Cancels(t) => Asked(provider, commands, cancelId[t])
  BY DEF Cancels, OrderInv
<1>6. /\ CancelsFollow(provider', commands')
      /\ ~Lost => \A r \in Nat : Asked(provider, commands, r) => Asked(provider', commands', r)
  <2>1. CancelsFollow(provider, commands)
    BY DEF OrderInv
  <2>2. CASE Stay
    <3>1. commands' = commands /\ provider'.speakId = provider.speakId
      BY <2>2 DEF Stay
    <3> QED
      BY <1>1, <2>1, <3>1, CommandsKeepOrder
  <2>3. CASE TakesFirst
    <3>1. /\ commands # <<>> /\ commands' = Tail(commands)
          /\ provider'.speakId = IF Head(commands).kind = "sapi_speak"
                                 THEN Head(commands).speakId ELSE provider.speakId
      BY <2>3 DEF TakesFirst
    <3> QED
      BY <1>1, <1>4, <2>1, <3>1, CommandsKeepOrder
  <2>4. CASE SendsSpeak
    <3> DEFINE e == [kind |-> "sapi_speak", speakId |-> speakId]
    <3>1. /\ commands' = Append(commands, e) /\ provider'.speakId = provider.speakId
          /\ e.kind # "cancel"
      BY <2>4 DEF SendsSpeak
    <3> HIDE DEF e
    <3>2. \E x : /\ commands' = Append(commands, x) /\ provider'.speakId = provider.speakId
                 /\ x.kind = "cancel" => Asked(provider, commands, x.speakId)
      BY <3>1
    <3> QED
      BY <1>1, <2>1, <3>2, CommandsKeepOrder
  <2>5. ASSUME NEW t \in Threads, Cancels(t)
        PROVE  /\ CancelsFollow(provider', commands')
               /\ \A r \in Nat : Asked(provider, commands, r) => Asked(provider', commands', r)
    <3> DEFINE e == [kind |-> "cancel", speakId |-> cancelId[t]]
    <3>1. /\ commands' = Append(commands, e) /\ provider'.speakId = provider.speakId
          /\ Asked(provider, commands, e.speakId)
      BY <1>5, <2>5 DEF Cancels
    <3> HIDE DEF e
    <3> QED
      BY <1>1, <2>1, <3>1, CommandsKeepOrder
  <2>6. CASE Lost
    BY <2>6 DEF Lost, CancelsFollow
  <2> QED
    BY <2>2, <2>3, <2>4, <2>5, <2>6 DEF CommandsMove
<1>7. ASSUME pc'["speak"] = "send"
      PROVE  /\ provider'.speakId < speakCounter' /\ NoSpeak(commands')
             /\ ctx'.downstreamState # "Idle"
  <2>1. /\ pc["speak"] = "send" /\ ~SendsSpeak /\ ~SpeakBegins
        /\ provider.speakId < speakCounter /\ NoSpeak(commands)
        /\ ctx.downstreamState # "Idle" /\ ctx.speakId = speakCounter
    BY <1>7 DEF OrderInv, OwnerInv, AfterStart, SpeakBegins, At
  <2>2. ctx'.downstreamState # "Idle" /\ speakCounter' = speakCounter
    BY <1>1, <2>1 DEF FitKept, Taken
  <2>3. CASE Stay
    BY <2>1, <2>2, <2>3 DEF Stay
  <2>4. CASE TakesFirst
    BY <1>3, <2>1, <2>2, <2>4 DEF TakesFirst
  <2>5. ASSUME NEW t \in Threads, Cancels(t)
        PROVE  NoSpeak(commands') /\ provider'.speakId < speakCounter'
    <3>1. Len(commands') = Len(commands) + 1 /\ Len(commands) \in Nat
      BY <1>1, <2>5 DEF Cancels
    <3>2. \A i \in 1 .. Len(commands) : commands'[i] = commands[i]
      BY <1>1, <2>5 DEF Cancels
    <3>3. commands'[Len(commands) + 1].kind = "cancel"
      BY <1>1, <2>5 DEF Cancels
    <3>4. NoSpeak(commands')
      BY <2>1, <3>1, <3>2, <3>3 DEF NoSpeak
    <3> QED
      BY <2>1, <2>2, <2>5, <3>4 DEF Cancels
  <2>6. CASE Lost
    BY <2>1, <2>2, <2>6 DEF Lost, NoSpeak
  <2> QED
    BY <2>1, <2>2, <2>3, <2>4, <2>5, <2>6 DEF CommandsMove
<1>8. ASSUME connected', pc'["speak"] = "wait"
      PROVE  Asked(provider', commands', speakCounter')
  <2>1. CASE SendsSpeak
    <3>1. /\ commands' = Append(commands, [kind |-> "sapi_speak", speakId |-> speakCounter])
          /\ speakCounter' = speakCounter
      BY <2>1 DEF SendsSpeak, speakId, engineVars
    <3>2. /\ Len(commands) + 1 \in 1 .. Len(commands')
          /\ commands'[Len(commands) + 1].kind = "sapi_speak"
          /\ commands'[Len(commands) + 1].speakId = speakCounter'
      BY <1>1, <3>1
    <3> QED
      BY <3>2 DEF Asked
  <2>2. CASE pc["speak"] = "wait"
    <3>1. speakCounter' = speakCounter /\ Asked(provider, commands, speakCounter)
      BY <1>2, <1>8, <2>2 DEF OrderInv, SpeakBegins, At
    <3> QED
      BY <1>1, <1>2, <1>6, <1>8, <3>1
  <2> QED
    BY <1>8, <2>1, <2>2
<1>9. ASSUME connected', NEW t \in Threads, pc'[t] = "sendCancel"
      PROVE  Asked(provider', commands', cancelId'[t])
  <2>1. CASE pc[t] = "sendCancel" /\ cancelId'[t] = cancelId[t]
    BY <1>1, <1>2, <1>6, <1>9, <2>1 DEF OrderInv
  <2>2. CASE cancelId'[t] = ctx.speakId /\ Taken(ctx, provider)
    BY <1>1, <1>4, <2>2 DEF Taken, Asked
  <2>3. CASE cancelId'[t] = ctx.speakId /\ pc["speak"] = "wait"
    <3>1. ctx.speakId = speakCounter /\ Asked(provider, commands, speakCounter)
      BY <1>2, <1>9, <2>3 DEF OrderInv, OwnerInv, AfterStart
    <3> QED
      BY <1>1, <1>2, <1>6, <1>9, <2>3, <3>1
  <2> QED
    BY <1>9, <2>1, <2>2, <2>3 DEF AsksStep
<1>10. DeliversTaken'
  <2>1. SUFFICES ASSUME Delivering' PROVE batch'.token.speakId <= provider'.speakId
    BY DEF DeliversTaken
  <2>2. CASE Delivering /\ batch'.token = batch.token
    <3>1. batch.token.speakId \in Nat
      BY DEF TypeInv, TypeOK, Batch
    <3> QED
      BY <1>1, <1>4, <2>2, <3>1 DEF OrderInv, DeliversTaken
  <2>3. CASE batch'.token = Token(ctx) /\ Taken(ctx, provider)
    BY <1>1, <1>4, <2>3 DEF Token, Taken
  <2> QED
    BY <2>1, <2>2, <2>3 DEF BatchStep
<1> QED
  BY <1>6, <1>7, <1>8, <1>9, <1>10 DEF OrderInv

\* A start puts its request before the provider's next.
LEMMA StartKeepsOrder ==
    ASSUME TypeInv, CallInv, SessionFits, OrderInv, Starts
    PROVE  OrderInv'
<1>1. /\ pc \in [Threads -> Place] /\ ctx \in Context
      /\ Goto("speak", "send") /\ pc["speak"] = "start"
      /\ UNCHANGED <<cancelId, batch, connected, commands, provider, speakCounter>>
      /\ {"speak", "audio"} \subseteq Threads
  BY DEF TypeInv, TypeOK, Starts, At, localVars, providerVars, engineVars, Threads, Readers,
         Callers
<1>2. ctx'.downstreamState = "Speaking"
  BY <1>1, ContextOperators DEF Starts, Context
<1>3. provider.speakId < speakCounter /\ NoSpeak(commands)
  BY StartKeepsFit
<1>4. \A t \in Threads : pc'[t] = "sendCancel" => pc[t] = "sendCancel"
  BY <1>1 DEF Goto
<1>5. pc'["audio"] = pc["audio"] /\ pc'["speak"] = "send"
  BY <1>1 DEF Goto
<1>6. DeliversTaken'
  BY <1>1, <1>5 DEF OrderInv, DeliversTaken, Delivering
<1> QED
  BY <1>1, <1>2, <1>3, <1>4, <1>5, <1>6 DEF OrderInv

\* A session that is created finds nobody at work on an earlier one.
LEMMA CreatedSessionOrder ==
    ASSUME TypeInv, SessionInv, OrderInv, SetsObjectToken \/ RecreatesSession
    PROVE  OrderInv'
<1>1. /\ pc \in [Threads -> Place] /\ Threads = {"audio", "control", "speak", "purge"}
  BY DEF TypeInv, TypeOK, Threads, Readers, Callers
<1>2. CASE UNCHANGED <<pc, ctx, batch, cancelId, connected, commands, provider, speakCounter>>
  BY <1>2 DEF OrderInv, DeliversTaken, Delivering
<1>3. ASSUME NEW place \in {"idle", "start"}, CreatesSession(place), session # "live"
      PROVE  OrderInv'
  <2>1. pc["purge"] \in {"ready", "done"}
    BY <1>3 DEF SessionInv, RetiredIsQuiet
  <2>2. /\ pc' = [pc EXCEPT !["speak"] = place, !["audio"] = "read", !["control"] = "read"]
        /\ commands' = <<>>
    BY <1>3 DEF CreatesSession, OpenPipes
  <2>3. /\ pc'["speak"] = place /\ pc'["audio"] = "read" /\ pc'["control"] = "read"
        /\ pc'["purge"] = pc["purge"]
    BY <1>1, <2>2
  <2>4. \A t \in Threads : pc'[t] # "sendCancel"
    BY <1>1, <2>1, <2>3
  <2>5. pc'["speak"] \notin {"send", "wait"} /\ ~Delivering'
    BY <2>3 DEF Delivering
  <2>6. CancelsFollow(provider', commands')
    BY <2>2 DEF CancelsFollow
  <2> QED
    BY <2>4, <2>5, <2>6 DEF OrderInv, DeliversTaken
<1>4. SetsObjectToken => \/ CreatesSession("idle") /\ session # "live"
                         \/ UNCHANGED <<pc, ctx, batch, cancelId, connected, commands, provider,
                                        speakCounter>>
  BY DEF SetsObjectToken, requestVars, localVars, providerVars
<1>5. RecreatesSession => CreatesSession("start") /\ session # "live"
  BY DEF RecreatesSession
<1> QED
  BY <1>2, <1>3, <1>4, <1>5

\* A session that ends loses its pipes after its threads have left them.
LEMMA EndedSessionOrder ==
    ASSUME TypeInv, Retires \/ Destroys
    PROVE  Lost /\ AsksStep /\ BatchStep /\ UNCHANGED <<ctx, speakCounter>>
<1>1. /\ pc \in [Threads -> Place] /\ {"audio", "speak"} \subseteq Threads
      /\ "audio" \in Readers /\ provider \in Provider
  BY DEF TypeInv, TypeOK, Threads, Readers, Callers
<1>2. /\ Goto("speak", "session") \/ Goto("speak", "gone")
      /\ ClosePipes /\ pc["audio"] = "exit"
      /\ UNCHANGED <<ctx, batch, cancelId, speakCounter>>
  BY <1>1 DEF Retires, Destroys, Joined, At, requestVars, localVars, engineVars
<1>3. Lost
  BY <1>1, <1>2 DEF ClosePipes, Lost, Provider
<1>4. AsksStep /\ BatchStep
  BY <1>1, <1>2 DEF AsksStep, BatchStep, Goto, Delivering
<1> QED
  BY <1>2, <1>3, <1>4

\* Every step of every thread and of a provider that keeps its contract.
LEMMA ContractInvNext ==
    ASSUME ContractKept, TypeInv, TypeInv', LifecycleMatrix, CallInv, DeliveryInv, SessionInv,
           OwnerInv, ContractInv, [Next]_vars
    PROVE  ContractInv'
<1>1. /\ "direct" \notin Env /\ DispositionIsHeld /\ NoDirectCall /\ SessionFits /\ OrderInv
      /\ DeliversTaken
  BY DEF ContractKept, SessionInv, ContractInv, OrderInv
<1>2. NoDirectCall' /\ ~DirectCaller
  BY <1>1, NoDirectCallNext
<1>3. ASSUME ~Starts, FitKept, AsksStep, BatchStep, CommandsMove,
             speakCounter' = speakCounter \/ SpeakBegins
      PROVE  ContractInv'
  <2>1. OrderInv'
    BY <1>1, <1>3, OrderKept, SpeakPlaces
  <2> QED
    BY <1>2, <1>3, <2>1 DEF ContractInv, FitKept
<1>4. CASE Starts
  BY <1>1, <1>2, <1>4, StartKeepsFit, StartKeepsOrder DEF ContractInv
<1>5. CASE SetsObjectToken \/ RecreatesSession
  BY <1>1, <1>2, <1>5, SessionKeepsFit, CreatedSessionOrder DEF ContractInv
<1>6. CASE (Retires \/ Destroys) /\ ~Starts
  <2>1. FitKept
    BY <1>1, <1>6, SessionKeepsFit, EndedSessionOrder DEF FitKept
  <2> QED
    BY <1>3, <1>6, <2>1, EndedSessionOrder DEF CommandsMove
<1>7. CASE SendsSpeak /\ ~Starts
  <2>1. FitKept
    BY <1>1, <1>7, SendKeepsFit DEF OrderInv, SendsSpeak, At
  <2>2. /\ Goto("speak", "wait") /\ UNCHANGED localVars /\ speakCounter' = speakCounter
        /\ pc \in [Threads -> Place] /\ {"audio", "speak"} \subseteq Threads
    BY <1>7 DEF SendsSpeak, engineVars, TypeInv, TypeOK, Threads, Readers, Callers
  <2>3. AsksStep /\ BatchStep
    BY <2>2 DEF AsksStep, BatchStep, Goto, Delivering, localVars
  <2> QED
    BY <1>3, <1>7, <2>1, <2>2, <2>3 DEF CommandsMove
<1>8. CASE /\ SpeakThread
           /\ ~(SetsObjectToken \/ RecreatesSession \/ Retires \/ Destroys \/ Starts \/ SendsSpeak)
  <2>1. FitKept /\ AsksStep /\ BatchStep /\ (Stay \/ Cancels("speak"))
    BY <1>1, <1>8, CallerKeepsFit
  <2>2. "speak" \in Threads
    BY DEF Threads, Callers
  <2> QED
    BY <1>3, <1>8, <2>1, <2>2, SpeakGoesOn DEF CommandsMove
<1>9. CASE ~SpeakThread
  <2>1. ~Starts /\ speakCounter' = speakCounter /\ pc'["speak"] = pc["speak"]
    BY <1>9, OthersLeaveCall DEF SpeakThread, engineVars
  <2>2. CASE AudioThread
    <3>1. "audio" \in Threads
      BY DEF Threads, Readers
    <3> QED
      BY <1>1, <1>3, <2>1, <2>2, <3>1, AudioKeepsFit, AudioAsks DEF CommandsMove
  <2>3. CASE ControlThread
    BY <1>1, <1>3, <2>1, <2>3, ControlKeepsFit, ControlAsks DEF CommandsMove
  <2>4. CASE ProviderNext /\ UNCHANGED <<workerVars, engineVars>>
    <3>1. ctx' = ctx /\ carry' = carry /\ pc' = pc /\ cancelId' = cancelId /\ batch' = batch
      BY <2>4 DEF workerVars
    <3>2. FitKept /\ (Stay \/ TakesFirst \/ Lost)
      BY <1>1, <2>4, <3>1, ProviderKeepsFit
    <3>3. AsksStep /\ BatchStep
      BY <3>1 DEF AsksStep, BatchStep, Delivering
    <3> QED
      BY <1>3, <2>1, <3>2, <3>3 DEF CommandsMove
  <2>5. CASE InactivityElapses \/ DeadlinePasses \/ UNCHANGED vars
    <3>1. /\ UNCHANGED <<ctx, carry, pc, cancelId, batch>> /\ UNCHANGED providerVars
      BY <2>5 DEF InactivityElapses, DeadlinePasses, requestVars, localVars, vars, providerVars
    <3>2. FitKept /\ Stay
      BY <1>1, <3>1 DEF FitKept, SessionFits, Stay, providerVars
    <3>3. AsksStep /\ BatchStep
      BY <3>1 DEF AsksStep, BatchStep, Delivering
    <3> QED
      BY <1>3, <2>1, <3>2, <3>3 DEF CommandsMove
  <2> QED
    BY <1>2, <1>9, <2>2, <2>3, <2>4, <2>5 DEF Next, Terminated
<1> QED
  BY <1>4, <1>5, <1>6, <1>7, <1>8, <1>9

LEMMA ContractInvHolds ==
    ASSUME ContractKept
    PROVE  Spec => []ContractInv
<1>1. ASSUME TypeInv, TypeInv', LifecycleMatrix, CallInv, DeliveryInv, SessionInv, OwnerInv,
             ContractInv, [Next]_vars
      PROVE  ContractInv'
  BY <1>1, ContractInvNext
<1> QED
  BY <1>1, ContractInvInit, TypeCorrect, LifecycleMatrixHolds, CallInvHolds, DeliveryInvHolds,
     SessionInvHolds, OwnerInvHolds, PTL DEF Spec
-----------------------------------------------------------------------------
(* The theorems.                                                           *)

\* With a provider that keeps its contract, and no caller behind Speak's back, no
\* thread's cancel is ever ahead of the sapi_speak it is about: whoever begins the
\* cancellation, at whatever moment, had seen the request sent or its audio come.
THEOREM CancelFollowsSpeakHolds ==
    ASSUME ContractKept
    PROVE  Spec => []CancelFollowsSpeak
<1>1. TypeInv /\ ContractInv => CancelFollowsSpeak
  <2>1. SUFFICES ASSUME TypeInv, ContractInv, NEW i \in 1 .. Len(commands),
                        NEW j \in 1 .. Len(commands),
                        commands[i].kind = "cancel", commands[j].kind = "sapi_speak",
                        commands[i].speakId = commands[j].speakId
                 PROVE  j < i
    BY DEF CancelFollowsSpeak
  <2>2. /\ commands[j].speakId = ctx.speakId /\ provider.speakId < ctx.speakId
        /\ \A k \in 1 .. Len(commands) : commands[k].kind = "sapi_speak" => k = j
    BY <2>1 DEF ContractInv, SessionFits, Fits, SpeakFits
  <2>3. ctx.speakId \in Nat /\ provider.speakId \in Nat
    BY <2>1 DEF TypeInv, TypeOK, Context, Provider
  <2>4. PICK k \in 1 .. Len(commands) : k < i /\ commands[k].kind = "sapi_speak"
    BY <2>1, <2>2, <2>3 DEF ContractInv, OrderInv, CancelsFollow
  <2> QED
    BY <2>2, <2>4
<1> QED
  BY <1>1, ContractInvHolds, TypeCorrect, PTL

\* With such a provider a request starts on pipes that hold nothing of an earlier
\* one, and its sapi_speak never meets a provider that is still at work: the
\* boundary CheckTerminalBoundaryLocked waits for is the whole of a request, for
\* any number of requests, of any length, cancelled or failed at any moment.
THEOREM CleanAtStartHolds ==
    ASSUME ContractKept
    PROVE  Spec => []CleanAtStart
<1>1. TypeInv /\ ContractInv => CleanAtStart
  <2>1. SUFFICES ASSUME TypeInv, ContractInv
                 PROVE  /\ StartAccepted(ctx) => audio = <<>> /\ carry = <<>> /\ ~provider.busy
                        /\ NextCommandIs("sapi_speak") => ~provider.busy
    BY DEF CleanAtStart
  <2>2. StartAccepted(ctx) => audio = <<>> /\ carry = <<>> /\ ~provider.busy
    BY <2>1 DEF StartAccepted, ContractInv, SessionFits, Fits, PhaseFits, Silent
  <2>3. ASSUME NextCommandIs("sapi_speak"), provider.busy PROVE FALSE
    <3>1. Taken(ctx, provider)
      BY <2>1, <2>3, BusyFits DEF ContractInv
    <3>2. commands # <<>> /\ commands \in Seq(Command) /\ Head(commands).kind = "sapi_speak"
      BY <2>1, <2>3 DEF NextCommandIs, TypeInv, TypeOK
    <3>3. SpeakFits(ctx, provider, commands)
      BY <2>1 DEF ContractInv, SessionFits, Fits
    <3>4. provider.speakId < ctx.speakId
      BY <3>2, <3>3, NextCommandFits
    <3> QED
      BY <2>1, <3>1, <3>4 DEF Taken, TypeInv, TypeOK, Context, Provider
  <2> QED
    BY <2>2, <2>3
<1> QED
  BY <1>1, ContractInvHolds, TypeCorrect, PTL
-----------------------------------------------------------------------------
(* Without error logs.                                                     *)

NoErrorIn(ev) == \A i \in 1 .. Len(ev) : ev[i].type # "logError"

\* Nobody but the provider puts anything on the control pipe.
EventsLeft == events' = events \/ events' = <<>> \/ (events # <<>> /\ events' = Tail(events))

LEMMA OthersLeaveEvents ==
    ASSUME [Next]_vars, ~ProviderNext
    PROVE  EventsLeft
<1> USE DEF EventsLeft
<1>1. \A t \in Threads : EnterFaultedState(t) => events' = events
  BY DEF EnterFaultedState, FaultsRequest, PublishesFault, CancelsIo, providerVars
<1>2. {"audio", "control", "speak", "purge"} \subseteq Threads
  BY DEF Threads, Readers, Callers
<1>3. CASE AudioThread
  BY <1>1, <1>2, <1>3
  DEF AudioThread, ReadBreaks, ReadFailed, LeavesLoop, AssemblesSpeakingAudio, AssemblyThrows,
      DrainsCancellationAudio, FaultsOnIdleAudio, DrainsFaultedAudio, Reads, AdmitsSpan,
      CapturesSite, SiteAcceptsSpan, SiteRejectsSpan, UpdatesAfterDelivery, AudioSendsCancel,
      SendsCancel, CancelSendFails, providerVars
<1>4. CASE ControlThread
  BY <1>1, <1>2, <1>4
  DEF ControlThread, ReadBreaks, ReadFailed, LeavesLoop, ReadsMalformedLine, ReadsOrphanEvent,
      HandlesEvent, NextEvent, AdmitsEvent, CapturesEventSite, NotifiesSite, providerVars
<1>5. CASE SpeakThread
  BY <1>1, <1>2, <1>5
  DEF SpeakThread, SetsObjectToken, RecreatesSession, CreatesSession, OpenPipes, SpeakBegins,
      FindsSessionActive, BeginsRetirement, Retires, ClosePipes, HasNoSession, Starts,
      StartRefused, SendsSpeak, SpeakSendFails, WaitEnds, WaitTimesOut, ObservesAbort,
      SpeakCancels, SendsCancel, CancelSendFails, DrainEnds, DrainTimesOut, SpeakReturns,
      BeginsDestruction, Destroys, providerVars
<1>6. CASE DirectCaller
  BY <1>1, <1>2, <1>6
  DEF DirectCaller, DrainsDirectly, Stops, StopSends, DirectDrainEnds, SendsCancel,
      CancelSendFails, providerVars
<1>7. CASE InactivityElapses \/ DeadlinePasses \/ UNCHANGED vars
  BY <1>7 DEF InactivityElapses, DeadlinePasses, vars, providerVars
<1> QED
  BY <1>3, <1>4, <1>5, <1>6, <1>7 DEF Next, Terminated

\* A provider that keeps its contract and fails no request sends no error log.
LEMMA ProviderSendsNoError ==
    ASSUME TypeInv, SessionFits, ContractKept, "error" \notin Env, ProviderNext
    PROVE  \/ events' = events \/ events' = <<>>
           \/ \E e : events' = Append(events, e) /\ e.type # "logError"
<1>1. ASSUME NEW type, type # "logError", NEW r, NEW n, Emit(EventOf(type, r, n))
      PROVE  \E e : events' = Append(events, e) /\ e.type # "logError"
  <2>1. EventOf(type, r, n).type # "logError" /\ events' = Append(events, EventOf(type, r, n))
    BY <1>1 DEF Emit, EventOf
  <2> QED
    BY <2>1
<1>2. ~RefusesOverlap
  <2>1. SUFFICES ASSUME RefusesOverlap PROVE FALSE
    OBVIOUS
  <2>2. Taken(ctx, provider)
    BY <2>1, BusyFits DEF RefusesOverlap
  <2>3. commands # <<>> /\ commands \in Seq(Command) /\ Head(commands).kind = "sapi_speak"
    BY <2>1 DEF RefusesOverlap, NextCommandIs, TypeInv, TypeOK
  <2>4. SpeakFits(ctx, provider, commands)
    BY DEF SessionFits, Fits
  <2>5. provider.speakId < ctx.speakId
    BY <2>3, <2>4, NextCommandFits
  <2> QED
    BY <2>2, <2>5 DEF Taken, TypeInv, TypeOK, Context, Provider
<1>3. ~Deviates
  BY DEF ContractKept, Deviates, Deviations
<1>4. CASE TakesSpeak \/ EmitsBoundary \/ DeclaresComplete \/ AcknowledgesCancel
  <2>1. CASE TakesSpeak
    BY <1>1, <2>1 DEF TakesSpeak
  <2>2. CASE EmitsBoundary
    BY <1>1, <2>2 DEF EmitsBoundary
  <2>3. CASE DeclaresComplete
    BY <1>1, <2>3 DEF DeclaresComplete
  <2>4. CASE AcknowledgesCancel
    BY <1>1, <2>4 DEF AcknowledgesCancel
  <2> QED
    BY <1>4, <2>1, <2>2, <2>3, <2>4
<1>5. CASE WritesFrame \/ IgnoresCancel \/ FailsRequest \/ Crashes
  BY <1>5 DEF WritesFrame, IgnoresCancel, FailsRequest, Crashes
<1> QED
  BY <1>2, <1>3, <1>4, <1>5 DEF ProviderNext

LEMMA NoErrorInHolds ==
    ASSUME ContractKept, "error" \notin Env
    PROVE  Spec => []NoErrorIn(events)
<1>1. Init => NoErrorIn(events)
  BY DEF Init, ProviderInit, NoErrorIn
<1>2. ASSUME TypeInv, ContractInv, NoErrorIn(events), [Next]_vars PROVE NoErrorIn(events)'
  <2>1. /\ events \in Seq(Event) /\ SessionFits
    BY <1>2 DEF TypeInv, TypeOK, ContractInv
  <2>2. CASE events' = events \/ events' = <<>>
    BY <1>2, <2>2 DEF NoErrorIn
  <2>3. CASE events # <<>> /\ events' = Tail(events)
    <3>1. \A i \in 1 .. Len(events') : events'[i] = events[i + 1] /\ i + 1 \in 1 .. Len(events)
      BY <2>1, <2>3
    <3> QED
      BY <1>2, <3>1 DEF NoErrorIn
  <2>4. ASSUME NEW e, events' = Append(events, e), e.type # "logError"
        PROVE  NoErrorIn(events')
    <3>1. /\ Len(events) \in Nat /\ Len(events') = Len(events) + 1
          /\ \A i \in 1 .. Len(events) : events'[i] = events[i]
          /\ events'[Len(events) + 1] = e
      BY <2>1, <2>4
    <3> QED
      BY <1>2, <2>4, <3>1 DEF NoErrorIn
  <2>5. CASE ProviderNext
    BY <1>2, <2>1, <2>2, <2>4, <2>5, ProviderSendsNoError
  <2>6. CASE ~ProviderNext
    BY <1>2, <2>2, <2>3, <2>6, OthersLeaveEvents DEF EventsLeft
  <2> QED
    BY <2>5, <2>6
<1> QED
  BY <1>1, <1>2, ContractInvHolds, TypeCorrect, PTL DEF Spec

\* The quarantine theorems ask for histories in which no error log is read for a
\* request the worker has already faulted: with a provider that keeps its contract
\* and fails no request, every history is one.
LEMMA NoLateErrorLogHolds ==
    ASSUME ContractKept, "error" \notin Env
    PROVE  Spec => []NoLateErrorLog
<1>1. TypeInv /\ NoErrorIn(events) => NoLateErrorLog
  <2>1. SUFFICES ASSUME TypeInv, NoErrorIn(events), events # <<>>
                 PROVE  EventAction(Head(events), ctx) # "RequestErrorLog"
    BY DEF NoLateErrorLog
  <2>2. events \in Seq(Event)
    BY <2>1 DEF TypeInv, TypeOK
  <2>3. 1 \in 1 .. Len(events) /\ Head(events) = events[1]
    BY <2>1, <2>2
  <2>4. Head(events).type # "logError"
    BY <2>1, <2>3 DEF NoErrorIn
  <2> QED
    BY <2>4 DEF EventAction
<1> QED
  BY <1>1, NoErrorInHolds, TypeCorrect, PTL

\* Then a worker that finds a fault, whichever thread finds it and whatever else
\* fails at that moment, accepts no further request and stays faulted until its
\* session is retired.
THEOREM QuarantineUnderContract ==
    ASSUME ContractKept, "error" \notin Env
    PROVE  Spec => []FaultBarrier /\ []PendingFaultIsPublished /\ QuarantineSticks
BY NoLateErrorLogHolds, FaultBarrierHolds, PendingFaultIsPublishedHolds, QuarantineSticksHolds, PTL
=============================================================================
