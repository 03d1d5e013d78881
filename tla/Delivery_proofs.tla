---------------------------- MODULE Delivery_proofs ----------------------------
(***************************************************************************)
(* What Speak's S_OK is worth: under a provider that keeps its contract, a *)
(* request that nobody cancelled and that ended with S_OK had every byte   *)
(* of its audio accepted by its own site, and every boundary event given   *)
(* to it, in whatever order audio, events, SAPI's writes, failures of      *)
(* other requests and time came.  The proof is a balance for each: what a  *)
(* speaking request has counted as delivered, and what its audio thread is *)
(* about to count, is what its site accepted, and all of it was read; what *)
(* the site was told, what the control thread carries and what is still in *)
(* the pipe is what the provider sent.  The last part is about the one     *)
(* fault such a session can come to when nothing fails around it.          *)
(***************************************************************************)
EXTENDS Contract_proofs, FunctionTheorems
-----------------------------------------------------------------------------
(* Bytes and spans.                                                        *)

\* A sequence of elements of T.
LEMMA ElementsOf ==
    ASSUME NEW S, NEW T, NEW s \in Seq(S), \A i \in 1 .. Len(s) : s[i] \in T
    PROVE  s \in Seq(T)
<1>1. Len(s) \in Nat /\ s = [i \in 1 .. Len(s) |-> s[i]]
  BY LenProperties
<1> QED
  BY <1>1, IsASeq

\* Bytes that all belong to one request.
LEMMA BytesOfOne ==
    ASSUME NEW q, NEW span \in Seq({q}), NEW r
    PROVE  BytesOf(span, r) = IF r = q THEN Len(span) ELSE 0
<1>1. Len(span) \in Nat /\ \A i \in 1 .. Len(span) : span[i] = q
  BY LenProperties, ElementOfSeq
<1>2. CASE r = q
  <2>1. {i \in 1 .. Len(span) : span[i] = r} = 1 .. Len(span)
    BY <1>1, <1>2
  <2>2. \A n \in Nat : Cardinality(1 .. n) = n
    <3>1. TAKE n \in Nat
    <3>2. Cardinality(1 .. n) = IF 1 > n THEN 0 ELSE n - 1 + 1
      BY FS_Interval
    <3> QED
      BY <3>2
  <2> QED
    BY <1>1, <1>2, <2>1, <2>2 DEF BytesOf
<1>3. CASE r # q
  <2>1. {i \in 1 .. Len(span) : span[i] = r} = {}
    BY <1>1, <1>3
  <2> QED
    BY <1>3, <2>1, FS_EmptySet DEF BytesOf
<1> QED
  BY <1>2, <1>3

\* Arithmetic the lemmas below cite, where the provers do not see it in lengths.
LEMMA SmallSums ==
    /\ \A n \in Nat : n # 0 /\ n <= 2 => n \in {1, 2} /\ 1 \in 1 .. n
    /\ \A n : n = 1 => n - 1 = 0 /\ n - 1 <= 2
    /\ \A n : n = 2 => n - 1 = 1 /\ n - 1 <= 2 /\ n # 1 /\ 2 \in 1 .. n
    /\ 1 # 0 /\ 1 \in 1 .. 1
    /\ \A n \in Nat : n = n + 0
    /\ \A m, n \in Nat : m + n \in Nat
    /\ \A a, b, c, m, n \in Nat : a + b = c + m /\ m <= n => a + b <= c + n
OBVIOUS

\* The first of the spans, and the others.
LEMMA FlatLength ==
    ASSUME NEW S, NEW spans \in Seq(Seq(S)), Len(spans) <= 2
    PROVE  /\ Flat(spans) \in Seq(S) /\ Len(Flat(spans)) \in Nat
           /\ spans # <<>> =>
                 /\ Head(spans) \in Seq(S) /\ Tail(spans) \in Seq(Seq(S))
                 /\ Len(Tail(spans)) <= 2
                 /\ Len(Flat(spans)) = Len(Head(spans)) + Len(Flat(Tail(spans)))
                 /\ \A i \in 1 .. Len(Tail(spans)) : Tail(spans)[i] = spans[i + 1]
<1>1. /\ Len(spans) \in Nat /\ \A i \in 1 .. Len(spans) : spans[i] \in Seq(S)
  BY LenProperties, ElementOfSeq
<1>2. CASE spans = <<>>
  <2>1. Flat(spans) = <<>>
    BY <1>2 DEF Flat
  <2>2. <<>> \in Seq(S) /\ Len(<<>>) = 0
    OBVIOUS
  <2> QED
    BY <1>2, <2>1, <2>2
<1>3. CASE spans # <<>>
  <2>1. /\ Head(spans) = spans[1] /\ Tail(spans) \in Seq(Seq(S))
        /\ Len(Tail(spans)) = Len(spans) - 1
        /\ \A i \in 1 .. Len(Tail(spans)) : Tail(spans)[i] = spans[i + 1]
    BY <1>3, HeadTailProperties
  <2>2. Len(spans) # 0
    BY <1>3, EmptySeq
  <2>3. Len(spans) \in {1, 2} /\ 1 \in 1 .. Len(spans)
    BY <1>1, <2>2, SmallSums, Zenon
  <2>4. spans[1] \in Seq(S)
    BY <1>1, <2>3
  <2>5. Len(spans[1]) \in Nat
    BY <2>4, LenProperties
  <2>6. CASE Len(spans) = 1
    <3>1. Tail(spans) = <<>>
      <4>1. Len(Tail(spans)) = 0
        BY <2>1, <2>6, SmallSums, Zenon
      <4>2. Tail(spans) # <<>> => Len(Tail(spans)) \in Nat \ {0}
        BY <2>1, EmptySeq, Zenon
      <4> QED
        BY <4>1, <4>2
    <3>2. Flat(spans) = spans[1] /\ Flat(Tail(spans)) = <<>>
      BY <1>3, <2>6, <3>1, Zenon DEF Flat
    <3>3. Len(<<>>) = 0
      OBVIOUS
    <3>4. Len(Flat(spans)) = Len(Head(spans)) + Len(Flat(Tail(spans)))
      BY <2>1, <2>5, <3>2, <3>3, SmallSums, Zenon
    <3>5. Len(Tail(spans)) <= 2
      BY <2>1, <2>6, SmallSums, Zenon
    <3> QED
      BY <1>3, <2>1, <2>4, <2>5, <3>2, <3>4, <3>5
  <2>7. CASE Len(spans) = 2
    <3>1. 2 \in 1 .. Len(spans)
      BY <2>7, SmallSums, Zenon
    <3>2. spans[2] \in Seq(S)
      BY <1>1, <3>1
    <3>3. Len(spans[2]) \in Nat
      BY <3>2, LenProperties
    <3>4. Flat(spans) = spans[1] \o spans[2]
      <4>1. Len(spans) # 1
        BY <2>7, SmallSums, Zenon
      <4> QED
        BY <1>3, <4>1, Zenon DEF Flat
    <3>5. /\ spans[1] \o spans[2] \in Seq(S)
          /\ Len(spans[1] \o spans[2]) = Len(spans[1]) + Len(spans[2])
      BY <2>4, <3>2, ConcatProperties
    <3>6. Len(Tail(spans)) = 1
      BY <2>1, <2>7, SmallSums, Zenon
    <3>7. Tail(spans)[1] = spans[2]
      <4>1. 1 \in 1 .. Len(Tail(spans))
        BY <3>6, SmallSums, Zenon
      <4>2. 1 + 1 = 2
        OBVIOUS
      <4> QED
        BY <2>1, <4>1, <4>2, Zenon
    <3>8. Tail(spans) # <<>>
      <4>1. Len(<<>>) = 0
        OBVIOUS
      <4> QED
        BY <3>6, <4>1, SmallSums, Zenon
    <3>9. Flat(Tail(spans)) = spans[2]
      BY <3>6, <3>7, <3>8, Zenon DEF Flat
    <3>10. Len(Flat(spans)) = Len(Head(spans)) + Len(Flat(Tail(spans)))
      BY <2>1, <3>4, <3>5, <3>9, Zenon
    <3>11. Flat(spans) \in Seq(S) /\ Len(Flat(spans)) \in Nat
      BY <2>5, <3>3, <3>4, <3>5, SmallSums, Zenon
    <3>12. Head(spans) \in Seq(S) /\ Len(Tail(spans)) <= 2
      BY <2>1, <2>4, <2>7, SmallSums, Zenon
    <3> QED
      BY <2>1, <3>10, <3>11, <3>12
  <2> QED
    BY <2>3, <2>6, <2>7
<1> QED
  BY <1>2, <1>3

\* Framing what was read: the spans and the partial frame hold no more than the
\* partial frame and the bytes read held, and bytes of the same request.
LEMMA FramedFits ==
    ASSUME TypeInv, NEW q, carry \in Seq({q}), NEW data \in Seq({q})
    PROVE  LET framed == Process(carry, SubSeq(data, 1, BytesToFrame(ctx, Len(data))))
           IN /\ framed.spans \in Seq(Seq({q})) /\ Len(framed.spans) <= 2
              /\ \A i \in 1 .. Len(framed.spans) : framed.spans[i] # <<>>
              /\ framed.carry \in Seq({q})
              /\ Len(Flat(framed.spans)) + Len(framed.carry) <= Len(carry) + Len(data)
<1> DEFINE n == BytesToFrame(ctx, Len(data))
           part == SubSeq(data, 1, n)
           framed == Process(carry, part)
<1>1. Len(carry) < BlockAlign /\ ctx \in Context /\ Len(data) \in Nat /\ Len(carry) \in Nat
  BY LenProperties DEF TypeInv, TypeOK, PartialFrame
<1>2. n \in 0 .. Len(data)
  BY <1>1 DEF BytesToFrame, Context
<1> HIDE DEF n
<1>3. n \in Nat /\ n <= Len(data) /\ 1 <= Len(data) + 1
  BY <1>1, <1>2
<1>4. part \in Seq({q}) /\ Len(part) = n
  BY <1>1, <1>2, PrefixSuffix
<1> HIDE DEF part
<1>5. framed.spans \in Seq(Seq({q})) /\ framed.carry \in Seq({q})
  BY <1>1, <1>4, ProcessYieldsWholeFrames
<1>6. /\ Flat(framed.spans) \o framed.carry = carry \o part
      /\ Len(framed.spans) <= 2
      /\ \A i \in 1 .. Len(framed.spans) : framed.spans[i] # <<>>
  BY <1>1, <1>4, ProcessKeepsEveryByte
<1> HIDE DEF framed
<1>7. Flat(framed.spans) \in Seq({q}) /\ Len(Flat(framed.spans)) \in Nat
  BY <1>5, <1>6, FlatLength
<1>8. Len(Flat(framed.spans) \o framed.carry) = Len(Flat(framed.spans)) + Len(framed.carry)
  BY <1>5, <1>7, ConcatProperties
<1>9. Len(carry \o part) = Len(carry) + Len(part)
  BY <1>4, ConcatProperties
<1>10. Len(Flat(framed.spans)) + Len(framed.carry) = Len(carry) + n
  BY <1>4, <1>6, <1>8, <1>9, Zenon
<1>11. Len(Flat(framed.spans)) + Len(framed.carry) <= Len(carry) + Len(data)
  <2>1. Len(framed.carry) \in Nat
    BY <1>5, LenProperties
  <2> QED
    BY <1>1, <1>3, <1>7, <1>10, <2>1, SmallSums, Zenon
<1> QED
  BY <1>5, <1>6, <1>11 DEF framed, part, n
-----------------------------------------------------------------------------
(* The balance.                                                            *)

\* The batch on its way is one of the request in the context.
Current == Delivering /\ Token(ctx) = batch.token

\* Of the request's bytes that were read and are not yet counted as delivered:
\* those its site accepted, and those with the ones still to be written.
Credit == IF Current THEN batch.credited ELSE 0

OnItsWay == IF Current THEN batch.credited + Len(Flat(batch.spans)) ELSE 0

\* What was counted as delivered, and what is about to be, is what the site of the
\* request accepted; it was all read, and the partial frame too.
Balanced ==
    /\ heard[ctx.speakId] = ctx.deliveredAudioBytes + Credit
    /\ ctx.deliveredAudioBytes + OnItsWay + Len(carry) <= ctx.rawAudioBytesRead

SpeakingBalanced == ctx.downstreamState = "Speaking" => Balanced

\* A batch holds bytes of its request only, and goes to that request's site as
\* long as the request is in use.
SpansOf(spans, r) ==
    /\ spans \in Seq(Seq({r})) /\ Len(spans) <= 2
    /\ \A i \in 1 .. Len(spans) : spans[i] # <<>>

BatchFits ==
    Delivering =>
        /\ SpansOf(batch.spans, batch.token.speakId)
        /\ batch.credited + Len(Flat(batch.spans)) >= 1
        /\ pc["audio"] = "writing" /\ Current /\ InUse(ctx) => batch.target = ctx.speakId

CarryFits == carry \in Seq({ctx.speakId})

SiteInv == site \in {0, speakCounter}

FaultedFails == ctx.downstreamState = "Faulted" => ctx.completionHr = "E_FAIL"

\* Whatever speaks of a cancellation speaks of a request that was aborted.
AbortInv ==
    /\ ctx.downstreamState = "Cancelling" => ctx.speakId \in aborted
    /\ ctx.upstreamState = "Cancelled" => ctx.speakId \in aborted
    /\ \A t \in Threads : pc[t] = "sendCancel" => cancelId[t] \in aborted
    /\ \A i \in 1 .. Len(commands) :
          commands[i].kind = "cancel" => commands[i].speakId \in aborted
    /\ \A i \in 1 .. Len(events) :
          events[i].type = "cancelled" => events[i].speakId \in aborted

FreshInv == \A r \in Ids : NotStarted(r) => heard[r] = 0

PromiseInv == provider.speakId # 0 => provider.total = promised[provider.speakId].audio

\* All the audio of r was accepted by its site, and no more will be written.
Done(r) ==
    /\ heard[r] = promised[r].audio
    /\ ~NotStarted(r)
    /\ ~(Delivering /\ batch.token.speakId = r)
    /\ ctx.speakId = r => ~InUse(ctx) /\ r <= provider.speakId

\* The request of the context ended well.
EndedWell ==
    /\ ctx.downstreamState = "Idle" /\ ctx.completionHr = "S_OK"
    /\ ctx.speakId # 0 /\ ctx.speakId \notin aborted

DoneInv ==
    /\ EndedWell => Done(ctx.speakId)
    /\ \A r \in Ids : outcome[r] = "S_OK" /\ r \notin aborted => Done(r)

DeliveredInv ==
    /\ SiteInv /\ FaultedFails /\ AbortInv /\ FreshInv /\ PromiseInv
    /\ BatchFits /\ CarryFits /\ SpeakingBalanced /\ DoneInv
-----------------------------------------------------------------------------
(* What one step does to the request of the context.                       *)

\* The boundary of the speaking request is reached: with the terminal it had, or
\* with the one the control thread takes from the pipe.
Reached ==
    /\ ctx.downstreamState = "Speaking"
    /\ ctx'.deliveredAudioBytes = ctx'.rawAudioBytesRead
    /\ \/ ctx.upstreamFinished /\ ctx'.deliveredAudioBytes = ctx.upstreamTerminalBytes
       \/ /\ events # <<>> /\ Head(events).type \in {"complete", "cancelled"}
          /\ ctx'.deliveredAudioBytes = Head(events).bytes

CtxStep ==
    /\ ctx'.speakId = ctx.speakId /\ ctx'.generation = ctx.generation
    /\ ctx'.completionHr \in {ctx.completionHr, "E_FAIL"}
    /\ ctx'.downstreamState = "Faulted"
          => ctx.downstreamState = "Faulted" \/ ctx'.completionHr = "E_FAIL"
    /\ ctx'.downstreamState = "Cancelling"
          => ctx.downstreamState = "Cancelling" \/ ctx.speakId \in aborted'
    /\ ctx'.downstreamState = "Idle"
          => \/ ctx.downstreamState \in {"Idle", "Cancelling"}
             \/ ctx'.completionHr = "E_FAIL" \/ Reached
    /\ ctx'.upstreamState = "Cancelled"
          => \/ ctx.upstreamState = "Cancelled"
             \/ events # <<>> /\ Head(events).type = "cancelled"
                              /\ Head(events).speakId = ctx.speakId

\* Who is about to cancel a request has it among the aborted.
AbortStep ==
    /\ aborted \subseteq aborted'
    /\ \A t \in Threads : pc'[t] = "sendCancel" =>
          \/ pc[t] = "sendCancel" /\ cancelId'[t] = cancelId[t]
          \/ cancelId'[t] \in aborted'

\* What one step does to the audio of the request: it leaves the batch as it is,
\* makes one, has a span of it accepted, or ends it.
Leaves ==
    /\ heard' = heard
    /\ Delivering' <=> Delivering
    /\ Delivering =>
          /\ batch'.token = batch.token
          /\ batch'.spans = batch.spans /\ batch'.credited = batch.credited
          /\ pc'["audio"] = "writing" =>
                \/ pc["audio"] = "writing" /\ batch'.target = batch.target
                \/ site # 0 /\ batch'.target = site
    /\ ctx'.deliveredAudioBytes = ctx.deliveredAudioBytes
    /\ CarryFits'
    /\ Len(carry') + ctx.rawAudioBytesRead <= Len(carry) + ctx'.rawAudioBytesRead

Assembles ==
    /\ ctx.downstreamState = "Speaking"
    /\ heard' = heard
    /\ ~Delivering /\ Delivering' /\ pc'["audio"] # "writing"
    /\ batch'.token = Token(ctx) /\ batch'.credited = 0
    /\ SpansOf(batch'.spans, ctx.speakId) /\ batch'.spans # <<>>
    /\ ctx'.deliveredAudioBytes = ctx.deliveredAudioBytes
    /\ CarryFits'
    /\ Len(Flat(batch'.spans)) + Len(carry') + ctx.rawAudioBytesRead
          <= Len(carry) + ctx'.rawAudioBytesRead

Settles ==
    /\ heard' = heard
    /\ ~Delivering'
    /\ carry' \in {carry, <<>>}
    /\ ctx'.rawAudioBytesRead = ctx.rawAudioBytesRead
    /\ ctx.downstreamState = "Speaking"
          => ctx'.deliveredAudioBytes = ctx.deliveredAudioBytes + Credit

AudioStep == Leaves \/ Assembles \/ SiteAcceptsSpan \/ Settles

\* The fields a region leaves alone, apart from the pending fault.
Agrees(c, d) ==
    /\ d.speakId = c.speakId /\ d.generation = c.generation
    /\ d.upstreamState = c.upstreamState /\ d.downstreamState = c.downstreamState
    /\ d.rawAudioBytesRead = c.rawAudioBytesRead
    /\ d.deliveredAudioBytes = c.deliveredAudioBytes
    /\ d.upstreamTerminalBytes = c.upstreamTerminalBytes
    /\ d.upstreamFinished = c.upstreamFinished
    /\ d.completionHr = c.completionHr

LEMMA PublishAgrees ==
    ASSUME NEW r, r.ctx \in Context, Publish(r)
    PROVE  Agrees(r.ctx, ctx') /\ carry' = r.carry
BY DEF Publish, Agrees, Context

\* What CheckTerminalBoundaryLocked changes, and when it ends a request.
LEMMA BoundaryEnds ==
    ASSUME NEW c \in Context, NEW k
    PROVE  LET r == CheckTerminalBoundary(c, k)
           IN /\ r.ctx \in Context
              /\ r.ctx.speakId = c.speakId /\ r.ctx.generation = c.generation
              /\ r.ctx.rawAudioBytesRead = c.rawAudioBytesRead
              /\ r.ctx.deliveredAudioBytes = c.deliveredAudioBytes
              /\ r.ctx.completionHr = c.completionHr
              /\ r.ctx.upstreamState \in {c.upstreamState, "Idle"}
              /\ r.ctx.downstreamState \in {c.downstreamState, "Idle"}
              /\ r.carry \in {k, <<>>}
              /\ r.ctx.downstreamState = "Idle" =>
                    \/ c.downstreamState \in {"Idle", "Cancelling"}
                    \/ c.upstreamState = "Failed"
                    \/ /\ c.downstreamState = "Speaking" /\ c.upstreamFinished
                       /\ c.deliveredAudioBytes = c.upstreamTerminalBytes
                       /\ c.rawAudioBytesRead = c.upstreamTerminalBytes
<1> DEFINE action == TerminalBoundaryAction(c, TerminalBoundaryFacts(c, k # <<>>))
           r == CheckTerminalBoundary(c, k)
<1>1. CASE action \in {"Continue", "OverrunFault"}
  <2>1. r.ctx = c /\ r.carry = k
    BY <1>1 DEF CheckTerminalBoundary
  <2>2. c.downstreamState = "Idle" => c.downstreamState \in {"Idle", "Cancelling"}
    OBVIOUS
  <2> HIDE DEF r
  <2> QED
    BY <2>1, <2>2 DEF r
<1>2. CASE action \notin {"Continue", "OverrunFault"}
  <2>1. r.ctx = ResetToIdle(c) /\ r.carry = <<>>
    BY <1>2 DEF CheckTerminalBoundary
  <2>2. \/ c.downstreamState \in {"Idle", "Cancelling"}
        \/ c.upstreamState = "Failed"
        \/ /\ c.downstreamState = "Speaking" /\ c.upstreamFinished
           /\ c.deliveredAudioBytes = c.upstreamTerminalBytes
           /\ c.rawAudioBytesRead = c.upstreamTerminalBytes
    BY <1>2 DEF TerminalBoundaryAction, TerminalBoundaryFacts, IsAwaitingTerminalAudio,
                IsDrainingCancellation
  <2>3. /\ ResetToIdle(c) \in Context
        /\ ResetToIdle(c).speakId = c.speakId /\ ResetToIdle(c).generation = c.generation
        /\ ResetToIdle(c).rawAudioBytesRead = c.rawAudioBytesRead
        /\ ResetToIdle(c).deliveredAudioBytes = c.deliveredAudioBytes
        /\ ResetToIdle(c).completionHr = c.completionHr
        /\ ResetToIdle(c).upstreamState = "Idle" /\ ResetToIdle(c).downstreamState = "Idle"
    BY ContextOperators DEF ResetToIdle, Context
  <2> HIDE DEF r, action
  <2> QED
    BY <2>1, <2>2, <2>3 DEF r
<1> QED
  BY <1>1, <1>2

\* What the handling of the next control event changes.
LEMMA EventEnds ==
    ASSUME TypeInv, NEW event \in Event
    PROVE  LET r == HandleParsedControlEvent(event)
           IN /\ r.ctx \in Context
              /\ r.ctx.speakId = ctx.speakId /\ r.ctx.generation = ctx.generation
              /\ r.ctx.rawAudioBytesRead = ctx.rawAudioBytesRead
              /\ r.ctx.deliveredAudioBytes = ctx.deliveredAudioBytes
              /\ r.ctx.completionHr \in {ctx.completionHr, "E_FAIL"}
              /\ r.carry \in {carry, <<>>}
              /\ r.ctx.downstreamState \in {ctx.downstreamState, "Idle", "Faulted"}
              /\ r.ctx.downstreamState = "Faulted" =>
                    ctx.downstreamState = "Faulted" \/ r.ctx.completionHr = "E_FAIL"
              /\ r.ctx.downstreamState = "Idle" =>
                    \/ ctx.downstreamState \in {"Idle", "Cancelling"}
                    \/ r.ctx.completionHr = "E_FAIL"
                    \/ /\ ctx.downstreamState = "Speaking"
                       /\ event.type \in {"complete", "cancelled"}
                       /\ ctx.deliveredAudioBytes = event.bytes
                       /\ ctx.rawAudioBytesRead = event.bytes
              /\ r.ctx.upstreamState = "Cancelled" =>
                    \/ ctx.upstreamState = "Cancelled"
                    \/ event.type = "cancelled" /\ event.speakId = ctx.speakId
<1> DEFINE r == HandleParsedControlEvent(event)
           action == EventAction(event, ctx)
           terminal == [ctx EXCEPT !.upstreamTerminalBytes = event.bytes,
                                   !.upstreamFinished = TRUE,
                                   !.upstreamState = IF event.type = "complete"
                                                     THEN "Completed" ELSE "Cancelled"]
           failed == [ctx EXCEPT !.upstreamState = "Failed", !.upstreamFinished = TRUE,
                                 !.completionHr = "E_FAIL",
                                 !.upstreamTerminalBytes = ctx.rawAudioBytesRead]
<1>1. ctx \in Context /\ event.bytes \in Nat
  BY DEF TypeInv, TypeOK, Event
<1>2. CASE action = "Terminal"
  <2>1. event.speakId = ctx.speakId /\ event.type \in {"complete", "cancelled"}
    BY <1>2 DEF EventAction, IsTerminalEvent
  <2>2. r = HandleTerminalEvent(event)
    BY <1>2 DEF HandleParsedControlEvent
  <2>3. CASE UpstreamTerminalAction(ctx, event.valid,
                IsTerminalByteCountFrameAligned(event.bytes, BlockAlign)) # "Apply"
    <3>1. r.ctx = TransitionRequestToFaulted(ctx) /\ r.carry = carry
      BY <2>2, <2>3 DEF HandleTerminalEvent
    <3>2. /\ TransitionRequestToFaulted(ctx) \in Context
          /\ TransitionRequestToFaulted(ctx).speakId = ctx.speakId
          /\ TransitionRequestToFaulted(ctx).generation = ctx.generation
          /\ TransitionRequestToFaulted(ctx).rawAudioBytesRead = ctx.rawAudioBytesRead
          /\ TransitionRequestToFaulted(ctx).deliveredAudioBytes = ctx.deliveredAudioBytes
          /\ TransitionRequestToFaulted(ctx).completionHr = "E_FAIL"
          /\ TransitionRequestToFaulted(ctx).downstreamState = "Faulted"
          /\ TransitionRequestToFaulted(ctx).upstreamState = "Faulted"
      BY <1>1, ContextOperators DEF TransitionRequestToFaulted, Context
    <3> HIDE DEF r, action, terminal, failed
    <3> QED
      BY <3>1, <3>2 DEF r
  <2>4. CASE UpstreamTerminalAction(ctx, event.valid,
                IsTerminalByteCountFrameAligned(event.bytes, BlockAlign)) = "Apply"
    <3>1. r = CheckTerminalBoundary(terminal, carry)
      BY <2>2, <2>4 DEF HandleTerminalEvent
    <3>2. /\ terminal \in Context
          /\ terminal.speakId = ctx.speakId /\ terminal.generation = ctx.generation
          /\ terminal.rawAudioBytesRead = ctx.rawAudioBytesRead
          /\ terminal.deliveredAudioBytes = ctx.deliveredAudioBytes
          /\ terminal.completionHr = ctx.completionHr
          /\ terminal.downstreamState = ctx.downstreamState
          /\ terminal.upstreamTerminalBytes = event.bytes
          /\ terminal.upstreamState = (IF event.type = "complete" THEN "Completed"
                                                                  ELSE "Cancelled")
      BY <1>1 DEF Context, UpstreamState
    <3> HIDE DEF terminal
    <3>3. /\ r.ctx \in Context
          /\ r.ctx.speakId = terminal.speakId /\ r.ctx.generation = terminal.generation
          /\ r.ctx.rawAudioBytesRead = terminal.rawAudioBytesRead
          /\ r.ctx.deliveredAudioBytes = terminal.deliveredAudioBytes
          /\ r.ctx.completionHr = terminal.completionHr
          /\ r.ctx.upstreamState \in {terminal.upstreamState, "Idle"}
          /\ r.ctx.downstreamState \in {terminal.downstreamState, "Idle"}
          /\ r.carry \in {carry, <<>>}
          /\ r.ctx.downstreamState = "Idle" =>
                \/ terminal.downstreamState \in {"Idle", "Cancelling"}
                \/ terminal.upstreamState = "Failed"
                \/ /\ terminal.downstreamState = "Speaking" /\ terminal.upstreamFinished
                   /\ terminal.deliveredAudioBytes = terminal.upstreamTerminalBytes
                   /\ terminal.rawAudioBytesRead = terminal.upstreamTerminalBytes
      BY <3>1, <3>2, BoundaryEnds
    <3> HIDE DEF r
    <3>4. r.ctx.upstreamState = "Cancelled" => event.type = "cancelled"
      BY <2>1, <3>2, <3>3
    <3>5. r.ctx.downstreamState = "Idle" =>
              \/ ctx.downstreamState \in {"Idle", "Cancelling"}
              \/ /\ ctx.downstreamState = "Speaking"
                 /\ ctx.deliveredAudioBytes = event.bytes
                 /\ ctx.rawAudioBytesRead = event.bytes
      BY <2>1, <3>2, <3>3
    <3> QED
      BY <2>1, <3>2, <3>3, <3>4, <3>5 DEF r
  <2> QED
    BY <2>3, <2>4
<1>3. CASE action = "RequestErrorLog"
  <2>1. r = CheckTerminalBoundary(failed, carry)
    BY <1>3 DEF HandleParsedControlEvent, HandleErrorLog
  <2>2. /\ failed \in Context
        /\ failed.speakId = ctx.speakId /\ failed.generation = ctx.generation
        /\ failed.rawAudioBytesRead = ctx.rawAudioBytesRead
        /\ failed.deliveredAudioBytes = ctx.deliveredAudioBytes
        /\ failed.completionHr = "E_FAIL" /\ failed.upstreamState = "Failed"
        /\ failed.downstreamState = ctx.downstreamState
    BY <1>1 DEF Context, UpstreamState, HResult
  <2> HIDE DEF failed
  <2>3. /\ r.ctx \in Context
        /\ r.ctx.speakId = failed.speakId /\ r.ctx.generation = failed.generation
        /\ r.ctx.rawAudioBytesRead = failed.rawAudioBytesRead
        /\ r.ctx.deliveredAudioBytes = failed.deliveredAudioBytes
        /\ r.ctx.completionHr = failed.completionHr
        /\ r.ctx.upstreamState \in {failed.upstreamState, "Idle"}
        /\ r.ctx.downstreamState \in {failed.downstreamState, "Idle"}
        /\ r.carry \in {carry, <<>>}
    BY <2>1, <2>2, BoundaryEnds
  <2> HIDE DEF r, action
  <2> QED
    BY <2>2, <2>3 DEF r
<1>4. CASE action \notin {"Terminal", "RequestErrorLog"}
  <2>1. r.ctx = ctx /\ r.carry = carry
    BY <1>4 DEF HandleParsedControlEvent
  <2> HIDE DEF r, action
  <2> QED
    BY <1>1, <2>1 DEF r
<1> QED
  BY <1>2, <1>3, <1>4
-----------------------------------------------------------------------------
(* The classes of steps.                                                   *)

\* A step that neither request nor audio sees.
Quiet ==
    /\ UNCHANGED <<ctx, carry, batch, heard, cancelId, aborted>>
    /\ \A t \in Threads : pc'[t] = "sendCancel" => pc[t] = "sendCancel"
    /\ pc'["audio"] = pc["audio"] \/ (~Delivering /\ ~Delivering')

\* A region that marks a fault or faults the request.
Marks ==
    /\ UNCHANGED <<batch, heard, cancelId, aborted, pc>>
    /\ Agrees(ctx, ctx') \/ Agrees(TransitionRequestToFaulted(ctx), ctx')
    /\ carry' \in {carry, <<>>}

Unseen == UNCHANGED <<ctx, carry, batch, heard, cancelId, aborted>>

\* A thread that goes from one place to another.
LEMMA GoingIsQuiet ==
    ASSUME TypeInv, Unseen, NEW t \in Threads, NEW place, Goto(t, place),
           place # "sendCancel",
           t = "audio" => /\ pc["audio"] \notin {"deliver", "write", "writing", "update"}
                          /\ place \notin {"deliver", "write", "writing", "update"}
    PROVE  Quiet
<1>1. pc \in [Threads -> Place] /\ "audio" \in Threads
  BY DEF TypeInv, TypeOK, Threads, Readers
<1>2. \A s \in Threads : pc'[s] = IF s = t THEN place ELSE pc[s]
  BY <1>1 DEF Goto
<1>3. pc'["audio"] = pc["audio"] \/ (~Delivering /\ ~Delivering')
  BY <1>1, <1>2 DEF Delivering
<1> QED
  BY <1>2, <1>3 DEF Quiet, Unseen

LEMMA StayingIsQuiet ==
    ASSUME Unseen, pc' = pc
    PROVE  Quiet
BY DEF Unseen, Quiet

\* Readers whose pending reads are cancelled, and Speak's thread and a direct
\* caller that go with them.
LEMMA HittingIsQuiet ==
    ASSUME TypeInv, Unseen, NEW hit \in PendingReads, NEW places,
           pc' = [u \in Threads |-> IF u \in hit THEN "failed" ELSE places[u]],
           \A u \in Threads : \/ places[u] = pc[u]
                              \/ u \in Callers /\ places[u] # "sendCancel"
    PROVE  Quiet
<1>1. \A u \in hit : u \in Readers /\ pc[u] = "read"
  BY DEF PendingReads, At
<1>2. "audio" \in Threads /\ "audio" \notin Callers
  BY DEF Threads, Readers, Callers
<1>3. \A u \in Threads : pc'[u] = IF u \in hit THEN "failed" ELSE places[u]
  OBVIOUS
<1>4. \A t \in Threads : pc'[t] = "sendCancel" => pc[t] = "sendCancel"
  BY <1>3
<1>5. pc'["audio"] = pc["audio"] \/ (~Delivering /\ ~Delivering')
  BY <1>1, <1>2, <1>3 DEF Delivering
<1> QED
  BY <1>4, <1>5 DEF Quiet, Unseen

\* EnterFaultedState.
LEMMA FaultClasses ==
    ASSUME TypeInv, NEW t \in Threads, EnterFaultedState(t)
    PROVE  Quiet \/ Marks
<1> USE DEF localVars, historyVars, requestVars
<1>1. ctx \in Context
  BY DEF TypeInv, TypeOK
<1>2. CASE FaultsRequest(t)
  <2>1. /\ UNCHANGED <<batch, heard, cancelId, aborted, pc>> /\ carry' = <<>>
        /\ \/ ctx' = TransitionRequestToFaulted(ctx)
           \/ ctx' = [TransitionRequestToFaulted(ctx) EXCEPT !.faultPending = TRUE]
    BY <1>2 DEF FaultsRequest
  <2>2. TransitionRequestToFaulted(ctx) \in Context
    BY <1>1, ContextOperators
  <2>3. Agrees(TransitionRequestToFaulted(ctx), ctx')
    <3> DEFINE c == TransitionRequestToFaulted(ctx)
    <3>1. c \in Context /\ (ctx' = c \/ ctx' = [c EXCEPT !.faultPending = TRUE])
      BY <2>1, <2>2
    <3> HIDE DEF c
    <3>2. Agrees(c, ctx')
      BY <3>1 DEF Agrees, Context
    <3> QED
      BY <3>2 DEF c
  <2> QED
    BY <2>1, <2>3 DEF Marks
<1>3. CASE PublishesFault(t)
  <2>1. Agrees(ctx, ctx')
    BY <1>1, <1>3 DEF PublishesFault, Agrees, Context
  <2> QED
    BY <1>3, <2>1 DEF PublishesFault, Marks
<1>4. CASE CancelsIo(t)
  <2>1. PICK hit \in PendingReads :
            pc' = [u \in Threads |-> IF u \in hit THEN "failed" ELSE pc[u]]
    BY <1>4 DEF CancelsIo
  <2>2. Unseen
    BY <1>4 DEF CancelsIo, Unseen
  <2> QED
    BY <2>1, <2>2, HittingIsQuiet
<1> QED
  BY <1>2, <1>3, <1>4 DEF EnterFaultedState

\* What the threads do besides.
AudioClasses ==
    \/ AssemblesSpeakingAudio \/ AssemblyThrows \/ DrainsCancellationAudio
    \/ AdmitsSpan \/ CapturesSite \/ SiteAcceptsSpan \/ SiteRejectsSpan
    \/ UpdatesAfterDelivery

LEMMA ReaderClasses ==
    ASSUME TypeInv, NEW u \in Readers, ReadBreaks(u) \/ ReadFailed(u) \/ LeavesLoop(u)
    PROVE  Quiet
<1> USE DEF localVars, historyVars, requestVars
<1>1. u \in Threads /\ Unseen
  BY DEF Threads, ReadBreaks, ReadFailed, LeavesLoop, Unseen
<1>2. PICK place \in {"failed", "exit"} : Goto(u, place)
  BY DEF ReadBreaks, ReadFailed, LeavesLoop
<1>3. pc[u] \in {"read", "failed"}
  BY DEF ReadBreaks, ReadFailed, LeavesLoop, At
<1> QED
  BY <1>1, <1>2, <1>3, GoingIsQuiet

LEMMA AudioThreadClasses ==
    ASSUME TypeInv, AudioThread
    PROVE  Quiet \/ Marks \/ AudioClasses
<1> USE DEF localVars, historyVars, requestVars
<1>1. "audio" \in Threads /\ "audio" \in Readers /\ ctx \in Context
  BY DEF Threads, Readers, TypeInv, TypeOK
<1>2. CASE FaultsOnIdleAudio
  <2>1. /\ Publish([ctx |-> ctx, carry |-> carry, fault |-> TRUE])
        /\ UNCHANGED <<batch, heard, cancelId, aborted, pc>>
    BY <1>2 DEF FaultsOnIdleAudio
  <2>2. Agrees(ctx, ctx') /\ carry' = carry
    <3> DEFINE r == [ctx |-> ctx, carry |-> carry, fault |-> TRUE]
    <3>1. r.ctx = ctx /\ r.carry = carry /\ Publish(r)
      BY <2>1
    <3> HIDE DEF r
    <3> QED
      BY <1>1, <3>1, PublishAgrees
  <2> QED
    BY <2>1, <2>2 DEF Marks
<1>3. CASE DrainsFaultedAudio
  <2>1. Unseen /\ pc' = pc
    BY <1>3 DEF DrainsFaultedAudio, Unseen
  <2> QED
    BY <2>1, StayingIsQuiet
<1>4. CASE AudioSendsCancel
  <2>1. Unseen /\ Goto("audio", "read") /\ pc["audio"] = "sendCancel"
    BY <1>4 DEF AudioSendsCancel, SendsCancel, CancelSendFails, Unseen, At
  <2> QED
    BY <1>1, <2>1, GoingIsQuiet
<1> QED
  BY <1>1, <1>2, <1>3, <1>4, ReaderClasses, FaultClasses DEF AudioThread, AudioClasses

LEMMA ControlThreadClasses ==
    ASSUME TypeInv, ControlThread
    PROVE  Quiet \/ Marks \/ HandlesEvent
<1> USE DEF localVars, historyVars, requestVars
<1>1. "control" \in Threads /\ "control" \in Readers /\ ctx \in Context
  BY DEF Threads, Readers, TypeInv, TypeOK
<1>2. CASE ReadsOrphanEvent
  <2>1. ctx' = ctx \/ ctx' = [ctx EXCEPT !.faultPending = TRUE]
    BY <1>2 DEF ReadsOrphanEvent
  <2>2. Agrees(ctx, ctx')
    BY <1>1, <2>1 DEF Agrees, Context
  <2> QED
    BY <1>2, <2>2 DEF ReadsOrphanEvent, Marks
<1>3. CASE ReadsMalformedLine \/ AdmitsEvent \/ CapturesEventSite \/ NotifiesSite
  <2>1. Unseen
    BY <1>3 DEF ReadsMalformedLine, AdmitsEvent, CapturesEventSite, NotifiesSite, Unseen
  <2>2. PICK place \in {"failed", "callback", "notify", "read"} : Goto("control", place)
    BY <1>3 DEF ReadsMalformedLine, AdmitsEvent, CapturesEventSite, NotifiesSite, Dispatched
  <2> QED
    BY <1>1, <2>1, <2>2, GoingIsQuiet
<1> QED
  BY <1>1, <1>2, <1>3, ReaderClasses, FaultClasses DEF ControlThread

Creates == SetsObjectToken \/ RecreatesSession

LEMMA SpeakThreadClasses ==
    ASSUME TypeInv, SpeakThread, ~Starts, ~Creates
    PROVE  Quiet \/ Marks \/ ObservesAbort
<1> USE DEF localVars, historyVars, requestVars
<1>1. "speak" \in Threads /\ "speak" # "audio"
  BY DEF Threads, Callers
<1>2. CASE \/ SpeakBegins \/ FindsSessionActive \/ Retires \/ HasNoSession \/ StartRefused
           \/ SendsSpeak \/ SpeakSendFails \/ WaitEnds \/ WaitTimesOut \/ DrainEnds
           \/ DrainTimesOut \/ SpeakReturns \/ Destroys
  <2>1. Unseen
    BY <1>2 DEF SpeakBegins, FindsSessionActive, Retires, HasNoSession, StartRefused, SendsSpeak,
                SpeakSendFails, WaitEnds, WaitTimesOut, DrainEnds, DrainTimesOut, SpeakReturns,
                Destroys, Unseen
  <2>2. PICK place \in {"session", "start", "cleanup", "wait", "idle", "gone"} :
            Goto("speak", place)
    BY <1>2 DEF SpeakBegins, FindsSessionActive, Retires, HasNoSession, StartRefused, SendsSpeak,
                SpeakSendFails, WaitEnds, WaitTimesOut, DrainEnds, DrainTimesOut, SpeakReturns,
                Destroys, Returns
  <2> QED
    BY <1>1, <2>1, <2>2, GoingIsQuiet
<1>3. CASE SpeakCancels
  <2>1. Unseen /\ \E place \in {"drain", "cleanup"} : Goto("speak", place)
    BY <1>3 DEF SpeakCancels, SendsCancel, CancelSendFails, Unseen
  <2> QED
    BY <1>1, <2>1, GoingIsQuiet
<1>4. CASE BeginsRetirement
  <2>1. PICK hit \in PendingReads :
            pc' = [u \in Threads |-> IF u = "speak" THEN "retire"
                                     ELSE IF u \in hit THEN "failed" ELSE pc[u]]
    BY <1>4 DEF BeginsRetirement
  <2> DEFINE places == [u \in Threads |-> IF u = "speak" THEN "retire" ELSE pc[u]]
  <2>2. "speak" \notin hit /\ "speak" \in Callers
    BY DEF PendingReads, Readers, Callers
  <2>3. pc' = [u \in Threads |-> IF u \in hit THEN "failed" ELSE places[u]]
    BY <2>1, <2>2
  <2>4. \A u \in Threads : \/ places[u] = pc[u]
                           \/ u \in Callers /\ places[u] # "sendCancel"
    BY <2>2
  <2>5. Unseen
    BY <1>4 DEF BeginsRetirement, Unseen
  <2> HIDE DEF places
  <2> QED
    BY <2>3, <2>4, <2>5, HittingIsQuiet
<1>5. CASE BeginsDestruction
  <2>1. PICK hit \in PendingReads :
            pc' = [u \in Threads |-> IF u = "speak" THEN "destroy"
                                     ELSE IF u = "purge" THEN "done"
                                     ELSE IF u \in hit THEN "failed" ELSE pc[u]]
    BY <1>5 DEF BeginsDestruction
  <2> DEFINE places == [u \in Threads |-> IF u = "speak" THEN "destroy"
                                          ELSE IF u = "purge" THEN "done" ELSE pc[u]]
  <2>2. {"speak", "purge"} \cap hit = {} /\ {"speak", "purge"} \subseteq Callers
    BY DEF PendingReads, Readers, Callers
  <2>3. pc' = [u \in Threads |-> IF u \in hit THEN "failed" ELSE places[u]]
    BY <2>1, <2>2
  <2>4. \A u \in Threads : \/ places[u] = pc[u]
                           \/ u \in Callers /\ places[u] # "sendCancel"
    BY <2>2
  <2>5. Unseen
    BY <1>5 DEF BeginsDestruction, Unseen
  <2> HIDE DEF places
  <2> QED
    BY <2>3, <2>4, <2>5, HittingIsQuiet
<1> QED
  BY <1>1, <1>2, <1>3, <1>4, <1>5, FaultClasses DEF SpeakThread, Creates

\* Every step of a system without a direct caller.
LEMMA StepClasses ==
    ASSUME TypeInv, [Next]_vars, ~DirectCaller, ~Starts, ~Creates
    PROVE  Quiet \/ Marks \/ AudioClasses \/ HandlesEvent \/ ObservesAbort
<1>1. CASE InactivityElapses \/ DeadlinePasses \/ UNCHANGED workerVars \/ UNCHANGED vars
  <2>1. Unseen /\ pc' = pc
    BY <1>1 DEF InactivityElapses, DeadlinePasses, workerVars, vars, Unseen, requestVars,
                localVars, historyVars
  <2> QED
    BY <2>1, StayingIsQuiet
<1> QED
  BY <1>1, AudioThreadClasses, ControlThreadClasses, SpeakThreadClasses DEF Next, Terminated
-----------------------------------------------------------------------------
(* The effects of each class.                                              *)

Effects == CtxStep /\ AbortStep /\ AudioStep

\* A partial frame of the request, or none.
LEMMA CarryOrNone ==
    ASSUME NEW r, carry \in Seq({r}), NEW k \in {carry, <<>>}
    PROVE  k \in Seq({r}) /\ Len(k) \in Nat /\ Len(carry) \in Nat /\ Len(k) <= Len(carry)
<1>1. Len(carry) \in Nat
  BY LenProperties
<1>2. <<>> \in Seq({r}) /\ Len(<<>>) = 0
  OBVIOUS
<1>3. CASE k = carry
  BY <1>1, <1>3
<1>4. CASE k = <<>>
  BY <1>1, <1>2, <1>4
<1> QED
  BY <1>3, <1>4

LEMMA QuietEffects ==
    ASSUME TypeInv, CarryFits, Quiet
    PROVE  Effects
<1>1. ctx \in Context /\ Len(carry) \in Nat
  BY LenProperties DEF TypeInv, TypeOK, CarryFits
<1>2. CtxStep
  BY DEF Quiet, CtxStep
<1>3. AbortStep
  BY DEF Quiet, AbortStep
<1>4. CarryFits' /\ Len(carry') + ctx.rawAudioBytesRead <= Len(carry) + ctx'.rawAudioBytesRead
  BY <1>1 DEF Quiet, CarryFits, Context
<1>5. /\ Delivering' <=> Delivering
      /\ Delivering => /\ batch' = batch /\ pc'["audio"] = pc["audio"]
  BY DEF Quiet, Delivering
<1>6. Leaves
  BY <1>4, <1>5 DEF Quiet, Leaves
<1> QED
  BY <1>2, <1>3, <1>6 DEF Effects, AudioStep

LEMMA MarksEffects ==
    ASSUME TypeInv, CarryFits, Marks
    PROVE  Effects
<1>1. ctx \in Context
  BY DEF TypeInv, TypeOK
<1>2. /\ TransitionRequestToFaulted(ctx).speakId = ctx.speakId
      /\ TransitionRequestToFaulted(ctx).generation = ctx.generation
      /\ TransitionRequestToFaulted(ctx).rawAudioBytesRead = ctx.rawAudioBytesRead
      /\ TransitionRequestToFaulted(ctx).deliveredAudioBytes = ctx.deliveredAudioBytes
      /\ TransitionRequestToFaulted(ctx).completionHr = "E_FAIL"
      /\ TransitionRequestToFaulted(ctx).downstreamState = "Faulted"
      /\ TransitionRequestToFaulted(ctx).upstreamState = "Faulted"
  BY <1>1 DEF TransitionRequestToFaulted, Context
<1>3. CtxStep
  BY <1>2 DEF Marks, Agrees, CtxStep
<1>4. AbortStep
  BY DEF Marks, AbortStep
<1>5. carry' \in Seq({ctx.speakId}) /\ Len(carry') \in Nat /\ Len(carry') <= Len(carry)
      /\ Len(carry) \in Nat
  BY CarryOrNone DEF Marks, CarryFits
<1>6. /\ ctx'.speakId = ctx.speakId /\ ctx'.rawAudioBytesRead = ctx.rawAudioBytesRead
      /\ ctx'.deliveredAudioBytes = ctx.deliveredAudioBytes
  BY <1>2 DEF Marks, Agrees
<1>7. Len(carry') + ctx.rawAudioBytesRead <= Len(carry) + ctx'.rawAudioBytesRead
  BY <1>1, <1>5, <1>6 DEF Context
<1>8. Leaves
  BY <1>5, <1>6, <1>7 DEF Marks, Leaves, Delivering, CarryFits
<1> QED
  BY <1>3, <1>4, <1>8 DEF Effects, AudioStep

LEMMA AbortEffects ==
    ASSUME TypeInv, CarryFits, ObservesAbort
    PROVE  Effects
<1>1. ctx \in Context /\ pc \in [Threads -> Place] /\ "speak" \in Threads /\ "audio" \in Threads
      /\ cancelId \in [Threads -> 0 .. MaxSpeaks]
  BY DEF TypeInv, TypeOK, Threads, Readers, Callers
<1>2. /\ ctx' = TransitionToCancelling(ctx) /\ carry' = <<>>
      /\ cancelId' = [cancelId EXCEPT !["speak"] = ctx.speakId]
      /\ aborted' = aborted \cup {ctx.speakId}
      /\ pc' = [pc EXCEPT !["speak"] = "sendCancel"]
      /\ batch' = batch /\ heard' = heard
  BY DEF ObservesAbort, BeginsCancellation, Goto
<1>3. /\ ctx'.speakId = ctx.speakId /\ ctx'.generation = ctx.generation
      /\ ctx'.rawAudioBytesRead = ctx.rawAudioBytesRead
      /\ ctx'.deliveredAudioBytes = ctx.deliveredAudioBytes
      /\ ctx'.completionHr = ctx.completionHr
      /\ ctx'.downstreamState = "Cancelling"
      /\ ctx'.upstreamState = ctx.upstreamState
  BY <1>1, <1>2 DEF TransitionToCancelling, Context
<1>4. CtxStep
  BY <1>2, <1>3 DEF CtxStep
<1>5. AbortStep
  BY <1>1, <1>2 DEF AbortStep
<1>6. carry' \in Seq({ctx.speakId}) /\ Len(carry') \in Nat /\ Len(carry') <= Len(carry)
      /\ Len(carry) \in Nat
  BY <1>2, CarryOrNone DEF CarryFits
<1>7. Len(carry') + ctx.rawAudioBytesRead <= Len(carry) + ctx'.rawAudioBytesRead
  BY <1>1, <1>3, <1>6 DEF Context
<1>8. pc'["audio"] = pc["audio"]
  BY <1>1, <1>2
<1>9. Leaves
  BY <1>2, <1>3, <1>6, <1>7, <1>8 DEF Leaves, Delivering, CarryFits
<1> QED
  BY <1>4, <1>5, <1>9 DEF Effects, AudioStep

LEMMA EventEffects ==
    ASSUME TypeInv, CarryFits, HandlesEvent
    PROVE  Effects
<1> DEFINE event == Head(events)
           r == HandleParsedControlEvent(event)
<1>1. ctx \in Context /\ pc \in [Threads -> Place] /\ "control" \in Threads /\ "audio" \in Threads
  BY DEF TypeInv, TypeOK, Threads, Readers
<1>2. events # <<>> /\ Publish(r) /\ UNCHANGED <<batch, heard, cancelId, aborted>>
      /\ (pc' = pc \/ pc' = [pc EXCEPT !["control"] = "forward"])
  BY DEF HandlesEvent, NextEvent, historyVars, Goto
<1>3. event \in Event
  BY <1>2 DEF TypeInv, TypeOK
<1> HIDE DEF event
<1>4. /\ r.ctx \in Context
      /\ r.ctx.speakId = ctx.speakId /\ r.ctx.generation = ctx.generation
      /\ r.ctx.rawAudioBytesRead = ctx.rawAudioBytesRead
      /\ r.ctx.deliveredAudioBytes = ctx.deliveredAudioBytes
      /\ r.ctx.completionHr \in {ctx.completionHr, "E_FAIL"}
      /\ r.carry \in {carry, <<>>}
      /\ r.ctx.downstreamState \in {ctx.downstreamState, "Idle", "Faulted"}
      /\ r.ctx.downstreamState = "Faulted" =>
            ctx.downstreamState = "Faulted" \/ r.ctx.completionHr = "E_FAIL"
      /\ r.ctx.downstreamState = "Idle" =>
            \/ ctx.downstreamState \in {"Idle", "Cancelling"}
            \/ r.ctx.completionHr = "E_FAIL"
            \/ /\ ctx.downstreamState = "Speaking"
               /\ event.type \in {"complete", "cancelled"}
               /\ ctx.deliveredAudioBytes = event.bytes
               /\ ctx.rawAudioBytesRead = event.bytes
      /\ r.ctx.upstreamState = "Cancelled" =>
            \/ ctx.upstreamState = "Cancelled"
            \/ event.type = "cancelled" /\ event.speakId = ctx.speakId
  BY <1>3, EventEnds
<1> HIDE DEF r
<1>5. Agrees(r.ctx, ctx') /\ carry' = r.carry
  BY <1>2, <1>4, PublishAgrees
<1>6. /\ ctx'.speakId = r.ctx.speakId /\ ctx'.generation = r.ctx.generation
      /\ ctx'.upstreamState = r.ctx.upstreamState
      /\ ctx'.downstreamState = r.ctx.downstreamState
      /\ ctx'.rawAudioBytesRead = r.ctx.rawAudioBytesRead
      /\ ctx'.deliveredAudioBytes = r.ctx.deliveredAudioBytes
      /\ ctx'.completionHr = r.ctx.completionHr
  BY <1>5 DEF Agrees
<1>7. CtxStep
  <2>1. ctx'.downstreamState = "Idle"
          => \/ ctx.downstreamState \in {"Idle", "Cancelling"}
             \/ ctx'.completionHr = "E_FAIL" \/ Reached
    BY <1>2, <1>4, <1>6 DEF Reached, event
  <2>2. ctx'.upstreamState = "Cancelled"
          => \/ ctx.upstreamState = "Cancelled"
             \/ events # <<>> /\ Head(events).type = "cancelled"
                              /\ Head(events).speakId = ctx.speakId
    BY <1>2, <1>4, <1>6 DEF event
  <2> QED
    BY <1>4, <1>6, <2>1, <2>2 DEF CtxStep
<1>8. AbortStep
  BY <1>1, <1>2 DEF AbortStep
<1>9. carry' \in Seq({ctx.speakId}) /\ Len(carry') \in Nat /\ Len(carry') <= Len(carry)
      /\ Len(carry) \in Nat
  BY <1>4, <1>5, CarryOrNone DEF CarryFits
<1>10. Len(carry') + ctx.rawAudioBytesRead <= Len(carry) + ctx'.rawAudioBytesRead
  BY <1>1, <1>4, <1>6, <1>9 DEF Context
<1>11. pc'["audio"] = pc["audio"]
  BY <1>1, <1>2
<1>12. Leaves
  BY <1>2, <1>4, <1>6, <1>9, <1>10, <1>11 DEF Leaves, Delivering, CarryFits
<1> QED
  BY <1>7, <1>8, <1>12 DEF Effects, AudioStep

\* What is read is audio of the request of the context.
LEMMA ReadIsOfRequest ==
    ASSUME TypeInv, SessionFits, NEW data, Reads(data)
    PROVE  /\ data \in Seq({ctx.speakId}) /\ Len(data) \in Nat
           /\ Counted(data) \in Context
           /\ Counted(data).speakId = ctx.speakId
           /\ Counted(data).generation = ctx.generation
           /\ Counted(data).upstreamState = ctx.upstreamState
           /\ Counted(data).downstreamState = ctx.downstreamState
           /\ Counted(data).upstreamFinished = ctx.upstreamFinished
           /\ Counted(data).upstreamTerminalBytes = ctx.upstreamTerminalBytes
           /\ Counted(data).completionHr = ctx.completionHr
           /\ Counted(data).deliveredAudioBytes = ctx.deliveredAudioBytes
           /\ Counted(data).rawAudioBytesRead = ctx.rawAudioBytesRead + Len(data)
<1>1. audio \in Span /\ ctx \in Context
  BY DEF TypeInv, TypeOK
<1>2. data \in Span /\ Counted(data) \in Context /\ Taken(ctx, provider)
  BY ReadsType, ReadFits
<1>3. Len(data) \in Nat /\ \A i \in 1 .. Len(audio) : audio[i] = ctx.speakId
  BY <1>2, LenProperties DEF Span, SessionFits, Fits, AudioFits, Taken
<1>4. PICK n \in 1 .. ReadMax : n <= Len(audio) /\ data = SubSeq(audio, 1, n)
  BY DEF Reads
<1>5. Len(audio) \in Nat /\ n \in Nat /\ audio \in Seq({ctx.speakId})
  <2>1. Len(audio) \in Nat
    BY <1>1, LenProperties DEF Span
  <2>2. \A i \in 1 .. Len(audio) : audio[i] \in {ctx.speakId}
    BY <1>3
  <2> QED
    BY <1>1, <2>1, <2>2, ElementsOf DEF Span
<1>6. n \in 0 .. Len(audio)
  BY <1>4, <1>5
<1>7. data \in Seq({ctx.speakId})
  BY <1>4, <1>5, <1>6, PrefixSuffix
<1> QED
  BY <1>1, <1>2, <1>3, <1>7 DEF Counted, Context

LEMMA DrainEffects ==
    ASSUME TypeInv, SessionFits, CarryFits, DrainsCancellationAudio
    PROVE  Effects
<1>1. PICK data \in Chunks : DrainsCancellationAudio!(data)
  BY DEF DrainsCancellationAudio
<1> DEFINE c == Counted(data)
           r == CheckTerminalBoundary(c, carry)
<1>2. /\ Reads(data) /\ Publish(r) /\ ctx.downstreamState = "Cancelling"
      /\ UNCHANGED <<pc, batch, heard, cancelId, aborted>>
  BY <1>1 DEF localVars, historyVars, ChunkAction
<1>3. ctx \in Context
  BY DEF TypeInv, TypeOK
<1>4. /\ Len(data) \in Nat /\ c \in Context
      /\ c.speakId = ctx.speakId /\ c.generation = ctx.generation
      /\ c.upstreamState = ctx.upstreamState /\ c.downstreamState = ctx.downstreamState
      /\ c.completionHr = ctx.completionHr
      /\ c.deliveredAudioBytes = ctx.deliveredAudioBytes
      /\ c.rawAudioBytesRead = ctx.rawAudioBytesRead + Len(data)
  BY <1>2, ReadIsOfRequest
<1> HIDE DEF c
<1>5. /\ r.ctx \in Context
      /\ r.ctx.speakId = c.speakId /\ r.ctx.generation = c.generation
      /\ r.ctx.rawAudioBytesRead = c.rawAudioBytesRead
      /\ r.ctx.deliveredAudioBytes = c.deliveredAudioBytes
      /\ r.ctx.completionHr = c.completionHr
      /\ r.ctx.upstreamState \in {c.upstreamState, "Idle"}
      /\ r.ctx.downstreamState \in {c.downstreamState, "Idle"}
      /\ r.carry \in {carry, <<>>}
  BY <1>4, BoundaryEnds
<1> HIDE DEF r
<1>6. Agrees(r.ctx, ctx') /\ carry' = r.carry
  BY <1>2, <1>5, PublishAgrees
<1>7. CtxStep
  BY <1>2, <1>4, <1>5, <1>6 DEF Agrees, CtxStep
<1>8. AbortStep
  BY <1>2 DEF AbortStep
<1>9. carry' \in Seq({ctx.speakId}) /\ Len(carry') \in Nat /\ Len(carry') <= Len(carry)
      /\ Len(carry) \in Nat
  BY <1>5, <1>6, CarryOrNone DEF CarryFits
<1>10. /\ ctx'.speakId = ctx.speakId
       /\ ctx'.deliveredAudioBytes = ctx.deliveredAudioBytes
       /\ ctx'.rawAudioBytesRead = ctx.rawAudioBytesRead + Len(data)
  BY <1>4, <1>5, <1>6 DEF Agrees
<1>11. Len(carry') + ctx.rawAudioBytesRead <= Len(carry) + ctx'.rawAudioBytesRead
  BY <1>3, <1>4, <1>9, <1>10 DEF Context
<1>12. Leaves
  BY <1>2, <1>9, <1>10, <1>11 DEF Leaves, Delivering, CarryFits
<1> QED
  BY <1>7, <1>8, <1>12 DEF Effects, AudioStep

LEMMA ThrowEffects ==
    ASSUME TypeInv, SessionFits, CarryFits, AssemblyThrows
    PROVE  Effects
<1>1. PICK data \in Chunks : AssemblyThrows!(data)
  BY DEF AssemblyThrows
<1>2. /\ Reads(data) /\ ctx' = Counted(data) /\ carry' = carry
      /\ pc["audio"] = "read" /\ pc' = [pc EXCEPT !["audio"] = "exit"]
      /\ UNCHANGED <<batch, heard, cancelId, aborted>>
  BY <1>1 DEF localVars, historyVars, Goto, Reads, At
<1>3. ctx \in Context /\ pc \in [Threads -> Place] /\ "audio" \in Threads
  BY DEF TypeInv, TypeOK, Threads, Readers
<1>4. /\ Len(data) \in Nat
      /\ ctx'.speakId = ctx.speakId /\ ctx'.generation = ctx.generation
      /\ ctx'.upstreamState = ctx.upstreamState /\ ctx'.downstreamState = ctx.downstreamState
      /\ ctx'.completionHr = ctx.completionHr
      /\ ctx'.deliveredAudioBytes = ctx.deliveredAudioBytes
      /\ ctx'.rawAudioBytesRead = ctx.rawAudioBytesRead + Len(data)
  BY <1>2, ReadIsOfRequest
<1>5. CtxStep
  BY <1>4 DEF CtxStep
<1>6. AbortStep
  BY <1>2, <1>3 DEF AbortStep
<1>7. Len(carry) \in Nat
  BY LenProperties DEF CarryFits
<1>8. Len(carry') + ctx.rawAudioBytesRead <= Len(carry) + ctx'.rawAudioBytesRead
  BY <1>2, <1>3, <1>4, <1>7 DEF Context
<1>9. pc'["audio"] = "exit"
  BY <1>2, <1>3
<1>10. Leaves
  BY <1>2, <1>4, <1>8, <1>9 DEF Leaves, Delivering, CarryFits
<1> QED
  BY <1>5, <1>6, <1>10 DEF Effects, AudioStep

LEMMA AssembleEffects ==
    ASSUME TypeInv, LifecycleMatrix, SessionFits, CarryFits, AssemblesSpeakingAudio
    PROVE  Effects
<1>1. PICK data \in Chunks : AssemblesSpeakingAudio!(data)
  BY DEF AssemblesSpeakingAudio
<1> DEFINE framed == Process(carry, SubSeq(data, 1, BytesToFrame(ctx, Len(data))))
           c == Counted(data)
           r == CheckTerminalBoundary(c, framed.carry)
<1>2. /\ Reads(data) /\ ctx.downstreamState = "Speaking" /\ pc["audio"] = "read"
      /\ UNCHANGED <<heard, cancelId, aborted>>
      /\ \/ framed.spans = <<>> /\ Publish(r) /\ UNCHANGED <<pc, batch>>
         \/ /\ framed.spans # <<>>
            /\ ctx' = c /\ carry' = framed.carry
            /\ batch' = [NoBatch EXCEPT !.token = Token(ctx), !.spans = framed.spans]
            /\ pc' = [pc EXCEPT !["audio"] = "deliver"]
  BY <1>1 DEF localVars, historyVars, ChunkAction, Reads, At, Goto
<1>3. ctx \in Context /\ pc \in [Threads -> Place] /\ "audio" \in Threads
  BY DEF TypeInv, TypeOK, Threads, Readers
<1>4. /\ data \in Seq({ctx.speakId}) /\ Len(data) \in Nat /\ c \in Context
      /\ c.speakId = ctx.speakId /\ c.generation = ctx.generation
      /\ c.upstreamState = ctx.upstreamState /\ c.downstreamState = ctx.downstreamState
      /\ c.upstreamFinished = ctx.upstreamFinished
      /\ c.upstreamTerminalBytes = ctx.upstreamTerminalBytes
      /\ c.completionHr = ctx.completionHr
      /\ c.deliveredAudioBytes = ctx.deliveredAudioBytes
      /\ c.rawAudioBytesRead = ctx.rawAudioBytesRead + Len(data)
  BY <1>2, ReadIsOfRequest
<1>5. /\ framed.spans \in Seq(Seq({ctx.speakId})) /\ Len(framed.spans) <= 2
      /\ \A i \in 1 .. Len(framed.spans) : framed.spans[i] # <<>>
      /\ framed.carry \in Seq({ctx.speakId})
      /\ Len(Flat(framed.spans)) + Len(framed.carry) <= Len(carry) + Len(data)
  BY <1>4, FramedFits DEF CarryFits
<1> HIDE DEF framed, c
<1>6. /\ Len(carry) \in Nat /\ Len(framed.carry) \in Nat /\ Len(Flat(framed.spans)) \in Nat
      /\ ctx.rawAudioBytesRead \in Nat
  BY <1>3, <1>5, LenProperties, FlatLength DEF CarryFits, Context
<1>7. ctx.upstreamState # "Failed"
  BY <1>2 DEF LifecycleMatrix
<1>8. CASE framed.spans = <<>>
  <2>1. Publish(r) /\ UNCHANGED <<pc, batch>>
    BY <1>2, <1>8
  <2>2. /\ r.ctx \in Context
        /\ r.ctx.speakId = c.speakId /\ r.ctx.generation = c.generation
        /\ r.ctx.rawAudioBytesRead = c.rawAudioBytesRead
        /\ r.ctx.deliveredAudioBytes = c.deliveredAudioBytes
        /\ r.ctx.completionHr = c.completionHr
        /\ r.ctx.upstreamState \in {c.upstreamState, "Idle"}
        /\ r.ctx.downstreamState \in {c.downstreamState, "Idle"}
        /\ r.carry \in {framed.carry, <<>>}
        /\ r.ctx.downstreamState = "Idle" =>
              \/ c.downstreamState \in {"Idle", "Cancelling"}
              \/ c.upstreamState = "Failed"
              \/ /\ c.downstreamState = "Speaking" /\ c.upstreamFinished
                 /\ c.deliveredAudioBytes = c.upstreamTerminalBytes
                 /\ c.rawAudioBytesRead = c.upstreamTerminalBytes
    BY <1>4, BoundaryEnds
  <2> HIDE DEF r
  <2>3. /\ ctx'.speakId = r.ctx.speakId /\ ctx'.generation = r.ctx.generation
        /\ ctx'.upstreamState = r.ctx.upstreamState
        /\ ctx'.downstreamState = r.ctx.downstreamState
        /\ ctx'.rawAudioBytesRead = r.ctx.rawAudioBytesRead
        /\ ctx'.deliveredAudioBytes = r.ctx.deliveredAudioBytes
        /\ ctx'.completionHr = r.ctx.completionHr
        /\ carry' = r.carry
    BY <2>1, <2>2, PublishAgrees DEF Agrees
  <2>4. CtxStep
    <3>1. ctx'.downstreamState = "Idle" => Reached
      BY <1>2, <1>4, <1>7, <2>2, <2>3 DEF Reached
    <3> QED
      BY <1>2, <1>4, <2>2, <2>3, <3>1 DEF CtxStep
  <2>5. AbortStep
    BY <1>2, <2>1 DEF AbortStep
  <2>6. carry' \in Seq({ctx.speakId}) /\ Len(carry') \in Nat /\ Len(carry') <= Len(framed.carry)
    <3>1. <<>> \in Seq({ctx.speakId}) /\ Len(<<>>) = 0
      OBVIOUS
    <3>2. CASE carry' = framed.carry
      BY <1>5, <1>6, <3>2
    <3>3. CASE carry' = <<>>
      BY <1>6, <3>1, <3>3
    <3> QED
      BY <2>2, <2>3, <3>2, <3>3
  <2>7. /\ ctx'.speakId = ctx.speakId
        /\ ctx'.deliveredAudioBytes = ctx.deliveredAudioBytes
        /\ ctx'.rawAudioBytesRead = ctx.rawAudioBytesRead + Len(data)
    BY <1>4, <2>2, <2>3
  <2>8. Len(framed.carry) <= Len(carry) + Len(data)
    <3>1. \A a, b, k, n \in Nat : a + b <= k + n => b <= k + n
      OBVIOUS
    <3> QED
      BY <1>4, <1>5, <1>6, <3>1, Zenon
  <2>9. Len(carry') + ctx.rawAudioBytesRead <= Len(carry) + ctx'.rawAudioBytesRead
    BY <1>4, <1>6, <2>6, <2>7, <2>8
  <2>10. Leaves
    BY <1>2, <2>1, <2>6, <2>7, <2>9 DEF Leaves, Delivering, CarryFits
  <2> QED
    BY <2>4, <2>5, <2>10 DEF Effects, AudioStep
<1>9. CASE framed.spans # <<>>
  <2>1. /\ ctx' = c /\ carry' = framed.carry
        /\ batch' = [NoBatch EXCEPT !.token = Token(ctx), !.spans = framed.spans]
        /\ pc' = [pc EXCEPT !["audio"] = "deliver"]
    BY <1>2, <1>9
  <2>2. CtxStep
    BY <1>4, <2>1 DEF CtxStep
  <2>3. AbortStep
    BY <1>2, <1>3, <2>1 DEF AbortStep
  <2>4. batch'.token = Token(ctx) /\ batch'.credited = 0 /\ batch'.spans = framed.spans
    BY <2>1 DEF NoBatch
  <2>5. SpansOf(batch'.spans, ctx.speakId) /\ batch'.spans # <<>>
    BY <1>5, <1>9, <2>4 DEF SpansOf
  <2>6. pc'["audio"] = "deliver"
    BY <1>3, <2>1
  <2>7. ctx'.rawAudioBytesRead = ctx.rawAudioBytesRead + Len(data)
    BY <1>4, <2>1
  <2>8. Len(Flat(batch'.spans)) + Len(carry') + ctx.rawAudioBytesRead
            <= Len(carry) + ctx'.rawAudioBytesRead
    <3>1. /\ Len(Flat(batch'.spans)) = Len(Flat(framed.spans))
          /\ Len(carry') = Len(framed.carry)
      BY <2>1, <2>4
    <3>2. \A a, b, k, n, raw \in Nat : a + b <= k + n => a + b + raw <= k + (raw + n)
      OBVIOUS
    <3>3. Len(Flat(framed.spans)) + Len(framed.carry) + ctx.rawAudioBytesRead
            <= Len(carry) + (ctx.rawAudioBytesRead + Len(data))
      BY <1>4, <1>5, <1>6, <3>2, Zenon
    <3> QED
      BY <2>7, <3>1, <3>3, Zenon
  <2>9. ctx'.speakId = ctx.speakId /\ ctx'.deliveredAudioBytes = ctx.deliveredAudioBytes
        /\ carry' \in Seq({ctx'.speakId})
    BY <1>4, <1>5, <2>1
  <2>10. Assembles
    BY <1>2, <2>4, <2>5, <2>6, <2>8, <2>9 DEF Assembles, Delivering, CarryFits
  <2> QED
    BY <2>2, <2>3, <2>10 DEF Effects, AudioStep
<1> QED
  BY <1>8, <1>9

LEMMA SpanEffects ==
    ASSUME TypeInv, CarryFits,
           AdmitsSpan \/ CapturesSite \/ SiteAcceptsSpan \/ SiteRejectsSpan
    PROVE  Effects
<1> USE DEF localVars, historyVars, requestVars
<1>1. /\ ctx \in Context /\ pc \in [Threads -> Place] /\ "audio" \in Threads
      /\ batch \in Batch /\ Len(carry) \in Nat
  BY LenProperties DEF TypeInv, TypeOK, Threads, Readers, CarryFits
<1>2. UNCHANGED <<ctx, carry, cancelId, aborted>>
  BY DEF AdmitsSpan, CapturesSite, SiteAcceptsSpan, SiteRejectsSpan
<1>3. PICK place \in {"write", "update", "writing", "deliver"} : Goto("audio", place)
  BY DEF AdmitsSpan, CapturesSite, SiteAcceptsSpan, SiteRejectsSpan
<1>4. CtxStep
  BY <1>2 DEF CtxStep
<1>5. AbortStep
  BY <1>1, <1>2, <1>3 DEF AbortStep, Goto
<1>6. CASE AdmitsSpan \/ CapturesSite \/ SiteRejectsSpan
  <2>1. /\ heard' = heard
        /\ pc["audio"] \in {"deliver", "write", "writing"}
    BY <1>6 DEF AdmitsSpan, CapturesSite, SiteRejectsSpan, At
  <2>2. pc'["audio"] = place
    BY <1>1, <1>3 DEF Goto
  <2>3. /\ batch'.token = batch.token /\ batch'.spans = batch.spans
        /\ batch'.credited = batch.credited
    BY <1>1, <1>6 DEF AdmitsSpan, CapturesSite, SiteRejectsSpan, Batch
  <2>4. pc'["audio"] = "writing" => site # 0 /\ batch'.target = site
    BY <1>1, <1>6 DEF AdmitsSpan, CapturesSite, SiteRejectsSpan, Batch, Goto
  <2>5. CarryFits' /\ Len(carry') + ctx.rawAudioBytesRead <= Len(carry) + ctx'.rawAudioBytesRead
    BY <1>1, <1>2 DEF CarryFits, Context
  <2>6. Leaves
    BY <1>2, <2>1, <2>2, <2>3, <2>4, <2>5 DEF Leaves, Delivering
  <2> QED
    BY <1>4, <1>5, <2>6 DEF Effects, AudioStep
<1>7. CASE SiteAcceptsSpan
  BY <1>4, <1>5, <1>7 DEF Effects, AudioStep
<1> QED
  BY <1>6, <1>7

LEMMA UpdateEffects ==
    ASSUME TypeInv, LifecycleMatrix, UpdatesAfterDelivery
    PROVE  Effects
<1> DEFINE action == BatchAction(ctx, batch.token, ~batch.accepted)
           credited == [ctx EXCEPT !.deliveredAudioBytes = @ + batch.credited]
           c == IF action = "CreditAndCheckBoundary" THEN credited ELSE ctx
           r == CheckTerminalBoundary(c, carry)
<1>1. /\ ctx \in Context /\ pc \in [Threads -> Place] /\ "audio" \in Threads
      /\ batch.credited \in Nat /\ batch.accepted \in BOOLEAN
      /\ cancelId \in [Threads -> 0 .. MaxSpeaks]
  BY DEF TypeInv, TypeOK, Threads, Readers, Batch
<1>2. /\ pc["audio"] = "update" /\ heard' = heard
      /\ \/ /\ action = "IgnoreStaleOrInactive"
            /\ pc' = [pc EXCEPT !["audio"] = "read"]
            /\ UNCHANGED <<ctx, carry, cancelId, aborted>>
         \/ /\ action \in {"CreditAndCheckBoundary", "CheckCancellationBoundary"}
            /\ Publish(r)
            /\ pc' = [pc EXCEPT !["audio"] = "read"]
            /\ UNCHANGED <<cancelId, aborted>>
         \/ /\ action = "CreditAndBeginCancellation"
            /\ ctx' = TransitionToCancelling(credited)
            /\ carry' = <<>>
            /\ cancelId' = [cancelId EXCEPT !["audio"] = ctx.speakId]
            /\ aborted' = aborted \cup {ctx.speakId}
            /\ pc' = [pc EXCEPT !["audio"] = "sendCancel"]
  BY DEF UpdatesAfterDelivery, At, Goto, requestVars
<1>3. /\ credited \in Context
      /\ credited.speakId = ctx.speakId /\ credited.generation = ctx.generation
      /\ credited.upstreamState = ctx.upstreamState
      /\ credited.downstreamState = ctx.downstreamState
      /\ credited.upstreamFinished = ctx.upstreamFinished
      /\ credited.upstreamTerminalBytes = ctx.upstreamTerminalBytes
      /\ credited.completionHr = ctx.completionHr
      /\ credited.rawAudioBytesRead = ctx.rawAudioBytesRead
      /\ credited.deliveredAudioBytes = ctx.deliveredAudioBytes + batch.credited
  BY <1>1 DEF Context
<1>4. /\ action = "IgnoreStaleOrInactive" /\ ctx.downstreamState = "Speaking"
            => Token(ctx) # batch.token
      /\ action # "IgnoreStaleOrInactive" => Token(ctx) = batch.token
      /\ action = "CheckCancellationBoundary" => ctx.downstreamState = "Cancelling"
      /\ action \in {"CreditAndCheckBoundary", "CreditAndBeginCancellation"}
            => ctx.downstreamState = "Speaking"
  BY <1>1 DEF BatchAction, IsDrainingCancellation, Context, DownstreamState
<1>5. Delivering
  BY <1>2 DEF Delivering
<1>6. pc'["audio"] \in {"read", "sendCancel"}
  BY <1>1, <1>2
<1>7. ~Delivering'
  BY <1>6 DEF Delivering
<1>8. ctx.deliveredAudioBytes \in Nat /\ ctx.upstreamState \in UpstreamState
  BY <1>1 DEF Context
<1> HIDE DEF action, credited
<1>9. CASE action = "IgnoreStaleOrInactive"
  <2>1. pc' = [pc EXCEPT !["audio"] = "read"] /\ UNCHANGED <<ctx, carry, cancelId, aborted>>
    BY <1>2, <1>9
  <2>2. CtxStep
    BY <2>1 DEF CtxStep
  <2>3. AbortStep
    BY <1>1, <2>1 DEF AbortStep
  <2>4. ctx.downstreamState = "Speaking" => Credit = 0
    BY <1>4, <1>9 DEF Credit, Current
  <2>5. Settles
    BY <1>2, <1>7, <1>8, <2>1, <2>4 DEF Settles
  <2> QED
    BY <2>2, <2>3, <2>5 DEF Effects, AudioStep
<1>10. CASE action \in {"CreditAndCheckBoundary", "CheckCancellationBoundary"}
  <2>1. /\ Publish(r) /\ pc' = [pc EXCEPT !["audio"] = "read"]
        /\ UNCHANGED <<cancelId, aborted>>
    BY <1>2, <1>10
  <2>2. /\ c \in Context
        /\ c.speakId = ctx.speakId /\ c.generation = ctx.generation
        /\ c.upstreamState = ctx.upstreamState /\ c.downstreamState = ctx.downstreamState
        /\ c.upstreamFinished = ctx.upstreamFinished
        /\ c.upstreamTerminalBytes = ctx.upstreamTerminalBytes
        /\ c.completionHr = ctx.completionHr
        /\ c.rawAudioBytesRead = ctx.rawAudioBytesRead
    BY <1>1, <1>3
  <2>3. ctx.downstreamState = "Speaking"
            => c.deliveredAudioBytes = ctx.deliveredAudioBytes + Credit
    BY <1>3, <1>4, <1>5, <1>10 DEF Credit, Current
  <2> HIDE DEF c
  <2>4. /\ r.ctx \in Context
        /\ r.ctx.speakId = c.speakId /\ r.ctx.generation = c.generation
        /\ r.ctx.rawAudioBytesRead = c.rawAudioBytesRead
        /\ r.ctx.deliveredAudioBytes = c.deliveredAudioBytes
        /\ r.ctx.completionHr = c.completionHr
        /\ r.ctx.upstreamState \in {c.upstreamState, "Idle"}
        /\ r.ctx.downstreamState \in {c.downstreamState, "Idle"}
        /\ r.carry \in {carry, <<>>}
        /\ r.ctx.downstreamState = "Idle" =>
              \/ c.downstreamState \in {"Idle", "Cancelling"}
              \/ c.upstreamState = "Failed"
              \/ /\ c.downstreamState = "Speaking" /\ c.upstreamFinished
                 /\ c.deliveredAudioBytes = c.upstreamTerminalBytes
                 /\ c.rawAudioBytesRead = c.upstreamTerminalBytes
    BY <2>2, BoundaryEnds
  <2> HIDE DEF r
  <2>5. /\ ctx'.speakId = r.ctx.speakId /\ ctx'.generation = r.ctx.generation
        /\ ctx'.upstreamState = r.ctx.upstreamState
        /\ ctx'.downstreamState = r.ctx.downstreamState
        /\ ctx'.rawAudioBytesRead = r.ctx.rawAudioBytesRead
        /\ ctx'.deliveredAudioBytes = r.ctx.deliveredAudioBytes
        /\ ctx'.completionHr = r.ctx.completionHr
        /\ carry' = r.carry
    BY <2>1, <2>4, PublishAgrees DEF Agrees
  <2>6. ctx'.downstreamState = "Idle" => ctx.downstreamState = "Cancelling" \/ Reached
    <3>1. ctx.upstreamState # "Failed" /\ ctx.downstreamState \in {"Speaking", "Cancelling"}
      BY <1>4, <1>10 DEF LifecycleMatrix
    <3> QED
      BY <2>2, <2>4, <2>5, <3>1 DEF Reached
  <2>7. CtxStep
    BY <2>2, <2>4, <2>5, <2>6 DEF CtxStep
  <2>8. AbortStep
    BY <1>1, <2>1 DEF AbortStep
  <2>9. Settles
    BY <1>2, <1>7, <2>2, <2>3, <2>4, <2>5 DEF Settles
  <2> QED
    BY <2>7, <2>8, <2>9 DEF Effects, AudioStep
<1>11. CASE action = "CreditAndBeginCancellation"
  <2>1. /\ ctx' = TransitionToCancelling(credited) /\ carry' = <<>>
        /\ cancelId' = [cancelId EXCEPT !["audio"] = ctx.speakId]
        /\ aborted' = aborted \cup {ctx.speakId}
        /\ pc' = [pc EXCEPT !["audio"] = "sendCancel"]
    BY <1>2, <1>11
  <2>2. /\ ctx'.speakId = credited.speakId /\ ctx'.generation = credited.generation
        /\ ctx'.rawAudioBytesRead = credited.rawAudioBytesRead
        /\ ctx'.deliveredAudioBytes = credited.deliveredAudioBytes
        /\ ctx'.completionHr = credited.completionHr
        /\ ctx'.downstreamState = "Cancelling"
        /\ ctx'.upstreamState = credited.upstreamState
    BY <1>3, <2>1 DEF TransitionToCancelling, Context
  <2>3. CtxStep
    BY <1>3, <2>1, <2>2 DEF CtxStep
  <2>4. AbortStep
    BY <1>1, <2>1 DEF AbortStep
  <2>5. Credit = batch.credited
    BY <1>4, <1>5, <1>11 DEF Credit, Current
  <2>6. Settles
    BY <1>2, <1>3, <1>7, <2>1, <2>2, <2>5 DEF Settles
  <2> QED
    BY <2>3, <2>4, <2>6 DEF Effects, AudioStep
<1> QED
  BY <1>2, <1>9, <1>10, <1>11

\* Every step but a start and the creation of a session.
LEMMA EveryEffect ==
    ASSUME TypeInv, LifecycleMatrix, SessionFits, CarryFits, [Next]_vars,
           ~DirectCaller, ~Starts, ~Creates
    PROVE  Effects
BY StepClasses, QuietEffects, MarksEffects, AbortEffects, EventEffects, DrainEffects,
   ThrowEffects, AssembleEffects, SpanEffects, UpdateEffects DEF AudioClasses
-----------------------------------------------------------------------------
(* The balance is kept.                                                    *)

\* A span of the request's own bytes is accepted.
LEMMA AcceptedSpan ==
    ASSUME TypeInv, BatchFits, SiteAcceptsSpan
    PROVE  LET span == Head(batch.spans)
               r    == batch.token.speakId
           IN /\ span \in Seq({r}) /\ Len(span) \in Nat
              /\ SpansOf(Tail(batch.spans), r)
              /\ Len(Flat(batch.spans)) = Len(span) + Len(Flat(Tail(batch.spans)))
              /\ Len(Flat(Tail(batch.spans))) \in Nat
              /\ \A id : BytesOf(span, id) = IF id = r THEN Len(span) ELSE 0
              /\ Delivering /\ Delivering' /\ pc["audio"] = "writing"
              /\ pc'["audio"] # "writing"
              /\ batch'.token = batch.token
              /\ batch'.spans = Tail(batch.spans)
              /\ batch'.credited = batch.credited + Len(span)
              /\ ctx' = ctx /\ carry' = carry
              /\ heard' = [heard EXCEPT ![batch.target] = @ + BytesOf(span, batch.target)]
<1> DEFINE r == batch.token.speakId
<1>1. /\ pc \in [Threads -> Place] /\ "audio" \in Threads /\ batch \in Batch
      /\ pc["audio"] = "writing" /\ batch.spans # <<>>
  BY DEF TypeInv, TypeOK, Threads, Readers, SiteAcceptsSpan, At, PendingSpans
<1>2. /\ Delivering /\ SpansOf(batch.spans, r)
  BY <1>1 DEF Delivering, BatchFits
<1>3. /\ batch.spans \in Seq(Seq({r})) /\ Len(batch.spans) <= 2
      /\ \A i \in 1 .. Len(batch.spans) : batch.spans[i] # <<>>
  BY <1>2 DEF SpansOf
<1>4. /\ Head(batch.spans) \in Seq({r}) /\ Tail(batch.spans) \in Seq(Seq({r}))
      /\ Len(Tail(batch.spans)) <= 2
      /\ Len(Flat(batch.spans)) = Len(Head(batch.spans)) + Len(Flat(Tail(batch.spans)))
      /\ \A i \in 1 .. Len(Tail(batch.spans)) : Tail(batch.spans)[i] = batch.spans[i + 1]
  BY <1>1, <1>3, FlatLength
<1>5. Len(Flat(Tail(batch.spans))) \in Nat /\ Len(Head(batch.spans)) \in Nat
  BY <1>4, FlatLength, LenProperties
<1>6. \A i \in 1 .. Len(Tail(batch.spans)) : Tail(batch.spans)[i] # <<>>
  <2>1. Len(batch.spans) \in Nat /\ Len(Tail(batch.spans)) = Len(batch.spans) - 1
    BY <1>1, <1>3, HeadTailProperties, LenProperties
  <2>2. \A i \in 1 .. Len(Tail(batch.spans)) : i + 1 \in 1 .. Len(batch.spans)
    BY <2>1
  <2> QED
    BY <1>3, <1>4, <2>2
<1>7. SpansOf(Tail(batch.spans), r)
  BY <1>4, <1>6 DEF SpansOf
<1>8. \A id : BytesOf(Head(batch.spans), id) = IF id = r THEN Len(Head(batch.spans)) ELSE 0
  BY <1>4, BytesOfOne
<1>9. PICK place \in {"update", "deliver"} : pc' = [pc EXCEPT !["audio"] = place]
  BY DEF SiteAcceptsSpan, Goto
<1>10. pc'["audio"] = place
  BY <1>1, <1>9
<1>11. /\ batch'.token = batch.token
       /\ batch'.spans = Tail(batch.spans)
       /\ batch'.credited = batch.credited + Len(Head(batch.spans))
  BY <1>1 DEF SiteAcceptsSpan, Batch
<1>12. /\ ctx' = ctx /\ carry' = carry
       /\ heard' = [heard EXCEPT ![batch.target]
                                    = @ + BytesOf(Head(batch.spans), batch.target)]
  BY DEF SiteAcceptsSpan, requestVars
<1> HIDE DEF r
<1> QED
  BY <1>1, <1>2, <1>4, <1>5, <1>7, <1>8, <1>10, <1>11, <1>12 DEF Delivering, r

\* A span that is not empty adds to the bytes.
LEMMA SpansHoldBytes ==
    ASSUME NEW r, NEW spans, SpansOf(spans, r), spans # <<>>
    PROVE  Len(Flat(spans)) \in Nat /\ Len(Flat(spans)) >= 1
<1>1. /\ spans \in Seq(Seq({r})) /\ Len(spans) <= 2
      /\ \A i \in 1 .. Len(spans) : spans[i] # <<>>
  BY DEF SpansOf
<1>2. /\ Head(spans) \in Seq({r}) /\ Tail(spans) \in Seq(Seq({r})) /\ Len(Tail(spans)) <= 2
      /\ Len(Flat(spans)) = Len(Head(spans)) + Len(Flat(Tail(spans)))
      /\ Len(Flat(spans)) \in Nat
  BY <1>1, FlatLength
<1>3. Len(Flat(Tail(spans))) \in Nat
  BY <1>2, FlatLength
<1>4. Head(spans) # <<>>
  <2>1. Len(spans) \in Nat \ {0} /\ Head(spans) = spans[1]
    BY <1>1, EmptySeq
  <2> QED
    BY <1>1, <2>1
<1>5. Len(Head(spans)) \in Nat \ {0}
  BY <1>2, <1>4, EmptySeq
<1>6. \A m \in Nat \ {0}, n \in Nat : m + n >= 1
  OBVIOUS
<1> QED
  BY <1>2, <1>3, <1>5, <1>6, Zenon

\* The batch keeps to its request and its site.
LEMMA BatchFitsKept ==
    ASSUME TypeInv, TypeInv', OwnerInv, SiteInv, BatchFits, CtxStep, AudioStep,
           InUse(ctx') => InUse(ctx)
    PROVE  BatchFits'
<1>1. /\ ctx'.speakId = ctx.speakId /\ ctx'.generation = ctx.generation
      /\ Token(ctx') = Token(ctx)
  BY DEF CtxStep, Token
<1>2. CASE Leaves
  <2>1. SUFFICES ASSUME Delivering'
                 PROVE  /\ SpansOf(batch'.spans, batch'.token.speakId)
                        /\ batch'.credited + Len(Flat(batch'.spans)) >= 1
                        /\ pc'["audio"] = "writing" /\ Current' /\ InUse(ctx')
                              => batch'.target = ctx'.speakId
    BY DEF BatchFits
  <2>2. /\ Delivering
        /\ batch'.token = batch.token
        /\ batch'.spans = batch.spans /\ batch'.credited = batch.credited
        /\ pc'["audio"] = "writing" =>
              \/ pc["audio"] = "writing" /\ batch'.target = batch.target
              \/ site # 0 /\ batch'.target = site
    BY <1>2, <2>1 DEF Leaves
  <2>3. /\ SpansOf(batch.spans, batch.token.speakId)
        /\ batch.credited + Len(Flat(batch.spans)) >= 1
        /\ pc["audio"] = "writing" /\ Current /\ InUse(ctx) => batch.target = ctx.speakId
    BY <2>2 DEF BatchFits
  <2>4. ASSUME pc'["audio"] = "writing", Current', InUse(ctx')
        PROVE  batch'.target = ctx'.speakId
    <3>1. Current /\ InUse(ctx)
      BY <1>1, <2>2, <2>4 DEF Current
    <3>2. ctx.speakId = speakCounter
      BY <3>1 DEF OwnerInv
    <3> QED
      BY <1>1, <2>2, <2>3, <2>4, <3>1, <3>2 DEF SiteInv
  <2> QED
    BY <2>2, <2>3, <2>4
<1>3. CASE Assembles
  <2>1. /\ batch'.token = Token(ctx) /\ batch'.credited = 0 /\ pc'["audio"] # "writing"
        /\ SpansOf(batch'.spans, ctx.speakId) /\ batch'.spans # <<>>
    BY <1>3 DEF Assembles
  <2>2. batch'.token.speakId = ctx.speakId
    BY <2>1 DEF Token
  <2>3. batch'.credited + Len(Flat(batch'.spans)) >= 1
    BY <2>1, SpansHoldBytes
  <2> QED
    BY <2>1, <2>2, <2>3 DEF BatchFits
<1>4. CASE SiteAcceptsSpan
  <2> DEFINE span == Head(batch.spans)
  <2>1. /\ Len(span) \in Nat
        /\ SpansOf(Tail(batch.spans), batch.token.speakId)
        /\ Len(Flat(batch.spans)) = Len(span) + Len(Flat(Tail(batch.spans)))
        /\ Len(Flat(Tail(batch.spans))) \in Nat
        /\ Delivering /\ pc'["audio"] # "writing"
        /\ batch'.token = batch.token
        /\ batch'.spans = Tail(batch.spans)
        /\ batch'.credited = batch.credited + Len(span)
    BY <1>4, AcceptedSpan
  <2> HIDE DEF span
  <2>2. batch.credited + Len(Flat(batch.spans)) >= 1 /\ batch.credited \in Nat
    BY <2>1 DEF BatchFits, TypeInv, TypeOK, Batch
  <2>3. batch'.credited + Len(Flat(batch'.spans)) >= 1
    <3>1. \A a, b, n \in Nat : a + (b + n) >= 1 => (a + b) + n >= 1
      OBVIOUS
    <3> QED
      BY <2>1, <2>2, <3>1, Zenon
  <2> QED
    BY <2>1, <2>3 DEF BatchFits
<1>5. CASE Settles
  BY <1>5 DEF Settles, BatchFits
<1> QED
  BY <1>2, <1>3, <1>4, <1>5 DEF AudioStep

\* The partial frame keeps to its request.
LEMMA CarryFitsKept ==
    ASSUME CarryFits, CtxStep, AudioStep
    PROVE  CarryFits'
<1>1. ctx'.speakId = ctx.speakId
  BY DEF CtxStep
<1>2. CASE Leaves \/ Assembles
  BY <1>2 DEF Leaves, Assembles
<1>3. CASE SiteAcceptsSpan \/ Settles
  <2>1. carry' \in {carry, <<>>}
    BY <1>3 DEF SiteAcceptsSpan, Settles, requestVars
  <2> QED
    BY <1>1, <2>1, CarryOrNone DEF CarryFits
<1> QED
  BY <1>2, <1>3 DEF AudioStep

\* The balance of a request that speaks, or spoke until this step.
LEMMA BalanceKept ==
    ASSUME TypeInv, TypeInv', OwnerInv, CancelInv, DeliveryInv, BatchFits, CarryFits, CtxStep, AudioStep,
           ctx.downstreamState = "Speaking", Balanced
    PROVE  Balanced'
<1>1. /\ ctx'.speakId = ctx.speakId /\ ctx'.generation = ctx.generation
      /\ Token(ctx') = Token(ctx)
  BY DEF CtxStep, Token
<1>2. /\ ctx \in Context /\ ctx' \in Context /\ batch \in Batch /\ batch' \in Batch
      /\ heard \in [Ids -> Nat] /\ ctx.speakId \in Ids
  BY DEF TypeInv, TypeOK, CancelInv
<1>3. /\ ctx.deliveredAudioBytes \in Nat /\ ctx.rawAudioBytesRead \in Nat
      /\ ctx'.deliveredAudioBytes \in Nat /\ ctx'.rawAudioBytesRead \in Nat
      /\ batch.credited \in Nat /\ batch'.credited \in Nat /\ heard[ctx.speakId] \in Nat
      /\ Len(carry) \in Nat
  BY <1>2, LenProperties DEF Context, Batch, CarryFits
<1>4. Len(carry') \in Nat
  <2>1. CarryFits'
    BY CarryFitsKept
  <2> QED
    BY <2>1, LenProperties DEF CarryFits
<1>5. /\ heard[ctx.speakId] = ctx.deliveredAudioBytes + Credit
      /\ ctx.deliveredAudioBytes + OnItsWay + Len(carry) <= ctx.rawAudioBytesRead
  BY DEF Balanced
<1>6. Delivering => Len(Flat(batch.spans)) \in Nat
  BY FlatLength DEF BatchFits, SpansOf
<1>7. Credit \in Nat /\ OnItsWay \in Nat
  BY <1>3, <1>6 DEF Credit, OnItsWay, Current
<1>8. SUFFICES /\ heard'[ctx.speakId] = ctx'.deliveredAudioBytes + Credit'
               /\ ctx'.deliveredAudioBytes + OnItsWay' + Len(carry') <= ctx'.rawAudioBytesRead
  BY <1>1 DEF Balanced
<1>9. CASE Leaves
  <2>1. Current' <=> Current
    BY <1>1, <1>9 DEF Leaves, Current
  <2>2. Credit' = Credit /\ OnItsWay' = OnItsWay
    BY <1>9, <2>1 DEF Leaves, Credit, OnItsWay, Current
  <2>3. /\ heard' = heard /\ ctx'.deliveredAudioBytes = ctx.deliveredAudioBytes
        /\ Len(carry') + ctx.rawAudioBytesRead <= Len(carry) + ctx'.rawAudioBytesRead
    BY <1>9 DEF Leaves
  <2>4. \A d, o, k, l, raw, raw2 \in Nat :
            d + o + k <= raw /\ l + raw <= k + raw2 => d + o + l <= raw2
    OBVIOUS
  <2>5. ctx.deliveredAudioBytes + OnItsWay + Len(carry') <= ctx'.rawAudioBytesRead
    BY <1>3, <1>4, <1>5, <1>7, <2>3, <2>4, Zenon
  <2> QED
    BY <1>5, <2>2, <2>3, <2>5
<1>10. CASE Assembles
  <2>1. ~Delivering /\ Delivering' /\ heard' = heard /\ batch'.credited = 0
        /\ batch'.token = Token(ctx) /\ ctx'.deliveredAudioBytes = ctx.deliveredAudioBytes
        /\ Len(Flat(batch'.spans)) + Len(carry') + ctx.rawAudioBytesRead
              <= Len(carry) + ctx'.rawAudioBytesRead
        /\ SpansOf(batch'.spans, ctx.speakId)
    BY <1>10 DEF Assembles
  <2>2. Credit = 0 /\ OnItsWay = 0
    BY <2>1 DEF Credit, OnItsWay, Current
  <2>3. Len(Flat(batch'.spans)) \in Nat
    BY <2>1, FlatLength DEF SpansOf
  <2>4. Credit' = 0 /\ OnItsWay' = Len(Flat(batch'.spans))
    BY <1>1, <2>1, <2>3 DEF Credit, OnItsWay, Current
  <2>5. \A d, f, k, l, raw, raw2 \in Nat :
            d + 0 + k <= raw /\ f + l + raw <= k + raw2 => d + f + l <= raw2
    OBVIOUS
  <2>6. ctx.deliveredAudioBytes + Len(Flat(batch'.spans)) + Len(carry')
            <= ctx'.rawAudioBytesRead
    <3>1. ctx.deliveredAudioBytes + 0 + Len(carry) <= ctx.rawAudioBytesRead
      BY <1>5, <2>2
    <3> QED
      BY <1>3, <1>4, <2>1, <2>3, <2>5, <3>1, Zenon
  <2> QED
    BY <1>5, <2>1, <2>2, <2>4, <2>6
<1>11. CASE SiteAcceptsSpan
  <2> DEFINE span == Head(batch.spans)
  <2>1. /\ Len(span) \in Nat
        /\ Len(Flat(batch.spans)) = Len(span) + Len(Flat(Tail(batch.spans)))
        /\ Len(Flat(Tail(batch.spans))) \in Nat
        /\ \A id : BytesOf(span, id) = IF id = batch.token.speakId THEN Len(span) ELSE 0
        /\ Delivering /\ Delivering' /\ pc["audio"] = "writing"
        /\ batch'.token = batch.token
        /\ batch'.spans = Tail(batch.spans)
        /\ batch'.credited = batch.credited + Len(span)
        /\ ctx' = ctx /\ carry' = carry
        /\ heard' = [heard EXCEPT ![batch.target] = @ + BytesOf(span, batch.target)]
    BY <1>11, AcceptedSpan
  <2> HIDE DEF span
  <2>2. CASE Current
    <3>1. ctx.speakId = batch.token.speakId
      BY <2>2 DEF Current, Token
    <3>2. batch.target = ctx.speakId
      BY <2>1, <2>2 DEF BatchFits, InUse
    <3>3. heard'[ctx.speakId] = heard[ctx.speakId] + Len(span)
      BY <1>2, <2>1, <3>1, <3>2
    <3>4. Current'
      BY <2>1, <2>2 DEF Current
    <3>5. /\ Credit = batch.credited /\ Credit' = batch.credited + Len(span)
          /\ OnItsWay = batch.credited + Len(Flat(batch.spans))
          /\ OnItsWay' = (batch.credited + Len(span)) + Len(Flat(Tail(batch.spans)))
      BY <2>1, <2>2, <3>4 DEF Credit, OnItsWay
    <3>6. \A a, b, n \in Nat : a + (b + n) = (a + b) + n
      OBVIOUS
    <3>7. /\ batch.credited \in Nat /\ ctx.deliveredAudioBytes \in Nat /\ Len(span) \in Nat
          /\ Len(Flat(Tail(batch.spans))) \in Nat
      BY <1>3, <2>1
    <3>8. OnItsWay' = OnItsWay
      <4>1. batch.credited + (Len(span) + Len(Flat(Tail(batch.spans))))
                = (batch.credited + Len(span)) + Len(Flat(Tail(batch.spans)))
        BY <3>6, <3>7, Zenon
      <4> QED
        BY <2>1, <3>5, <4>1
    <3>9. heard'[ctx.speakId] = ctx.deliveredAudioBytes + Credit'
      <4>1. ctx.deliveredAudioBytes + (batch.credited + Len(span))
                = (ctx.deliveredAudioBytes + batch.credited) + Len(span)
        BY <3>6, <3>7, Zenon
      <4>2. heard[ctx.speakId] = ctx.deliveredAudioBytes + batch.credited
        BY <1>5, <3>5
      <4> QED
        BY <3>3, <3>5, <4>1, <4>2
    <3> QED
      BY <1>5, <2>1, <3>8, <3>9
  <2>3. CASE ~Current
    <3>1. ctx.speakId # batch.token.speakId
      <4>1. SUFFICES ASSUME ctx.speakId = batch.token.speakId PROVE FALSE
        OBVIOUS
      <4>2. ctx.generation = batch.token.generation
        BY <2>1, <4>1 DEF DeliveryInv
      <4>3. Token(ctx) = batch.token
        BY <1>2, <4>1, <4>2 DEF Token, Batch
      <4> QED
        BY <2>1, <2>3, <4>3 DEF Current
    <3>2. heard'[ctx.speakId] = heard[ctx.speakId]
      <4>1. CASE batch.target = ctx.speakId
        <5>1. BytesOf(span, batch.target) = 0
          BY <2>1, <3>1, <4>1
        <5>2. heard'[ctx.speakId] = heard[ctx.speakId] + BytesOf(span, batch.target)
          BY <1>2, <2>1, <4>1
        <5> QED
          BY <1>3, <5>1, <5>2
      <4>2. CASE batch.target # ctx.speakId
        BY <1>2, <2>1, <4>2
      <4> QED
        BY <4>1, <4>2
    <3>3. ~Current'
      BY <2>1, <2>3 DEF Current
    <3>4. Credit' = Credit /\ OnItsWay' = OnItsWay
      BY <2>3, <3>3 DEF Credit, OnItsWay
    <3> QED
      BY <1>5, <2>1, <3>2, <3>4
  <2> QED
    BY <2>2, <2>3
<1>12. CASE Settles
  <2>1. /\ heard' = heard /\ ~Delivering' /\ carry' \in {carry, <<>>}
        /\ ctx'.rawAudioBytesRead = ctx.rawAudioBytesRead
        /\ ctx'.deliveredAudioBytes = ctx.deliveredAudioBytes + Credit
    BY <1>12 DEF Settles
  <2>2. Credit' = 0 /\ OnItsWay' = 0
    BY <2>1 DEF Credit, OnItsWay, Current
  <2>3. Len(carry') <= Len(carry)
    BY <2>1, CarryOrNone DEF CarryFits
  <2>4. Credit <= OnItsWay
    <3>1. \A m, n \in Nat : m <= m + n
      OBVIOUS
    <3>2. CASE Current
      <4>1. Delivering /\ Credit = batch.credited
            /\ OnItsWay = batch.credited + Len(Flat(batch.spans))
        BY <3>2 DEF Current, Credit, OnItsWay
      <4> QED
        BY <1>3, <1>6, <3>1, <4>1, Zenon
    <3>3. CASE ~Current
      BY <3>3 DEF Credit, OnItsWay
    <3> QED
      BY <3>2, <3>3
  <2>5. \A d, e, o, k, l, raw \in Nat :
            d + o + k <= raw /\ e <= o /\ l <= k => (d + e) + 0 + l <= raw
    OBVIOUS
  <2>6. (ctx.deliveredAudioBytes + Credit) + 0 + Len(carry') <= ctx.rawAudioBytesRead
    BY <1>3, <1>4, <1>5, <1>7, <2>3, <2>4, <2>5, Zenon
  <2> QED
    BY <1>3, <1>5, <1>7, <2>1, <2>2, <2>6
<1> QED
  BY <1>9, <1>10, <1>11, <1>12 DEF AudioStep
-----------------------------------------------------------------------------
(* What the steps leave of the rest.                                       *)

\* What Speak returned is a result of its own choice, or that of its request.
Answers ==
    \/ outcome' = outcome
    \/ WaitEnds \/ DrainEnds
    \/ \E result \in {"E_FAIL", "TIMEOUT"} :
          outcome' = [outcome EXCEPT ![speakCounter] = result]

\* Nobody but the provider makes promises, and a session begins without any.
ProviderLeft ==
    /\ promised' = promised
    /\ \/ provider' = provider
       \/ provider' = [provider EXCEPT !.busy = FALSE]
       \/ provider'.speakId = 0 /\ Creates

\* A cancel in the pipe was put there by a thread that had begun one.
CommandsLeft ==
    \/ commands' = commands \/ commands' = <<>>
    \/ commands # <<>> /\ commands' = Tail(commands)
    \/ \E e : /\ commands' = Append(commands, e)
              /\ e.kind = "cancel" => \E t \in Threads : /\ pc[t] = "sendCancel"
                                                         /\ e.speakId = cancelId[t]

LEMMA AnswersAndSites ==
    ASSUME [Next]_vars, ~DirectCaller
    PROVE  /\ Answers
           /\ (site' = site /\ speakCounter' = speakCounter) \/ SpeakBegins \/ SpeakReturns
<1> USE DEF localVars, historyVars, engineVars
<1>1. \A t \in Threads : EnterFaultedState(t) => UNCHANGED <<site, outcome>>
  BY DEF EnterFaultedState, FaultsRequest, PublishesFault, CancelsIo
<1>2. {"audio", "control", "speak"} \subseteq Threads
  BY DEF Threads, Readers, Callers
<1>3. CASE AudioThread /\ UNCHANGED engineVars
  <2>1. UNCHANGED <<site, outcome>>
    BY <1>1, <1>2, <1>3
    DEF AudioThread, ReadBreaks, ReadFailed, LeavesLoop, AssemblesSpeakingAudio, AssemblyThrows,
        DrainsCancellationAudio, FaultsOnIdleAudio, DrainsFaultedAudio, AdmitsSpan,
        CapturesSite, SiteAcceptsSpan, SiteRejectsSpan, UpdatesAfterDelivery, AudioSendsCancel,
        SendsCancel, CancelSendFails
  <2> QED
    BY <1>3, <2>1 DEF Answers
<1>4. CASE ControlThread /\ UNCHANGED engineVars
  <2>1. UNCHANGED <<site, outcome>>
    BY <1>1, <1>2, <1>4
    DEF ControlThread, ReadBreaks, ReadFailed, LeavesLoop, ReadsMalformedLine, ReadsOrphanEvent,
        HandlesEvent, AdmitsEvent, CapturesEventSite, NotifiesSite
  <2> QED
    BY <1>4, <2>1 DEF Answers
<1>5. CASE SpeakThread
  <2>1. (site' = site /\ speakCounter' = speakCounter) \/ SpeakBegins \/ SpeakReturns
    BY <1>1, <1>2, <1>5
    DEF SpeakThread, SetsObjectToken, RecreatesSession, CreatesSession,
        FindsSessionActive, BeginsRetirement, Retires, HasNoSession, Starts,
        StartRefused, SendsSpeak, SpeakSendFails, WaitEnds, WaitTimesOut, ObservesAbort,
        SpeakCancels, SendsCancel, CancelSendFails, DrainEnds, DrainTimesOut,
        BeginsDestruction, Destroys
  <2>2. CASE HasNoSession \/ StartRefused \/ SpeakSendFails \/ WaitTimesOut \/ DrainTimesOut
    BY <2>1, <2>2 DEF HasNoSession, StartRefused, SpeakSendFails, WaitTimesOut, DrainTimesOut,
                Returns, speakId, Answers
  <2>3. CASE SpeakCancels
    BY <2>1, <2>3 DEF SpeakCancels, SendsCancel, speakId, Answers
  <2>4. CASE ~(\/ HasNoSession \/ StartRefused \/ SpeakSendFails \/ WaitTimesOut
               \/ DrainTimesOut \/ SpeakCancels \/ WaitEnds \/ DrainEnds)
    BY <1>1, <1>2, <1>5, <2>4
    DEF SpeakThread, SetsObjectToken, RecreatesSession, CreatesSession, SpeakBegins,
        FindsSessionActive, BeginsRetirement, Retires, Starts, SendsSpeak, ObservesAbort,
        SpeakReturns, BeginsDestruction, Destroys, Answers
  <2> QED
    BY <2>1, <2>2, <2>3, <2>4 DEF Answers
<1>6. CASE \/ (InactivityElapses \/ DeadlinePasses) /\ UNCHANGED engineVars
           \/ UNCHANGED <<workerVars, engineVars>> \/ UNCHANGED vars
  BY <1>6 DEF InactivityElapses, DeadlinePasses, vars, workerVars, Answers
<1> QED
  BY <1>3, <1>4, <1>5, <1>6 DEF Next, Terminated

LEMMA PipesLeft ==
    ASSUME [Next]_vars, ~DirectCaller
    PROVE  /\ CommandsLeft
           /\ (ProviderNext /\ UNCHANGED <<workerVars, engineVars>>) \/ ProviderLeft
<1> USE DEF providerVars
<1>1. \A t \in Threads : EnterFaultedState(t) => UNCHANGED providerVars
  BY DEF EnterFaultedState, FaultsRequest, PublishesFault, CancelsIo
<1>2. {"audio", "control", "speak"} \subseteq Threads
  BY DEF Threads, Readers, Callers
<1>3. ASSUME NEW t \in Threads, NEW place, SendsCancel(t, place)
      PROVE  CommandsLeft /\ ProviderLeft
  <2> DEFINE e == [kind |-> "cancel", speakId |-> cancelId[t]]
  <2>1. /\ commands' = Append(commands, e) /\ pc[t] = "sendCancel" /\ e.speakId = cancelId[t]
        /\ UNCHANGED <<provider, promised>>
    BY <1>3 DEF SendsCancel, At
  <2> HIDE DEF e
  <2> QED
    BY <2>1 DEF CommandsLeft, ProviderLeft
<1>4. CASE AudioThread
  <2>1. CASE \E place : SendsCancel("audio", place)
    BY <1>2, <1>3, <2>1
  <2>2. CASE ~\E place : SendsCancel("audio", place)
    BY <1>1, <1>2, <1>4, <2>2
    DEF AudioThread, ReadBreaks, ReadFailed, LeavesLoop, AssemblesSpeakingAudio, AssemblyThrows,
        DrainsCancellationAudio, FaultsOnIdleAudio, DrainsFaultedAudio, Reads, AdmitsSpan,
        CapturesSite, SiteAcceptsSpan, SiteRejectsSpan, UpdatesAfterDelivery, AudioSendsCancel,
        CancelSendFails, CommandsLeft, ProviderLeft
  <2> QED
    BY <2>1, <2>2
<1>5. CASE ControlThread
  BY <1>1, <1>2, <1>5
  DEF ControlThread, ReadBreaks, ReadFailed, LeavesLoop, ReadsMalformedLine, ReadsOrphanEvent,
      HandlesEvent, NextEvent, AdmitsEvent, CapturesEventSite, NotifiesSite, CommandsLeft,
      ProviderLeft
<1>6. CASE SpeakThread
  <2>1. CASE \E place : SendsCancel("speak", place)
    BY <1>2, <1>3, <2>1
  <2>2. CASE SendsSpeak
    <3> DEFINE e == [kind |-> "sapi_speak", speakId |-> speakId]
    <3>1. commands' = Append(commands, e) /\ e.kind # "cancel" /\ UNCHANGED <<provider, promised>>
      BY <2>2 DEF SendsSpeak
    <3> HIDE DEF e
    <3> QED
      BY <3>1 DEF CommandsLeft, ProviderLeft
  <2>3. CASE Creates
    <3>1. CASE \E place : CreatesSession(place)
      BY <2>3, <3>1 DEF CreatesSession, OpenPipes, IdleProvider, CommandsLeft, ProviderLeft
    <3>2. CASE ~\E place : CreatesSession(place)
      BY <2>3, <3>2 DEF Creates, SetsObjectToken, RecreatesSession, CommandsLeft, ProviderLeft
    <3> QED
      BY <3>1, <3>2
  <2>4. CASE Retires \/ Destroys
    BY <2>4 DEF Retires, Destroys, ClosePipes, CommandsLeft, ProviderLeft
  <2>5. CASE ~(\/ \E place : SendsCancel("speak", place)
               \/ SendsSpeak \/ Creates \/ Retires \/ Destroys)
    <3>1. UNCHANGED providerVars
      BY <1>1, <1>2, <1>6, <2>5
      DEF SpeakThread, Creates, SpeakBegins, FindsSessionActive, BeginsRetirement, HasNoSession,
          Starts, StartRefused, SpeakSendFails, WaitEnds, WaitTimesOut, ObservesAbort,
          SpeakCancels, CancelSendFails, DrainEnds, DrainTimesOut, SpeakReturns,
          BeginsDestruction
    <3> QED
      BY <3>1 DEF CommandsLeft, ProviderLeft
  <2> QED
    BY <2>1, <2>2, <2>3, <2>4, <2>5
<1>7. CASE InactivityElapses \/ DeadlinePasses \/ UNCHANGED vars
  BY <1>7 DEF InactivityElapses, DeadlinePasses, vars, CommandsLeft, ProviderLeft
<1>8. CASE ProviderNext /\ UNCHANGED <<workerVars, engineVars>>
  BY <1>8 DEF ProviderNext, TakesSpeak, RefusesOverlap, WritesFrame, EmitsBoundary,
              DeclaresComplete, AcknowledgesCancel, IgnoresCancel, FailsRequest, Deviates, Crashes,
              NextCommandIs, CommandsLeft
<1> QED
  BY <1>4, <1>5, <1>6, <1>7, <1>8 DEF Next, Terminated

\* A provider that keeps its contract promises audio only for the request it takes,
\* and acknowledges only the cancel it took.
LEMMA ProviderPromises ==
    ASSUME TypeInv, SessionFits, ContractKept, PromiseInv, ProviderNext
    PROVE  /\ PromiseInv'
           /\ provider.speakId <= provider'.speakId
           /\ \A r \in Ids : \/ promised'[r].audio = promised[r].audio
                             \/ r = ctx.speakId /\ provider.speakId < r
           /\ \/ events' = events \/ events' = <<>>
              \/ \E e : /\ events' = Append(events, e)
                        /\ e.type = "cancelled" =>
                              commands # <<>> /\ Head(commands).kind = "cancel"
                                              /\ Head(commands).speakId = e.speakId
<1>1. /\ provider \in Provider /\ provider.speakId \in Nat /\ promised \in [Ids -> Promise]
      /\ commands \in Seq(Command)
  BY DEF TypeInv, TypeOK, Provider
<1>2. ~Deviates
  BY DEF ContractKept, Deviates, Deviations
<1>3. SpeakFits(ctx, provider, commands)
  BY DEF SessionFits, Fits
<1>4. CASE TakesSpeak
  <2>1. PICK total \in Totals :
            /\ provider' = [IdleProvider EXCEPT
                                !.speakId = Head(commands).speakId, !.busy = TRUE,
                                !.total = total, !.deviations = provider.deviations]
            /\ promised' = [promised EXCEPT ![Head(commands).speakId].audio = total]
    BY <1>4, Zenon DEF TakesSpeak
  <2>2. /\ commands # <<>> /\ Head(commands).kind = "sapi_speak" /\ events' = events
        /\ Head(commands) \in Command
    BY <1>1, <1>4 DEF TakesSpeak, NextCommandIs
  <2>3. Head(commands).speakId = ctx.speakId /\ provider.speakId < ctx.speakId
    BY <1>1, <1>3, <2>2, NextCommandFits
  <2>4. provider'.speakId = ctx.speakId /\ provider'.total = total /\ ctx.speakId \in 0 .. MaxSpeaks
    BY <2>1, <2>2, <2>3 DEF IdleProvider, Command
  <2>5. MaxSpeaks \in Nat
    BY ProviderAssumption
  <2>6. ctx.speakId # 0 => ctx.speakId \in Ids
    BY <2>4, <2>5 DEF Ids
  <2>7. \A r \in Ids : promised'[r].audio = IF r = ctx.speakId THEN total ELSE promised[r].audio
    BY <1>1, <2>1, <2>3 DEF Promise
  <2>8. provider.speakId <= ctx.speakId
    BY <1>1, <2>3, <2>4, <2>5
  <2> QED
    BY <2>2, <2>3, <2>4, <2>6, <2>7, <2>8 DEF PromiseInv
<1>5. ~RefusesOverlap
  <2>1. SUFFICES ASSUME RefusesOverlap PROVE FALSE
    OBVIOUS
  <2>2. Taken(ctx, provider)
    BY <2>1, BusyFits DEF RefusesOverlap
  <2>3. commands # <<>> /\ Head(commands).kind = "sapi_speak"
    BY <2>1 DEF RefusesOverlap, NextCommandIs
  <2>4. provider.speakId < ctx.speakId
    BY <1>1, <1>3, <2>3, NextCommandFits
  <2> QED
    BY <1>1, <2>2, <2>4 DEF Taken
<1>6. ASSUME provider'.speakId = provider.speakId, provider'.total = provider.total,
             \A r \in Ids : promised'[r].audio = promised[r].audio
      PROVE  /\ PromiseInv' /\ provider.speakId <= provider'.speakId
  <2>1. provider.speakId # 0 => provider.speakId \in Ids
    BY <1>1, ProviderAssumption DEF Ids, Provider
  <2> QED
    BY <1>1, <1>6, <2>1 DEF PromiseInv
<1>7. ASSUME NEW type, NEW n, Emit(EventOf(type, provider.speakId, n)),
             type = "cancelled" =>
                 commands # <<>> /\ Head(commands).kind = "cancel"
                                 /\ Head(commands).speakId = provider.speakId
      PROVE  \E e : /\ events' = Append(events, e)
                    /\ e.type = "cancelled" =>
                          commands # <<>> /\ Head(commands).kind = "cancel"
                                          /\ Head(commands).speakId = e.speakId
  <2> DEFINE e == EventOf(type, provider.speakId, n)
  <2>1. events' = Append(events, e) /\ e.type = type /\ e.speakId = provider.speakId
    BY <1>7 DEF Emit, EventOf
  <2> HIDE DEF e
  <2> QED
    BY <1>7, <2>1
<1>8. CASE EmitsBoundary
  <2>1. provider' = provider /\ \A r \in Ids : promised'[r].audio = promised[r].audio
    BY <1>1, <1>8 DEF EmitsBoundary, Promise
  <2> QED
    BY <1>6, <1>7, <1>8, <2>1 DEF EmitsBoundary
<1>9. CASE DeclaresComplete
  <2>1. /\ provider'.speakId = provider.speakId /\ provider'.total = provider.total
        /\ promised' = promised
    BY <1>1, <1>9 DEF DeclaresComplete, Settled, Provider
  <2> QED
    BY <1>6, <1>7, <1>9, <2>1 DEF DeclaresComplete
<1>10. CASE AcknowledgesCancel
  <2>1. /\ provider'.speakId = provider.speakId /\ provider'.total = provider.total
        /\ promised' = promised
    BY <1>1, <1>10 DEF AcknowledgesCancel, Provider
  <2> QED
    BY <1>6, <1>7, <1>10, <2>1 DEF AcknowledgesCancel, NextCommandIs
<1>11. CASE FailsRequest
  <2>1. /\ provider'.speakId = provider.speakId /\ provider'.total = provider.total
        /\ promised' = promised
    BY <1>1, <1>11 DEF FailsRequest, Provider
  <2> QED
    BY <1>6, <1>7, <1>11, <2>1 DEF FailsRequest
<1>12. CASE WritesFrame \/ IgnoresCancel \/ Crashes
  <2>1. /\ provider'.speakId = provider.speakId /\ provider'.total = provider.total
        /\ promised' = promised
    BY <1>1, <1>12 DEF WritesFrame, Settled, IgnoresCancel, Crashes, Provider
  <2>2. events' = events \/ events' = <<>>
    BY <1>12 DEF WritesFrame, IgnoresCancel, Crashes
  <2> QED
    BY <1>6, <2>1, <2>2
<1> QED
  BY <1>2, <1>4, <1>5, <1>8, <1>9, <1>10, <1>11, <1>12 DEF ProviderNext
-----------------------------------------------------------------------------
(* The invariant, part by part.                                            *)

\* What is left in a pipe after a read was there before.
LEMMA PipeShrinks ==
    ASSUME NEW S, NEW s \in Seq(S), s # <<>>
    PROVE  \A i \in 1 .. Len(Tail(s)) : \E j \in 1 .. Len(s) : Tail(s)[i] = s[j]
<1>1. /\ Len(s) \in Nat /\ Len(Tail(s)) = Len(s) - 1
      /\ \A i \in 1 .. Len(Tail(s)) : Tail(s)[i] = s[i + 1]
  BY HeadTailProperties, LenProperties
<1>2. \A i \in 1 .. Len(Tail(s)) : i + 1 \in 1 .. Len(s)
  BY <1>1
<1> QED
  BY <1>1, <1>2

\* What is in a pipe after a write was there before, or was put at its end.
LEMMA PipeGrows ==
    ASSUME NEW S, NEW s \in Seq(S), NEW e, NEW next, next = Append(s, e)
    PROVE  \A i \in 1 .. Len(next) : next[i] = e \/ \E j \in 1 .. Len(s) : next[i] = s[j]
<1>1. Len(s) \in Nat /\ Len(next) = Len(s) + 1
  BY LenProperties
<1>2. TAKE i \in 1 .. Len(next)
<1>3. i \in 1 .. Len(s) \/ i = Len(s) + 1
  BY <1>1
<1> QED
  BY <1>3

EventsMove ==
    \/ EventsLeft
    \/ \E e : /\ events' = Append(events, e)
              /\ e.type = "cancelled" =>
                    commands # <<>> /\ Head(commands).kind = "cancel"
                                    /\ Head(commands).speakId = e.speakId

\* The cancels in the pipe, and their acknowledgements.
LEMMA PipesKeepAborts ==
    ASSUME TypeInv, AbortInv, CommandsLeft, EventsMove, aborted \subseteq aborted'
    PROVE  /\ \A i \in 1 .. Len(commands') :
                 commands'[i].kind = "cancel" => commands'[i].speakId \in aborted'
           /\ \A i \in 1 .. Len(events') :
                 events'[i].type = "cancelled" => events'[i].speakId \in aborted'
<1>1. commands \in Seq(Command) /\ events \in Seq(Event)
  BY DEF TypeInv, TypeOK
<1>2. /\ \A i \in 1 .. Len(commands) :
             commands[i].kind = "cancel" => commands[i].speakId \in aborted'
      /\ \A i \in 1 .. Len(events) :
             events[i].type = "cancelled" => events[i].speakId \in aborted'
      /\ \A t \in Threads : pc[t] = "sendCancel" => cancelId[t] \in aborted'
  BY DEF AbortInv
<1>3. ASSUME NEW i \in 1 .. Len(commands'), commands'[i].kind = "cancel"
      PROVE  commands'[i].speakId \in aborted'
  <2>1. CASE \/ commands' = commands \/ commands' = <<>>
             \/ commands # <<>> /\ commands' = Tail(commands)
    <3>1. CASE commands' = commands
      BY <1>2, <1>3, <3>1
    <3>2. CASE commands' = <<>>
      BY <1>3, <3>2
    <3>3. CASE commands # <<>> /\ commands' = Tail(commands)
      <4>1. \A k \in 1 .. Len(Tail(commands)) : \E j \in 1 .. Len(commands) : Tail(commands)[k] = commands[j]
        BY <1>1, <3>3, PipeShrinks
      <4>2. \E j \in 1 .. Len(commands) : commands'[i] = commands[j]
        BY <1>3, <3>3, <4>1, Zenon
      <4> QED
        BY <1>2, <1>3, <4>2, Zenon
    <3> QED
      BY <2>1, <3>1, <3>2, <3>3, Zenon
  <2>2. ASSUME NEW e, commands' = Append(commands, e),
               e.kind = "cancel" => \E t \in Threads : /\ pc[t] = "sendCancel"
                                                       /\ e.speakId = cancelId[t]
        PROVE  commands'[i].speakId \in aborted'
    <3>1. \A k \in 1 .. Len(commands') :
             commands'[k] = e \/ \E j \in 1 .. Len(commands) : commands'[k] = commands[j]
      BY <1>1, <2>2, PipeGrows
    <3>2. e.kind = "cancel" => e.speakId \in aborted'
      BY <1>2, <2>2, Zenon
    <3> QED
      BY <1>2, <1>3, <3>1, <3>2
  <2> QED
    BY <2>1, <2>2 DEF CommandsLeft
<1>4. ASSUME NEW i \in 1 .. Len(events'), events'[i].type = "cancelled"
      PROVE  events'[i].speakId \in aborted'
  <2>1. CASE EventsLeft
    <3>1. CASE events' = events
      BY <1>2, <1>4, <3>1
    <3>2. CASE events' = <<>>
      BY <1>4, <3>2
    <3>3. CASE events # <<>> /\ events' = Tail(events)
      <4>1. \A k \in 1 .. Len(Tail(events)) : \E j \in 1 .. Len(events) : Tail(events)[k] = events[j]
        BY <1>1, <3>3, PipeShrinks
      <4>2. \E j \in 1 .. Len(events) : events'[i] = events[j]
        BY <1>4, <3>3, <4>1, Zenon
      <4> QED
        BY <1>2, <1>4, <4>2, Zenon
    <3> QED
      BY <2>1, <3>1, <3>2, <3>3, Zenon DEF EventsLeft
  <2>2. ASSUME NEW e, events' = Append(events, e),
               e.type = "cancelled" =>
                  commands # <<>> /\ Head(commands).kind = "cancel"
                                  /\ Head(commands).speakId = e.speakId
        PROVE  events'[i].speakId \in aborted'
    <3>1. \A k \in 1 .. Len(events') :
             events'[k] = e \/ \E j \in 1 .. Len(events) : events'[k] = events[j]
      BY <1>1, <2>2, PipeGrows
    <3>2. commands # <<>> => Head(commands) = commands[1] /\ 1 \in 1 .. Len(commands)
      BY <1>1, HeadTailProperties, EmptySeq, LenProperties
    <3>3. e.type = "cancelled" => e.speakId \in aborted'
      BY <1>2, <2>2, <3>2
    <3> QED
      BY <1>2, <1>4, <3>1, <3>3
  <2> QED
    BY <2>1, <2>2 DEF EventsMove
<1> QED
  BY <1>3, <1>4

LEMMA AbortInvKept ==
    ASSUME TypeInv, AbortInv, CtxStep, AbortStep, CommandsLeft, EventsMove
    PROVE  AbortInv'
<1>1. aborted \subseteq aborted' /\ ctx'.speakId = ctx.speakId
  BY DEF AbortStep, CtxStep
<1>2. ctx'.downstreamState = "Cancelling" => ctx'.speakId \in aborted'
  BY <1>1 DEF CtxStep, AbortInv
<1>3. ctx'.upstreamState = "Cancelled" => ctx'.speakId \in aborted'
  <2>1. events \in Seq(Event)
    BY DEF TypeInv, TypeOK
  <2>2. events # <<>> => Head(events) = events[1] /\ 1 \in 1 .. Len(events)
    BY <2>1, HeadTailProperties, EmptySeq, LenProperties
  <2> QED
    BY <1>1, <2>2 DEF CtxStep, AbortInv
<1>4. \A t \in Threads : pc'[t] = "sendCancel" => cancelId'[t] \in aborted'
  BY <1>1 DEF AbortStep, AbortInv
<1> QED
  BY <1>1, <1>2, <1>3, <1>4, PipesKeepAborts DEF AbortInv

\* Nobody accepts bytes of a request that no batch on its way is of.
LEMMA HeardStays ==
    ASSUME TypeInv, BatchFits, AudioStep, NEW r \in Ids,
           ~(Delivering /\ batch.token.speakId = r)
    PROVE  heard'[r] = heard[r]
<1>1. CASE Leaves \/ Assembles \/ Settles
  BY <1>1 DEF Leaves, Assembles, Settles
<1>2. CASE SiteAcceptsSpan
  <2> DEFINE span == Head(batch.spans)
  <2>1. /\ \A id : BytesOf(span, id) = IF id = batch.token.speakId THEN Len(span) ELSE 0
        /\ Delivering
        /\ heard' = [heard EXCEPT ![batch.target] = @ + BytesOf(span, batch.target)]
    BY <1>2, AcceptedSpan
  <2> HIDE DEF span
  <2>2. heard \in [Ids -> Nat]
    BY DEF TypeInv, TypeOK
  <2>3. CASE batch.target = r
    <3>1. BytesOf(span, batch.target) = 0
      BY <2>1, <2>3
    <3>2. heard'[r] = heard[r] + BytesOf(span, batch.target)
      BY <2>1, <2>2, <2>3
    <3> QED
      BY <2>2, <3>1, <3>2
  <2>4. CASE batch.target # r
    BY <2>1, <2>2, <2>4
  <2> QED
    BY <2>3, <2>4
<1> QED
  BY <1>1, <1>2 DEF AudioStep

\* A batch is on its way for a request that had one, or that is speaking.
LEMMA BatchOfSpeaking ==
    ASSUME TypeInv, BatchFits, AudioStep, Delivering'
    PROVE  \/ Delivering /\ batch'.token.speakId = batch.token.speakId
           \/ ctx.downstreamState = "Speaking" /\ batch'.token.speakId = ctx.speakId
<1>1. CASE Leaves
  BY <1>1 DEF Leaves
<1>2. CASE Assembles
  BY <1>2 DEF Assembles, Token
<1>3. CASE SiteAcceptsSpan
  BY <1>3, AcceptedSpan
<1>4. CASE Settles
  BY <1>4 DEF Settles
<1> QED
  BY <1>1, <1>2, <1>3, <1>4 DEF AudioStep

\* Nothing is promised any more to a request the provider has taken.
PromisesKept ==
    /\ provider'.speakId \in Nat /\ provider.speakId <= provider'.speakId
    /\ \A r \in Ids : \/ promised'[r].audio = promised[r].audio
                      \/ r = ctx.speakId /\ provider.speakId < r

LEMMA DoneKept ==
    ASSUME TypeInv, TypeInv', BatchFits, AudioStep, PromisesKept, StartsNothing,
           ctx'.speakId = ctx.speakId, InUse(ctx') => InUse(ctx),
           NEW r \in Ids, Done(r)
    PROVE  Done(r)'
<1>1. /\ heard[r] = promised[r].audio
      /\ ~NotStarted(r)
      /\ ~(Delivering /\ batch.token.speakId = r)
      /\ ctx.speakId = r => ~InUse(ctx) /\ r <= provider.speakId
  BY DEF Done
<1>2. r \in Nat /\ provider.speakId \in Nat
  BY DEF TypeInv, TypeOK, Provider, Ids
<1>3. promised'[r].audio = promised[r].audio
  BY <1>1, <1>2 DEF PromisesKept
<1>4. heard'[r] = heard[r]
  BY <1>1, HeardStays
<1>5. ~NotStarted(r)'
  BY <1>1 DEF StartsNothing
<1>6. ~(Delivering' /\ batch'.token.speakId = r)
  BY <1>1, BatchOfSpeaking DEF InUse
<1>7. ctx'.speakId = r => ~InUse(ctx') /\ r <= provider'.speakId
  BY <1>1, <1>2 DEF PromisesKept
<1> QED
  BY <1>1, <1>3, <1>4, <1>5, <1>6, <1>7 DEF Done

\* A request that ends well in this step is done.
LEMMA EndingIsDone ==
    ASSUME TypeInv, TypeInv', OwnerInv, CancelInv, CancelInv', DeliveryInv, DeliveryInv',
           SessionFits, AbortInv, PromiseInv, BatchFits, BatchFits', CarryFits,
           SpeakingBalanced, CtxStep, AudioStep, aborted \subseteq aborted',
           promised' = promised, provider'.speakId = provider.speakId,
           ~EndedWell, EndedWell'
    PROVE  Done(ctx.speakId)'
<1> DEFINE r == ctx.speakId
<1>1. /\ ctx'.speakId = r /\ ctx'.generation = ctx.generation
      /\ ctx'.downstreamState = "Idle" /\ ctx.completionHr = "S_OK"
      /\ r # 0 /\ r \notin aborted
  BY DEF CtxStep, EndedWell
<1>2. Reached
  BY <1>1 DEF CtxStep, EndedWell, AbortInv
<1>3. /\ ctx.downstreamState = "Speaking"
      /\ ctx'.deliveredAudioBytes = ctx'.rawAudioBytesRead
      /\ \/ ctx.upstreamFinished /\ ctx'.deliveredAudioBytes = ctx.upstreamTerminalBytes
         \/ /\ events # <<>> /\ Head(events).type \in {"complete", "cancelled"}
            /\ ctx'.deliveredAudioBytes = Head(events).bytes
  BY <1>2 DEF Reached
<1>4. r \in Ids /\ Balanced
  BY <1>3 DEF CancelInv, SpeakingBalanced
<1>5. Balanced'
  BY <1>3, <1>4, BalanceKept
<1>6. /\ ctx' \in Context /\ batch' \in Batch /\ heard' \in [Ids -> Nat] /\ carry' \in Span
      /\ ctx'.deliveredAudioBytes \in Nat
  BY DEF TypeInv, TypeOK, Context
<1>7. ~Current'
  <2>1. SUFFICES ASSUME Current' PROVE FALSE
    OBVIOUS
  <2>2. Delivering' /\ OnItsWay' = batch'.credited + Len(Flat(batch'.spans))
    BY <2>1 DEF Current, OnItsWay
  <2>3. /\ SpansOf(batch'.spans, batch'.token.speakId)
        /\ batch'.credited + Len(Flat(batch'.spans)) >= 1
    BY <2>2 DEF BatchFits
  <2>4. Len(Flat(batch'.spans)) \in Nat /\ batch'.credited \in Nat /\ Len(carry') \in Nat
    BY <1>6, <2>3, FlatLength, LenProperties DEF SpansOf, Batch, Span
  <2>5. ctx'.deliveredAudioBytes + OnItsWay' + Len(carry') <= ctx'.deliveredAudioBytes
    BY <1>3, <1>5 DEF Balanced
  <2>6. OnItsWay' >= 1 /\ OnItsWay' \in Nat
    BY <2>2, <2>3, <2>4
  <2>7. \A d, o, k \in Nat : o >= 1 => ~(d + o + k <= d)
    OBVIOUS
  <2> QED
    BY <1>6, <2>4, <2>5, <2>6, <2>7, Zenon
<1>8. heard'[r] = ctx'.deliveredAudioBytes
  <2>1. heard'[r] = ctx'.deliveredAudioBytes + Credit' /\ Credit' = 0
    BY <1>1, <1>5, <1>7 DEF Balanced, Credit
  <2> QED
    BY <1>6, <2>1
<1>9. Taken(ctx, provider) /\ ctx'.deliveredAudioBytes = provider.total
  <2>1. CASE ctx.upstreamFinished /\ ctx'.deliveredAudioBytes = ctx.upstreamTerminalBytes
    <3>1. ctx.upstreamState # "Cancelled"
      BY <1>1 DEF AbortInv
    <3> QED
      BY <1>3, <2>1, <3>1 DEF SessionFits, Fits, TerminalFits, InUse
  <2>2. CASE /\ events # <<>> /\ Head(events).type \in {"complete", "cancelled"}
             /\ ctx'.deliveredAudioBytes = Head(events).bytes
    <3>1. Taken(ctx, provider) /\ EventFits(provider, Head(events))
      BY <2>2, NextEventFits
    <3>2. Head(events) = events[1] /\ 1 \in 1 .. Len(events)
      <4>1. events \in Seq(Event)
        BY DEF TypeInv, TypeOK
      <4> QED
        BY <2>2, <4>1, HeadTailProperties, EmptySeq, LenProperties
    <3>3. Head(events).type # "cancelled"
      BY <1>1, <3>1, <3>2 DEF AbortInv, EventFits, Taken
    <3> QED
      BY <2>2, <3>1, <3>3 DEF EventFits
  <2> QED
    BY <1>3, <2>1, <2>2
<1>10. heard'[r] = promised'[r].audio
  BY <1>1, <1>8, <1>9 DEF PromiseInv, Taken
<1>11. ~NotStarted(r)'
  BY <1>1, <1>4 DEF CancelInv
<1>12. ~(Delivering' /\ batch'.token.speakId = r)
  <2>1. SUFFICES ASSUME Delivering', batch'.token.speakId = r PROVE FALSE
    OBVIOUS
  <2>2. ctx'.generation = batch'.token.generation
    BY <1>1, <2>1 DEF DeliveryInv
  <2>3. Token(ctx') = batch'.token
    BY <1>1, <1>6, <2>1, <2>2 DEF Token, Batch
  <2> QED
    BY <1>7, <2>1, <2>3 DEF Current
<1>13. ~InUse(ctx') /\ r <= provider'.speakId
  BY <1>1, <1>4, <1>9 DEF InUse, Taken, Ids
<1> HIDE DEF r
<1> QED
  BY <1>1, <1>10, <1>11, <1>12, <1>13 DEF Done, r

\* Speak answers S_OK only for the request of the context, and when that has ended
\* well.
LEMMA AnswersWell ==
    ASSUME TypeInv, OwnerInv, CallInv, FaultedFails, Answers, NEW r \in Ids,
           outcome'[r] = "S_OK", outcome[r] # "S_OK", r \notin aborted
    PROVE  EndedWell /\ ctx.speakId = r
<1>1. outcome \in [Ids -> HResult \cup {NoOutcome}] /\ ctx \in Context /\ r # 0
  BY DEF TypeInv, TypeOK, Ids
<1>2. PICK result : outcome' = [outcome EXCEPT ![speakCounter] = result]
  BY DEF Answers, WaitEnds, DrainEnds, Returns, speakId
<1>3. r = speakCounter /\ result = "S_OK"
  BY <1>1, <1>2
<1>4. CASE WaitEnds \/ DrainEnds
  <2>1. outcome' = [outcome EXCEPT ![speakCounter] = Result]
    BY <1>4 DEF WaitEnds, DrainEnds, Returns, speakId
  <2>2. Result = "S_OK"
    BY <1>1, <1>3, <2>1
  <2>3. ~exit /\ ctx.completionHr = "S_OK"
    BY <2>2 DEF Result
  <2>4. ctx.downstreamState # "Faulted"
    BY <2>3 DEF FaultedFails
  <2>5. pc["speak"] \in {"wait", "drain"}
    BY <1>4 DEF WaitEnds, DrainEnds, At
  <2>6. ctx.speakId = r
    BY <1>3, <2>5 DEF OwnerInv, AfterStart
  <2>7. ctx.downstreamState = "Idle"
    <3>1. CASE WaitEnds
      BY <2>3, <2>4, <3>1 DEF WaitEnds, IsWaitTerminal
    <3>2. CASE DrainEnds
      <4>1. ctx.downstreamState \notin {"Speaking", "Cancelling"}
        BY <2>3, <3>2 DEF DrainEnds, At, IsDrainingCancellation, CallInv, CancelledForGood
      <4> QED
        BY <1>1, <2>4, <4>1 DEF Context, DownstreamState
    <3> QED
      BY <1>4, <3>1, <3>2
  <2> QED
    BY <1>1, <2>3, <2>6, <2>7 DEF EndedWell
<1>5. CASE ~(WaitEnds \/ DrainEnds)
  <2>1. \/ outcome' = outcome
        \/ \E other \in {"E_FAIL", "TIMEOUT"} :
              outcome' = [outcome EXCEPT ![speakCounter] = other]
    BY <1>5 DEF Answers
  <2> QED
    BY <1>1, <1>3, <2>1
<1> QED
  BY <1>4, <1>5

LEMMA SiteKept ==
    ASSUME TypeInv, SiteInv, [Next]_vars, ~DirectCaller
    PROVE  SiteInv'
<1>1. CASE site' = site /\ speakCounter' = speakCounter
  BY <1>1 DEF SiteInv
<1>2. CASE SpeakBegins
  BY <1>2 DEF SpeakBegins, SiteInv
<1>3. CASE SpeakReturns
  BY <1>3 DEF SpeakReturns, SiteInv
<1> QED
  BY <1>1, <1>2, <1>3, AnswersAndSites

\* What is promised, and what the provider says, in any step that keeps the session.
LEMMA PromisesMove ==
    ASSUME TypeInv, TypeInv', SessionFits, ContractKept, PromiseInv, [Next]_vars,
           ~DirectCaller, ~Creates
    PROVE  /\ PromiseInv' /\ PromisesKept /\ EventsMove
           /\ \/ promised' = promised /\ provider'.speakId = provider.speakId
              \/ ctx' = ctx /\ aborted' = aborted
<1>1. provider \in Provider /\ provider'.speakId \in Nat /\ provider.speakId \in Nat
  BY DEF TypeInv, TypeOK, Provider
<1>2. CASE ProviderNext /\ UNCHANGED <<workerVars, engineVars>>
  <2>1. /\ PromiseInv'
        /\ provider.speakId <= provider'.speakId
        /\ \A r \in Ids : \/ promised'[r].audio = promised[r].audio
                          \/ r = ctx.speakId /\ provider.speakId < r
        /\ \/ events' = events \/ events' = <<>>
           \/ \E e : /\ events' = Append(events, e)
                     /\ e.type = "cancelled" =>
                           commands # <<>> /\ Head(commands).kind = "cancel"
                                           /\ Head(commands).speakId = e.speakId
    BY <1>2, ProviderPromises
  <2>2. EventsMove
    BY <2>1 DEF EventsMove, EventsLeft
  <2>3. ctx' = ctx /\ aborted' = aborted
    BY <1>2 DEF workerVars
  <2> QED
    BY <1>1, <2>1, <2>2, <2>3 DEF PromisesKept
<1>3. CASE ~(ProviderNext /\ UNCHANGED <<workerVars, engineVars>>)
  <2>1. ProviderLeft
    BY <1>3, PipesLeft
  <2>2. /\ promised' = promised /\ provider'.speakId = provider.speakId
        /\ provider'.total = provider.total
    BY <1>1, <2>1 DEF ProviderLeft, Provider
  <2>3. EventsMove
    <3>1. CASE ProviderNext
      BY <1>3, <3>1, ProviderPromises DEF EventsMove, EventsLeft
    <3>2. CASE ~ProviderNext
      BY <3>2, OthersLeaveEvents DEF EventsMove
    <3> QED
      BY <3>1, <3>2
  <2> QED
    BY <1>1, <2>2, <2>3 DEF PromiseInv, PromisesKept
<1> QED
  BY <1>2, <1>3

\* A step of a session that stays, other than a start.
LEMMA OrdinaryStepKeeps ==
    ASSUME ContractKept, TypeInv, TypeInv', LifecycleMatrix, CallInv, OwnerInv, CancelInv,
           CancelInv', DeliveryInv, DeliveryInv', SessionFits, DeliveredInv, [Next]_vars,
           ~DirectCaller, ~Starts, ~Creates
    PROVE  DeliveredInv'
<1>1. /\ SiteInv /\ FaultedFails /\ AbortInv /\ FreshInv /\ PromiseInv
      /\ BatchFits /\ CarryFits /\ SpeakingBalanced /\ DoneInv
  BY DEF DeliveredInv
<1>2. CtxStep /\ AbortStep /\ AudioStep
  BY <1>1, EveryEffect DEF Effects
<1>3. /\ ctx'.speakId = ctx.speakId /\ (InUse(ctx') => InUse(ctx))
      /\ ctx'.downstreamState = "Speaking" => ctx.downstreamState = "Speaking"
  BY EveryOtherStep, RequestStepKeeps DEF Creates
<1>4. StartsNothing
  BY EveryCancelStep DEF CancelInv
<1>5. Answers /\ CommandsLeft
  BY AnswersAndSites, PipesLeft
<1>6. /\ PromiseInv' /\ PromisesKept /\ EventsMove
      /\ \/ promised' = promised /\ provider'.speakId = provider.speakId
         \/ ctx' = ctx /\ aborted' = aborted
  BY <1>1, PromisesMove
<1>7. SiteInv'
  BY <1>1, SiteKept
<1>8. FaultedFails'
  BY <1>1, <1>2 DEF CtxStep, FaultedFails
<1>9. AbortInv'
  BY <1>1, <1>2, <1>5, <1>6, AbortInvKept
<1>10. FreshInv'
  <2>1. SUFFICES ASSUME NEW r \in Ids, NotStarted(r)' PROVE heard'[r] = 0
    BY DEF FreshInv
  <2>2. NotStarted(r)
    BY <1>4, <2>1 DEF StartsNothing
  <2>3. ~(Delivering /\ batch.token.speakId = r)
    BY <2>2 DEF DeliveryInv
  <2> QED
    BY <1>1, <1>2, <2>2, <2>3, HeardStays DEF FreshInv
<1>11. BatchFits' /\ CarryFits'
  BY <1>1, <1>2, <1>3, BatchFitsKept, CarryFitsKept
<1>12. SpeakingBalanced'
  BY <1>1, <1>2, <1>3, BalanceKept DEF SpeakingBalanced
<1>13. \A r \in Ids : Done(r) => Done(r)'
  BY <1>1, <1>2, <1>3, <1>4, <1>6, DoneKept
<1>14. EndedWell' => Done(ctx.speakId)'
  <2>1. SUFFICES ASSUME EndedWell' PROVE Done(ctx.speakId)'
    OBVIOUS
  <2>2. ctx.speakId \in Ids
    <3>1. ctx.speakId \in 0 .. MaxSpeaks
      BY DEF TypeInv, TypeOK
    <3>2. ctx.speakId # 0
      BY <1>3, <2>1 DEF EndedWell
    <3> QED
      BY <3>1, <3>2, ProviderAssumption DEF Ids
  <2>3. CASE EndedWell
    <3>1. Done(ctx.speakId)
      BY <1>1, <2>3 DEF DoneInv
    <3>2. PICK r \in Ids : r = ctx.speakId
      BY <2>2
    <3>3. Done(r)
      BY <3>1, <3>2
    <3>4. Done(r)' /\ ctx'.speakId = r
      BY <1>3, <1>13, <3>2, <3>3
    <3> QED
      BY <3>4 DEF Done
  <2>4. CASE ~EndedWell
    <3>1. promised' = promised /\ provider'.speakId = provider.speakId
      BY <1>6, <2>1, <2>4 DEF EndedWell
    <3> QED
      BY <1>1, <1>2, <1>11, <2>1, <2>4, <3>1, EndingIsDone DEF AbortStep
  <2> QED
    BY <2>3, <2>4
<1>15. ASSUME NEW r \in Ids, outcome'[r] = "S_OK", r \notin aborted'
       PROVE  Done(r)'
  <2>1. r \notin aborted
    BY <1>2, <1>15 DEF AbortStep
  <2>2. Done(r)
    <3>1. CASE outcome[r] = "S_OK"
      BY <1>1, <2>1, <3>1 DEF DoneInv
    <3>2. CASE outcome[r] # "S_OK"
      BY <1>1, <1>5, <1>15, <2>1, <3>2, AnswersWell DEF DoneInv
    <3> QED
      BY <3>1, <3>2
  <2> QED
    BY <1>13, <2>2
<1>16. DoneInv'
  BY <1>14, <1>15 DEF DoneInv
<1> QED
  BY <1>6, <1>7, <1>8, <1>9, <1>10, <1>11, <1>12, <1>16 DEF DeliveredInv

\* Speak starts a request of which nothing was read, accepted or promised.
LEMMA StartKeeps ==
    ASSUME TypeInv, CancelInv, DeliveryInv, DeliveredInv, Starts
    PROVE  DeliveredInv'
<1>1. /\ {"audio", "speak"} \subseteq Threads /\ pc \in [Threads -> Place]
      /\ speakCounter \in 0 .. MaxSpeaks /\ ctx \in Context
  BY DEF Threads, Readers, Callers, TypeInv, TypeOK
<1>2. /\ pc["speak"] = "start" /\ pc'["speak"] = "send"
      /\ \A t \in Threads \ {"speak"} : pc'[t] = pc[t]
  BY <1>1 DEF Starts, At, Goto
<1>3. /\ UNCHANGED <<batch, cancelId, site, heard, outcome, aborted>>
      /\ UNCHANGED <<commands, events, provider, promised, speakCounter>>
  BY DEF Starts, localVars, historyVars, providerVars, engineVars
<1>4. /\ ctx'.speakId = speakCounter
      /\ ctx'.upstreamState = "Active" /\ ctx'.downstreamState = "Speaking"
      /\ ctx'.rawAudioBytesRead = 0 /\ ctx'.deliveredAudioBytes = 0
      /\ carry' = <<>>
  BY <1>1 DEF Starts, Reset, FreshContext, Context, speakId
<1>5. speakCounter \in Ids /\ NotStarted(speakCounter)
  BY <1>1, <1>2 DEF CancelInv, RequestNumbered, BeforeStart, NotStarted
<1>6. \A r \in Ids : NotStarted(r)' => NotStarted(r)
  BY <1>1, <1>2, <1>3 DEF NotStarted, BeforeStart
<1>7. Delivering' <=> Delivering
  BY <1>1, <1>2 DEF Delivering
<1>8. ~Current'
  BY <1>3, <1>4, <1>5, <1>7 DEF Current, Token, DeliveryInv
<1>9. heard[speakCounter] = 0
  BY <1>5 DEF DeliveredInv, FreshInv
<1>10. SiteInv' /\ FaultedFails' /\ FreshInv' /\ PromiseInv' /\ CarryFits'
  BY <1>3, <1>4, <1>6 DEF DeliveredInv, SiteInv, FaultedFails, FreshInv, PromiseInv, CarryFits
<1>11. AbortInv'
  BY <1>1, <1>2, <1>3, <1>4 DEF DeliveredInv, AbortInv
<1>12. BatchFits'
  BY <1>3, <1>7, <1>8 DEF DeliveredInv, BatchFits, SpansOf
<1>13. SpeakingBalanced'
  BY <1>3, <1>4, <1>8, <1>9, EmptySeq DEF SpeakingBalanced, Balanced, Credit, OnItsWay
<1>14. \A r \in Ids : Done(r) => Done(r)'
  BY <1>3, <1>4, <1>5, <1>6, <1>7 DEF Done
<1>15. DoneInv'
  BY <1>3, <1>4, <1>14 DEF DeliveredInv, DoneInv, EndedWell
<1> QED
  BY <1>10, <1>11, <1>12, <1>13, <1>15 DEF DeliveredInv

\* A new session has a context without a request, and nothing on its way.
LEMMA CreationKeeps ==
    ASSUME TypeInv, StartsNothing, DeliveredInv, Creates
    PROVE  DeliveredInv'
<1>1. PICK place \in {"idle", "start"} :
          \/ CreatesSession(place)
          \/ UNCHANGED <<requestVars, faultVars, exit, timeVars, pc, fault, localVars, site,
                         historyVars, providerVars, speakCounter>>
  BY DEF Creates, SetsObjectToken, RecreatesSession
<1>2. CASE UNCHANGED <<requestVars, faultVars, exit, timeVars, pc, fault, localVars, site,
                       historyVars, providerVars, speakCounter>>
  <2>1. UNCHANGED <<ctx, carry, pc, batch, cancelId, site, heard, outcome, aborted,
                    commands, events, provider, promised, speakCounter>>
    BY <1>2 DEF requestVars, localVars, historyVars, providerVars
  <2> QED
    BY <2>1 DEF DeliveredInv, SiteInv, FaultedFails, AbortInv, FreshInv, PromiseInv, BatchFits,
            SpansOf, CarryFits, SpeakingBalanced, Balanced, Credit, OnItsWay, Current,
            Delivering, InUse, DoneInv, EndedWell, Done, NotStarted
<1>3. CASE CreatesSession(place)
  <2>1. /\ UNCHANGED <<batch, cancelId, site, heard, outcome, aborted, promised, speakCounter>>
        /\ commands' = <<>> /\ events' = <<>> /\ carry' = <<>>
        /\ provider'.speakId = 0
    BY <1>3 DEF CreatesSession, OpenPipes, localVars, historyVars, IdleProvider
  <2>2. /\ ctx'.speakId = 0
        /\ ctx'.upstreamState = "Idle" /\ ctx'.downstreamState = "Idle"
    BY <1>3 DEF CreatesSession, FreshContext
  <2>3. /\ pc \in [Threads -> Place]
        /\ pc' = [pc EXCEPT !["speak"] = place, !["audio"] = "read", !["control"] = "read"]
    BY <1>3 DEF CreatesSession, TypeInv, TypeOK
  <2>4. pc'["audio"] = "read" /\ \A t \in Threads : pc'[t] = "sendCancel" => pc[t] = "sendCancel"
    BY <2>3 DEF Threads, Readers, Callers
  <2>5. ~Delivering'
    BY <2>4 DEF Delivering
  <2>6. SiteInv' /\ FaultedFails' /\ FreshInv' /\ PromiseInv' /\ CarryFits'
    BY <2>1, <2>2 DEF DeliveredInv, SiteInv, FaultedFails, FreshInv, PromiseInv, CarryFits,
           StartsNothing
  <2>7. AbortInv'
    BY <2>1, <2>2, <2>4 DEF DeliveredInv, AbortInv
  <2>8. BatchFits' /\ SpeakingBalanced'
    BY <2>2, <2>5 DEF BatchFits, SpeakingBalanced
  <2>9. \A r \in Ids : Done(r) => Done(r)'
    BY <2>1, <2>2, <2>5 DEF Done, StartsNothing, Ids
  <2>10. DoneInv'
    BY <2>1, <2>2, <2>9 DEF DeliveredInv, DoneInv, EndedWell
  <2> QED
    BY <2>6, <2>7, <2>8, <2>10 DEF DeliveredInv
<1> QED
  BY <1>1, <1>2, <1>3

LEMMA DeliveredInvInit == Init => DeliveredInv
<1> SUFFICES ASSUME Init PROVE DeliveredInv
  OBVIOUS
<1>1. /\ ctx = FreshContext /\ carry = <<>> /\ site = 0 /\ aborted = {}
      /\ commands = <<>> /\ events = <<>> /\ provider.speakId = 0
      /\ \A r \in Ids : heard[r] = 0 /\ outcome[r] # "S_OK"
      /\ \A t \in Threads : pc[t] \in {"idle", "ready", "exit"}
  BY DEF Init, ProviderInit, IdleProvider, NoOutcome
<1>2. ~Delivering
  BY <1>1 DEF Delivering, Threads, Readers
<1>3. SiteInv /\ FaultedFails /\ FreshInv /\ PromiseInv /\ CarryFits /\ AbortInv
  BY <1>1 DEF SiteInv, FaultedFails, FreshInv, PromiseInv, CarryFits, AbortInv, FreshContext
<1>4. BatchFits /\ SpeakingBalanced /\ DoneInv
  BY <1>1, <1>2 DEF BatchFits, SpeakingBalanced, DoneInv, EndedWell, FreshContext
<1> QED
  BY <1>3, <1>4 DEF DeliveredInv
-----------------------------------------------------------------------------
(* The theorem.                                                            *)

LEMMA DeliveredInvNext ==
    ASSUME ContractKept, TypeInv, TypeInv', LifecycleMatrix, CallInv, OwnerInv, CancelInv,
           CancelInv', DeliveryInv, DeliveryInv', SessionInv, ContractInv, DeliveredInv,
           [Next]_vars
    PROVE  DeliveredInv'
<1>1. SessionFits /\ ~DirectCaller
  <2>1. "direct" \notin Env /\ DispositionIsHeld /\ NoDirectCall
    BY DEF ContractKept, SessionInv, ContractInv
  <2> QED
    BY <2>1, NoDirectCallNext DEF ContractInv
<1>2. CASE Starts
  BY <1>2, StartKeeps
<1>3. CASE Creates
  BY <1>3, CreationKeeps, EveryCancelStep DEF CancelInv
<1>4. CASE ~Starts /\ ~Creates
  BY <1>1, <1>4, OrdinaryStepKeeps
<1> QED
  BY <1>2, <1>3, <1>4

\* The balance is kept as long as the provider keeps its contract.
LEMMA DeliveredInvHolds ==
    ASSUME ContractKept
    PROVE  Spec => []DeliveredInv
<1>1. ASSUME TypeInv, TypeInv', LifecycleMatrix, CallInv, OwnerInv, CancelInv, CancelInv',
             DeliveryInv, DeliveryInv', SessionInv, ContractInv, DeliveredInv, [Next]_vars
      PROVE  DeliveredInv'
  BY <1>1, DeliveredInvNext
<1> QED
  BY <1>1, DeliveredInvInit, TypeCorrect, LifecycleMatrixHolds, CallInvHolds, OwnerInvHolds,
     CancelInvHolds, DeliveryInvHolds, SessionInvHolds, ContractInvHolds, PTL DEF Spec

\* Speak answers S_OK for a request nobody cancelled only after the site of that very
\* request accepted every byte the provider had for it, in whatever order the audio
\* and the terminal event came through their two threads; and the credit a speaking
\* request has at any moment was accepted by its own site.  This holds for a provider
\* that keeps its contract and no caller behind Speak's back, for any number and size
\* of requests, and whatever SAPI refuses, memory, pipes, processes and time do.
THEOREM HeardAllHolds ==
    ASSUME ContractKept
    PROVE  Spec => []HeardAll
<1>1. TypeInv /\ DeliveredInv => HeardAll
  <2>1. SUFFICES ASSUME TypeInv, DeliveredInv PROVE HeardAll
    OBVIOUS
  <2>2. ASSUME NEW r \in Ids, outcome[r] = "S_OK", r \notin aborted
        PROVE  heard[r] = promised[r].audio
    BY <2>1, <2>2 DEF DeliveredInv, DoneInv, Done
  <2>3. ASSUME ctx.downstreamState = "Speaking", ctx.speakId \in Ids
        PROVE  ctx.deliveredAudioBytes <= heard[ctx.speakId]
    <3>1. heard[ctx.speakId] = ctx.deliveredAudioBytes + Credit
      BY <2>1, <2>3 DEF DeliveredInv, SpeakingBalanced, Balanced
    <3>2. ctx.deliveredAudioBytes \in Nat
      BY <2>1 DEF TypeInv, TypeOK, Context
    <3>3. Credit \in Nat
      BY <2>1 DEF TypeInv, TypeOK, Credit, Current, Delivering, Batch
    <3> QED
      BY <3>1, <3>2, <3>3
  <2> QED
    BY <2>2, <2>3 DEF HeardAll
<1> QED
  BY <1>1, DeliveredInvHolds, TypeCorrect, PTL
-----------------------------------------------------------------------------
(* Boundary events: the same balance for what the site is told.            *)

\* The boundary events in a pipe.
BoundariesIn(ev) == Cardinality({i \in 1 .. Len(ev) : ev[i].type = "boundary"})

Counts(e) == IF e.type = "boundary" THEN 1 ELSE 0

\* An event that is written, and one that is read, counts once.
LEMMA BoundaryCount ==
    ASSUME NEW ev \in Seq(Event)
    PROVE  /\ BoundariesIn(ev) \in Nat
           /\ (\A i \in 1 .. Len(ev) : ev[i].type # "boundary") => BoundariesIn(ev) = 0
           /\ \A e \in Event : BoundariesIn(Append(ev, e)) = BoundariesIn(ev) + Counts(e)
           /\ ev # <<>> => BoundariesIn(ev) = BoundariesIn(Tail(ev)) + Counts(Head(ev))
<1> DEFINE At1(s) == {i \in 1 .. Len(s) : s[i].type = "boundary"}
<1>1. \A s \in Seq(Event) : IsFiniteSet(At1(s)) /\ Cardinality(At1(s)) \in Nat
  <2>1. TAKE s \in Seq(Event)
  <2>2. IsFiniteSet(1 .. Len(s))
    BY LenProperties, FS_Interval
  <2>3. At1(s) \in SUBSET (1 .. Len(s))
    OBVIOUS
  <2> QED
    BY <2>2, <2>3, FS_Subset, FS_CardinalityType
<1>2. ASSUME \A i \in 1 .. Len(ev) : ev[i].type # "boundary"
      PROVE  BoundariesIn(ev) = 0
  <2>1. At1(ev) = {}
    BY <1>2
  <2> QED
    BY <2>1, FS_EmptySet DEF BoundariesIn
<1>3. ASSUME NEW e \in Event
      PROVE  BoundariesIn(Append(ev, e)) = BoundariesIn(ev) + Counts(e)
  <2> DEFINE n == Len(ev)
  <2>1. /\ n \in Nat /\ Len(Append(ev, e)) = n + 1
        /\ \A i \in 1 .. n : Append(ev, e)[i] = ev[i]
        /\ Append(ev, e)[n + 1] = e
    BY LenProperties, AppendProperties
  <2>2. n + 1 \notin At1(ev)
    BY <2>1
  <2>3. CASE e.type = "boundary"
    <3>1. At1(Append(ev, e)) = At1(ev) \cup {n + 1}
      BY <2>1, <2>3
    <3>2. Cardinality(At1(ev) \cup {n + 1}) = Cardinality(At1(ev)) + 1
      BY <1>1, <2>2, FS_AddElement
    <3> QED
      BY <2>3, <3>1, <3>2 DEF BoundariesIn, Counts
  <2>4. CASE e.type # "boundary"
    <3>1. At1(Append(ev, e)) = At1(ev)
      BY <2>1, <2>4
    <3>2. BoundariesIn(Append(ev, e)) = BoundariesIn(ev)
      BY <3>1 DEF BoundariesIn
    <3>3. BoundariesIn(ev) \in Nat
      BY <1>1 DEF BoundariesIn
    <3>4. Counts(e) = 0
      BY <2>4 DEF Counts
    <3>5. \A n1 \in Nat : n1 = n1 + 0
      OBVIOUS
    <3> QED
      BY ONLY <3>2, <3>3, <3>4, <3>5
  <2> QED
    BY <2>3, <2>4
<1>4. ASSUME ev # <<>>
      PROVE  BoundariesIn(ev) = BoundariesIn(Tail(ev)) + Counts(Head(ev))
  <2> DEFINE n == Len(ev)
  <2> DEFINE Rest == {i \in At1(ev) : i # 1}
  <2>1. /\ n \in Nat /\ n >= 1 /\ Len(Tail(ev)) = n - 1 /\ Tail(ev) \in Seq(Event)
        /\ \A i \in 1 .. (n - 1) : Tail(ev)[i] = ev[i + 1]
        /\ Head(ev) = ev[1]
    BY <1>4, LenProperties, HeadTailProperties, EmptySeq
  <2>2. IsFiniteSet(At1(Tail(ev))) /\ IsFiniteSet(At1(ev)) /\ IsFiniteSet(Rest)
    <3>1. Rest \in SUBSET At1(ev)
      OBVIOUS
    <3> QED
      BY <1>1, <2>1, <3>1, FS_Subset
  <2>3. Cardinality(Rest) = Cardinality(At1(Tail(ev)))
    <3> DEFINE shift == [i \in At1(Tail(ev)) |-> i + 1]
    <3>1. \A i \in At1(Tail(ev)) : i \in Nat /\ i + 1 \in Rest
      BY <2>1
    <3>2. \A j \in Rest : j - 1 \in At1(Tail(ev)) /\ j = (j - 1) + 1
      BY <2>1
    <3>3. shift \in [At1(Tail(ev)) -> Rest]
      BY <3>1
    <3>4. \A a, b \in At1(Tail(ev)) : shift[a] = shift[b] => a = b
      BY <3>1
    <3>5. \A t \in Rest : \E s \in At1(Tail(ev)) : shift[s] = t
      BY <3>2
    <3>6. shift \in Bijection(At1(Tail(ev)), Rest)
      BY <3>3, <3>4, <3>5, Fun_IsBij, Zenon
    <3> QED
      BY <2>2, <3>6, FS_Bijection DEF ExistsBijection
  <2>4. CASE Head(ev).type = "boundary"
    <3>1. At1(ev) = Rest \cup {1}
      BY <2>1, <2>4
    <3>2. Cardinality(Rest \cup {1}) = Cardinality(Rest) + 1
      BY <2>2, FS_AddElement
    <3> QED
      BY <2>3, <2>4, <3>1, <3>2 DEF BoundariesIn, Counts
  <2>5. CASE Head(ev).type # "boundary"
    <3>1. At1(ev) = Rest
      BY <2>1, <2>5
    <3>2. BoundariesIn(ev) = BoundariesIn(Tail(ev))
      BY <2>3, <3>1 DEF BoundariesIn
    <3>3. BoundariesIn(Tail(ev)) \in Nat /\ Counts(Head(ev)) = 0
      BY <1>1, <2>1, <2>5 DEF BoundariesIn, Counts
    <3> QED
      BY <3>2, <3>3
  <2> QED
    BY <2>4, <2>5
<1> QED
  BY <1>1, <1>2, <1>3, <1>4 DEF BoundariesIn

\* The control thread has an event of r on its way to the site.
Dispatching == pc["control"] \in {"forward", "callback", "notify"}

Carrying(r) ==
    Dispatching /\ disposition.event.type = "boundary" /\ disposition.event.speakId = r

Held(r) == IF Carrying(r) THEN 1 ELSE 0

\* What was still in the pipe is lost with a provider that dies before it declared
\* its terminal; then nothing declares it any more.
CutOff == ~connected /\ events = <<>> /\ ~ctx.upstreamFinished

\* What the site was told of the speaking request, what the control thread carries
\* and what is in the pipe is what the provider sent; and a request whose terminal
\* was handled has no event with the control thread.
ToldBalance ==
    ctx.downstreamState = "Speaking" =>
        /\ \/ told[ctx.speakId] + Held(ctx.speakId) + BoundariesIn(events)
                = promised[ctx.speakId].events
           \/ CutOff
        /\ Carrying(ctx.speakId) => ~ctx.upstreamFinished

FreshTold ==
    \A r \in Ids : NotStarted(r) => told[r] = 0 /\ promised[r].events = 0 /\ ~Carrying(r)

\* An admission by the control thread is refused only to a request that is faulted.
FaultShows ==
    /\ ctx.faultPending \/ faultVisible => ctx.downstreamState = "Faulted"
    /\ faultVisible => faultPublicationStarted

\* In a call the site is that of its request.
SiteFollows == Calling => site = speakCounter

NotifyInv == pc["control"] = "notify" => disposition.event.type = "boundary"

\* The site of r was told all, and nothing more will be said of r.
ToldDone(r) ==
    /\ told[r] = promised[r].events
    /\ ~Carrying(r)
    /\ ctx.speakId = r => events = <<>> /\ ~provider.busy

ToldDoneInv ==
    /\ EndedWell => ToldDone(ctx.speakId)
    /\ \A r \in Ids : outcome[r] = "S_OK" /\ r \notin aborted => ToldDone(r)

ToldInv ==
    /\ ToldBalance /\ FreshTold /\ FaultShows /\ SiteFollows /\ NotifyInv /\ ToldDoneInv
-----------------------------------------------------------------------------
(* What one step does to the events.                                       *)

\* No event moves.
NoEvent ==
    /\ UNCHANGED <<told, disposition, events, promised, connected>>
    /\ Dispatching' <=> Dispatching
    /\ pc'["control"] = "notify" => pc["control"] = "notify"

\* The pipes are closed, or the provider dies.
HangsUp ==
    /\ UNCHANGED <<told, disposition, promised>>
    /\ ~connected' /\ events' \in {events, <<>>}
    /\ pc'["control"] = pc["control"]

ReaderMoves ==
    \/ ReadsMalformedLine \/ ReadsOrphanEvent \/ HandlesEvent
    \/ AdmitsEvent \/ CapturesEventSite \/ NotifiesSite

ProviderMoves == ProviderNext /\ UNCHANGED <<workerVars, engineVars>>

\* Readers whose pending reads are cancelled.
LEMMA HitsDispatchNothing ==
    ASSUME TypeInv, NEW hit \in PendingReads, NEW places,
           pc' = [u \in Threads |-> IF u \in hit THEN "failed" ELSE places[u]],
           places["control"] = pc["control"]
    PROVE  /\ Dispatching' <=> Dispatching
           /\ pc'["control"] = "notify" => pc["control"] = "notify"
<1>1. "control" \in Threads
  BY DEF Threads, Readers
<1>2. "control" \in hit => pc["control"] = "read"
  BY DEF PendingReads, At
<1> QED
  BY <1>1, <1>2 DEF Dispatching

\* Every step but the creation of a session.
LEMMA EventClasses ==
    ASSUME TypeInv, [Next]_vars, ~DirectCaller, ~Creates
    PROVE  NoEvent \/ HangsUp \/ ReaderMoves \/ ProviderMoves
<1> USE DEF requestVars, faultVars, timeVars, localVars, historyVars, providerVars, engineVars
<1>0. /\ Threads = {"audio", "control", "speak", "purge"}
      /\ pc \in [Threads -> Place]
  BY DEF Threads, Readers, Callers, TypeInv, TypeOK
<1>1. ASSUME NEW t \in Threads, EnterFaultedState(t)
      PROVE  NoEvent
  <2>1. UNCHANGED <<told, disposition, events, promised, connected>>
    BY <1>1 DEF EnterFaultedState, FaultsRequest, PublishesFault, CancelsIo
  <2>2. CASE FaultsRequest(t) \/ PublishesFault(t)
    BY <2>1, <2>2 DEF FaultsRequest, PublishesFault, NoEvent, Dispatching
  <2>3. CASE CancelsIo(t)
    BY <2>1, <2>3, HitsDispatchNothing DEF CancelsIo, NoEvent
  <2> QED
    BY <1>1, <2>2, <2>3 DEF EnterFaultedState
<1>2. ASSUME NEW u \in Readers, ReadBreaks(u) \/ ReadFailed(u) \/ LeavesLoop(u)
      PROVE  NoEvent
  <2>1. UNCHANGED <<told, disposition, events, promised, connected>>
    BY <1>2 DEF ReadBreaks, ReadFailed, LeavesLoop
  <2>2. pc[u] \in {"read", "failed"} /\ \E place \in {"failed", "exit"} : Goto(u, place)
    BY <1>2 DEF ReadBreaks, ReadFailed, LeavesLoop, At
  <2> QED
    BY <1>0, <2>1, <2>2 DEF Goto, NoEvent, Dispatching, Readers
<1>3. CASE AudioThread /\ UNCHANGED engineVars
  <2>1. CASE ReadBreaks("audio") \/ ReadFailed("audio") \/ LeavesLoop("audio")
    BY <1>2, <2>1 DEF Readers
  <2>2. CASE EnterFaultedState("audio")
    BY <1>0, <1>1, <2>2
  <2>3. CASE AssemblesSpeakingAudio \/ AssemblyThrows \/ DrainsCancellationAudio
             \/ FaultsOnIdleAudio \/ DrainsFaultedAudio
    <3>1. UNCHANGED <<told, disposition, events, promised, connected>>
      BY <2>3 DEF AssemblesSpeakingAudio, AssemblyThrows, DrainsCancellationAudio,
                  FaultsOnIdleAudio, DrainsFaultedAudio, Reads
    <3>2. pc' = pc \/ \E place \in Place : Goto("audio", place)
      BY <2>3 DEF AssemblesSpeakingAudio, AssemblyThrows, DrainsCancellationAudio,
                  FaultsOnIdleAudio, DrainsFaultedAudio, Place
    <3> QED
      BY <1>0, <3>1, <3>2 DEF Goto, NoEvent, Dispatching
  <2>4. CASE AdmitsSpan \/ CapturesSite \/ SiteAcceptsSpan \/ SiteRejectsSpan
             \/ UpdatesAfterDelivery
    <3>1. UNCHANGED <<told, disposition, events, promised, connected>>
      BY <2>4 DEF AdmitsSpan, CapturesSite, SiteAcceptsSpan, SiteRejectsSpan,
                  UpdatesAfterDelivery
    <3>2. \E place \in Place : Goto("audio", place)
      BY <2>4 DEF AdmitsSpan, CapturesSite, SiteAcceptsSpan, SiteRejectsSpan,
                  UpdatesAfterDelivery, Place
    <3> QED
      BY <1>0, <3>1, <3>2 DEF Goto, NoEvent, Dispatching
  <2>5. CASE AudioSendsCancel
    <3>1. UNCHANGED <<told, disposition, events, promised, connected>>
      BY <2>5 DEF AudioSendsCancel, SendsCancel, CancelSendFails
    <3>2. Goto("audio", "read")
      BY <2>5 DEF AudioSendsCancel, SendsCancel, CancelSendFails
    <3> QED
      BY <1>0, <3>1, <3>2 DEF Goto, NoEvent, Dispatching
  <2> QED
    BY <1>3, <2>1, <2>2, <2>3, <2>4, <2>5 DEF AudioThread
<1>4. CASE ControlThread /\ UNCHANGED engineVars
  BY <1>0, <1>1, <1>2, <1>4 DEF ControlThread, ReaderMoves, Readers
<1>5. CASE SpeakThread
  <2>1. CASE SpeakBegins \/ FindsSessionActive \/ HasNoSession \/ Starts \/ StartRefused
             \/ SendsSpeak \/ SpeakSendFails
    <3>1. UNCHANGED <<told, disposition, events, promised, connected>>
      BY <2>1 DEF SpeakBegins, FindsSessionActive, HasNoSession, Starts, StartRefused,
                  SendsSpeak, SpeakSendFails
    <3>2. \E place \in Place : Goto("speak", place)
      BY <2>1 DEF SpeakBegins, FindsSessionActive, HasNoSession, Starts, StartRefused,
                  SendsSpeak, SpeakSendFails, Returns, Place
    <3> QED
      BY <1>0, <3>1, <3>2 DEF Goto, NoEvent, Dispatching
  <2>2. CASE WaitEnds \/ WaitTimesOut \/ ObservesAbort \/ SpeakCancels
             \/ DrainEnds \/ DrainTimesOut \/ SpeakReturns
    <3>1. UNCHANGED <<told, disposition, events, promised, connected>>
      BY <2>2 DEF WaitEnds, WaitTimesOut, ObservesAbort, SpeakCancels, SendsCancel,
                  CancelSendFails, DrainEnds, DrainTimesOut, SpeakReturns, BeginsCancellation
    <3>2. \E place \in Place : Goto("speak", place)
      BY <2>2 DEF WaitEnds, WaitTimesOut, ObservesAbort, SpeakCancels, SendsCancel,
                  CancelSendFails, DrainEnds, DrainTimesOut, SpeakReturns, Returns, Place
    <3> QED
      BY <1>0, <3>1, <3>2 DEF Goto, NoEvent, Dispatching
  <2>3. CASE BeginsRetirement
    <3>1. PICK hit \in PendingReads :
             pc' = [u \in Threads |-> IF u = "speak" THEN "retire"
                                      ELSE IF u \in hit THEN "failed" ELSE pc[u]]
      BY <2>3 DEF BeginsRetirement
    <3>2. UNCHANGED <<told, disposition, events, promised, connected>>
      BY <2>3 DEF BeginsRetirement
    <3>3. "control" \in hit => pc["control"] = "read"
      BY <3>1 DEF PendingReads, At
    <3> QED
      BY <1>0, <3>1, <3>2, <3>3 DEF NoEvent, Dispatching
  <2>4. CASE BeginsDestruction
    <3>1. PICK hit \in PendingReads :
             pc' = [u \in Threads |-> IF u = "speak" THEN "destroy"
                                      ELSE IF u = "purge" THEN "done"
                                      ELSE IF u \in hit THEN "failed" ELSE pc[u]]
      BY <2>4 DEF BeginsDestruction
    <3>2. UNCHANGED <<told, disposition, events, promised, connected>>
      BY <2>4 DEF BeginsDestruction
    <3>3. "control" \in hit => pc["control"] = "read"
      BY <3>1 DEF PendingReads, At
    <3> QED
      BY <1>0, <3>1, <3>2, <3>3 DEF NoEvent, Dispatching
  <2>5. CASE Retires \/ Destroys
    BY <1>0, <2>5 DEF Retires, Destroys, ClosePipes, Goto, HangsUp
  <2>6. CASE EnterFaultedState("speak") /\ UNCHANGED engineVars
    BY <1>0, <1>1, <2>6
  <2> QED
    BY <1>5, <2>1, <2>2, <2>3, <2>4, <2>5, <2>6 DEF SpeakThread, Creates
<1>6. CASE (InactivityElapses \/ DeadlinePasses) /\ UNCHANGED engineVars
  BY <1>6 DEF InactivityElapses, DeadlinePasses, NoEvent, Dispatching
<1>7. CASE Terminated \/ UNCHANGED vars
  BY <1>7 DEF Terminated, vars, NoEvent, Dispatching
<1> QED
  BY <1>3, <1>4, <1>5, <1>6, <1>7 DEF Next, ProviderMoves
-----------------------------------------------------------------------------
(* The end of a request, and faults that are not found.                    *)

\* What CheckTerminalBoundaryLocked keeps, and that it finds no fault in a request
\* of which no more was read than was declared.
LEMMA BoundaryKeepsTerminal ==
    ASSUME NEW c \in Context, NEW k, c.upstreamState # "Failed"
    PROVE  LET r == CheckTerminalBoundary(c, k)
           IN /\ r.ctx \in Context
              /\ r.ctx.upstreamFinished = c.upstreamFinished
              /\ r.ctx.faultPending = c.faultPending
              /\ r.ctx.downstreamState \in {c.downstreamState, "Idle"}
              /\ r.ctx.downstreamState = "Idle" =>
                    c.downstreamState = "Idle" \/ c.upstreamFinished
              /\ (c.upstreamFinished /\ c.downstreamState = "Speaking" =>
                      /\ c.rawAudioBytesRead <= c.upstreamTerminalBytes
                      /\ c.deliveredAudioBytes <= c.rawAudioBytesRead)
                    => ~r.fault
<1> DEFINE facts == TerminalBoundaryFacts(c, k # <<>>)
           action == TerminalBoundaryAction(c, facts)
<1>1. /\ c.rawAudioBytesRead \in Nat /\ c.deliveredAudioBytes \in Nat
      /\ c.upstreamTerminalBytes \in Nat /\ c.upstreamFinished \in BOOLEAN
  BY DEF Context
<1>2. action = "OverrunFault" =>
         /\ c.upstreamFinished /\ c.downstreamState = "Speaking"
         /\ facts.speakingAudioOverrun
  BY DEF TerminalBoundaryAction, IsAwaitingTerminalAudio
<1>3. facts.speakingAudioOverrun =>
         \/ c.rawAudioBytesRead > c.upstreamTerminalBytes
         \/ c.deliveredAudioBytes > c.upstreamTerminalBytes
  BY DEF TerminalBoundaryFacts
<1>4. action \notin {"Continue", "OverrunFault"} => c.upstreamFinished
  BY DEF TerminalBoundaryAction
<1> HIDE DEF facts, action
<1>5. CASE action = "Continue"
  <2>1. CheckTerminalBoundary(c, k) = [ctx |-> c, carry |-> k, fault |-> FALSE]
    BY <1>5 DEF CheckTerminalBoundary, action, facts
  <2> QED
    BY <2>1
<1>7. CASE action = "OverrunFault"
  <2>1. CheckTerminalBoundary(c, k) = [ctx |-> c, carry |-> k, fault |-> TRUE]
    BY <1>7 DEF CheckTerminalBoundary, action, facts
  <2>2. ~(c.upstreamFinished /\ c.downstreamState = "Speaking" =>
            /\ c.rawAudioBytesRead <= c.upstreamTerminalBytes
            /\ c.deliveredAudioBytes <= c.rawAudioBytesRead)
    BY <1>1, <1>2, <1>3, <1>7
  <2> QED
    BY <2>1, <2>2
<1>6. CASE action \notin {"Continue", "OverrunFault"}
  <2>1. CheckTerminalBoundary(c, k) = [ctx |-> ResetToIdle(c), carry |-> <<>>, fault |-> FALSE]
    BY <1>6 DEF CheckTerminalBoundary, action, facts
  <2>2. /\ ResetToIdle(c) \in Context
        /\ ResetToIdle(c).upstreamFinished = c.upstreamFinished
        /\ ResetToIdle(c).faultPending = c.faultPending
        /\ ResetToIdle(c).downstreamState = "Idle"
    BY ContextOperators DEF ResetToIdle, Context
  <2> QED
    BY <1>4, <1>6, <2>1, <2>2
<1> QED
  BY <1>5, <1>6, <1>7

\* Of a request whose terminal is known no more was read than it declared.
LEMMA ReadInsideTerminal ==
    ASSUME NEW c \in Context, NEW k, NEW p \in Provider, NEW cm, NEW ev, NEW au \in Span,
           Fits(c, k, p, cm, ev, au), InUse(c), c.upstreamFinished
    PROVE  c.rawAudioBytesRead <= c.upstreamTerminalBytes
<1>1. /\ c.rawAudioBytesRead \in Nat /\ c.upstreamTerminalBytes \in Nat
      /\ p.written \in Nat /\ p.total \in Nat /\ p.written <= p.total
  BY DEF Context, Provider, Fits, ProviderFits
<1>2. Len(au) \in Nat
  BY DEF Span
<1>3. /\ Taken(c, p)
      /\ c.upstreamTerminalBytes = p.total \/ c.upstreamTerminalBytes = p.written
  BY DEF Fits, TerminalFits
<1>4. c.rawAudioBytesRead + Len(au) <= p.written
  BY <1>3 DEF Fits, AudioFits
<1> QED
  BY <1>1, <1>2, <1>3, <1>4

\* The region ends with the check of a context that differs from the one before it in
\* the bytes it counted.
Checks(c, k) ==
    /\ c \in Context
    /\ c.upstreamState = ctx.upstreamState /\ c.downstreamState = ctx.downstreamState
    /\ c.upstreamFinished = ctx.upstreamFinished /\ c.faultPending = ctx.faultPending
    /\ c.upstreamFinished /\ c.downstreamState = "Speaking" =>
          /\ c.rawAudioBytesRead <= c.upstreamTerminalBytes
          /\ c.deliveredAudioBytes <= c.rawAudioBytesRead
    /\ Publish(CheckTerminalBoundary(c, k))

\* What every step but the handling of an event does to a request: it takes no
\* terminal for it, ends it only with the terminal it had, leaves no fault pending in a
\* request that is not faulted, and faults it only for a fault some thread had in hand.
Progress ==
    /\ ctx'.faultPending => ctx.faultPending \/ ctx'.downstreamState = "Faulted"
    /\ ctx'.downstreamState = "Speaking" => ctx'.upstreamFinished = ctx.upstreamFinished
    /\ ctx.downstreamState = "Speaking" /\ ctx'.downstreamState = "Idle" => ctx.upstreamFinished
    /\ ctx'.downstreamState = "Faulted"
          => ctx.downstreamState = "Faulted" \/ \E t \in Threads : fault[t] # "none"

LEMMA ChecksProgress ==
    ASSUME LifecycleMatrix, NEW c, NEW k, Checks(c, k)
    PROVE  Progress
<1> DEFINE r == CheckTerminalBoundary(c, k)
<1>1. c.upstreamState # "Failed" /\ c \in Context
  BY DEF LifecycleMatrix, Checks, Context, DownstreamState
<1>2. /\ r.ctx \in Context /\ ~r.fault
      /\ r.ctx.upstreamFinished = c.upstreamFinished
      /\ r.ctx.faultPending = c.faultPending
      /\ r.ctx.downstreamState \in {c.downstreamState, "Idle"}
      /\ r.ctx.downstreamState = "Idle" => c.downstreamState = "Idle" \/ c.upstreamFinished
  BY <1>1, BoundaryKeepsTerminal DEF Checks
<1>3. Publish(r)
  BY DEF Checks
<1> HIDE DEF r
<1>4. ctx' = r.ctx
  BY <1>2, <1>3 DEF Publish
<1> QED
  BY <1>2, <1>4 DEF Progress, Checks

\* Of a speaking request no more was delivered, or is on its way, than was read.
LEMMA DeliveredIsRead ==
    ASSUME TypeInv, DeliveredInv, ctx.downstreamState = "Speaking"
    PROVE  /\ ctx.deliveredAudioBytes <= ctx.rawAudioBytesRead
           /\ Current => ctx.deliveredAudioBytes + batch.credited <= ctx.rawAudioBytesRead
<1>1. /\ ctx.rawAudioBytesRead \in Nat /\ ctx.deliveredAudioBytes \in Nat
      /\ batch.credited \in Nat /\ Len(carry) \in Nat
  BY DEF TypeInv, TypeOK, Batch, Context, Span
<1>2. ctx.deliveredAudioBytes + OnItsWay + Len(carry) <= ctx.rawAudioBytesRead
  BY DEF DeliveredInv, SpeakingBalanced, Balanced
<1>3. Current => Len(Flat(batch.spans)) \in Nat
  BY FlatLength DEF DeliveredInv, BatchFits, SpansOf, Current
<1>4. OnItsWay \in Nat /\ (Current => batch.credited <= OnItsWay)
  BY <1>1, <1>3 DEF OnItsWay
<1>5. \A d, w, l, n, b \in Nat : d + w + l <= n => d <= n /\ (b <= w => d + b <= n)
  OBVIOUS
<1> QED
  BY <1>1, <1>2, <1>4, <1>5

\* The audio thread ends a request only when its terminal was handled, and finds no
\* fault in the audio of a provider that keeps its contract.
LEMMA AudioProgress ==
    ASSUME TypeInv, LifecycleMatrix, SessionFits, DeliveredInv, AudioThread,
           ~EnterFaultedState("audio")
    PROVE  Progress
<1> USE DEF requestVars
<1>1. /\ ctx \in Context /\ provider \in Provider /\ audio \in Span /\ batch.credited \in Nat
      /\ ctx.rawAudioBytesRead \in Nat /\ ctx.deliveredAudioBytes \in Nat
  BY DEF TypeInv, TypeOK, Batch, Context
<1>3. /\ ctx.downstreamState = "Speaking" =>
            /\ ctx.deliveredAudioBytes <= ctx.rawAudioBytesRead
            /\ Current => ctx.deliveredAudioBytes + batch.credited <= ctx.rawAudioBytesRead
      /\ ctx.downstreamState = "Speaking" /\ ctx.upstreamFinished
            => ctx.rawAudioBytesRead <= ctx.upstreamTerminalBytes
  <2>1. ctx.downstreamState = "Speaking" /\ ctx.upstreamFinished
            => ctx.rawAudioBytesRead <= ctx.upstreamTerminalBytes
    BY <1>1, ReadInsideTerminal DEF SessionFits, InUse
  <2> QED
    BY <2>1, DeliveredIsRead
<1>4. ASSUME UNCHANGED ctx PROVE Progress
  BY <1>4 DEF Progress
<1>5. ASSUME NEW data, Reads(data)
      PROVE  /\ Counted(data) \in Context
             /\ Counted(data).upstreamState = ctx.upstreamState
             /\ Counted(data).downstreamState = ctx.downstreamState
             /\ Counted(data).upstreamFinished = ctx.upstreamFinished
             /\ Counted(data).faultPending = ctx.faultPending
             /\ Counted(data).upstreamFinished /\ Counted(data).downstreamState = "Speaking" =>
                   /\ Counted(data).rawAudioBytesRead <= Counted(data).upstreamTerminalBytes
                   /\ Counted(data).deliveredAudioBytes <= Counted(data).rawAudioBytesRead
  <2>1. /\ Counted(data) \in Context /\ Len(data) \in Nat
        /\ Counted(data).upstreamState = ctx.upstreamState
        /\ Counted(data).downstreamState = ctx.downstreamState
        /\ Counted(data).upstreamFinished = ctx.upstreamFinished
        /\ Counted(data).deliveredAudioBytes = ctx.deliveredAudioBytes
        /\ Counted(data).rawAudioBytesRead = ctx.rawAudioBytesRead + Len(data)
    BY <1>5, ReadIsOfRequest
  <2>2. Counted(data).faultPending = ctx.faultPending
    BY <1>1 DEF Counted, Context
  <2>3. /\ audio' \in Span
        /\ Fits(Counted(data), carry, provider, commands, events, audio')
    BY <1>5, ReadFits
  <2>4. Counted(data).upstreamFinished /\ Counted(data).downstreamState = "Speaking" =>
           Counted(data).rawAudioBytesRead <= Counted(data).upstreamTerminalBytes
    BY <1>1, <2>1, <2>3, ReadInsideTerminal DEF InUse
  <2>5. \A d, n, l \in Nat : d <= n => d <= n + l
    OBVIOUS
  <2>6. Counted(data).downstreamState = "Speaking" =>
           Counted(data).deliveredAudioBytes <= Counted(data).rawAudioBytesRead
    BY <1>1, <1>3, <2>1, <2>5
  <2> QED
    BY <2>1, <2>2, <2>4, <2>6
<1>6. ASSUME NEW data, Reads(data), ctx' = Counted(data)
      PROVE  Progress
  BY <1>5, <1>6 DEF Progress
<1>7. ASSUME NEW data, NEW k, Reads(data), Publish(CheckTerminalBoundary(Counted(data), k))
      PROVE  Progress
  <2>1. Checks(Counted(data), k)
    BY <1>5, <1>7 DEF Checks
  <2> QED
    BY <2>1, ChecksProgress
<1>8. CASE ReadBreaks("audio") \/ ReadFailed("audio") \/ LeavesLoop("audio")
           \/ DrainsFaultedAudio \/ AdmitsSpan \/ CapturesSite \/ SiteAcceptsSpan
           \/ SiteRejectsSpan \/ AudioSendsCancel
  BY <1>4, <1>8 DEF ReadBreaks, ReadFailed, LeavesLoop, DrainsFaultedAudio, AdmitsSpan,
                    CapturesSite, SiteAcceptsSpan, SiteRejectsSpan, AudioSendsCancel,
                    SendsCancel, CancelSendFails
<1>9. CASE AssemblesSpeakingAudio
  <2>1. PICK data \in Chunks : AssemblesSpeakingAudio!(data)
    BY <1>9 DEF AssemblesSpeakingAudio
  <2> DEFINE framed == Process(carry, SubSeq(data, 1, BytesToFrame(ctx, Len(data))))
  <2>2. Reads(data) /\ (\/ Publish(CheckTerminalBoundary(Counted(data), framed.carry))
                        \/ ctx' = Counted(data))
    BY <2>1
  <2> QED
    BY <1>6, <1>7, <2>2
<1>10. CASE AssemblyThrows
  BY <1>6, <1>10 DEF AssemblyThrows
<1>11. CASE DrainsCancellationAudio
  BY <1>7, <1>11 DEF DrainsCancellationAudio
<1>12. CASE FaultsOnIdleAudio
  <2>1. PICK data \in Chunks : Reads(data) /\ ChunkAction(ctx) = "FaultUnexpectedIdleAudio"
    BY <1>12 DEF FaultsOnIdleAudio
  <2>2. ctx.downstreamState # "Idle"
    BY <2>1, ReadFits
  <2> QED
    BY <1>1, <2>1, <2>2 DEF ChunkAction, Context, DownstreamState
<1>13. CASE UpdatesAfterDelivery
  <2> DEFINE action == BatchAction(ctx, batch.token, ~batch.accepted)
             credited == [ctx EXCEPT !.deliveredAudioBytes = @ + batch.credited]
             c == IF action = "CreditAndCheckBoundary" THEN credited ELSE ctx
  <2>1. /\ At("audio", "update")
        /\ \/ ctx' = ctx \/ Publish(CheckTerminalBoundary(c, carry))
           \/ ctx' = TransitionToCancelling(credited)
    BY <1>13 DEF UpdatesAfterDelivery
  <2>2. /\ credited \in Context
        /\ credited.upstreamState = ctx.upstreamState
        /\ credited.downstreamState = ctx.downstreamState
        /\ credited.upstreamFinished = ctx.upstreamFinished
        /\ credited.faultPending = ctx.faultPending
        /\ credited.upstreamTerminalBytes = ctx.upstreamTerminalBytes
        /\ credited.rawAudioBytesRead = ctx.rawAudioBytesRead
        /\ credited.deliveredAudioBytes = ctx.deliveredAudioBytes + batch.credited
    BY <1>1 DEF Context
  <2>3. action = "CreditAndCheckBoundary" => Token(ctx) = batch.token
    BY DEF BatchAction
  <2>4. Delivering
    BY <2>1 DEF At, Delivering
  <2> HIDE DEF action, credited
  <2>5. /\ c \in Context
        /\ c.upstreamState = ctx.upstreamState
        /\ c.downstreamState = ctx.downstreamState
        /\ c.upstreamFinished = ctx.upstreamFinished
        /\ c.faultPending = ctx.faultPending
        /\ c.upstreamFinished /\ c.downstreamState = "Speaking" =>
              /\ c.rawAudioBytesRead <= c.upstreamTerminalBytes
              /\ c.deliveredAudioBytes <= c.rawAudioBytesRead
    <3>1. CASE action = "CreditAndCheckBoundary"
      BY <1>3, <2>2, <2>3, <2>4, <3>1 DEF Current
    <3>2. CASE action # "CreditAndCheckBoundary"
      BY <1>1, <1>3, <3>2
    <3> QED
      BY <3>1, <3>2
  <2> HIDE DEF c
  <2>6. CASE Publish(CheckTerminalBoundary(c, carry))
    <3>1. Checks(c, carry)
      BY <2>5, <2>6 DEF Checks
    <3> QED
      BY <3>1, ChecksProgress
  <2>7. CASE ctx' = TransitionToCancelling(credited)
    BY <2>2, <2>7 DEF TransitionToCancelling, Progress, Context
  <2> QED
    BY <1>4, <2>1, <2>6, <2>7
<1> QED
  BY <1>8, <1>9, <1>10, <1>11, <1>12, <1>13 DEF AudioThread

\* In the same way the control thread finds a fault only in a terminal event that comes
\* for a request that has its terminal, and that is faulted in the same region.
LEMMA EventFindsFault ==
    ASSUME TypeInv, LifecycleMatrix, SessionFits, DeliveredInv, events # <<>>
    PROVE  LET event == Head(events)
               r     == HandleParsedControlEvent(event)
           IN /\ r.fault => /\ event.type \in {"complete", "cancelled"}
                            /\ ctx.upstreamFinished
                            /\ r.ctx.downstreamState = "Faulted"
              /\ r.ctx.downstreamState = "Faulted"
                    => r.fault \/ ctx.downstreamState = "Faulted"
<1> DEFINE event == Head(events)
           r == HandleParsedControlEvent(event)
<1>1. /\ event \in Event /\ EventFits(provider, event) /\ Taken(ctx, provider)
      /\ ctx.downstreamState # "Idle"
  BY NextEventFits
<1>2. /\ ctx \in Context /\ provider \in Provider /\ audio \in Span
      /\ ctx.upstreamState # "Failed"
  BY MatrixExcludesFailed DEF TypeInv, TypeOK
<1>3. event.speakId = ctx.speakId /\ event.valid
      /\ event.type \in {"boundary", "complete", "cancelled", "logError"}
  BY <1>1 DEF EventFits, Taken
<1>4. CASE event.type = "boundary"
  <2>1. EventAction(event, ctx) = "SpeechBoundary"
    BY <1>3, <1>4 DEF EventAction
  <2> DEFINE bad == EventAction(event, ctx) \in {"MalformedSpeechBoundary", "FatalLog"}
  <2>2. r = [ctx |-> ctx, carry |-> carry, fault |-> bad]
    BY <2>1 DEF HandleParsedControlEvent
  <2>3. bad \in BOOLEAN /\ ~bad
    BY <2>1
  <2> HIDE DEF bad, r
  <2>4. ~r.fault /\ r.ctx = ctx
    BY <2>2, <2>3
  <2> QED
    BY <2>4 DEF r
<1>5. CASE event.type = "logError"
  <2>1. EventAction(event, ctx) = "RequestErrorLog"
    BY <1>3, <1>5 DEF EventAction, IsTerminalEvent
  <2> DEFINE failed == [ctx EXCEPT !.upstreamState = "Failed", !.upstreamFinished = TRUE,
                                   !.completionHr = "E_FAIL",
                                   !.upstreamTerminalBytes = ctx.rawAudioBytesRead]
  <2>2. r = CheckTerminalBoundary(failed, carry)
    BY <2>1 DEF HandleParsedControlEvent, HandleErrorLog
  <2>3. failed \in Context /\ failed.upstreamState = "Failed"
    BY <1>2 DEF Context, UpstreamState, HResult
  <2> HIDE DEF failed
  <2>4. r = [ctx |-> ResetToIdle(failed), carry |-> <<>>, fault |-> FALSE]
    BY <2>2, <2>3 DEF CheckTerminalBoundary, TerminalBoundaryAction
  <2>5. ResetToIdle(failed).downstreamState = "Idle"
    BY <2>3 DEF ResetToIdle, Context
  <2> HIDE DEF r
  <2>6. ~r.fault /\ r.ctx.downstreamState = "Idle"
    BY <2>4, <2>5
  <2> QED
    BY <2>6 DEF r
<1>6. CASE event.type \in {"complete", "cancelled"}
  <2> DEFINE aligned == IsTerminalByteCountFrameAligned(event.bytes, BlockAlign)
             action == UpstreamTerminalAction(ctx, event.valid, aligned)
  <2>1. EventAction(event, ctx) = "Terminal"
    BY <1>3, <1>6 DEF EventAction, IsTerminalEvent
  <2>2. r = HandleTerminalEvent(event)
    BY <2>1 DEF HandleParsedControlEvent
  <2>3. CASE action # "Apply"
    <3>1. r = [ctx |-> TransitionRequestToFaulted(ctx), carry |-> carry, fault |-> TRUE]
      BY <2>2, <2>3 DEF HandleTerminalEvent
    <3>2. TransitionRequestToFaulted(ctx).downstreamState = "Faulted"
      BY <1>2 DEF TransitionRequestToFaulted, Context
    <3>3. aligned
      BY <1>1, <1>6 DEF EventFits, SessionFits, Fits, ProviderFits,
                        IsTerminalByteCountFrameAligned
    <3>4. ctx.upstreamFinished
      BY <1>3, <2>3, <3>3 DEF UpstreamTerminalAction
    <3> HIDE DEF r
    <3>5. r.ctx.downstreamState = "Faulted" /\ r.fault
      BY <3>1, <3>2
    <3> QED
      BY <1>6, <3>4, <3>5 DEF r
  <2>4. CASE action = "Apply"
    <3> DEFINE applied == [ctx EXCEPT !.upstreamTerminalBytes = event.bytes,
                                      !.upstreamFinished = TRUE,
                                      !.upstreamState = IF event.type = "complete"
                                                        THEN "Completed" ELSE "Cancelled"]
    <3>1. r = CheckTerminalBoundary(applied, carry)
      BY <2>2, <2>4 DEF HandleTerminalEvent
    <3>2. /\ applied \in Context /\ applied.upstreamState # "Failed"
          /\ applied.upstreamTerminalBytes = event.bytes
          /\ applied.downstreamState = ctx.downstreamState
          /\ applied.rawAudioBytesRead = ctx.rawAudioBytesRead
          /\ applied.deliveredAudioBytes = ctx.deliveredAudioBytes
      BY <1>1, <1>2 DEF Context, UpstreamState, Event
    <3> HIDE DEF applied
    <3>3. ctx.rawAudioBytesRead <= event.bytes
      <4>1. /\ ctx.rawAudioBytesRead \in Nat /\ provider.written \in Nat
            /\ provider.total \in Nat /\ provider.written <= provider.total
            /\ Len(audio) \in Nat
        BY <1>2 DEF Context, Provider, SessionFits, Fits, ProviderFits, Span
      <4>2. ctx.rawAudioBytesRead + Len(audio) <= provider.written
        BY <1>1 DEF SessionFits, Fits, AudioFits
      <4>3. event.bytes \in {provider.total, provider.written}
        BY <1>1, <1>6 DEF EventFits
      <4> QED
        BY <4>1, <4>2, <4>3
    <3>4. ctx.downstreamState = "Speaking" => ctx.deliveredAudioBytes <= ctx.rawAudioBytesRead
      BY DeliveredIsRead
    <3>5. /\ ~CheckTerminalBoundary(applied, carry).fault
          /\ CheckTerminalBoundary(applied, carry).ctx.downstreamState
                \in {applied.downstreamState, "Idle"}
      BY <3>2, <3>3, <3>4, BoundaryKeepsTerminal
    <3> HIDE DEF r
    <3>6. ~r.fault /\ r.ctx.downstreamState \in {ctx.downstreamState, "Idle"}
      BY <3>1, <3>2, <3>5
    <3> QED
      BY <3>6 DEF r
  <2> QED
    BY <2>3, <2>4
<1> QED
  BY <1>3, <1>4, <1>5, <1>6

\* So it leaves no fault pending in a request that is not faulted.
LEMMA EventProgress ==
    ASSUME TypeInv, LifecycleMatrix, SessionFits, DeliveredInv, NoLateErrorLog, HandlesEvent
    PROVE  ctx'.faultPending => ctx.faultPending \/ ctx'.downstreamState = "Faulted"
<1> DEFINE event == Head(events)
           r == HandleParsedControlEvent(event)
<1>1. /\ events # <<>> /\ Publish(r)
      /\ At("control", "read")
  BY DEF HandlesEvent, NextEvent
<1>2. /\ event \in Event /\ EventFits(provider, event) /\ Taken(ctx, provider)
      /\ ctx.downstreamState # "Idle"
  BY <1>1, NextEventFits
<1>3. Marked(ctx) => EventAction(event, ctx) # "RequestErrorLog"
  BY <1>1 DEF NoLateErrorLog
<1>4. r.ctx \in Context /\ r.ctx.faultPending = ctx.faultPending
  BY <1>2, <1>3, EventMark, EventEnds
<1>5. ~r.fault \/ r.ctx.downstreamState = "Faulted"
  BY <1>1, EventFindsFault
<1> HIDE DEF r
<1>6. CASE r.fault
  <2>1. ctx' = [r.ctx EXCEPT !.faultPending = TRUE]
    BY <1>1, <1>6 DEF Publish
  <2> QED
    BY <1>4, <1>5, <1>6, <2>1 DEF Context
<1>7. CASE ~r.fault
  BY <1>1, <1>4, <1>7 DEF Publish
<1> QED
  BY <1>6, <1>7

\* EnterFaultedState.
LEMMA FaultProgress ==
    ASSUME TypeInv, NEW t \in Threads, EnterFaultedState(t)
    PROVE  Progress
<1>1. ctx \in Context /\ fault[t] # "none"
  BY DEF TypeInv, TypeOK, EnterFaultedState, FaultsRequest, PublishesFault, CancelsIo
<1>2. CASE FaultsRequest(t)
  <2>1. ctx'.downstreamState = "Faulted"
    BY <1>1, <1>2 DEF FaultsRequest, TransitionRequestToFaulted, Context
  <2> QED
    BY <1>1, <2>1 DEF Progress
<1>3. CASE PublishesFault(t)
  BY <1>1, <1>3 DEF PublishesFault, Progress, Context
<1>4. CASE CancelsIo(t)
  BY <1>4 DEF CancelsIo, requestVars, Progress
<1> QED
  BY <1>2, <1>3, <1>4 DEF EnterFaultedState

\* Every step that stays in the session.
LEMMA StepProgress ==
    ASSUME TypeInv, LifecycleMatrix, SessionFits, DeliveredInv, [Next]_vars,
           ~DirectCaller, ~Starts, ~Creates, ~HandlesEvent
    PROVE  Progress
<1> USE DEF requestVars
<1>1. ASSUME UNCHANGED ctx PROVE Progress
  BY <1>1 DEF Progress
<1>2. {"audio", "control", "speak"} \subseteq Threads
  BY DEF Threads, Readers, Callers
<1>3. CASE AudioThread
  BY <1>2, <1>3, AudioProgress, FaultProgress
<1>4. CASE ControlThread
  <2>1. CASE EnterFaultedState("control")
    BY <1>2, <2>1, FaultProgress
  <2>2. ~ReadsOrphanEvent
    <3>1. SUFFICES ASSUME ReadsOrphanEvent PROVE FALSE
      OBVIOUS
    <3>2. events # <<>> /\ Head(events).speakId = 0
      BY <3>1 DEF ReadsOrphanEvent, NextEvent
    <3> QED
      BY <3>2, NextEventFits DEF EventFits, Taken
  <2>3. CASE ReadBreaks("control") \/ ReadFailed("control") \/ LeavesLoop("control")
             \/ ReadsMalformedLine \/ AdmitsEvent \/ CapturesEventSite \/ NotifiesSite
    BY <1>1, <2>3 DEF ReadBreaks, ReadFailed, LeavesLoop, ReadsMalformedLine, AdmitsEvent,
                      CapturesEventSite, NotifiesSite
  <2> QED
    BY <1>4, <2>1, <2>2, <2>3 DEF ControlThread
<1>5. CASE SpeakThread
  <2>1. CASE SpeakBegins \/ FindsSessionActive \/ BeginsRetirement \/ Retires \/ HasNoSession
             \/ StartRefused \/ SendsSpeak \/ SpeakSendFails
    BY <1>1, <2>1 DEF SpeakBegins, FindsSessionActive, BeginsRetirement, Retires, HasNoSession,
                      StartRefused, SendsSpeak, SpeakSendFails
  <2>2. CASE WaitEnds \/ WaitTimesOut \/ SpeakCancels \/ DrainEnds \/ DrainTimesOut
             \/ SpeakReturns \/ BeginsDestruction \/ Destroys
    BY <1>1, <2>2 DEF WaitEnds, WaitTimesOut, SpeakCancels, SendsCancel, CancelSendFails,
                      DrainEnds, DrainTimesOut, SpeakReturns, BeginsDestruction, Destroys
  <2>3. CASE ObservesAbort
    <3>1. ctx' = TransitionToCancelling(ctx) /\ ctx \in Context
      BY <2>3 DEF ObservesAbort, BeginsCancellation, TypeInv, TypeOK
    <3>2. ctx'.downstreamState = "Cancelling" /\ ctx'.faultPending = ctx.faultPending
      BY <3>1 DEF TransitionToCancelling, Context
    <3> QED
      BY <3>2 DEF Progress
  <2>4. CASE EnterFaultedState("speak")
    BY <1>2, <2>4, FaultProgress
  <2> QED
    BY <1>5, <2>1, <2>2, <2>3, <2>4 DEF SpeakThread, Creates
<1>6. CASE \/ InactivityElapses \/ DeadlinePasses \/ Terminated \/ UNCHANGED vars
           \/ ProviderNext /\ UNCHANGED <<workerVars, engineVars>>
  BY <1>1, <1>6 DEF InactivityElapses, DeadlinePasses, Terminated, vars, workerVars
<1> QED
  BY <1>3, <1>4, <1>5, <1>6 DEF Next

\* Without a session no step touches the request.
LEMMA RetiredKeepsContext ==
    ASSUME TypeInv, RetiredIsQuiet, CallInv, session # "live", [Next]_vars, ~Creates
    PROVE  ctx' = ctx
<1> USE DEF requestVars
<1>1. ~AudioThread /\ ~ControlThread /\ ~DirectCaller /\ ~EnterFaultedState("speak")
  BY NobodyInRetired
<1>2. CASE SpeakThread
  <2>1. pc["speak"] \notin {"start", "send", "wait", "sendCancel", "drain"}
    BY DEF CallInv, CallHasSession
  <2>2. ~(Starts \/ ObservesAbort)
    BY <2>1 DEF Starts, ObservesAbort, At
  <2>3. CASE SpeakBegins \/ FindsSessionActive \/ BeginsRetirement \/ Retires \/ HasNoSession
             \/ StartRefused \/ SendsSpeak \/ SpeakSendFails
    BY <2>3 DEF SpeakBegins, FindsSessionActive, BeginsRetirement, Retires, HasNoSession,
                StartRefused, SendsSpeak, SpeakSendFails
  <2>4. CASE WaitEnds \/ WaitTimesOut \/ SpeakCancels \/ DrainEnds \/ DrainTimesOut
             \/ SpeakReturns \/ BeginsDestruction \/ Destroys
    BY <2>4 DEF WaitEnds, WaitTimesOut, SpeakCancels, SendsCancel, CancelSendFails,
                DrainEnds, DrainTimesOut, SpeakReturns, BeginsDestruction, Destroys
  <2> QED
    BY <1>1, <1>2, <2>2, <2>3, <2>4 DEF SpeakThread, Creates
<1>3. CASE \/ InactivityElapses \/ DeadlinePasses \/ Terminated \/ UNCHANGED vars
           \/ ProviderNext /\ UNCHANGED <<workerVars, engineVars>>
  BY <1>3 DEF InactivityElapses, DeadlinePasses, Terminated, vars, workerVars
<1> QED
  BY <1>1, <1>2, <1>3 DEF Next

\* A fault becomes visible only in the thread that publishes it.
LEMMA FaultBecomesVisible ==
    ASSUME [Next]_vars, ~DirectCaller, ~Creates
    PROVE  \/ UNCHANGED faultVars
           \/ \E t \in Threads : FaultsRequest(t) \/ PublishesFault(t)
<1>1. \A t : CancelsIo(t) => UNCHANGED faultVars
  BY DEF CancelsIo
<1>2. {"audio", "control", "speak"} \subseteq Threads
  BY DEF Threads, Readers, Callers
<1>3. ASSUME NEW u, ReadBreaks(u) \/ ReadFailed(u) \/ LeavesLoop(u)
      PROVE  UNCHANGED faultVars
  BY <1>3 DEF ReadBreaks, ReadFailed, LeavesLoop
<1>4. CASE AudioThread
  <2>1. CASE AssemblesSpeakingAudio \/ AssemblyThrows \/ DrainsCancellationAudio
             \/ FaultsOnIdleAudio \/ DrainsFaultedAudio
    BY <2>1 DEF AssemblesSpeakingAudio, AssemblyThrows, DrainsCancellationAudio,
                FaultsOnIdleAudio, DrainsFaultedAudio
  <2>2. CASE AdmitsSpan \/ CapturesSite \/ SiteAcceptsSpan \/ SiteRejectsSpan
             \/ UpdatesAfterDelivery \/ AudioSendsCancel
    BY <2>2 DEF AdmitsSpan, CapturesSite, SiteAcceptsSpan, SiteRejectsSpan,
                UpdatesAfterDelivery, AudioSendsCancel, SendsCancel, CancelSendFails
  <2> QED
    BY <1>1, <1>2, <1>3, <1>4, <2>1, <2>2 DEF AudioThread, EnterFaultedState
<1>5. CASE ControlThread
  <2>1. CASE ReadsMalformedLine \/ ReadsOrphanEvent \/ HandlesEvent \/ AdmitsEvent
             \/ CapturesEventSite \/ NotifiesSite
    BY <2>1 DEF ReadsMalformedLine, ReadsOrphanEvent, HandlesEvent, AdmitsEvent,
                CapturesEventSite, NotifiesSite
  <2> QED
    BY <1>1, <1>2, <1>3, <1>5, <2>1 DEF ControlThread, EnterFaultedState
<1>6. CASE SpeakThread
  <2>1. CASE SpeakBegins \/ FindsSessionActive \/ BeginsRetirement \/ Retires \/ HasNoSession
             \/ Starts \/ StartRefused \/ SendsSpeak \/ SpeakSendFails
    BY <2>1 DEF SpeakBegins, FindsSessionActive, BeginsRetirement, Retires, HasNoSession,
                Starts, StartRefused, SendsSpeak, SpeakSendFails
  <2>2. CASE WaitEnds \/ WaitTimesOut \/ ObservesAbort \/ SpeakCancels \/ DrainEnds
             \/ DrainTimesOut \/ SpeakReturns \/ BeginsDestruction \/ Destroys
    BY <2>2 DEF WaitEnds, WaitTimesOut, ObservesAbort, SpeakCancels, SendsCancel,
                CancelSendFails, DrainEnds, DrainTimesOut, SpeakReturns, BeginsDestruction,
                Destroys
  <2> QED
    BY <1>1, <1>2, <1>6, <2>1, <2>2 DEF SpeakThread, EnterFaultedState, Creates
<1>7. CASE \/ InactivityElapses \/ DeadlinePasses \/ Terminated \/ UNCHANGED vars
           \/ ProviderNext /\ UNCHANGED <<workerVars, engineVars>>
  BY <1>7 DEF InactivityElapses, DeadlinePasses, Terminated, vars, workerVars, faultVars
<1> QED
  BY <1>4, <1>5, <1>6, <1>7 DEF Next

\* What shows a fault stays on the session until the next.
LEMMA FaultShowsKept ==
    ASSUME TypeInv, TypeInv', LifecycleMatrix, CallInv, SessionInv, SessionInv',
           QuarantineInv, NoLateErrorLog, SessionFits, DeliveredInv, FaultShows, [Next]_vars,
           ~DirectCaller, ~Starts, ~Creates
    PROVE  FaultShows'
<1>1. ctx.downstreamState = "Faulted" => ctx'.downstreamState = "Faulted"
  <2>1. MarkStep
    BY EveryMarkStep DEF SessionInv
  <2>2. CASE session = "live"
    BY <2>1, <2>2, QuarantineStep
  <2>3. CASE session # "live"
    BY <2>3, RetiredKeepsContext DEF SessionInv
  <2> QED
    BY <2>2, <2>3
<1>2. ctx'.faultPending => ctx'.downstreamState = "Faulted"
  <2>1. ctx'.faultPending => ctx.faultPending \/ ctx'.downstreamState = "Faulted"
    BY StepProgress, EventProgress DEF Progress
  <2> QED
    BY <1>1, <2>1 DEF FaultShows
<1>3. /\ faultVisible' => ctx'.downstreamState = "Faulted"
      /\ faultVisible' => faultPublicationStarted'
  <2>1. CASE UNCHANGED faultVars
    BY <1>1, <2>1 DEF FaultShows, faultVars
  <2>2. ASSUME NEW t \in Threads, FaultsRequest(t)
        PROVE  faultVisible' = faultVisible /\ faultPublicationStarted'
    BY <2>2 DEF FaultsRequest
  <2>3. ASSUME NEW t \in Threads, PublishesFault(t)
        PROVE  faultPublicationStarted' /\ ctx.downstreamState = "Faulted"
    BY <2>3 DEF PublishesFault, QuarantineInv
  <2> QED
    BY <1>1, <2>1, <2>2, <2>3, FaultBecomesVisible DEF FaultShows
<1> QED
  BY <1>2, <1>3 DEF FaultShows
-----------------------------------------------------------------------------
(* The classes of steps, for the events.                                   *)

CarriesOn == \A r : Carrying(r)' <=> Carrying(r)

\* No site is told anything, and nothing is sent for any request.
Unsaid == told' = told /\ \A r \in Ids : promised'[r].events = promised[r].events

\* No event moves; what was in the pipe is lost with it; the control thread takes
\* the next event, drops the one it has, or tells the site; the provider sends one.
Idles == Unsaid /\ CarriesOn /\ UNCHANGED <<events, connected>>

Loses == Unsaid /\ CarriesOn /\ ~connected' /\ events' \in {events, <<>>}

Takes ==
    /\ Unsaid
    /\ events # <<>> /\ events' = Tail(events) /\ connected' = connected
    /\ \A r : ~Carrying(r)
    /\ \A r : Carrying(r)' => Head(events).type = "boundary" /\ r = ctx.speakId
    /\ ctx.downstreamState = "Speaking" /\ Head(events).type = "boundary"
          => Carrying(ctx.speakId)' /\ ctx' = ctx

Drops ==
    /\ Unsaid
    /\ UNCHANGED <<events, connected, ctx>>
    /\ \A r : ~Carrying(r)'
    /\ ctx.downstreamState = "Speaking" => ~Carrying(ctx.speakId)

Tells ==
    /\ UNCHANGED <<events, connected, ctx, promised>>
    /\ \A r : ~Carrying(r)'
    /\ \E r : Carrying(r) /\ told' = [told EXCEPT ![r] = @ + 1]

Says ==
    /\ told' = told /\ ctx' = ctx
    /\ CarriesOn
    /\ connected /\ connected' /\ Taken(ctx, provider) /\ provider.busy
    /\ \E e \in Event :
          /\ events' = Append(events, e)
          /\ \A r \in Ids : promised'[r].events =
                promised[r].events + (IF r = ctx.speakId THEN Counts(e) ELSE 0)

TellStep == Idles \/ Loses \/ Takes \/ Drops \/ Tells \/ Says

\* The control thread takes every boundary event of a speaking request to the site.
LEMMA HandlingTakes ==
    ASSUME TypeInv, LifecycleMatrix, SessionFits, FaultShows, HandlesEvent
    PROVE  Takes
<1> DEFINE event == Head(events)
           r == HandleParsedControlEvent(event)
<1>1. /\ events # <<>> /\ pc["control"] = "read" /\ Publish(r)
      /\ events' = Tail(events) /\ connected' = connected
      /\ promised' = promised /\ told' = told
  BY DEF HandlesEvent, NextEvent, At, historyVars
<1>2. EventFits(provider, event) /\ Taken(ctx, provider)
  BY <1>1, NextEventFits
<1>3. event.speakId = ctx.speakId /\ event.valid
  BY <1>2 DEF EventFits, Taken
<1>4. "control" \in Threads /\ pc \in [Threads -> Place]
  BY DEF Threads, Readers, TypeInv, TypeOK
<1>5. IF ShouldForwardToSapi(event, ctx)
      THEN pc'["control"] = "forward" /\ disposition'.event = event
      ELSE pc'["control"] = "read"
  BY <1>1, <1>4 DEF HandlesEvent, Goto
<1>6. \A q : ~Carrying(q)
  BY <1>1 DEF Carrying, Dispatching
<1>7. \A q : Carrying(q)' => event.type = "boundary" /\ q = ctx.speakId
  <2>1. TAKE q
  <2>2. CASE ShouldForwardToSapi(event, ctx)
    <3>1. disposition'.event = event
      BY <1>5, <2>2
    <3> HIDE DEF event
    <3> QED
      BY <1>3, <3>1 DEF Carrying
  <2>3. CASE ~ShouldForwardToSapi(event, ctx)
    BY <1>5, <2>3 DEF Carrying, Dispatching
  <2> QED
    BY <2>2, <2>3
<1>8. ASSUME ctx.downstreamState = "Speaking", event.type = "boundary"
      PROVE  Carrying(ctx.speakId)' /\ ctx' = ctx
  <2>1. Usable(ctx)
    BY <1>8 DEF Usable, LifecycleMatrix, FaultShows
  <2>2. ShouldForwardToSapi(event, ctx)
    BY <1>3, <1>8, <2>1 DEF ShouldForwardToSapi
  <2>3. pc'["control"] = "forward" /\ disposition'.event = event
    BY <1>5, <2>2
  <2>4. EventAction(event, ctx) = "SpeechBoundary"
    BY <1>3, <1>8 DEF EventAction
  <2> DEFINE bad == EventAction(event, ctx) \in {"MalformedSpeechBoundary", "FatalLog"}
  <2>5. r = [ctx |-> ctx, carry |-> carry, fault |-> bad]
    BY <2>4 DEF HandleParsedControlEvent
  <2>6. bad \in BOOLEAN /\ ~bad
    BY <2>4
  <2>7. ctx' = ctx
    <3> HIDE DEF bad, r
    <3> QED
      BY <1>1, <2>5, <2>6 DEF Publish
  <2>8. ctx'.speakId = event.speakId
    BY <1>3, <2>7
  <2>9. Carrying(ctx.speakId)'
    <3> HIDE DEF event
    <3> QED
      BY <1>8, <2>3, <2>8 DEF Carrying, Dispatching
  <2> QED
    BY <2>7, <2>9
<1> QED
  BY <1>1, <1>6, <1>7, <1>8 DEF Takes, Unsaid

\* What it carries to the site of a speaking request is admitted, finds the site of
\* that request, and is told.
LEMMA ReaderTells ==
    ASSUME TypeInv, LifecycleMatrix, CallInv, OwnerInv, SessionFits, FaultShows, SiteFollows,
           NotifyInv, ReaderMoves
    PROVE  TellStep
<1> USE DEF requestVars, faultVars, timeVars, localVars, historyVars, providerVars
<1>1. "control" \in Threads /\ pc \in [Threads -> Place]
  BY DEF Threads, Readers, TypeInv, TypeOK
<1>2. CASE HandlesEvent
  BY <1>2, HandlingTakes DEF TellStep
<1>3. ~ReadsMalformedLine /\ ~ReadsOrphanEvent
  <2>1. SUFFICES ASSUME ReadsMalformedLine \/ ReadsOrphanEvent PROVE FALSE
    OBVIOUS
  <2>2. events # <<>> /\ (Head(events).speakId = 0 \/ Head(events).type = "malformed")
    BY <2>1 DEF ReadsMalformedLine, ReadsOrphanEvent, NextEvent
  <2> QED
    BY <2>2, NextEventFits DEF EventFits, Taken
<1>4. ASSUME Dispatched PROVE \A r : ~Carrying(r)'
  BY <1>1, <1>4 DEF Dispatched, Goto, Carrying, Dispatching
<1>5. ASSUME NEW place \in {"callback", "notify"}, Goto("control", place), Dispatching,
             UNCHANGED <<disposition, told, promised, events, connected>>
      PROVE  TellStep
  <2>1. Dispatching'
    BY <1>1, <1>5 DEF Goto, Dispatching
  <2>2. CarriesOn
    BY <1>5, <2>1 DEF CarriesOn, Carrying
  <2> QED
    BY <1>5, <2>2 DEF TellStep, Idles, Unsaid
<1>6. CASE AdmitsEvent
  <2>1. UNCHANGED <<told, promised, events, connected, ctx>> /\ Dispatching
    BY <1>6 DEF AdmitsEvent, At, Dispatching
  <2>2. CASE ~faultVisible /\ FinalAdmission(disposition.event, ctx)
    BY <1>5, <1>6, <2>1, <2>2 DEF AdmitsEvent
  <2>3. CASE ~(~faultVisible /\ FinalAdmission(disposition.event, ctx))
    <3>1. ctx.downstreamState = "Speaking" => ~Carrying(ctx.speakId)
      BY <2>3 DEF FaultShows, FinalAdmission, Carrying
    <3>2. Dispatched
      BY <1>6, <2>3 DEF AdmitsEvent
    <3> QED
      BY <1>4, <2>1, <3>1, <3>2 DEF TellStep, Drops, Unsaid
  <2> QED
    BY <2>2, <2>3
<1>7. CASE CapturesEventSite
  <2>1. UNCHANGED <<told, promised, events, connected, ctx>> /\ Dispatching
    BY <1>7 DEF CapturesEventSite, At, Dispatching
  <2>2. CASE disposition.event.speakId = site /\ disposition.event.type = "boundary"
    BY <1>5, <1>7, <2>1, <2>2 DEF CapturesEventSite
  <2>3. CASE ~(disposition.event.speakId = site /\ disposition.event.type = "boundary")
    <3>1. ctx.downstreamState = "Speaking" => site = ctx.speakId
      <4>1. SUFFICES ASSUME ctx.downstreamState = "Speaking" PROVE site = ctx.speakId
        OBVIOUS
      <4>2. Calling
        BY <4>1 DEF CallInv, NoRequestOutside, Outside, InUse, Calling
      <4> QED
        BY <4>1, <4>2 DEF SiteFollows, OwnerInv, InUse
    <3>2. ctx.downstreamState = "Speaking" => ~Carrying(ctx.speakId)
      BY <2>3, <3>1 DEF Carrying
    <3>3. Dispatched
      BY <1>7, <2>3 DEF CapturesEventSite
    <3> QED
      BY <1>4, <2>1, <3>2, <3>3 DEF TellStep, Drops, Unsaid
  <2> QED
    BY <2>2, <2>3
<1>8. CASE NotifiesSite
  <2>1. /\ UNCHANGED <<promised, events, connected, ctx>> /\ Dispatched
        /\ told' = [told EXCEPT ![disposition.event.speakId] = @ + 1]
        /\ pc["control"] = "notify"
    BY <1>8 DEF NotifiesSite, At
  <2>2. Carrying(disposition.event.speakId)
    BY <2>1 DEF Carrying, Dispatching, NotifyInv
  <2> QED
    BY <1>4, <2>1, <2>2 DEF TellStep, Tells
<1> QED
  BY <1>2, <1>3, <1>6, <1>7, <1>8 DEF ReaderMoves

\* A provider at work is the only one that says anything, and says it of the request
\* of the context.
LEMMA ProviderTells ==
    ASSUME TypeInv, SessionFits, ContractKept, ProviderMoves
    PROVE  TellStep
<1>1. /\ told' = told /\ ctx' = ctx /\ disposition' = disposition /\ pc' = pc
      /\ ProviderNext
  BY DEF ProviderMoves, workerVars
<1>2. CarriesOn
  BY <1>1 DEF CarriesOn, Carrying, Dispatching
<1>3. /\ provider \in Provider /\ commands \in Seq(Command) /\ events \in Seq(Event)
      /\ promised \in [Ids -> Promise]
  BY DEF TypeInv, TypeOK
<1>4. ASSUME NEW e \in Event, provider.busy, connected, connected' = connected,
             events' = Append(events, e), e.type # "boundary", promised' = promised
      PROVE  TellStep
  <2>1. Taken(ctx, provider)
    BY <1>4, BusyFits
  <2>2. Counts(e) = 0
    BY <1>4 DEF Counts
  <2>3. \A r \in Ids : promised'[r].events =
            promised[r].events + (IF r = ctx.speakId THEN Counts(e) ELSE 0)
    BY <1>3, <1>4, <2>2 DEF Promise
  <2> QED
    BY <1>1, <1>2, <1>4, <2>1, <2>3 DEF TellStep, Says
<1>5. ASSUME UNCHANGED <<events, connected>>, \A r \in Ids : promised'[r].events = promised[r].events
      PROVE  TellStep
  BY <1>1, <1>2, <1>5 DEF TellStep, Idles, Unsaid
<1>6. CASE TakesSpeak
  <2>1. PICK total \in Totals :
           promised' = [promised EXCEPT ![Head(commands).speakId].audio = total]
    BY <1>6 DEF TakesSpeak
  <2>2. \A r \in Ids : promised'[r].events = promised[r].events
    BY <1>3, <2>1 DEF Promise
  <2>3. UNCHANGED <<events, connected>>
    BY <1>6 DEF TakesSpeak
  <2> QED
    BY <1>5, <2>2, <2>3
<1>7. CASE RefusesOverlap
  <2>1. Head(commands).speakId \in Nat
    <3>1. commands # <<>>
      BY <1>7 DEF RefusesOverlap, NextCommandIs
    <3>2. Head(commands) \in Command
      BY <1>3, <3>1, HeadTailProperties
    <3> QED
      BY <3>2, ProviderAssumption DEF Command
  <2>2. EventOf("logError", Head(commands).speakId, 0) \in Event
    BY <2>1 DEF EventOf, Event, EventType
  <2>3. EventOf("logError", Head(commands).speakId, 0).type # "boundary"
    BY DEF EventOf
  <2> QED
    BY <1>4, <1>7, <2>2, <2>3 DEF RefusesOverlap, NextCommandIs, Emit
<1>8. CASE WritesFrame \/ IgnoresCancel
  BY <1>5, <1>8 DEF WritesFrame, IgnoresCancel
<1>9. CASE EmitsBoundary
  <2> DEFINE e == EventOf("boundary", provider.speakId, 0)
  <2>1. /\ connected /\ connected' = connected /\ provider.busy /\ Emit(e)
        /\ promised' = [promised EXCEPT ![provider.speakId].events = @ + 1]
    BY <1>9 DEF EmitsBoundary
  <2>2. Taken(ctx, provider)
    BY <2>1, BusyFits
  <2>3. e \in Event /\ Counts(e) = 1
    BY <1>3, ProviderAssumption DEF EventOf, Event, EventType, Provider, Counts
  <2>4. \A r \in Ids : promised'[r].events =
            promised[r].events + (IF r = ctx.speakId THEN Counts(e) ELSE 0)
    <3>1. TAKE r \in Ids
    <3>2. promised[r].events \in Nat
      BY <1>3 DEF Promise
    <3>3. CASE r = ctx.speakId
      <4>1. promised'[r].events = promised[r].events + 1
        BY <1>3, <2>1, <2>2, <3>3 DEF Taken, Promise
      <4> HIDE DEF e
      <4> QED
        BY <2>3, <3>3, <4>1
    <3>4. CASE r # ctx.speakId
      <4>1. promised'[r].events = promised[r].events
        BY <1>3, <2>1, <2>2, <3>4 DEF Taken, Promise
      <4> QED
        BY <3>2, <3>4, <4>1
    <3> QED
      BY <3>3, <3>4
  <2> HIDE DEF e
  <2> QED
    BY <1>1, <1>2, <2>1, <2>2, <2>3, <2>4 DEF TellStep, Says, Emit
<1>10. CASE DeclaresComplete
  <2>1. /\ EventOf("complete", provider.speakId, provider.total) \in Event
        /\ EventOf("complete", provider.speakId, provider.total).type # "boundary"
    BY <1>3, ProviderAssumption DEF EventOf, Event, EventType, Provider
  <2> QED
    BY <1>4, <1>10, <2>1 DEF DeclaresComplete, Emit
<1>11. CASE AcknowledgesCancel
  <2>1. /\ EventOf("cancelled", provider.speakId, provider.written) \in Event
        /\ EventOf("cancelled", provider.speakId, provider.written).type # "boundary"
    BY <1>3, ProviderAssumption DEF EventOf, Event, EventType, Provider
  <2> QED
    BY <1>4, <1>11, <2>1 DEF AcknowledgesCancel, NextCommandIs, Emit
<1>12. CASE FailsRequest
  <2>1. /\ EventOf("logError", provider.speakId, 0) \in Event
        /\ EventOf("logError", provider.speakId, 0).type # "boundary"
    BY <1>3, ProviderAssumption DEF EventOf, Event, EventType, Provider
  <2> QED
    BY <1>4, <1>12, <2>1 DEF FailsRequest, Emit
<1>13. CASE Crashes
  BY <1>1, <1>2, <1>13 DEF Crashes, TellStep, Loses, Unsaid
<1>14. ~Deviates
  <2>1. "extraAudio" \notin Env /\ Env \cap Deviations = {}
    BY DEF ContractKept, Deviations
  <2> QED
    BY <2>1 DEF Deviates
<1> QED
  BY <1>1, <1>6, <1>7, <1>8, <1>9, <1>10, <1>11, <1>12, <1>13, <1>14 DEF ProviderNext

\* Every step of a session that stays.
LEMMA EveryTellStep ==
    ASSUME TypeInv, LifecycleMatrix, CallInv, OwnerInv, SessionFits, ContractKept, FaultShows,
           SiteFollows, NotifyInv, [Next]_vars, ~DirectCaller, ~Creates
    PROVE  TellStep
<1>1. CASE NoEvent
  <2>1. UNCHANGED <<told, disposition, events, promised, connected>>
        /\ (Dispatching' <=> Dispatching)
    BY <1>1 DEF NoEvent
  <2>2. CarriesOn
    BY <2>1 DEF CarriesOn, Carrying
  <2> QED
    BY <2>1, <2>2 DEF TellStep, Idles, Unsaid
<1>2. CASE HangsUp
  <2>1. CarriesOn
    BY <1>2 DEF HangsUp, CarriesOn, Carrying, Dispatching
  <2> QED
    BY <1>2, <2>1 DEF HangsUp, TellStep, Loses, Unsaid
<1> QED
  BY <1>1, <1>2, EventClasses, ReaderTells, ProviderTells

\* A provider comes to work only by taking the request of the context.
LEMMA BusyStep ==
    ASSUME TypeInv, SessionFits, ContractKept, [Next]_vars, ~DirectCaller, ~Creates
    PROVE  provider'.busy => provider.busy \/ provider.speakId < ctx.speakId
<1>1. provider \in Provider /\ commands \in Seq(Command)
  BY DEF TypeInv, TypeOK
<1>2. CASE ~(ProviderNext /\ UNCHANGED <<workerVars, engineVars>>)
  <2>1. ProviderLeft
    BY <1>2, PipesLeft
  <2> QED
    BY <1>1, <2>1 DEF ProviderLeft, Provider
<1>3. CASE ProviderNext
  <2>1. CASE TakesSpeak
    <3>1. commands # <<>> /\ Head(commands).kind = "sapi_speak"
      BY <2>1 DEF TakesSpeak, NextCommandIs
    <3>2. SpeakFits(ctx, provider, commands)
      BY DEF SessionFits, Fits
    <3> QED
      BY <1>1, <3>1, <3>2, NextCommandFits
  <2>2. CASE WritesFrame \/ EmitsBoundary \/ DeclaresComplete
    BY <2>2 DEF WritesFrame, EmitsBoundary, DeclaresComplete
  <2>3. CASE RefusesOverlap \/ IgnoresCancel \/ AcknowledgesCancel \/ FailsRequest \/ Crashes
    BY <1>1, <2>3 DEF RefusesOverlap, IgnoresCancel, AcknowledgesCancel, FailsRequest, Crashes,
                      Provider
  <2>4. CASE Deviates
    BY <1>1, <2>4 DEF Deviates, Provider
  <2> QED
    BY <1>3, <2>1, <2>2, <2>3, <2>4 DEF ProviderNext
<1> QED
  BY <1>2, <1>3
-----------------------------------------------------------------------------
(* The invariant of the events, part by part.                              *)

\* With the terminal of a request nothing is left in the pipe but acknowledgements of
\* its cancellation.
LEMMA FinishedSaysNothing ==
    ASSUME TypeInv, LifecycleMatrix, SessionFits, ctx.downstreamState = "Speaking",
           ctx.upstreamFinished
    PROVE  /\ \A i \in 1 .. Len(events) : events[i].type = "cancelled"
           /\ BoundariesIn(events) = 0
<1>1. ctx.upstreamState \in {"Completed", "Cancelled"}
  BY DEF LifecycleMatrix
<1>2. events \in Seq(Event)
  BY DEF TypeInv, TypeOK
<1>3. \A i \in 1 .. Len(events) : events[i].type = "cancelled"
  <2>1. CASE ctx.upstreamState = "Completed"
    BY <2>1 DEF SessionFits, Fits, TerminalFits
  <2>2. CASE ctx.upstreamState = "Cancelled"
    <3>1. events = <<>>
      BY <2>2 DEF SessionFits, Fits, TerminalFits
    <3> QED
      BY <3>1, EmptySeq
  <2> QED
    BY <1>1, <2>1, <2>2
<1> QED
  BY <1>2, <1>3, BoundaryCount

\* The balance of a speaking request is kept, unless what is left of its events is
\* lost before its terminal is known.
LEMMA ToldBalanceKept ==
    ASSUME TypeInv, TypeInv', LifecycleMatrix, CancelInv, SessionFits, ToldBalance, TellStep,
           ctx'.speakId = ctx.speakId,
           ctx'.downstreamState = "Speaking" => ctx.downstreamState = "Speaking",
           \/ Takes
           \/ ctx'.downstreamState = "Speaking" => ctx'.upstreamFinished = ctx.upstreamFinished
    PROVE  ToldBalance'
<1>1. SUFFICES ASSUME ctx'.downstreamState = "Speaking"
               PROVE  /\ \/ told'[ctx.speakId] + Held(ctx.speakId)' + BoundariesIn(events')
                               = promised'[ctx.speakId].events
                         \/ CutOff'
                      /\ Carrying(ctx.speakId)' => ~ctx'.upstreamFinished
  BY DEF ToldBalance
<1>2. ctx.downstreamState = "Speaking" /\ ctx.speakId \in Ids
  BY <1>1 DEF CancelInv
<1>3. PICK r \in Ids : r = ctx.speakId
  BY <1>2
<1>4. /\ events \in Seq(Event) /\ events' \in Seq(Event)
      /\ told \in [Ids -> Nat] /\ told' \in [Ids -> Nat]
      /\ promised \in [Ids -> Promise] /\ promised' \in [Ids -> Promise]
  BY DEF TypeInv, TypeOK
<1>5. /\ told[r] \in Nat /\ told'[r] \in Nat
      /\ promised[r].events \in Nat /\ promised'[r].events \in Nat
      /\ BoundariesIn(events) \in Nat /\ BoundariesIn(events') \in Nat
  BY <1>4, BoundaryCount DEF Promise
<1>6. /\ told[r] + Held(r) + BoundariesIn(events) = promised[r].events \/ CutOff
      /\ Carrying(r) => ~ctx.upstreamFinished
  BY <1>2, <1>3 DEF ToldBalance
<1>7. /\ Held(r) = IF Carrying(r) THEN 1 ELSE 0
      /\ Held(r)' = IF Carrying(r)' THEN 1 ELSE 0
  BY DEF Held
<1>8. SUFFICES /\ told'[r] + Held(r)' + BoundariesIn(events') = promised'[r].events \/ CutOff'
               /\ Carrying(r)' => ~ctx'.upstreamFinished
  BY <1>3
<1>9. CASE Takes
  <2>1. /\ events # <<>> /\ events' = Tail(events) /\ ~Carrying(r)
        /\ told' = told /\ promised'[r].events = promised[r].events
        /\ Carrying(r)' => Head(events).type = "boundary"
        /\ Head(events).type = "boundary" => Carrying(r)' /\ ctx' = ctx
    BY <1>2, <1>3, <1>9 DEF Takes, Unsaid
  <2>2. told[r] + BoundariesIn(events) = promised[r].events
    BY <1>5, <1>6, <1>7, <2>1 DEF CutOff
  <2>3. BoundariesIn(events) = BoundariesIn(events') + Counts(Head(events))
    BY <1>4, <2>1, BoundaryCount
  <2>4. Counts(Head(events)) = Held(r)'
    BY <1>7, <2>1 DEF Counts
  <2>5. Held(r)' \in Nat
    BY <1>7
  <2>6. told'[r] + Held(r)' + BoundariesIn(events') = promised'[r].events
    BY <1>5, <2>1, <2>2, <2>3, <2>4, <2>5
  <2>7. Carrying(r)' => ~ctx'.upstreamFinished
    <3>1. SUFFICES ASSUME Carrying(r)', ctx.upstreamFinished PROVE FALSE
      BY <2>1
    <3>2. Head(events).type = "boundary" /\ Head(events) = events[1] /\ 1 \in 1 .. Len(events)
      BY <1>4, <2>1, <3>1, HeadTailProperties, EmptySeq, LenProperties
    <3> QED
      BY <1>2, <3>1, <3>2, FinishedSaysNothing
  <2> QED
    BY <2>6, <2>7
<1>10. CASE ~Takes
  <2>1. ctx'.upstreamFinished = ctx.upstreamFinished
    BY <1>1, <1>10
  <2>2. CASE Idles
    <3>1. /\ UNCHANGED <<events, connected, told>> /\ (Carrying(r)' <=> Carrying(r))
          /\ promised'[r].events = promised[r].events
      BY <2>2 DEF Idles, Unsaid, CarriesOn
    <3> QED
      BY <1>6, <1>7, <2>1, <3>1 DEF CutOff
  <2>3. CASE Loses
    <3>1. /\ ~connected' /\ events' \in {events, <<>>} /\ told' = told
          /\ (Carrying(r)' <=> Carrying(r)) /\ promised'[r].events = promised[r].events
      BY <2>3 DEF Loses, Unsaid, CarriesOn
    <3>2. CASE events' = events
      BY <1>6, <1>7, <2>1, <3>1, <3>2 DEF CutOff
    <3>3. CASE events' = <<>> /\ ~ctx.upstreamFinished
      BY <1>6, <2>1, <3>1, <3>3 DEF CutOff
    <3>4. CASE events' = <<>> /\ ctx.upstreamFinished
      <4>1. BoundariesIn(events) = 0 /\ BoundariesIn(events') = 0
        <5>1. BoundariesIn(events) = 0
          BY <1>2, <3>4, FinishedSaysNothing
        <5>2. \A i \in 1 .. Len(events') : events'[i].type # "boundary"
          BY <3>4, EmptySeq
        <5> QED
          BY <1>4, <5>1, <5>2, BoundaryCount
      <4> QED
        BY <1>6, <1>7, <2>1, <3>1, <3>4, <4>1 DEF CutOff
    <3> QED
      BY <3>1, <3>2, <3>3, <3>4
  <2>4. CASE Drops
    <3>1. /\ UNCHANGED <<events, connected, told>> /\ ~Carrying(r)' /\ ~Carrying(r)
          /\ promised'[r].events = promised[r].events
      BY <1>2, <1>3, <2>4 DEF Drops, Unsaid
    <3> QED
      BY <1>6, <1>7, <2>1, <3>1 DEF CutOff
  <2>5. CASE Tells
    <3>1. PICK q : Carrying(q) /\ told' = [told EXCEPT ![q] = @ + 1]
      BY <2>5 DEF Tells
    <3>2. /\ UNCHANGED <<events, connected, promised>> /\ ~Carrying(r)'
      BY <2>5 DEF Tells
    <3>3. Carrying(r) <=> r = q
      BY <3>1, <3>2, <2>5 DEF Carrying
    <3>4. told'[r] = IF r = q THEN told[r] + 1 ELSE told[r]
      BY <1>4, <3>1
    <3>5. told'[r] + Held(r)' = told[r] + Held(r)
      BY <1>5, <1>7, <3>2, <3>3, <3>4
    <3>6. Held(r) \in Nat /\ Held(r)' \in Nat
      BY <1>7
    <3> QED
      BY <1>5, <1>6, <2>1, <3>2, <3>5, <3>6 DEF CutOff
  <2>6. CASE Says
    <3>1. /\ told' = told /\ connected /\ (Carrying(r)' <=> Carrying(r))
      BY <2>6 DEF Says, CarriesOn
    <3>2. PICK e \in Event :
             events' = Append(events, e) /\ promised'[r].events = promised[r].events + Counts(e)
      BY <1>3, <2>6 DEF Says
    <3>3. BoundariesIn(events') = BoundariesIn(events) + Counts(e)
      BY <1>4, <3>2, BoundaryCount
    <3>4. Counts(e) \in Nat /\ Held(r) \in Nat /\ Held(r)' = Held(r)
      BY <1>7, <3>1 DEF Counts
    <3>5. told[r] + Held(r) + BoundariesIn(events) = promised[r].events
      BY <1>6, <3>1 DEF CutOff
    <3>6. \A t, h, b, n, p \in Nat : t + h + b = p => t + h + (b + n) = p + n
      OBVIOUS
    <3>7. /\ told[r] \in Nat /\ promised[r].events \in Nat /\ BoundariesIn(events) \in Nat
          /\ told'[r] = told[r]
      BY <1>5, <3>1
    <3>8. told[r] + Held(r) + (BoundariesIn(events) + Counts(e)) = promised[r].events + Counts(e)
      BY ONLY <3>4, <3>5, <3>6, <3>7
    <3>9. told'[r] + Held(r)' + BoundariesIn(events') = promised'[r].events
      BY ONLY <3>2, <3>3, <3>4, <3>7, <3>8
    <3> QED
      BY <1>6, <2>1, <3>1, <3>9
  <2> QED
    BY <1>10, <2>2, <2>3, <2>4, <2>5, <2>6 DEF TellStep
<1> QED
  BY <1>9, <1>10

\* A request that has yet to start is told nothing, and nothing is said of it.
LEMMA FreshToldKept ==
    ASSUME TypeInv, CancelInv, FreshTold, TellStep, NEW r \in Ids, NotStarted(r)
    PROVE  told'[r] = 0 /\ promised'[r].events = 0 /\ ~Carrying(r)'
<1>1. /\ told[r] = 0 /\ promised[r].events = 0 /\ ~Carrying(r) /\ ctx.speakId # r
      /\ told \in [Ids -> Nat] /\ promised[r].events \in Nat
  BY DEF FreshTold, CancelInv, TypeInv, TypeOK, Promise
<1>2. CASE Idles \/ Loses
  BY <1>1, <1>2 DEF Idles, Loses, Unsaid, CarriesOn
<1>3. CASE Takes \/ Drops
  BY <1>1, <1>3 DEF Takes, Drops, Unsaid
<1>4. CASE Tells
  <2>1. PICK q : Carrying(q) /\ told' = [told EXCEPT ![q] = @ + 1]
    BY <1>4 DEF Tells
  <2>2. q # r
    BY <1>1, <2>1
  <2> QED
    BY <1>1, <1>4, <2>1, <2>2 DEF Tells
<1>5. CASE Says
  <2>1. /\ told' = told /\ ~Carrying(r)'
        /\ promised'[r].events = promised[r].events + 0
    BY <1>1, <1>5 DEF Says, CarriesOn
  <2> QED
    BY <1>1, <2>1
<1> QED
  BY <1>2, <1>3, <1>4, <1>5 DEF TellStep

\* A request that was told all stays so.
LEMMA ToldDoneKept ==
    ASSUME TypeInv, ContractKept, SessionFits, TellStep,
           provider'.busy => provider.busy \/ provider.speakId < ctx.speakId,
           ctx'.speakId = ctx.speakId, NEW r \in Ids, Done(r), ToldDone(r)
    PROVE  ToldDone(r)'
<1>1. /\ told[r] = promised[r].events /\ ~Carrying(r)
      /\ ctx.speakId = r => events = <<>> /\ ~provider.busy /\ r <= provider.speakId
      /\ told \in [Ids -> Nat] /\ promised[r].events \in Nat
      /\ provider.speakId \in Nat
  BY DEF Done, ToldDone, TypeInv, TypeOK, Promise, Provider
<1>2. ctx'.speakId = r => ~provider'.busy
  <2>1. \A m, n \in Nat : m <= n => ~(n < m)
    OBVIOUS
  <2>2. r \in Nat
    BY ProviderAssumption DEF Ids
  <2> QED
    BY <1>1, <2>1, <2>2
<1>3. SUFFICES /\ told'[r] = promised'[r].events /\ ~Carrying(r)'
               /\ ctx.speakId = r => events' = <<>>
  BY <1>2 DEF ToldDone
<1>4. CASE Idles \/ Loses
  BY <1>1, <1>4 DEF Idles, Loses, Unsaid, CarriesOn
<1>5. CASE Takes
  <2>1. ctx.speakId # r
    BY <1>1, <1>5 DEF Takes
  <2> QED
    BY <1>1, <1>5, <2>1 DEF Takes, Unsaid
<1>6. CASE Drops
  BY <1>1, <1>6 DEF Drops, Unsaid
<1>7. CASE Tells
  <2>1. PICK q : Carrying(q) /\ told' = [told EXCEPT ![q] = @ + 1]
    BY <1>7 DEF Tells
  <2>2. q # r
    BY <1>1, <2>1
  <2> QED
    BY <1>1, <1>7, <2>1, <2>2 DEF Tells
<1>8. CASE Says
  <2>1. ctx.speakId # r
    BY <1>1, <1>8 DEF Says
  <2>2. promised'[r].events = promised[r].events + 0
    BY <1>8, <2>1 DEF Says
  <2> QED
    BY <1>1, <1>8, <2>1, <2>2 DEF Says, CarriesOn
<1> QED
  BY <1>4, <1>5, <1>6, <1>7, <1>8 DEF TellStep

\* A request that ends well in this step was told all: its terminal came after its last
\* boundary event, and the control thread had dealt with that one.
LEMMA EndingIsTold ==
    ASSUME TypeInv, TypeInv', LifecycleMatrix, CancelInv, SessionFits, SessionFits', AbortInv,
           ToldBalance, TellStep, CtxStep, aborted \subseteq aborted',
           \/ Takes
           \/ /\ ctx.downstreamState = "Speaking" /\ ctx'.downstreamState = "Idle"
                   => ctx.upstreamFinished,
           ~EndedWell, EndedWell'
    PROVE  ToldDone(ctx.speakId)'
<1>1. /\ ctx'.downstreamState = "Idle" /\ ctx'.completionHr = "S_OK"
      /\ ctx'.speakId = ctx.speakId /\ ctx.speakId # 0 /\ ctx.speakId \notin aborted
  BY DEF EndedWell, CtxStep
<1>2. Reached
  <2>1. ctx.completionHr = "S_OK"
    BY <1>1 DEF CtxStep
  <2>2. ctx.downstreamState # "Idle"
    BY <1>1, <2>1 DEF EndedWell
  <2>3. ctx.downstreamState # "Cancelling"
    BY <1>1 DEF AbortInv
  <2> QED
    BY <1>1, <2>2, <2>3 DEF CtxStep
<1>3. ctx.downstreamState = "Speaking" /\ ctx.speakId \in Ids
  BY <1>2 DEF Reached, CancelInv
<1>4. PICK r \in Ids : r = ctx.speakId
  BY <1>3
<1>5. /\ events \in Seq(Event) /\ told \in [Ids -> Nat] /\ promised[r].events \in Nat
  BY DEF TypeInv, TypeOK, Promise
<1>6. /\ told[r] + Held(r) + BoundariesIn(events) = promised[r].events \/ CutOff
      /\ Carrying(r) => ~ctx.upstreamFinished
  BY <1>3, <1>4 DEF ToldBalance
<1>7. Silent(provider', events', audio')
  BY <1>1 DEF SessionFits, Fits, PhaseFits
<1>8. \A i \in 1 .. Len(events) : events[i].type # "cancelled"
  <2>1. SUFFICES ASSUME NEW i \in 1 .. Len(events), events[i].type = "cancelled" PROVE FALSE
    OBVIOUS
  <2>2. events[i].speakId \in aborted
    BY <2>1 DEF AbortInv
  <2>3. events # <<>>
    BY EmptySeq
  <2>4. Taken(ctx, provider)
    BY <2>3, NextEventFits
  <2>5. events[i].speakId = ctx.speakId
    BY <2>4 DEF SessionFits, Fits, EventsFit, EventFits, Taken
  <2> QED
    BY <1>1, <2>2, <2>5
<1>9. SUFFICES told'[r] = promised'[r].events /\ ~Carrying(r)'
  <2>1. ToldDone(r)'
    BY <1>7, <1>9 DEF ToldDone, Silent
  <2>2. ctx'.speakId = r
    BY <1>1, <1>4
  <2> QED
    BY <2>1, <2>2 DEF ToldDone
<1>10. CASE ctx.upstreamFinished
  <2>1. \A i \in 1 .. Len(events) : events[i].type = "cancelled"
    BY <1>3, <1>10, FinishedSaysNothing
  <2>2. ~Carrying(r) /\ BoundariesIn(events) = 0 /\ ~CutOff
    BY <1>3, <1>6, <1>10, FinishedSaysNothing DEF CutOff
  <2>3. told[r] = promised[r].events
    BY <1>5, <1>6, <2>2 DEF Held
  <2>4. events = <<>>
    BY <1>5, <1>8, <2>1, LenProperties, EmptySeq
  <2>5. ~Takes /\ ctx' # ctx
    BY <1>1, <1>3, <2>4 DEF Takes
  <2>6. Idles \/ Loses
    BY <2>5 DEF TellStep, Drops, Tells, Says
  <2> QED
    BY <2>2, <2>3, <2>6 DEF Idles, Loses, Unsaid, CarriesOn
<1>11. CASE ~ctx.upstreamFinished
  <2>1. Takes
    BY <1>1, <1>3, <1>11
  <2>2. /\ events # <<>> /\ events' = Tail(events) /\ ~Carrying(r)
        /\ told' = told /\ promised'[r].events = promised[r].events
        /\ Carrying(r)' => Head(events).type = "boundary"
    BY <2>1 DEF Takes, Unsaid
  <2>3. Head(events).type \in {"complete", "cancelled"}
    BY <1>2, <1>11 DEF Reached
  <2>4. events' = <<>>
    BY <1>7 DEF Silent
  <2>5. BoundariesIn(events) = BoundariesIn(<<>>) + Counts(Head(events))
    BY <1>5, <2>2, <2>4, BoundaryCount
  <2>6. BoundariesIn(<<>>) = 0
    <3>1. <<>> \in Seq(Event) /\ \A i \in 1 .. Len(<<>>) : <<>>[i].type # "boundary"
      BY EmptySeq
    <3> QED
      BY <3>1, BoundaryCount
  <2>7. BoundariesIn(events) = 0
    BY <2>3, <2>5, <2>6 DEF Counts
  <2>8. told[r] = promised[r].events
    BY <1>5, <1>6, <2>2, <2>7 DEF Held, CutOff
  <2> QED
    BY <2>2, <2>3, <2>8
<1> QED
  BY <1>10, <1>11

\* A call has its own site from the step that takes its number to the one that returns.
LEMMA SiteFollowsKept ==
    ASSUME TypeInv, SiteFollows, [Next]_vars, ~DirectCaller
    PROVE  SiteFollows'
<1>1. "speak" \in Threads /\ pc \in [Threads -> Place]
  BY DEF Threads, Callers, TypeInv, TypeOK
<1>2. CASE SpeakBegins
  BY <1>2 DEF SpeakBegins, SiteFollows
<1>3. CASE SpeakReturns
  <2>1. pc'["speak"] = "idle"
    BY <1>1, <1>3 DEF SpeakReturns, Goto
  <2> QED
    BY <2>1 DEF SiteFollows, Calling
<1>4. CASE ~SpeakBegins /\ ~SpeakReturns
  <2>1. site' = site /\ speakCounter' = speakCounter
    BY <1>4, AnswersAndSites
  <2>2. Calling' => Calling
    <3>1. CASE SetsObjectToken
      <4>1. pc["speak"] = "idle" /\ (pc' = pc \/ CreatesSession("idle"))
        BY <3>1 DEF SetsObjectToken
      <4>2. CreatesSession("idle") => pc'["speak"] = "idle"
        BY <1>1 DEF CreatesSession
      <4> QED
        BY <4>1, <4>2 DEF Calling
    <3>2. CASE RecreatesSession \/ Starts
      BY <3>2 DEF RecreatesSession, Starts, At, Calling
    <3>3. CASE SpeakThread /\ ~(SetsObjectToken \/ RecreatesSession \/ Starts)
      BY <1>4, <3>3, SpeakStaysInside
    <3>4. CASE ~SpeakThread
      BY <3>4, OthersLeaveCall DEF Calling
    <3> QED
      BY <3>1, <3>2, <3>3, <3>4
  <2> QED
    BY <2>1, <2>2 DEF SiteFollows
<1> QED
  BY <1>2, <1>3, <1>4

\* The control thread comes to AddEvents only with a boundary event.
LEMMA NotifyKept ==
    ASSUME TypeInv, NotifyInv, [Next]_vars, ~DirectCaller, ~Creates
    PROVE  NotifyInv'
<1>1. "control" \in Threads /\ pc \in [Threads -> Place]
  BY DEF Threads, Readers, TypeInv, TypeOK
<1>2. CASE NoEvent \/ HangsUp
  BY <1>2 DEF NoEvent, HangsUp, NotifyInv
<1>3. CASE ReaderMoves
  <2>1. CASE ReadsMalformedLine \/ ReadsOrphanEvent \/ HandlesEvent
    <3>1. pc["control"] = "read"
          /\ (pc' = pc \/ \E place \in {"failed", "forward"} : Goto("control", place))
      BY <2>1 DEF ReadsMalformedLine, ReadsOrphanEvent, HandlesEvent, NextEvent, At
    <3> QED
      BY <1>1, <3>1 DEF Goto, NotifyInv
  <2>2. CASE AdmitsEvent \/ NotifiesSite
    <3>1. \E place \in {"callback", "read"} : Goto("control", place)
      BY <2>2 DEF AdmitsEvent, NotifiesSite, Dispatched
    <3> QED
      BY <1>1, <3>1 DEF Goto, NotifyInv
  <2>3. CASE CapturesEventSite
    <3>1. CASE disposition.event.speakId = site /\ disposition.event.type = "boundary"
      BY <2>3, <3>1 DEF CapturesEventSite, NotifyInv
    <3>2. CASE ~(disposition.event.speakId = site /\ disposition.event.type = "boundary")
      BY <1>1, <2>3, <3>2 DEF CapturesEventSite, Dispatched, Goto, NotifyInv
    <3> QED
      BY <3>1, <3>2
  <2> QED
    BY <1>3, <2>1, <2>2, <2>3 DEF ReaderMoves
<1>4. CASE ProviderMoves
  BY <1>4 DEF ProviderMoves, workerVars, NotifyInv
<1> QED
  BY <1>2, <1>3, <1>4, EventClasses

\* A step of a session that stays, other than a start.
LEMMA OrdinaryStepTells ==
    ASSUME ContractKept, TypeInv, TypeInv', LifecycleMatrix, CallInv, OwnerInv, CancelInv,
           DeliveryInv, SessionInv, SessionInv', QuarantineInv, NoLateErrorLog,
           SessionFits, SessionFits', DeliveredInv, ToldInv, [Next]_vars,
           ~DirectCaller, ~Starts, ~Creates
    PROVE  ToldInv'
<1>1. /\ ToldBalance /\ FreshTold /\ FaultShows /\ SiteFollows /\ NotifyInv /\ ToldDoneInv
      /\ FaultedFails /\ AbortInv /\ DoneInv
  BY DEF ToldInv, DeliveredInv
<1>2. TellStep
  BY <1>1, EveryTellStep
<1>3. CtxStep /\ AbortStep
  BY EveryEffect DEF Effects, DeliveredInv
<1>4. /\ ctx'.speakId = ctx.speakId
      /\ ctx'.downstreamState = "Speaking" => ctx.downstreamState = "Speaking"
  BY EveryOtherStep, RequestStepKeeps DEF Creates
<1>5. Takes \/ Progress
  BY <1>1, HandlingTakes, StepProgress
<1>6. provider'.busy => provider.busy \/ provider.speakId < ctx.speakId
  BY BusyStep
<1>7. ToldBalance'
  BY <1>1, <1>2, <1>4, <1>5, ToldBalanceKept DEF Progress
<1>8. FreshTold'
  <2>1. SUFFICES ASSUME NEW r \in Ids, NotStarted(r)'
                 PROVE  told'[r] = 0 /\ promised'[r].events = 0 /\ ~Carrying(r)'
    BY DEF FreshTold
  <2>2. NotStarted(r)
    BY <2>1, EveryCancelStep DEF CancelInv, StartsNothing
  <2> QED
    BY <1>1, <1>2, <2>2, FreshToldKept
<1>9. FaultShows'
  BY <1>1, FaultShowsKept
<1>10. SiteFollows' /\ NotifyInv'
  BY <1>1, SiteFollowsKept, NotifyKept
<1>11. \A r \in Ids : Done(r) /\ ToldDone(r) => ToldDone(r)'
  BY <1>2, <1>4, <1>6, ToldDoneKept
<1>12. EndedWell' => ToldDone(ctx.speakId)'
  <2>1. SUFFICES ASSUME EndedWell' PROVE ToldDone(ctx.speakId)'
    OBVIOUS
  <2>2. CASE EndedWell
    <3>1. Done(ctx.speakId) /\ ToldDone(ctx.speakId)
      BY <1>1, <2>2 DEF DoneInv, ToldDoneInv
    <3>2. ctx.speakId \in Ids
      BY <2>2, ProviderAssumption DEF EndedWell, TypeInv, TypeOK, Ids
    <3>3. PICK r \in Ids : r = ctx.speakId
      BY <3>2
    <3>4. ToldDone(r)' /\ ctx'.speakId = r
      BY <1>4, <1>11, <3>1, <3>3
    <3> QED
      BY <3>4 DEF ToldDone
  <2>3. CASE ~EndedWell
    BY <1>1, <1>2, <1>3, <1>5, <2>1, <2>3, EndingIsTold DEF AbortStep, Progress
  <2> QED
    BY <2>2, <2>3
<1>13. ASSUME NEW r \in Ids, outcome'[r] = "S_OK", r \notin aborted'
       PROVE  ToldDone(r)'
  <2>1. r \notin aborted
    BY <1>3, <1>13 DEF AbortStep
  <2>2. CASE outcome[r] = "S_OK"
    BY <1>1, <1>11, <2>1, <2>2 DEF DoneInv, ToldDoneInv
  <2>3. CASE outcome[r] # "S_OK"
    <3>1. EndedWell /\ ctx.speakId = r
      BY <1>1, <1>13, <2>1, <2>3, AnswersAndSites, AnswersWell
    <3> QED
      BY <1>1, <1>11, <3>1 DEF DoneInv, ToldDoneInv
  <2> QED
    BY <2>2, <2>3
<1>14. ToldDoneInv'
  BY <1>12, <1>13 DEF ToldDoneInv
<1> QED
  BY <1>7, <1>8, <1>9, <1>10, <1>14 DEF ToldInv

\* Speak starts a request of which nothing was said.
LEMMA StartTells ==
    ASSUME TypeInv, CancelInv, StartsNothing, DeliveryInv, SessionFits, DeliveredInv, ToldInv,
           SiteFollows', NotifyInv', Starts
    PROVE  ToldInv'
<1>1. /\ {"control", "speak"} \subseteq Threads /\ pc \in [Threads -> Place]
      /\ speakCounter \in 0 .. MaxSpeaks /\ ctx \in Context
  BY DEF Threads, Readers, Callers, TypeInv, TypeOK
<1>2. /\ pc["speak"] = "start" /\ pc'["control"] = pc["control"]
  BY <1>1 DEF Starts, At, Goto
<1>3. UNCHANGED <<told, promised, disposition, events, provider, faultVisible,
                  faultPublicationStarted, outcome, aborted>>
  BY DEF Starts, localVars, historyVars, providerVars, faultVars
<1>4. /\ ctx'.speakId = speakCounter /\ ~ctx'.faultPending
      /\ ctx'.downstreamState = "Speaking" /\ ~ctx'.upstreamFinished
      /\ ctx.downstreamState = "Idle"
  BY <1>1 DEF Starts, StartAccepted, Reset, FreshContext, Context, speakId
<1>5. speakCounter \in Ids /\ NotStarted(speakCounter)
  BY <1>1, <1>2 DEF CancelInv, RequestNumbered, BeforeStart, NotStarted
<1>6. \A r : Carrying(r)' <=> Carrying(r)
  BY <1>2, <1>3 DEF Carrying, Dispatching
<1>7. ToldBalance'
  <2>1. /\ told[speakCounter] = 0 /\ promised[speakCounter].events = 0
        /\ ~Carrying(speakCounter)
    BY <1>5 DEF ToldInv, FreshTold
  <2>2. events = <<>>
    BY <1>4 DEF SessionFits, Fits, PhaseFits, Silent
  <2>3. BoundariesIn(events') = 0
    <3>1. events' \in Seq(Event) /\ \A i \in 1 .. Len(events') : events'[i].type # "boundary"
      BY <1>3, <2>2, EmptySeq
    <3> QED
      BY <3>1, BoundaryCount
  <2>4. PICK r \in Ids : r = speakCounter
    BY <1>5
  <2>5. Held(r)' = 0 /\ ~Carrying(r)'
    BY <1>6, <2>1, <2>4 DEF Held
  <2>6. told'[r] + Held(r)' + BoundariesIn(events') = promised'[r].events
    BY <1>3, <2>1, <2>3, <2>4, <2>5
  <2>7. ctx'.speakId = r
    BY <1>4, <2>4
  <2> QED
    BY <2>5, <2>6, <2>7 DEF ToldBalance
<1>8. FreshTold'
  <2>1. \A r \in Ids : NotStarted(r)' => NotStarted(r)
    BY DEF StartsNothing
  <2> QED
    BY <1>3, <1>6, <2>1 DEF ToldInv, FreshTold
<1>9. FaultShows'
  BY <1>3, <1>4 DEF ToldInv, FaultShows
<1>10. ASSUME NEW r \in Ids, outcome'[r] = "S_OK", r \notin aborted'
       PROVE  ToldDone(r)'
  <2>1. Done(r) /\ ToldDone(r)
    BY <1>3, <1>10 DEF DeliveredInv, DoneInv, ToldInv, ToldDoneInv
  <2>2. r # speakCounter
    BY <1>5, <2>1 DEF Done
  <2> QED
    BY <1>3, <1>4, <1>6, <2>1, <2>2 DEF ToldDone
<1>11. ToldDoneInv'
  BY <1>4, <1>10 DEF ToldDoneInv, EndedWell
<1> QED
  BY <1>7, <1>8, <1>9, <1>11 DEF ToldInv

\* A new session has nothing to tell.
LEMMA CreationTells ==
    ASSUME TypeInv, StartsNothing, DeliveredInv, ToldInv, SiteFollows', Creates
    PROVE  ToldInv'
<1>1. PICK place \in {"idle", "start"} :
          \/ CreatesSession(place)
          \/ UNCHANGED <<requestVars, faultVars, exit, timeVars, pc, fault, localVars, site,
                         historyVars, providerVars, speakCounter>>
  BY DEF Creates, SetsObjectToken, RecreatesSession
<1>2. CASE UNCHANGED <<requestVars, faultVars, exit, timeVars, pc, fault, localVars, site,
                       historyVars, providerVars, speakCounter>>
  <2>1. UNCHANGED <<ctx, faultPublicationStarted, faultVisible, pc, disposition, site, told,
                    outcome, aborted, connected, events, provider, promised, speakCounter>>
    BY <1>2 DEF requestVars, faultVars, localVars, historyVars, providerVars
  <2> QED
    BY <2>1 DEF ToldInv, ToldBalance, FreshTold, FaultShows, SiteFollows, NotifyInv,
            ToldDoneInv, ToldDone, EndedWell, Held, Carrying, Dispatching, CutOff, Calling,
            NotStarted
<1>3. CASE CreatesSession(place)
  <2>1. UNCHANGED <<told, promised, outcome, aborted>>
    BY <1>3 DEF CreatesSession, historyVars
  <2>2. /\ ctx'.speakId = 0 /\ ctx'.downstreamState = "Idle" /\ ~ctx'.faultPending
        /\ ~faultVisible'
    BY <1>3 DEF CreatesSession, FreshContext
  <2>3. pc'["control"] = "read"
    BY <1>3 DEF CreatesSession, TypeInv, TypeOK, Threads, Readers
  <2>4. \A r : ~Carrying(r)'
    BY <2>3 DEF Carrying, Dispatching
  <2>5. FreshTold'
    BY <2>1, <2>4 DEF ToldInv, FreshTold, StartsNothing
  <2>6. ToldBalance' /\ FaultShows' /\ NotifyInv'
    BY <2>2, <2>3 DEF ToldBalance, FaultShows, NotifyInv
  <2>7. ASSUME NEW r \in Ids, outcome'[r] = "S_OK", r \notin aborted'
        PROVE  ToldDone(r)'
    <3>1. ToldDone(r) /\ r # 0
      BY <2>1, <2>7 DEF ToldInv, ToldDoneInv, Ids
    <3> QED
      BY <2>1, <2>2, <2>4, <3>1 DEF ToldDone
  <2>8. ToldDoneInv'
    BY <2>2, <2>7 DEF ToldDoneInv, EndedWell
  <2> QED
    BY <2>5, <2>6, <2>8 DEF ToldInv
<1> QED
  BY <1>1, <1>2, <1>3

LEMMA ToldInvInit == Init => ToldInv
<1> SUFFICES ASSUME Init PROVE ToldInv
  OBVIOUS
<1>1. /\ ctx = FreshContext /\ ~faultVisible
      /\ \A r \in Ids : told[r] = 0 /\ promised[r].events = 0 /\ outcome[r] # "S_OK"
      /\ pc["control"] = "exit" /\ pc["speak"] = "idle"
  BY DEF Init, ProviderInit, NoOutcome, Threads, Readers, Callers
<1>2. \A r : ~Carrying(r)
  BY <1>1 DEF Carrying, Dispatching
<1>3. ToldBalance /\ FreshTold /\ FaultShows /\ SiteFollows /\ NotifyInv
  BY <1>1, <1>2 DEF ToldBalance, FreshTold, FaultShows, SiteFollows, NotifyInv, Calling,
                    FreshContext
<1>4. ToldDoneInv
  BY <1>1 DEF ToldDoneInv, EndedWell, FreshContext
<1> QED
  BY <1>3, <1>4 DEF ToldInv
-----------------------------------------------------------------------------
(* The theorem about the events.                                           *)

LEMMA ToldInvNext ==
    ASSUME ContractKept, TypeInv, TypeInv', LifecycleMatrix, CallInv, OwnerInv, CancelInv,
           DeliveryInv, SessionInv, SessionInv', QuarantineInv, NoLateErrorLog,
           ContractInv, ContractInv', DeliveredInv, ToldInv, [Next]_vars
    PROVE  ToldInv'
<1>1. SessionFits /\ SessionFits' /\ ~DirectCaller /\ StartsNothing
  <2>1. "direct" \notin Env /\ DispositionIsHeld /\ NoDirectCall
    BY DEF ContractKept, SessionInv, ContractInv
  <2> QED
    BY <2>1, NoDirectCallNext, EveryCancelStep DEF ContractInv, CancelInv
<1>2. SiteFollows'
  BY <1>1, SiteFollowsKept DEF ToldInv
<1>3. CASE Starts
  <2>1. ~Creates
    BY <1>3 DEF Starts, Creates, SetsObjectToken, RecreatesSession, At
  <2> QED
    BY <1>1, <1>2, <1>3, <2>1, NotifyKept, StartTells DEF ToldInv
<1>4. CASE Creates
  BY <1>1, <1>2, <1>4, CreationTells
<1>5. CASE ~Starts /\ ~Creates
  BY <1>1, <1>5, OrdinaryStepTells
<1> QED
  BY <1>3, <1>4, <1>5

LEMMA ToldInvHolds ==
    ASSUME ContractKept
    PROVE  Spec /\ []NoLateErrorLog => []ToldInv
<1>1. ASSUME TypeInv, TypeInv', LifecycleMatrix, CallInv, OwnerInv, CancelInv, DeliveryInv,
             SessionInv, SessionInv', QuarantineInv, NoLateErrorLog, ContractInv, ContractInv',
             DeliveredInv, ToldInv, [Next]_vars
      PROVE  ToldInv'
  BY <1>1, ToldInvNext
<1> QED
  BY <1>1, ToldInvInit, TypeCorrect, LifecycleMatrixHolds, CallInvHolds, OwnerInvHolds,
     CancelInvHolds, DeliveryInvHolds, SessionInvHolds, QuarantineInvHolds, ContractInvHolds,
     DeliveredInvHolds, PTL DEF Spec

\* Speak answers S_OK for a request nobody cancelled only after its own site was given
\* every boundary event the provider sent for it, although the terminal event, the
\* audio that ends the request and the site's callbacks belong to three threads.  This
\* holds for a provider that keeps its contract, as long as no error log is read for a
\* request already faulted.
THEOREM ToldAllHolds ==
    ASSUME ContractKept
    PROVE  Spec /\ []NoLateErrorLog => []ToldAll
<1>1. ToldInv => ToldAll
  BY DEF ToldInv, ToldDoneInv, ToldDone, ToldAll
<1> QED
  BY <1>1, ToldInvHolds, PTL

\* A provider that fails no request sends no error log at all: then it holds of every
\* history, whatever SAPI refuses, memory, pipes, processes and time do.
THEOREM ToldAllWithoutErrors ==
    ASSUME ContractKept, "error" \notin Env
    PROVE  Spec => []ToldAll
BY ToldAllHolds, NoLateErrorLogHolds, PTL
-----------------------------------------------------------------------------
(* Faults and cancellations.                                               *)

\* No process dies, no write fails, no memory runs out and no time passes.
Calm == Env \cap {"crash", "sendFail", "oom", "time"} = {}

\* The pipes are open as long as the session is there, and no deadline passes.
OpenInv ==
    /\ session = "live" /\ pc["speak"] # "gone" => connected
    /\ pc["speak"] = "gone" => pc["audio"] = "exit" /\ pc["control"] = "exit"
    /\ ~idleElapsed /\ ~deadlinePassed

\* A fault is marked, in hand, or about to be found by a reader whose read failed.
Touched ==
    \/ Marked(ctx)
    \/ \E t \in Threads : fault[t] # "none"
    \/ ~exit /\ \E u \in Readers : pc[u] = "failed"

\* A cancel of the request came when the provider had declared its terminal: it was
\* acknowledged, and the provider says no more.
Spent ==
    /\ aborted # {}
    /\ ctx.downstreamState = "Faulted" /\ Taken(ctx, provider)
    /\ events = <<>> /\ ~provider.busy

CalmInv == OpenInv /\ (Touched => Spent)

\* What a step leaves alone that neither begins nor ends a session.
LinesStep ==
    /\ connected' = connected /\ session' = session /\ pc'["speak"] = pc["speak"]
    /\ ~idleElapsed' /\ ~deadlinePassed'
    /\ \A u \in Readers : pc[u] = "exit" => pc'[u] = "exit"

LEMMA FaultKeepsLines ==
    ASSUME TypeInv, OpenInv, NEW t \in Threads, EnterFaultedState(t), UNCHANGED engineVars
    PROVE  LinesStep
<1> USE DEF timeVars, providerVars, engineVars, LinesStep, OpenInv
<1>1. CASE FaultsRequest(t) \/ PublishesFault(t)
  BY <1>1 DEF FaultsRequest, PublishesFault
<1>2. CASE CancelsIo(t)
  <2>1. PICK hit \in PendingReads :
           pc' = [u \in Threads |-> IF u \in hit THEN "failed" ELSE pc[u]]
    BY <1>2 DEF CancelsIo
  <2>2. "speak" \notin hit /\ \A u \in hit : pc[u] = "read"
    BY <2>1 DEF PendingReads, At, Readers
  <2>3. pc'["speak"] = pc["speak"] /\ \A u \in Readers : pc[u] = "exit" => pc'[u] = "exit"
    BY <2>1, <2>2 DEF Threads, Readers, Callers
  <2> QED
    BY <1>2, <2>3 DEF CancelsIo
<1> QED
  BY <1>1, <1>2 DEF EnterFaultedState

LEMMA ReadersKeepLines ==
    ASSUME TypeInv, OpenInv, AudioThread \/ ControlThread, UNCHANGED engineVars
    PROVE  LinesStep
<1> USE DEF timeVars, providerVars, engineVars, LinesStep, OpenInv, At, Goto
<1>1. pc \in [Threads -> Place] /\ {"audio", "control", "speak"} \subseteq Threads
      /\ Readers = {"audio", "control"}
  BY DEF TypeInv, TypeOK, Threads, Readers, Callers
<1>2. ASSUME NEW u \in Readers, pc[u] # "exit", connected' = connected,
             ~idleElapsed', ~deadlinePassed', pc' = pc \/ \E place : Goto(u, place)
      PROVE  LinesStep
  <2>1. pc'["speak"] = pc["speak"] /\ \A v \in Readers : pc[v] = "exit" => pc'[v] = "exit"
    <3>1. CASE pc' = pc
      BY <3>1
    <3>2. ASSUME NEW place, Goto(u, place)
          PROVE  pc'["speak"] = pc["speak"] /\ \A v \in Readers : pc[v] = "exit" => pc'[v] = "exit"
      BY <1>1, <1>2, <3>2
    <3> QED
      BY <1>2, <3>1, <3>2
  <2> QED
    BY <1>2, <2>1
<1>3. CASE EnterFaultedState("audio") \/ EnterFaultedState("control")
  BY <1>1, <1>3, FaultKeepsLines
<1>4. ASSUME NEW u \in Readers, ReadBreaks(u) \/ ReadFailed(u) \/ LeavesLoop(u)
      PROVE  LinesStep
  BY <1>1, <1>4 DEF ReadBreaks, ReadFailed, LeavesLoop
<1>5. CASE AssemblesSpeakingAudio
  <2>1. PICK data \in Chunks : AssemblesSpeakingAudio!(data)
    BY <1>5 DEF AssemblesSpeakingAudio
  <2>2. /\ Reads(data) /\ ~idleElapsed' /\ UNCHANGED deadlinePassed
        /\ pc' = pc \/ Goto("audio", "deliver")
    BY <2>1
  <2> QED
    BY <1>1, <1>2, <2>2 DEF Reads
<1>6. CASE AssemblyThrows \/ DrainsCancellationAudio \/ FaultsOnIdleAudio \/ DrainsFaultedAudio
  BY <1>1, <1>6 DEF AssemblyThrows, DrainsCancellationAudio, FaultsOnIdleAudio,
                    DrainsFaultedAudio, Reads
<1>7. CASE AdmitsSpan \/ CapturesSite \/ SiteAcceptsSpan \/ SiteRejectsSpan
  BY <1>1, <1>7 DEF AdmitsSpan, CapturesSite, SiteAcceptsSpan, SiteRejectsSpan
<1>8. CASE UpdatesAfterDelivery
  <2>1. /\ pc["audio"] = "update" /\ UNCHANGED <<connected, idleElapsed>> /\ ~deadlinePassed'
        /\ \E place : Goto("audio", place)
    BY <1>8 DEF UpdatesAfterDelivery
  <2> QED
    BY <1>1, <1>2, <2>1
<1>9. CASE AudioSendsCancel
  BY <1>1, <1>2, <1>9 DEF AudioSendsCancel, SendsCancel, CancelSendFails
<1>10. CASE HandlesEvent
  <2>1. /\ pc["control"] = "read" /\ UNCHANGED <<connected, deadlinePassed>>
        /\ ~idleElapsed'
        /\ pc' = pc \/ Goto("control", "forward")
    BY <1>10 DEF HandlesEvent, NextEvent
  <2> QED
    BY <1>1, <1>2, <2>1
<1>11. CASE ReadsMalformedLine \/ ReadsOrphanEvent
  BY <1>1, <1>11 DEF ReadsMalformedLine, ReadsOrphanEvent, NextEvent
<1>12. CASE AdmitsEvent \/ CapturesEventSite \/ NotifiesSite
  BY <1>1, <1>12 DEF AdmitsEvent, CapturesEventSite, NotifiesSite, Dispatched
<1> QED
  BY <1>1, <1>3, <1>4, <1>5, <1>6, <1>7, <1>8, <1>9, <1>10, <1>11, <1>12
     DEF AudioThread, ControlThread

\* Only the end of a session closes its pipes.
LEMMA OpenInvNext ==
    ASSUME Calm, TypeInv, OpenInv, [Next]_vars, ~DirectCaller
    PROVE  OpenInv'
<1> USE DEF timeVars, providerVars, engineVars
<1>1. /\ pc \in [Threads -> Place] /\ {"audio", "control", "speak", "purge"} \subseteq Threads
      /\ Readers = {"audio", "control"}
  BY DEF TypeInv, TypeOK, Threads, Readers, Callers
<1>2. ASSUME LinesStep PROVE OpenInv'
  BY <1>1, <1>2 DEF LinesStep, OpenInv
<1>3. CASE (AudioThread \/ ControlThread) /\ UNCHANGED engineVars
  BY <1>2, <1>3, ReadersKeepLines
<1>4. CASE InactivityElapses \/ DeadlinePasses
  BY <1>4 DEF InactivityElapses, DeadlinePasses, Calm
<1>5. CASE ProviderNext /\ UNCHANGED <<workerVars, engineVars>>
  <2>1. ~Crashes
    BY DEF Crashes, Calm
  <2>2. connected' = connected
    BY <1>5, <2>1 DEF ProviderNext, TakesSpeak, RefusesOverlap, WritesFrame, EmitsBoundary,
                      DeclaresComplete, AcknowledgesCancel, IgnoresCancel, FailsRequest, Deviates
  <2> QED
    BY <1>2, <1>5, <2>2 DEF workerVars, LinesStep, OpenInv
<1>6. CASE SpeakThread
  <2>1. ASSUME NEW place, CreatesSession(place), place # "gone" PROVE OpenInv'
    <3>1. pc'["speak"] # "gone" /\ connected'
      BY <1>1, <2>1 DEF CreatesSession, OpenPipes
    <3> QED
      BY <2>1, <3>1 DEF CreatesSession, OpenInv
  <2>2. CASE SetsObjectToken
    <3>1. CASE CreatesSession("idle")
      BY <2>1, <3>1
    <3> QED
      BY <2>2, <3>1 DEF SetsObjectToken, OpenInv
  <2>3. CASE RecreatesSession
    BY <2>1, <2>3 DEF RecreatesSession
  <2>4. CASE Retires
    BY <1>1, <2>4 DEF Retires, OpenInv, Goto
  <2>5. CASE Destroys
    BY <1>1, <2>5 DEF Destroys, Joined, At, OpenInv, Goto
  <2>6. CASE BeginsRetirement \/ BeginsDestruction
    <3>1. pc'["speak"] # "gone"
      BY <1>1, <2>6 DEF BeginsRetirement, BeginsDestruction
    <3>2. pc["speak"] # "gone" /\ UNCHANGED <<connected, session, idleElapsed, deadlinePassed>>
      BY <2>6 DEF BeginsRetirement, BeginsDestruction, At
    <3> QED
      BY <3>1, <3>2 DEF OpenInv
  <2>7. CASE EnterFaultedState("speak") /\ UNCHANGED engineVars
    BY <1>1, <1>2, <2>7, FaultKeepsLines
  <2>8. CASE SpeakBegins \/ FindsSessionActive \/ HasNoSession \/ Starts \/ StartRefused
             \/ SendsSpeak \/ SpeakSendFails \/ WaitEnds \/ WaitTimesOut
    BY <1>1, <2>8 DEF SpeakBegins, FindsSessionActive, HasNoSession, Starts, StartRefused,
           SendsSpeak, SpeakSendFails, WaitEnds, WaitTimesOut, Returns, Goto, At, OpenInv
  <2>9. CASE ObservesAbort \/ SpeakCancels \/ DrainEnds \/ DrainTimesOut \/ SpeakReturns
    BY <1>1, <2>9 DEF ObservesAbort, BeginsCancellation, SpeakCancels, SendsCancel,
           CancelSendFails, DrainEnds, DrainTimesOut, SpeakReturns, Returns, Goto, At, OpenInv
  <2> QED
    BY <1>6, <2>2, <2>3, <2>4, <2>5, <2>6, <2>7, <2>8, <2>9 DEF SpeakThread
<1>7. CASE UNCHANGED vars
  BY <1>7 DEF vars, OpenInv
<1> QED
  BY <1>3, <1>4, <1>5, <1>6, <1>7 DEF Next, Terminated

\* As long as no fault is touched nothing fails: pipes are open, no deadline is over, no
\* write fails and no event is one of a session.
LEMMA NothingFails ==
    ASSUME Calm, TypeInv, CallInv, SessionInv, OpenInv, SessionFits, ~Touched
    PROVE  /\ \A t \in Threads : ~EnterFaultedState(t)
           /\ \A u \in Readers : ~ReadBreaks(u) /\ (ReadFailed(u) => exit)
           /\ ~AssemblyThrows /\ ~FaultsOnIdleAudio
           /\ ~ReadsMalformedLine /\ ~ReadsOrphanEvent
           /\ \A place : ~CancelSendFails("audio", place) /\ ~CancelSendFails("speak", place)
           /\ ~SpeakSendFails /\ ~WaitTimesOut /\ ~DrainTimesOut
<1>1. \A t \in Threads : fault[t] = "none"
  BY DEF Touched
<1>2. /\ "audio" \in Threads /\ "speak" \in Threads
      /\ \A u \in Readers : u \in {"audio", "control"}
  BY DEF Threads, Readers, Callers
<1>3. ASSUME pc["audio"] # "exit" \/ pc["control"] # "exit"
      PROVE  connected
  BY <1>3 DEF SessionInv, RetiredIsQuiet, OpenInv
<1>4. pc["speak"] \in {"send", "sendCancel"} => connected
  BY DEF CallInv, CallHasSession, OpenInv
<1>5. connected => ~SendMayFail
  BY <1>1 DEF SendMayFail, Calm
<1>6. \A t \in Threads : ~EnterFaultedState(t)
  BY <1>1 DEF EnterFaultedState, FaultsRequest, PublishesFault, CancelsIo
<1>7. ASSUME NEW u \in Readers
      PROVE  ~ReadBreaks(u) /\ (ReadFailed(u) => exit)
  <2>1. ~ReadBreaks(u)
    BY <1>2, <1>3, <1>7 DEF ReadBreaks, At
  <2>2. ReadFailed(u) => exit
    BY <1>7 DEF ReadFailed, At, Touched
  <2> QED
    BY <2>1, <2>2
<1>8. ~AssemblyThrows
  BY DEF AssemblyThrows, Calm
<1>9. ~FaultsOnIdleAudio
  <2>1. SUFFICES ASSUME NEW data \in Chunks, Reads(data),
                        ChunkAction(ctx) = "FaultUnexpectedIdleAudio"
                 PROVE  FALSE
    BY DEF FaultsOnIdleAudio
  <2>2. ctx.downstreamState # "Idle" /\ ctx \in Context
    BY <2>1, ReadFits DEF TypeInv, TypeOK
  <2> QED
    BY <2>1, <2>2 DEF ChunkAction, Context, DownstreamState
<1>10. ~ReadsMalformedLine /\ ~ReadsOrphanEvent
  BY NextEventFits DEF ReadsMalformedLine, ReadsOrphanEvent, NextEvent, EventFits, Taken
<1>11. ASSUME NEW place
       PROVE  ~CancelSendFails("audio", place) /\ ~CancelSendFails("speak", place)
  <2>1. ~OutOfBudget("audio") /\ ~OutOfBudget("speak")
    BY DEF OutOfBudget, OpenInv
  <2> QED
    BY <1>3, <1>4, <1>5, <2>1 DEF CancelSendFails, At
<1>12. ~SpeakSendFails
  BY <1>4, <1>5 DEF SpeakSendFails, At
<1>13. ~WaitTimesOut /\ ~DrainTimesOut
  BY DEF WaitTimesOut, DrainTimesOut, CancellationTimedOut, InactivityTimedOut, OpenInv
<1> QED
  BY <1>6, <1>7, <1>8, <1>9, <1>10, <1>11, <1>12, <1>13

\* No thread enters the faulted state on its own, and no read fails before the worker is
\* told to exit.
Harmless ==
    /\ \A t \in Threads : fault'[t] # "enter"
    /\ exit => exit'
    /\ \A u \in Readers : pc'[u] = "failed" => exit' \/ pc[u] = "failed"

LEMMA NobodyFails ==
    ASSUME Calm, TypeInv, CallInv, SessionInv, OpenInv, SessionFits, ~Touched,
           [Next]_vars, ~DirectCaller, ~HandlesEvent, ~Creates
    PROVE  Harmless
<1>1. /\ pc \in [Threads -> Place] /\ fault \in [Threads -> FaultStage]
      /\ {"audio", "control", "speak"} \subseteq Threads /\ Readers = {"audio", "control"}
      /\ Readers \subseteq Threads
  BY DEF TypeInv, TypeOK, Threads, Readers, Callers
<1>2. \A t \in Threads : fault[t] = "none"
  BY DEF Touched
<1>3. ASSUME exit' = exit,
             \/ fault' = fault
             \/ \E t, stage : stage # "enter" /\ fault' = [fault EXCEPT ![t] = stage],
             pc' = pc \/ \E t, place : place # "failed" /\ Goto(t, place)
      PROVE  Harmless
  <2>1. \A t \in Threads : fault'[t] # "enter"
    BY <1>1, <1>2, <1>3
  <2>2. \A u \in Readers : pc'[u] = "failed" => pc[u] = "failed"
    BY <1>1, <1>3 DEF Goto
  <2> QED
    BY <1>3, <2>1, <2>2 DEF Harmless
<1>4. CASE AudioThread
  <2>1. CASE ReadFailed("audio") \/ LeavesLoop("audio")
    <3>1. UNCHANGED <<exit, fault>> /\ Goto("audio", "exit")
      BY <1>1, <2>1, NothingFails DEF ReadFailed, LeavesLoop
    <3> QED
      BY <1>3, <3>1
  <2>2. CASE AssemblesSpeakingAudio
    <3>1. PICK data \in Chunks : AssemblesSpeakingAudio!(data)
      BY <2>2 DEF AssemblesSpeakingAudio
    <3> DEFINE framed == Process(carry, SubSeq(data, 1, BytesToFrame(ctx, Len(data))))
               found == CheckTerminalBoundary(Counted(data), framed.carry).fault
    <3>2. /\ exit' = exit
          /\ \/ /\ fault' = [fault EXCEPT !["audio"] = IF found THEN "pending" ELSE "none"]
                /\ UNCHANGED pc
             \/ fault' = fault /\ Goto("audio", "deliver")
      BY <3>1
    <3> HIDE DEF found
    <3> QED
      BY <1>3, <3>2
  <2>3. CASE DrainsCancellationAudio \/ DrainsFaultedAudio
    BY <1>3, <2>3 DEF DrainsCancellationAudio, DrainsFaultedAudio
  <2>4. CASE AdmitsSpan \/ CapturesSite \/ SiteAcceptsSpan \/ SiteRejectsSpan
    <3>1. UNCHANGED <<exit, fault>>
          /\ \E place : place # "failed" /\ Goto("audio", place)
      BY <2>4 DEF AdmitsSpan, CapturesSite, SiteAcceptsSpan, SiteRejectsSpan
    <3> QED
      BY <1>3, <3>1
  <2>5. CASE UpdatesAfterDelivery
    <3> DEFINE c == IF BatchAction(ctx, batch.token, ~batch.accepted) = "CreditAndCheckBoundary"
                    THEN [ctx EXCEPT !.deliveredAudioBytes = @ + batch.credited] ELSE ctx
               found == CheckTerminalBoundary(c, carry).fault
    <3>1. /\ exit' = exit
          /\ \/ fault' = fault
             \/ fault' = [fault EXCEPT !["audio"] = IF found THEN "pending" ELSE "none"]
          /\ Goto("audio", "read") \/ Goto("audio", "sendCancel")
      BY <2>5 DEF UpdatesAfterDelivery
    <3> HIDE DEF found
    <3> QED
      BY <1>3, <3>1
  <2>6. CASE AudioSendsCancel
    BY <1>3, <2>6, NothingFails DEF AudioSendsCancel, SendsCancel
  <2> QED
    BY <1>1, <1>4, <2>1, <2>2, <2>3, <2>4, <2>5, <2>6, NothingFails DEF AudioThread
<1>5. CASE ControlThread
  <2>1. CASE ReadFailed("control") \/ LeavesLoop("control")
    <3>1. UNCHANGED <<exit, fault>> /\ Goto("control", "exit")
      BY <1>1, <2>1, NothingFails DEF ReadFailed, LeavesLoop
    <3> QED
      BY <1>3, <3>1
  <2>2. CASE AdmitsEvent \/ CapturesEventSite \/ NotifiesSite
    <3>1. /\ exit' = exit
          /\ \/ fault' = fault
             \/ fault' = [fault EXCEPT !["control"] = IF disposition.fault THEN "pending" ELSE "none"]
          /\ \E place : place # "failed" /\ Goto("control", place)
      BY <2>2 DEF AdmitsEvent, CapturesEventSite, NotifiesSite, Dispatched
    <3> QED
      BY <1>3, <3>1
  <2> QED
    BY <1>1, <1>5, <2>1, <2>2, NothingFails DEF ControlThread
<1>6. CASE SpeakThread
  <2>1. CASE BeginsRetirement \/ BeginsDestruction
    BY <1>2, <2>1 DEF BeginsRetirement, BeginsDestruction, Harmless
  <2>2. CASE SpeakBegins \/ FindsSessionActive \/ Retires \/ HasNoSession \/ Starts
             \/ StartRefused \/ SendsSpeak \/ WaitEnds \/ ObservesAbort
    BY <1>3, <2>2 DEF SpeakBegins, FindsSessionActive, Retires, HasNoSession, Starts,
           StartRefused, SendsSpeak, WaitEnds, ObservesAbort, Returns
  <2>3. CASE SpeakCancels \/ DrainEnds \/ SpeakReturns \/ Destroys
    BY <1>3, <2>3, NothingFails DEF SpeakCancels, SendsCancel, DrainEnds, SpeakReturns, Destroys,
           Returns
  <2> QED
    BY <1>1, <1>6, <2>1, <2>2, <2>3, NothingFails DEF SpeakThread, Creates
<1>7. CASE \/ InactivityElapses \/ DeadlinePasses \/ UNCHANGED vars
           \/ ProviderNext /\ UNCHANGED <<workerVars, engineVars>>
  BY <1>3, <1>7 DEF InactivityElapses, DeadlinePasses, vars, workerVars
<1> QED
  BY <1>4, <1>5, <1>6, <1>7 DEF Next, Terminated

\* So a fault that is not touched stays so, until an event is handled.
LEMMA UntouchedStays ==
    ASSUME Calm, TypeInv, LifecycleMatrix, CallInv, SessionInv, QuarantineInv, OpenInv,
           SessionFits, DeliveredInv, ~Touched, [Next]_vars, ~DirectCaller, ~HandlesEvent,
           ~Creates
    PROVE  ~Touched'
<1>1. /\ ~Marked(ctx) /\ \A t \in Threads : fault[t] = "none"
      /\ fault \in [Threads -> FaultStage]
  BY DEF Touched, TypeInv, TypeOK
<1>2. Harmless
  BY NobodyFails
<1>3. ~Marked(ctx')
  <2>1. CASE Starts
    BY <2>1 DEF Starts, Marked, Reset, FreshContext
  <2>2. CASE ~Starts
    BY <1>1, <2>2, StepProgress DEF Progress, Marked
  <2> QED
    BY <2>1, <2>2
<1>4. \A t \in Threads : fault'[t] = "none"
  <2>1. MarkStep
    BY <1>1, EveryMarkStep DEF NoLateErrorLog, SessionInv
  <2>2. ~disposition.fault
    BY <1>1 DEF QuarantineInv
  <2>3. ASSUME NEW t \in Threads PROVE ~Finds(t) /\ ~Enters(t) /\ ~Publishes(t)
    <3>1. ~Finds(t)
      BY <1>3 DEF Finds
    <3>2. ~Enters(t)
      BY <1>1, <1>2 DEF Enters, Harmless
    <3>3. ~Publishes(t)
      BY <1>1 DEF Publishes, FaultsRequest, PublishesFault, CancelsIo
    <3> QED
      BY <3>1, <3>2, <3>3
  <2>4. fault' = fault
    BY <2>1, <2>2, <2>3 DEF MarkStep, Ignores, Forwards, Dispatches, NewWorker
  <2> QED
    BY <1>1, <2>4
<1>5. ASSUME ~exit', NEW u \in Readers, pc'[u] = "failed" PROVE FALSE
  BY <1>2, <1>5 DEF Harmless, Touched
<1> QED
  BY <1>3, <1>4, <1>5 DEF Touched

\* An event touches a fault only as the acknowledgement of a cancel that came after the
\* provider had declared its terminal.
LEMMA HandlingTouches ==
    ASSUME TypeInv, LifecycleMatrix, SessionInv, SessionFits, DeliveredInv, ~Touched,
           HandlesEvent
    PROVE  Touched' => Spent'
<1> DEFINE event == Head(events)
           r     == HandleParsedControlEvent(event)
<1>1. /\ ~Marked(ctx) /\ \A t \in Threads : fault[t] = "none"
      /\ ctx \in Context /\ fault \in [Threads -> FaultStage] /\ pc \in [Threads -> Place]
      /\ "control" \in Threads /\ Readers \subseteq Threads
  BY DEF Touched, TypeInv, TypeOK, Threads, Readers
<1>2. /\ events # <<>> /\ events' = Tail(events) /\ provider' = provider /\ exit' = exit
      /\ aborted' = aborted /\ Publish(r)
      /\ fault' = fault \/ fault' = [fault EXCEPT !["control"] = IF r.fault THEN "pending" ELSE "none"]
      /\ pc' = pc \/ pc' = [pc EXCEPT !["control"] = "forward"]
  BY DEF HandlesEvent, NextEvent, historyVars, Goto
<1>3. /\ event \in Event /\ EventFits(provider, event)
      /\ event.type \in {"cancelled", "logError"} => Tail(events) = <<>>
      /\ Taken(ctx, provider) /\ ctx.downstreamState # "Idle"
  BY <1>2, NextEventFits
<1>4. /\ r.fault => /\ event.type \in {"complete", "cancelled"} /\ ctx.upstreamFinished
                    /\ r.ctx.downstreamState = "Faulted"
      /\ r.ctx.downstreamState = "Faulted" => r.fault \/ ctx.downstreamState = "Faulted"
  BY <1>2, EventFindsFault
<1>5. r.ctx \in Context /\ r.ctx.speakId = ctx.speakId
  BY <1>3, EventEnds
<1>6. r.ctx.faultPending = ctx.faultPending
  BY <1>1, <1>3, EventMark
<1> HIDE DEF r
<1>7. CASE ~r.fault
  <2>1. ctx' = r.ctx
    BY <1>2, <1>7 DEF Publish
  <2>2. ~Marked(ctx')
    BY <1>1, <1>4, <1>6, <1>7, <2>1 DEF Marked
  <2>3. \A t \in Threads : fault'[t] = "none"
    BY <1>1, <1>2, <1>7
  <2>4. \A u \in Readers : pc'[u] = "failed" => pc[u] = "failed"
    BY <1>1, <1>2
  <2> QED
    BY <1>2, <2>2, <2>3, <2>4 DEF Touched
<1>8. CASE r.fault
  <2>1. /\ ctx.downstreamState \in {"Speaking", "Cancelling"} /\ ctx.upstreamFinished
        /\ event.type \in {"complete", "cancelled"}
    BY <1>1, <1>3, <1>4, <1>8 DEF Context, DownstreamState, Marked
  <2>2. event.type = "cancelled"
    <3>1. TerminalFits(ctx, provider, events)
      BY DEF SessionFits, Fits
    <3>2. ctx.upstreamState \in {"Completed", "Cancelled"}
      BY <2>1, <3>1 DEF TerminalFits, InUse
    <3>3. ctx.upstreamState = "Completed"
      BY <1>2, <3>1, <3>2 DEF TerminalFits
    <3>4. \A i \in 1 .. Len(events) : events[i].type = "cancelled"
      BY <3>1, <3>3 DEF TerminalFits
    <3>5. 1 \in 1 .. Len(events) /\ Head(events) = events[1]
      BY <1>2 DEF TypeInv, TypeOK
    <3> QED
      BY <3>4, <3>5
  <2>3. events' = <<>> /\ ~provider'.busy
    BY <1>2, <1>3, <2>2 DEF EventFits
  <2>4. event.speakId \in aborted
    <3>1. 1 \in 1 .. Len(events) /\ Head(events) = events[1]
      BY <1>2 DEF TypeInv, TypeOK
    <3> QED
      BY <2>2, <3>1 DEF DeliveredInv, AbortInv
  <2>5. ctx'.downstreamState = "Faulted" /\ ctx'.speakId = ctx.speakId
    BY <1>2, <1>4, <1>5, <1>8 DEF Publish, Context
  <2>6. Taken(ctx', provider')
    BY <1>2, <1>3, <2>5 DEF Taken
  <2> QED
    BY <1>2, <2>3, <2>4, <2>5, <2>6 DEF Spent
<1> QED
  BY <1>7, <1>8

\* A provider that has said all says no more.
LEMMA SpentProvider ==
    ASSUME ContractKept, Calm, TypeInv, SessionFits, Spent, [Next]_vars, ~DirectCaller, ~Creates
    PROVE  provider'.speakId = provider.speakId /\ ~provider'.busy /\ events' = <<>>
<1>1. provider \in Provider /\ ~provider.busy /\ events = <<>> /\ Taken(ctx, provider)
  BY DEF Spent, TypeInv, TypeOK
<1>2. CASE ProviderNext
  <2>1. ~TakesSpeak
    <3>1. SUFFICES ASSUME TakesSpeak PROVE FALSE
      OBVIOUS
    <3>2. commands # <<>> /\ Head(commands).kind = "sapi_speak"
      BY <3>1 DEF TakesSpeak, NextCommandIs
    <3>3. commands \in Seq(Command) /\ SpeakFits(ctx, provider, commands)
      BY DEF TypeInv, TypeOK, SessionFits, Fits
    <3>4. provider.speakId < ctx.speakId
      BY <3>2, <3>3, NextCommandFits
    <3>5. provider.speakId = ctx.speakId /\ provider.speakId \in Nat
      BY <1>1, ProviderAssumption DEF Taken, Provider
    <3> QED
      BY <3>4, <3>5
  <2>2. ~Deviates
    BY DEF ContractKept, Deviates, Deviations
  <2>3. ~Crashes
    BY DEF Crashes, Calm
  <2>4. IgnoresCancel
    BY <1>1, <1>2, <2>1, <2>2, <2>3 DEF ProviderNext, RefusesOverlap, WritesFrame,
       EmitsBoundary, DeclaresComplete, AcknowledgesCancel, FailsRequest
  <2> QED
    BY <1>1, <2>4 DEF IgnoresCancel
<1>3. CASE ~ProviderNext
  <2>1. EventsLeft /\ ProviderLeft
    BY <1>3, OthersLeaveEvents, PipesLeft
  <2> QED
    BY <1>1, <2>1 DEF EventsLeft, ProviderLeft, Provider
<1> QED
  BY <1>2, <1>3

\* The request that was cancelled too late stays the last of its session.
LEMMA SpentKept ==
    ASSUME ContractKept, Calm, TypeInv, TypeInv', LifecycleMatrix, CallInv, SessionInv,
           SessionInv', QuarantineInv, SessionFits, DeliveredInv, Spent, [Next]_vars,
           ~DirectCaller, ~Creates
    PROVE  Spent'
<1>1. provider'.speakId = provider.speakId /\ ~provider'.busy /\ events' = <<>>
  BY SpentProvider
<1>2. ~Starts
  BY DEF Starts, StartAccepted, Spent
<1>3. aborted \subseteq aborted' /\ ctx'.speakId = ctx.speakId
  BY <1>2, EveryEffect DEF DeliveredInv, Effects, CtxStep, AbortStep
<1>4. ctx'.downstreamState = "Faulted"
  <2>1. CASE session = "live"
    <3>1. NoLateErrorLog
      BY DEF Spent, NoLateErrorLog
    <3> QED
      BY <2>1, <3>1, QuarantineInvNext DEF Spent
  <2>2. CASE session # "live"
    BY <2>2, RetiredKeepsContext DEF SessionInv, Spent
  <2> QED
    BY <2>1, <2>2
<1> QED
  BY <1>1, <1>3, <1>4 DEF Spent, Taken

\* A new session is untouched.
LEMMA CreationIsUntouched ==
    ASSUME TypeInv, SessionInv, CalmInv, Creates
    PROVE  Touched' => Spent'
<1>1. PICK place \in {"idle", "start"} :
          \/ session # "live" /\ CreatesSession(place)
          \/ UNCHANGED <<requestVars, faultVars, exit, timeVars, pc, fault, localVars, site,
                         historyVars, providerVars, speakCounter>>
  BY DEF Creates, SetsObjectToken, RecreatesSession
<1>2. CASE UNCHANGED <<requestVars, faultVars, exit, timeVars, pc, fault, localVars, site,
                       historyVars, providerVars, speakCounter>>
  <2>1. UNCHANGED <<ctx, exit, pc, fault, aborted, events, provider>>
    BY <1>2 DEF requestVars, historyVars, providerVars
  <2> QED
    BY <2>1 DEF CalmInv, Touched, Marked, Spent, Taken
<1>3. CASE session # "live" /\ CreatesSession(place)
  <2>1. ~Marked(ctx')
    BY <1>3 DEF CreatesSession, FreshContext, Marked
  <2>2. \A t \in Threads : fault'[t] = "none"
    BY <1>3 DEF CreatesSession, SessionInv, RetiredIsQuiet
  <2>3. pc'["audio"] = "read" /\ pc'["control"] = "read"
    BY <1>3 DEF CreatesSession, TypeInv, TypeOK, Threads, Readers, Callers
  <2> QED
    BY <2>1, <2>2, <2>3 DEF Touched, Readers
<1> QED
  BY <1>1, <1>2, <1>3

LEMMA CalmInvInit == Init => CalmInv
BY DEF Init, CalmInv, OpenInv, Touched, Marked, FreshContext, Threads, Readers, Callers

LEMMA CalmInvNext ==
    ASSUME ContractKept, Calm, TypeInv, TypeInv', LifecycleMatrix, CallInv, SessionInv,
           SessionInv', ContractInv, DeliveredInv, QuarantineInv, CalmInv, [Next]_vars
    PROVE  QuarantineInv' /\ CalmInv'
<1>1. SessionFits /\ ~DirectCaller
  <2>1. "direct" \notin Env /\ DispositionIsHeld /\ NoDirectCall
    BY DEF ContractKept, SessionInv, ContractInv
  <2> QED
    BY <2>1, NoDirectCallNext DEF ContractInv
<1>2. OpenInv /\ OpenInv'
  BY <1>1, OpenInvNext DEF CalmInv
<1>3. QuarantineInv'
  <2>1. NoLateErrorLog
    BY DEF CalmInv, Touched, Spent, NoLateErrorLog
  <2> QED
    BY <2>1, QuarantineInvNext
<1>4. Touched' => Spent'
  <2>1. CASE Creates
    BY <2>1, CreationIsUntouched
  <2>2. CASE ~Creates /\ Touched
    <3>1. Spent
      BY <2>2 DEF CalmInv
    <3> QED
      BY <1>1, <2>2, <3>1, SpentKept
  <2>3. CASE ~Creates /\ ~Touched /\ HandlesEvent
    BY <1>1, <2>3, HandlingTouches
  <2>4. CASE ~Creates /\ ~Touched /\ ~HandlesEvent
    BY <1>1, <1>2, <2>4, UntouchedStays
  <2> QED
    BY <2>1, <2>2, <2>3, <2>4
<1> QED
  BY <1>2, <1>3, <1>4 DEF CalmInv

LEMMA CalmInvHolds ==
    ASSUME ContractKept, Calm
    PROVE  Spec => [](QuarantineInv /\ CalmInv)
<1>1. ASSUME TypeInv, TypeInv', LifecycleMatrix, CallInv, SessionInv, SessionInv', ContractInv,
             DeliveredInv, QuarantineInv /\ CalmInv, [Next]_vars
      PROVE  (QuarantineInv /\ CalmInv)'
  BY <1>1, CalmInvNext
<1> QED
  BY <1>1, QuarantineInvInit, CalmInvInit, TypeCorrect, LifecycleMatrixHolds, CallInvHolds,
     SessionInvHolds, ContractInvHolds, DeliveredInvHolds, PTL DEF Spec

\* With a provider that keeps its contract, and as long as no process, pipe or memory
\* fails and no deadline passes, a session is faulted only after a cancellation was
\* begun: no order of audio, events, failed requests, refused writes and calls makes a
\* fault of a request left alone.  The one fault there is comes with the acknowledgement
\* of a cancel for a request whose terminal had been declared.
THEOREM FaultNeedsCancelHolds ==
    ASSUME ContractKept, Calm
    PROVE  Spec => []FaultNeedsCancel
<1>1. TypeInv /\ LifecycleMatrix /\ CalmInv => FaultNeedsCancel
  <2>1. SUFFICES ASSUME TypeInv, LifecycleMatrix, CalmInv, IsFaulted
                 PROVE  aborted # {}
    BY DEF FaultNeedsCancel
  <2>2. ctx.downstreamState \in DownstreamState
    BY <2>1 DEF TypeInv, TypeOK, Context
  <2>3. Marked(ctx)
    BY <2>1, <2>2 DEF IsFaulted, Marked, LifecycleMatrix, DownstreamState
  <2> QED
    BY <2>1, <2>3 DEF CalmInv, Touched, Spent
<1> QED
  BY <1>1, TypeCorrect, LifecycleMatrixHolds, CalmInvHolds, PTL

\* That fault has nothing behind it in the pipe, so no error log comes late: the
\* quarantine holds, and S_OK means that the site was told all, with requests that fail
\* and requests that are cancelled in any number.
THEOREM CalmSessions ==
    ASSUME ContractKept, Calm
    PROVE  Spec => /\ []FaultBarrier /\ []PendingFaultIsPublished /\ QuarantineSticks
                   /\ []ToldAll
<1>1. CalmInv => NoLateErrorLog
  BY DEF CalmInv, Touched, Spent, NoLateErrorLog
<1>2. Spec => []NoLateErrorLog
  BY <1>1, CalmInvHolds, PTL
<1> QED
  BY <1>2, FaultBarrierHolds, PendingFaultIsPublishedHolds, QuarantineSticksHolds, ToldAllHolds,
     PTL
=============================================================================
