-------------------------- MODULE SapiEngine_proofs --------------------------
(***************************************************************************)
(* Theorems about SapiEngine that hold for every value of its constants:   *)
(* its types, the lifecycle of a request and its cancellation.             *)
(***************************************************************************)
EXTENDS SapiEngine, SequenceTheorems, FiniteSetTheorems, TLAPS

-----------------------------------------------------------------------------
(* What one call of PcmFrameAssembler::Process returns, for every frame    *)
(* size, partial frame and chunk.                                          *)

\* A multiple of n leaves no remainder: the solvers need it done by hand.
LEMMA MultipleHasNoRemainder ==
    ASSUME NEW b \in Nat \ {0}, NEW q \in Int
    PROVE  (b * q) % b = 0
<1> DEFINE m == b * q
<1>1. m \in Int
  OBVIOUS
<1>2. \A x \in Int : /\ x = b * (x \div b) + (x % b)
                     /\ x % b \in 0 .. b - 1
                     /\ x \div b \in Int
  OBVIOUS
<1>3. PICK d \in Int, r \in 0 .. b - 1 : m = b * d + r /\ r = m % b
  BY <1>1, <1>2
<1>4. b * (q - d) = r
  BY <1>3
<1>5. CASE q - d >= 1
  <2>1. b * (q - d) >= b
    BY <1>5
  <2> QED
    BY <1>4, <2>1
<1>6. CASE q - d <= -1
  <2>1. b * (q - d) <= -b
    BY <1>6
  <2> QED
    BY <1>4, <2>1
<1>7. CASE q - d = 0
  BY <1>3, <1>4, <1>7
<1> QED
  BY <1>5, <1>6, <1>7

\* The part of a byte count that is left over is less than a frame.
LEMMA AlignedBytes ==
    ASSUME NEW n \in Nat
    PROVE  /\ CalculateAlignedBytes(n) \in 0 .. n
           /\ n - CalculateAlignedBytes(n) < BlockAlign
           /\ CalculateAlignedBytes(n) % BlockAlign = 0
<1>1. BlockAlign \in Nat \ {0}
  BY BlockAlignAssumption
<1>2. /\ n = BlockAlign * (n \div BlockAlign) + (n % BlockAlign)
      /\ n % BlockAlign \in 0 .. BlockAlign - 1
      /\ n \div BlockAlign \in Int
  BY <1>1
<1>3. n % BlockAlign <= n
  BY <1>1
<1>4. (n - (n % BlockAlign)) % BlockAlign = 0
  <2>1. n - (n % BlockAlign) = BlockAlign * (n \div BlockAlign)
    BY <1>1, <1>2
  <2> QED
    BY <1>1, <1>2, <2>1, MultipleHasNoRemainder
<1> QED
  BY <1>1, <1>2, <1>3, <1>4 DEF CalculateAlignedBytes

\* Between whole frames there is room for a whole frame.
LEMMA WholeFrameFits ==
    ASSUME NEW b \in Nat \ {0}, NEW a \in Nat, NEW c \in Nat,
           a % b = 0, c % b = 0, a < c
    PROVE  a + b <= c /\ (a + b) % b = 0
<1> DEFINE m == a \div b
           n == c \div b
<1>1. m \in Int /\ n \in Int /\ a = b * m /\ c = b * n
  OBVIOUS
<1> HIDE DEF m, n
<1>2. m < n
  <2>1. ASSUME n <= m PROVE FALSE
    <3>1. b * n <= b * m
      BY <1>1, <2>1
    <3> QED
      BY <1>1, <3>1
  <2> QED
    BY <1>1, <2>1
<1>3. b * (m + 1) <= b * n
  BY <1>1, <1>2
<1>4. b * (m + 1) = a + b
  BY <1>1
<1>5. (b * (m + 1)) % b = 0
  BY <1>1, MultipleHasNoRemainder
<1> QED
  BY <1>1, <1>3, <1>4, <1>5

\* A prefix and a suffix of a sequence.
LEMMA PrefixSuffix ==
    ASSUME NEW S, NEW s \in Seq(S), NEW n \in 0 .. Len(s)
    PROVE  /\ SubSeq(s, 1, n) \in Seq(S) /\ Len(SubSeq(s, 1, n)) = n
           /\ SubSeq(s, n + 1, Len(s)) \in Seq(S)
           /\ Len(SubSeq(s, n + 1, Len(s))) = Len(s) - n
<1>1. Len(s) \in Nat /\ n \in Int
  BY LenProperties
<1>2. \A i \in 1 .. Len(s) : s[i] \in S
  BY ElementOfSeq
<1>3. \A i \in 1 .. n : s[i] \in S
  BY <1>1, <1>2
<1>4. \A i \in n + 1 .. Len(s) : s[i] \in S
  BY <1>1, <1>2
<1>5. SubSeq(s, 1, n) \in Seq(S) /\ Len(SubSeq(s, 1, n)) = n
  BY <1>1, <1>3, SubSeqProperties
<1>6. /\ SubSeq(s, n + 1, Len(s)) \in Seq(S)
      /\ Len(SubSeq(s, n + 1, Len(s))) = Len(s) - n
  BY <1>1, <1>4, SubSeqProperties
<1> QED
  BY <1>5, <1>6

\* The aligned part and the remainder of the data that follows a whole frame.
LEMMA AlignedRemainder ==
    ASSUME NEW S, NEW s \in Seq(S)
    PROVE  /\ Aligned(s) \in Seq(S) /\ Len(Aligned(s)) % BlockAlign = 0
           /\ Remainder(s) \in Seq(S) /\ Len(Remainder(s)) < BlockAlign
<1> DEFINE n == CalculateAlignedBytes(Len(s))
<1>1. Len(s) \in Nat
  BY LenProperties
<1>2. n \in 0 .. Len(s) /\ n % BlockAlign = 0 /\ Len(s) - n < BlockAlign
  BY <1>1, AlignedBytes
<1>3. Aligned(s) = SubSeq(s, 1, n) /\ Remainder(s) = SubSeq(s, n + 1, Len(s))
  BY DEF Aligned, Remainder
<1> HIDE DEF n
<1>4. /\ SubSeq(s, 1, n) \in Seq(S) /\ Len(SubSeq(s, 1, n)) = n
      /\ SubSeq(s, n + 1, Len(s)) \in Seq(S)
      /\ Len(SubSeq(s, n + 1, Len(s))) = Len(s) - n
  BY <1>2, PrefixSuffix
<1> QED
  BY <1>2, <1>3, <1>4

\* Each span Process hands out is a whole number of frames, and what is carried
\* over to the next chunk is less than a frame.
THEOREM ProcessYieldsWholeFrames ==
    ASSUME NEW S, NEW partial \in Seq(S), Len(partial) < BlockAlign, NEW data \in Seq(S)
    PROVE  LET result == Process(partial, data)
           IN /\ result.spans \in Seq(Seq(S))
              /\ \A i \in 1 .. Len(result.spans) : Len(result.spans[i]) % BlockAlign = 0
              /\ result.carry \in Seq(S)
              /\ Len(result.carry) < BlockAlign
<1> DEFINE needed == BlockAlign - Len(partial)
           prefix == IF partial = <<>> THEN <<>> ELSE partial \o SubSeq(data, 1, needed)
           rest   == IF partial = <<>> THEN data ELSE SubSeq(data, needed + 1, Len(data))
<1>1. Len(partial) \in Nat /\ Len(data) \in Nat /\ BlockAlign \in Nat \ {0}
  BY LenProperties, BlockAlignAssumption
<1>2. CASE partial # <<>> /\ Len(data) < needed
  <2>1. Process(partial, data) = [spans |-> <<>>, carry |-> partial \o data]
    BY <1>2 DEF Process
  <2>2. partial \o data \in Seq(S) /\ Len(partial \o data) < BlockAlign
    BY <1>1, <1>2, ConcatProperties
  <2> QED
    BY <2>1, <2>2
<1>3. CASE ~(partial # <<>> /\ Len(data) < needed)
  <2>1. Process(partial, data) = [spans |-> NonEmpty(prefix) \o NonEmpty(Aligned(rest)),
                                carry |-> Remainder(rest)]
    BY <1>3 DEF Process
  <2>2. partial # <<>> => needed \in 0 .. Len(data)
    BY <1>1, <1>3
  <2>3. prefix \in Seq(S) /\ Len(prefix) % BlockAlign = 0
    <3>1. CASE partial = <<>>
      BY <1>1, <3>1
    <3>2. CASE partial # <<>>
      <4>1. SubSeq(data, 1, needed) \in Seq(S) /\ Len(SubSeq(data, 1, needed)) = needed
        BY <2>2, <3>2, PrefixSuffix
      <4>2. prefix \in Seq(S) /\ Len(prefix) = BlockAlign
        BY <1>1, <3>2, <4>1, ConcatProperties
      <4>3. BlockAlign % BlockAlign = 0
        BY <1>1
      <4> QED
        BY <4>2, <4>3
    <3> QED
      BY <3>1, <3>2
  <2>4. rest \in Seq(S)
    BY <2>2, PrefixSuffix
  <2>5. \A t \in Seq(S) : Len(t) % BlockAlign = 0 =>
            /\ NonEmpty(t) \in Seq(Seq(S))
            /\ \A i \in 1 .. Len(NonEmpty(t)) : Len(NonEmpty(t)[i]) % BlockAlign = 0
    BY DEF NonEmpty
  <2>6. Aligned(rest) \in Seq(S) /\ Len(Aligned(rest)) % BlockAlign = 0
        /\ Remainder(rest) \in Seq(S) /\ Len(Remainder(rest)) < BlockAlign
    <3> HIDE DEF rest
    <3> QED
      BY <2>4, AlignedRemainder
  <2> DEFINE first == NonEmpty(prefix)  second == NonEmpty(Aligned(rest))
  <2>7. /\ first \in Seq(Seq(S)) /\ second \in Seq(Seq(S))
        /\ \A i \in 1 .. Len(first) : Len(first[i]) % BlockAlign = 0
        /\ \A i \in 1 .. Len(second) : Len(second[i]) % BlockAlign = 0
    BY <2>3, <2>5, <2>6
  <2>8. /\ first \o second \in Seq(Seq(S))
        /\ \A i \in 1 .. Len(first \o second) : Len((first \o second)[i]) % BlockAlign = 0
    <3> HIDE DEF first, second
    <3>1. Len(first) \in Nat /\ Len(second) \in Nat
      BY <2>7, LenProperties
    <3> QED
      BY <2>7, <3>1, ConcatProperties
  <2> QED
    BY <2>1, <2>6, <2>8, SMTT(30)
<1> QED
  BY <1>2, <1>3
-----------------------------------------------------------------------------
\* The bytes of the one or two spans of a call, in the order they are written.
Flat(spans) ==
    IF spans = <<>> THEN <<>>
    ELSE IF Len(spans) = 1 THEN spans[1] ELSE spans[1] \o spans[2]

\* A sequence is its first n elements followed by the others.
LEMMA PrefixThenSuffix ==
    ASSUME NEW S, NEW s \in Seq(S), NEW n \in 0 .. Len(s)
    PROVE  SubSeq(s, 1, n) \o SubSeq(s, n + 1, Len(s)) = s
<1>1. Len(s) \in Nat
  BY LenProperties
<1>2. 1 \in 1 .. Len(s) + 1 /\ n \in 1 - 1 .. Len(s) /\ Len(s) \in n .. Len(s)
  BY <1>1
<1>3. SubSeq(s, 1, n) \o SubSeq(s, n + 1, Len(s)) = SubSeq(s, 1, Len(s))
  BY <1>2, ConcatAdjacentSubSeq, Zenon
<1> QED
  BY <1>3, SubSeqFull

\* The aligned part is followed by the remainder, and both lead back to the data.
LEMMA AlignedThenRemainder ==
    ASSUME NEW S, NEW s \in Seq(S)
    PROVE  Aligned(s) \o Remainder(s) = s
<1> DEFINE n == CalculateAlignedBytes(Len(s))
<1>1. Len(s) \in Nat
  BY LenProperties
<1>2. n \in 0 .. Len(s)
  BY <1>1, AlignedBytes
<1>3. Aligned(s) = SubSeq(s, 1, n) /\ Remainder(s) = SubSeq(s, n + 1, Len(s))
  BY DEF Aligned, Remainder
<1> HIDE DEF n
<1> QED
  BY <1>2, <1>3, PrefixThenSuffix

\* The spans that are left out are empty.
LEMMA FlatOfNonEmpty ==
    ASSUME NEW S, NEW a \in Seq(S), NEW b \in Seq(S)
    PROVE  LET spans == NonEmpty(a) \o NonEmpty(b)
           IN /\ Flat(spans) = a \o b
              /\ Len(spans) <= 2
              /\ \A i \in 1 .. Len(spans) : spans[i] # <<>>
<1> DEFINE spans == NonEmpty(a) \o NonEmpty(b)
<1> SUFFICES /\ Flat(spans) = a \o b
             /\ Len(spans) <= 2
             /\ \A i \in 1 .. Len(spans) : spans[i] # <<>>
  OBVIOUS
<1>1. CASE a = <<>> /\ b = <<>>
  <2>1. spans = <<>>
    BY <1>1 DEF NonEmpty
  <2>2. a \o b = <<>>
    BY <1>1
  <2> HIDE DEF spans
  <2> QED
    BY <2>1, <2>2 DEF Flat
<1>2. CASE a = <<>> /\ b # <<>>
  <2>1. spans = <<b>> /\ a \o b = b
    <3>1. NonEmpty(a) = <<>> /\ NonEmpty(b) = <<b>> /\ <<b>> \in Seq(Seq(S))
      BY <1>2 DEF NonEmpty
    <3> QED
      BY <1>2, <3>1, ConcatEmptySeq
  <2> HIDE DEF spans
  <2> QED
    BY <1>2, <2>1 DEF Flat
<1>3. CASE a # <<>> /\ b = <<>>
  <2>1. spans = <<a>> /\ a \o b = a
    <3>1. NonEmpty(b) = <<>> /\ NonEmpty(a) = <<a>> /\ <<a>> \in Seq(Seq(S))
      BY <1>3 DEF NonEmpty
    <3> QED
      BY <1>3, <3>1, ConcatEmptySeq
  <2> HIDE DEF spans
  <2> QED
    BY <1>3, <2>1 DEF Flat
<1>4. CASE a # <<>> /\ b # <<>>
  <2>1. /\ spans \in Seq(Seq(S)) /\ Len(spans) = 2
        /\ spans[1] = a /\ spans[2] = b
    <3>1. /\ NonEmpty(a) = <<a>> /\ NonEmpty(b) = <<b>>
          /\ <<a>> \in Seq(Seq(S)) /\ <<b>> \in Seq(Seq(S))
          /\ Len(<<a>>) = 1 /\ Len(<<b>>) = 1 /\ <<a>>[1] = a /\ <<b>>[1] = b
      BY <1>4 DEF NonEmpty
    <3> QED
      BY <3>1, ConcatProperties
  <2> HIDE DEF spans
  <2>2. spans # <<>> /\ Len(spans) # 1
    <3>1. Len(spans) = 2
      BY <2>1
    <3>2. spans # <<>>
      BY <2>1, <3>1, EmptySeq
    <3> QED
      BY <3>1, <3>2
  <2>3. Flat(spans) = a \o b
    BY <2>1, <2>2, Zenon DEF Flat
  <2>4. \A i \in 1 .. Len(spans) : i = 1 \/ i = 2
    BY <2>1
  <2> QED
    BY <1>4, <2>1, <2>3, <2>4
<1> QED
  BY <1>1, <1>2, <1>3, <1>4

\* Process loses, repeats and reorders nothing: the bytes it hands out, followed
\* by those it keeps, are those it kept followed by the new ones, however the
\* stream was cut into chunks; and it never hands out an empty span.
THEOREM ProcessKeepsEveryByte ==
    ASSUME NEW S, NEW partial \in Seq(S), Len(partial) < BlockAlign, NEW data \in Seq(S)
    PROVE  LET result == Process(partial, data)
           IN /\ Flat(result.spans) \o result.carry = partial \o data
              /\ Len(result.spans) <= 2
              /\ \A i \in 1 .. Len(result.spans) : result.spans[i] # <<>>
<1> DEFINE needed == BlockAlign - Len(partial)
           start  == SubSeq(data, 1, needed)
           prefix == IF partial = <<>> THEN <<>> ELSE partial \o start
           rest   == IF partial = <<>> THEN data ELSE SubSeq(data, needed + 1, Len(data))
<1>1. Len(partial) \in Nat /\ Len(data) \in Nat /\ BlockAlign \in Nat \ {0}
  BY LenProperties, BlockAlignAssumption
<1>2. CASE partial # <<>> /\ Len(data) < needed
  <2>1. Process(partial, data) = [spans |-> <<>>, carry |-> partial \o data]
    BY <1>2 DEF Process
  <2>2. partial \o data \in Seq(S)
    BY ConcatProperties
  <2>3. <<>> \o (partial \o data) = partial \o data
    BY <2>2, ConcatEmptySeq
  <2> QED
    BY <2>1, <2>3 DEF Flat
<1>3. CASE ~(partial # <<>> /\ Len(data) < needed)
  <2>1. Process(partial, data) = [spans |-> NonEmpty(prefix) \o NonEmpty(Aligned(rest)),
                                carry |-> Remainder(rest)]
    BY <1>3 DEF Process
  <2>2. /\ prefix \in Seq(S) /\ rest \in Seq(S)
        /\ prefix \o rest = partial \o data
    <3>1. CASE partial = <<>>
      BY <3>1, ConcatEmptySeq
    <3>2. CASE partial # <<>>
      <4>1. needed \in 0 .. Len(data)
        BY <1>1, <1>3, <3>2
      <4>2. start \in Seq(S) /\ rest \in Seq(S) /\ prefix = partial \o start
        BY <3>2, <4>1, PrefixSuffix
      <4>3. start \o rest = data
        BY <3>2, <4>1, PrefixThenSuffix
      <4> HIDE DEF start, rest, prefix
      <4>4. prefix \in Seq(S)
        BY <4>2, ConcatProperties
      <4>5. (partial \o start) \o rest = partial \o (start \o rest)
        BY <4>2, ConcatAssociative, SMTT(30)
      <4> QED
        BY <4>2, <4>3, <4>4, <4>5
    <3> QED
      BY <3>1, <3>2
  <2> HIDE DEF prefix, rest
  <2> DEFINE middle == Aligned(rest)
             last == Remainder(rest)
             spans == NonEmpty(prefix) \o NonEmpty(middle)
  <2>3. middle \in Seq(S) /\ last \in Seq(S)
    BY <2>2, AlignedRemainder
  <2>4. middle \o last = rest
    BY <2>2, AlignedThenRemainder
  <2>5. Process(partial, data).spans = spans /\ Process(partial, data).carry = last
    BY <2>1
  <2> HIDE DEF middle, last
  <2>6. /\ Flat(spans) = prefix \o middle
        /\ Len(spans) <= 2
        /\ \A i \in 1 .. Len(spans) : spans[i] # <<>>
    BY <2>2, <2>3, FlatOfNonEmpty
  <2> HIDE DEF spans
  <2>7. (prefix \o middle) \o last = prefix \o (middle \o last)
    <3>1. prefix \in Seq(S)
      BY <2>2
    <3> QED
      BY <2>3, <3>1, ConcatAssociative, SMTT(60)
  <2>8. Flat(spans) \o last = partial \o data
    BY <2>2, <2>4, <2>6, <2>7, Zenon
  <2> QED
    BY <2>5, <2>6, <2>8, Zenon
<1> QED
  BY <1>2, <1>3
-----------------------------------------------------------------------------
(* Types. *)

\* What makes TypeOK inductive: the assembler never carries a whole frame, and
\* the audio thread delivers only while it has a span to deliver.
PartialFrame == Len(carry) < BlockAlign

PendingSpans == pc["audio"] \in {"deliver", "write", "writing"} => batch.spans # <<>>

TypeInv == TypeOK /\ PartialFrame /\ PendingSpans
-----------------------------------------------------------------------------
(* The operators on a request context. *)

\* The operators on a request context return one, of the same request.
LEMMA ContextOperators ==
    ASSUME NEW c \in Context
    PROVE  /\ Token(c) \in [speakId : Nat, generation : Nat]
           /\ Reset(c) \in Context
           /\ TransitionToCancelling(c) \in Context
           /\ TransitionToCancelling(c).speakId = c.speakId
           /\ TransitionRequestToFaulted(c) \in Context
           /\ TransitionRequestToFaulted(c).speakId = c.speakId
           /\ ResetToIdle(c) \in Context
           /\ ResetToIdle(c).speakId = c.speakId
           /\ \A b \in BOOLEAN : /\ [c EXCEPT !.faultPending = b] \in Context
                                 /\ [c EXCEPT !.faultPending = b].speakId = c.speakId
           /\ \A n \in Nat : /\ [c EXCEPT !.rawAudioBytesRead = @ + n] \in Context
                             /\ [c EXCEPT !.rawAudioBytesRead = @ + n].speakId = c.speakId
                             /\ [c EXCEPT !.deliveredAudioBytes = @ + n] \in Context
                             /\ [c EXCEPT !.deliveredAudioBytes = @ + n].speakId = c.speakId
<1> USE DEF Context
<1>1. Token(c) \in [speakId : Nat, generation : Nat]
  BY DEF Token
<1>2. FreshContext \in Context
  BY DEF FreshContext, UpstreamState, DownstreamState, HResult
<1>3. Reset(c) \in Context
  BY <1>2 DEF Reset
<1>4. /\ TransitionToCancelling(c) \in Context
      /\ TransitionToCancelling(c).speakId = c.speakId
  BY DEF TransitionToCancelling, DownstreamState
<1>5. /\ TransitionRequestToFaulted(c) \in Context
      /\ TransitionRequestToFaulted(c).speakId = c.speakId
  BY DEF TransitionRequestToFaulted, UpstreamState, DownstreamState, HResult
<1>6. /\ ResetToIdle(c) \in Context
      /\ ResetToIdle(c).speakId = c.speakId
  BY DEF ResetToIdle, UpstreamState, DownstreamState
<1>7. \A b \in BOOLEAN : /\ [c EXCEPT !.faultPending = b] \in Context
                         /\ [c EXCEPT !.faultPending = b].speakId = c.speakId
  OBVIOUS
<1>8. \A n \in Nat : /\ [c EXCEPT !.rawAudioBytesRead = @ + n] \in Context
                     /\ [c EXCEPT !.rawAudioBytesRead = @ + n].speakId = c.speakId
                     /\ [c EXCEPT !.deliveredAudioBytes = @ + n] \in Context
                     /\ [c EXCEPT !.deliveredAudioBytes = @ + n].speakId = c.speakId
  OBVIOUS
<1> QED
  BY <1>1, <1>3, <1>4, <1>5, <1>6, <1>7, <1>8

\* What CheckTerminalBoundaryLocked leaves behind.
LEMMA CheckTerminalBoundaryType ==
    ASSUME NEW c \in Context, NEW k \in Span, Len(k) < BlockAlign
    PROVE  LET r == CheckTerminalBoundary(c, k)
           IN /\ r.ctx \in Context
              /\ r.ctx.speakId = c.speakId
              /\ r.carry \in Span /\ Len(r.carry) < BlockAlign
              /\ r.fault \in BOOLEAN
<1>1. <<>> \in Span /\ Len(<<>>) < BlockAlign
  BY BlockAlignAssumption DEF Span
<1> QED
  BY <1>1, ContextOperators DEF CheckTerminalBoundary

\* The region that handles a control event.
LEMMA HandleParsedControlEventType ==
    ASSUME TypeInv, NEW event \in Event
    PROVE  LET r == HandleParsedControlEvent(event)
           IN /\ r.ctx \in Context
              /\ r.ctx.speakId = ctx.speakId
              /\ r.carry \in Span /\ Len(r.carry) < BlockAlign
              /\ r.fault \in BOOLEAN
<1>0. ctx \in Context /\ carry \in Span /\ Len(carry) < BlockAlign
  BY DEF TypeInv, TypeOK, PartialFrame
<1>1. \A n \in Nat, u \in UpstreamState, h \in HResult :
          /\ [ctx EXCEPT !.upstreamTerminalBytes = n, !.upstreamFinished = TRUE,
                         !.upstreamState = u] \in Context
          /\ [ctx EXCEPT !.upstreamState = u, !.upstreamFinished = TRUE,
                         !.completionHr = h, !.upstreamTerminalBytes = n] \in Context
  BY <1>0 DEF Context
<1>2. ctx.rawAudioBytesRead \in Nat
  BY <1>0 DEF Context
<1>3. event.bytes \in Nat
  BY DEF Event
<1>4. {"Completed", "Cancelled", "Failed"} \subseteq UpstreamState /\ "E_FAIL" \in HResult
  BY DEF UpstreamState, HResult
<1> DEFINE terminal == [ctx EXCEPT !.upstreamTerminalBytes = event.bytes,
                                   !.upstreamFinished = TRUE,
                                   !.upstreamState = IF event.type = "complete"
                                                     THEN "Completed" ELSE "Cancelled"]
           failed == [ctx EXCEPT !.upstreamState = "Failed", !.upstreamFinished = TRUE,
                                 !.completionHr = "E_FAIL",
                                 !.upstreamTerminalBytes = ctx.rawAudioBytesRead]
<1>5. terminal \in Context /\ terminal.speakId = ctx.speakId
  BY <1>0, <1>1, <1>3, <1>4 DEF Context
<1>6. failed \in Context /\ failed.speakId = ctx.speakId
  BY <1>0, <1>1, <1>2, <1>4 DEF Context
<1>7. CASE EventAction(event, ctx) = "Terminal"
  <2> DEFINE bounded == CheckTerminalBoundary(terminal, carry)
  <2>1. HandleParsedControlEvent(event) = HandleTerminalEvent(event)
    BY <1>7 DEF HandleParsedControlEvent
  <2>2. \/ HandleTerminalEvent(event) =
             [ctx |-> TransitionRequestToFaulted(ctx), carry |-> carry, fault |-> TRUE]
        \/ HandleTerminalEvent(event) = bounded
    BY DEF HandleTerminalEvent
  <2>3. /\ TransitionRequestToFaulted(ctx) \in Context
        /\ TransitionRequestToFaulted(ctx).speakId = ctx.speakId
    BY <1>0, ContextOperators
  <2>4. /\ bounded.ctx \in Context /\ bounded.ctx.speakId = ctx.speakId
        /\ bounded.carry \in Span /\ Len(bounded.carry) < BlockAlign
        /\ bounded.fault \in BOOLEAN
    <3> HIDE DEF terminal
    <3> QED
      BY <1>0, <1>5, CheckTerminalBoundaryType
  <2> HIDE DEF bounded
  <2>5. CASE HandleTerminalEvent(event) = bounded
    BY <2>1, <2>4, <2>5
  <2>6. CASE HandleTerminalEvent(event) =
             [ctx |-> TransitionRequestToFaulted(ctx), carry |-> carry, fault |-> TRUE]
    BY <1>0, <2>1, <2>3, <2>6
  <2> QED
    BY <2>2, <2>5, <2>6
<1>8. CASE EventAction(event, ctx) = "RequestErrorLog"
  <2>1. HandleParsedControlEvent(event) = CheckTerminalBoundary(failed, carry)
    BY <1>8 DEF HandleParsedControlEvent, HandleErrorLog
  <2> QED
    <3> HIDE DEF failed
    <3> QED
      BY <1>0, <1>6, <2>1, CheckTerminalBoundaryType
<1>9. CASE EventAction(event, ctx) \notin {"Terminal", "RequestErrorLog"}
  <2> DEFINE bad == EventAction(event, ctx) \in {"MalformedSpeechBoundary", "FatalLog"}
  <2>1. bad \in BOOLEAN
    OBVIOUS
  <2>2. HandleParsedControlEvent(event) = [ctx |-> ctx, carry |-> carry, fault |-> bad]
    BY <1>9 DEF HandleParsedControlEvent
  <2> HIDE DEF bad
  <2> QED
    BY <1>0, <2>1, <2>2
<1> QED
  BY <1>7, <1>8, <1>9
-----------------------------------------------------------------------------
(* Type correctness, one lemma per thread. *)

\* A history counter of one request is incremented.
LEMMA CounterType ==
    ASSUME NEW S, NEW f \in [S -> Nat], NEW x, NEW n \in Nat
    PROVE  [f EXCEPT ![x] = @ + n] \in [S -> Nat]
<1>1. CASE x \in S
  BY <1>1
<1>2. CASE x \notin S
  BY <1>2
<1> QED
  BY <1>1, <1>2

\* The first region of EnterFaultedState keeps the types.
LEMMA FaultsRequestType ==
    ASSUME TypeInv, NEW t \in Threads, FaultsRequest(t), UNCHANGED engineVars
    PROVE  TypeInv'
<1>1. ctx' \in Context /\ ctx'.speakId \in 0 .. MaxSpeaks
  <2>1. ctx \in Context /\ ctx.speakId \in 0 .. MaxSpeaks
    BY DEF TypeInv, TypeOK
  <2> QED
    BY <2>1, ContextOperators DEF FaultsRequest
<1>2. carry' \in Span /\ PartialFrame'
  BY BlockAlignAssumption DEF FaultsRequest, PartialFrame, Span
<1>3. fault' \in [Threads -> FaultStage] /\ faultPublicationStarted' \in BOOLEAN
  BY DEF TypeInv, TypeOK, FaultsRequest, FaultStage
<1> QED
  BY <1>1, <1>2, <1>3
     DEF TypeInv, TypeOK, PendingSpans, FaultsRequest, engineVars, timeVars, localVars,
         historyVars, providerVars

\* EnterFaultedState keeps the types, whichever thread called it.
LEMMA EnterFaultedStateType ==
    ASSUME TypeInv, NEW t \in Threads, EnterFaultedState(t), UNCHANGED engineVars
    PROVE  TypeInv'
<1> USE DEF TypeInv, TypeOK, PartialFrame, PendingSpans, engineVars, requestVars, timeVars,
            localVars, historyVars, providerVars
<1>1. CASE FaultsRequest(t)
  BY <1>1, FaultsRequestType
<1>2. CASE PublishesFault(t)
  <2>1. ctx' \in Context /\ ctx'.speakId \in 0 .. MaxSpeaks
    BY <1>2, ContextOperators DEF PublishesFault
  <2> QED
    BY <1>2, <2>1 DEF PublishesFault, FaultStage
<1>3. CASE CancelsIo(t)
  <2>1. pc' \in [Threads -> Place] /\ (pc'["audio"] = pc["audio"] \/ pc'["audio"] = "failed")
    BY <1>3 DEF CancelsIo, Threads, Readers, Place
  <2> QED
    BY <1>3, <2>1 DEF CancelsIo, FaultStage, faultVars
<1> QED
  BY <1>1, <1>2, <1>3 DEF EnterFaultedState

\* What both readers do, a broken or failed read and the exit, keeps the types.
LEMMA ReaderType ==
    ASSUME TypeInv, NEW u \in Readers, UNCHANGED engineVars,
           ReadBreaks(u) \/ ReadFailed(u) \/ LeavesLoop(u)
    PROVE  TypeInv'
<1> USE DEF TypeInv, TypeOK, PartialFrame, PendingSpans
<1>1. u \in Threads /\ {"failed", "exit"} \subseteq Place /\ "enter" \in FaultStage
  BY DEF Threads, Readers, Place, FaultStage
<1>2. /\ pc' \in [Threads -> Place]
      /\ pc'["audio"] \in {"failed", "exit"} \/ pc'["audio"] = pc["audio"]
  BY <1>1, ZenonT(30) DEF ReadBreaks, ReadFailed, LeavesLoop, Goto, Threads, Readers
<1>3. fault' \in [Threads -> FaultStage]
  BY <1>1 DEF ReadBreaks, ReadFailed, LeavesLoop, CallsEnterFaultedState
<1>4. UNCHANGED <<requestVars, faultVars, exit, timeVars, localVars, site, historyVars,
                  providerVars, engineVars>>
  BY DEF ReadBreaks, ReadFailed, LeavesLoop
<1> QED
  BY <1>2, <1>3, <1>4
     DEF engineVars, requestVars, faultVars, timeVars, localVars, historyVars, providerVars

\* The passing of time keeps the types.
LEMMA TimeType ==
    ASSUME TypeInv, UNCHANGED engineVars, InactivityElapses \/ DeadlinePasses
    PROVE  TypeInv'
BY DEF TypeInv, TypeOK, PartialFrame, PendingSpans, InactivityElapses, DeadlinePasses,
       engineVars, requestVars, faultVars, timeVars, localVars, historyVars, providerVars

\* Publish stores a typed result as a typed context.
LEMMA PublishType ==
    ASSUME NEW r, Publish(r),
           r.ctx \in Context, r.ctx.speakId \in 0 .. MaxSpeaks,
           r.carry \in Span, Len(r.carry) < BlockAlign
    PROVE  /\ ctx' \in Context /\ ctx'.speakId \in 0 .. MaxSpeaks
           /\ carry' \in Span /\ PartialFrame'
BY ContextOperators DEF Publish, PartialFrame

\* The control thread keeps the types.
LEMMA ControlThreadType ==
    ASSUME TypeInv, ControlThread, UNCHANGED engineVars
    PROVE  TypeInv'
<1> USE DEF engineVars, requestVars, faultVars, timeVars, localVars, historyVars, providerVars
<1>1. "control" \in Threads /\ "control" \in Readers /\ "control" # "audio"
  BY DEF Threads, Readers
<1>2. /\ {"failed", "read", "forward", "callback", "notify"} \subseteq Place
      /\ {"pending", "none"} \subseteq FaultStage
  BY DEF Place, FaultStage
<1>3. \A place \in Place : Goto("control", place) =>
          pc' \in [Threads -> Place] /\ pc'["audio"] = pc["audio"]
  BY <1>1 DEF TypeInv, TypeOK, Goto
<1>4. \A stage \in FaultStage :
          fault' = [fault EXCEPT !["control"] = stage] => fault' \in [Threads -> FaultStage]
  BY <1>1 DEF TypeInv, TypeOK
<1>5. NoDisposition \in [event : Event, fault : BOOLEAN]
  BY DEF NoDisposition, EventOf, Event, EventType
<1>6. NextEvent => /\ Head(events) \in Event
                   /\ events' \in Seq(Event)
                   /\ UNCHANGED <<connected, commands, audio, provider, promised>>
  BY HeadTailProperties DEF NextEvent, TypeInv, TypeOK
<1>7. Dispatched => /\ pc' \in [Threads -> Place] /\ pc'["audio"] = pc["audio"]
                    /\ fault' \in [Threads -> FaultStage]
                    /\ disposition' \in [event : Event, fault : BOOLEAN]
  BY <1>2, <1>3, <1>4, <1>5 DEF Dispatched
<1>8. CASE ReadBreaks("control") \/ ReadFailed("control") \/ LeavesLoop("control")
  BY <1>1, <1>8, ReaderType
<1>9. CASE ReadsMalformedLine
  BY <1>2, <1>3, <1>6, <1>9
     DEF ReadsMalformedLine, TypeInv, TypeOK, PartialFrame, PendingSpans
<1>10. CASE ReadsOrphanEvent
  <2>1. ctx' \in Context /\ ctx'.speakId \in 0 .. MaxSpeaks
    BY <1>10, ContextOperators DEF ReadsOrphanEvent, TypeInv, TypeOK
  <2> QED
    BY <1>2, <1>4, <1>6, <1>10, <2>1
       DEF ReadsOrphanEvent, CallsEnterFaultedState, TypeInv, TypeOK, PartialFrame, PendingSpans
<1>11. CASE HandlesEvent
  <2> DEFINE event == Head(events)
             r == HandleParsedControlEvent(event)
  <2>1. event \in Event
    BY <1>6, <1>11 DEF HandlesEvent
  <2>2. /\ r.ctx \in Context /\ r.ctx.speakId \in 0 .. MaxSpeaks
        /\ r.carry \in Span /\ Len(r.carry) < BlockAlign
        /\ r.fault \in BOOLEAN
    <3>1. ctx.speakId \in 0 .. MaxSpeaks
      BY DEF TypeInv, TypeOK
    <3> QED
      BY <2>1, <3>1, HandleParsedControlEventType
  <2> HIDE DEF r
  <2>3. /\ ctx' \in Context /\ ctx'.speakId \in 0 .. MaxSpeaks
        /\ carry' \in Span /\ PartialFrame'
    BY <1>11, <2>2, PublishType DEF HandlesEvent, r
  <2>4. idleElapsed' \in BOOLEAN
    BY <1>11 DEF HandlesEvent, TypeInv, TypeOK
  <2>5. CASE ShouldForwardToSapi(event, ctx)
    <3>1. disposition' = [event |-> event, fault |-> r.fault]
          /\ Goto("control", "forward") /\ UNCHANGED fault
      BY <1>11, <2>5 DEF HandlesEvent, r
    <3> HIDE DEF event
    <3>2. disposition' \in [event : Event, fault : BOOLEAN]
      BY <2>1, <2>2, <3>1
    <3> QED
      BY <1>2, <1>3, <1>6, <1>11, <2>3, <2>4, <3>1, <3>2
         DEF HandlesEvent, TypeInv, TypeOK, PendingSpans
  <2>6. CASE ~ShouldForwardToSapi(event, ctx)
    <3>1. /\ fault' = [fault EXCEPT !["control"] = IF r.fault THEN "pending" ELSE "none"]
          /\ UNCHANGED <<pc, disposition>>
      BY <1>11, <2>6 DEF HandlesEvent, r
    <3> QED
      BY <1>2, <1>4, <1>6, <1>11, <2>3, <2>4, <3>1
         DEF HandlesEvent, TypeInv, TypeOK, PendingSpans
  <2> QED
    BY <2>5, <2>6
<1>12. CASE AdmitsEvent
  BY <1>2, <1>3, <1>7, <1>12 DEF AdmitsEvent, TypeInv, TypeOK, PartialFrame, PendingSpans
<1>13. CASE CapturesEventSite
  BY <1>2, <1>3, <1>7, <1>13 DEF CapturesEventSite, TypeInv, TypeOK, PartialFrame, PendingSpans
<1>14. CASE NotifiesSite
  <2>1. told' \in [Ids -> Nat]
    BY <1>14, CounterType DEF NotifiesSite, TypeInv, TypeOK
  <2> QED
    BY <1>7, <1>14, <2>1 DEF NotifiesSite, TypeInv, TypeOK, PartialFrame, PendingSpans
<1>15. CASE EnterFaultedState("control")
  BY <1>1, <1>15, EnterFaultedStateType
<1> QED
  BY <1>8, <1>9, <1>10, <1>11, <1>12, <1>13, <1>14, <1>15 DEF ControlThread

\* A read takes a part of what the audio pipe holds.
LEMMA ReadsType ==
    ASSUME TypeInv, NEW data, Reads(data)
    PROVE  /\ data \in Span
           /\ audio' \in Span
           /\ Counted(data) \in Context
           /\ Counted(data).speakId \in 0 .. MaxSpeaks
           /\ UNCHANGED <<connected, commands, events, provider, promised>>
           /\ pc["audio"] = "read"
<1> DEFINE S == 0 .. MaxSpeaks
<1>1. audio \in Seq(S) /\ ctx \in Context /\ ctx.speakId \in 0 .. MaxSpeaks
  BY DEF TypeInv, TypeOK, Span
<1> HIDE DEF S
<1>2. PICK n \in 1 .. ReadMax : n <= Len(audio) /\ data = SubSeq(audio, 1, n)
  BY DEF Reads
<1>3. Len(audio) \in Nat /\ n \in 0 .. Len(audio)
  BY <1>1, <1>2, LenProperties, ReadMaxAssumption
<1>4. /\ data \in Seq(S) /\ Len(data) = n
      /\ SubSeq(audio, n + 1, Len(audio)) \in Seq(S)
  BY <1>1, <1>2, <1>3, PrefixSuffix
<1>5. /\ Counted(data) \in Context
      /\ Counted(data).speakId = ctx.speakId
  <2>1. Len(data) \in Nat
    BY <1>3, <1>4
  <2> QED
    BY <1>1, <2>1, ContextOperators DEF Counted
<1> QED
  BY <1>1, <1>4, <1>5 DEF Reads, At, S, Span

\* Only the bytes inside the declared total are framed.
LEMMA FramedType ==
    ASSUME TypeInv, NEW data \in Span
    PROVE  LET framed == Process(carry, SubSeq(data, 1, BytesToFrame(ctx, Len(data))))
           IN /\ framed.spans \in Seq(Span)
              /\ framed.carry \in Span /\ Len(framed.carry) < BlockAlign
<1>1. Len(data) \in Nat
  BY LenProperties DEF Span
<1>2. BytesToFrame(ctx, Len(data)) \in 0 .. Len(data)
  BY <1>1 DEF BytesToFrame, TypeInv, TypeOK, Context
<1>3. SubSeq(data, 1, BytesToFrame(ctx, Len(data))) \in Span
  BY <1>2, PrefixSuffix DEF Span
<1>4. carry \in Span /\ Len(carry) < BlockAlign
  BY DEF TypeInv, TypeOK, PartialFrame
<1> QED
  BY <1>3, <1>4, ProcessYieldsWholeFrames DEF Span

\* The bytes of a span that belong to one request are counted by a number.
LEMMA BytesOfType ==
    ASSUME NEW span \in Span, NEW r
    PROVE  BytesOf(span, r) \in Nat /\ Len(span) \in Nat
<1>1. Len(span) \in Nat
  BY LenProperties DEF Span
<1>2. IsFiniteSet(1 .. Len(span))
  BY <1>1, FS_Interval
<1>3. IsFiniteSet({i \in 1 .. Len(span) : span[i] = r})
  BY <1>2, FS_Subset
<1> QED
  BY <1>1, <1>3, FS_CardinalityType DEF BytesOf

\* The places the audio thread goes to are places.
LEMMA AudioPlaces ==
    ASSUME TypeInv
    PROVE  /\ \A place \in Place : Goto("audio", place) =>
                 pc' \in [Threads -> Place] /\ pc'["audio"] = place
           /\ \A stage \in FaultStage :
                 fault' = [fault EXCEPT !["audio"] = stage] => fault' \in [Threads -> FaultStage]
           /\ {"read", "deliver", "write", "writing", "update", "sendCancel", "exit"}
                 \subseteq Place
           /\ {"pending", "enter", "none"} \subseteq FaultStage
           /\ NoBatch \in Batch
<1>1. Token(FreshContext) \in [speakId : Nat, generation : Nat]
  BY DEF Token, FreshContext
<1>2. 0 \in 0 .. MaxSpeaks
  BY ProviderAssumption
<1>3. NoBatch \in Batch
  BY <1>1, <1>2 DEF NoBatch, Batch
<1>4. "audio" \in Threads
  BY DEF Threads, Readers
<1>5. \A place \in Place : Goto("audio", place) =>
          pc' \in [Threads -> Place] /\ pc'["audio"] = place
  BY <1>4 DEF TypeInv, TypeOK, Goto
<1>6. \A stage \in FaultStage :
          fault' = [fault EXCEPT !["audio"] = stage] => fault' \in [Threads -> FaultStage]
  BY <1>4 DEF TypeInv, TypeOK
<1>7. /\ {"read", "deliver", "write", "writing", "update", "sendCancel", "exit"}
           \subseteq Place
      /\ {"pending", "enter", "none"} \subseteq FaultStage
  BY DEF Place, FaultStage
<1> QED
  BY <1>3, <1>5, <1>6, <1>7

\* The actions that consume audio from the pipe.
LEMMA AudioReadsType ==
    ASSUME TypeInv, UNCHANGED engineVars,
           \/ AssemblesSpeakingAudio \/ AssemblyThrows \/ DrainsCancellationAudio
           \/ FaultsOnIdleAudio \/ DrainsFaultedAudio
    PROVE  TypeInv'
<1> USE AudioPlaces
    DEF engineVars, requestVars, faultVars, timeVars, localVars, historyVars, providerVars
<1>0. ctx.speakId \in 0 .. MaxSpeaks /\ carry \in Span /\ Len(carry) < BlockAlign
  BY DEF TypeInv, TypeOK, PartialFrame
<1>1. CASE AssemblesSpeakingAudio
  <2>1. PICK data \in Chunks : AssemblesSpeakingAudio!(data)
    BY <1>1 DEF AssemblesSpeakingAudio
  <2> DEFINE framed == Process(carry, SubSeq(data, 1, BytesToFrame(ctx, Len(data))))
             r == CheckTerminalBoundary(Counted(data), framed.carry)
  <2>2. /\ data \in Span /\ audio' \in Span
        /\ Counted(data) \in Context /\ Counted(data).speakId \in 0 .. MaxSpeaks
        /\ UNCHANGED <<connected, commands, events, provider, promised>>
        /\ pc["audio"] = "read"
    BY <2>1, ReadsType
  <2>3. /\ framed.spans \in Seq(Span)
        /\ framed.carry \in Span /\ Len(framed.carry) < BlockAlign
    BY <2>2, FramedType
  <2>4. CASE framed.spans = <<>>
    <3>1. /\ r.ctx \in Context /\ r.ctx.speakId \in 0 .. MaxSpeaks
          /\ r.carry \in Span /\ Len(r.carry) < BlockAlign
      <4> HIDE DEF framed
      <4> QED
        BY <2>2, <2>3, CheckTerminalBoundaryType
    <3>2. /\ Publish(r) /\ UNCHANGED <<pc, batch>>
          /\ fault' = [fault EXCEPT !["audio"] = IF r.fault THEN "pending" ELSE "none"]
      BY <2>1, <2>4
    <3> HIDE DEF r, framed
    <3>3. /\ ctx' \in Context /\ ctx'.speakId \in 0 .. MaxSpeaks
          /\ carry' \in Span /\ PartialFrame'
      BY <3>1, <3>2, PublishType
    <3> QED
      BY <2>1, <2>2, <3>2, <3>3 DEF TypeInv, TypeOK, PendingSpans
  <2>5. CASE framed.spans # <<>>
    <3>1. /\ ctx' = Counted(data) /\ carry' = framed.carry
          /\ batch' = [NoBatch EXCEPT !.token = Token(ctx), !.spans = framed.spans]
          /\ Goto("audio", "deliver") /\ UNCHANGED fault
      BY <2>1, <2>5
    <3> HIDE DEF framed
    <3>2. Token(ctx) \in [speakId : Nat, generation : Nat]
      BY ContextOperators DEF TypeInv, TypeOK
    <3>3. batch' \in Batch /\ batch'.spans # <<>>
      BY <2>3, <2>5, <3>1, <3>2 DEF Batch
    <3> QED
      BY <2>1, <2>2, <2>3, <3>1, <3>3 DEF TypeInv, TypeOK, PartialFrame, PendingSpans
  <2> QED
    BY <2>4, <2>5
<1>2. CASE AssemblyThrows
  <2>1. PICK data \in Chunks : AssemblyThrows!(data)
    BY <1>2 DEF AssemblyThrows
  <2> QED
    BY <2>1, ReadsType
       DEF CallsEnterFaultedState, TypeInv, TypeOK, PartialFrame, PendingSpans
<1>3. CASE DrainsCancellationAudio
  <2>1. PICK data \in Chunks : DrainsCancellationAudio!(data)
    BY <1>3 DEF DrainsCancellationAudio
  <2> DEFINE r == CheckTerminalBoundary(Counted(data), carry)
  <2>2. /\ r.ctx \in Context /\ r.ctx.speakId \in 0 .. MaxSpeaks
        /\ r.carry \in Span /\ Len(r.carry) < BlockAlign
    BY <1>0, <2>1, ReadsType, CheckTerminalBoundaryType
  <2>3. Publish(r)
    BY <2>1
  <2> HIDE DEF r
  <2>4. /\ ctx' \in Context /\ ctx'.speakId \in 0 .. MaxSpeaks
        /\ carry' \in Span /\ PartialFrame'
    BY <2>2, <2>3, PublishType
  <2> QED
    BY <2>1, <2>4, ReadsType DEF TypeInv, TypeOK, PendingSpans
<1>4. CASE FaultsOnIdleAudio
  <2>1. PICK data \in Chunks : FaultsOnIdleAudio!(data)
    BY <1>4 DEF FaultsOnIdleAudio
  <2>2. /\ ctx' \in Context /\ ctx'.speakId \in 0 .. MaxSpeaks
        /\ carry' = carry
    BY <2>1, ContextOperators, ZenonT(30) DEF Publish, TypeInv, TypeOK
  <2> QED
    BY <2>1, <2>2, ReadsType
       DEF CallsEnterFaultedState, TypeInv, TypeOK, PartialFrame, PendingSpans
<1>5. CASE DrainsFaultedAudio
  <2>1. PICK data \in Chunks : DrainsFaultedAudio!(data)
    BY <1>5 DEF DrainsFaultedAudio
  <2> QED
    BY <2>1, ReadsType DEF TypeInv, TypeOK, PartialFrame, PendingSpans
<1> QED
  BY <1>1, <1>2, <1>3, <1>4, <1>5

\* Cancel and send-failure steps, whichever thread takes them.
LEMMA SendsCancelType ==
    ASSUME TypeInv, NEW t \in Threads, NEW next \in {"read", "drain", "cleanup", "done"},
           SendsCancel(t, next) \/ CancelSendFails(t, next),
           UNCHANGED engineVars, outcome' \in [Ids -> HResult \cup {NoOutcome}]
    PROVE  TypeInv'
<1> USE DEF engineVars, requestVars, faultVars, timeVars, localVars, historyVars, providerVars
<1>1. /\ pc' \in [Threads -> Place]
      /\ pc'["audio"] = pc["audio"] \/ pc'["audio"] = next
  BY ZenonT(30) DEF SendsCancel, CancelSendFails, Goto, TypeInv, TypeOK, Place, Threads, Readers
<1>2. PendingSpans'
  BY <1>1 DEF SendsCancel, CancelSendFails, TypeInv, PendingSpans
<1>3. CASE SendsCancel(t, next)
  <2>1. asked' \in [Ids -> Nat]
    BY <1>3, CounterType DEF SendsCancel, TypeInv, TypeOK
  <2>2. [kind |-> "cancel", speakId |-> cancelId[t]] \in Command
    BY DEF Command, TypeInv, TypeOK
  <2>3. commands' \in Seq(Command)
    BY <1>3, <2>2, AppendProperties DEF SendsCancel, TypeInv, TypeOK
  <2> QED
    BY <1>1, <1>2, <1>3, <2>1, <2>3 DEF SendsCancel, TypeInv, TypeOK, PartialFrame
<1>4. CASE CancelSendFails(t, next)
  <2>1. fault' \in [Threads -> FaultStage]
    BY <1>4 DEF CancelSendFails, CallsEnterFaultedState, FaultStage, TypeInv, TypeOK
  <2> QED
    BY <1>1, <1>2, <1>4, <2>1 DEF CancelSendFails, TypeInv, TypeOK, PartialFrame
<1> QED
  BY <1>3, <1>4

\* The actions that deliver a batch to the site.
LEMMA AudioDeliveryType ==
    ASSUME TypeInv, UNCHANGED engineVars,
           \/ AdmitsSpan \/ CapturesSite \/ SiteAcceptsSpan \/ SiteRejectsSpan
           \/ UpdatesAfterDelivery
    PROVE  TypeInv'
<1> USE AudioPlaces
    DEF engineVars, requestVars, faultVars, timeVars, localVars, historyVars, providerVars
<1>0. batch \in Batch
  BY DEF TypeInv, TypeOK
<1>1. CASE AdmitsSpan
  BY <1>1 DEF AdmitsSpan, At, TypeInv, TypeOK, PartialFrame, PendingSpans
<1>2. CASE CapturesSite
  <2>1. batch' \in Batch /\ batch'.spans = batch.spans
    <3>1. site \in 0 .. MaxSpeaks
      BY DEF TypeInv, TypeOK
    <3>2. /\ [batch EXCEPT !.accepted = FALSE] \in Batch
          /\ [batch EXCEPT !.accepted = FALSE].spans = batch.spans
          /\ [batch EXCEPT !.target = site] \in Batch
          /\ [batch EXCEPT !.target = site].spans = batch.spans
      BY <1>0, <3>1 DEF Batch
    <3> QED
      BY <1>2, <3>2 DEF CapturesSite
  <2>2. pc' \in [Threads -> Place] /\ pc["audio"] = "write"
    BY <1>2 DEF CapturesSite, At
  <2> QED
    BY <1>2, <2>1, <2>2 DEF CapturesSite, TypeInv, TypeOK, PartialFrame, PendingSpans
<1>3. CASE SiteAcceptsSpan
  <2> DEFINE span == Head(batch.spans)
  <2>1. batch.spans \in Seq(Span) /\ batch.spans # <<>>
    BY <1>0, <1>3 DEF SiteAcceptsSpan, At, Batch, TypeInv, PendingSpans
  <2>2. span \in Span /\ Tail(batch.spans) \in Seq(Span)
    BY <2>1, HeadTailProperties
  <2>3. Len(span) \in Nat /\ BytesOf(span, batch.target) \in Nat
    BY <2>2, BytesOfType
  <2>4. batch' \in Batch /\ batch'.spans = Tail(batch.spans)
    <3>1. batch' = [batch EXCEPT !.spans = Tail(batch.spans),
                                 !.credited = batch.credited + Len(span)]
      BY <1>3 DEF SiteAcceptsSpan
    <3>2. batch.credited + Len(span) \in Nat
      BY <1>0, <2>3, SMTT(30) DEF Batch
    <3> HIDE DEF span
    <3> QED
      BY <1>0, <2>2, <3>1, <3>2 DEF Batch
  <2>5. heard' \in [Ids -> Nat]
    BY <1>3, <2>3, CounterType DEF SiteAcceptsSpan, TypeInv, TypeOK
  <2>6. lateSpans' \in [Ids -> Nat]
    BY <1>3, CounterType DEF SiteAcceptsSpan, TypeInv, TypeOK
  <2>7. pc' \in [Threads -> Place] /\ PendingSpans'
    BY <1>3, <2>4 DEF SiteAcceptsSpan, PendingSpans
  <2> QED
    BY <1>3, <2>4, <2>5, <2>6, <2>7 DEF SiteAcceptsSpan, TypeInv, TypeOK, PartialFrame
<1>4. CASE SiteRejectsSpan
  <2>1. batch' \in Batch
    BY <1>0, <1>4 DEF SiteRejectsSpan, Batch
  <2> QED
    BY <1>4, <2>1 DEF SiteRejectsSpan, TypeInv, TypeOK, PartialFrame, PendingSpans
<1>5. CASE UpdatesAfterDelivery
  <2> DEFINE action == BatchAction(ctx, batch.token, ~batch.accepted)
             credited == [ctx EXCEPT !.deliveredAudioBytes = @ + batch.credited]
             r == CheckTerminalBoundary(
                      IF action = "CreditAndCheckBoundary" THEN credited ELSE ctx, carry)
  <2>0. /\ ctx \in Context /\ ctx.speakId \in 0 .. MaxSpeaks
        /\ carry \in Span /\ Len(carry) < BlockAlign
        /\ credited \in Context /\ credited.speakId = ctx.speakId
    BY <1>0, ContextOperators DEF TypeInv, TypeOK, PartialFrame, Batch
  <2>1. batch' \in Batch
    BY <1>5 DEF UpdatesAfterDelivery
  <2>2. CASE Goto("audio", "read")
               /\ UNCHANGED <<requestVars, deadlinePassed, fault, cancelId, aborted>>
    BY <1>5, <2>1, <2>2 DEF UpdatesAfterDelivery, TypeInv, TypeOK, PartialFrame, PendingSpans
  <2>3. CASE /\ Publish(r)
             /\ Goto("audio", "read")
             /\ fault' = [fault EXCEPT !["audio"] = IF r.fault THEN "pending" ELSE "none"]
             /\ UNCHANGED <<deadlinePassed, cancelId, aborted>>
    <3> DEFINE c == IF action = "CreditAndCheckBoundary" THEN credited ELSE ctx
    <3>1. c \in Context /\ c.speakId \in 0 .. MaxSpeaks
      BY <2>0
    <3>2. /\ r.ctx \in Context /\ r.ctx.speakId \in 0 .. MaxSpeaks
          /\ r.carry \in Span /\ Len(r.carry) < BlockAlign
      <4> HIDE DEF c
      <4>1. r = CheckTerminalBoundary(c, carry)
        BY DEF c
      <4> HIDE DEF r
      <4> QED
        BY <2>0, <3>1, <4>1, CheckTerminalBoundaryType
    <3> HIDE DEF r
    <3>3. /\ ctx' \in Context /\ ctx'.speakId \in 0 .. MaxSpeaks
          /\ carry' \in Span /\ PartialFrame'
      BY <2>3, <3>2, PublishType
    <3> QED
      BY <1>5, <2>1, <2>3, <3>3 DEF UpdatesAfterDelivery, TypeInv, TypeOK, PendingSpans
  <2>4. CASE /\ ctx' = TransitionToCancelling(credited)
             /\ carry' = <<>>
             /\ deadlinePassed' = FALSE
             /\ cancelId' = [cancelId EXCEPT !["audio"] = ctx.speakId]
             /\ Goto("audio", "sendCancel")
             /\ UNCHANGED fault
    <3>1. ctx' \in Context /\ ctx'.speakId \in 0 .. MaxSpeaks
      <4> HIDE DEF credited
      <4> QED
        BY <2>0, <2>4, ContextOperators
    <3>2. carry' \in Span /\ PartialFrame'
      BY <2>4, BlockAlignAssumption DEF PartialFrame, Span
    <3>3. cancelId' \in [Threads -> 0 .. MaxSpeaks]
      BY <2>0, <2>4 DEF TypeInv, TypeOK
    <3> QED
      BY <1>5, <2>1, <2>4, <3>1, <3>2, <3>3 DEF UpdatesAfterDelivery, TypeInv, TypeOK, PendingSpans
  <2> QED
    BY <1>5, <2>2, <2>3, <2>4 DEF UpdatesAfterDelivery
<1> QED
  BY <1>1, <1>2, <1>3, <1>4, <1>5

\* The audio thread keeps the types.
LEMMA AudioThreadType ==
    ASSUME TypeInv, AudioThread, UNCHANGED engineVars
    PROVE  TypeInv'
<1>1. "audio" \in Threads /\ "audio" \in Readers
  BY DEF Threads, Readers
<1>2. CASE AudioSendsCancel
  <2>1. outcome' = outcome
    BY <1>2 DEF AudioSendsCancel, SendsCancel
  <2>2. outcome' \in [Ids -> HResult \cup {NoOutcome}]
    BY <2>1 DEF TypeInv, TypeOK
  <2> QED
    BY <1>1, <1>2, <2>2, SendsCancelType DEF AudioSendsCancel
<1> QED
  BY <1>1, <1>2, ReaderType, AudioReadsType, AudioDeliveryType, EnterFaultedStateType
     DEF AudioThread

\* The provider and the pipes keep the types.
LEMMA ProviderType ==
    ASSUME TypeInv, ProviderNext, UNCHANGED <<workerVars, engineVars>>
    PROVE  TypeInv'
<1> DEFINE ProviderTyped == /\ connected \in BOOLEAN
                            /\ commands \in Seq(Command)
                            /\ events \in Seq(Event)
                            /\ audio \in Span
                            /\ provider \in Provider
                            /\ promised \in [Ids -> Promise]
<1>1. SUFFICES ProviderTyped'
  BY DEF TypeInv, TypeOK, PartialFrame, PendingSpans, workerVars, engineVars
<1>2. ProviderTyped
  BY DEF TypeInv, TypeOK
<1>3. \A kind \in {"sapi_speak", "cancel"} : NextCommandIs(kind) =>
          /\ Head(commands) \in Command
          /\ Head(commands).speakId \in 0 .. MaxSpeaks
          /\ Tail(commands) \in Seq(Command)
  <2>1. \A kind \in {"sapi_speak", "cancel"} : NextCommandIs(kind) => commands # <<>>
    BY DEF NextCommandIs
  <2>2. commands # <<>> => Head(commands) \in Command /\ Tail(commands) \in Seq(Command)
    BY <1>2, HeadTailProperties
  <2>3. \A c \in Command : c.speakId \in 0 .. MaxSpeaks
    BY DEF Command
  <2> QED
    BY <2>1, <2>2, <2>3
<1>4. \A e \in Event : Emit(e) => events' \in Seq(Event)
  BY <1>2, AppendProperties DEF Emit
<1>5. \A type \in EventType, id \in Nat, n \in Nat :
          /\ EventOf(type, id, n) \in Event
          /\ Emit(EventOf(type, id, n)) => events' \in Seq(Event)
  <2>1. \A type \in EventType, id \in Nat, n \in Nat : EventOf(type, id, n) \in Event
    BY DEF EventOf, Event
  <2> QED
    BY <1>4, <2>1
<1>6. /\ {"complete", "cancelled", "boundary", "logError"} \subseteq EventType
      /\ provider.speakId \in Nat /\ provider.total \in Nat /\ provider.written \in Nat
      /\ MaxSpeaks \in Nat /\ BlockAlign \in Nat \ {0}
  BY <1>2, ProviderAssumption, BlockAlignAssumption DEF Provider, EventType
<1>7. \A p \in Provider : Settled(p) \in Provider
  BY DEF Settled, Provider
<1>8. audio \o [i \in 1 .. BlockAlign |-> provider.speakId] \in Span
  <2>1. provider.speakId \in 0 .. MaxSpeaks
    BY <1>2 DEF Provider
  <2>2. [i \in 1 .. BlockAlign |-> provider.speakId] \in Seq(0 .. MaxSpeaks)
    BY <1>6, <2>1
  <2> QED
    BY <1>2, <2>2, ConcatProperties DEF Span
<1>9. CASE TakesSpeak
  <2> DEFINE id == Head(commands).speakId
  <2>1. PICK total \in Totals :
           /\ provider' = [IdleProvider EXCEPT !.speakId = id, !.busy = TRUE,
                               !.total = total, !.deviations = provider.deviations]
           /\ promised' = [promised EXCEPT ![id].audio = total]
    BY <1>9 DEF TakesSpeak
  <2>2. total \in Nat /\ id \in 0 .. MaxSpeaks
    BY <1>3, <1>9, ProviderAssumption DEF TakesSpeak
  <2>3. provider' \in Provider
    BY <1>2, <2>1, <2>2 DEF IdleProvider, Provider
  <2>4. promised' \in [Ids -> Promise]
    BY <1>2, <2>1, <2>2 DEF Promise
  <2> QED
    BY <1>2, <1>3, <1>9, <2>3, <2>4 DEF TakesSpeak
<1>10. CASE RefusesOverlap
  BY <1>2, <1>3, <1>4, <1>5, <1>6, <1>10 DEF RefusesOverlap
<1>11. CASE WritesFrame
  <2>1. [provider EXCEPT !.written = @ + BlockAlign] \in Provider
    <3>1. provider \in Provider /\ provider.written + BlockAlign \in Nat
      BY <1>2, <1>6
    <3> QED
      BY <3>1 DEF Provider
  <2> QED
    BY <1>2, <1>7, <1>8, <1>11, <2>1 DEF WritesFrame
<1>12. CASE EmitsBoundary
  <2>1. events' \in Seq(Event)
    BY <1>5, <1>6, <1>12 DEF EmitsBoundary
  <2>2. promised' \in [Ids -> Promise]
    <3>1. promised \in [Ids -> Promise]
      BY <1>2
    <3>2. promised' = [promised EXCEPT ![provider.speakId].events = @ + 1]
      BY <1>12 DEF EmitsBoundary
    <3>3. \A q \in Promise : q.events + 1 \in Nat
      BY DEF Promise
    <3>4. CASE provider.speakId \in Ids
      <4>1. promised[provider.speakId].events + 1 \in Nat
        BY <3>1, <3>3, <3>4
      <4> QED
        BY <3>1, <3>2, <3>4, <4>1 DEF Promise
    <3>5. CASE provider.speakId \notin Ids
      BY <3>1, <3>2, <3>5
    <3> QED
      BY <3>4, <3>5
  <2> QED
    BY <1>2, <1>12, <2>1, <2>2 DEF EmitsBoundary
<1>13. CASE DeclaresComplete
  <2>1. events' \in Seq(Event)
    BY <1>5, <1>6, <1>13 DEF DeclaresComplete
  <2>2. provider' \in Provider
    <3>1. [provider EXCEPT !.declared = TRUE] \in Provider
      BY <1>2 DEF Provider
    <3> QED
      BY <1>7, <1>13, <3>1 DEF DeclaresComplete
  <2> QED
    BY <1>2, <1>13, <2>1, <2>2 DEF DeclaresComplete
<1>14. CASE AcknowledgesCancel
  <2>1. events' \in Seq(Event)
    BY <1>5, <1>6, <1>14 DEF AcknowledgesCancel
  <2>2. provider' \in Provider
    BY <1>2, <1>14 DEF AcknowledgesCancel, Provider
  <2> QED
    BY <1>2, <1>3, <1>14, <2>1, <2>2 DEF AcknowledgesCancel
<1>15. CASE IgnoresCancel
  BY <1>2, <1>3, <1>15 DEF IgnoresCancel
<1>16. CASE FailsRequest
  BY <1>2, <1>4, <1>5, <1>6, <1>16 DEF FailsRequest, Provider
<1>17. CASE Deviates
  <2>1. \A kind \in Env : DeviantEvent(kind) \in Event
    <3>1. /\ EventType = {"boundary", "complete", "cancelled", "logInfo", "logError",
                           "logFatal", "other", "malformed"}
          /\ provider.total + 1 \in Nat /\ MaxSpeaks + 1 \in Nat
      BY <1>6 DEF EventType
    <3>2. \A e \in Event : /\ [e EXCEPT !.valid = FALSE] \in Event
                           /\ [e EXCEPT !.type = "malformed"] \in Event
      BY <3>1 DEF Event
    <3> QED
      BY <1>5, <1>6, <3>1, <3>2 DEF DeviantEvent
  <2>2. provider' \in Provider
    BY <1>2, <1>17, SMTT(30) DEF Deviates, Provider
  <2> QED
    BY <1>2, <1>4, <1>6, <1>8, <1>17, <2>1, <2>2 DEF Deviates, Provider
<1>18. CASE Crashes
  <2>1. <<>> \in Seq(Command) /\ <<>> \in Seq(Event) /\ <<>> \in Span
    BY DEF Span
  <2> QED
    BY <1>2, <1>18, <2>1 DEF Crashes, Provider
<1> QED
  BY <1>9, <1>10, <1>11, <1>12, <1>13, <1>14, <1>15, <1>16, <1>17, <1>18 DEF ProviderNext

\* The places the synchronous callers go to are places.
LEMMA CallerPlaces ==
    ASSUME TypeInv, NEW t \in Callers
    PROVE  /\ t \in Threads
           /\ \A place \in Place : Goto(t, place) =>
                 pc' \in [Threads -> Place] /\ pc'["audio"] = pc["audio"]
           /\ \A stage \in FaultStage :
                 CallsEnterFaultedState(t, stage) => fault' \in [Threads -> FaultStage]
<1>1. t \in Threads /\ t # "audio"
  BY DEF Threads, Readers, Callers
<1>2. pc \in [Threads -> Place] /\ fault \in [Threads -> FaultStage]
  BY DEF TypeInv, TypeOK
<1>3. \A place \in Place : Goto(t, place) =>
          pc' \in [Threads -> Place] /\ pc'["audio"] = pc["audio"]
  BY <1>1, <1>2 DEF Goto
<1>4. \A stage \in FaultStage :
          CallsEnterFaultedState(t, stage) => fault' \in [Threads -> FaultStage]
  BY <1>1, <1>2 DEF CallsEnterFaultedState
<1> QED
  BY <1>1, <1>3, <1>4

\* A result of Speak is typed.
LEMMA ReturnsType ==
    ASSUME TypeInv, NEW result \in HResult, Returns(result)
    PROVE  /\ outcome' \in [Ids -> HResult \cup {NoOutcome}]
           /\ pc' \in [Threads -> Place] /\ pc'["audio"] = pc["audio"]
<1>1. "speak" \in Callers /\ "cleanup" \in Place
  BY DEF Callers, Place
<1> QED
  BY <1>1, CallerPlaces DEF Returns, TypeInv, TypeOK

\* BeginCancellationLocked keeps the types.
LEMMA BeginsCancellationType ==
    ASSUME TypeInv, NEW t \in Callers, BeginsCancellation(t)
    PROVE  /\ ctx' \in Context /\ ctx'.speakId \in 0 .. MaxSpeaks
           /\ carry' \in Span /\ PartialFrame'
           /\ deadlinePassed' \in BOOLEAN
           /\ cancelId' \in [Threads -> 0 .. MaxSpeaks]
<1>1. /\ ctx \in Context /\ ctx.speakId \in 0 .. MaxSpeaks
      /\ cancelId \in [Threads -> 0 .. MaxSpeaks]
  BY DEF TypeInv, TypeOK
<1>2. ctx' \in Context /\ ctx'.speakId \in 0 .. MaxSpeaks
  BY <1>1, ContextOperators DEF BeginsCancellation
<1>3. carry' \in Span /\ PartialFrame'
  BY BlockAlignAssumption DEF BeginsCancellation, PartialFrame, Span
<1>4. cancelId' \in [Threads -> 0 .. MaxSpeaks]
  BY <1>1 DEF BeginsCancellation
<1> QED
  BY <1>2, <1>3, <1>4 DEF BeginsCancellation

\* The session's share of Speak: creation, retirement and destruction.
LEMMA SessionType ==
    ASSUME TypeInv,
           \/ SetsObjectToken \/ SpeakBegins \/ FindsSessionActive \/ BeginsRetirement
           \/ Retires \/ RecreatesSession \/ HasNoSession
           \/ BeginsDestruction \/ Destroys
    PROVE  TypeInv'
<1> USE DEF engineVars, requestVars, faultVars, timeVars, localVars, historyVars, providerVars
<1>1. "speak" \in Callers
  BY DEF Callers
<1>2. /\ {"idle", "session", "retire", "start", "destroy", "gone", "done", "failed", "read"}
           \subseteq Place
      /\ {"unconfigured", "none", "live"} \subseteq Session
      /\ {"E_FAIL", "E_ABORT", "S_OK", "TIMEOUT"} \subseteq HResult
  BY DEF Place, Session, HResult
<1>3. FreshContext \in Context /\ FreshContext.speakId \in 0 .. MaxSpeaks
  BY ProviderAssumption DEF FreshContext, Context, UpstreamState, DownstreamState, HResult
<1>4. <<>> \in Seq(Command) /\ <<>> \in Seq(Event) /\ <<>> \in Span /\ Len(<<>>) < BlockAlign
  BY BlockAlignAssumption DEF Span
<1>5. \A place \in Place : CreatesSession(place) => TypeInv'
  <2> SUFFICES ASSUME NEW place \in Place, CreatesSession(place) PROVE TypeInv'
    OBVIOUS
  <2>1. provider' \in Provider
    <3>1. /\ provider' = [IdleProvider EXCEPT !.deviations = provider.deviations]
          /\ provider.deviations \in Nat
      BY DEF CreatesSession, OpenPipes, TypeInv, TypeOK, Provider
    <3>2. 0 \in 0 .. MaxSpeaks
      BY ProviderAssumption
    <3> QED
      BY <3>1, <3>2 DEF IdleProvider, Provider
  <2>2. pc' \in [Threads -> Place] /\ pc'["audio"] = "read"
    BY <1>2 DEF CreatesSession, TypeInv, TypeOK, Threads, Readers, Callers
  <2> QED
    BY <1>2, <1>3, <1>4, <2>1, <2>2
       DEF CreatesSession, OpenPipes, TypeInv, TypeOK, PartialFrame, PendingSpans
<1>6. ClosePipes => /\ connected' \in BOOLEAN /\ commands' \in Seq(Command)
                    /\ events' \in Seq(Event) /\ audio' \in Span
                    /\ provider' \in Provider
  BY <1>4 DEF ClosePipes, Provider, TypeInv, TypeOK
<1>7. CASE SetsObjectToken
  BY <1>2, <1>5, <1>7 DEF SetsObjectToken, TypeInv, TypeOK, PartialFrame, PendingSpans
<1>8. CASE SpeakBegins
  <2>1. speakCounter' \in 0 .. MaxSpeaks /\ site' \in 0 .. MaxSpeaks
    BY <1>8, ProviderAssumption DEF SpeakBegins, TypeInv, TypeOK
  <2> QED
    BY <1>1, <1>2, <1>8, <2>1, CallerPlaces
       DEF SpeakBegins, TypeInv, TypeOK, PartialFrame, PendingSpans
<1>9. CASE FindsSessionActive
  BY <1>1, <1>2, <1>9, CallerPlaces
     DEF FindsSessionActive, TypeInv, TypeOK, PartialFrame, PendingSpans
<1>10. CASE BeginsRetirement
  <2>1. /\ pc' \in [Threads -> Place]
        /\ pc'["audio"] \in {"failed", pc["audio"]}
    BY <1>2, <1>10 DEF BeginsRetirement, TypeInv, TypeOK, Threads, Readers
  <2> QED
    BY <1>10, <2>1 DEF BeginsRetirement, TypeInv, TypeOK, PartialFrame, PendingSpans
<1>11. CASE Retires
  BY <1>1, <1>2, <1>6, <1>11, CallerPlaces
     DEF Retires, TypeInv, TypeOK, PartialFrame, PendingSpans
<1>12. CASE RecreatesSession
  BY <1>2, <1>5, <1>12 DEF RecreatesSession
<1>13. CASE HasNoSession
  BY <1>2, <1>13, ReturnsType
     DEF HasNoSession, TypeInv, TypeOK, PartialFrame, PendingSpans
<1>14. CASE BeginsDestruction
  <2>1. /\ pc' \in [Threads -> Place]
        /\ pc'["audio"] \in {"failed", pc["audio"]}
    BY <1>2, <1>14 DEF BeginsDestruction, TypeInv, TypeOK, Threads, Readers
  <2> QED
    BY <1>14, <2>1 DEF BeginsDestruction, TypeInv, TypeOK, PartialFrame, PendingSpans
<1>15. CASE Destroys
  BY <1>1, <1>2, <1>6, <1>15, CallerPlaces
     DEF Destroys, TypeInv, TypeOK, PartialFrame, PendingSpans
<1> QED
  BY <1>7, <1>8, <1>9, <1>10, <1>11, <1>12, <1>13, <1>14, <1>15

\* Speak on an active session.
LEMMA SpeakType ==
    ASSUME TypeInv,
           \/ Starts \/ StartRefused \/ SendsSpeak \/ SpeakSendFails
           \/ WaitEnds \/ WaitTimesOut \/ ObservesAbort \/ SpeakCancels
           \/ DrainEnds \/ DrainTimesOut \/ SpeakReturns
    PROVE  TypeInv'
<1> USE DEF engineVars, requestVars, faultVars, timeVars, localVars, historyVars, providerVars
<1>1. "speak" \in Callers
  BY DEF Callers
<1>2. /\ {"idle", "send", "wait", "sendCancel", "drain", "cleanup"} \subseteq Place
      /\ {"E_FAIL", "E_ABORT", "S_OK", "TIMEOUT"} \subseteq HResult
      /\ "enter" \in FaultStage
  BY DEF Place, HResult, FaultStage
<1>3. Result \in HResult
  BY <1>2 DEF Result, TypeInv, TypeOK, Context
<1>4. speakCounter \in 0 .. MaxSpeaks /\ speakCounter \in Nat
  BY ProviderAssumption DEF TypeInv, TypeOK
<1>5. CASE Starts
  <2>1. Reset(ctx) \in Context /\ ctx.generation + 1 \in Nat
    <3>1. ctx \in Context
      BY DEF TypeInv, TypeOK
    <3>2. ctx.generation \in Nat
      BY <3>1 DEF Context
    <3>3. Reset(ctx) \in Context
      BY <3>1, ContextOperators
    <3> QED
      BY <3>2, <3>3
  <2>2. /\ ctx' \in Context
        /\ ctx'.speakId \in 0 .. MaxSpeaks
    BY <1>4, <1>5, <2>1 DEF Starts, Context, speakId, UpstreamState, DownstreamState
  <2>3. carry' \in Span /\ PartialFrame'
    BY <1>5, BlockAlignAssumption DEF Starts, PartialFrame, Span
  <2> QED
    BY <1>1, <1>2, <1>5, <2>2, <2>3, CallerPlaces DEF Starts, TypeInv, TypeOK, PendingSpans
<1>6. CASE StartRefused
  BY <1>2, <1>6, ReturnsType DEF StartRefused, TypeInv, TypeOK, PartialFrame, PendingSpans
<1>7. CASE SendsSpeak
  <2>1. [kind |-> "sapi_speak", speakId |-> speakId] \in Command
    BY <1>4 DEF Command, speakId
  <2>2. commands' \in Seq(Command)
    BY <1>7, <2>1, AppendProperties DEF SendsSpeak, TypeInv, TypeOK
  <2> QED
    BY <1>1, <1>2, <1>7, <2>2, CallerPlaces
       DEF SendsSpeak, TypeInv, TypeOK, PartialFrame, PendingSpans
<1>8. CASE SpeakSendFails
  BY <1>1, <1>2, <1>8, CallerPlaces, ReturnsType
     DEF SpeakSendFails, TypeInv, TypeOK, PartialFrame, PendingSpans
<1>9. CASE WaitEnds
  BY <1>3, <1>9, ReturnsType DEF WaitEnds, TypeInv, TypeOK, PartialFrame, PendingSpans
<1>10. CASE WaitTimesOut
  BY <1>1, <1>2, <1>10, CallerPlaces, ReturnsType
     DEF WaitTimesOut, TypeInv, TypeOK, PartialFrame, PendingSpans
<1>11. CASE ObservesAbort
  <2>1. /\ ctx' \in Context /\ ctx'.speakId \in 0 .. MaxSpeaks
        /\ carry' \in Span /\ PartialFrame'
        /\ deadlinePassed' \in BOOLEAN
        /\ cancelId' \in [Threads -> 0 .. MaxSpeaks]
    BY <1>1, <1>11, BeginsCancellationType DEF ObservesAbort
  <2> QED
    BY <1>1, <1>2, <1>11, <2>1, CallerPlaces
       DEF ObservesAbort, TypeInv, TypeOK, PendingSpans
<1>12. CASE SpeakCancels
  <2>1. outcome' \in [Ids -> HResult \cup {NoOutcome}]
    <3>1. outcome \in [Ids -> HResult \cup {NoOutcome}]
      BY DEF TypeInv, TypeOK
    <3>2. \/ outcome' = outcome
          \/ \E result \in {"TIMEOUT", "E_FAIL"} :
                outcome' = [outcome EXCEPT ![speakId] = result]
      BY <1>12 DEF SpeakCancels, SendsCancel
    <3> QED
      BY <1>2, <3>1, <3>2
  <2>2. "speak" \in Threads
    BY DEF Threads, Callers
  <2> QED
    BY <1>12, <2>1, <2>2, SendsCancelType DEF SpeakCancels
<1>13. CASE DrainEnds
  BY <1>3, <1>13, ReturnsType DEF DrainEnds, TypeInv, TypeOK, PartialFrame, PendingSpans
<1>14. CASE DrainTimesOut
  BY <1>1, <1>2, <1>14, CallerPlaces, ReturnsType
     DEF DrainTimesOut, TypeInv, TypeOK, PartialFrame, PendingSpans
<1>15. CASE SpeakReturns
  <2>1. site' \in 0 .. MaxSpeaks
    BY <1>15, ProviderAssumption DEF SpeakReturns
  <2> QED
    BY <1>1, <1>2, <1>15, <2>1, CallerPlaces
       DEF SpeakReturns, TypeInv, TypeOK, PartialFrame, PendingSpans
<1> QED
  BY <1>5, <1>6, <1>7, <1>8, <1>9, <1>10, <1>11, <1>12, <1>13, <1>14, <1>15

\* A direct caller of the worker keeps the types.
LEMMA DirectCallerType ==
    ASSUME TypeInv, DirectCaller
    PROVE  TypeInv'
<1> USE DEF engineVars, requestVars, faultVars, timeVars, localVars, historyVars, providerVars
<1>1. "purge" \in Callers /\ "purge" \in Threads
  BY DEF Callers, Threads
<1>2. {"sendCancel", "sendStop", "drain", "done"} \subseteq Place /\ "enter" \in FaultStage
  BY DEF Place, FaultStage
<1>3. CASE DrainsDirectly
  <2>1. /\ ctx' \in Context /\ ctx'.speakId \in 0 .. MaxSpeaks
        /\ carry' \in Span /\ PartialFrame'
        /\ deadlinePassed' \in BOOLEAN
        /\ cancelId' \in [Threads -> 0 .. MaxSpeaks]
    BY <1>1, <1>3, BeginsCancellationType DEF DrainsDirectly
  <2> QED
    BY <1>1, <1>2, <1>3, <2>1, CallerPlaces DEF DrainsDirectly, TypeInv, TypeOK, PendingSpans
<1>4. CASE Stops
  <2>1. ctx' \in Context /\ ctx'.speakId \in 0 .. MaxSpeaks
    BY <1>4, ContextOperators DEF Stops, TypeInv, TypeOK
  <2>2. carry' \in Span /\ PartialFrame'
    BY <1>4, BlockAlignAssumption DEF Stops, PartialFrame, Span
  <2>3. cancelId' \in [Threads -> 0 .. MaxSpeaks]
    BY <1>4 DEF Stops, TypeInv, TypeOK
  <2> QED
    BY <1>1, <1>2, <1>4, <2>1, <2>2, <2>3, CallerPlaces DEF Stops, TypeInv, TypeOK, PendingSpans
<1>5. CASE StopSends
  <2>1. [kind |-> "cancel", speakId |-> cancelId["purge"]] \in Command
    BY <1>1 DEF Command, TypeInv, TypeOK
  <2>2. commands' \in Seq(Command)
    <3>1. commands \in Seq(Command)
      BY DEF TypeInv, TypeOK
    <3>2. \/ commands' = Append(commands, [kind |-> "cancel", speakId |-> cancelId["purge"]])
          \/ commands' = commands
      BY <1>5 DEF StopSends
    <3> QED
      BY <2>1, <3>1, <3>2, AppendProperties
  <2> QED
    BY <1>1, <1>2, <1>5, <2>2, CallerPlaces
       DEF StopSends, TypeInv, TypeOK, PartialFrame, PendingSpans
<1>6. CASE DirectDrainEnds
  <2>1. fault' \in [Threads -> FaultStage]
    BY <1>1, <1>2, <1>6, CallerPlaces DEF DirectDrainEnds, TypeInv, TypeOK
  <2> QED
    BY <1>1, <1>2, <1>6, <2>1, CallerPlaces
       DEF DirectDrainEnds, TypeInv, TypeOK, PartialFrame, PendingSpans
<1>7. CASE /\ \/ SendsCancel("purge", "drain")
              \/ CancelSendFails("purge", "done") /\ UNCHANGED outcome
           /\ UNCHANGED engineVars
  <2>1. outcome' \in [Ids -> HResult \cup {NoOutcome}]
    BY <1>7 DEF SendsCancel, TypeInv, TypeOK
  <2> QED
    BY <1>1, <1>7, <2>1, SendsCancelType
<1>8. CASE EnterFaultedState("purge") /\ UNCHANGED engineVars
  BY <1>1, <1>8, EnterFaultedStateType
<1> QED
  BY <1>3, <1>4, <1>5, <1>6, <1>7, <1>8 DEF DirectCaller
-----------------------------------------------------------------------------
\* The strengthened type invariant holds of a fresh engine.
LEMMA TypeInvInit == Init => TypeInv
<1> SUFFICES ASSUME Init PROVE TypeInv
  OBVIOUS
<1>1. FreshContext \in Context /\ FreshContext.speakId \in 0 .. MaxSpeaks
  BY ProviderAssumption DEF FreshContext, Context, UpstreamState, DownstreamState, HResult
<1>2. <<>> \in Seq(Command) /\ <<>> \in Seq(Event) /\ <<>> \in Span /\ Len(<<>>) < BlockAlign
  BY BlockAlignAssumption DEF Span
<1>3. NoBatch \in Batch
  <2>1. Token(FreshContext) \in [speakId : Nat, generation : Nat]
    BY DEF Token, FreshContext
  <2> QED
    BY <2>1, ProviderAssumption DEF NoBatch, Batch
<1>4. NoDisposition \in [event : Event, fault : BOOLEAN]
  BY DEF NoDisposition, EventOf, Event, EventType
<1>5. pc \in [Threads -> Place] /\ pc["audio"] = "exit"
  BY DEF Init, Threads, Readers, Callers, Place
<1>6. fault \in [Threads -> FaultStage]
  BY DEF Init, FaultStage
<1>7. IdleProvider \in Provider
  BY ProviderAssumption DEF IdleProvider, Provider
<1>8. promised \in [Ids -> Promise]
  BY DEF Init, ProviderInit, Promise
<1>9. /\ carry \in Span /\ PartialFrame /\ PendingSpans
      /\ commands \in Seq(Command) /\ events \in Seq(Event) /\ audio \in Span
  BY <1>2, <1>5 DEF Init, ProviderInit, PartialFrame, PendingSpans
<1>10. /\ cancelId \in [Threads -> 0 .. MaxSpeaks]
       /\ site \in 0 .. MaxSpeaks /\ speakCounter \in 0 .. MaxSpeaks
  BY ProviderAssumption DEF Init
<1>11. /\ heard \in [Ids -> Nat] /\ told \in [Ids -> Nat]
       /\ asked \in [Ids -> Nat] /\ lateSpans \in [Ids -> Nat]
       /\ outcome \in [Ids -> HResult \cup {NoOutcome}]
  BY DEF Init
<1>12. /\ {faultPublicationStarted, faultVisible, exit, idleElapsed, deadlinePassed}
             \subseteq BOOLEAN
       /\ connected \in BOOLEAN /\ session \in Session
  BY DEF Init, ProviderInit, Session
<1>13. /\ ctx = FreshContext /\ batch = NoBatch /\ disposition = NoDisposition
       /\ provider = IdleProvider
  BY DEF Init, ProviderInit
<1> QED
  BY <1>1, <1>3, <1>4, <1>5, <1>6, <1>7, <1>8, <1>9, <1>10, <1>11, <1>12, <1>13
     DEF TypeInv, TypeOK

\* Every step of the system keeps the strengthened type invariant.
LEMMA TypeInvNext == TypeInv /\ [Next]_vars => TypeInv'
<1> SUFFICES ASSUME TypeInv, [Next]_vars PROVE TypeInv'
  OBVIOUS
<1>1. CASE (AudioThread \/ ControlThread \/ InactivityElapses \/ DeadlinePasses)
              /\ UNCHANGED engineVars
  BY <1>1, AudioThreadType, ControlThreadType, TimeType
<1>2. CASE SpeakThread
  <2>1. "speak" \in Threads
    BY DEF Threads, Callers
  <2> QED
    BY <1>2, <2>1, SessionType, SpeakType, EnterFaultedStateType DEF SpeakThread
<1>3. CASE DirectCaller
  BY <1>3, DirectCallerType
<1>4. CASE ProviderNext /\ UNCHANGED <<workerVars, engineVars>>
  BY <1>4, ProviderType
<1>5. CASE UNCHANGED vars
  BY <1>5 DEF vars, TypeInv, TypeOK, PartialFrame, PendingSpans
<1> QED
  BY <1>1, <1>2, <1>3, <1>4, <1>5 DEF Next, Terminated

\* Every variable keeps its type, and with it the strengthening that makes the
\* type inductive, for every number of Speak calls, frame size, pipe size and
\* conduct of the environment.
THEOREM TypeCorrect == Spec => []TypeInv
BY TypeInvInit, TypeInvNext, PTL DEF Spec

\* The type invariant of the runs: every field of the worker, the engine and the
\* pipes keeps its type in every behaviour of the code.
THEOREM TypeOKHolds == Spec => []TypeOK
<1>1. TypeInv => TypeOK
  BY DEF TypeInv
<1> QED
  BY <1>1, TypeCorrect, PTL
-----------------------------------------------------------------------------
(***************************************************************************)
(* The lifecycle of a request and its cancellation, for every conduct of   *)
(* the threads, the host and the provider.  LifecycleStep says what one    *)
(* step of the whole system may do to the request context; the first       *)
(* theorems follow from it, among them that the engine implements          *)
(* SpeakService.  The next two follow a cancellation and a span on their   *)
(* way from a region to what is done outside it, and the last part is      *)
(* about the session that follows a fault.                                 *)
(***************************************************************************)

Becomes(c, d, upstream, downstream, finished) ==
    /\ d.speakId = c.speakId
    /\ d.upstreamState = upstream
    /\ d.downstreamState = downstream
    /\ d.upstreamFinished = finished

Stays(c, d) == Becomes(c, d, c.upstreamState, c.downstreamState, c.upstreamFinished)

InUse(c) == c.downstreamState \in {"Speaking", "Cancelling"}

NewSession(d) ==
    /\ d.speakId = 0
    /\ d.upstreamState = "Idle" /\ d.downstreamState = "Idle"
    /\ ~d.upstreamFinished

Started(c, d) ==
    /\ c.upstreamState = "Idle" /\ c.downstreamState = "Idle"
    /\ d.upstreamState = "Active" /\ d.downstreamState = "Speaking"
    /\ ~d.upstreamFinished

Cancelled(c, d) ==
    /\ c.downstreamState = "Speaking"
    /\ Becomes(c, d, c.upstreamState, "Cancelling", FALSE)

\* The terminal boundary of a request in use is reached.
Drained(c, d) ==
    /\ c.upstreamFinished /\ InUse(c)
    /\ Becomes(c, d, "Idle", "Idle", TRUE)

\* A terminal event is handled: the request stays in use, or was drained before.
Declared(c, d) ==
    /\ ~c.upstreamFinished /\ c.speakId # 0
    /\ \/ \E u \in {"Completed", "Cancelled"} : Becomes(c, d, u, c.downstreamState, TRUE)
       \/ InUse(c) /\ Becomes(c, d, "Idle", "Idle", TRUE)

ErrorLogged(c, d) == Becomes(c, d, "Idle", "Idle", TRUE)

Stopped(c, d) ==
    "direct" \in Env /\ InUse(c) /\ Becomes(c, d, "Idle", "Idle", c.upstreamFinished)

\* What the threads, the callers and the provider do to a request they have.
RequestStep(c, d) ==
    \/ Stays(c, d)
    \/ Becomes(c, d, "Faulted", "Faulted", c.upstreamFinished)
    \/ Cancelled(c, d)
    \/ Drained(c, d)
    \/ Declared(c, d)
    \/ ErrorLogged(c, d)
    \/ Stopped(c, d)

LifecycleStep(c, d) == RequestStep(c, d) \/ NewSession(d) \/ Started(c, d)

\* An idle context of a session that nobody stopped keeps the terminal of its
\* last request, so that no further terminal event can be applied to it.
IdleIsSettled ==
    ctx.downstreamState = "Idle"
        => ctx.upstreamState = "Idle" /\ (ctx.speakId = 0 \/ ctx.upstreamFinished)
-----------------------------------------------------------------------------
\* CheckTerminalBoundaryLocked leaves a request alone, or resets one in use whose
\* terminal was declared.
LEMMA CheckTerminalBoundaryStep ==
    ASSUME NEW c \in Context, NEW k, c.upstreamState # "Failed"
    PROVE  LET d == CheckTerminalBoundary(c, k).ctx
           IN d = c \/ (d = ResetToIdle(c) /\ c.upstreamFinished /\ InUse(c))
BY DEF CheckTerminalBoundary, TerminalBoundaryAction, IsAwaitingTerminalAudio,
       IsDrainingCancellation, InUse

\* No region leaves "Failed" behind: the reset in HandleLogEventLocked replaces it.
LEMMA MatrixExcludesFailed ==
    ASSUME TypeInv, LifecycleMatrix
    PROVE  ctx \in Context /\ ctx.upstreamState # "Failed"
BY DEF TypeInv, TypeOK, LifecycleMatrix, Context, DownstreamState

\* What ResetToIdleLocked changes of the lifecycle.
LEMMA ResetStep ==
    ASSUME NEW c \in Context
    PROVE  Becomes(c, ResetToIdle(c), "Idle", "Idle", c.upstreamFinished)
BY DEF Becomes, ResetToIdle, Context

\* What TransitionRequestToFaultedLocked changes of the lifecycle.
LEMMA FaultStep ==
    ASSUME NEW c \in Context
    PROVE  Becomes(c, TransitionRequestToFaulted(c), "Faulted", "Faulted", c.upstreamFinished)
BY DEF Becomes, TransitionRequestToFaulted, Context

\* Setting the pending fault at the end of a region is no step of the lifecycle.
LEMMA PublishStep ==
    ASSUME NEW r, r.ctx \in Context, Publish(r), NEW c, RequestStep(c, r.ctx)
    PROVE  RequestStep(c, ctx')
<1>1. CASE r.fault
  <2>1. ctx' = [r.ctx EXCEPT !.faultPending = TRUE]
    BY <1>1 DEF Publish
  <2>2. /\ ctx'.speakId = r.ctx.speakId /\ ctx'.upstreamState = r.ctx.upstreamState
        /\ ctx'.downstreamState = r.ctx.downstreamState
        /\ ctx'.upstreamFinished = r.ctx.upstreamFinished
    BY <2>1 DEF Context
  <2> QED
    BY <2>2 DEF RequestStep, Stays, Becomes, Cancelled, Drained, Declared, ErrorLogged, Stopped
<1>2. CASE ~r.fault
  BY <1>2 DEF Publish
<1> QED
  BY <1>1, <1>2

\* Counting bytes and checking the boundary.
LEMMA CountedStep ==
    ASSUME TypeInv, LifecycleMatrix, NEW c \in Context, Stays(ctx, c), NEW k
    PROVE  LET r == CheckTerminalBoundary(c, k)
           IN r.ctx \in Context /\ RequestStep(ctx, r.ctx)
<1> DEFINE d == CheckTerminalBoundary(c, k).ctx
<1>1. c.upstreamState # "Failed"
  BY MatrixExcludesFailed DEF Stays, Becomes
<1>2. d = c \/ (d = ResetToIdle(c) /\ c.upstreamFinished /\ InUse(c))
  BY <1>1, CheckTerminalBoundaryStep
<1> HIDE DEF d
<1>3. CASE d = c
  BY <1>3 DEF RequestStep, d
<1>4. CASE d = ResetToIdle(c) /\ c.upstreamFinished /\ InUse(c)
  <2>1. d \in Context
    BY <1>4, ContextOperators
  <2>2. Becomes(c, d, "Idle", "Idle", c.upstreamFinished)
    BY <1>4, ResetStep
  <2>3. c.upstreamFinished = TRUE
    BY <1>4 DEF Context
  <2>4. Drained(ctx, d)
    BY <1>4, <2>2, <2>3 DEF Drained, Becomes, Stays, InUse
  <2> QED
    BY <2>1, <2>4 DEF RequestStep, d
<1> QED
  BY <1>2, <1>3, <1>4

\* Handling a control event of the request.
LEMMA HandleStep ==
    ASSUME TypeInv, LifecycleMatrix, NEW event \in Event, event.speakId # 0
    PROVE  LET r == HandleParsedControlEvent(event)
           IN r.ctx \in Context /\ RequestStep(ctx, r.ctx)
<1> DEFINE r == HandleParsedControlEvent(event)
<1>0. SUFFICES r.ctx \in Context /\ RequestStep(ctx, r.ctx)
  OBVIOUS
<1>1. ctx \in Context /\ ctx.upstreamState # "Failed"
  BY MatrixExcludesFailed
<1>2. r.ctx \in Context
  BY HandleParsedControlEventType
<1>3. CASE EventAction(event, ctx) = "Terminal"
  <2>1. ctx.speakId # 0
    BY <1>3 DEF EventAction
  <2>2. r = HandleTerminalEvent(event)
    BY <1>3 DEF HandleParsedControlEvent
  <2> DEFINE aligned == IsTerminalByteCountFrameAligned(event.bytes, BlockAlign)
             action == UpstreamTerminalAction(ctx, event.valid, aligned)
             kind == IF event.type = "complete" THEN "Completed" ELSE "Cancelled"
             terminal == [ctx EXCEPT !.upstreamTerminalBytes = event.bytes,
                                     !.upstreamFinished = TRUE, !.upstreamState = kind]
  <2>3. CASE action # "Apply"
    <3>1. r.ctx = TransitionRequestToFaulted(ctx)
      BY <2>2, <2>3 DEF HandleTerminalEvent
    <3> HIDE DEF r
    <3> QED
      BY <1>1, <1>2, <3>1, FaultStep DEF RequestStep
  <2>4. CASE action = "Apply"
    <3>1. ~ctx.upstreamFinished
      BY <2>4 DEF UpstreamTerminalAction
    <3>2. terminal \in Context
      <4>1. event.bytes \in Nat /\ kind \in UpstreamState
        BY DEF Event, UpstreamState
      <4> HIDE DEF kind
      <4> QED
        BY <1>1, <4>1 DEF Context
    <3>3. Becomes(ctx, terminal, kind, ctx.downstreamState, TRUE)
      BY <1>1 DEF Becomes, Context
    <3>4. r.ctx = CheckTerminalBoundary(terminal, carry).ctx
      BY <2>2, <2>4 DEF HandleTerminalEvent
    <3>5. kind \in {"Completed", "Cancelled"}
      OBVIOUS
    <3> HIDE DEF r, terminal, kind
    <3>6. terminal.upstreamState # "Failed"
      BY <3>3, <3>5 DEF Becomes
    <3>7. \/ r.ctx = terminal
          \/ r.ctx = ResetToIdle(terminal) /\ InUse(terminal)
      BY <3>2, <3>4, <3>6, CheckTerminalBoundaryStep
    <3>8. CASE r.ctx = terminal
      BY <1>2, <2>1, <3>1, <3>3, <3>5, <3>8 DEF RequestStep, Declared
    <3>9. CASE r.ctx = ResetToIdle(terminal) /\ InUse(terminal)
      <4>1. Becomes(terminal, r.ctx, "Idle", "Idle", terminal.upstreamFinished)
        BY <3>2, <3>9, ResetStep
      <4>2. Becomes(ctx, r.ctx, "Idle", "Idle", TRUE) /\ InUse(ctx)
        BY <3>3, <3>9, <4>1 DEF Becomes, InUse
      <4> QED
        BY <1>2, <2>1, <3>1, <4>2 DEF RequestStep, Declared
    <3> QED
      BY <3>7, <3>8, <3>9
  <2> QED
    BY <2>3, <2>4
<1>4. CASE EventAction(event, ctx) = "RequestErrorLog"
  <2> DEFINE failed == [ctx EXCEPT !.upstreamState = "Failed", !.upstreamFinished = TRUE,
                                   !.completionHr = "E_FAIL",
                                   !.upstreamTerminalBytes = ctx.rawAudioBytesRead]
  <2>1. r = CheckTerminalBoundary(failed, carry)
    BY <1>4 DEF HandleParsedControlEvent, HandleErrorLog
  <2>2. /\ failed \in Context
        /\ failed.upstreamState = "Failed" /\ failed.upstreamFinished = TRUE
        /\ failed.speakId = ctx.speakId
    BY <1>1 DEF Context, UpstreamState, HResult
  <2>3. CheckTerminalBoundary(failed, carry).ctx = ResetToIdle(failed)
    <3> HIDE DEF failed
    <3> QED
      BY <2>2 DEF CheckTerminalBoundary, TerminalBoundaryAction
  <2> HIDE DEF failed, r
  <2>4. ErrorLogged(ctx, r.ctx)
    BY <2>1, <2>2, <2>3, ResetStep DEF ErrorLogged, Becomes
  <2> QED
    BY <1>2, <2>4 DEF RequestStep
<1>5. CASE EventAction(event, ctx) \notin {"Terminal", "RequestErrorLog"}
  <2>1. r.ctx = ctx
    BY <1>5 DEF HandleParsedControlEvent
  <2> HIDE DEF r
  <2> QED
    BY <1>2, <2>1 DEF RequestStep, Stays, Becomes
<1> QED
  BY <1>3, <1>4, <1>5
-----------------------------------------------------------------------------
(* What each thread does to the lifecycle. *)

\* An unchanged context is a step of the lifecycle.
LEMMA StaysIsStep ==
    ASSUME ctx' = ctx \/ Stays(ctx, ctx')
    PROVE  RequestStep(ctx, ctx')
BY DEF RequestStep, Stays, Becomes

\* EnterFaultedState, called by any thread, faults the request or leaves it.
LEMMA EnterFaultedStateStep ==
    ASSUME TypeInv, NEW t \in Threads, EnterFaultedState(t)
    PROVE  RequestStep(ctx, ctx')
<1>1. ctx \in Context
  BY DEF TypeInv, TypeOK
<1>2. CASE FaultsRequest(t)
  <2> DEFINE c == TransitionRequestToFaulted(ctx)
  <2>1. c \in Context /\ Becomes(ctx, c, "Faulted", "Faulted", ctx.upstreamFinished)
    BY <1>1, FaultStep, ContextOperators
  <2>2. ctx' = c \/ ctx' = [c EXCEPT !.faultPending = TRUE]
    BY <1>2 DEF FaultsRequest
  <2> HIDE DEF c
  <2>3. Becomes(ctx, ctx', "Faulted", "Faulted", ctx.upstreamFinished)
    BY <2>1, <2>2 DEF Becomes, Context
  <2> QED
    BY <2>3 DEF RequestStep
<1>3. CASE PublishesFault(t)
  <2>1. Stays(ctx, ctx')
    BY <1>1, <1>3 DEF PublishesFault, Stays, Becomes, Context
  <2> QED
    BY <2>1, StaysIsStep
<1>4. CASE CancelsIo(t)
  BY <1>4, StaysIsStep DEF CancelsIo, requestVars
<1> QED
  BY <1>2, <1>3, <1>4 DEF EnterFaultedState

\* Every action of the control thread is a step of the request.
LEMMA ControlThreadStep ==
    ASSUME TypeInv, LifecycleMatrix, ControlThread
    PROVE  RequestStep(ctx, ctx')
<1> USE DEF requestVars
<1>1. ctx \in Context
  BY DEF TypeInv, TypeOK
<1>2. CASE HandlesEvent
  <2> DEFINE event == Head(events)
             r == HandleParsedControlEvent(event)
  <2>1. event \in Event /\ event.speakId # 0 /\ Publish(r)
    BY <1>2, HeadTailProperties DEF HandlesEvent, NextEvent, TypeInv, TypeOK
  <2>2. r.ctx \in Context /\ RequestStep(ctx, r.ctx)
    BY <2>1, HandleStep
  <2> HIDE DEF r
  <2> QED
    BY <2>1, <2>2, PublishStep
<1>3. CASE ReadsOrphanEvent
  <2>1. Stays(ctx, ctx')
    BY <1>1, <1>3 DEF ReadsOrphanEvent, Stays, Becomes, Context
  <2> QED
    BY <2>1, StaysIsStep
<1>4. CASE EnterFaultedState("control")
  BY <1>4, EnterFaultedStateStep DEF Threads, Readers
<1>5. CASE \/ ReadBreaks("control") \/ ReadFailed("control") \/ LeavesLoop("control")
           \/ ReadsMalformedLine \/ AdmitsEvent \/ CapturesEventSite \/ NotifiesSite
  <2>1. ctx' = ctx
    BY <1>5 DEF ReadBreaks, ReadFailed, LeavesLoop, ReadsMalformedLine, AdmitsEvent,
                CapturesEventSite, NotifiesSite
  <2> QED
    BY <2>1, StaysIsStep
<1> QED
  BY <1>2, <1>3, <1>4, <1>5 DEF ControlThread

\* Every action of the audio thread is a step of the lifecycle.
LEMMA AudioThreadStep ==
    ASSUME TypeInv, LifecycleMatrix, AudioThread
    PROVE  RequestStep(ctx, ctx')
<1> USE DEF requestVars
<1>1. ctx \in Context
  BY DEF TypeInv, TypeOK
<1>2. \A data : Counted(data) \in Context => Stays(ctx, Counted(data))
  BY <1>1 DEF Counted, Stays, Becomes, Context
<1>3. CASE AssemblesSpeakingAudio
  <2>1. PICK data \in Chunks : AssemblesSpeakingAudio!(data)
    BY <1>3 DEF AssemblesSpeakingAudio
  <2> DEFINE framed == Process(carry, SubSeq(data, 1, BytesToFrame(ctx, Len(data))))
             r == CheckTerminalBoundary(Counted(data), framed.carry)
  <2>2. Counted(data) \in Context /\ Stays(ctx, Counted(data))
    BY <1>2, <2>1, ReadsType
  <2>3. Publish(r) \/ ctx' = Counted(data)
    BY <2>1
  <2>4. CASE Publish(r)
    <3> HIDE DEF framed
    <3>1. r.ctx \in Context /\ RequestStep(ctx, r.ctx)
      BY <2>2, CountedStep
    <3> HIDE DEF r
    <3> QED
      BY <2>4, <3>1, PublishStep
  <2> QED
    BY <2>2, <2>3, <2>4, StaysIsStep
<1>4. CASE AssemblyThrows
  <2>1. PICK data \in Chunks : AssemblyThrows!(data)
    BY <1>4 DEF AssemblyThrows
  <2> QED
    BY <1>2, <2>1, ReadsType, StaysIsStep
<1>5. CASE DrainsCancellationAudio
  <2>1. PICK data \in Chunks : DrainsCancellationAudio!(data)
    BY <1>5 DEF DrainsCancellationAudio
  <2> DEFINE r == CheckTerminalBoundary(Counted(data), carry)
  <2>2. r.ctx \in Context /\ RequestStep(ctx, r.ctx)
    BY <1>2, <2>1, ReadsType, CountedStep
  <2>3. Publish(r)
    BY <2>1
  <2> HIDE DEF r
  <2> QED
    BY <2>2, <2>3, PublishStep
<1>6. CASE FaultsOnIdleAudio
  <2>1. Stays(ctx, ctx')
    BY <1>1, <1>6 DEF FaultsOnIdleAudio, Publish, Stays, Becomes, Context
  <2> QED
    BY <2>1, StaysIsStep
<1>7. CASE UpdatesAfterDelivery
  <2> DEFINE action == BatchAction(ctx, batch.token, ~batch.accepted)
             credited == [ctx EXCEPT !.deliveredAudioBytes = @ + batch.credited]
             c == IF action = "CreditAndCheckBoundary" THEN credited ELSE ctx
             r == CheckTerminalBoundary(c, carry)
  <2>1. credited \in Context /\ credited.speakId = ctx.speakId
    BY <1>1, ContextOperators DEF TypeInv, TypeOK, Batch
  <2>2. Stays(ctx, credited) /\ Stays(ctx, ctx)
    BY <1>1 DEF Stays, Becomes, Context
  <2>3. \/ ctx' = ctx
        \/ Publish(r)
        \/ /\ BeginCancellationAction(ctx) = "TransitionToCancelling"
           /\ ctx' = TransitionToCancelling(credited)
    BY <1>7 DEF UpdatesAfterDelivery
  <2>4. CASE Publish(r)
    <3>1. c \in Context /\ Stays(ctx, c)
      BY <1>1, <2>1, <2>2
    <3> HIDE DEF c
    <3>2. r.ctx \in Context /\ RequestStep(ctx, r.ctx)
      BY <3>1, CountedStep
    <3> HIDE DEF r
    <3> QED
      BY <2>4, <3>2, PublishStep
  <2>5. CASE /\ BeginCancellationAction(ctx) = "TransitionToCancelling"
             /\ ctx' = TransitionToCancelling(credited)
    <3>1. ctx.downstreamState = "Speaking"
      BY <1>1, <2>5 DEF BeginCancellationAction, IsDrainingCancellation, Context, DownstreamState
    <3> HIDE DEF credited
    <3>2. Becomes(ctx, ctx', ctx.upstreamState, "Cancelling", FALSE)
      BY <2>1, <2>2, <2>5 DEF TransitionToCancelling, Becomes, Stays, Context
    <3> QED
      BY <3>1, <3>2 DEF RequestStep, Cancelled
  <2> QED
    BY <2>3, <2>4, <2>5, StaysIsStep
<1>8. CASE EnterFaultedState("audio")
  BY <1>8, EnterFaultedStateStep DEF Threads, Readers
<1>9. CASE \/ ReadBreaks("audio") \/ ReadFailed("audio") \/ LeavesLoop("audio")
           \/ DrainsFaultedAudio \/ AdmitsSpan \/ CapturesSite \/ SiteAcceptsSpan
           \/ SiteRejectsSpan \/ AudioSendsCancel
  <2>1. ctx' = ctx
    BY <1>9 DEF ReadBreaks, ReadFailed, LeavesLoop, DrainsFaultedAudio, AdmitsSpan,
                CapturesSite, SiteAcceptsSpan, SiteRejectsSpan, AudioSendsCancel,
                SendsCancel, CancelSendFails
  <2> QED
    BY <2>1, StaysIsStep
<1> QED
  BY <1>3, <1>4, <1>5, <1>6, <1>7, <1>8, <1>9 DEF AudioThread

\* A caller begins a cancellation only of a speaking request.
LEMMA BeginsCancellationStep ==
    ASSUME TypeInv, NEW t, BeginsCancellation(t),
           BeginCancellationAction(ctx) = "TransitionToCancelling"
    PROVE  RequestStep(ctx, ctx')
<1>1. ctx \in Context
  BY DEF TypeInv, TypeOK
<1>2. ctx.downstreamState = "Speaking"
  BY <1>1 DEF BeginCancellationAction, IsDrainingCancellation, Context, DownstreamState
<1>3. Becomes(ctx, ctx', ctx.upstreamState, "Cancelling", FALSE)
  BY <1>1 DEF BeginsCancellation, TransitionToCancelling, Becomes, Context
<1> QED
  BY <1>2, <1>3 DEF RequestStep, Cancelled

\* A new session has a fresh context.
LEMMA CreatesSessionStep ==
    ASSUME NEW place, CreatesSession(place)
    PROVE  LifecycleStep(ctx, ctx')
<1>1. NewSession(ctx')
  BY DEF CreatesSession, FreshContext, NewSession
<1> QED
  BY <1>1 DEF LifecycleStep

\* Speak starts a request, or creates a session for itself or for the host.
LEMMA SpeakStartsStep ==
    ASSUME TypeInv, SetsObjectToken \/ RecreatesSession \/ Starts
    PROVE  LifecycleStep(ctx, ctx')
<1>1. ctx \in Context
  BY DEF TypeInv, TypeOK
<1>2. CASE SetsObjectToken
  BY <1>2, CreatesSessionStep DEF SetsObjectToken, requestVars, LifecycleStep, RequestStep,
                                  Stays, Becomes
<1>3. CASE RecreatesSession
  BY <1>3, CreatesSessionStep DEF RecreatesSession
<1>4. CASE Starts
  <2>1. ctx.upstreamState = "Idle" /\ ctx.downstreamState = "Idle"
    BY <1>4 DEF Starts, StartAccepted
  <2>2. /\ Reset(ctx) \in Context /\ Reset(ctx).upstreamFinished = FALSE
    BY <1>1, ContextOperators DEF Reset, FreshContext
  <2>3. /\ ctx'.upstreamState = "Active" /\ ctx'.downstreamState = "Speaking"
        /\ ~ctx'.upstreamFinished
    BY <1>4, <2>2 DEF Starts, Context
  <2> QED
    BY <2>1, <2>3 DEF LifecycleStep, Started
<1> QED
  BY <1>2, <1>3, <1>4

\* Every other action of Speak and of the destructor is a step of the request.
LEMMA SpeakThreadStep ==
    ASSUME TypeInv, SpeakThread, ~(SetsObjectToken \/ RecreatesSession \/ Starts)
    PROVE  RequestStep(ctx, ctx')
<1> USE DEF requestVars
<1>1. CASE ObservesAbort
  BY <1>1, BeginsCancellationStep DEF ObservesAbort
<1>2. CASE EnterFaultedState("speak")
  BY <1>2, EnterFaultedStateStep DEF Threads, Callers
<1>3. CASE \/ SpeakBegins \/ FindsSessionActive \/ BeginsRetirement \/ Retires
           \/ HasNoSession \/ StartRefused \/ SendsSpeak \/ SpeakSendFails
           \/ WaitEnds \/ WaitTimesOut \/ SpeakCancels \/ DrainEnds \/ DrainTimesOut
           \/ SpeakReturns \/ BeginsDestruction \/ Destroys
  <2>1. ctx' = ctx
    BY <1>3 DEF SpeakBegins, FindsSessionActive, BeginsRetirement, Retires, HasNoSession,
                StartRefused, SendsSpeak, SpeakSendFails, WaitEnds, WaitTimesOut,
                SpeakCancels, SendsCancel, CancelSendFails, DrainEnds, DrainTimesOut,
                SpeakReturns, BeginsDestruction, Destroys
  <2> QED
    BY <2>1, StaysIsStep
<1> QED
  BY <1>1, <1>2, <1>3 DEF SpeakThread

\* Every action of a direct caller of CancelAndDrain or Stop is a step of the
\* lifecycle.
LEMMA DirectCallerStep ==
    ASSUME TypeInv, DirectCaller
    PROVE  RequestStep(ctx, ctx')
<1> USE DEF requestVars
<1>1. CASE DrainsDirectly
  BY <1>1, BeginsCancellationStep DEF DrainsDirectly
<1>2. CASE Stops
  <2>1. ctx \in Context
    BY DEF TypeInv, TypeOK
  <2>2. Becomes(ctx, ctx', "Idle", "Idle", ctx.upstreamFinished)
    BY <1>2, <2>1, ResetStep DEF Stops
  <2> QED
    BY <1>2, <2>1, <2>2 DEF Stops, DirectCallBegins, StopResets, RequestStep, Stopped, InUse,
                            Context, DownstreamState
<1>3. CASE EnterFaultedState("purge")
  BY <1>3, EnterFaultedStateStep DEF Threads, Callers
<1>4. CASE \/ StopSends \/ DirectDrainEnds \/ SendsCancel("purge", "drain")
           \/ CancelSendFails("purge", "done")
  <2>1. ctx' = ctx
    BY <1>4 DEF StopSends, DirectDrainEnds, SendsCancel, CancelSendFails
  <2> QED
    BY <2>1, StaysIsStep
<1> QED
  BY <1>1, <1>2, <1>3, <1>4 DEF DirectCaller

\* Every step of the system but the three that start or create is a step of the
\* request.
LEMMA EveryOtherStep ==
    ASSUME TypeInv, LifecycleMatrix, [Next]_vars,
           ~(SetsObjectToken \/ RecreatesSession \/ Starts)
    PROVE  RequestStep(ctx, ctx')
<1>1. CASE AudioThread
  BY <1>1, AudioThreadStep
<1>2. CASE ControlThread
  BY <1>2, ControlThreadStep
<1>3. CASE SpeakThread
  BY <1>3, SpeakThreadStep
<1>4. CASE DirectCaller
  BY <1>4, DirectCallerStep
<1>5. CASE InactivityElapses \/ DeadlinePasses
  <2>1. ctx' = ctx
    BY <1>5 DEF InactivityElapses, DeadlinePasses, requestVars
  <2> QED
    BY <2>1, StaysIsStep
<1>6. CASE UNCHANGED workerVars \/ UNCHANGED vars
  <2>1. ctx' = ctx
    BY <1>6 DEF workerVars, vars
  <2> QED
    BY <2>1, StaysIsStep
<1> QED
  BY <1>1, <1>2, <1>3, <1>4, <1>5, <1>6 DEF Next, Terminated

\* Every step of the system is a step of the lifecycle.
LEMMA EveryStep ==
    ASSUME TypeInv, LifecycleMatrix, [Next]_vars
    PROVE  LifecycleStep(ctx, ctx')
BY EveryOtherStep, SpeakStartsStep DEF LifecycleStep
-----------------------------------------------------------------------------
(* The theorems. *)

\* A step of the lifecycle keeps the composite states legal.
LEMMA MatrixStep ==
    ASSUME TypeInv, TypeInv', LifecycleMatrix, LifecycleStep(ctx, ctx')
    PROVE  LifecycleMatrix'
<1>1. ctx \in Context /\ ctx' \in Context
  BY DEF TypeInv, TypeOK
<1>2. /\ ctx.downstreamState \in DownstreamState
      /\ ctx.upstreamFinished \in BOOLEAN /\ ctx'.upstreamFinished \in BOOLEAN
  BY <1>1 DEF Context
<1> QED
  BY <1>2 DEF LifecycleMatrix, LifecycleStep, RequestStep, Stays, Becomes, NewSession, Started,
              Cancelled, Drained, Declared, ErrorLogged, Stopped, InUse, DownstreamState

\* No step of any thread leaves a composite request state that the lifecycle does
\* not know: whatever Speak, the two readers, a direct caller, the host, the
\* provider and the clock do, and in whatever order.
THEOREM LifecycleMatrixHolds == Spec => []LifecycleMatrix
<1>1. Init => LifecycleMatrix
  BY DEF Init, FreshContext, LifecycleMatrix
<1>2. TypeInv /\ TypeInv' /\ LifecycleMatrix /\ [Next]_vars => LifecycleMatrix'
  BY EveryStep, MatrixStep
<1> QED
  BY <1>1, <1>2, TypeCorrect, PTL DEF Spec

\* Where nobody calls Stop, a step of the lifecycle keeps an idle context settled.
LEMMA SettledStep ==
    ASSUME TypeInv, TypeInv', IdleIsSettled, LifecycleStep(ctx, ctx'), "direct" \notin Env
    PROVE  IdleIsSettled'
<1>1. ctx.upstreamFinished \in BOOLEAN /\ ctx'.upstreamFinished \in BOOLEAN
  BY DEF TypeInv, TypeOK, Context
<1> QED
  BY <1>1 DEF IdleIsSettled, LifecycleStep, RequestStep, Stays, Becomes, NewSession, Started,
              Cancelled, Drained, Declared, ErrorLogged, Stopped, InUse

\* As long as nobody calls Stop or CancelAndDrain behind the back of Speak, an
\* idle session can always be started again: no late or repeated event of a
\* finished request leaves its upstream state in the way.
THEOREM IdleIsStartableHolds ==
    ASSUME "direct" \notin Env
    PROVE  Spec => []IdleIsStartable
<1>1. Init => IdleIsSettled
  BY DEF Init, FreshContext, IdleIsSettled
<1>2. TypeInv /\ TypeInv' /\ LifecycleMatrix /\ IdleIsSettled /\ [Next]_vars => IdleIsSettled'
  BY EveryStep, SettledStep
<1>3. IdleIsSettled => IdleIsStartable
  BY DEF IdleIsSettled, IdleIsStartable
<1> QED
  BY <1>1, <1>2, <1>3, TypeCorrect, LifecycleMatrixHolds, PTL DEF Spec
-----------------------------------------------------------------------------
(* CSapiEngine implements SpeakService: every step of its threads, of the  *)
(* provider and of the host is a step of the service or leaves it as it    *)
(* is.  CallInv ties the place of Speak's thread to the request it owns.   *)

\* The places of Speak's thread at which it has no request in use.
Outside == {"idle", "session", "retire", "start", "destroy", "gone"}

\* Only a worker that is being destroyed, and is never used again, signals exit.
ExitIsFinal ==
    (exit /\ session = "live") => pc["speak"] \in {"retire", "destroy", "gone"}

\* A call works on the session it found or created.
CallHasSession ==
    pc["speak"] \in {"start", "send", "wait", "sendCancel", "drain"} => session = "live"

\* Outside the stretch from Start to the end of the wait no request is in use; a
\* caller that gave up has faulted the session before it goes on.
NoRequestOutside ==
    /\ pc["speak"] \in Outside => ~InUse(ctx)
    /\ (pc["speak"] = "cleanup" /\ fault["speak"] \notin {"pending", "enter"}) => ~InUse(ctx)

\* A caller that cancels does not meet a speaking request again.
CancelledForGood ==
    pc["speak"] \in {"sendCancel", "drain"} => ctx.downstreamState # "Speaking"

\* The number a call took is not yet that of a request of its session.
NumbersAreFresh ==
    /\ ctx.speakId <= speakCounter
    /\ pc["speak"] \in {"session", "retire", "start"} => ctx.speakId < speakCounter

CallInv ==
    /\ ExitIsFinal
    /\ CallHasSession
    /\ NoRequestOutside
    /\ CancelledForGood
    /\ NumbersAreFresh
-----------------------------------------------------------------------------
(* The invariant. *)

LEMMA CallInvInit == Init => CallInv
BY DEF Init, FreshContext, Threads, Callers, CallInv, ExitIsFinal, CallHasSession,
       NoRequestOutside, InUse, CancelledForGood, NumbersAreFresh

\* A step of the request brings none into use.
LEMMA RequestStepKeeps ==
    ASSUME RequestStep(ctx, ctx')
    PROVE  /\ ctx'.speakId = ctx.speakId
           /\ InUse(ctx') => InUse(ctx)
           /\ ctx'.downstreamState = "Speaking" => ctx.downstreamState = "Speaking"
BY DEF RequestStep, Stays, Becomes, Cancelled, Drained, Declared, ErrorLogged, Stopped, InUse

\* EnterFaultedState, called by another thread, leaves the call where it is.
LEMMA FaultOfAnotherThread ==
    ASSUME TypeInv, NEW t \in Threads \ {"speak"}, EnterFaultedState(t)
    PROVE  /\ pc'["speak"] = pc["speak"] /\ fault'["speak"] = fault["speak"]
           /\ exit' = exit
<1>1. pc \in [Threads -> Place] /\ fault \in [Threads -> FaultStage] /\ "speak" \in Threads
  BY DEF TypeInv, TypeOK, Threads, Callers
<1>2. CASE FaultsRequest(t)
  BY <1>1, <1>2 DEF FaultsRequest
<1>3. CASE PublishesFault(t)
  BY <1>1, <1>3 DEF PublishesFault
<1>4. CASE CancelsIo(t)
  <2>1. PICK hit \in PendingReads :
            pc' = [u \in Threads |-> IF u \in hit THEN "failed" ELSE pc[u]]
    BY <1>4 DEF CancelsIo
  <2>2. "speak" \notin hit
    BY DEF PendingReads, Readers
  <2> QED
    BY <1>1, <1>4, <2>1, <2>2 DEF CancelsIo
<1> QED
  BY <1>2, <1>3, <1>4 DEF EnterFaultedState

\* The readers' steps leave the call where it is.
LEMMA ReaderLeavesCall ==
    ASSUME TypeInv, AudioThread \/ ControlThread
    PROVE  /\ pc'["speak"] = pc["speak"] /\ fault'["speak"] = fault["speak"]
           /\ exit' = exit
<1>1. pc \in [Threads -> Place] /\ fault \in [Threads -> FaultStage] /\ "speak" \in Threads
  BY DEF TypeInv, TypeOK, Threads, Callers
<1>2. ASSUME NEW u \in Readers, ReadBreaks(u) \/ ReadFailed(u) \/ LeavesLoop(u)
      PROVE  /\ pc'["speak"] = pc["speak"] /\ fault'["speak"] = fault["speak"]
             /\ exit' = exit
  BY <1>1, <1>2 DEF ReadBreaks, ReadFailed, LeavesLoop, Goto, CallsEnterFaultedState, Readers
<1>3. CASE EnterFaultedState("audio") \/ EnterFaultedState("control")
  BY <1>3, FaultOfAnotherThread DEF Threads, Readers
<1>4. CASE AssemblesSpeakingAudio
  BY <1>1, <1>4 DEF AssemblesSpeakingAudio, Goto
<1>5. CASE AssemblyThrows \/ DrainsCancellationAudio \/ FaultsOnIdleAudio \/ DrainsFaultedAudio
  BY <1>1, <1>5 DEF AssemblyThrows, DrainsCancellationAudio, FaultsOnIdleAudio,
                    DrainsFaultedAudio, Goto, CallsEnterFaultedState
<1>6. CASE AdmitsSpan \/ CapturesSite \/ SiteAcceptsSpan \/ SiteRejectsSpan
  BY <1>1, <1>6 DEF AdmitsSpan, CapturesSite, SiteAcceptsSpan, SiteRejectsSpan, Goto
<1>7. CASE UpdatesAfterDelivery
  BY <1>1, <1>7 DEF UpdatesAfterDelivery, Goto
<1>8. CASE AudioSendsCancel
  BY <1>1, <1>8 DEF AudioSendsCancel, SendsCancel, CancelSendFails, Goto, CallsEnterFaultedState
<1>9. CASE ReadsMalformedLine \/ ReadsOrphanEvent \/ HandlesEvent
  BY <1>1, <1>9 DEF ReadsMalformedLine, ReadsOrphanEvent, HandlesEvent, Goto,
                    CallsEnterFaultedState
<1>10. CASE AdmitsEvent \/ CapturesEventSite \/ NotifiesSite
  BY <1>1, <1>10 DEF AdmitsEvent, CapturesEventSite, NotifiesSite, Dispatched, Goto
<1> QED
  BY <1>2, <1>3, <1>4, <1>5, <1>6, <1>7, <1>8, <1>9, <1>10
     DEF AudioThread, ControlThread, Readers

\* A direct caller leaves the call where it is.
LEMMA DirectLeavesCall ==
    ASSUME TypeInv, DirectCaller
    PROVE  /\ pc'["speak"] = pc["speak"] /\ fault'["speak"] = fault["speak"]
           /\ exit' = exit /\ UNCHANGED engineVars
<1>1. pc \in [Threads -> Place] /\ fault \in [Threads -> FaultStage] /\ "speak" \in Threads
  BY DEF TypeInv, TypeOK, Threads, Callers
<1>2. CASE DrainsDirectly \/ Stops \/ StopSends \/ DirectDrainEnds
  BY <1>1, <1>2 DEF DrainsDirectly, Stops, StopSends, DirectDrainEnds, BeginsCancellation, Goto,
                    CallsEnterFaultedState
<1>3. CASE /\ UNCHANGED engineVars
           /\ \/ SendsCancel("purge", "drain")
              \/ CancelSendFails("purge", "done")
              \/ EnterFaultedState("purge")
  <2>1. CASE SendsCancel("purge", "drain") \/ CancelSendFails("purge", "done")
    BY <1>1, <1>3, <2>1 DEF SendsCancel, CancelSendFails, Goto, CallsEnterFaultedState
  <2>2. CASE EnterFaultedState("purge")
    BY <1>3, <2>2, FaultOfAnotherThread DEF Threads, Callers
  <2> QED
    BY <1>3, <2>1, <2>2
<1> QED
  BY <1>2, <1>3 DEF DirectCaller

\* Whatever is not a step of Speak's thread leaves the call where it is.
LEMMA OthersLeaveCall ==
    ASSUME TypeInv, [Next]_vars, ~SpeakThread
    PROVE  /\ pc'["speak"] = pc["speak"] /\ fault'["speak"] = fault["speak"]
           /\ exit' = exit /\ UNCHANGED engineVars
<1>1. CASE (AudioThread \/ ControlThread) /\ UNCHANGED engineVars
  BY <1>1, ReaderLeavesCall
<1>2. CASE (InactivityElapses \/ DeadlinePasses) /\ UNCHANGED engineVars
  BY <1>2 DEF InactivityElapses, DeadlinePasses
<1>3. CASE DirectCaller
  BY <1>3, DirectLeavesCall
<1>4. CASE UNCHANGED <<workerVars, engineVars>> \/ UNCHANGED vars
  BY <1>4 DEF workerVars, engineVars, vars
<1> QED
  BY <1>1, <1>2, <1>3, <1>4 DEF Next, Terminated

\* A step of the request that leaves the call where it is keeps the invariant.
LEMMA CallInvKept ==
    ASSUME TypeInv, CallInv, RequestStep(ctx, ctx'),
           pc'["speak"] = pc["speak"], fault'["speak"] = fault["speak"], exit' = exit,
           UNCHANGED engineVars
    PROVE  CallInv'
BY RequestStepKeeps
   DEF CallInv, ExitIsFinal, CallHasSession, NoRequestOutside, CancelledForGood,
       NumbersAreFresh, engineVars

\* Speak's thread finds, retires or creates a session and starts a request.
LEMMA SpeakBeginsKeepsCallInv ==
    ASSUME TypeInv, CallInv,
           \/ SetsObjectToken \/ SpeakBegins \/ FindsSessionActive \/ BeginsRetirement
           \/ Retires \/ RecreatesSession \/ HasNoSession \/ Starts \/ StartRefused
    PROVE  CallInv'
<1> USE DEF CallInv, ExitIsFinal, CallHasSession, NoRequestOutside, CancelledForGood,
            NumbersAreFresh, Outside, InUse, requestVars, faultVars, engineVars, At, Goto
<1>1. /\ pc \in [Threads -> Place] /\ fault \in [Threads -> FaultStage] /\ "speak" \in Threads
      /\ ctx \in Context /\ ctx.speakId \in Nat /\ speakCounter \in Nat
  BY DEF TypeInv, TypeOK, Threads, Callers, Context
<1>2. ASSUME NEW place \in {"idle", "start"}, CreatesSession(place),
             pc["speak"] \in {"idle", "session"}, place = "start" => pc["speak"] = "session"
      PROVE  CallInv'
  <2>1. /\ pc'["speak"] = place /\ ctx' = FreshContext /\ ~exit' /\ session' = "live"
        /\ UNCHANGED <<fault, speakCounter>>
    BY <1>1, <1>2 DEF CreatesSession
  <2> QED
    BY <1>1, <1>2, <2>1 DEF FreshContext
<1>3. CASE SetsObjectToken
  BY <1>1, <1>2, <1>3 DEF SetsObjectToken
<1>4. CASE RecreatesSession
  BY <1>1, <1>2, <1>4 DEF RecreatesSession
<1>5. CASE SpeakBegins
  BY <1>1, <1>5 DEF SpeakBegins
<1>6. CASE FindsSessionActive
  BY <1>1, <1>6 DEF FindsSessionActive, IsSessionActive
<1>7. CASE BeginsRetirement
  BY <1>1, <1>7 DEF BeginsRetirement
<1>8. CASE Retires
  BY <1>1, <1>8 DEF Retires
<1>9. CASE HasNoSession
  BY <1>1, <1>9 DEF HasNoSession, Returns
<1>10. CASE Starts
  <2>1. ctx'.speakId = speakId /\ ctx'.downstreamState = "Speaking"
    BY <1>1, <1>10, ContextOperators DEF Starts, Context
  <2> QED
    BY <1>1, <1>10, <2>1 DEF Starts, speakId
<1>11. CASE StartRefused
  BY <1>1, <1>11 DEF StartRefused, Returns
<1> QED
  BY <1>3, <1>4, <1>5, <1>6, <1>7, <1>8, <1>9, <1>10, <1>11

\* Speak's thread sends the request, waits for its end or cancels it, and returns.
LEMMA SpeakWaitsKeepsCallInv ==
    ASSUME TypeInv, CallInv, RequestStep(ctx, ctx'),
           \/ SendsSpeak \/ SpeakSendFails \/ WaitEnds \/ WaitTimesOut \/ ObservesAbort
           \/ SpeakCancels \/ DrainEnds \/ DrainTimesOut \/ SpeakReturns
           \/ BeginsDestruction \/ Destroys
           \/ EnterFaultedState("speak") /\ UNCHANGED engineVars
    PROVE  CallInv'
<1> USE DEF CallInv, ExitIsFinal, CallHasSession, NoRequestOutside, CancelledForGood,
            NumbersAreFresh, Outside, requestVars, engineVars, At, Goto,
            CallsEnterFaultedState
<1>1. /\ pc \in [Threads -> Place] /\ fault \in [Threads -> FaultStage] /\ "speak" \in Threads
      /\ ctx \in Context /\ ctx.speakId \in Nat /\ speakCounter \in Nat
  BY DEF TypeInv, TypeOK, Threads, Callers, Context
<1>2. /\ ctx'.speakId = ctx.speakId
      /\ InUse(ctx') => InUse(ctx)
      /\ ctx'.downstreamState = "Speaking" => ctx.downstreamState = "Speaking"
  BY RequestStepKeeps
<1>3. CASE SendsSpeak
  BY <1>1, <1>2, <1>3 DEF SendsSpeak
<1>4. CASE SpeakSendFails
  BY <1>1, <1>2, <1>4 DEF SpeakSendFails, Returns
<1>5. CASE WaitEnds
  BY <1>1, <1>2, <1>5 DEF WaitEnds, Returns, IsWaitTerminal, InUse
<1>6. CASE WaitTimesOut
  BY <1>1, <1>2, <1>6 DEF WaitTimesOut, Returns
<1>7. CASE ObservesAbort
  <2>1. ctx'.downstreamState = "Cancelling"
    BY <1>1, <1>7 DEF ObservesAbort, BeginsCancellation, TransitionToCancelling, Context
  <2> QED
    BY <1>1, <1>2, <1>7, <2>1 DEF ObservesAbort
<1>8. CASE SpeakCancels
  BY <1>1, <1>2, <1>8 DEF SpeakCancels, SendsCancel, CancelSendFails
<1>9. CASE DrainEnds
  BY <1>1, <1>2, <1>9 DEF DrainEnds, Returns, IsDrainingCancellation, InUse
<1>10. CASE DrainTimesOut
  BY <1>1, <1>2, <1>10 DEF DrainTimesOut, Returns
<1>11. CASE SpeakReturns
  BY <1>1, <1>2, <1>11 DEF SpeakReturns
<1>12. CASE BeginsDestruction \/ Destroys
  BY <1>1, <1>2, <1>12 DEF BeginsDestruction, Destroys
<1>13. CASE EnterFaultedState("speak") /\ UNCHANGED engineVars
  <2>1. CASE FaultsRequest("speak")
    <3>1. ctx'.downstreamState = "Faulted"
      BY <1>1, <2>1 DEF FaultsRequest, TransitionRequestToFaulted, Context
    <3> QED
      BY <1>1, <1>2, <1>13, <2>1, <3>1 DEF FaultsRequest, InUse
  <2>2. CASE PublishesFault("speak")
    BY <1>1, <1>2, <1>13, <2>2 DEF PublishesFault
  <2>3. CASE CancelsIo("speak")
    <3>1. pc'["speak"] = pc["speak"]
      BY <1>1, <2>3 DEF CancelsIo, PendingReads, Readers
    <3> QED
      BY <1>1, <1>2, <1>13, <2>3, <3>1 DEF CancelsIo
  <2> QED
    BY <1>13, <2>1, <2>2, <2>3 DEF EnterFaultedState
<1> QED
  BY <1>3, <1>4, <1>5, <1>6, <1>7, <1>8, <1>9, <1>10, <1>11, <1>12, <1>13

LEMMA CallInvNext ==
    ASSUME TypeInv, LifecycleMatrix, CallInv, [Next]_vars
    PROVE  CallInv'
<1>1. CASE ~SpeakThread
  <2>1. ~(SetsObjectToken \/ RecreatesSession \/ Starts)
    BY <1>1 DEF SpeakThread
  <2> QED
    BY <1>1, <2>1, EveryOtherStep, OthersLeaveCall, CallInvKept
<1>2. CASE /\ SpeakThread
           /\ \/ SetsObjectToken \/ SpeakBegins \/ FindsSessionActive \/ BeginsRetirement
              \/ Retires \/ RecreatesSession \/ HasNoSession \/ Starts \/ StartRefused
  BY <1>2, SpeakBeginsKeepsCallInv
<1>3. CASE /\ SpeakThread
           /\ ~(SetsObjectToken \/ SpeakBegins \/ FindsSessionActive \/ BeginsRetirement
                \/ Retires \/ RecreatesSession \/ HasNoSession \/ Starts \/ StartRefused)
  BY <1>3, SpeakThreadStep, SpeakWaitsKeepsCallInv DEF SpeakThread
<1> QED
  BY <1>1, <1>2, <1>3

\* The place of Speak's thread and the request agree in every reachable state.
THEOREM CallInvHolds == Spec => []CallInv
BY CallInvInit, CallInvNext, TypeCorrect, LifecycleMatrixHolds, PTL DEF Spec
-----------------------------------------------------------------------------
(* The refinement. *)

LEMMA InitImplements == Init => Service!Init
BY DEF Init, FreshContext, Threads, Callers, Service!Init

\* Speak's thread is in a call.
Calling == pc["speak"] \notin {"idle", "destroy", "gone"}

\* A step of the request that leaves the call and its number is one of the
\* service, or none.
LEMMA RequestStepImplements ==
    ASSUME TypeInv, RequestStep(ctx, ctx'), UNCHANGED speakCounter, UNCHANGED Calling
    PROVE  [Service!Next]_Service!vars
<1> USE DEF Calling, Service!vars, Service!Next, Service!InUse
<1>1. ctx.upstreamFinished \in BOOLEAN
  BY DEF TypeInv, TypeOK, Context
<1>2. CASE Stays(ctx, ctx')
  BY <1>2 DEF Stays, Becomes
<1>3. CASE Becomes(ctx, ctx', "Faulted", "Faulted", ctx.upstreamFinished)
  BY <1>3 DEF Becomes, Service!Faults
<1>4. CASE Cancelled(ctx, ctx')
  BY <1>4 DEF Cancelled, Becomes, Service!Cancels
<1>5. CASE Drained(ctx, ctx')
  BY <1>1, <1>5 DEF Drained, Becomes, InUse, Service!Drains
<1>6. CASE Declared(ctx, ctx')
  BY <1>6 DEF Declared, Becomes, InUse, Service!Declares
<1>7. CASE ErrorLogged(ctx, ctx')
  BY <1>7 DEF ErrorLogged, Becomes, Service!Fails
<1>8. CASE Stopped(ctx, ctx')
  BY <1>8 DEF Stopped, Becomes, InUse, Service!Stops
<1> QED
  BY <1>2, <1>3, <1>4, <1>5, <1>6, <1>7, <1>8 DEF RequestStep

\* A session is created, and a request started, as the service says.
LEMMA SpeakStartsImplements ==
    ASSUME TypeInv, CallInv, SetsObjectToken \/ RecreatesSession \/ Starts
    PROVE  [Service!Next]_Service!vars
<1> USE DEF Service!vars, Service!Next, Service!InUse, At, Goto, engineVars, requestVars
<1>1. pc \in [Threads -> Place] /\ "speak" \in Threads /\ ctx \in Context
  BY DEF TypeInv, TypeOK, Threads, Callers
<1>2. ASSUME NEW place, CreatesSession(place),
             <<pc["speak"], place>> \in {<<"idle", "idle">>, <<"session", "start">>}
      PROVE  Service!Connects
  <2>1. pc'["speak"] = place /\ ctx' = FreshContext /\ UNCHANGED speakCounter
    BY <1>1, <1>2 DEF CreatesSession
  <2> QED
    BY <1>2, <2>1 DEF FreshContext, CallInv, NoRequestOutside, Outside, InUse, Service!Connects
<1>3. CASE SetsObjectToken
  BY <1>2, <1>3 DEF SetsObjectToken
<1>4. CASE RecreatesSession
  BY <1>2, <1>4 DEF RecreatesSession
<1>5. CASE Starts
  <2>1. /\ ctx'.speakId = speakCounter /\ ctx'.downstreamState = "Speaking"
        /\ ctx'.upstreamFinished = FALSE
    BY <1>1, <1>5, ContextOperators DEF Starts, speakId, Reset, FreshContext, Context
  <2>2. pc["speak"] = "start" /\ pc'["speak"] = "send" /\ UNCHANGED speakCounter
    BY <1>1, <1>5 DEF Starts
  <2>3. ctx.downstreamState = "Idle"
    BY <1>5 DEF Starts, StartAccepted
  <2> QED
    BY <2>1, <2>2, <2>3 DEF CallInv, NumbersAreFresh, Service!Starts
<1> QED
  BY <1>3, <1>4, <1>5

\* A call begins and returns as the service says.
LEMMA CallImplements ==
    ASSUME TypeInv, CallInv, SpeakBegins \/ SpeakReturns
    PROVE  Service!Next
<1> USE DEF Service!Next, Service!InUse, At, Goto, engineVars, requestVars
<1>1. pc \in [Threads -> Place] /\ "speak" \in Threads
  BY DEF TypeInv, TypeOK, Threads, Callers
<1>2. CASE SpeakBegins
  BY <1>1, <1>2 DEF SpeakBegins, Service!Calls
<1>3. CASE SpeakReturns
  BY <1>1, <1>3 DEF SpeakReturns, CallInv, NoRequestOutside, InUse, Service!Returns
<1> QED
  BY <1>2, <1>3

\* Inside a call, and from the destructor on, Speak's thread stays there.
LEMMA SpeakStaysInside ==
    ASSUME TypeInv, SpeakThread,
           ~(SetsObjectToken \/ RecreatesSession \/ Starts \/ SpeakBegins \/ SpeakReturns)
    PROVE  UNCHANGED speakCounter /\ UNCHANGED Calling
<1> USE DEF Calling, At, Goto, Returns, engineVars
<1>1. pc \in [Threads -> Place] /\ "speak" \in Threads
  BY DEF TypeInv, TypeOK, Threads, Callers
<1>2. CASE \/ FindsSessionActive \/ BeginsRetirement \/ Retires \/ HasNoSession
           \/ StartRefused \/ SendsSpeak \/ SpeakSendFails
  BY <1>1, <1>2 DEF FindsSessionActive, BeginsRetirement, Retires, HasNoSession, StartRefused,
                    SendsSpeak, SpeakSendFails
<1>3. CASE \/ WaitEnds \/ WaitTimesOut \/ ObservesAbort \/ SpeakCancels \/ DrainEnds
           \/ DrainTimesOut \/ BeginsDestruction \/ Destroys
  BY <1>1, <1>3 DEF WaitEnds, WaitTimesOut, ObservesAbort, SpeakCancels, SendsCancel,
                    CancelSendFails, DrainEnds, DrainTimesOut, BeginsDestruction, Destroys
<1>4. CASE EnterFaultedState("speak") /\ UNCHANGED engineVars
  BY <1>1, <1>4 DEF EnterFaultedState, FaultsRequest, PublishesFault, CancelsIo, PendingReads,
                    Readers
<1> QED
  BY <1>2, <1>3, <1>4 DEF SpeakThread

LEMMA NextImplements ==
    ASSUME TypeInv, LifecycleMatrix, CallInv, [Next]_vars
    PROVE  [Service!Next]_Service!vars
<1>1. CASE ~SpeakThread
  <2>1. UNCHANGED speakCounter /\ UNCHANGED Calling
    BY <1>1, OthersLeaveCall DEF Calling, engineVars
  <2>2. RequestStep(ctx, ctx')
    BY <1>1, EveryOtherStep DEF SpeakThread
  <2> QED
    BY <2>1, <2>2, RequestStepImplements
<1>2. CASE SetsObjectToken \/ RecreatesSession \/ Starts
  BY <1>2, SpeakStartsImplements
<1>3. CASE SpeakBegins \/ SpeakReturns
  BY <1>3, CallImplements
<1>4. CASE /\ SpeakThread
           /\ ~(SetsObjectToken \/ RecreatesSession \/ Starts \/ SpeakBegins \/ SpeakReturns)
  BY <1>4, SpeakThreadStep, SpeakStaysInside, RequestStepImplements
<1> QED
  BY <1>1, <1>2, <1>3, <1>4

\* CSapiEngine implements SpeakService, for every provider, host and failure and
\* for every number of calls.
THEOREM EngineImplementsService == Spec => ImplementsSpeakService
<1>1. Spec => Service!Init /\ [][Service!Next]_Service!vars
  BY InitImplements, NextImplements, TypeCorrect, LifecycleMatrixHolds, CallInvHolds, PTL
     DEF Spec
<1> QED
  BY <1>1 DEF ImplementsSpeakService, Service!Spec

-----------------------------------------------------------------------------
(* What a request may be done once: its cancellation is sent to the        *)
(* provider at most once, and after it left Speaking at most one of its    *)
(* spans still reaches a site, for any number of requests.                 *)

\* The places of Speak from the number it takes to the region that starts it.
BeforeStart == {"session", "retire", "start"}

\* No region has put r into the context yet.
NotStarted(r) ==
    \/ r > speakCounter
    \/ r = speakCounter /\ pc["speak"] \in BeforeStart

\* A thread has begun the cancellation of r and is about to send it.
CancelPending(t, r) == pc[t] = "sendCancel" /\ cancelId[t] = r

Unbegun(r) == asked[r] = 0 /\ \A t \in Threads : ~CancelPending(t, r)

RequestNumbered == pc["speak"] \in BeforeStart => speakCounter \in Ids

\* A cancellation is with one thread until it is sent, and none has begun for a
\* request that is speaking or has yet to start.
CancelInv ==
    /\ RequestNumbered
    /\ OneCancel
    /\ \A t \in Threads, r \in Ids : CancelPending(t, r) => asked[r] = 0
    /\ \A s, t \in Threads, r \in Ids : CancelPending(s, r) /\ CancelPending(t, r) => s = t
    /\ \A r \in Ids : NotStarted(r) => Unbegun(r) /\ ctx.speakId # r
    /\ ctx.downstreamState = "Speaking" => ctx.speakId \in Ids /\ Unbegun(ctx.speakId)
-----------------------------------------------------------------------------
(* What one step may do to the cancellations.                              *)

\* A request that has yet to start had yet to start before.
StartsNothing ==
    /\ \A r \in Ids : NotStarted(r)' => NotStarted(r)
    /\ RequestNumbered'

NoCancel ==
    /\ asked' = asked
    /\ \A t \in Threads : pc'[t] = "sendCancel"
                            => pc[t] = "sendCancel" /\ cancelId'[t] = cancelId[t]

Begins(t) ==
    /\ ctx.downstreamState = "Speaking" /\ ctx'.downstreamState # "Speaking"
    /\ pc' = [pc EXCEPT ![t] = "sendCancel"]
    /\ cancelId' = [cancelId EXCEPT ![t] = ctx.speakId]
    /\ asked' = asked

Sends(t) ==
    /\ pc[t] = "sendCancel"
    /\ \E place \in Place \ {"sendCancel"} : pc' = [pc EXCEPT ![t] = place]
    /\ cancelId' = cancelId
    /\ asked' = [asked EXCEPT ![cancelId[t]] = @ + 1]

CancelStep == NoCancel \/ \E t \in Threads : Begins(t) \/ Sends(t)

\* The context stays with its request, which does not begin to speak, or goes.
KeepsRequest ==
    \/ /\ ctx'.speakId = ctx.speakId
       /\ ctx'.downstreamState = "Speaking" => ctx.downstreamState = "Speaking"
    \/ ctx'.speakId = 0 /\ ctx'.downstreamState # "Speaking"

\* A thread other than Speak that goes somewhere starts nothing.
LEMMA OtherThreadStartsNothing ==
    ASSUME RequestNumbered, pc'["speak"] = pc["speak"], speakCounter' = speakCounter
    PROVE  StartsNothing
BY DEF StartsNothing, RequestNumbered, NotStarted

\* Going to a place other than "sendCancel" neither begins nor sends.
LEMMA GoingIsNoCancel ==
    ASSUME TypeInv, NEW t \in Threads, NEW place, Goto(t, place), place # "sendCancel",
           asked' = asked, \A s \in Threads \ {t} : cancelId'[s] = cancelId[s]
    PROVE  NoCancel
BY DEF NoCancel, Goto, TypeInv, TypeOK

\* BeginCancellationAction lets only a speaking request be cancelled.
LEMMA BeginsOnlyWhenSpeaking ==
    ASSUME TypeInv, BeginCancellationAction(ctx) = "TransitionToCancelling"
    PROVE  ctx.downstreamState = "Speaking"
BY DEF BeginCancellationAction, IsDrainingCancellation, TypeInv, TypeOK, Context, DownstreamState

\* SendCancellation, by whichever thread.
LEMMA SendingStep ==
    ASSUME TypeInv, NEW t \in Threads, NEW next \in Place \ {"sendCancel"},
           SendsCancel(t, next) \/ CancelSendFails(t, next)
    PROVE  CancelStep
<1>1. CASE SendsCancel(t, next)
  BY <1>1 DEF SendsCancel, At, Goto, localVars, CancelStep, Sends
<1>2. CASE CancelSendFails(t, next)
  BY <1>2, GoingIsNoCancel DEF CancelSendFails, localVars, CancelStep
<1> QED
  BY <1>1, <1>2

\* EnterFaultedState.
LEMMA FaultIsNoCancel ==
    ASSUME TypeInv, NEW t \in Threads, EnterFaultedState(t)
    PROVE  NoCancel /\ pc'["speak"] = pc["speak"]
<1>1. CASE FaultsRequest(t) \/ PublishesFault(t)
  BY <1>1 DEF FaultsRequest, PublishesFault, localVars, historyVars, NoCancel
<1>2. CASE CancelsIo(t)
  <2>1. PICK hit \in PendingReads :
            pc' = [u \in Threads |-> IF u \in hit THEN "failed" ELSE pc[u]]
    BY <1>2 DEF CancelsIo
  <2>2. "speak" \in Threads /\ "speak" \notin hit
    BY DEF PendingReads, Readers, Threads, Callers
  <2> QED
    BY <1>2, <2>1, <2>2 DEF CancelsIo, localVars, historyVars, NoCancel
<1> QED
  BY <1>1, <1>2 DEF EnterFaultedState

\* The audio thread.
LEMMA AudioCancelStep ==
    ASSUME TypeInv, AudioThread
    PROVE  CancelStep /\ pc'["speak"] = pc["speak"]
<1> USE DEF localVars, historyVars
<1>1. "audio" \in Threads /\ "speak" \in Threads /\ pc \in [Threads -> Place]
  BY DEF Threads, Readers, Callers, TypeInv, TypeOK
<1>2. CASE UpdatesAfterDelivery
  <2>1. CASE Goto("audio", "read") /\ UNCHANGED cancelId
    BY <1>1, <1>2, <2>1, GoingIsNoCancel DEF UpdatesAfterDelivery, CancelStep, Goto
  <2>2. CASE /\ BeginCancellationAction(ctx) = "TransitionToCancelling"
             /\ cancelId' = [cancelId EXCEPT !["audio"] = ctx.speakId]
             /\ Goto("audio", "sendCancel")
             /\ ctx'.downstreamState = "Cancelling"
    <3>1. Begins("audio")
      BY <1>2, <2>2, BeginsOnlyWhenSpeaking DEF UpdatesAfterDelivery, Begins, Goto
    <3> QED
      BY <1>1, <2>2, <3>1 DEF CancelStep, Goto
  <2>3. \A c \in Context : TransitionToCancelling(c).downstreamState = "Cancelling"
    BY DEF TransitionToCancelling, Context
  <2>4. [ctx EXCEPT !.deliveredAudioBytes = @ + batch.credited] \in Context
    BY ContextOperators DEF TypeInv, TypeOK, Batch
  <2> QED
    BY <1>2, <2>1, <2>2, <2>3, <2>4 DEF UpdatesAfterDelivery
<1>3. CASE AudioSendsCancel
  <2>1. "read" \in Place \ {"sendCancel"}
    BY DEF Place
  <2>2. CancelStep
    BY <1>1, <1>3, <2>1, SendingStep DEF AudioSendsCancel
  <2> QED
    BY <1>1, <1>3, <2>2 DEF AudioSendsCancel, SendsCancel, CancelSendFails, Goto
<1>4. CASE EnterFaultedState("audio")
  BY <1>1, <1>4, FaultIsNoCancel DEF CancelStep
<1>5. CASE \/ ReadBreaks("audio") \/ ReadFailed("audio") \/ LeavesLoop("audio")
           \/ AssemblesSpeakingAudio \/ AssemblyThrows \/ DrainsCancellationAudio
           \/ FaultsOnIdleAudio \/ DrainsFaultedAudio \/ AdmitsSpan \/ CapturesSite
           \/ SiteAcceptsSpan \/ SiteRejectsSpan
  <2>1. /\ asked' = asked /\ cancelId' = cancelId
        /\ \/ pc' = pc
           \/ \E place \in {"failed", "exit", "read", "deliver", "write", "update", "writing"} :
                 Goto("audio", place)
    BY <1>5 DEF ReadBreaks, ReadFailed, LeavesLoop, AssemblesSpeakingAudio, AssemblyThrows,
                DrainsCancellationAudio, FaultsOnIdleAudio, DrainsFaultedAudio, AdmitsSpan,
                CapturesSite, SiteAcceptsSpan, SiteRejectsSpan
  <2>2. CASE pc' = pc
    BY <2>1, <2>2 DEF CancelStep, NoCancel
  <2> QED
    BY <1>1, <2>1, <2>2, GoingIsNoCancel DEF CancelStep, Goto
<1> QED
  BY <1>2, <1>3, <1>4, <1>5 DEF AudioThread

\* The control thread.
LEMMA ControlCancelStep ==
    ASSUME TypeInv, ControlThread
    PROVE  CancelStep /\ pc'["speak"] = pc["speak"]
<1> USE DEF localVars, historyVars
<1>1. "control" \in Threads /\ "speak" \in Threads /\ pc \in [Threads -> Place]
  BY DEF Threads, Readers, Callers, TypeInv, TypeOK
<1>2. CASE EnterFaultedState("control")
  BY <1>1, <1>2, FaultIsNoCancel DEF CancelStep
<1>3. CASE \/ ReadBreaks("control") \/ ReadFailed("control") \/ LeavesLoop("control")
           \/ ReadsMalformedLine \/ ReadsOrphanEvent \/ HandlesEvent \/ AdmitsEvent
           \/ CapturesEventSite \/ NotifiesSite
  <2>1. /\ asked' = asked /\ cancelId' = cancelId
        /\ \/ pc' = pc
           \/ \E place \in {"failed", "exit", "read", "forward", "callback", "notify"} :
                 Goto("control", place)
    BY <1>3 DEF ReadBreaks, ReadFailed, LeavesLoop, ReadsMalformedLine, ReadsOrphanEvent,
                HandlesEvent, AdmitsEvent, CapturesEventSite, NotifiesSite, Dispatched
  <2>2. CASE pc' = pc
    BY <2>1, <2>2 DEF CancelStep, NoCancel
  <2> QED
    BY <1>1, <2>1, <2>2, GoingIsNoCancel DEF CancelStep, Goto
<1> QED
  BY <1>2, <1>3 DEF ControlThread

\* A caller of the worker that begins a cancellation.
LEMMA CallerBegins ==
    ASSUME TypeInv, NEW t \in Threads, BeginsCancellation(t), Goto(t, "sendCancel"),
           BeginCancellationAction(ctx) = "TransitionToCancelling", asked' = asked
    PROVE  CancelStep
<1>1. ctx'.downstreamState = "Cancelling"
  BY DEF BeginsCancellation, TransitionToCancelling, TypeInv, TypeOK, Context
<1>2. Begins(t)
  BY <1>1, BeginsOnlyWhenSpeaking DEF BeginsCancellation, Goto, Begins
<1> QED
  BY <1>2 DEF CancelStep

\* A direct caller.
LEMMA DirectCancelStep ==
    ASSUME TypeInv, DirectCaller
    PROVE  CancelStep /\ pc'["speak"] = pc["speak"]
<1> USE DEF localVars, historyVars
<1>1. "purge" \in Threads /\ "speak" \in Threads /\ pc \in [Threads -> Place]
  BY DEF Threads, Callers, TypeInv, TypeOK
<1>2. CASE DrainsDirectly
  BY <1>1, <1>2, CallerBegins DEF DrainsDirectly, Goto
<1>3. CASE Stops
  <2>1. /\ asked' = asked /\ Goto("purge", "sendStop")
        /\ \A s \in Threads \ {"purge"} : cancelId'[s] = cancelId[s]
    BY <1>3 DEF Stops, TypeInv, TypeOK
  <2> QED
    BY <1>1, <2>1, GoingIsNoCancel DEF CancelStep, Goto
<1>4. CASE StopSends \/ DirectDrainEnds
  <2>1. asked' = asked /\ cancelId' = cancelId /\ Goto("purge", "done")
    BY <1>4 DEF StopSends, DirectDrainEnds
  <2> QED
    BY <1>1, <2>1, GoingIsNoCancel DEF CancelStep, Goto
<1>5. CASE SendsCancel("purge", "drain") \/ CancelSendFails("purge", "done")
  <2>1. {"drain", "done"} \subseteq Place \ {"sendCancel"}
    BY DEF Place
  <2>2. CancelStep
    BY <1>1, <1>5, <2>1, SendingStep
  <2> QED
    BY <1>1, <1>5, <2>2 DEF SendsCancel, CancelSendFails, Goto
<1>6. CASE EnterFaultedState("purge")
  BY <1>1, <1>6, FaultIsNoCancel DEF CancelStep
<1> QED
  BY <1>2, <1>3, <1>4, <1>5, <1>6 DEF DirectCaller

\* Speak and the destructor, but for the region that starts a request.
LEMMA SpeakCancelStep ==
    ASSUME TypeInv, SpeakThread
    PROVE  CancelStep
<1> USE DEF localVars, historyVars
<1>1. "speak" \in Threads /\ pc \in [Threads -> Place]
  BY DEF Threads, Callers, TypeInv, TypeOK
<1>2. CASE ObservesAbort
  BY <1>1, <1>2, CallerBegins DEF ObservesAbort
<1>3. CASE SpeakCancels
  <2>1. {"drain", "cleanup"} \subseteq Place \ {"sendCancel"}
    BY DEF Place
  <2> QED
    BY <1>1, <1>3, <2>1, SendingStep DEF SpeakCancels
<1>4. CASE EnterFaultedState("speak")
  BY <1>1, <1>4, FaultIsNoCancel DEF CancelStep
<1>5. CASE SetsObjectToken \/ RecreatesSession
  <2>1. asked' = asked /\ cancelId' = cancelId
    BY <1>5 DEF SetsObjectToken, RecreatesSession, CreatesSession
  <2>2. \/ pc' = pc
        \/ \E place \in {"idle", "start"} :
              pc' = [pc EXCEPT !["speak"] = place, !["audio"] = "read", !["control"] = "read"]
    BY <1>5 DEF SetsObjectToken, RecreatesSession, CreatesSession
  <2> QED
    BY <1>1, <2>1, <2>2 DEF CancelStep, NoCancel
<1>6. CASE BeginsRetirement \/ BeginsDestruction
  <2>1. asked' = asked /\ cancelId' = cancelId
    BY <1>6 DEF BeginsRetirement, BeginsDestruction
  <2>2. \A t \in Threads : pc'[t] = pc[t] \/ pc'[t] \in {"retire", "destroy", "done", "failed"}
    BY <1>6 DEF BeginsRetirement, BeginsDestruction
  <2> QED
    BY <2>1, <2>2 DEF CancelStep, NoCancel
<1>7. CASE \/ SpeakBegins \/ FindsSessionActive \/ Retires \/ HasNoSession \/ Starts
           \/ StartRefused \/ SendsSpeak \/ SpeakSendFails \/ WaitEnds \/ WaitTimesOut
           \/ DrainEnds \/ DrainTimesOut \/ SpeakReturns \/ Destroys
  <2>1. asked' = asked /\ cancelId' = cancelId
    BY <1>7 DEF SpeakBegins, FindsSessionActive, Retires, HasNoSession, Starts, StartRefused,
                SendsSpeak, SpeakSendFails, WaitEnds, WaitTimesOut, DrainEnds, DrainTimesOut,
                SpeakReturns, Destroys
  <2>2. \E place \in {"session", "start", "send", "wait", "cleanup", "idle", "gone"} :
            Goto("speak", place)
    BY <1>7 DEF SpeakBegins, FindsSessionActive, Retires, HasNoSession, Starts, StartRefused,
                SendsSpeak, SpeakSendFails, WaitEnds, WaitTimesOut, DrainEnds, DrainTimesOut,
                SpeakReturns, Destroys, Returns
  <2> QED
    BY <1>1, <2>1, <2>2, GoingIsNoCancel DEF CancelStep
<1> QED
  BY <1>2, <1>3, <1>4, <1>5, <1>6, <1>7 DEF SpeakThread

\* Speak takes a number once, and leaves the places before its start for good.
LEMMA SpeakStartsNothing ==
    ASSUME TypeInv, RequestNumbered, SpeakThread
    PROVE  StartsNothing
<1>1. "speak" \in Threads /\ pc \in [Threads -> Place] /\ speakCounter \in 0 .. MaxSpeaks
  BY DEF Threads, Callers, TypeInv, TypeOK
<1>2. CASE SpeakBegins
  <2>1. pc["speak"] = "idle" /\ pc'["speak"] = "session"
    BY <1>1, <1>2 DEF SpeakBegins, At, Goto
  <2>2. speakCounter' = speakCounter + 1 /\ speakCounter' \in Ids
    BY <1>1, <1>2, ProviderAssumption DEF SpeakBegins, Ids
  <2> QED
    BY <1>1, <2>1, <2>2 DEF StartsNothing, NotStarted, RequestNumbered, BeforeStart, Ids
<1>3. CASE EnterFaultedState("speak") /\ UNCHANGED engineVars
  BY <1>1, <1>3, FaultIsNoCancel, OtherThreadStartsNothing DEF engineVars
<1>4. CASE \/ FindsSessionActive \/ BeginsRetirement \/ Retires \/ RecreatesSession
  <2>1. pc["speak"] \in BeforeStart /\ speakCounter' = speakCounter
    BY <1>4 DEF FindsSessionActive, BeginsRetirement, Retires, RecreatesSession, CreatesSession,
                At, BeforeStart, engineVars
  <2> QED
    BY <2>1 DEF StartsNothing, NotStarted, RequestNumbered
<1>5. CASE \/ SetsObjectToken \/ HasNoSession \/ Starts \/ StartRefused \/ SendsSpeak
           \/ SpeakSendFails \/ WaitEnds \/ WaitTimesOut \/ ObservesAbort \/ SpeakCancels
           \/ DrainEnds \/ DrainTimesOut \/ SpeakReturns \/ BeginsDestruction \/ Destroys
  <2>1. speakCounter' = speakCounter
    BY <1>5 DEF SetsObjectToken, CreatesSession, HasNoSession, Starts, StartRefused, SendsSpeak,
                SpeakSendFails, WaitEnds, WaitTimesOut, ObservesAbort, SpeakCancels, DrainEnds,
                DrainTimesOut, SpeakReturns, BeginsDestruction, Destroys, engineVars
  <2>2. pc'["speak"] \notin BeforeStart
    BY <1>1, <1>5 DEF SetsObjectToken, CreatesSession, HasNoSession, Starts, StartRefused,
                SendsSpeak, SpeakSendFails, WaitEnds, WaitTimesOut, ObservesAbort, SpeakCancels,
                SendsCancel, CancelSendFails, DrainEnds, DrainTimesOut, SpeakReturns,
                BeginsDestruction, Destroys, Returns, Goto, At, BeforeStart
  <2> QED
    BY <1>1, <2>1, <2>2 DEF StartsNothing, NotStarted, RequestNumbered
<1> QED
  BY <1>2, <1>3, <1>4, <1>5 DEF SpeakThread
-----------------------------------------------------------------------------
(* One cancel.                                                             *)

\* Every step of the system is one of the cancellation.
LEMMA EveryCancelStep ==
    ASSUME TypeInv, RequestNumbered, [Next]_vars
    PROVE  CancelStep /\ StartsNothing
<1>1. CASE (AudioThread \/ ControlThread) /\ UNCHANGED engineVars
  BY <1>1, AudioCancelStep, ControlCancelStep, OtherThreadStartsNothing DEF engineVars
<1>2. CASE SpeakThread
  BY <1>2, SpeakCancelStep, SpeakStartsNothing
<1>3. CASE DirectCaller
  <2>1. speakCounter' = speakCounter
    BY <1>3 DEF DirectCaller, DrainsDirectly, Stops, StopSends, DirectDrainEnds, engineVars
  <2> QED
    BY <1>3, <2>1, DirectCancelStep, OtherThreadStartsNothing
<1>4. CASE \/ (InactivityElapses \/ DeadlinePasses) /\ UNCHANGED engineVars
           \/ UNCHANGED <<workerVars, engineVars>> \/ UNCHANGED vars
  <2>1. /\ pc' = pc /\ asked' = asked /\ cancelId' = cancelId
        /\ speakCounter' = speakCounter
    BY <1>4 DEF InactivityElapses, DeadlinePasses, workerVars, engineVars, vars, localVars,
                historyVars
  <2> QED
    BY <2>1, OtherThreadStartsNothing DEF CancelStep, NoCancel
<1> QED
  BY <1>1, <1>2, <1>3, <1>4 DEF Next, Terminated

\* Every step but the start of a request keeps the request or drops it.
LEMMA EveryStepKeepsRequest ==
    ASSUME TypeInv, LifecycleMatrix, [Next]_vars, ~Starts
    PROVE  KeepsRequest
<1>1. CASE SetsObjectToken \/ RecreatesSession
  <2>1. ctx' = FreshContext \/ ctx' = ctx
    BY <1>1 DEF SetsObjectToken, RecreatesSession, CreatesSession, requestVars
  <2> QED
    BY <2>1 DEF KeepsRequest, FreshContext
<1>2. CASE ~(SetsObjectToken \/ RecreatesSession)
  <2>1. RequestStep(ctx, ctx')
    BY <1>2, EveryOtherStep
  <2> QED
    BY <2>1 DEF KeepsRequest, RequestStep, Stays, Becomes, Cancelled, Drained, Declared,
                ErrorLogged, Stopped
<1> QED
  BY <1>1, <1>2

\* A step that starts nothing keeps the invariant.
LEMMA CancelInvKept ==
    ASSUME TypeInv, TypeInv', CancelInv, CancelStep, StartsNothing, KeepsRequest
    PROVE  CancelInv'
<1> USE DEF CancelPending, Unbegun, OneCancel, StartsNothing
<1>1. /\ pc \in [Threads -> Place] /\ cancelId \in [Threads -> 0 .. MaxSpeaks]
      /\ asked \in [Ids -> Nat] /\ 0 \notin Ids
  BY DEF TypeInv, TypeOK, Ids
<1>2. CASE NoCancel
  <2>1. \A t \in Threads, r \in Ids : CancelPending(t, r)' => CancelPending(t, r)
    BY <1>2 DEF NoCancel
  <2>2. asked' = asked
    BY <1>2 DEF NoCancel
  <2>3. \A r \in Ids : Unbegun(r) => Unbegun(r)'
    BY <2>1, <2>2
  <2>4. \A r \in Ids : NotStarted(r)' => Unbegun(r)' /\ ctx'.speakId # r
    BY <1>1, <2>3 DEF CancelInv, KeepsRequest
  <2>5. ctx'.downstreamState = "Speaking" => ctx'.speakId \in Ids /\ Unbegun(ctx.speakId)'
    BY <2>3 DEF CancelInv, KeepsRequest
  <2> QED
    BY <2>1, <2>2, <2>4, <2>5 DEF CancelInv
<1>3. ASSUME NEW t \in Threads, Begins(t) PROVE CancelInv'
  <2> DEFINE r0 == ctx.speakId
  <2>1. /\ r0 \in Ids /\ Unbegun(r0) /\ ~NotStarted(r0)
        /\ asked' = asked /\ ctx'.downstreamState # "Speaking"
    BY <1>3 DEF Begins, CancelInv
  <2>2. /\ pc'[t] = "sendCancel" /\ cancelId'[t] = r0
        /\ \A s \in Threads \ {t} : pc'[s] = pc[s] /\ cancelId'[s] = cancelId[s]
    BY <1>1, <1>3 DEF Begins
  <2>3. \A s \in Threads, r \in Ids :
            CancelPending(s, r)' <=> IF s = t THEN r = r0 ELSE CancelPending(s, r)
    BY <2>2
  <2>4. \A r \in Ids : NotStarted(r)' => Unbegun(r)' /\ ctx'.speakId # r
    BY <1>1, <2>1, <2>3 DEF CancelInv, KeepsRequest
  <2> QED
    BY <2>1, <2>3, <2>4 DEF CancelInv
<1>4. ASSUME NEW t \in Threads, Sends(t) PROVE CancelInv'
  <2> DEFINE r0 == cancelId[t]
  <2>1. /\ pc[t] = "sendCancel" /\ pc'[t] # "sendCancel"
        /\ \A s \in Threads \ {t} : pc'[s] = pc[s]
        /\ cancelId' = cancelId
    BY <1>1, <1>4 DEF Sends
  <2>2. \A s \in Threads, r \in Ids : CancelPending(s, r)' <=> s # t /\ CancelPending(s, r)
    BY <2>1
  <2>3. \A r \in Ids : asked'[r] = IF r = r0 THEN asked[r] + 1 ELSE asked[r]
    BY <1>1, <1>4 DEF Sends
  <2>4. \A r \in Ids : r = r0 => asked[r] = 0 /\ ~Unbegun(r)
    BY <2>1 DEF CancelInv
  <2>5. \A r \in Ids : Unbegun(r) => Unbegun(r)'
    BY <2>2, <2>3, <2>4
  <2>6. \A s \in Threads, r \in Ids : CancelPending(s, r)' => asked'[r] = 0
    <3> SUFFICES ASSUME NEW s \in Threads, NEW r \in Ids, CancelPending(s, r)'
                 PROVE  asked'[r] = 0
      OBVIOUS
    <3>1. s # t /\ CancelPending(s, r)
      BY <2>2
    <3>2. r # r0
      BY <2>1, <3>1 DEF CancelInv
    <3> QED
      BY <2>3, <3>1, <3>2 DEF CancelInv
  <2>7. \A r \in Ids : NotStarted(r)' => Unbegun(r)' /\ ctx'.speakId # r
    BY <1>1, <2>5 DEF CancelInv, KeepsRequest
  <2>8. ctx'.downstreamState = "Speaking" => ctx'.speakId \in Ids /\ Unbegun(ctx.speakId)'
    BY <2>5 DEF CancelInv, KeepsRequest
  <2>9. \A r \in Ids : asked'[r] <= 1
    BY <1>1, <2>3, <2>4 DEF CancelInv
  <2> QED
    BY <2>2, <2>6, <2>7, <2>8, <2>9 DEF CancelInv
<1> QED
  BY <1>2, <1>3, <1>4 DEF CancelStep

\* Start gives the context a request that was never cancelled.
LEMMA StartKeepsCancelInv ==
    ASSUME TypeInv, TypeInv', CancelInv, Starts
    PROVE  CancelInv'
<1>1. /\ "speak" \in Threads /\ pc \in [Threads -> Place] /\ speakCounter \in 0 .. MaxSpeaks
      /\ ctx \in Context
  BY DEF Threads, Callers, TypeInv, TypeOK
<1>2. /\ pc["speak"] = "start" /\ pc'["speak"] = "send"
      /\ \A t \in Threads \ {"speak"} : pc'[t] = pc[t]
  BY <1>1 DEF Starts, At, Goto
<1>3. asked' = asked /\ cancelId' = cancelId /\ speakCounter' = speakCounter
  BY DEF Starts, localVars, historyVars, engineVars
<1>4. ctx'.speakId = speakCounter
  BY <1>1, ContextOperators DEF Starts, Context, speakId
<1>5. speakCounter \in Ids /\ Unbegun(speakCounter)
  BY <1>1, <1>2 DEF CancelInv, RequestNumbered, BeforeStart, NotStarted
<1>6. \A t \in Threads, r \in Ids : CancelPending(t, r)' <=> CancelPending(t, r)
  BY <1>2, <1>3 DEF CancelPending
<1>7. \A r \in Ids : Unbegun(r) => Unbegun(r)'
  BY <1>3, <1>6 DEF Unbegun
<1>8. \A r \in Ids : NotStarted(r)' => NotStarted(r) /\ r # speakCounter
  BY <1>1, <1>2, <1>3 DEF NotStarted, BeforeStart, Ids
<1> QED
  BY <1>2, <1>3, <1>4, <1>5, <1>6, <1>7, <1>8
  DEF CancelInv, RequestNumbered, BeforeStart, OneCancel

\* A session and an engine that did nothing yet.
LEMMA CancelInvInit == Init => CancelInv
<1> SUFFICES ASSUME Init PROVE CancelInv
  OBVIOUS
<1>1. /\ \A t \in Threads : pc[t] \in {"idle", "ready", "exit"}
      /\ "speak" \in Threads /\ pc["speak"] = "idle"
      /\ \A r \in Ids : asked[r] = 0
      /\ ctx.speakId = 0 /\ ctx.downstreamState = "Idle"
  BY DEF Init, Threads, Callers, FreshContext
<1> QED
  BY <1>1 DEF CancelInv, RequestNumbered, BeforeStart, OneCancel, Unbegun, CancelPending, Ids

\* The strengthened invariant holds in every behaviour of the code.
LEMMA CancelInvHolds == Spec => []CancelInv
<1>1. TypeInv /\ TypeInv' /\ LifecycleMatrix /\ CancelInv /\ [Next]_vars => CancelInv'
  BY EveryCancelStep, EveryStepKeepsRequest, CancelInvKept, StartKeepsCancelInv DEF CancelInv
<1> QED
  BY <1>1, CancelInvInit, TypeCorrect, LifecycleMatrixHolds, PTL DEF Spec

\* However Speak, the audio thread and a direct caller race to cancel a request,
\* and whatever Stop resets in between, its cancel goes to the provider at most
\* once: for any number of requests and any environment.
THEOREM OneCancelHolds == Spec => []OneCancel
<1>1. CancelInv => OneCancel
  BY DEF CancelInv
<1> QED
  BY <1>1, CancelInvHolds, PTL
-----------------------------------------------------------------------------
(* The generation of a request.                                            *)

\* A request keeps the generation it was started with.
LEMMA BoundaryKeepsGeneration ==
    ASSUME NEW c \in Context, NEW k
    PROVE  CheckTerminalBoundary(c, k).ctx.generation = c.generation
<1>1. \/ CheckTerminalBoundary(c, k).ctx = c
      \/ CheckTerminalBoundary(c, k).ctx = ResetToIdle(c)
  BY DEF CheckTerminalBoundary
<1>2. ResetToIdle(c).generation = c.generation
  BY DEF ResetToIdle, Context
<1> QED
  BY <1>1, <1>2

\* So does the handling of a control event.
LEMMA EventKeepsGeneration ==
    ASSUME TypeInv, NEW event \in Event
    PROVE  HandleParsedControlEvent(event).ctx.generation = ctx.generation
<1>1. ctx \in Context /\ event.bytes \in Nat
  BY DEF TypeInv, TypeOK, Event
<1> DEFINE kind == IF event.type = "complete" THEN "Completed" ELSE "Cancelled"
           terminal == [ctx EXCEPT !.upstreamTerminalBytes = event.bytes,
                                   !.upstreamFinished = TRUE, !.upstreamState = kind]
           failed == [ctx EXCEPT !.upstreamState = "Failed", !.upstreamFinished = TRUE,
                                 !.completionHr = "E_FAIL",
                                 !.upstreamTerminalBytes = ctx.rawAudioBytesRead]
<1>2. terminal \in Context /\ terminal.generation = ctx.generation
  <2>1. kind \in UpstreamState
    BY DEF UpstreamState
  <2> HIDE DEF kind
  <2> QED
    BY <1>1, <2>1 DEF Context
<1>3. failed \in Context /\ failed.generation = ctx.generation
  BY <1>1 DEF Context, UpstreamState, HResult
<1>4. TransitionRequestToFaulted(ctx).generation = ctx.generation
  BY <1>1 DEF TransitionRequestToFaulted, Context
<1>5. \/ HandleParsedControlEvent(event).ctx = CheckTerminalBoundary(terminal, carry).ctx
      \/ HandleParsedControlEvent(event).ctx = CheckTerminalBoundary(failed, carry).ctx
      \/ HandleParsedControlEvent(event).ctx = TransitionRequestToFaulted(ctx)
      \/ HandleParsedControlEvent(event).ctx = ctx
  BY DEF HandleParsedControlEvent, HandleTerminalEvent, HandleErrorLog
<1> HIDE DEF terminal, failed
<1> QED
  BY <1>2, <1>3, <1>4, <1>5, BoundaryKeepsGeneration

\* Setting the pending fault at the end of a region.
LEMMA PublishKeepsGeneration ==
    ASSUME NEW r, r.ctx \in Context, Publish(r)
    PROVE  ctx'.generation = r.ctx.generation
BY DEF Publish, Context

\* Every step but a start or a new session keeps the generation.
LEMMA EveryStepKeepsGeneration ==
    ASSUME TypeInv, [Next]_vars, ~(SetsObjectToken \/ RecreatesSession \/ Starts)
    PROVE  ctx'.generation = ctx.generation
<1> USE DEF requestVars
<1>1. ctx \in Context /\ carry \in Span /\ Len(carry) < BlockAlign
  BY DEF TypeInv, TypeOK, PartialFrame
<1>2. \A data : Counted(data) \in Context => Counted(data).generation = ctx.generation
  BY <1>1 DEF Counted, Context
<1>3. CASE \E t \in Threads : EnterFaultedState(t)
  BY <1>1, <1>3, ZenonT(30) DEF EnterFaultedState, FaultsRequest, PublishesFault, CancelsIo,
                    TransitionRequestToFaulted, Context
<1>4. CASE HandlesEvent
  <2> DEFINE event == Head(events)
             r == HandleParsedControlEvent(event)
  <2>1. event \in Event /\ Publish(r)
    BY <1>4, HeadTailProperties DEF HandlesEvent, NextEvent, TypeInv, TypeOK
  <2>2. r.ctx \in Context /\ r.ctx.generation = ctx.generation
    BY <2>1, HandleParsedControlEventType, EventKeepsGeneration
  <2> HIDE DEF r
  <2> QED
    BY <2>1, <2>2, PublishKeepsGeneration
<1>5. CASE ReadsOrphanEvent \/ FaultsOnIdleAudio
  BY <1>1, <1>5 DEF ReadsOrphanEvent, FaultsOnIdleAudio, Publish, Context
<1>6. CASE AssemblesSpeakingAudio
  <2>1. PICK data \in Chunks : AssemblesSpeakingAudio!(data)
    BY <1>6 DEF AssemblesSpeakingAudio
  <2> DEFINE framed == Process(carry, SubSeq(data, 1, BytesToFrame(ctx, Len(data))))
             r == CheckTerminalBoundary(Counted(data), framed.carry)
  <2>2. Counted(data) \in Context /\ data \in Span
    BY <2>1, ReadsType
  <2>3. Publish(r) \/ ctx' = Counted(data)
    BY <2>1
  <2>4. framed.carry \in Span /\ Len(framed.carry) < BlockAlign
    BY <2>2, FramedType
  <2> HIDE DEF framed
  <2>5. r.ctx \in Context /\ r.ctx.generation = ctx.generation
    BY <1>2, <2>2, <2>4, CheckTerminalBoundaryType, BoundaryKeepsGeneration
  <2> HIDE DEF r
  <2> QED
    BY <1>2, <2>2, <2>3, <2>5, PublishKeepsGeneration
<1>7. CASE AssemblyThrows
  BY <1>2, <1>7, ReadsType DEF AssemblyThrows
<1>8. CASE DrainsCancellationAudio
  <2>1. PICK data \in Chunks : DrainsCancellationAudio!(data)
    BY <1>8 DEF DrainsCancellationAudio
  <2> DEFINE r == CheckTerminalBoundary(Counted(data), carry)
  <2>2. Counted(data) \in Context /\ Publish(r)
    BY <2>1, ReadsType
  <2>3. r.ctx \in Context /\ r.ctx.generation = ctx.generation
    BY <1>1, <1>2, <2>2, CheckTerminalBoundaryType, BoundaryKeepsGeneration
  <2> HIDE DEF r
  <2> QED
    BY <2>2, <2>3, PublishKeepsGeneration
<1>9. CASE UpdatesAfterDelivery
  <2> DEFINE action == BatchAction(ctx, batch.token, ~batch.accepted)
             credited == [ctx EXCEPT !.deliveredAudioBytes = @ + batch.credited]
             c == IF action = "CreditAndCheckBoundary" THEN credited ELSE ctx
             r == CheckTerminalBoundary(c, carry)
  <2>1. credited \in Context /\ credited.generation = ctx.generation
    BY <1>1, ContextOperators DEF TypeInv, TypeOK, Batch, Context
  <2>2. ctx' = ctx \/ Publish(r) \/ ctx' = TransitionToCancelling(credited)
    BY <1>9 DEF UpdatesAfterDelivery
  <2>3. c \in Context /\ c.generation = ctx.generation
    BY <1>1, <2>1
  <2> HIDE DEF c, credited
  <2>4. r.ctx \in Context /\ r.ctx.generation = ctx.generation
    BY <1>1, <2>3, CheckTerminalBoundaryType, BoundaryKeepsGeneration
  <2>5. TransitionToCancelling(credited).generation = ctx.generation
    BY <2>1 DEF TransitionToCancelling, Context
  <2> HIDE DEF r
  <2> QED
    BY <2>2, <2>4, <2>5, PublishKeepsGeneration
<1>10. CASE ObservesAbort \/ DrainsDirectly
  BY <1>1, <1>10 DEF ObservesAbort, DrainsDirectly, BeginsCancellation, TransitionToCancelling,
                     Context
<1>11. CASE Stops
  BY <1>1, <1>11 DEF Stops, ResetToIdle, Context
<1>12. CASE \/ ReadBreaks("audio") \/ ReadFailed("audio") \/ LeavesLoop("audio")
            \/ DrainsFaultedAudio \/ AdmitsSpan \/ CapturesSite \/ SiteAcceptsSpan
            \/ SiteRejectsSpan \/ AudioSendsCancel
  BY <1>12 DEF ReadBreaks, ReadFailed, LeavesLoop, DrainsFaultedAudio, AdmitsSpan, CapturesSite,
               SiteAcceptsSpan, SiteRejectsSpan, AudioSendsCancel, SendsCancel, CancelSendFails
<1>13. CASE \/ ReadBreaks("control") \/ ReadFailed("control") \/ LeavesLoop("control")
            \/ ReadsMalformedLine \/ AdmitsEvent \/ CapturesEventSite \/ NotifiesSite
  BY <1>13 DEF ReadBreaks, ReadFailed, LeavesLoop, ReadsMalformedLine, AdmitsEvent,
               CapturesEventSite, NotifiesSite
<1>14. CASE \/ SpeakBegins \/ FindsSessionActive \/ BeginsRetirement \/ Retires
            \/ HasNoSession \/ StartRefused \/ SendsSpeak \/ SpeakSendFails
            \/ WaitEnds \/ WaitTimesOut \/ SpeakCancels \/ DrainEnds \/ DrainTimesOut
            \/ SpeakReturns \/ BeginsDestruction \/ Destroys
  BY <1>14 DEF SpeakBegins, FindsSessionActive, BeginsRetirement, Retires, HasNoSession,
               StartRefused, SendsSpeak, SpeakSendFails, WaitEnds, WaitTimesOut, SpeakCancels,
               SendsCancel, CancelSendFails, DrainEnds, DrainTimesOut, SpeakReturns,
               BeginsDestruction, Destroys
<1>15. CASE \/ StopSends \/ DirectDrainEnds \/ SendsCancel("purge", "drain")
            \/ CancelSendFails("purge", "done")
  BY <1>15 DEF StopSends, DirectDrainEnds, SendsCancel, CancelSendFails
<1>16. CASE InactivityElapses \/ DeadlinePasses \/ UNCHANGED workerVars \/ UNCHANGED vars
  BY <1>16 DEF InactivityElapses, DeadlinePasses, workerVars, vars
<1>17. {"audio", "control", "speak", "purge"} \subseteq Threads
  BY DEF Threads, Readers, Callers
<1>18. AudioThread => ctx'.generation = ctx.generation
  BY <1>3, <1>5, <1>6, <1>7, <1>8, <1>9, <1>12, <1>17 DEF AudioThread
<1>19. ControlThread => ctx'.generation = ctx.generation
  BY <1>3, <1>4, <1>5, <1>13, <1>17 DEF ControlThread
<1>20. SpeakThread => ctx'.generation = ctx.generation
  BY <1>3, <1>10, <1>14, <1>17 DEF SpeakThread
<1>21. DirectCaller => ctx'.generation = ctx.generation
  BY <1>3, <1>10, <1>11, <1>15, <1>17 DEF DirectCaller
<1> QED
  BY <1>16, <1>18, <1>19, <1>20, <1>21 DEF Next, Terminated
-----------------------------------------------------------------------------
(* One late span.                                                          *)

Delivering == pc["audio"] \in {"deliver", "write", "writing", "update"}

Writing == pc["audio"] \in {"write", "writing"}

\* A span is on its way to a site only for a request that had no late span yet,
\* and a request that speaks, or has yet to start, had none.
DeliveryInv ==
    /\ AtMostOneLateSpan
    /\ \A r \in Ids : NotStarted(r) => lateSpans[r] = 0
    /\ ctx.downstreamState = "Speaking" => lateSpans[ctx.speakId] = 0
    /\ Delivering =>
          /\ batch.token.speakId \in Ids
          /\ ~NotStarted(batch.token.speakId)
          /\ ctx.speakId = batch.token.speakId => ctx.generation = batch.token.generation
    /\ Writing => lateSpans[batch.token.speakId] = 0

NoDelivery ==
    /\ lateSpans' = lateSpans
    /\ Delivering' => Delivering /\ batch'.token = batch.token
    /\ Writing' => Writing

Batches ==
    /\ ctx.downstreamState = "Speaking"
    /\ batch'.token = Token(ctx)
    /\ lateSpans' = lateSpans
    /\ ~Writing'

Admits ==
    /\ Delivering
    /\ SpanAllowed(ctx, batch.token)
    /\ batch' = batch /\ lateSpans' = lateSpans

Accepts ==
    /\ Writing /\ ~Writing'
    /\ batch'.token = batch.token
    /\ ctx' = ctx
    /\ lateSpans' = IF ctx.downstreamState = "Speaking" /\ Token(ctx) = batch.token
                    THEN lateSpans
                    ELSE [lateSpans EXCEPT ![batch.token.speakId] = @ + 1]

DeliveryStep == NoDelivery \/ Batches \/ Admits \/ Accepts

\* What the other threads do to a delivery: nothing.
LEMMA ElsewhereIsNoDelivery ==
    ASSUME lateSpans' = lateSpans, batch' = batch,
           pc'["audio"] = pc["audio"] \/ pc'["audio"] \in {"read", "failed", "exit"}
    PROVE  DeliveryStep
BY DEF DeliveryStep, NoDelivery, Delivering, Writing

\* EnterFaultedState, also by the audio thread.
LEMMA FaultIsNoDelivery ==
    ASSUME TypeInv, NEW t \in Threads, EnterFaultedState(t)
    PROVE  DeliveryStep
<1>1. CASE FaultsRequest(t) \/ PublishesFault(t)
  BY <1>1, ElsewhereIsNoDelivery DEF FaultsRequest, PublishesFault, localVars, historyVars
<1>2. CASE CancelsIo(t)
  <2>1. "audio" \in Threads
    BY DEF Threads, Readers
  <2>2. pc'["audio"] \in {pc["audio"], "failed"}
    BY <1>2, <2>1 DEF CancelsIo
  <2> QED
    BY <1>2, <2>2, ElsewhereIsNoDelivery DEF CancelsIo, localVars, historyVars
<1> QED
  BY <1>1, <1>2 DEF EnterFaultedState

\* The audio thread.
LEMMA AudioDeliveryStep ==
    ASSUME TypeInv, AudioThread
    PROVE  DeliveryStep
<1> USE DEF localVars, historyVars, Delivering, Writing
<1>1. "audio" \in Threads /\ pc \in [Threads -> Place] /\ batch \in Batch
  BY DEF Threads, Readers, TypeInv, TypeOK
<1>2. CASE AssemblesSpeakingAudio
  <2>1. PICK data \in Chunks : AssemblesSpeakingAudio!(data)
    BY <1>2 DEF AssemblesSpeakingAudio
  <2>2. ctx.downstreamState = "Speaking" /\ lateSpans' = lateSpans
    BY <2>1 DEF ChunkAction
  <2>3. \/ pc' = pc /\ batch' = batch
        \/ \E spans : batch' = [NoBatch EXCEPT !.token = Token(ctx), !.spans = spans]
                      /\ Goto("audio", "deliver")
    BY <2>1
  <2>4. CASE pc' = pc /\ batch' = batch
    BY <2>2, <2>4, ElsewhereIsNoDelivery
  <2>5. ASSUME NEW spans, Goto("audio", "deliver"),
               batch' = [NoBatch EXCEPT !.token = Token(ctx), !.spans = spans]
        PROVE  Batches
    <3>1. batch'.token = Token(ctx)
      BY <2>5 DEF NoBatch
    <3>2. pc'["audio"] = "deliver"
      BY <1>1, <2>5 DEF Goto
    <3> QED
      BY <2>2, <3>1, <3>2 DEF Batches
  <2> QED
    BY <2>3, <2>4, <2>5 DEF DeliveryStep
<1>3. CASE AdmitsSpan
  <2>1. pc["audio"] = "deliver" /\ batch' = batch /\ lateSpans' = lateSpans
    BY <1>3 DEF AdmitsSpan, At
  <2>2. CASE SpanAllowed(ctx, batch.token)
    BY <2>1, <2>2 DEF Admits, DeliveryStep
  <2>3. CASE ~SpanAllowed(ctx, batch.token)
    BY <1>1, <1>3, <2>1, <2>3 DEF AdmitsSpan, Goto, NoDelivery, DeliveryStep
  <2> QED
    BY <2>2, <2>3
<1>4. CASE CapturesSite \/ SiteRejectsSpan
  <2>1. pc["audio"] \in {"write", "writing"} /\ lateSpans' = lateSpans
    BY <1>4 DEF CapturesSite, SiteRejectsSpan, At
  <2>2. batch'.token = batch.token
    BY <1>1, <1>4 DEF CapturesSite, SiteRejectsSpan, Batch
  <2> QED
    BY <2>1, <2>2 DEF NoDelivery, DeliveryStep
<1>5. CASE SiteAcceptsSpan
  <2>1. pc["audio"] = "writing" /\ pc'["audio"] \in {"update", "deliver"}
    BY <1>1, <1>5 DEF SiteAcceptsSpan, At, Goto
  <2>2. batch'.token = batch.token /\ ctx' = ctx
    BY <1>1, <1>5 DEF SiteAcceptsSpan, Batch, requestVars
  <2> QED
    BY <1>5, <2>1, <2>2 DEF SiteAcceptsSpan, Accepts, DeliveryStep
<1>6. CASE UpdatesAfterDelivery
  <2>1. pc'["audio"] \in {"read", "sendCancel"} /\ lateSpans' = lateSpans
    BY <1>1, <1>6 DEF UpdatesAfterDelivery, Goto
  <2> QED
    BY <2>1 DEF NoDelivery, DeliveryStep
<1>7. CASE EnterFaultedState("audio")
  BY <1>1, <1>7, FaultIsNoDelivery
<1>8. CASE \/ ReadBreaks("audio") \/ ReadFailed("audio") \/ LeavesLoop("audio")
           \/ AssemblyThrows \/ DrainsCancellationAudio \/ FaultsOnIdleAudio
           \/ DrainsFaultedAudio \/ AudioSendsCancel
  <2>1. /\ lateSpans' = lateSpans /\ batch' = batch
        /\ pc' = pc \/ \E place \in {"read", "failed", "exit"} : Goto("audio", place)
    BY <1>8 DEF ReadBreaks, ReadFailed, LeavesLoop, AssemblyThrows, DrainsCancellationAudio,
                FaultsOnIdleAudio, DrainsFaultedAudio, AudioSendsCancel, SendsCancel,
                CancelSendFails
  <2>2. pc'["audio"] = pc["audio"] \/ pc'["audio"] \in {"read", "failed", "exit"}
    BY <1>1, <2>1 DEF Goto
  <2> QED
    BY <2>1, <2>2, ElsewhereIsNoDelivery
<1> QED
  BY <1>2, <1>3, <1>4, <1>5, <1>6, <1>7, <1>8 DEF AudioThread

\* Every other step.
LEMMA EveryDeliveryStep ==
    ASSUME TypeInv, [Next]_vars
    PROVE  DeliveryStep
<1> USE DEF localVars, historyVars
<1>1. /\ {"audio", "control", "speak", "purge"} \subseteq Threads
      /\ pc \in [Threads -> Place]
  BY DEF Threads, Readers, Callers, TypeInv, TypeOK
<1>2. CASE ControlThread /\ ~EnterFaultedState("control")
  <2>1. /\ lateSpans' = lateSpans /\ batch' = batch
        /\ pc' = pc \/ \E place : Goto("control", place)
    BY <1>2 DEF ControlThread, ReadBreaks, ReadFailed, LeavesLoop, ReadsMalformedLine,
                ReadsOrphanEvent, HandlesEvent, AdmitsEvent, CapturesEventSite, NotifiesSite,
                Dispatched
  <2> QED
    BY <1>1, <2>1, ElsewhereIsNoDelivery DEF Goto
<1>3. CASE SetsObjectToken \/ RecreatesSession
  <2>1. /\ lateSpans' = lateSpans /\ batch' = batch
        /\ pc' = pc \/ \E place : pc' = [pc EXCEPT !["speak"] = place, !["audio"] = "read",
                                                   !["control"] = "read"]
    BY <1>3 DEF SetsObjectToken, RecreatesSession, CreatesSession
  <2> QED
    BY <1>1, <2>1, ElsewhereIsNoDelivery
<1>4. CASE BeginsRetirement \/ BeginsDestruction
  <2>1. lateSpans' = lateSpans /\ batch' = batch /\ pc'["audio"] \in {pc["audio"], "failed"}
    BY <1>1, <1>4 DEF BeginsRetirement, BeginsDestruction
  <2> QED
    BY <2>1, ElsewhereIsNoDelivery
<1>5. CASE \/ SpeakBegins \/ FindsSessionActive \/ Retires \/ HasNoSession \/ Starts
           \/ StartRefused \/ SendsSpeak \/ SpeakSendFails \/ WaitEnds \/ WaitTimesOut
           \/ ObservesAbort \/ SpeakCancels \/ DrainEnds \/ DrainTimesOut \/ SpeakReturns
           \/ Destroys
  <2>1. /\ lateSpans' = lateSpans /\ batch' = batch
        /\ \E place : Goto("speak", place)
    BY <1>5 DEF SpeakBegins, FindsSessionActive, Retires, HasNoSession, Starts, StartRefused,
                SendsSpeak, SpeakSendFails, WaitEnds, WaitTimesOut, ObservesAbort, SpeakCancels,
                SendsCancel, CancelSendFails, DrainEnds, DrainTimesOut, SpeakReturns, Destroys,
                Returns
  <2> QED
    BY <1>1, <2>1, ElsewhereIsNoDelivery DEF Goto
<1>6. CASE DirectCaller /\ ~EnterFaultedState("purge")
  <2>1. /\ lateSpans' = lateSpans /\ batch' = batch
        /\ \E place : Goto("purge", place)
    BY <1>6 DEF DirectCaller, DrainsDirectly, Stops, StopSends, DirectDrainEnds, SendsCancel,
                CancelSendFails
  <2> QED
    BY <1>1, <2>1, ElsewhereIsNoDelivery DEF Goto
<1>7. CASE InactivityElapses \/ DeadlinePasses \/ UNCHANGED workerVars \/ UNCHANGED vars
  <2>1. lateSpans' = lateSpans /\ batch' = batch /\ pc' = pc
    BY <1>7 DEF InactivityElapses, DeadlinePasses, workerVars, vars
  <2> QED
    BY <2>1, ElsewhereIsNoDelivery
<1>8. CASE \E t \in Threads : EnterFaultedState(t)
  BY <1>8, FaultIsNoDelivery
<1>9. CASE AudioThread
  BY <1>9, AudioDeliveryStep
<1> QED
  BY <1>1, <1>2, <1>3, <1>4, <1>5, <1>6, <1>7, <1>8, <1>9
  DEF Next, Terminated, SpeakThread

\* A step that starts nothing keeps the invariant.
LEMMA DeliveryInvKept ==
    ASSUME TypeInv, TypeInv', CancelInv, DeliveryInv, DeliveryStep, StartsNothing, KeepsRequest,
           ctx'.speakId # 0 => ctx'.generation = ctx.generation
    PROVE  DeliveryInv'
<1> USE DEF DeliveryInv, AtMostOneLateSpan, StartsNothing, KeepsRequest
<1>1. /\ lateSpans \in [Ids -> Nat] /\ 0 \notin Ids
      /\ ctx \in Context /\ ctx' \in Context
  BY DEF TypeInv, TypeOK, Ids
<1>2. ctx.downstreamState = "Speaking" => ctx.speakId \in Ids /\ ~NotStarted(ctx.speakId)
  BY DEF CancelInv
<1>3. CASE NoDelivery
  <2>1. AtMostOneLateSpan' /\ \A r \in Ids : NotStarted(r)' => lateSpans'[r] = 0
    BY <1>3 DEF NoDelivery
  <2>2. ctx'.downstreamState = "Speaking" => lateSpans'[ctx'.speakId] = 0
    BY <1>3 DEF NoDelivery
  <2>3. ASSUME Delivering'
        PROVE  /\ batch'.token.speakId \in Ids
               /\ ~NotStarted(batch.token.speakId)'
               /\ ctx'.speakId = batch'.token.speakId
                    => ctx'.generation = batch'.token.generation
    <3>1. /\ Delivering /\ batch'.token = batch.token
          /\ batch.token.speakId \in Ids
          /\ ctx.speakId = batch.token.speakId => ctx.generation = batch.token.generation
      BY <1>3, <2>3 DEF NoDelivery
    <3>2. ~NotStarted(batch.token.speakId)'
      <4>1. ~NotStarted(batch.token.speakId)
        BY <3>1
      <4> QED
        BY <3>1, <4>1 DEF NotStarted
    <3>3. ctx'.speakId = batch.token.speakId => ctx'.speakId # 0 /\ ctx.speakId = ctx'.speakId
      BY <1>1, <3>1
    <3> QED
      BY <3>1, <3>2, <3>3
  <2>4. ASSUME Writing' PROVE lateSpans'[batch'.token.speakId] = 0
    <3>1. Writing /\ Delivering'
      BY <1>3, <2>4 DEF NoDelivery, Writing, Delivering
    <3> QED
      BY <1>3, <3>1 DEF NoDelivery
  <2> QED
    BY <2>1, <2>2, <2>3, <2>4
<1>4. CASE Batches
  <2>1. batch'.token.speakId = ctx.speakId /\ batch'.token.generation = ctx.generation
    BY <1>1, <1>4 DEF Batches, Token
  <2>2. batch'.token.speakId \in Ids /\ ~NotStarted(batch.token.speakId)'
    BY <1>2, <1>4, <2>1 DEF Batches
  <2> QED
    BY <1>1, <1>4, <2>1, <2>2 DEF Batches
<1>5. CASE Admits
  <2>1. ctx.downstreamState = "Speaking" /\ ctx.speakId = batch.token.speakId
    BY <1>1, <1>5 DEF Admits, SpanAllowed, Token
  <2>2. lateSpans[batch.token.speakId] = 0
    BY <2>1
  <2> QED
    BY <1>1, <1>5, <2>1, <2>2 DEF Admits
<1>6. CASE Accepts
  <2> DEFINE r0 == batch.token.speakId
  <2>1. /\ Delivering /\ r0 \in Ids /\ lateSpans[r0] = 0 /\ ~NotStarted(r0)
        /\ ctx.speakId = r0 => ctx.generation = batch.token.generation
    BY <1>6 DEF Accepts, Writing, Delivering
  <2>2. CASE lateSpans' = lateSpans
    BY <1>1, <1>6, <2>1, <2>2 DEF Accepts
  <2>3. CASE lateSpans' # lateSpans
    <3>1. /\ ~(ctx.downstreamState = "Speaking" /\ Token(ctx) = batch.token)
          /\ lateSpans' = [lateSpans EXCEPT ![r0] = @ + 1]
      BY <1>6, <2>3 DEF Accepts
    <3>2. batch.token = [speakId |-> r0, generation |-> batch.token.generation]
      BY DEF TypeInv, TypeOK, Batch
    <3>3. ctx.downstreamState = "Speaking" => ctx.speakId # r0
      BY <2>1, <3>1, <3>2 DEF Token
    <3>4. \A r \in Ids : lateSpans'[r] = IF r = r0 THEN 1 ELSE lateSpans[r]
      BY <1>1, <2>1, <3>1
    <3> QED
      BY <1>1, <1>2, <1>6, <2>1, <3>3, <3>4 DEF Accepts
  <2> QED
    BY <2>2, <2>3
<1> QED
  BY <1>3, <1>4, <1>5, <1>6 DEF DeliveryStep

\* The request that is started has no late span and no batch on its way.
LEMMA StartKeepsDeliveryInv ==
    ASSUME TypeInv, TypeInv', CancelInv, DeliveryInv, Starts
    PROVE  DeliveryInv'
<1>1. /\ {"audio", "speak"} \subseteq Threads /\ pc \in [Threads -> Place]
      /\ speakCounter \in 0 .. MaxSpeaks /\ ctx \in Context
  BY DEF Threads, Readers, Callers, TypeInv, TypeOK
<1>2. /\ pc["speak"] = "start" /\ pc'["speak"] = "send" /\ pc'["audio"] = pc["audio"]
      /\ lateSpans' = lateSpans /\ batch' = batch /\ speakCounter' = speakCounter
  BY <1>1 DEF Starts, At, Goto, localVars, historyVars, engineVars
<1>3. ctx'.speakId = speakCounter
  BY <1>1, ContextOperators DEF Starts, Context, speakId
<1>4. speakCounter \in Ids /\ NotStarted(speakCounter)
  BY <1>1, <1>2 DEF CancelInv, RequestNumbered, BeforeStart, NotStarted
<1>5. \A r \in Ids : NotStarted(r)' => NotStarted(r)
  BY <1>1, <1>2 DEF NotStarted, BeforeStart
<1> QED
  BY <1>2, <1>3, <1>4, <1>5 DEF DeliveryInv, AtMostOneLateSpan, Delivering, Writing

LEMMA DeliveryInvHolds == Spec => []DeliveryInv
<1>1. Init => DeliveryInv
  BY DEF Init, FreshContext, DeliveryInv, AtMostOneLateSpan, Delivering, Writing, Threads,
         Readers, Callers
<1>2. ASSUME TypeInv, TypeInv', LifecycleMatrix, CancelInv, DeliveryInv, [Next]_vars
      PROVE  DeliveryInv'
  <2>1. CASE Starts
    BY <1>2, <2>1, StartKeepsDeliveryInv
  <2>2. CASE ~Starts
    <3>1. ctx'.speakId # 0 => ctx'.generation = ctx.generation
      <4>1. CASE SetsObjectToken \/ RecreatesSession
        <5>1. ctx' = FreshContext \/ ctx' = ctx
          BY <4>1 DEF SetsObjectToken, RecreatesSession, CreatesSession, requestVars
        <5> QED
          BY <5>1 DEF FreshContext
      <4> QED
        BY <1>2, <2>2, <4>1, EveryStepKeepsGeneration
    <3>2. StartsNothing /\ KeepsRequest /\ DeliveryStep
      BY <1>2, <2>2, EveryCancelStep, EveryStepKeepsRequest, EveryDeliveryStep DEF CancelInv
    <3> QED
      BY <1>2, <3>1, <3>2, DeliveryInvKept
  <2> QED
    BY <2>1, <2>2
<1> QED
  BY <1>1, <1>2, TypeCorrect, LifecycleMatrixHolds, CancelInvHolds, PTL DEF Spec

\* After a request has left Speaking, by whatever step of whatever thread, at most
\* the one span that was on its way still reaches a site: for any number of
\* requests, any size of batch and any environment.
THEOREM AtMostOneLateSpanHolds == Spec => []AtMostOneLateSpan
<1>1. DeliveryInv => AtMostOneLateSpan
  BY DEF DeliveryInv
<1> QED
  BY <1>1, DeliveryInvHolds, PTL
-----------------------------------------------------------------------------
(***************************************************************************)
(* The quarantine of a faulted session: from the region that finds a fault *)
(* to the retirement of the session no request is started on it.           *)
(* HandleErrorLogLocked resets a request in any state, faulted or not (the *)
(* run ref_quarantine shows it), so what is proved here is about the       *)
(* behaviours in which no error log is read once a fault is found: with    *)
(* that one exception the quarantine holds for every provider, host and    *)
(* failure.                                                                *)
(***************************************************************************)

\* A marked session refuses every start.
Marked(c) == c.faultPending \/ c.downstreamState = "Faulted"

\* Once a fault is found, the next control event is not one that fails the request.
NoLateErrorLog ==
    Marked(ctx) /\ events # <<>> => EventAction(Head(events), ctx) # "RequestErrorLog"
-----------------------------------------------------------------------------
(* The threads and the session they work on.                               *)

\* A session that is gone, or not there yet, has no thread in it.
RetiredIsQuiet ==
    session # "live" =>
        /\ \A t \in Threads : fault[t] = "none"
        /\ pc["audio"] = "exit" /\ pc["control"] = "exit"
        /\ pc["purge"] \in {"ready", "done"}
        /\ ~connected

\* The destructor of the worker begins after the last direct call.
ExitEndsDirectCalls == exit => NoDirectCall

\* Only a control thread that dispatches an event holds a disposition.
DispositionIsHeld ==
    pc["control"] \notin {"forward", "callback", "notify"} => disposition = NoDisposition

\* A session is retired, and the engine destroyed, after its worker was told.
RetiringIsTold == pc["speak"] \in {"retire", "destroy"} => exit

SessionInv ==
    RetiredIsQuiet /\ ExitEndsDirectCalls /\ DispositionIsHeld /\ RetiringIsTold

\* A thread of a session that is gone takes no step.
LEMMA NobodyInRetired ==
    ASSUME RetiredIsQuiet, session # "live"
    PROVE  /\ ~AudioThread /\ ~ControlThread /\ ~DirectCaller
           /\ ~EnterFaultedState("speak")
<1>1. {"audio", "control", "speak", "purge"} \subseteq Threads
  BY DEF Threads, Readers, Callers
<1>2. \A t \in Threads : ~EnterFaultedState(t)
  BY DEF RetiredIsQuiet, EnterFaultedState, FaultsRequest, PublishesFault, CancelsIo
<1>3. /\ pc["audio"] = "exit" /\ pc["control"] = "exit" /\ pc["purge"] \in {"ready", "done"}
  BY DEF RetiredIsQuiet
<1>4. ~AudioThread
  BY <1>1, <1>2, <1>3
  DEF AudioThread, ReadBreaks, ReadFailed, LeavesLoop, AssemblesSpeakingAudio, AssemblyThrows,
      DrainsCancellationAudio, FaultsOnIdleAudio, DrainsFaultedAudio, Reads, AdmitsSpan,
      CapturesSite, SiteAcceptsSpan, SiteRejectsSpan, UpdatesAfterDelivery, AudioSendsCancel,
      SendsCancel, CancelSendFails, At
<1>5. ~ControlThread
  BY <1>1, <1>2, <1>3
  DEF ControlThread, ReadBreaks, ReadFailed, LeavesLoop, ReadsMalformedLine, ReadsOrphanEvent,
      HandlesEvent, NextEvent, AdmitsEvent, CapturesEventSite, NotifiesSite, At
<1>6. ~DirectCaller
  BY <1>1, <1>2, <1>3
  DEF DirectCaller, DrainsDirectly, Stops, StopSends, DirectDrainEnds, DirectCallBegins,
      SendsCancel, CancelSendFails, At
<1> QED
  BY <1>1, <1>2, <1>4, <1>5, <1>6

\* EnterFaultedState moves a reader at most out of its read.
LEMMA FaultLeavesPlaces ==
    ASSUME TypeInv, NEW t \in Threads, EnterFaultedState(t)
    PROVE  /\ \A u \in Threads : \/ pc'[u] = pc[u]
                                 \/ u \in Readers /\ pc[u] = "read" /\ pc'[u] = "failed"
           /\ \A u \in Threads \ {t} : fault'[u] = fault[u]
           /\ disposition' = disposition /\ exit' = exit /\ connected' = connected
           /\ fault[t] # "none"
<1> USE DEF localVars, providerVars
<1>1. pc \in [Threads -> Place] /\ fault \in [Threads -> FaultStage]
  BY DEF TypeInv, TypeOK
<1>2. /\ disposition' = disposition /\ exit' = exit /\ connected' = connected
      /\ fault[t] # "none"
  BY DEF EnterFaultedState, FaultsRequest, PublishesFault, CancelsIo
<1>3. \A u \in Threads \ {t} : fault'[u] = fault[u]
  BY <1>1 DEF EnterFaultedState, FaultsRequest, PublishesFault, CancelsIo
<1>4. CASE CancelsIo(t)
  <2>1. PICK hit \in PendingReads :
            pc' = [u \in Threads |-> IF u \in hit THEN "failed" ELSE pc[u]]
    BY <1>4 DEF CancelsIo
  <2>2. \A u \in hit : u \in Readers /\ pc[u] = "read"
    BY DEF PendingReads, At
  <2> QED
    BY <1>2, <1>3, <2>1, <2>2
<1>5. CASE FaultsRequest(t) \/ PublishesFault(t)
  <2>1. pc' = pc
    BY <1>5 DEF FaultsRequest, PublishesFault
  <2> QED
    BY <1>2, <1>3, <2>1
<1> QED
  BY <1>4, <1>5 DEF EnterFaultedState

\* What a step leaves alone that no direct caller takes.
DirectCallKept == pc'["purge"] = pc["purge"] /\ fault'["purge"] = fault["purge"]

\* The control thread stays where it is, or its pending read is cancelled.
DispatchKept ==
    /\ disposition' = disposition
    /\ \/ pc'["control"] = pc["control"]
       \/ pc["control"] = "read" /\ pc'["control"] = "failed"

\* The audio thread.
LEMMA AudioLeavesOthers ==
    ASSUME TypeInv, AudioThread
    PROVE  DirectCallKept /\ DispatchKept
<1> USE DEF DirectCallKept, DispatchKept, localVars
<1>1. /\ pc \in [Threads -> Place] /\ fault \in [Threads -> FaultStage]
      /\ {"audio", "control", "purge"} \subseteq Threads
  BY DEF TypeInv, TypeOK, Threads, Readers, Callers
<1>2. CASE EnterFaultedState("audio")
  BY <1>1, <1>2, FaultLeavesPlaces DEF Readers
<1>3. CASE ~EnterFaultedState("audio")
  <2>1. disposition' = disposition
    BY <1>3 DEF AudioThread, ReadBreaks, ReadFailed, LeavesLoop, AssemblesSpeakingAudio,
                AssemblyThrows, DrainsCancellationAudio, FaultsOnIdleAudio, DrainsFaultedAudio,
                AdmitsSpan, CapturesSite, SiteAcceptsSpan, SiteRejectsSpan,
                UpdatesAfterDelivery, AudioSendsCancel, SendsCancel, CancelSendFails
  <2>2. pc' = pc \/ \E place : Goto("audio", place)
    BY <1>3 DEF AudioThread, ReadBreaks, ReadFailed, LeavesLoop, AssemblesSpeakingAudio,
                AssemblyThrows, DrainsCancellationAudio, FaultsOnIdleAudio, DrainsFaultedAudio,
                AdmitsSpan, CapturesSite, SiteAcceptsSpan, SiteRejectsSpan,
                UpdatesAfterDelivery, AudioSendsCancel, SendsCancel, CancelSendFails
  <2>3. fault' = fault \/ \E stage : fault' = [fault EXCEPT !["audio"] = stage]
    BY <1>3 DEF AudioThread, ReadBreaks, ReadFailed, LeavesLoop, AssemblesSpeakingAudio,
                AssemblyThrows, DrainsCancellationAudio, FaultsOnIdleAudio, DrainsFaultedAudio,
                AdmitsSpan, CapturesSite, SiteAcceptsSpan, SiteRejectsSpan,
                UpdatesAfterDelivery, AudioSendsCancel, SendsCancel, CancelSendFails,
                CallsEnterFaultedState
  <2> QED
    BY <1>1, <2>1, <2>2, <2>3 DEF Goto
<1> QED
  BY <1>2, <1>3

\* The control thread takes a disposition when it forwards an event, and gives
\* it up when the event is dispatched.
LEMMA ControlLeavesOthers ==
    ASSUME TypeInv, ControlThread, DispositionIsHeld
    PROVE  DirectCallKept /\ DispositionIsHeld'
<1> USE DEF DirectCallKept, DispositionIsHeld, localVars
<1>1. /\ pc \in [Threads -> Place] /\ fault \in [Threads -> FaultStage]
      /\ {"audio", "control", "purge"} \subseteq Threads
  BY DEF TypeInv, TypeOK, Threads, Readers, Callers
<1>2. CASE EnterFaultedState("control")
  BY <1>1, <1>2, FaultLeavesPlaces DEF Readers
<1>3. CASE ReadBreaks("control") \/ ReadFailed("control") \/ LeavesLoop("control")
  BY <1>1, <1>3 DEF ReadBreaks, ReadFailed, LeavesLoop, At, Goto, CallsEnterFaultedState
<1>4. CASE ReadsMalformedLine \/ ReadsOrphanEvent
  BY <1>1, <1>4 DEF ReadsMalformedLine, ReadsOrphanEvent, NextEvent, At, Goto,
                    CallsEnterFaultedState
<1>5. CASE HandlesEvent
  BY <1>1, <1>5 DEF HandlesEvent, NextEvent, At, Goto
<1>6. CASE AdmitsEvent \/ CapturesEventSite \/ NotifiesSite
  BY <1>1, <1>6 DEF AdmitsEvent, CapturesEventSite, NotifiesSite, Dispatched, At, Goto
<1> QED
  BY <1>2, <1>3, <1>4, <1>5, <1>6 DEF ControlThread

\* A direct caller, which takes no step once the worker is told to exit.
LEMMA DirectCallerLeavesOthers ==
    ASSUME TypeInv, DirectCaller
    PROVE  DispatchKept /\ ~(exit /\ NoDirectCall)
<1> USE DEF DispatchKept, localVars
<1>1. /\ pc \in [Threads -> Place]
      /\ {"audio", "control", "purge"} \subseteq Threads
  BY DEF TypeInv, TypeOK, Threads, Readers, Callers
<1>2. CASE EnterFaultedState("purge")
  BY <1>1, <1>2, FaultLeavesPlaces DEF Readers, NoDirectCall
<1>3. CASE DrainsDirectly \/ Stops \/ StopSends \/ DirectDrainEnds
  BY <1>1, <1>3 DEF DrainsDirectly, Stops, StopSends, DirectDrainEnds, DirectCallBegins, At, Goto,
                    NoDirectCall
<1>4. CASE SendsCancel("purge", "drain") \/ CancelSendFails("purge", "done")
  BY <1>1, <1>4 DEF SendsCancel, CancelSendFails, At, Goto, NoDirectCall
<1> QED
  BY <1>2, <1>3, <1>4 DEF DirectCaller

\* Speak on a session that stays.
LEMMA SpeakLeavesOthers ==
    ASSUME TypeInv, SpeakThread,
           ~(SetsObjectToken \/ RecreatesSession \/ BeginsRetirement \/ BeginsDestruction)
    PROVE  DirectCallKept /\ DispatchKept /\ exit' = exit
<1> USE DEF DirectCallKept, DispatchKept, localVars
<1>1. /\ pc \in [Threads -> Place] /\ fault \in [Threads -> FaultStage]
      /\ {"audio", "control", "purge", "speak"} \subseteq Threads
  BY DEF TypeInv, TypeOK, Threads, Readers, Callers
<1>2. CASE EnterFaultedState("speak")
  BY <1>1, <1>2, FaultLeavesPlaces DEF Readers
<1>3. CASE \/ SpeakBegins \/ FindsSessionActive \/ Retires \/ HasNoSession \/ Starts
           \/ StartRefused \/ SendsSpeak \/ SpeakSendFails \/ WaitEnds
  BY <1>1, <1>3 DEF SpeakBegins, FindsSessionActive, Retires, HasNoSession, Starts, StartRefused,
                    SendsSpeak, SpeakSendFails, WaitEnds, Returns, Goto, CallsEnterFaultedState
<1>4. CASE \/ WaitTimesOut \/ ObservesAbort \/ SpeakCancels \/ DrainEnds \/ DrainTimesOut
           \/ SpeakReturns \/ Destroys
  BY <1>1, <1>4 DEF WaitTimesOut, ObservesAbort, SpeakCancels, SendsCancel, CancelSendFails,
                    DrainEnds, DrainTimesOut, SpeakReturns, Destroys, Returns, Goto,
                    CallsEnterFaultedState
<1> QED
  BY <1>2, <1>3, <1>4 DEF SpeakThread

\* The pipes of a session are opened with it and closed with it.
LEMMA PipesStayClosed ==
    ASSUME [Next]_vars, ~(SetsObjectToken \/ RecreatesSession), ~connected,
           ~AudioThread, ~ControlThread, ~DirectCaller, ~EnterFaultedState("speak")
    PROVE  ~connected'
<1> USE DEF providerVars
<1>1. CASE SpeakThread
  BY <1>1 DEF SpeakThread, SpeakBegins, FindsSessionActive, BeginsRetirement, Retires,
              HasNoSession, Starts, StartRefused, SendsSpeak, SpeakSendFails, WaitEnds,
              WaitTimesOut, ObservesAbort, SpeakCancels, SendsCancel, CancelSendFails, DrainEnds,
              DrainTimesOut, SpeakReturns, BeginsDestruction, Destroys, ClosePipes
<1>2. CASE InactivityElapses \/ DeadlinePasses \/ UNCHANGED vars
  BY <1>2 DEF InactivityElapses, DeadlinePasses, vars
<1>3. CASE ProviderNext
  BY <1>3 DEF ProviderNext, TakesSpeak, RefusesOverlap, WritesFrame, EmitsBoundary,
              DeclaresComplete, AcknowledgesCancel, IgnoresCancel, FailsRequest, Deviates,
              Crashes, NextCommandIs
<1> QED
  BY <1>1, <1>2, <1>3 DEF Next, Terminated

\* A session is created.
LEMMA CreatedSessionInv ==
    ASSUME TypeInv, SessionInv, SetsObjectToken \/ RecreatesSession
    PROVE  SessionInv'
<1> USE DEF SessionInv, RetiredIsQuiet, ExitEndsDirectCalls, DispositionIsHeld, RetiringIsTold,
            At, localVars, providerVars
<1>1. pc \in [Threads -> Place] /\ {"audio", "control", "purge", "speak"} \subseteq Threads
  BY DEF TypeInv, TypeOK, Threads, Readers, Callers
<1>2. pc["speak"] \in {"idle", "session"} /\ session # "live"
  BY DEF SetsObjectToken, RecreatesSession
<1>3. ASSUME NEW place \in {"idle", "start"}, CreatesSession(place) PROVE SessionInv'
  <2>1. /\ session' = "live" /\ ~exit' /\ disposition' = disposition
        /\ pc'["control"] = "read" /\ pc'["speak"] = place
    BY <1>1, <1>3 DEF CreatesSession
  <2>2. disposition = NoDisposition
    BY <1>2
  <2> QED
    BY <2>1, <2>2
<1>4. CASE SetsObjectToken /\ UNCHANGED <<pc, fault, exit, localVars, providerVars>>
  <2>1. session' # "live" \/ \E place \in {"idle", "start"} : CreatesSession(place)
    BY <1>4 DEF SetsObjectToken
  <2> QED
    BY <1>2, <1>3, <1>4, <2>1 DEF NoDirectCall
<1> QED
  BY <1>3, <1>4 DEF SetsObjectToken, RecreatesSession

\* The worker is told to exit.
LEMMA ToldSessionInv ==
    ASSUME TypeInv, SessionInv, BeginsRetirement \/ BeginsDestruction
    PROVE  SessionInv'
<1> USE DEF SessionInv, RetiredIsQuiet, ExitEndsDirectCalls, DispositionIsHeld, RetiringIsTold
<1>1. {"audio", "control", "purge", "speak"} \subseteq Threads /\ "purge" \notin Readers
  BY DEF Threads, Readers, Callers
<1>2. /\ fault' = fault /\ disposition' = disposition /\ session' = session /\ exit'
      /\ connected' = connected /\ NoDirectCall
  BY DEF BeginsRetirement, BeginsDestruction, localVars, engineVars, providerVars
<1>3. PICK hit \in PendingReads :
          \A u \in Readers : pc'[u] = IF u \in hit THEN "failed" ELSE pc[u]
  <2>1. "speak" \notin Readers
    BY DEF Readers
  <2> QED
    BY <1>1, <2>1 DEF BeginsRetirement, BeginsDestruction, Threads
<1>4. \A u \in hit : pc[u] = "read"
  BY DEF PendingReads, At
<1>5. pc'["purge"] = pc["purge"] \/ pc'["purge"] = "done"
  BY <1>1 DEF BeginsRetirement, BeginsDestruction, PendingReads, At
<1> QED
  BY <1>1, <1>2, <1>3, <1>4, <1>5 DEF NoDirectCall, Readers

\* Both readers are joined and the session goes.
LEMMA RetiredSessionInv ==
    ASSUME TypeInv, SessionInv, Retires
    PROVE  SessionInv'
<1> USE DEF SessionInv, RetiredIsQuiet, ExitEndsDirectCalls, DispositionIsHeld, RetiringIsTold
<1>1. /\ pc \in [Threads -> Place] /\ Threads = {"audio", "control", "speak", "purge"}
      /\ "speak" # "purge"
  BY DEF TypeInv, TypeOK, Threads, Readers, Callers
<1>2. /\ pc["audio"] = "exit" /\ pc["control"] = "exit" /\ pc["speak"] = "retire"
      /\ fault["audio"] = "none" /\ fault["control"] = "none" /\ fault["speak"] = "none"
  BY DEF Retires, Joined, At, Readers
<1>3. pc["purge"] \in {"ready", "done"} /\ fault["purge"] = "none"
  BY <1>2 DEF NoDirectCall
<1>4. /\ fault' = fault /\ exit' = exit /\ disposition' = disposition /\ ~connected'
      /\ \A u \in Threads \ {"speak"} : pc'[u] = pc[u]
      /\ pc'["speak"] = "session"
  BY <1>1 DEF Retires, Goto, ClosePipes, localVars
<1> QED
  BY <1>1, <1>2, <1>3, <1>4 DEF NoDirectCall

\* Every other step of a session that is there.
LEMMA LiveSessionInv ==
    ASSUME TypeInv, SessionInv, session = "live", [Next]_vars,
           ~(SetsObjectToken \/ RecreatesSession \/ BeginsRetirement \/ BeginsDestruction
             \/ Retires)
    PROVE  SessionInv'
<1> USE DEF SessionInv, RetiredIsQuiet, ExitEndsDirectCalls, DispositionIsHeld, RetiringIsTold
<1>1. SUFFICES /\ session' = session /\ exit' = exit
               /\ exit => DirectCallKept
               /\ DispositionIsHeld'
               /\ pc'["speak"] \in {"retire", "destroy"} => pc["speak"] \in {"retire", "destroy"}
  BY DEF NoDirectCall, DirectCallKept
<1>2. DispatchKept => DispositionIsHeld'
  BY DEF DispatchKept
<1>3. CASE SpeakThread
  <2>1. session' = session
    BY <1>3 DEF SpeakThread, SpeakBegins, FindsSessionActive, HasNoSession, Starts, StartRefused,
                SendsSpeak, SpeakSendFails, WaitEnds, WaitTimesOut, ObservesAbort, SpeakCancels,
                DrainEnds, DrainTimesOut, SpeakReturns, Destroys, engineVars
  <2>2. CASE EnterFaultedState("speak")
    <3>1. "speak" \in Threads /\ "speak" \notin Readers
      BY DEF Threads, Callers, Readers
    <3>2. pc'["speak"] = pc["speak"]
      BY <2>2, <3>1, FaultLeavesPlaces
    <3> QED
      BY <1>1, <1>2, <1>3, <2>1, <3>2, SpeakLeavesOthers
  <2>3. CASE ~EnterFaultedState("speak")
    <3>1. pc \in [Threads -> Place] /\ "speak" \in Threads
      BY DEF TypeInv, TypeOK, Threads, Callers
    <3>2. \E place \in {"session", "start", "send", "wait", "sendCancel", "drain", "cleanup",
                        "idle", "gone"} : Goto("speak", place)
      BY <1>3, <2>3
      DEF SpeakThread, SpeakBegins, FindsSessionActive, HasNoSession, Starts, StartRefused,
          SendsSpeak, SpeakSendFails, WaitEnds, WaitTimesOut, ObservesAbort, SpeakCancels,
          SendsCancel, CancelSendFails, DrainEnds, DrainTimesOut, SpeakReturns, Destroys, Returns
    <3>3. pc'["speak"] \notin {"retire", "destroy"}
      BY <3>1, <3>2 DEF Goto
    <3> QED
      BY <1>1, <1>2, <1>3, <2>1, <3>3, SpeakLeavesOthers
  <2> QED
    BY <2>2, <2>3
<1>4. CASE ~SpeakThread
  <2>1. pc'["speak"] = pc["speak"] /\ exit' = exit /\ session' = session
    BY <1>4, OthersLeaveCall DEF engineVars
  <2>2. CASE AudioThread
    BY <1>1, <1>2, <2>1, <2>2, AudioLeavesOthers
  <2>3. CASE ControlThread
    BY <1>1, <2>1, <2>3, ControlLeavesOthers
  <2>4. CASE DirectCaller
    BY <1>1, <1>2, <2>1, <2>4, DirectCallerLeavesOthers
  <2>5. CASE InactivityElapses \/ DeadlinePasses \/ UNCHANGED workerVars \/ UNCHANGED vars
    <3>1. pc' = pc /\ fault' = fault /\ disposition' = disposition
      BY <2>5 DEF InactivityElapses, DeadlinePasses, workerVars, vars, localVars
    <3> QED
      BY <1>1, <1>2, <2>1, <3>1 DEF DispatchKept, DirectCallKept
  <2> QED
    BY <1>4, <2>2, <2>3, <2>4, <2>5 DEF Next, Terminated
<1> QED
  BY <1>3, <1>4

\* Nothing happens to a session that is gone until one is created.
LEMMA AbsentSessionInv ==
    ASSUME TypeInv, CallInv, SessionInv, session # "live", [Next]_vars,
           ~(SetsObjectToken \/ RecreatesSession \/ BeginsRetirement \/ BeginsDestruction
             \/ Retires)
    PROVE  SessionInv'
<1> USE DEF SessionInv, RetiredIsQuiet, ExitEndsDirectCalls, DispositionIsHeld, RetiringIsTold
<1>1. ~AudioThread /\ ~ControlThread /\ ~DirectCaller /\ ~EnterFaultedState("speak")
  BY NobodyInRetired
<1>2. ~connected'
  BY <1>1, PipesStayClosed
<1>3. SUFFICES /\ exit' = exit /\ fault' = fault /\ disposition' = disposition
               /\ \A u \in Threads \ {"speak"} : pc'[u] = pc[u]
               /\ pc'["speak"] \in {"retire", "destroy"} => pc["speak"] \in {"retire", "destroy"}
  <2>1. /\ {"audio", "control", "purge"} \subseteq Threads \ {"speak"}
    BY DEF Threads, Readers, Callers
  <2> QED
    BY <1>2, <1>3, <2>1 DEF NoDirectCall
<1>4. CASE SpeakThread
  <2>1. pc \in [Threads -> Place] /\ "speak" \in Threads
    BY DEF TypeInv, TypeOK, Threads, Callers
  <2>2. pc["speak"] \notin {"start", "send", "wait", "sendCancel", "drain"}
    BY DEF CallInv, CallHasSession
  <2>3. SpeakBegins \/ HasNoSession \/ SpeakReturns \/ Destroys
    BY <1>1, <1>4, <2>2
    DEF SpeakThread, FindsSessionActive, IsSessionActive, Starts, StartRefused, SendsSpeak,
        SpeakSendFails, WaitEnds, WaitTimesOut, ObservesAbort, SpeakCancels, SendsCancel,
        CancelSendFails, DrainEnds, DrainTimesOut, At
  <2>4. /\ exit' = exit /\ fault' = fault /\ disposition' = disposition
        /\ \E place \in {"session", "cleanup", "idle", "gone"} : Goto("speak", place)
    BY <2>3 DEF SpeakBegins, HasNoSession, SpeakReturns, Destroys, Returns, localVars
  <2> QED
    BY <2>1, <2>4 DEF Goto
<1>5. CASE InactivityElapses \/ DeadlinePasses \/ UNCHANGED workerVars \/ UNCHANGED vars
  BY <1>5 DEF InactivityElapses, DeadlinePasses, workerVars, vars, localVars
<1> QED
  BY <1>1, <1>4, <1>5 DEF Next, Terminated

\* The worker's threads and the session keep together in every behaviour.
LEMMA SessionInvHolds == Spec => []SessionInv
<1>1. Init => SessionInv
  BY DEF Init, SessionInv, RetiredIsQuiet, ExitEndsDirectCalls, DispositionIsHeld,
         RetiringIsTold, NoDirectCall, ProviderInit, Threads, Readers, Callers
<1>2. ASSUME TypeInv, CallInv, SessionInv, [Next]_vars PROVE SessionInv'
  <2>1. CASE SetsObjectToken \/ RecreatesSession
    BY <1>2, <2>1, CreatedSessionInv
  <2>2. CASE BeginsRetirement \/ BeginsDestruction
    BY <1>2, <2>2, ToldSessionInv
  <2>3. CASE Retires
    BY <1>2, <2>3, RetiredSessionInv
  <2>4. CASE ~(SetsObjectToken \/ RecreatesSession \/ BeginsRetirement \/ BeginsDestruction
               \/ Retires)
    BY <1>2, <2>4, LiveSessionInv, AbsentSessionInv
  <2> QED
    BY <2>1, <2>2, <2>3, <2>4
<1> QED
  BY <1>1, <1>2, TypeCorrect, CallInvHolds, PTL DEF Spec
-----------------------------------------------------------------------------
(* The mark a fault leaves on the session.                                 *)

\* A context on its way into the faulted state, or there.
KeepsMark(c, d) ==
    /\ c.faultPending => d.faultPending
    /\ c.downstreamState = "Faulted" => d.downstreamState = "Faulted"

\* No fault is found.
SameMark(c, d) == KeepsMark(c, d) /\ d.faultPending = c.faultPending

\* Every thread that found a fault has marked the session, and so has every event
\* on its way to the site that is one; a mark no thread has taken up yet has one
\* that will.  The publication of a fault begins with the faulted state.
QuarantineInv ==
    /\ faultPublicationStarted => ctx.downstreamState = "Faulted"
    /\ \A t \in Threads : fault[t] = "publish" => faultPublicationStarted
    /\ \A t \in Threads : fault[t] = "pending" => Marked(ctx)
    /\ disposition.fault => Marked(ctx)
    /\ PendingFaultIsPublished

\* A thread does nothing about faults.
Ignores ==
    /\ SameMark(ctx, ctx')
    /\ fault' = fault /\ disposition' = disposition
    /\ faultPublicationStarted' = faultPublicationStarted

\* Thread t marks the session in the region in which it found the fault.
Finds(t) ==
    /\ KeepsMark(ctx, ctx') /\ Marked(ctx')
    /\ fault[t] = "none" /\ fault' = [fault EXCEPT ![t] = "pending"]
    /\ disposition' = disposition
    /\ faultPublicationStarted' = faultPublicationStarted

\* Thread t calls EnterFaultedState without a mark.
Enters(t) ==
    /\ SameMark(ctx, ctx')
    /\ fault[t] = "none" /\ fault' = [fault EXCEPT ![t] = "enter"]
    /\ disposition' = disposition
    /\ faultPublicationStarted' = faultPublicationStarted

\* The control thread takes an event to the site, faulty or not.
Forwards ==
    /\ ~disposition.fault /\ fault' = fault
    /\ KeepsMark(ctx, ctx')
    /\ IF disposition'.fault THEN Marked(ctx') ELSE SameMark(ctx, ctx')
    /\ faultPublicationStarted' = faultPublicationStarted

\* The event is dispatched; a faulty one becomes the thread's fault.
Dispatches ==
    /\ ctx' = ctx /\ fault["control"] = "none" /\ ~disposition'.fault
    /\ IF disposition.fault THEN fault' = [fault EXCEPT !["control"] = "pending"]
       ELSE fault' = fault
    /\ faultPublicationStarted' = faultPublicationStarted

Publishes(t) == FaultsRequest(t) \/ PublishesFault(t) \/ CancelsIo(t)

NewWorker ==
    /\ session # "live"
    /\ ctx'.downstreamState = "Idle" /\ ~ctx'.faultPending
    /\ fault' = fault /\ disposition' = disposition
    /\ ~faultPublicationStarted'

MarkStep ==
    \/ Ignores \/ Forwards \/ Dispatches \/ NewWorker
    \/ \E t \in Threads : Finds(t) \/ Enters(t) \/ Publishes(t)

\* CheckTerminalBoundaryLocked finds a fault only in a speaking request, and does
\* not undo one.
LEMMA BoundaryMark ==
    ASSUME NEW c \in Context, NEW k, c.upstreamState # "Failed"
    PROVE  LET r == CheckTerminalBoundary(c, k)
           IN /\ SameMark(c, r.ctx)
              /\ r.fault => c.downstreamState = "Speaking"
<1> DEFINE r == CheckTerminalBoundary(c, k)
<1>1. r.fault => c.downstreamState = "Speaking"
  BY DEF CheckTerminalBoundary, TerminalBoundaryAction, IsAwaitingTerminalAudio
<1>2. r.ctx = c \/ (r.ctx = ResetToIdle(c) /\ InUse(c))
  BY CheckTerminalBoundaryStep
<1>3. ResetToIdle(c).faultPending = c.faultPending
  BY DEF ResetToIdle, Context
<1> HIDE DEF r
<1>4. SameMark(c, r.ctx)
  BY <1>2, <1>3 DEF SameMark, KeepsMark, InUse
<1> QED
  BY <1>1, <1>4 DEF r

\* So does the handling of any event but a late error log.
LEMMA EventMark ==
    ASSUME TypeInv, LifecycleMatrix, NEW event \in Event,
           Marked(ctx) => EventAction(event, ctx) # "RequestErrorLog"
    PROVE  LET r == HandleParsedControlEvent(event)
           IN KeepsMark(ctx, r.ctx) /\ r.ctx.faultPending = ctx.faultPending
<1> DEFINE r == HandleParsedControlEvent(event)
<1>1. ctx \in Context /\ ctx.upstreamState # "Failed"
  BY MatrixExcludesFailed
<1>2. CASE EventAction(event, ctx) = "Terminal"
  <2> DEFINE kind == IF event.type = "complete" THEN "Completed" ELSE "Cancelled"
             terminal == [ctx EXCEPT !.upstreamTerminalBytes = event.bytes,
                                     !.upstreamFinished = TRUE, !.upstreamState = kind]
  <2>1. \/ r.ctx = TransitionRequestToFaulted(ctx)
        \/ r.ctx = CheckTerminalBoundary(terminal, carry).ctx
    BY <1>2 DEF HandleParsedControlEvent, HandleTerminalEvent
  <2>2. /\ terminal \in Context /\ terminal.upstreamState # "Failed"
        /\ terminal.faultPending = ctx.faultPending
        /\ terminal.downstreamState = ctx.downstreamState
    <3>1. event.bytes \in Nat /\ kind \in UpstreamState /\ kind # "Failed"
      BY DEF Event, UpstreamState
    <3> HIDE DEF kind
    <3> QED
      BY <1>1, <3>1 DEF Context
  <2>3. /\ TransitionRequestToFaulted(ctx).faultPending = ctx.faultPending
        /\ TransitionRequestToFaulted(ctx).downstreamState = "Faulted"
    BY <1>1 DEF TransitionRequestToFaulted, Context
  <2> HIDE DEF r, terminal
  <2>4. SameMark(terminal, CheckTerminalBoundary(terminal, carry).ctx)
    BY <2>2, BoundaryMark
  <2> QED
    BY <2>1, <2>2, <2>3, <2>4 DEF SameMark, KeepsMark, r
<1>3. CASE EventAction(event, ctx) = "RequestErrorLog"
  <2> DEFINE failed == [ctx EXCEPT !.upstreamState = "Failed", !.upstreamFinished = TRUE,
                                   !.completionHr = "E_FAIL",
                                   !.upstreamTerminalBytes = ctx.rawAudioBytesRead]
  <2>1. r = CheckTerminalBoundary(failed, carry)
    BY <1>3 DEF HandleParsedControlEvent, HandleErrorLog
  <2>2. failed.upstreamState = "Failed" /\ failed.faultPending = ctx.faultPending
    BY <1>1 DEF Context
  <2> HIDE DEF r, failed
  <2>3. r.ctx = ResetToIdle(failed)
    BY <2>1, <2>2 DEF CheckTerminalBoundary, TerminalBoundaryAction
  <2>4. r.ctx.faultPending = ctx.faultPending
    BY <2>2, <2>3 DEF ResetToIdle
  <2> QED
    BY <1>3, <2>4 DEF KeepsMark, Marked, r
<1>4. CASE EventAction(event, ctx) \notin {"Terminal", "RequestErrorLog"}
  <2>1. r.ctx = ctx
    BY <1>4 DEF HandleParsedControlEvent
  <2> HIDE DEF r
  <2> QED
    BY <2>1 DEF KeepsMark, r
<1> QED
  BY <1>2, <1>3, <1>4

\* The end of a region with the result r.
LEMMA PublishMark ==
    ASSUME NEW r, r.ctx \in Context, Publish(r), KeepsMark(ctx, r.ctx),
           r.ctx.faultPending = ctx.faultPending
    PROVE  IF r.fault THEN KeepsMark(ctx, ctx') /\ Marked(ctx') ELSE SameMark(ctx, ctx')
<1>1. CASE r.fault
  <2>1. ctx'.faultPending = TRUE /\ ctx'.downstreamState = r.ctx.downstreamState
    BY <1>1 DEF Publish, Context
  <2> QED
    BY <1>1, <2>1 DEF KeepsMark, Marked
<1>2. CASE ~r.fault
  BY <1>2 DEF Publish, SameMark
<1> QED
  BY <1>1, <1>2

\* A region of the audio thread that ends with a boundary check of context c, in
\* which bytes may have been counted.
LEMMA CheckedMark ==
    ASSUME TypeInv, LifecycleMatrix, NEW c \in Context, NEW k,
           c.upstreamState = ctx.upstreamState, c.downstreamState = ctx.downstreamState,
           c.faultPending = ctx.faultPending,
           Publish(CheckTerminalBoundary(c, k)), fault["audio"] = "none",
           disposition' = disposition, faultPublicationStarted' = faultPublicationStarted,
           \/ fault' = [fault EXCEPT !["audio"] =
                            IF CheckTerminalBoundary(c, k).fault THEN "pending" ELSE "none"]
           \/ fault' = fault /\ ctx.downstreamState # "Speaking"
    PROVE  MarkStep
<1> DEFINE r == CheckTerminalBoundary(c, k)
<1>1. c.upstreamState # "Failed"
  BY MatrixExcludesFailed
<1>2. SameMark(c, r.ctx) /\ (r.fault => c.downstreamState = "Speaking")
  BY <1>1, BoundaryMark
<1>3. r.ctx \in Context
  BY <1>1, CheckTerminalBoundaryStep, ContextOperators
<1>4. Publish(r)
  OBVIOUS
<1>5. /\ fault \in [Threads -> FaultStage] /\ "audio" \in Threads
      /\ \/ fault' = [fault EXCEPT !["audio"] = IF r.fault THEN "pending" ELSE "none"]
         \/ fault' = fault /\ ctx.downstreamState # "Speaking"
  BY DEF TypeInv, TypeOK, Threads, Readers
<1> HIDE DEF r
<1>6. KeepsMark(ctx, r.ctx) /\ r.ctx.faultPending = ctx.faultPending
  BY <1>2 DEF SameMark, KeepsMark
<1>7. IF r.fault THEN KeepsMark(ctx, ctx') /\ Marked(ctx') ELSE SameMark(ctx, ctx')
  BY <1>3, <1>4, <1>6, PublishMark
<1>8. CASE r.fault
  <2>1. fault' = [fault EXCEPT !["audio"] = "pending"]
    BY <1>2, <1>5, <1>8
  <2>2. Finds("audio")
    BY <1>7, <1>8, <2>1 DEF Finds
  <2> QED
    BY <1>5, <2>2 DEF MarkStep
<1>9. CASE ~r.fault
  <2>1. fault' = fault
    BY <1>5, <1>9
  <2> QED
    BY <1>7, <1>9, <2>1 DEF MarkStep, Ignores
<1> QED
  BY <1>8, <1>9

\* The audio thread.
LEMMA AudioMarkStep ==
    ASSUME TypeInv, LifecycleMatrix, AudioThread
    PROVE  MarkStep
<1> USE DEF requestVars, faultVars, localVars
<1>1. /\ ctx \in Context /\ "audio" \in Threads /\ SameMark(ctx, ctx)
  BY DEF TypeInv, TypeOK, Threads, Readers, SameMark, KeepsMark
<1>2. \A data : Counted(data) \in Context =>
            /\ Counted(data).upstreamState = ctx.upstreamState
            /\ Counted(data).downstreamState = ctx.downstreamState
            /\ Counted(data).faultPending = ctx.faultPending
            /\ SameMark(ctx, Counted(data))
  BY <1>1 DEF Counted, Context, SameMark, KeepsMark
<1>3. CASE AssemblesSpeakingAudio
  <2>1. PICK data \in Chunks : AssemblesSpeakingAudio!(data)
    BY <1>3 DEF AssemblesSpeakingAudio
  <2> DEFINE framed == Process(carry, SubSeq(data, 1, BytesToFrame(ctx, Len(data))))
             r == CheckTerminalBoundary(Counted(data), framed.carry)
  <2>2. Counted(data) \in Context /\ fault["audio"] = "none"
    BY <2>1, ReadsType DEF Reads, At
  <2>3. disposition' = disposition /\ faultPublicationStarted' = faultPublicationStarted
    BY <2>1
  <2>4. \/ /\ Publish(r)
           /\ fault' = [fault EXCEPT !["audio"] = IF r.fault THEN "pending" ELSE "none"]
        \/ ctx' = Counted(data) /\ fault' = fault
    BY <2>1
  <2>5. CASE ctx' = Counted(data) /\ fault' = fault
    BY <1>2, <2>2, <2>3, <2>5 DEF MarkStep, Ignores
  <2> HIDE DEF framed
  <2> QED
    BY <1>2, <2>2, <2>3, <2>4, <2>5, CheckedMark
<1>4. CASE AssemblyThrows
  <2>1. PICK data \in Chunks : AssemblyThrows!(data)
    BY <1>4 DEF AssemblyThrows
  <2>2. Counted(data) \in Context /\ fault["audio"] = "none"
    BY <2>1, ReadsType DEF Reads, At
  <2>3. Enters("audio")
    BY <1>2, <2>1, <2>2 DEF Enters, CallsEnterFaultedState
  <2> QED
    BY <1>1, <2>3 DEF MarkStep
<1>5. CASE DrainsCancellationAudio
  <2>1. PICK data \in Chunks : DrainsCancellationAudio!(data)
    BY <1>5 DEF DrainsCancellationAudio
  <2>2. Counted(data) \in Context /\ fault["audio"] = "none"
    BY <2>1, ReadsType DEF Reads, At
  <2>3. ctx.downstreamState # "Speaking"
    BY <2>1 DEF ChunkAction
  <2>4. /\ Publish(CheckTerminalBoundary(Counted(data), carry)) /\ fault' = fault
        /\ disposition' = disposition /\ faultPublicationStarted' = faultPublicationStarted
    BY <2>1
  <2> QED
    BY <1>2, <2>2, <2>3, <2>4, CheckedMark
<1>6. CASE FaultsOnIdleAudio
  <2>1. PICK data \in Chunks : FaultsOnIdleAudio!(data)
    BY <1>6 DEF FaultsOnIdleAudio
  <2>2. fault["audio"] = "none"
    BY <2>1 DEF Reads, At
  <2>3. ctx' = [ctx EXCEPT !.faultPending = TRUE]
    BY <2>1 DEF Publish
  <2>4. Finds("audio")
    BY <1>1, <2>1, <2>2, <2>3 DEF Finds, CallsEnterFaultedState, KeepsMark, Marked, Context
  <2> QED
    BY <1>1, <2>4 DEF MarkStep
<1>7. CASE UpdatesAfterDelivery
  <2> DEFINE action == BatchAction(ctx, batch.token, ~batch.accepted)
             credited == [ctx EXCEPT !.deliveredAudioBytes = @ + batch.credited]
             c == IF action = "CreditAndCheckBoundary" THEN credited ELSE ctx
             r == CheckTerminalBoundary(c, carry)
  <2>1. /\ credited \in Context
        /\ credited.upstreamState = ctx.upstreamState
        /\ credited.downstreamState = ctx.downstreamState
        /\ credited.faultPending = ctx.faultPending
    BY <1>1, ContextOperators DEF TypeInv, TypeOK, Batch, Context
  <2>2. /\ fault["audio"] = "none" /\ disposition' = disposition
        /\ faultPublicationStarted' = faultPublicationStarted
    BY <1>7 DEF UpdatesAfterDelivery, At
  <2>3. \/ ctx' = ctx /\ fault' = fault
        \/ /\ Publish(r)
           /\ fault' = [fault EXCEPT !["audio"] = IF r.fault THEN "pending" ELSE "none"]
        \/ /\ ctx' = TransitionToCancelling(credited) /\ fault' = fault
           /\ BeginCancellationAction(ctx) = "TransitionToCancelling"
    BY <1>7 DEF UpdatesAfterDelivery
  <2>4. CASE ctx' = ctx /\ fault' = fault
    BY <1>1, <2>2, <2>4 DEF MarkStep, Ignores
  <2>5. CASE /\ Publish(r)
             /\ fault' = [fault EXCEPT !["audio"] = IF r.fault THEN "pending" ELSE "none"]
    <3>1. /\ c \in Context
          /\ c.upstreamState = ctx.upstreamState /\ c.downstreamState = ctx.downstreamState
          /\ c.faultPending = ctx.faultPending
      BY <1>1, <2>1
    <3> HIDE DEF c
    <3> QED
      BY <2>2, <2>5, <3>1, CheckedMark
  <2>6. CASE /\ ctx' = TransitionToCancelling(credited) /\ fault' = fault
             /\ BeginCancellationAction(ctx) = "TransitionToCancelling"
    <3>1. ctx.downstreamState # "Faulted"
      BY <2>6 DEF BeginCancellationAction
    <3> HIDE DEF credited
    <3>2. ctx'.faultPending = ctx.faultPending
      BY <2>1, <2>6 DEF TransitionToCancelling, Context
    <3> QED
      BY <2>2, <2>6, <3>1, <3>2 DEF MarkStep, Ignores, SameMark, KeepsMark
  <2> QED
    BY <2>3, <2>4, <2>5, <2>6
<1>8. CASE EnterFaultedState("audio")
  BY <1>1, <1>8 DEF EnterFaultedState, MarkStep, Publishes
<1>9. CASE ReadFailed("audio") \/ AudioSendsCancel
  <2>1. /\ ctx' = ctx /\ disposition' = disposition
        /\ faultPublicationStarted' = faultPublicationStarted
        /\ \/ fault' = fault
           \/ fault["audio"] = "none" /\ fault' = [fault EXCEPT !["audio"] = "enter"]
    BY <1>9 DEF ReadFailed, AudioSendsCancel, SendsCancel, CancelSendFails, At,
                CallsEnterFaultedState
  <2> QED
    BY <1>1, <2>1 DEF MarkStep, Ignores, Enters
<1>10. CASE \/ ReadBreaks("audio") \/ LeavesLoop("audio") \/ DrainsFaultedAudio \/ AdmitsSpan
            \/ CapturesSite \/ SiteAcceptsSpan \/ SiteRejectsSpan
  <2>1. /\ ctx' = ctx /\ fault' = fault /\ disposition' = disposition
        /\ faultPublicationStarted' = faultPublicationStarted
    BY <1>10 DEF ReadBreaks, LeavesLoop, DrainsFaultedAudio, AdmitsSpan, CapturesSite,
                 SiteAcceptsSpan, SiteRejectsSpan
  <2> QED
    BY <1>1, <2>1 DEF MarkStep, Ignores
<1> QED
  BY <1>3, <1>4, <1>5, <1>6, <1>7, <1>8, <1>9, <1>10 DEF AudioThread

\* The control thread, when the event it handles is no late error log.
LEMMA ControlMarkStep ==
    ASSUME TypeInv, LifecycleMatrix, DispositionIsHeld, NoLateErrorLog, ControlThread
    PROVE  MarkStep
<1> USE DEF requestVars, faultVars, localVars
<1>1. /\ ctx \in Context /\ "control" \in Threads /\ SameMark(ctx, ctx)
      /\ fault \in [Threads -> FaultStage]
  BY DEF TypeInv, TypeOK, Threads, Readers, SameMark, KeepsMark
<1>2. ~NoDisposition.fault
  BY DEF NoDisposition
<1>3. CASE HandlesEvent
  <2> DEFINE event == Head(events)
             r == HandleParsedControlEvent(event)
  <2>1. /\ event \in Event /\ Publish(r)
        /\ Marked(ctx) => EventAction(event, ctx) # "RequestErrorLog"
    BY <1>3, HeadTailProperties DEF HandlesEvent, NextEvent, NoLateErrorLog, TypeInv, TypeOK
  <2>2. r.ctx \in Context /\ KeepsMark(ctx, r.ctx) /\ r.ctx.faultPending = ctx.faultPending
    BY <2>1, HandleParsedControlEventType, EventMark
  <2>3. /\ fault["control"] = "none" /\ disposition = NoDisposition
        /\ faultPublicationStarted' = faultPublicationStarted
        /\ \/ /\ disposition' = [event |-> event, fault |-> r.fault]
              /\ fault' = fault
           \/ /\ disposition' = disposition
              /\ fault' = [fault EXCEPT !["control"] = IF r.fault THEN "pending" ELSE "none"]
    BY <1>3 DEF HandlesEvent, NextEvent, At, DispositionIsHeld
  <2> HIDE DEF r, event
  <2>4. IF r.fault THEN KeepsMark(ctx, ctx') /\ Marked(ctx') ELSE SameMark(ctx, ctx')
    BY <2>1, <2>2, PublishMark
  <2>5. KeepsMark(ctx, ctx')
    BY <2>4 DEF SameMark
  <2>6. CASE disposition' = [event |-> event, fault |-> r.fault] /\ fault' = fault
    BY <1>2, <2>3, <2>4, <2>5, <2>6 DEF MarkStep, Forwards
  <2>7. CASE /\ disposition' = disposition
             /\ fault' = [fault EXCEPT !["control"] = IF r.fault THEN "pending" ELSE "none"]
    <3>1. CASE r.fault
      BY <1>1, <2>3, <2>4, <2>7, <3>1 DEF MarkStep, Finds
    <3>2. CASE ~r.fault
      <4>1. fault' = fault
        BY <1>1, <2>3, <2>7, <3>2
      <4> QED
        BY <2>3, <2>4, <2>7, <3>2, <4>1 DEF MarkStep, Ignores
    <3> QED
      BY <3>1, <3>2
  <2> QED
    BY <2>3, <2>6, <2>7
<1>4. CASE ReadsOrphanEvent
  <2>1. fault["control"] = "none" /\ fault' = [fault EXCEPT !["control"] = "pending"]
    BY <1>4 DEF ReadsOrphanEvent, NextEvent, At, CallsEnterFaultedState
  <2>2. ctx.upstreamState = "Faulted" => ctx.downstreamState = "Faulted"
    BY <1>1 DEF LifecycleMatrix, Context, DownstreamState
  <2>3. KeepsMark(ctx, ctx') /\ Marked(ctx')
    <3>1. CASE "Faulted" \in {ctx.upstreamState, ctx.downstreamState}
      BY <1>4, <2>2, <3>1 DEF ReadsOrphanEvent, KeepsMark, Marked
    <3>2. CASE "Faulted" \notin {ctx.upstreamState, ctx.downstreamState}
      <4>1. ctx' = [ctx EXCEPT !.faultPending = TRUE]
        BY <1>4, <3>2 DEF ReadsOrphanEvent
      <4> QED
        BY <1>1, <3>2, <4>1 DEF KeepsMark, Marked, Context
    <3> QED
      BY <3>1, <3>2
  <2>4. Finds("control")
    BY <1>4, <2>1, <2>3 DEF Finds, ReadsOrphanEvent
  <2> QED
    BY <1>1, <2>4 DEF MarkStep
<1>5. CASE AdmitsEvent \/ CapturesEventSite \/ NotifiesSite
  <2>1. /\ ctx' = ctx /\ fault["control"] = "none"
        /\ faultPublicationStarted' = faultPublicationStarted
        /\ \/ fault' = fault /\ disposition' = disposition
           \/ /\ fault' = [fault EXCEPT !["control"] =
                               IF disposition.fault THEN "pending" ELSE "none"]
              /\ disposition' = NoDisposition
    BY <1>5 DEF AdmitsEvent, CapturesEventSite, NotifiesSite, Dispatched, At
  <2>2. CASE fault' = fault /\ disposition' = disposition
    BY <1>1, <2>1, <2>2 DEF MarkStep, Ignores
  <2>3. CASE /\ fault' = [fault EXCEPT !["control"] =
                              IF disposition.fault THEN "pending" ELSE "none"]
             /\ disposition' = NoDisposition
    <3>1. ~disposition.fault => fault' = fault
      BY <1>1, <2>1, <2>3
    <3> QED
      BY <1>2, <2>1, <2>3, <3>1 DEF MarkStep, Dispatches
  <2> QED
    BY <2>1, <2>2, <2>3
<1>6. CASE EnterFaultedState("control")
  BY <1>1, <1>6 DEF EnterFaultedState, MarkStep, Publishes
<1>7. CASE ReadFailed("control")
  <2>1. /\ ctx' = ctx /\ disposition' = disposition
        /\ faultPublicationStarted' = faultPublicationStarted
        /\ \/ fault' = fault
           \/ fault["control"] = "none" /\ fault' = [fault EXCEPT !["control"] = "enter"]
    BY <1>7 DEF ReadFailed, At, CallsEnterFaultedState
  <2> QED
    BY <1>1, <2>1 DEF MarkStep, Ignores, Enters
<1>8. CASE ReadBreaks("control") \/ LeavesLoop("control") \/ ReadsMalformedLine
  <2>1. /\ ctx' = ctx /\ fault' = fault /\ disposition' = disposition
        /\ faultPublicationStarted' = faultPublicationStarted
    BY <1>8 DEF ReadBreaks, LeavesLoop, ReadsMalformedLine
  <2> QED
    BY <1>1, <2>1 DEF MarkStep, Ignores
<1> QED
  BY <1>3, <1>4, <1>5, <1>6, <1>7, <1>8 DEF ControlThread

\* A caller begins a cancellation.
LEMMA BeginsCancellationMark ==
    ASSUME TypeInv, NEW t, BeginsCancellation(t),
           BeginCancellationAction(ctx) = "TransitionToCancelling"
    PROVE  SameMark(ctx, ctx')
<1>1. ctx.downstreamState # "Faulted"
  BY DEF BeginCancellationAction
<1>2. ctx'.faultPending = ctx.faultPending
  BY DEF BeginsCancellation, TransitionToCancelling, TypeInv, TypeOK, Context
<1> QED
  BY <1>1, <1>2 DEF SameMark, KeepsMark

\* Speak and a direct caller.
LEMMA CallerMarkStep ==
    ASSUME TypeInv, SpeakThread \/ DirectCaller
    PROVE  MarkStep
<1> USE DEF requestVars, faultVars, localVars
<1>1. /\ ctx \in Context /\ {"speak", "purge"} \subseteq Threads /\ SameMark(ctx, ctx)
  BY DEF TypeInv, TypeOK, Threads, Callers, SameMark, KeepsMark
<1>2. CASE EnterFaultedState("speak") \/ EnterFaultedState("purge")
  BY <1>1, <1>2 DEF EnterFaultedState, MarkStep, Publishes
<1>3. CASE SetsObjectToken \/ RecreatesSession
  <2>1. session # "live"
    BY <1>3 DEF SetsObjectToken, RecreatesSession
  <2>2. ASSUME NEW place, CreatesSession(place) PROVE NewWorker
    BY <2>1, <2>2 DEF CreatesSession, NewWorker, FreshContext
  <2>3. CASE UNCHANGED <<requestVars, faultVars, fault, localVars>>
    BY <1>1, <2>3 DEF MarkStep, Ignores
  <2> QED
    BY <1>3, <2>2, <2>3 DEF SetsObjectToken, RecreatesSession, MarkStep
<1>4. CASE Starts
  <2>1. ctx.downstreamState = "Idle" /\ ~ctx.faultPending
    BY <1>4 DEF Starts, StartAccepted
  <2>2. ~ctx'.faultPending
    BY <1>1, <1>4, ContextOperators DEF Starts, Reset, FreshContext, Context
  <2>3. ctx.faultPending \in BOOLEAN /\ ctx'.faultPending = ctx.faultPending
    <3>1. ctx'.faultPending = FALSE
      <4>1. Reset(ctx) \in Context /\ Reset(ctx).faultPending = FALSE
        BY <1>1, ContextOperators DEF Reset, FreshContext
      <4> QED
        BY <1>4, <4>1 DEF Starts, Context
    <3> QED
      BY <1>1, <2>1, <3>1 DEF Context
  <2> QED
    BY <1>4, <2>1, <2>3 DEF Starts, MarkStep, Ignores, SameMark, KeepsMark
<1>5. CASE ObservesAbort
  BY <1>5, BeginsCancellationMark DEF ObservesAbort, MarkStep, Ignores
<1>6. CASE DrainsDirectly
  BY <1>6, BeginsCancellationMark DEF DrainsDirectly, MarkStep, Ignores
<1>7. CASE Stops
  <2>1. ctx.downstreamState # "Faulted"
    BY <1>7 DEF Stops, StopResets
  <2>2. ctx'.faultPending = ctx.faultPending
    BY <1>1, <1>7 DEF Stops, ResetToIdle, Context
  <2> QED
    BY <1>7, <2>1, <2>2 DEF Stops, MarkStep, Ignores, SameMark, KeepsMark
<1>8. CASE \/ SpeakSendFails \/ WaitTimesOut \/ SpeakCancels \/ DrainTimesOut
           \/ DirectDrainEnds \/ SendsCancel("purge", "drain") \/ CancelSendFails("purge", "done")
  <2>1. /\ ctx' = ctx /\ disposition' = disposition
        /\ faultPublicationStarted' = faultPublicationStarted
        /\ \/ fault' = fault
           \/ \E t \in {"speak", "purge"} :
                 fault[t] = "none" /\ fault' = [fault EXCEPT ![t] = "enter"]
    BY <1>8 DEF SpeakSendFails, WaitTimesOut, SpeakCancels, DrainTimesOut, DirectDrainEnds,
                SendsCancel, CancelSendFails, At, CallsEnterFaultedState
  <2> QED
    BY <1>1, <2>1 DEF MarkStep, Ignores, Enters
<1>9. CASE \/ SpeakBegins \/ FindsSessionActive \/ BeginsRetirement \/ Retires \/ HasNoSession
           \/ StartRefused \/ SendsSpeak \/ WaitEnds \/ DrainEnds \/ SpeakReturns
           \/ BeginsDestruction \/ Destroys \/ StopSends
  <2>1. /\ ctx' = ctx /\ fault' = fault /\ disposition' = disposition
        /\ faultPublicationStarted' = faultPublicationStarted
    BY <1>9 DEF SpeakBegins, FindsSessionActive, BeginsRetirement, Retires, HasNoSession,
                StartRefused, SendsSpeak, WaitEnds, DrainEnds, SpeakReturns, BeginsDestruction,
                Destroys, StopSends
  <2> QED
    BY <1>1, <2>1 DEF MarkStep, Ignores
<1> QED
  BY <1>2, <1>3, <1>4, <1>5, <1>6, <1>7, <1>8, <1>9 DEF SpeakThread, DirectCaller

\* Every step of the system.
LEMMA EveryMarkStep ==
    ASSUME TypeInv, LifecycleMatrix, DispositionIsHeld, NoLateErrorLog, [Next]_vars
    PROVE  MarkStep
<1>1. CASE InactivityElapses \/ DeadlinePasses \/ UNCHANGED workerVars \/ UNCHANGED vars
  <2>1. /\ ctx' = ctx /\ fault' = fault /\ disposition' = disposition
        /\ faultPublicationStarted' = faultPublicationStarted
    BY <1>1 DEF InactivityElapses, DeadlinePasses, workerVars, vars, requestVars, faultVars,
                localVars
  <2> QED
    BY <2>1 DEF MarkStep, Ignores, SameMark, KeepsMark
<1> QED
  BY <1>1, AudioMarkStep, ControlMarkStep, CallerMarkStep DEF Next, Terminated

\* A step keeps the quarantine: what is marked stays marked until the session is
\* replaced, and then no thread has a fault in hand.
LEMMA QuarantineStep ==
    ASSUME TypeInv, TypeInv', SessionInv, SessionInv', QuarantineInv, MarkStep
    PROVE  /\ QuarantineInv'
           /\ session = "live" /\ ctx.downstreamState = "Faulted"
                 => ctx'.downstreamState = "Faulted"
<1> USE DEF QuarantineInv, PendingFaultIsPublished, Marked, SameMark, KeepsMark
<1>1. /\ ctx \in Context /\ fault \in [Threads -> FaultStage] /\ "control" \in Threads
  BY DEF TypeInv, TypeOK, Threads, Readers
<1>2. CASE Ignores
  BY <1>2 DEF Ignores
<1>3. CASE Forwards
  BY <1>3 DEF Forwards
<1>4. CASE Dispatches
  BY <1>1, <1>4 DEF Dispatches
<1>5. CASE NewWorker
  <2>1. ~disposition.fault /\ \A t \in Threads : fault[t] = "none"
    BY <1>5 DEF NewWorker, SessionInv, RetiredIsQuiet, DispositionIsHeld, NoDisposition
  <2> QED
    BY <1>5, <2>1 DEF NewWorker
<1>6. ASSUME NEW t \in Threads, Finds(t)
      PROVE  /\ QuarantineInv'
             /\ ctx.downstreamState = "Faulted" => ctx'.downstreamState = "Faulted"
  BY <1>1, <1>6 DEF Finds
<1>7. ASSUME NEW t \in Threads, Enters(t)
      PROVE  /\ QuarantineInv'
             /\ ctx.downstreamState = "Faulted" => ctx'.downstreamState = "Faulted"
  BY <1>1, <1>7 DEF Enters
<1>8. ASSUME NEW t \in Threads, FaultsRequest(t)
      PROVE  QuarantineInv' /\ ctx'.downstreamState = "Faulted"
  <2>1. ctx'.downstreamState = "Faulted"
    BY <1>1, <1>8 DEF FaultsRequest, TransitionRequestToFaulted, Context
  <2>2. faultPublicationStarted' /\ disposition' = disposition
    BY <1>8 DEF FaultsRequest, localVars
  <2> QED
    BY <2>1, <2>2
<1>9. ASSUME NEW t \in Threads, PublishesFault(t)
      PROVE  QuarantineInv' /\ ctx'.downstreamState = "Faulted"
  <2>1. ctx'.downstreamState = ctx.downstreamState /\ ctx.downstreamState = "Faulted"
    BY <1>1, <1>9 DEF PublishesFault, Context
  <2>2. /\ faultPublicationStarted' = faultPublicationStarted /\ disposition' = disposition
        /\ faultPublicationStarted
    BY <1>9 DEF PublishesFault, localVars
  <2> QED
    BY <2>1, <2>2
<1>10. ASSUME NEW t \in Threads, CancelsIo(t)
       PROVE  QuarantineInv' /\ ctx' = ctx
  <2>1. /\ ctx' = ctx /\ disposition' = disposition
        /\ faultPublicationStarted' = faultPublicationStarted
        /\ fault' = [fault EXCEPT ![t] = "none"] /\ fault[t] = "cancelIo"
    BY <1>10 DEF CancelsIo, requestVars, faultVars, localVars
  <2> QED
    BY <1>1, <2>1
<1> QED
  BY <1>2, <1>3, <1>4, <1>5, <1>6, <1>7, <1>8, <1>9, <1>10 DEF MarkStep, Publishes, NewWorker,
     Ignores, Forwards, Dispatches
-----------------------------------------------------------------------------
(* The theorems.                                                           *)

LEMMA QuarantineInvInit == Init => QuarantineInv
BY DEF Init, FreshContext, NoDisposition, QuarantineInv, PendingFaultIsPublished, Marked

LEMMA QuarantineInvNext ==
    ASSUME TypeInv, TypeInv', LifecycleMatrix, SessionInv, SessionInv', QuarantineInv,
           NoLateErrorLog, [Next]_vars
    PROVE  /\ QuarantineInv'
           /\ session = "live" /\ ctx.downstreamState = "Faulted"
                 => ctx'.downstreamState = "Faulted"
BY EveryMarkStep, QuarantineStep DEF SessionInv

\* Every mark of a fault is kept, as long as no late error log is handled.
LEMMA QuarantineInvHolds == Spec /\ []NoLateErrorLog => []QuarantineInv
BY QuarantineInvInit, QuarantineInvNext, TypeCorrect, LifecycleMatrixHolds, SessionInvHolds,
   PTL DEF Spec

\* While any thread has a fault in hand, from the region that found it to its
\* publication, Start is refused: in every interleaving of any number of calls, with
\* any provider, host and failure, as long as no error log of a request is handled
\* after the fault was found.
THEOREM FaultBarrierHolds == Spec /\ []NoLateErrorLog => []FaultBarrier
<1>1. QuarantineInv => FaultBarrier
  BY DEF QuarantineInv, Marked, FaultBarrier, StartAccepted
<1> QED
  BY <1>1, QuarantineInvHolds, PTL

\* Nobody is locked out by a pending fault that no thread will publish.
THEOREM PendingFaultIsPublishedHolds == Spec /\ []NoLateErrorLog => []PendingFaultIsPublished
<1>1. QuarantineInv => PendingFaultIsPublished
  BY DEF QuarantineInv
<1> QED
  BY <1>1, QuarantineInvHolds, PTL

\* A faulted session stays faulted until it is retired: an error log that is late is
\* the only thing in the system that undoes a quarantine.
THEOREM QuarantineSticksHolds == Spec /\ []NoLateErrorLog => QuarantineSticks
<1>1. ASSUME TypeInv, TypeInv', LifecycleMatrix, SessionInv, SessionInv', QuarantineInv,
             NoLateErrorLog, [Next]_vars
      PROVE  [(session = "live" /\ ctx.downstreamState = "Faulted")
                => ctx'.downstreamState = "Faulted"]_vars
  BY <1>1, QuarantineInvNext
<1> QED
  BY <1>1, TypeCorrect, LifecycleMatrixHolds, SessionInvHolds, QuarantineInvHolds, PTL
     DEF Spec, QuarantineSticks
=============================================================================
