------------------------- MODULE PcmFrameAssembler -------------------------
(***************************************************************************)
(* PcmFrameAssembler.cpp: splits a byte stream that arrives in arbitrary   *)
(* chunks into complete PCM frames, keeping at most one partial frame.     *)
(* A byte is any value; SpeechWorker tags each byte with the request whose *)
(* audio it is.                                                            *)
(***************************************************************************)
EXTENDS Integers, Sequences

CONSTANT BlockAlign     \* bytes in one PCM frame (nBlockAlign)

ASSUME BlockAlignAssumption == BlockAlign \in Nat \ {0}

CalculateAlignedBytes(byteCount) == byteCount - (byteCount % BlockAlign)

\* The bytes that leave the assembler in the second span: what is aligned of
\* the data once the frame begun by the carry is complete.
Aligned(data) == SubSeq(data, 1, CalculateAlignedBytes(Len(data)))

Remainder(data) == SubSeq(data, CalculateAlignedBytes(Len(data)) + 1, Len(data))

NonEmpty(span) == IF span = <<>> THEN <<>> ELSE <<span>>

\* Process: the complete spans to write, and the carry that is left.
Process(carry, data) ==
    LET needed == BlockAlign - Len(carry)
        prefix == IF carry = <<>> THEN <<>>
                  ELSE carry \o SubSeq(data, 1, needed)
        rest   == IF carry = <<>> THEN data
                  ELSE SubSeq(data, needed + 1, Len(data))
    IN IF carry # <<>> /\ Len(data) < needed
       THEN [spans |-> <<>>, carry |-> carry \o data]
       ELSE [spans |-> NonEmpty(prefix) \o NonEmpty(Aligned(rest)),
             carry |-> Remainder(rest)]
=============================================================================
