------------------------- MODULE ControlStreamBuffer ------------------------
(***************************************************************************)
(* ControlStreamBuffer.h: how PipeClient cuts the bytes of the control     *)
(* pipe into lines.  buffer is a sequence of bytes; readOffset and         *)
(* searchOffset count bytes from its start, as in the source.              *)
(***************************************************************************)
EXTENDS Naturals, Sequences, FiniteSetsExt

LF == 10        \* '\n'
CR == 13        \* '\r'

EmptyControlBuffer == [buffer |-> <<>>, readOffset |-> 0, searchOffset |-> 0]

AppendChunk(b, chunk) == [b EXCEPT !.buffer = @ \o chunk]

\* The positions of '\n' a search starting at searchOffset can find.
Newlines(b) == {i \in (b.searchOffset + 1) .. Len(b.buffer) : b.buffer[i] = LF}

HasLine(b) == Newlines(b) # {}

TrimCR(line) ==
    IF line # <<>> /\ line[Len(line)] = CR THEN SubSeq(line, 1, Len(line) - 1) ELSE line

\* What TryExtractLine hands out when it returns true.
Line(b) == TrimCR(SubSeq(b.buffer, b.readOffset + 1, Min(Newlines(b)) - 1))

\* Mutant: the search position is not taken along with the read position.
ExtractLineKeepsSearch(b) == [b EXCEPT !.readOffset = Min(Newlines(b))]

ExtractLine(b) ==
    LET next == Min(Newlines(b)) IN [b EXCEPT !.readOffset = next, !.searchOffset = next]

\* TryExtractLine finding nothing: the next search starts behind what was seen.
Searched(b) == [b EXCEPT !.searchOffset = Len(b.buffer)]

UnconsumedBytes(b) == Len(b.buffer) - b.readOffset

Compact(b) ==
    IF b.readOffset > 0
    THEN [buffer |-> SubSeq(b.buffer, b.readOffset + 1, Len(b.buffer)),
          readOffset |-> 0, searchOffset |-> 0]
    ELSE b
=============================================================================
