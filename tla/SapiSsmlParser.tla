--------------------------- MODULE SapiSsmlParser ---------------------------
(***************************************************************************)
(* v1/SapiSsmlParser.Cpp/SapiSsmlParser.cpp: the SSML document made of the *)
(* fragments of a request, and the map from positions of that document     *)
(* back to the text of the application.  A character is known by its       *)
(* class; a fragment is a record [action, text, offset, prosody], prosody  *)
(* "plain" being the default pitch, volume and rate.  The document is a    *)
(* sequence of tokens, each with its width.                                *)
(***************************************************************************)
EXTENDS Integers, Sequences, SequencesExt

Escaped == {"amp", "quote"}         \* written as an entity
TagWidth == 4                       \* any width but zero would do
EntityWidth == 5

NeedAddingSpace(left, right) ==
    /\ {left, right} \cap {"space", "nul", "ideograph", "joiner"} = {}
    /\ right \notin {"stop", "quote"}
    /\ left \notin {"open", "quote"}

\* AppendEscapedXml drops embedded nulls.
CharWidth(c) == CASE c = "nul" -> 0 [] c \in Escaped -> EntityWidth [] OTHER -> 1

\* src and prosody are those of the fragment; shift is by how much its earlier
\* characters are longer in the document than in the text.
Token(tag, width) ==
    [tag |-> tag, width |-> width, char |-> "none", src |-> 0, shift |-> 0,
     prosody |-> "plain", name |-> <<>>]

TextTokens(f) ==
    [k \in 1 .. Len(f.text) |->
       [Token("char", CharWidth(f.text[k])) EXCEPT
          !.char = f.text[k], !.src = f.offset + k - 1, !.prosody = f.prosody,
          !.shift = FoldLeft(LAMBDA n, c : n + CharWidth(c) - 1, 0, SubSeq(f.text, 1, k - 1))]]

Width(tokens) == FoldLeft(LAMBDA n, t : n + t.width, 0, tokens)

Start == [doc |-> <<Token("speak", TagWidth)>>, map |-> <<>>, open |-> "plain",
          last |-> "none", speakable |-> FALSE]

Emit(r, tokens) == [r EXCEPT !.doc = @ \o tokens]

MapHere(r, f) == [r EXCEPT !.map = Append(@, <<Width(r.doc), f.offset>>)]

CloseProsody(r) == [Emit(r, <<Token("/prosody", TagWidth)>>) EXCEPT !.open = "plain"]

OpenProsody(r, p) ==
    [Emit(r, <<[Token("prosody", TagWidth) EXCEPT !.prosody = p]>>) EXCEPT !.open = p]

AddBookmark(r, f) ==
    Emit(MapHere(r, f), <<[Token("bookmark", TagWidth) EXCEPT !.name = f.text]>>)

AddText(r, f) ==
    LET closed == IF r.open # "plain" /\ f.prosody # r.open THEN CloseProsody(r) ELSE r
        spaced == IF f.text # <<>> /\ r.last # "none" /\ NeedAddingSpace(r.last, f.text[1])
                  THEN Emit(closed, <<Token("space", 1)>>) ELSE closed
        opened == IF f.prosody # "plain" /\ spaced.open = "plain"
                  THEN OpenProsody(spaced, f.prosody) ELSE spaced
    IN  [Emit(MapHere(opened, f), TextTokens(f)) EXCEPT
           !.last = IF f.text = <<>> THEN @ ELSE Last(f.text),
           !.speakable = @ \/ f.text # <<>>]

\* Mutant: the position is taken before the tags in front of the text.
AddFragmentMappedEarly(r, f) ==
    IF f.action = "bookmark" THEN AddBookmark(r, f)
    ELSE [AddText(r, f) EXCEPT !.map = MapHere(r, f).map]

\* Sections and parts of speech are skipped.
AddFragment(r, f) ==
    CASE f.action = "bookmark" -> AddBookmark(r, f)
      [] f.action \in {"speak", "spellOut", "pronounce"} -> AddText(r, f)
      [] OTHER -> r

Parse(fragments) ==
    LET r == FoldLeft(AddFragment, Start, fragments)
        closed == IF r.open # "plain" THEN CloseProsody(r) ELSE r
    IN  Emit(closed, <<Token("/speak", TagWidth)>>)

\* SynthesizerPool.cpp: the last mapped position at or before the offset.
ReverseMapOffset(pos, map) ==
    LET before == {i \in DOMAIN map : map[i][1] <= pos}
    IN  IF before = {} THEN 0
        ELSE LET i == CHOOSE i \in before : \A j \in before : j <= i
             IN  map[i][2] + (pos - map[i][1])
=============================================================================
