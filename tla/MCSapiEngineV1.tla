--------------------------- MODULE MCSapiEngineV1 ---------------------------
(***************************************************************************)
(* Two Azure engines of one voice, one of another and one of the mock      *)
(* provider, with one synthesizer per voice in the pool.  Four plans: one  *)
(* Azure engine speaks three requests that mix text, entities, prosody and *)
(* bookmarks; two engines of one voice speak at the same time; two of      *)
(* different voices do, one of them twice; the mock speaks.                *)
(***************************************************************************)
EXTENDS SapiEngineV1

MCEngines == 1 .. 4

MCDll == <<"azure", "azure", "azure", "mock">>

MCVoice == <<"a", "a", "b", "m">>

Text(text, offset, prosody) ==
    [action |-> "speak", text |-> text, offset |-> offset, prosody |-> prosody]

Bookmark(name, offset) ==
    [action |-> "bookmark", text |-> name, offset |-> offset, prosody |-> "plain"]

Mixed ==
    <<Text(<<"letter">>, 3, "slow"), Bookmark(<<"letter">>, 4),
      Text(<<"amp", "space", "letter">>, 5, "loud")>>

Marked == <<Bookmark(<<"stop">>, 0)>>

Joined ==
    <<Text(<<"letter">>, 1, "plain"),
      [Text(<<>>, 2, "loud") EXCEPT !.action = "silence"],
      Text(<<"letter", "space", "letter">>, 3, "plain")>>

Short == <<Text(<<"letter">>, 1, "plain")>>

Dot == <<Text(<<"stop">>, 1, "plain")>>

MCPlans ==
    {<< <<Mixed, Marked, Joined>>, <<>>, <<>>, <<>> >>,
     << <<Short>>, <<Short>>, <<>>, <<>> >>,
     << <<Dot, Dot>>, <<>>, <<Dot>>, <<>> >>,
     << <<>>, <<>>, <<>>, <<Mixed, Marked>> >>}

MCSynths == 1 .. 4
=============================================================================
