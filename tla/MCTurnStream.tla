---------------------------- MODULE MCTurnStream ----------------------------
(* Instances of TurnStream for TLC.                                        *)
EXTENDS TurnStream

Both == <<"responses", "chat">>
Chat == <<"chat">>
Responses == <<"responses">>

TheWords == {"a", "b"}

(* Answers: thoughts, words and a status tag, a marker cut in two; a       *)
(* memory tag with a full stop in it and a cut boundary; a tag alone.      *)
TheStreams == {
  << <<"<t">>, <<"t>", "h", "/>", "a", "b", "[s", "s:", "h", "]">> >>,
  << <<"a", "_", "[m", "m:", "h.", "]", "<M">>, <<"M>", "b">> >>,
  << <<"[s", "s:", "h", "]">> >> }
=============================================================================
