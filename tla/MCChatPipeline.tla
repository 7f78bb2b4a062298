--------------------------- MODULE MCChatPipeline ---------------------------
(* Instances of ChatPipeline for TLC.                                      *)
EXTENDS ChatPipeline, TLC

CONSTANTS c1, c2, k1, k2

OneConn == {c1}
TwoConns == {c1, c2}
OneConv == {k1}
TwoConvs == {k1, k2}
Symmetric == Permutations(TwoConns) \cup Permutations(TwoConvs)
=============================================================================
