-------------------------- MODULE MCConversations --------------------------
(* Instances of Conversations for TLC.                                     *)
EXTENDS Conversations, TLC

CONSTANTS w1, w2

TwoWorkers == {w1, w2}
Twins == Permutations(TwoWorkers)
=============================================================================
