--------------------------- MODULE MCMemoryGraph ---------------------------
(* Instances of MemoryGraph for TLC.                                       *)
EXTENDS MemoryGraph

BothStores == {"memory", "postgres"}

Item(kind, topic, status, reuse) ==
  [kind |-> kind, topic |-> topic, status |-> status, reuse |-> reuse]

(* Nothing; a promise and a risky fact of the user; a promise that is      *)
(* fulfilled and a state; a correction.                                    *)
SomeReplies == {
  <<>>,
  << Item("promise", "x", "active", FALSE), Item("user_fact", "y", "active", FALSE) >>,
  << Item("promise", "x", "fulfilled", FALSE), Item("state_basis", "y", "active", FALSE) >>,
  << Item("fact", "y", "active", TRUE) >> }

SomeCompacts == {NoCompact, <<"y">>}

TwoTopics == {"x", "y"}
TopicY == {"y"}
(* Nothing that is remembered, one topic of it, the other one often.       *)
SomeCues == {[t \in TwoTopics |-> 0], [t \in TwoTopics |-> IF t = "x" THEN 1 ELSE 0],
             [t \in TwoTopics |-> IF t = "x" THEN 0 ELSE 2]}
=============================================================================
