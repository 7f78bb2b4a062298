---------------------------- MODULE MemoryGraph ----------------------------
(***************************************************************************)
(* What a bot remembers of its conversation with a user: the post-turn     *)
(* subtasks that write memories (agentx/subtasks/runner.go), the temporal  *)
(* memory graph they go to (agentx/memorygraph) and the two stores of both *)
(* (store/temporal_memory_graph.go, store/agentx_data.go and their         *)
(* Postgres counterparts).                                                 *)
(*                                                                         *)
(* The subtasks of a turn run in a goroutine of their own (ws_chat.go:274) *)
(* and every store call locks by itself, so the calls of two turns         *)
(* interleave.  PostgresStore writes to the embedded in-memory store first *)
(* and to its table then, and reads the embedded store when the table      *)
(* yields nothing.                                                         *)
(*                                                                         *)
(* An id is a sequence of numbers: <<t, i>> is the UUID of the i-th item   *)
(* of turn t, <<t>> \o id the node "tm:t:type:id", <<t, 0, i>> the node    *)
(* "summary-fact:t:i".  What a memory says is a topic: two memories of one *)
(* type are similar (at least 0.72) when they have the same topic.         *)
(***************************************************************************)
EXTENDS Naturals, Sequences, SequencesExt, FiniteSets, FiniteSetsExt

CONSTANTS
  Stores,       \* the stores a deployment may have: "memory" or "postgres"
  NTurns,       \* bound: turns of the conversation
  Topics,
  Risky,        \* topics with a cue of highRiskUserFactCues (ingest.go:17)
  Replies,      \* what memory extraction may answer: sequences of items
  Compacts,     \* what the compact prompt may answer: sequences of topics, or NoCompact
  Cues,         \* what may be asked: hints found in a memory, by its topic
  Limit,        \* ActivationLimit of a reply, 6 (runtime_context.go:243)
  MaxDepth,     \* how far activation spreads (runtime_context.go:243)
  ListLimit,    \* nodes a recall or a merge looks at (service.go:88,196)
  MaxCards,     \* cards of a prompt, 5 (runtime_context.go:20)
  MaxFaults,    \* bound: statements that fail
  MaxRestarts   \* bound: restarts of the process

Kinds == {"event", "promise", "self_fact", "user_fact", "habit", "state_basis", "fact"}
Statuses == {"active", "fulfilled", "expired", "rejected", "archived"}
NoCompact == <<"none">>
None == "none"

ASSUME MemoryAssumption ==
  /\ Stores \subseteq {"memory", "postgres"} /\ NTurns \in Nat
  /\ Replies \subseteq Seq([kind : Kinds, topic : Topics, status : Statuses, reuse : BOOLEAN])
  /\ Compacts \subseteq Seq(Topics) \cup {NoCompact} /\ None \notin Topics
  /\ Cues \subseteq [Topics -> Nat]
  /\ Limit \in 1 .. 6 /\ MaxDepth \in Nat \ {0} /\ ListLimit \in Nat \ {0}
  /\ MaxCards \in Nat \ {0, 1} /\ MaxFaults \in Nat /\ MaxRestarts \in Nat

Turns == 1 .. NTurns
SummaryId == <<0>>

VARIABLES
  store,    \* which store this deployment has
  memory,   \* Store.memoryNodesByID: the only nodes, or those of the embedded store
  rows,     \* table memory_nodes
  links,    \* Store.memoryEdgesByID
  items,    \* ids that ListMemoryItems can show
  compact,  \* turn of the conversation's compact, 0 before the first
  mood,     \* turn of the bot's runtime state, 0 before the first
  task,     \* subtasks of each turn
  clock,    \* stamps given so far
  serial,   \* no two turns have run their subtasks at once
  faults, restarts

vars == <<store, memory, rows, links, items, compact, mood, task, clock, serial, faults, restarts>>

-----------------------------------------------------------------------------
(* Nodes.                                                                  *)

(* The k nodes of S that happened last; stamps are unique.                 *)
Newest(S, k) == {n \in S : Cardinality({m \in S : m.at > n.at}) < k}
(* Fault: a node is added beside the one it replaces.                      *)
PutBeside(S, n) == S \cup {n}
Put(S, n) == {m \in S : m.id # n.id} \cup {n}

(* mapMemoryKindToNodeType, with the exception for risky facts about the   *)
(* user.                                                                   *)
NodeType(kind, topic) ==
  CASE kind = "promise" -> "promise"
    [] kind = "state_basis" -> "state_snapshot"
    [] kind = "user_fact" /\ topic \notin Risky -> "user_fact"
    [] OTHER -> "episode"

ItemNode(t, item) ==
  [id |-> <<t>> \o item.id, type |-> NodeType(item.kind, item.topic), topic |-> item.topic,
   status |-> item.status, at |-> item.at, evidence |-> 1, turn |-> t]
FactNode(t, i, topic, now) ==
  [id |-> <<t, 0, i>>, type |-> "episode", topic |-> topic,
   status |-> "active", at |-> now + i, evidence |-> 1, turn |-> t]
SummaryNode(t, now) ==
  [id |-> SummaryId, type |-> "session_summary", topic |-> None,
   status |-> "active", at |-> now, evidence |-> 1, turn |-> t]

Select(S, types) == Newest({n \in S : n.status = "active" /\ n.type \in types}, ListLimit)
AllTypes == {"episode", "promise", "state_snapshot", "user_fact", "session_summary"}

(* ListMemoryNodes of the store the deployment has; broken means that the  *)
(* query fails.                                                            *)
ListNodes(types, broken) ==
  LET found == Select(rows, types)
  IN  IF store = "memory" \/ broken \/ found = {} THEN Select(memory, types) ELSE found

(* findBestSimilarityNode: of the equally similar ones the first listed,   *)
(* never the candidate itself.                                             *)
Similar(n, m) == m.topic = n.topic /\ m.type = n.type
BestMatch(n, listed) ==
  LET found == {m \in listed : m.id # n.id /\ Similar(n, m)}
  IN  IF found = {} THEN {} ELSE Newest(found, 1)

(* Fault: the merge forgets to add the evidence.                           *)
MergeSilently(old, n) == [old EXCEPT !.at = IF n.at > @ THEN n.at ELSE @]

(* mergeNode keeps what the existing node is, its status too.              *)
Merge(old, n) ==
  [old EXCEPT !.at = IF n.at > @ THEN n.at ELSE @, !.evidence = @ + n.evidence]

(* The sort of BuildTurnEdges: of two nodes stamped alike, which have the  *)
(* same id then, either may come first.                                    *)
Before(nodes, j, i) == nodes[j].at < nodes[i].at \/ (nodes[j].at = nodes[i].at /\ j < i)
Place(nodes, i) == 1 + Cardinality({j \in DOMAIN nodes : Before(nodes, j, i)})
InTime(nodes) ==
  [k \in DOMAIN nodes |-> nodes[CHOOSE i \in DOMAIN nodes : Place(nodes, i) = k]]

(* Fault: the loop over the sorted nodes ends one early.                   *)
TurnEdgesButLast(nodes) ==
  LET sorted == InTime(nodes)
  IN  [i \in 1 .. (IF Len(nodes) < 2 THEN 0 ELSE Len(nodes) - 2) |->
         [from |-> sorted[i + 1].id, to |-> sorted[i].id, type |-> "follows"]]

(* BuildTurnEdges: the persisted nodes in the order of time, each but the  *)
(* first follows the one before.                                           *)
TurnEdges(nodes) ==
  LET sorted == InTime(nodes)
  IN  [i \in 1 .. (IF nodes = <<>> THEN 0 ELSE Len(nodes) - 1) |->
         [from |-> sorted[i + 1].id, to |-> sorted[i].id, type |-> "follows"]]
SummaryEdges(nodes) ==
  [i \in DOMAIN nodes |-> [from |-> SummaryId, to |-> nodes[i].id, type |-> "summarizes"]]

-----------------------------------------------------------------------------
(* Recall.  Scores are in hundredths; all memories of a run are fresh, so  *)
(* that recencyScore is 1 (0.45 for a promise).                            *)

(* Type prior, recency, open loop and 0.35 of the salience.                *)
Weight(type) ==
  CASE type = "promise" -> 92 + 45 + 115 + 28
    [] type = "state_snapshot" -> 25 + 100 + 24
    [] type = "user_fact" -> 40 + 100 + 24
    [] type = "session_summary" -> 36 + 100 + 23
    [] OTHER -> 48 + 100 + 24

Score(n, cue) == Weight(n.type) + 72 * (IF n.topic \in Topics THEN cue[n.topic] ELSE 0)

(* associativeBonus.                                                       *)
Bonus(n) ==
  CASE n.type = "promise" -> 10 + 35 + 6 [] n.type = "episode" -> 10 + 8 + 15 [] OTHER -> 10 + 15

EdgeWeight(e) == IF e.type = "follows" THEN 72 ELSE 80
(* Fault: no damping from one hop to the next.                             *)
PassedUndamped(amount, e, n) == (amount * EdgeWeight(e)) \div 100 + Bonus(n)
Passed(amount, e, n) == (amount * 58 * EdgeWeight(e)) \div 10000 + Bonus(n)

(* The k nodes of S with the highest values, the later one first if equal. *)
Top(S, k, value) ==
  {n \in S : Cardinality({m \in S : \/ value[m] > value[n]
                                    \/ value[m] = value[n] /\ m.at > n.at}) < k}

SelectSeeds(nodes, cue, limit) == Top(nodes, limit, [n \in nodes |-> Score(n, cue)])

(* BaseRecallNodes: the latest state and session summary, and promises up  *)
(* to five in all.                                                         *)
BaseRecallNodes(nodes) ==
  LET OfType(type) == {n \in nodes : n.type = type}
      latest == Newest(OfType("state_snapshot"), 1) \cup Newest(OfType("session_summary"), 1)
  IN  latest \cup Newest(OfType("promise"), 5 - Cardinality(latest))

Ends(e) == {e.from, e.to}

(* What n is sent over edges from nodes that were new in the last wave w.  *)
Sent(n, new, w, edges) ==
  {Passed(w[p[1]], p[2], n) : p \in
     {q \in new \X edges : q[1].id # n.id /\ Ends(q[2]) = {q[1].id, n.id}}}

(* The wave after w, where before are the nodes of the one before w.       *)
NextWave(w, before, nodes, edges) ==
  LET new == DOMAIN w \ before
      next == {n \in nodes \ DOMAIN w : Sent(n, new, w, edges) # {}}
  IN  [n \in DOMAIN w \cup next |-> IF n \in DOMAIN w THEN w[n] ELSE Max(Sent(n, new, w, edges))]

(* What each node reached within MaxDepth edges of a seed is sent, by the  *)
(* queue of BuildActivationSet: a node counts only where it is nearest to  *)
(* a seed, and there for the most that a neighbour sends it.               *)
Spread(seeds, nodes, edges) ==
  LET wave[d \in 0 .. MaxDepth] ==
        IF d = 0 THEN [n \in seeds |-> 135]
        ELSE NextWave(wave[d - 1], IF d = 1 THEN {} ELSE DOMAIN wave[d - 2], nodes, edges)
  IN  wave[MaxDepth]

(* BuildActivationSet: the best of the listed nodes that were reached.     *)
Seeds(nodes, cue, limit) ==
  SelectSeeds(nodes, cue, IF limit < 6 THEN limit ELSE 6) \cup BaseRecallNodes(nodes)
Activate(nodes, edges, cue, limit) ==
  LET sent == Spread(Seeds(nodes, cue, limit), nodes, edges)
      reached == {n \in nodes : n \in DOMAIN sent}
  IN  Top(reached, limit, [n \in reached |-> Score(n, cue) + sent[n]])

(* BuildRecallChains: the activated nodes that "follows" edges join.       *)
Chain(n, activated, edges) ==
  LET near(S) == {m \in activated : \E e \in edges, k \in S :
                    e.type = "follows" /\ Ends(e) = {m.id, k.id}}
      grown[i \in 0 .. Cardinality(activated)] ==
        IF i = 0 THEN {n} ELSE grown[i - 1] \cup near(grown[i - 1])
  IN  grown[Cardinality(activated)]

(* Fault: the open loops come last.                                        *)
CardsLoopsLast(activated) ==
  LET For(type, card) == IF \E n \in activated : n.type = type THEN <<card>> ELSE <<>>
      candidates == For("state_snapshot", "state_card") \o For("user_fact", "user_card")
                    \o (IF activated = {} THEN <<>> ELSE <<"episode_chain_card">>)
                    \o For("session_summary", "session_bridge_card")
                    \o For("promise", "open_loops_card")
  IN  SubSeq(candidates, 1, IF Len(candidates) < MaxCards THEN Len(candidates) ELSE MaxCards)

(* AssemblePromptCards: the cards there is something for, in the order of  *)
(* the code, as many as the budget holds.  No node is a self_model outside *)
(* of tests.                                                               *)
Cards(activated) ==
  LET For(type, card) == IF \E n \in activated : n.type = type THEN <<card>> ELSE <<>>
      candidates == For("state_snapshot", "state_card") \o For("promise", "open_loops_card")
                    \o For("user_fact", "user_card")
                    \o (IF activated = {} THEN <<>> ELSE <<"episode_chain_card">>)
                    \o For("session_summary", "session_bridge_card")
  IN  SubSeq(candidates, 1, IF Len(candidates) < MaxCards THEN Len(candidates) ELSE MaxCards)

Recalled(broken, cue, limit) == Activate(ListNodes(AllTypes, broken), links, cue, limit)

-----------------------------------------------------------------------------
NoTask == [at |-> "idle", todo |-> <<>>, saved |-> <<>>, compact |-> NoCompact, candidates |-> <<>>,
           match |-> {}, kept |-> <<>>, edges |-> <<>>, now |-> 0]
(* What is left of a task that has ended in the given way: the nodes it    *)
(* persisted.                                                              *)
Ended(w, how) == [NoTask EXCEPT !.at = how, !.kept = w.kept]

(* IngestTurn between two store calls: from the last node to the edges of  *)
(* the turn, and to its end when nothing is left to write.                 *)
Onward(w) ==
  LET x == IF w.at = "read" /\ w.candidates = <<>>
           THEN [w EXCEPT !.at = "links", !.edges = TurnEdges(w.kept)] ELSE w
      over == x.edges = <<>> /\ (x.at = "summaryLinks" \/ (x.at = "links" /\ x.compact = NoCompact))
  IN  IF over THEN Ended(x, "done") ELSE x

Working(t) == task[t].at \notin {"idle", "done", "failed", "gone"}

Init ==
  /\ store \in Stores
  /\ memory = {} /\ rows = {} /\ links = {} /\ items = {}
  /\ compact = 0 /\ mood = 0 /\ clock = 0
  /\ task = [t \in Turns |-> NoTask]
  /\ serial = TRUE /\ faults = 0 /\ restarts = 0

(* What a statement may do: only Postgres has statements that fail.        *)
Outcomes == IF store = "postgres" /\ faults < MaxFaults THEN BOOLEAN ELSE {FALSE}
Count(broken) == faults' = IF broken THEN faults + 1 ELSE faults

(* buildMemoryCandidateContext: the ids shown to the model, those of the   *)
(* nodes if there are any and else those of the memory items.              *)
ShownIds(broken) ==
  LET recalled == Recalled(broken, [x \in Topics |-> 0], Limit + 2)
  IN  IF recalled = {} THEN items ELSE {n.id : n \in recalled}

(* The model answers what to remember of turn t; an item that corrects     *)
(* what it was shown reuses the id.                                        *)
Extract(t) ==
  /\ task[t].at = "idle" /\ \A u \in Turns : u < t => task[u].at # "idle"
  /\ \E broken \in Outcomes, reply \in Replies, new \in Compacts :
       /\ \E ids \in [DOMAIN reply -> ShownIds(broken) \cup {<<t, i>> : i \in DOMAIN reply}] :
            /\ IsInjective(ids)
            /\ \A i \in DOMAIN reply : IF reply[i].reuse THEN ids[i] \in ShownIds(broken)
                                                          ELSE ids[i] = <<t, i>>
            /\ task' = [task EXCEPT ![t].at = "items", ![t].compact = new,
                          ![t].todo = [i \in DOMAIN reply |->
                            [id |-> ids[i], kind |-> reply[i].kind, topic |-> reply[i].topic,
                             status |-> reply[i].status]]]
       /\ Count(broken)
  /\ serial' = (serial /\ \A u \in Turns : ~Working(u))
  /\ UNCHANGED <<store, memory, rows, links, items, compact, mood, clock, restarts>>

(* applyMemory, one UpsertMemoryItem.  The id of a node is not a UUID, so  *)
(* that Postgres refuses an item under it; an error ends the loop and what *)
(* was saved is not passed on.                                             *)
SaveItem(t) ==
  /\ task[t].at = "items" /\ task[t].todo # <<>>
  /\ LET item == Head(task[t].todo) IN
     \E broken \in Outcomes :
       IF broken \/ (store = "postgres" /\ Len(item.id) > 2)
       THEN /\ task' = [task EXCEPT ![t].at = "compact", ![t].todo = <<>>, ![t].saved = <<>>]
            /\ Count(broken)
            /\ UNCHANGED <<items, clock>>
       ELSE /\ task' = [task EXCEPT ![t].todo = Tail(@),
                          ![t].saved = Append(@, [id |-> item.id, kind |-> item.kind,
                            topic |-> item.topic, status |-> item.status, at |-> clock + 1])]
            /\ items' = items \cup {item.id}
            /\ clock' = clock + 1
            /\ UNCHANGED faults
  /\ UNCHANGED <<store, memory, rows, links, compact, mood, serial, restarts>>

(* updateRuntimeState: the last item that says something of the bot's life *)
(* becomes its state, whatever the state is by then.                       *)
MoodKinds == {"self_fact", "state_basis", "event", "habit"}
SetMood(t) ==
  /\ task[t].at = "items" /\ task[t].todo = <<>>
  /\ task' = [task EXCEPT ![t].at = "compact"]
  /\ IF \E i \in DOMAIN task[t].saved : task[t].saved[i].kind \in MoodKinds
     THEN \E broken \in Outcomes : mood' = (IF broken THEN mood ELSE t) /\ Count(broken)
     ELSE UNCHANGED <<mood, faults>>
  /\ UNCHANGED <<store, memory, rows, links, items, compact, clock, serial, restarts>>

(* The compact replaces the one there is, and the ingestion of what this   *)
(* turn brought begins (IngestTurn), at the instant of the next stamp.  An *)
(* error of the write is not looked at.                                    *)
SaveCompact(t) ==
  /\ task[t].at = "compact"
  /\ LET facts == IF task[t].compact = NoCompact THEN <<>> ELSE task[t].compact
         items_ == [i \in DOMAIN task[t].saved |-> ItemNode(t, task[t].saved[i])]
         facts_ == [i \in DOMAIN facts |-> FactNode(t, i, facts[i], clock + 1)]
         idle == task[t].saved = <<>> /\ task[t].compact = NoCompact
     IN  /\ task' = [task EXCEPT ![t] = IF idle THEN Ended(@, "done")
                       ELSE Onward([@ EXCEPT !.at = "read", !.now = clock + 1, !.saved = <<>>,
                                             !.candidates = items_ \o facts_])]
         /\ clock' = clock + 1 + Len(facts)
  /\ IF task[t].compact # NoCompact
     THEN \E broken \in Outcomes : compact' = (IF broken THEN compact ELSE t) /\ Count(broken)
     ELSE UNCHANGED <<compact, faults>>
  /\ UNCHANGED <<store, memory, rows, links, items, mood, serial, restarts>>

(* upsertMemoryFact: look for a node to merge the next candidate into ...  *)
ReadSimilar(t) ==
  /\ task[t].at = "read" /\ task[t].candidates # <<>>
  /\ LET n == Head(task[t].candidates) IN
     \E broken \in Outcomes :
       /\ task' = [task EXCEPT ![t].at = "write",
                     ![t].match = BestMatch(n, ListNodes({n.type}, broken))]
       /\ Count(broken)
  /\ UNCHANGED <<store, memory, rows, links, items, compact, mood, clock, serial, restarts>>

(* A node is written to the embedded store and, with Postgres, to its row; *)
(* next is where the task goes on when both succeed.                       *)
WriteBoth(t, n, next) ==
  /\ memory' = Put(memory, n)
  /\ \E broken \in Outcomes :
       /\ rows' = IF store = "memory" \/ broken THEN rows ELSE Put(rows, n)
       /\ task' = [task EXCEPT ![t] = IF broken THEN Ended(@, "failed") ELSE Onward(next)]
       /\ Count(broken)

(* ... and write the one merged from what was read, or the candidate.      *)
WriteNode(t) ==
  /\ task[t].at = "write"
  /\ LET n == Head(task[t].candidates)
         merged == IF task[t].match = {} THEN n
                   ELSE Merge(CHOOSE m \in task[t].match : TRUE, n)
         kept == Append(task[t].kept, merged)
         rest == Tail(task[t].candidates)
     IN  WriteBoth(t, merged, [task[t] EXCEPT !.at = "read", !.match = {}, !.kept = kept,
                                 !.candidates = rest])
  /\ UNCHANGED <<store, links, items, compact, mood, clock, serial, restarts>>

(* CreateMemoryEdge.  The id of an edge is a text and the key of table     *)
(* memory_edges a UUID: with Postgres the edge is in the embedded store,   *)
(* every insert fails, and the ingestion ends with it.                     *)
Link(t) ==
  /\ task[t].at \in {"links", "summaryLinks"} /\ task[t].edges # <<>>
  /\ links' = links \cup {Head(task[t].edges)}
  /\ task' = [task EXCEPT ![t] = IF store = "postgres" THEN Ended(@, "failed")
                                 ELSE Onward([task[t] EXCEPT !.edges = Tail(@)])]
  /\ UNCHANGED <<store, memory, rows, items, compact, mood, clock, serial, faults, restarts>>

(* Fault: a summary that exists is left as it is.                          *)
SummarizeOnce(t) ==
  /\ task[t].at = "links" /\ task[t].edges = <<>> /\ task[t].compact # NoCompact
  /\ LET facts == Len(task[t].compact)
         all == task[t].kept
         of == SubSeq(all, Len(all) - facts + 1, Len(all))
         found == {n \in memory : n.id = SummaryId}
     IN  WriteBoth(t, IF found = {} THEN SummaryNode(t, task[t].now) ELSE CHOOSE n \in found : TRUE,
                   [task[t] EXCEPT !.at = "summaryLinks", !.edges = SummaryEdges(of)])
  /\ UNCHANGED <<store, links, items, compact, mood, clock, serial, restarts>>

(* upsertSessionSummary: the one summary node of the conversation is       *)
(* replaced by that of this turn.                                          *)
Summarize(t) ==
  /\ task[t].at = "links" /\ task[t].edges = <<>> /\ task[t].compact # NoCompact
  /\ LET facts == Len(task[t].compact)
         all == task[t].kept
         of == SubSeq(all, Len(all) - facts + 1, Len(all))
     IN  WriteBoth(t, SummaryNode(t, task[t].now),
                   [task[t] EXCEPT !.at = "summaryLinks", !.edges = SummaryEdges(of)])
  /\ UNCHANGED <<store, links, items, compact, mood, clock, serial, restarts>>

(* A restart leaves what the database has.                                 *)
Restart ==
  /\ store = "postgres" /\ restarts < MaxRestarts
  /\ restarts' = restarts + 1
  /\ memory' = {} /\ links' = {}
  /\ task' = [t \in Turns |-> IF Working(t) THEN Ended(task[t], "gone") ELSE task[t]]
  /\ UNCHANGED <<store, rows, items, compact, mood, clock, serial, faults>>

Next ==
  \/ \E t \in Turns : \/ Extract(t) \/ SaveItem(t) \/ SetMood(t) \/ SaveCompact(t)
                      \/ ReadSimilar(t) \/ WriteNode(t) \/ Link(t) \/ Summarize(t)
  \/ Restart

Spec == Init /\ [][Next]_vars

-----------------------------------------------------------------------------
(* Properties.                                                             *)

(* The nodes the deployment keeps.                                         *)
Nodes == IF store = "memory" THEN memory ELSE rows

(* Nodes have one record per id and are what they can be; what a task      *)
(* keeps are nodes; nothing is stamped later than the clock.               *)
TypeOK ==
  /\ store \in Stores /\ serial \in BOOLEAN
  /\ faults \in 0 .. MaxFaults /\ restarts \in 0 .. MaxRestarts
  /\ {compact, mood} \subseteq 0 .. NTurns
  /\ \A S \in {memory, rows} :
       /\ \A n, m \in S : n.id = m.id => n = m
       /\ \A n \in S : /\ n.type \in AllTypes /\ n.topic \in Topics \cup {None}
                       /\ n.status \in Statuses /\ n.at \in 1 .. clock
                       /\ n.evidence \in Nat \ {0} /\ n.turn \in Turns
  /\ store = "memory" => rows = {}
  /\ \A e \in links : e.type \in {"follows", "summarizes"}
  /\ \A t \in Turns : \A i \in DOMAIN task[t].kept : task[t].kept[i].type \in AllTypes

(* The nodes about a topic with the evidence for them piece by piece, and  *)
(* the occasions on which a turn brought it.                               *)
About(type, topic) == {n \in Nodes : n.type = type /\ n.topic = topic}
Evidence(S) == UNION {{n} \X (1 .. n.evidence) : n \in S}
Ingested(type, topic) ==
  {p \in UNION {{t} \X DOMAIN task[t].kept : t \in Turns} :
     LET n == task[p[1]].kept[p[2]] IN n.type = type /\ n.topic = topic}

(* Nothing that was ingested is lost or counted twice: as long as no two   *)
(* turns run their subtasks at once and no statement fails, the evidence   *)
(* of the nodes about a topic is the number of times it was ingested, and  *)
(* one active node at most stands for it (upsertMemoryFact, mergeNode).    *)
(* Restarts do not change that.                                            *)
EvidenceAddsUp(type, topic) ==
  Cardinality(Evidence(About(type, topic))) = Cardinality(Ingested(type, topic))
OneIsActive(type, topic) ==
  Cardinality({n \in About(type, topic) : n.status = "active"}) <= 1
EvidenceIsCounted ==
  serial /\ faults = 0 =>
    \A type \in AllTypes \ {"session_summary"}, topic \in Topics :
      EvidenceAddsUp(type, topic) /\ OneIsActive(type, topic)

(* What a turn brought can be recalled as one story, in whatever order the *)
(* turns ran and whatever was merged with what: its nodes are joined by    *)
(* "follows" edges among themselves (BuildTurnEdges, BuildRecallChains).   *)
TurnIsOneStory ==
  store = "memory" =>
    \A t \in Turns : task[t].at = "done" =>
      LET brought == {n \in memory : \E i \in DOMAIN task[t].kept : task[t].kept[i].id = n.id}
      IN  \A n \in brought : Chain(n, brought, links) = brought

(* Each compact is also a session summary (the design of 2026-03-08, line  *)
(* 214): when the subtasks of all turns have ended one after the other,    *)
(* the summary node is that of the turn the compact is from.  In Postgres  *)
(* the ingestion of a turn may end at its edges (see Link).                *)
CompactIsSummarized ==
  store = "memory" /\ serial /\ faults = 0 /\ compact # 0 /\ (\A t \in Turns : ~Working(t)) =>
    \E n \in memory : n.id = SummaryId /\ n.turn = compact

(* The prompt of a turn is built before its subtasks begin: by then those  *)
(* of earlier turns may be anywhere.                                       *)
Asked == (\E t \in Turns : task[t].at = "idle") \/ \A t \in Turns : ~Working(t)

(* Spreading only fills places that are free: whatever is asked, the nodes *)
(* with the best scores of their own are among those recalled, for what an *)
(* edge passes on is less than what a seed starts with, bonus and all      *)
(* (BuildActivationSet).  With as many nodes as places, the recalled ones  *)
(* are just these.                                                         *)
BestAreRecalled ==
  Asked => \A cue \in Cues :
    LET nodes == ListNodes(AllTypes, FALSE)
    IN  SelectSeeds(nodes, cue, Limit) \subseteq Recalled(FALSE, cue, Limit)

(* A promise stays recallable until it is fulfilled (line 532 of the same  *)
(* design): while the memory has an active one and no question hits other  *)
(* memories twice, the prompt has the card of open loops.                  *)
PromiseReachesPrompt ==
  Asked => \A cue \in Cues :
    /\ \A x \in Topics : cue[x] <= 1
    /\ \E n \in ListNodes(AllTypes, FALSE) : n.type = "promise"
    => \E i \in DOMAIN Cards(Recalled(FALSE, cue, Limit)) :
         Cards(Recalled(FALSE, cue, Limit))[i] = "open_loops_card"
=============================================================================
