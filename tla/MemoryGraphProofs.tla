------------------------- MODULE MemoryGraphProofs -------------------------
(***************************************************************************)
(* Theorems about MemoryGraph, for every number of turns, all answers and  *)
(* compacts a model may give, any topics and either store.                 *)
(***************************************************************************)
EXTENDS MemoryGraph, FiniteSetTheorems, TLAPS

-----------------------------------------------------------------------------
(* Types.  c is the last stamp given out.                                  *)

Node(c) ==
  [id : Seq(Nat), type : AllTypes, topic : Topics \cup {None}, status : Statuses,
   at : 1 .. c, evidence : Nat \ {0}, turn : Turns]

(* The summary has an id of its own, which no candidate has.               *)
IsSummary(n) == n.type = "session_summary"
Memories(c) == {n \in Node(c) : ~IsSummary(n) /\ n.id # SummaryId}

Extracted == [id : Seq(Nat), kind : Kinds, topic : Topics, status : Statuses]
Saved(c) == [id : Seq(Nat), kind : Kinds, topic : Topics, status : Statuses, at : 1 .. c]
EdgeTypes == {"follows", "summarizes"}
Points == {"idle", "items", "compact", "read", "write", "links", "summaryLinks", "done", "failed", "gone"}

(* What a compact says, if there is one.                                   *)
Said == Seq(Topics) \cup {NoCompact}

Todos == Seq(Extracted)
Savings(c) == Seq(Saved(c))
Brought(c) == Seq(Memories(c))
Found(c) == SUBSET Memories(c)
Kept(c) == Seq(Node(c))
Stamp(c) == 0 .. c

Task(w, c) ==
  [at : Points, todo : Todos, saved : Savings(c), compact : Said,
   candidates : Brought(c), match : Found(c), kept : Kept(c),
   edges : {w.edges}, now : Stamp(c)]

Edges(s) == \E S : s \in Seq(S) /\ \A e \in S : e.type \in EdgeTypes

Ready(w) ==
  /\ Edges(w.edges)
  /\ w.at = "write" => w.candidates # <<>>
  /\ w.at \in {"read", "write", "links", "summaryLinks"} => w.now # 0

TaskInv ==
  /\ task = [t \in Turns |-> task[t]]
  /\ \A t \in Turns : task[t] \in Task(task[t], clock) /\ Ready(task[t])

NodesOf(S) ==
  /\ S \subseteq Node(clock)
  /\ \A n, m \in S : n.id = m.id => n = m
  /\ \A n \in S : n.id = SummaryId <=> IsSummary(n)

GraphInv ==
  /\ clock \in Nat /\ items \subseteq Seq(Nat)
  /\ NodesOf(memory) /\ NodesOf(rows)
  /\ store = "memory" => rows = {}
  /\ \A e \in links : e.type \in EdgeTypes

CountersInv ==
  /\ store \in Stores /\ serial \in BOOLEAN
  /\ faults \in 0 .. MaxFaults /\ restarts \in 0 .. MaxRestarts
  /\ {compact, mood} \subseteq 0 .. NTurns

MemoryInv == GraphInv /\ TaskInv /\ CountersInv

(* The summary, while subtasks run one after the other in memory: it tells *)
(* of the turn the compact is from, until a turn has saved a newer compact *)
(* and again when it has written its own summary.                          *)
Told == compact # 0 => \E n \in memory : n.id = SummaryId /\ n.turn = compact

Telling(t, w) ==
  /\ w.at \in {"items", "compact"} \/ w.compact = NoCompact => Told
  /\ w.at \in {"read", "write", "links"} /\ w.compact # NoCompact => compact = t
  /\ w.at = "summaryLinks" => Told

AtWork(w) == w.at \notin {"idle", "done", "failed", "gone"}

SummaryInv ==
  /\ serial => \A t, u \in Turns : Working(t) /\ Working(u) => t = u
  /\ store = "memory" => faults = 0 /\ \A t \in Turns : task[t].at \notin {"failed", "gone"}
  /\ store = "memory" /\ serial =>
       /\ \A t \in Turns : Working(t) => Telling(t, task[t])
       /\ (\A t \in Turns : ~Working(t)) => Told
-----------------------------------------------------------------------------
LEMMA Basics ==
  /\ Turns \subseteq Nat \ {0} /\ 0 \notin Turns
  /\ SummaryId \in Seq(Nat) /\ <<>> \in Seq(Nat)
  /\ "session_summary" \in AllTypes /\ "episode" \in AllTypes /\ "active" \in Statuses
  BY MemoryAssumption DEF Turns, SummaryId, AllTypes, Statuses

LEMMA IdOfTurn ==
  ASSUME NEW t \in Turns, NEW id \in Seq(Nat)
  PROVE  <<t>> \o id \in Seq(Nat) /\ <<t>> \o id # SummaryId
  <1>1. t \in Nat /\ t # 0
    BY Basics
  <1>2. <<t>> \o id \in Seq(Nat) /\ (<<t>> \o id)[1] = t
    BY <1>1
  <1>3. SummaryId[1] = 0
    BY DEF SummaryId
  <1>4. QED
    BY <1>1, <1>2, <1>3

LEMMA Grow ==
  ASSUME NEW c \in Nat, NEW d \in Nat, c <= d
  PROVE  /\ 1 .. c \subseteq 1 .. d /\ 0 .. c \subseteq 0 .. d
         /\ Node(c) \subseteq Node(d) /\ Memories(c) \subseteq Memories(d)
         /\ Saved(c) \subseteq Saved(d)
         /\ \A w : Task(w, c) \subseteq Task(w, d)
  <1>1. 1 .. c \subseteq 1 .. d /\ 0 .. c \subseteq 0 .. d
    OBVIOUS
  <1> DEFINE C == 1 .. c
             D == 1 .. d
             M == 0 .. c
             N == 0 .. d
  <1> HIDE DEF C, D, M, N
  <1>2. C \subseteq D /\ M \subseteq N
    BY <1>1 DEF C, D, M, N
  <1>3. Node(c) \subseteq Node(d)
    BY <1>2 DEF Node, C, D
  <1>4. Memories(c) \subseteq Memories(d)
    BY <1>3 DEF Memories
  <1>5. Saved(c) \subseteq Saved(d)
    BY <1>2 DEF Saved, C, D
  <1>6. /\ Savings(c) \subseteq Savings(d) /\ Brought(c) \subseteq Brought(d)
        /\ Kept(c) \subseteq Kept(d) /\ Found(c) \subseteq Found(d) /\ Stamp(c) \subseteq Stamp(d)
    BY <1>1, <1>3, <1>4, <1>5 DEF Savings, Brought, Kept, Found, Stamp
  <1>7. ASSUME NEW w PROVE Task(w, c) \subseteq Task(w, d)
    <2> DEFINE E == {w.edges}
    <2> HIDE DEF E
    <2>1. \A e : /\ [at : Points, todo : Todos, saved : Savings(c), compact : Said, candidates : Brought(c),
                     match : Found(c), kept : Kept(c), edges : e, now : Stamp(c)]
                    \subseteq
                    [at : Points, todo : Todos, saved : Savings(d), compact : Said, candidates : Brought(d),
                     match : Found(d), kept : Kept(d), edges : e, now : Stamp(d)]
      BY <1>6
    <2>2. QED
      BY <2>1 DEF Task
  <1>8. QED
    BY <1>1, <1>3, <1>4, <1>5, <1>7

(* One task goes on, with stamps that have been given out.                 *)
LEMMA TaskStep ==
  ASSUME TaskInv, clock \in Nat, clock' \in Nat, clock <= clock',
         NEW t \in Turns, NEW w, task' = [task EXCEPT ![t] = w],
         w \in Task(w, clock'), Ready(w)
  PROVE  TaskInv'
  <1>1. /\ task' = [u \in Turns |-> task'[u]]
        /\ task'[t] = w /\ \A u \in Turns \ {t} : task'[u] = task[u]
    BY DEF TaskInv
  <1>2. ASSUME NEW u \in Turns PROVE task'[u] \in Task(task'[u], clock') /\ Ready(task'[u])
    <2>1. CASE u = t
      BY <1>1, <2>1
    <2>2. CASE u # t
      <3>1. task'[u] = task[u]
        BY <1>1, <2>2
      <3>2. task[u] \in Task(task[u], clock) /\ Ready(task[u])
        BY DEF TaskInv
      <3>3. task[u] \in Task(task[u], clock')
        BY <3>2, Grow
      <3>4. QED
        BY <3>1, <3>2, <3>3
    <2>3. QED
      BY <2>1, <2>2
  <1>3. \A u \in Turns : task'[u] \in Task(task'[u], clock') /\ Ready(task'[u])
    BY <1>2
  <1>4. QED
    BY <1>1, <1>3 DEF TaskInv

(* What a task has at hand.                                                *)
LEMMA TaskFields ==
  ASSUME NEW c, NEW w, w \in Task(w, c)
  PROVE  /\ w.at \in Points /\ w.todo \in Seq(Extracted) /\ w.saved \in Seq(Saved(c))
         /\ w.compact \in Said
         /\ w.candidates \in Seq(Memories(c)) /\ w.match \in SUBSET Memories(c)
         /\ w.kept \in Seq(Node(c)) /\ w.now \in 0 .. c
  BY DEF Task, Todos, Savings, Brought, Found, Kept, Stamp

LEMMA NodesKept ==
  ASSUME clock \in Nat, clock' \in Nat, clock <= clock', NEW S, NodesOf(S)
  PROVE  /\ S \subseteq Node(clock')
         /\ \A n, m \in S : n.id = m.id => n = m
         /\ \A n \in S : n.id = SummaryId <=> IsSummary(n)
  BY Grow DEF NodesOf

(* What a list or a recall returns are nodes.                              *)
LEMMA Listed ==
  ASSUME NEW types, NEW broken
  PROVE  /\ ListNodes(types, broken) \subseteq memory \cup rows
         /\ \A n \in ListNodes(types, broken) : n.type \in types
  BY DEF ListNodes, Select, Newest

LEMMA RecalledAreNodes ==
  ASSUME NEW broken, NEW cue, NEW limit
  PROVE  Recalled(broken, cue, limit) \subseteq memory \cup rows
  BY Listed DEF Recalled, Activate, Top

LEMMA ShownAreIds ==
  ASSUME GraphInv, NEW broken
  PROVE  ShownIds(broken) \subseteq Seq(Nat)
  <1> DEFINE recalled == Recalled(broken, [x \in Topics |-> 0], Limit + 2)
  <1>1. recalled \subseteq memory \cup rows
    BY RecalledAreNodes
  <1>2. \A n \in memory \cup rows : n.id \in Seq(Nat)
    BY DEF GraphInv, NodesOf, Node
  <1> HIDE DEF recalled
  <1>3. ShownIds(broken) = IF recalled = {} THEN items ELSE {n.id : n \in recalled}
    BY DEF ShownIds, recalled
  <1>4. QED
    BY <1>1, <1>2, <1>3 DEF GraphInv

LEMMA PutNode ==
  ASSUME NEW S, NodesOf(S), NEW n \in Node(clock), n.id = SummaryId <=> IsSummary(n)
  PROVE  NodesOf(Put(S, n))
  BY DEF NodesOf, Put

LEMMA MergedNode ==
  ASSUME NEW c \in Nat, NEW old \in Memories(c), NEW n \in Memories(c)
  PROVE  Merge(old, n) \in Memories(c) /\ Merge(old, n).id = old.id
  <1> DEFINE A == 1 .. c
             E == Nat \ {0}
             I == Seq(Nat)
             P == Topics \cup {None}
             at == IF n.at > old.at THEN n.at ELSE old.at
             evidence == old.evidence + n.evidence
  <1>1. /\ Node(c) = [id : I, type : AllTypes, topic : P, status : Statuses, at : A, evidence : E, turn : Turns]
        /\ old \in Node(c) /\ n \in Node(c)
    BY DEF Node, Memories
  <1>2. old.at \in A /\ n.at \in A /\ old.evidence \in E /\ n.evidence \in E
    <2> HIDE DEF A, E, I, P
    <2>1. QED
      BY <1>1
  <1>3. at \in A /\ evidence \in E
    BY <1>2
  <1>4. Merge(old, n) = [old EXCEPT !.at = at, !.evidence = evidence]
    <2> HIDE DEF I, P, E, A
    <2>1. QED
      BY <1>1 DEF Merge
  <1> HIDE DEF A, E, I, P, at, evidence
  <1>5. old \in [id : I, type : AllTypes, topic : P, status : Statuses, at : A, evidence : E, turn : Turns]
    BY <1>1
  <1>6. LET merged == [old EXCEPT !.at = at, !.evidence = evidence] IN
        /\ merged \in [id : I, type : AllTypes, topic : P, status : Statuses, at : A, evidence : E, turn : Turns]
        /\ merged.id = old.id /\ merged.type = old.type
    BY <1>3, <1>5
  <1>7. Merge(old, n) \in Node(c) /\ Merge(old, n).id = old.id /\ Merge(old, n).type = old.type
    BY <1>1, <1>4, <1>6
  <1>8. QED
    BY <1>7 DEF Memories, IsSummary

(* A task, by the edges it has to write.                                   *)
TaskWith(edges, c) ==
  [at : Points, todo : Todos, saved : Savings(c), compact : Said,
   candidates : Brought(c), match : Found(c), kept : Kept(c),
   edges : {edges}, now : Stamp(c)]

LEMMA TaskAsSet ==
  ASSUME NEW c, NEW x, NEW edges, x \in TaskWith(edges, c)
  PROVE  x \in Task(x, c)
  <1>1. x.edges = edges
    BY DEF TaskWith
  <1>2. QED
    BY <1>1 DEF TaskWith, Task

(* The ways a step edits its task.                                         *)
Arrives(w, a) == [w EXCEPT !.at = a]
Takes(w, a, said, todo) == [w EXCEPT !.at = a, !.compact = said, !.todo = todo]
Drops(w, a, todo, saved) == [w EXCEPT !.at = a, !.todo = todo, !.saved = saved]
Saves(w, todo, saved) == [w EXCEPT !.todo = todo, !.saved = saved]
Begins(w, a, now, saved, candidates) == [w EXCEPT !.at = a, !.now = now, !.saved = saved, !.candidates = candidates]
Matches(w, a, match) == [w EXCEPT !.at = a, !.match = match]
Writes(w, a, match, kept, candidates) == [w EXCEPT !.at = a, !.match = match, !.kept = kept, !.candidates = candidates]
Links(w, edges) == [w EXCEPT !.edges = edges]
LinksAt(w, a, edges) == [w EXCEPT !.at = a, !.edges = edges]

LEMMA ArrivesType ==
  ASSUME NEW c, NEW w, w \in Task(w, c),
         NEW a \in Points,
         NEW x, x = Arrives(w, a)
  PROVE  x \in Task(x, c) /\ x.at = a /\ x.edges = w.edges /\ x.compact = w.compact
  <1>1. /\ x \in TaskWith(w.edges, c) /\ x.at = a /\ x.edges = w.edges
        /\ x.compact = w.compact
    BY DEF Task, TaskWith, Arrives
  <1>2. QED
    BY <1>1, TaskAsSet

LEMMA TakesType ==
  ASSUME NEW c, NEW w, w \in Task(w, c),
         NEW a \in Points, NEW said \in Said, NEW todo \in Todos,
         NEW x, x = Takes(w, a, said, todo)
  PROVE  x \in Task(x, c) /\ x.at = a /\ x.edges = w.edges /\ x.compact = said
  <1>1. x \in TaskWith(w.edges, c) /\ x.at = a /\ x.edges = w.edges /\ x.compact = said
    BY DEF Task, TaskWith, Takes
  <1>2. QED
    BY <1>1, TaskAsSet

LEMMA DropsType ==
  ASSUME NEW c, NEW w, w \in Task(w, c),
         NEW a \in Points, NEW todo \in Todos, NEW saved \in Savings(c),
         NEW x, x = Drops(w, a, todo, saved)
  PROVE  x \in Task(x, c) /\ x.at = a /\ x.edges = w.edges /\ x.compact = w.compact
  <1>1. /\ x \in TaskWith(w.edges, c) /\ x.at = a /\ x.edges = w.edges
        /\ x.compact = w.compact
    BY DEF Task, TaskWith, Drops
  <1>2. QED
    BY <1>1, TaskAsSet

LEMMA SavesType ==
  ASSUME NEW c, NEW w, w \in Task(w, c),
         NEW todo \in Todos, NEW saved \in Savings(c),
         NEW x, x = Saves(w, todo, saved)
  PROVE  x \in Task(x, c) /\ x.at = w.at /\ x.edges = w.edges /\ x.compact = w.compact
  <1>1. /\ x \in TaskWith(w.edges, c) /\ x.at = w.at /\ x.edges = w.edges
        /\ x.compact = w.compact
    BY DEF Task, TaskWith, Saves
  <1>2. QED
    BY <1>1, TaskAsSet

LEMMA BeginsType ==
  ASSUME NEW c, NEW w, w \in Task(w, c),
         NEW a \in Points, NEW now \in Stamp(c), NEW saved \in Savings(c), NEW candidates \in Brought(c),
         NEW x, x = Begins(w, a, now, saved, candidates)
  PROVE  /\ x \in Task(x, c) /\ x.at = a /\ x.edges = w.edges /\ x.compact = w.compact
         /\ x.now = now
  <1>1. /\ x \in TaskWith(w.edges, c) /\ x.at = a /\ x.edges = w.edges
        /\ x.compact = w.compact /\ x.now = now
    BY DEF Task, TaskWith, Begins
  <1>2. QED
    BY <1>1, TaskAsSet

LEMMA MatchesType ==
  ASSUME NEW c, NEW w, w \in Task(w, c),
         NEW a \in Points, NEW match \in Found(c),
         NEW x, x = Matches(w, a, match)
  PROVE  /\ x \in Task(x, c) /\ x.at = a /\ x.edges = w.edges /\ x.compact = w.compact
         /\ x.now = w.now /\ x.candidates = w.candidates
  <1>1. /\ x \in TaskWith(w.edges, c) /\ x.at = a /\ x.edges = w.edges
        /\ x.compact = w.compact /\ x.now = w.now /\ x.candidates = w.candidates
    BY DEF Task, TaskWith, Matches
  <1>2. QED
    BY <1>1, TaskAsSet

LEMMA WritesType ==
  ASSUME NEW c, NEW w, w \in Task(w, c),
         NEW a \in Points, NEW match \in Found(c), NEW kept \in Kept(c), NEW candidates \in Brought(c),
         NEW x, x = Writes(w, a, match, kept, candidates)
  PROVE  /\ x \in Task(x, c) /\ x.at = a /\ x.edges = w.edges /\ x.compact = w.compact
         /\ x.now = w.now
  <1>1. /\ x \in TaskWith(w.edges, c) /\ x.at = a /\ x.edges = w.edges
        /\ x.compact = w.compact /\ x.now = w.now
    BY DEF Task, TaskWith, Writes
  <1>2. QED
    BY <1>1, TaskAsSet

LEMMA LinksType ==
  ASSUME NEW c, NEW w, w \in Task(w, c),
         NEW edges,
         NEW x, x = Links(w, edges)
  PROVE  /\ x \in Task(x, c) /\ x.at = w.at /\ x.edges = edges /\ x.compact = w.compact
         /\ x.now = w.now
  <1>1. /\ x \in TaskWith(edges, c) /\ x.at = w.at /\ x.edges = edges
        /\ x.compact = w.compact /\ x.now = w.now
    BY DEF Task, TaskWith, Links
  <1>2. QED
    BY <1>1, TaskAsSet

LEMMA LinksAtType ==
  ASSUME NEW c, NEW w, w \in Task(w, c),
         NEW a \in Points, NEW edges,
         NEW x, x = LinksAt(w, a, edges)
  PROVE  /\ x \in Task(x, c) /\ x.at = a /\ x.edges = edges /\ x.compact = w.compact
         /\ x.now = w.now
  <1>1. /\ x \in TaskWith(edges, c) /\ x.at = a /\ x.edges = edges
        /\ x.compact = w.compact /\ x.now = w.now
    BY DEF Task, TaskWith, LinksAt
  <1>2. QED
    BY <1>1, TaskAsSet


LEMMA NoEdges == Edges(<<>>)
  <1>1. PICK S : S = {}
    OBVIOUS
  <1>2. <<>> \in Seq(S) /\ \A e \in S : e.type \in EdgeTypes
    BY <1>1
  <1>3. QED
    BY <1>2 DEF Edges

LEMMA FewerEdges ==
  ASSUME NEW s, Edges(s), s # <<>>
  PROVE  Edges(Tail(s)) /\ Head(s).type \in EdgeTypes
  <1>1. PICK S : s \in Seq(S) /\ \A e \in S : e.type \in EdgeTypes
    BY DEF Edges
  <1>2. Tail(s) \in Seq(S) /\ Head(s) \in S
    BY <1>1
  <1>3. QED
    BY <1>1, <1>2 DEF Edges

LEMMA ListedEdges ==
  ASSUME NEW n \in Nat, NEW s, DOMAIN s = 1 .. n, s = [i \in 1 .. n |-> s[i]],
         \A i \in 1 .. n : s[i].type \in EdgeTypes
  PROVE  Edges(s)
  <1> DEFINE S == {s[i] : i \in 1 .. n}
  <1>1. \A i \in 1 .. n : s[i] \in S
    OBVIOUS
  <1>2. \A e \in S : e.type \in EdgeTypes
    OBVIOUS
  <1> HIDE DEF S
  <1>3. s \in Seq(S)
    BY <1>1
  <1>4. QED
    BY <1>2, <1>3 DEF Edges

LEMMA TurnEdgesAreEdges ==
  ASSUME NEW c, NEW nodes \in Seq(Node(c))
  PROVE  Edges(TurnEdges(nodes))
  <1> DEFINE n == IF nodes = <<>> THEN 0 ELSE Len(nodes) - 1
  <1>1. n \in Nat
    OBVIOUS
  <1>2. /\ DOMAIN TurnEdges(nodes) = 1 .. n
        /\ TurnEdges(nodes) = [i \in 1 .. n |-> TurnEdges(nodes)[i]]
        /\ \A i \in 1 .. n : TurnEdges(nodes)[i].type = "follows"
    BY DEF TurnEdges
  <1> HIDE DEF n
  <1>3. \A i \in 1 .. n : TurnEdges(nodes)[i].type \in EdgeTypes
    BY <1>2 DEF EdgeTypes
  <1>4. QED
    BY <1>1, <1>2, <1>3, ListedEdges

LEMMA SummaryEdgesAreEdges ==
  ASSUME NEW k \in Nat, NEW nodes, DOMAIN nodes = 1 .. k
  PROVE  Edges(SummaryEdges(nodes))
  <1>1. /\ DOMAIN SummaryEdges(nodes) = 1 .. k
        /\ SummaryEdges(nodes) = [i \in 1 .. k |-> SummaryEdges(nodes)[i]]
        /\ \A i \in 1 .. k : SummaryEdges(nodes)[i].type = "summarizes"
    BY DEF SummaryEdges
  <1>2. \A i \in 1 .. k : SummaryEdges(nodes)[i].type \in EdgeTypes
    BY <1>1 DEF EdgeTypes
  <1>3. QED
    BY <1>1, <1>2, ListedEdges

(* A task that has ended, or one that was never begun.                     *)
LEMMA EndedTask ==
  ASSUME NEW c \in Nat, NEW w, w \in Task(w, c), NEW how \in {"done", "failed", "gone"}
  PROVE  Ended(w, how) \in Task(Ended(w, how), c) /\ Ready(Ended(w, how)) /\ Ended(w, how).at = how
  <1> DEFINE x == Ended(w, how)
  <1>1. x = [at |-> how, todo |-> <<>>, saved |-> <<>>, compact |-> NoCompact, candidates |-> <<>>,
             match |-> {}, kept |-> w.kept, edges |-> <<>>, now |-> 0]
    <2>1. PICK none, kept : none = NoCompact /\ kept = w.kept
      OBVIOUS
    <2>2. x = [[at |-> "idle", todo |-> <<>>, saved |-> <<>>, compact |-> none, candidates |-> <<>>,
                match |-> {}, kept |-> <<>>, edges |-> <<>>, now |-> 0] EXCEPT !.at = how, !.kept = kept]
      BY <2>1 DEF Ended, NoTask
    <2>3. x = [at |-> how, todo |-> <<>>, saved |-> <<>>, compact |-> none, candidates |-> <<>>,
               match |-> {}, kept |-> kept, edges |-> <<>>, now |-> 0]
      BY <2>2
    <2>4. QED
      BY <2>1, <2>3
  <1>2. x.at = how /\ x.edges = <<>> /\ how \in Points /\ w.kept \in Kept(c)
    BY <1>1 DEF Task, Points
  <1>3. /\ <<>> \in Todos /\ <<>> \in Savings(c) /\ NoCompact \in Said /\ <<>> \in Brought(c)
        /\ {} \in Found(c) /\ 0 \in Stamp(c)
    BY DEF Todos, Savings, Said, Brought, Found, Stamp
  <1>4. x \in TaskWith(<<>>, c)
    <2> HIDE DEF x
    <2>1. QED
      BY <1>1, <1>2, <1>3 DEF TaskWith
  <1> HIDE DEF x
  <1>5. Ready(x)
    BY <1>2, NoEdges DEF Ready
  <1>6. QED
    BY <1>2, <1>4, <1>5, TaskAsSet DEF x

(* Between two store calls of an ingestion.                                *)
Proceeds(w, x) ==
  \/ x.at = "done" /\ (w.at = "summaryLinks" \/ (w.at \in {"read", "links"} /\ w.compact = NoCompact))
  \/ x.compact = w.compact /\ (x.at = w.at \/ (w.at = "read" /\ x.at = "links"))

LEMMA OnwardTask ==
  ASSUME NEW c \in Nat, NEW w, w \in Task(w, c), Edges(w.edges), w.now # 0,
         w.at \in {"read", "links", "summaryLinks"}
  PROVE  Onward(w) \in Task(Onward(w), c) /\ Ready(Onward(w)) /\ Proceeds(w, Onward(w))
  <1> DEFINE x == IF w.at = "read" /\ w.candidates = <<>>
                  THEN [w EXCEPT !.at = "links", !.edges = TurnEdges(w.kept)] ELSE w
             over == x.edges = <<>> /\ (x.at = "summaryLinks" \/ (x.at = "links" /\ x.compact = NoCompact))
  <1>1. Onward(w) = IF over THEN Ended(x, "done") ELSE x
    BY DEF Onward
  <1>2. /\ x \in Task(x, c) /\ Edges(x.edges) /\ x.now # 0 /\ x.compact = w.compact
        /\ x.at \in {"read", "links", "summaryLinks"}
        /\ x.at = w.at \/ (w.at = "read" /\ x.at = "links")
    <2>1. CASE w.at = "read" /\ w.candidates = <<>>
      <3>1. PICK e : e = TurnEdges(w.kept)
        OBVIOUS
      <3>2. x = LinksAt(w, "links", e)
        BY <2>1, <3>1 DEF LinksAt
      <3>3. Edges(e)
        BY <3>1, TaskFields, TurnEdgesAreEdges
      <3>4. "links" \in Points
        BY DEF Points
      <3> HIDE DEF x
      <3>5. x \in Task(x, c) /\ x.at = "links" /\ x.edges = e /\ x.compact = w.compact /\ x.now = w.now
        BY <3>2, <3>4, LinksAtType
      <3>6. QED
        BY <2>1, <3>3, <3>5
    <2>2. CASE ~(w.at = "read" /\ w.candidates = <<>>)
      <3>1. x = w
        BY <2>2
      <3>2. QED
        BY <3>1
    <2>3. QED
      BY <2>1, <2>2
  <1>3. Ready(x)
    BY <1>2 DEF Ready
  <1>4. Ended(x, "done") \in Task(Ended(x, "done"), c) /\ Ready(Ended(x, "done")) /\ Ended(x, "done").at = "done"
    BY <1>2, EndedTask
  <1> HIDE DEF x
  <1>5. Proceeds(w, Onward(w))
    BY <1>1, <1>2, <1>4 DEF Proceeds
  <1>6. QED
    BY <1>1, <1>2, <1>3, <1>4, <1>5

-----------------------------------------------------------------------------
(* What a turn brings.                                                     *)

LEMMA ItemMemory ==
  ASSUME NEW c \in Nat, NEW t \in Turns, NEW item \in Saved(c)
  PROVE  ItemNode(t, item) \in Memories(c)
  <1>1. /\ item.id \in Seq(Nat) /\ item.topic \in Topics /\ item.status \in Statuses
        /\ item.at \in 1 .. c
    BY DEF Saved
  <1> DEFINE type == NodeType(item.kind, item.topic)
             id == <<t>> \o item.id
             A == 1 .. c
             E == Nat \ {0}
             I == Seq(Nat)
             P == Topics \cup {None}
  <1>2. type \in AllTypes /\ type # "session_summary"
    BY DEF NodeType, AllTypes
  <1>3. id \in I /\ id # SummaryId
    BY <1>1, IdOfTurn
  <1>4. item.at \in A /\ 1 \in E /\ item.topic \in P
    BY <1>1
  <1>5. ItemNode(t, item) = [id |-> id, type |-> type, topic |-> item.topic, status |-> item.status,
                             at |-> item.at, evidence |-> 1, turn |-> t]
    BY DEF ItemNode
  <1>6. Node(c) = [id : I, type : AllTypes, topic : P, status : Statuses, at : A, evidence : E, turn : Turns]
    BY DEF Node
  <1> HIDE DEF type, id, A, E, I, P
  <1>7. ItemNode(t, item) \in Node(c) /\ ItemNode(t, item).type = type /\ ItemNode(t, item).id = id
    BY <1>1, <1>2, <1>3, <1>4, <1>5, <1>6
  <1>8. QED
    BY <1>2, <1>3, <1>7 DEF Memories, IsSummary

LEMMA FactMemory ==
  ASSUME NEW c \in Nat, NEW t \in Turns, NEW topic \in Topics, NEW i \in Nat, NEW now \in Nat,
         1 <= now + i, now + i <= c
  PROVE  FactNode(t, i, topic, now) \in Memories(c)
  <1> DEFINE id == <<t, 0, i>>
             at == now + i
             A == 1 .. c
             E == Nat \ {0}
             I == Seq(Nat)
             P == Topics \cup {None}
  <1>1. t \in Nat /\ t # 0
    BY Basics
  <1>2. id \in I /\ id[1] = t
    BY <1>1
  <1>3. id # SummaryId
    <2>1. SummaryId[1] = 0
      BY DEF SummaryId
    <2> HIDE DEF id
    <2>2. QED
      BY <1>1, <1>2, <2>1
  <1>4. at \in A /\ 1 \in E /\ topic \in P
    OBVIOUS
  <1>5. FactNode(t, i, topic, now) = [id |-> id, type |-> "episode", topic |-> topic,
            status |-> "active", at |-> at, evidence |-> 1, turn |-> t]
    BY DEF FactNode
  <1>6. Node(c) = [id : I, type : AllTypes, topic : P, status : Statuses, at : A, evidence : E, turn : Turns]
    BY DEF Node
  <1> HIDE DEF id, at, A, E, I, P
  <1>7. /\ FactNode(t, i, topic, now) \in Node(c) /\ FactNode(t, i, topic, now).type = "episode"
        /\ FactNode(t, i, topic, now).id = id
    BY <1>2, <1>4, <1>5, <1>6, Basics
  <1>8. QED
    BY <1>3, <1>7 DEF Memories, IsSummary

LEMMA SummaryOfTurn ==
  ASSUME NEW c \in Nat, NEW t \in Turns, NEW now \in 1 .. c
  PROVE  /\ SummaryNode(t, now) \in Node(c) /\ IsSummary(SummaryNode(t, now))
         /\ SummaryNode(t, now).id = SummaryId /\ SummaryNode(t, now).turn = t
  <1> DEFINE id == SummaryId
             A == 1 .. c
             E == Nat \ {0}
             I == Seq(Nat)
             P == Topics \cup {None}
  <1>1. id \in I /\ now \in A /\ 1 \in E /\ None \in P
    BY Basics
  <1>2. SummaryNode(t, now) = [id |-> id, type |-> "session_summary", topic |-> None,
            status |-> "active", at |-> now, evidence |-> 1, turn |-> t]
    BY DEF SummaryNode
  <1>3. Node(c) = [id : I, type : AllTypes, topic : P, status : Statuses, at : A, evidence : E, turn : Turns]
    BY DEF Node
  <1> HIDE DEF id, A, E, I, P
  <1>4. SummaryNode(t, now) \in Node(c) /\ SummaryNode(t, now).type = "session_summary"
        /\ SummaryNode(t, now).id = id /\ SummaryNode(t, now).turn = t
    BY <1>1, <1>2, <1>3, Basics
  <1>5. QED
    BY <1>4 DEF IsSummary, id

(* How many statements fail is bounded.                                    *)
LEMMA CountOutcome ==
  ASSUME CountersInv, NEW broken \in Outcomes, Count(broken)
  PROVE  /\ faults' \in 0 .. MaxFaults /\ broken \in BOOLEAN
         /\ store = "memory" => ~broken /\ faults' = faults
  <1>1. faults \in Nat /\ faults <= MaxFaults /\ MaxFaults \in Nat
    BY MemoryAssumption DEF CountersInv
  <1>2. broken \in BOOLEAN /\ (broken => store = "postgres" /\ faults < MaxFaults)
    BY DEF Outcomes
  <1>3. CASE broken
    BY <1>1, <1>2, <1>3 DEF Count
  <1>4. CASE ~broken
    BY <1>1, <1>2, <1>4 DEF Count
  <1>5. QED
    BY <1>3, <1>4

-----------------------------------------------------------------------------
(* The steps of a turn's subtasks and MemoryInv.                           *)

(* A task that goes on, in a graph that keeps its nodes.                   *)
LEMMA TaskAt ==
  ASSUME MemoryInv, NEW t \in Turns
  PROVE  task[t] \in Task(task[t], clock) /\ Ready(task[t]) /\ clock \in Nat /\ t \in DOMAIN task
  BY DEF MemoryInv, TaskInv, GraphInv

LEMMA ExtractStep ==
  ASSUME MemoryInv, NEW t \in Turns, Extract(t)
  PROVE  /\ MemoryInv'
         /\ \E x : /\ task' = [task EXCEPT ![t] = x] /\ x.at = "items"
                   /\ task[t].at = "idle" /\ (store = "memory" => faults' = faults)
  <1>1. PICK broken \in Outcomes, reply \in Replies, new \in Compacts :
          /\ \E ids \in [DOMAIN reply -> ShownIds(broken) \cup {<<t, i>> : i \in DOMAIN reply}] :
               task' = [task EXCEPT ![t].at = "items", ![t].compact = new,
                          ![t].todo = [i \in DOMAIN reply |->
                            [id |-> ids[i], kind |-> reply[i].kind, topic |-> reply[i].topic,
                             status |-> reply[i].status]]]
          /\ Count(broken)
    BY DEF Extract
  <1>a. PICK ids \in [DOMAIN reply -> ShownIds(broken) \cup {<<t, i>> : i \in DOMAIN reply}] :
          task' = [task EXCEPT ![t].at = "items", ![t].compact = new,
                     ![t].todo = [i \in DOMAIN reply |->
                       [id |-> ids[i], kind |-> reply[i].kind, topic |-> reply[i].topic,
                        status |-> reply[i].status]]]
    BY <1>1
  <1> DEFINE todo == [i \in DOMAIN reply |->
                        [id |-> ids[i], kind |-> reply[i].kind, topic |-> reply[i].topic,
                         status |-> reply[i].status]]
             x == Takes(task[t], "items", new, todo)
  <1>2. /\ reply \in Seq([kind : Kinds, topic : Topics, status : Statuses, reuse : BOOLEAN])
        /\ new \in Said
    BY MemoryAssumption DEF Said
  <1>3. todo \in Todos
    <2>1. Len(reply) \in Nat /\ DOMAIN reply = 1 .. Len(reply)
      BY <1>2
    <2>2. ASSUME NEW i \in 1 .. Len(reply)
          PROVE  [id |-> ids[i], kind |-> reply[i].kind, topic |-> reply[i].topic,
                  status |-> reply[i].status] \in Extracted
      <3>1. ids[i] \in ShownIds(broken) \cup {<<t, j>> : j \in DOMAIN reply}
        BY <1>a, <2>1
      <3>2. ShownIds(broken) \subseteq Seq(Nat)
        BY ShownAreIds DEF MemoryInv
      <3>3. \A j \in 1 .. Len(reply) : <<t, j>> \in Seq(Nat)
        BY Basics
      <3>4. ids[i] \in Seq(Nat)
        BY <2>1, <3>1, <3>2, <3>3
      <3>5. reply[i] \in [kind : Kinds, topic : Topics, status : Statuses, reuse : BOOLEAN]
        <4> DEFINE Answers == [kind : Kinds, topic : Topics, status : Statuses, reuse : BOOLEAN]
        <4>1. reply \in Seq(Answers)
          BY <1>2
        <4> HIDE DEF Answers
        <4>2. reply[i] \in Answers
          BY <2>1, <4>1
        <4>3. QED
          BY <4>2 DEF Answers
      <3>6. reply[i].kind \in Kinds /\ reply[i].topic \in Topics /\ reply[i].status \in Statuses
        BY <3>5
      <3>7. QED
        BY <3>4, <3>6 DEF Extracted
    <2>3. QED
      BY <2>1, <2>2 DEF Todos
  <1> HIDE DEF todo
  <1>4. task' = [task EXCEPT ![t] = x]
    BY <1>a, TaskAt DEF Takes, todo
  <1>5. x \in Task(x, clock) /\ x.at = "items" /\ x.edges = task[t].edges /\ x.compact = new
    <2>1. "items" \in Points
      BY DEF Points
    <2>2. PICK w : w = task[t]
      OBVIOUS
    <2>3. w \in Task(w, clock) /\ x = Takes(w, "items", new, todo)
      BY <2>2, TaskAt
    <2> HIDE DEF x
    <2>4. x \in Task(x, clock) /\ x.at = "items" /\ x.edges = w.edges /\ x.compact = new
      BY <1>2, <1>3, <2>1, <2>3, TakesType
    <2>5. QED
      BY <2>2, <2>4
  <1> HIDE DEF x
  <1>6. Ready(x)
    BY <1>5, TaskAt DEF Ready
  <1>7. clock' = clock /\ UNCHANGED <<store, memory, rows, links, items, compact, mood, restarts>>
        /\ serial' = (serial /\ \A u \in Turns : ~Working(u)) /\ task[t].at = "idle"
    BY DEF Extract
  <1>8. TaskInv'
    <2>1. clock \in Nat /\ clock' = clock /\ clock <= clock'
      BY <1>7, TaskAt
    <2>2. QED
      BY <1>4, <1>5, <1>6, <2>1, TaskStep DEF MemoryInv
  <1>9. GraphInv'
    BY <1>7 DEF MemoryInv, GraphInv, NodesOf
  <1>10. CountersInv'
    BY <1>1, <1>7, CountOutcome DEF MemoryInv, CountersInv
  <1>11. store = "memory" => faults' = faults
    BY <1>1, CountOutcome DEF MemoryInv
  <1>12. QED
    BY <1>4, <1>5, <1>7, <1>8, <1>9, <1>10, <1>11 DEF MemoryInv

(* SaveItem drops the rest of the items or saves one.                      *)
LEMMA SaveItemStep ==
  ASSUME MemoryInv, NEW t \in Turns, SaveItem(t)
  PROVE  /\ MemoryInv' /\ (store = "memory" => faults' = faults) /\ task[t].at = "items"
         /\ \E x : task' = [task EXCEPT ![t] = x] /\ x.at \in {"items", "compact"}
                   /\ x.compact = task[t].compact
  <1>1. PICK w : w = task[t]
    OBVIOUS
  <1>2. w \in Task(w, clock) /\ Ready(w) /\ clock \in Nat /\ t \in DOMAIN task
    BY <1>1, TaskAt
  <1>3. w.at = "items" /\ w.todo # <<>>
        /\ UNCHANGED <<store, memory, rows, links, compact, mood, serial, restarts>>
    BY <1>1 DEF SaveItem
  <1>4. PICK item : item = Head(w.todo)
    OBVIOUS
  <1>5. PICK broken \in Outcomes :
          IF broken \/ (store = "postgres" /\ Len(item.id) > 2)
          THEN /\ task' = [task EXCEPT ![t].at = "compact", ![t].todo = <<>>, ![t].saved = <<>>]
               /\ Count(broken)
               /\ UNCHANGED <<items, clock>>
          ELSE /\ task' = [task EXCEPT ![t].todo = Tail(@),
                             ![t].saved = Append(@, [id |-> item.id, kind |-> item.kind,
                               topic |-> item.topic, status |-> item.status, at |-> clock + 1])]
               /\ items' = items \cup {item.id}
               /\ clock' = clock + 1
               /\ UNCHANGED faults
    BY <1>1, <1>4 DEF SaveItem
  <1>6. item \in Extracted /\ Tail(w.todo) \in Todos
    BY <1>2, <1>3, <1>4, TaskFields DEF Todos
  <1>7. item.id \in Seq(Nat) /\ item.kind \in Kinds /\ item.topic \in Topics /\ item.status \in Statuses
    BY <1>6 DEF Extracted
  <1>8. "items" \in Points /\ "compact" \in Points
    BY DEF Points
  <1>9. /\ clock' \in Nat /\ clock <= clock' /\ (store = "memory" => faults' = faults)
        /\ faults' \in 0 .. MaxFaults /\ items' \subseteq Seq(Nat)
    <2>1. CASE broken \/ (store = "postgres" /\ Len(item.id) > 2)
      BY <1>2, <1>5, <2>1, CountOutcome DEF MemoryInv, GraphInv
    <2>2. CASE ~(broken \/ (store = "postgres" /\ Len(item.id) > 2))
      BY <1>2, <1>5, <1>7, <2>2 DEF MemoryInv, GraphInv, CountersInv
    <2>3. QED
      BY <2>1, <2>2
  <1>10. \E x : /\ task' = [task EXCEPT ![t] = x] /\ x.at \in {"items", "compact"}
                /\ x.compact = w.compact /\ x \in Task(x, clock') /\ x.edges = w.edges
    <2>1. CASE broken \/ (store = "postgres" /\ Len(item.id) > 2)
      <3>1. PICK x : x = Drops(w, "compact", <<>>, <<>>)
        OBVIOUS
      <3>2. <<>> \in Todos /\ <<>> \in Savings(clock)
        BY DEF Todos, Savings
      <3>3. x \in Task(x, clock) /\ x.at = "compact" /\ x.edges = w.edges /\ x.compact = w.compact
        BY <1>2, <1>8, <3>1, <3>2, DropsType
      <3>4. task' = [task EXCEPT ![t] = x] /\ clock' = clock
        BY <1>1, <1>2, <1>5, <2>1, <3>1 DEF Drops
      <3>5. QED
        BY <3>3, <3>4
    <2>2. CASE ~(broken \/ (store = "postgres" /\ Len(item.id) > 2))
      <3>1. PICK one : one = [id |-> item.id, kind |-> item.kind, topic |-> item.topic,
                              status |-> item.status, at |-> clock + 1]
        OBVIOUS
      <3>2. clock' = clock + 1 /\ clock + 1 \in 1 .. clock'
        BY <1>2, <1>5, <2>2
      <3>3. one \in Saved(clock')
        <4> DEFINE I == Seq(Nat)
                   A == 1 .. clock'
        <4>1. item.id \in I /\ clock + 1 \in A
          BY <1>7, <3>2
        <4>2. Saved(clock') = [id : I, kind : Kinds, topic : Topics, status : Statuses, at : A]
          BY DEF Saved
        <4> HIDE DEF I, A
        <4>3. QED
          BY <1>7, <3>1, <4>1, <4>2
      <3>4. w \in Task(w, clock')
        BY <1>2, <1>9, Grow
      <3>5. PICK more : more = Append(w.saved, one)
        OBVIOUS
      <3>6. more \in Savings(clock')
        BY <3>3, <3>4, <3>5, TaskFields DEF Savings
      <3>7. PICK rest : rest = Tail(w.todo)
        OBVIOUS
      <3>8. PICK x : x = Saves(w, rest, more)
        OBVIOUS
      <3>9. x \in Task(x, clock') /\ x.at = w.at /\ x.edges = w.edges /\ x.compact = w.compact
        BY <1>6, <3>4, <3>6, <3>7, <3>8, SavesType
      <3>10. task' = [task EXCEPT ![t].todo = rest, ![t].saved = more]
        BY <1>1, <1>2, <1>5, <2>2, <3>1, <3>5, <3>7
      <3>11. task' = [task EXCEPT ![t] = x]
        BY <1>1, <1>2, <3>8, <3>10 DEF Saves
      <3>12. QED
        BY <1>3, <3>9, <3>11
    <2>3. QED
      BY <2>1, <2>2
  <1>11. PICK x : /\ task' = [task EXCEPT ![t] = x] /\ x.at \in {"items", "compact"}
                  /\ x.compact = w.compact /\ x \in Task(x, clock') /\ x.edges = w.edges
    BY <1>10
  <1>12. Ready(x)
    BY <1>2, <1>11 DEF Ready
  <1>13. TaskInv'
    BY <1>2, <1>9, <1>11, <1>12, TaskStep DEF MemoryInv
  <1>14. GraphInv'
    <2>1. NodesOf(memory) /\ NodesOf(rows)
      BY DEF MemoryInv, GraphInv
    <2>2. NodesOf(memory)' /\ NodesOf(rows)'
      BY <1>2, <1>3, <1>9, <2>1, NodesKept DEF NodesOf
    <2>3. QED
      BY <1>3, <1>9, <2>2 DEF MemoryInv, GraphInv
  <1>15. CountersInv'
    BY <1>3, <1>9 DEF MemoryInv, CountersInv
  <1>16. QED
    BY <1>1, <1>3, <1>9, <1>11, <1>13, <1>14, <1>15 DEF MemoryInv

LEMMA SetMoodStep ==
  ASSUME MemoryInv, NEW t \in Turns, SetMood(t)
  PROVE  /\ MemoryInv' /\ (store = "memory" => faults' = faults) /\ task[t].at = "items"
         /\ \E x : task' = [task EXCEPT ![t] = x] /\ x.at = "compact" /\ x.compact = task[t].compact
  <1>1. PICK w : w = task[t]
    OBVIOUS
  <1>2. w \in Task(w, clock) /\ Ready(w) /\ clock \in Nat /\ t \in DOMAIN task
    BY <1>1, TaskAt
  <1>3. w.at = "items" /\ task' = [task EXCEPT ![t].at = "compact"]
        /\ UNCHANGED <<store, memory, rows, links, items, compact, clock, serial, restarts>>
    BY <1>1 DEF SetMood
  <1>4. PICK x : x = Arrives(w, "compact")
    OBVIOUS
  <1>5. "compact" \in Points
    BY DEF Points
  <1>6. x \in Task(x, clock) /\ x.at = "compact" /\ x.edges = w.edges /\ x.compact = w.compact
    BY <1>2, <1>4, <1>5, ArrivesType
  <1>7. task' = [task EXCEPT ![t] = x]
    BY <1>1, <1>2, <1>3, <1>4 DEF Arrives
  <1>8. Ready(x)
    BY <1>2, <1>6 DEF Ready
  <1>9. TaskInv'
    <2>1. clock' = clock /\ clock <= clock'
      BY <1>2, <1>3
    <2>2. QED
      BY <1>2, <1>6, <1>7, <1>8, <2>1, TaskStep DEF MemoryInv
  <1>10. GraphInv'
    BY <1>3 DEF MemoryInv, GraphInv, NodesOf
  <1>11. mood' \in {mood, t} /\ faults' \in 0 .. MaxFaults /\ (store = "memory" => faults' = faults)
    <2>1. CASE \E i \in DOMAIN task[t].saved : task[t].saved[i].kind \in MoodKinds
      <3>1. PICK broken \in Outcomes : mood' = (IF broken THEN mood ELSE t) /\ Count(broken)
        BY <2>1 DEF SetMood
      <3>2. QED
        BY <3>1, CountOutcome DEF MemoryInv
    <2>2. CASE ~ \E i \in DOMAIN task[t].saved : task[t].saved[i].kind \in MoodKinds
      BY <2>2 DEF SetMood, MemoryInv, CountersInv
    <2>3. QED
      BY <2>1, <2>2
  <1>12. CountersInv'
    BY <1>3, <1>11, MemoryAssumption DEF MemoryInv, CountersInv, Turns
  <1>13. QED
    BY <1>1, <1>3, <1>6, <1>7, <1>9, <1>10, <1>11, <1>12 DEF MemoryInv

LEMMA CandidatesOfTurn ==
  ASSUME NEW c \in Nat, NEW t \in Turns, NEW saved \in Savings(c), NEW facts \in Seq(Topics),
         NEW d, d = c + 1 + Len(facts)
  PROVE  /\ [i \in DOMAIN saved |-> ItemNode(t, saved[i])] \in Brought(d)
         /\ [i \in DOMAIN facts |-> FactNode(t, i, facts[i], c + 1)] \in Brought(d)
         /\ d \in Nat /\ c <= d /\ c + 1 \in Stamp(d)
  <1>1. d \in Nat /\ c <= d /\ c + 1 <= d
    OBVIOUS
  <1>2. [i \in DOMAIN saved |-> ItemNode(t, saved[i])] \in Brought(d)
    <2>1. saved \in Seq(Saved(c)) /\ Len(saved) \in Nat /\ DOMAIN saved = 1 .. Len(saved)
      BY DEF Savings
    <2> DEFINE M == Memories(d)
    <2>2. ASSUME NEW i \in 1 .. Len(saved) PROVE ItemNode(t, saved[i]) \in M
      <3>1. saved[i] \in Saved(c)
        BY <2>1
      <3>2. saved[i] \in Saved(d)
        BY <1>1, <3>1, Grow
      <3>3. QED
        BY <1>1, <3>2, ItemMemory
    <2> HIDE DEF M
    <2>3. [i \in DOMAIN saved |-> ItemNode(t, saved[i])] \in Seq(M)
      BY <2>1, <2>2
    <2>4. QED
      BY <2>3 DEF Brought, M
  <1>3. [i \in DOMAIN facts |-> FactNode(t, i, facts[i], c + 1)] \in Brought(d)
    <2>1. Len(facts) \in Nat /\ DOMAIN facts = 1 .. Len(facts)
      OBVIOUS
    <2> DEFINE M == Memories(d)
    <2>2. ASSUME NEW i \in 1 .. Len(facts) PROVE FactNode(t, i, facts[i], c + 1) \in M
      <3>1. facts[i] \in Topics /\ i \in Nat /\ c + 1 \in Nat /\ 1 <= c + 1 + i /\ c + 1 + i <= d
        BY <2>1
      <3>2. QED
        BY <1>1, <3>1, FactMemory
    <2> HIDE DEF M
    <2>3. [i \in DOMAIN facts |-> FactNode(t, i, facts[i], c + 1)] \in Seq(M)
      BY <2>1, <2>2
    <2>4. QED
      BY <2>3 DEF Brought, M
  <1>4. QED
    BY <1>1, <1>2, <1>3 DEF Stamp

(* The graph, its counters apart, when no node is written.                 *)
LEMMA GraphKept ==
  ASSUME GraphInv, UNCHANGED <<store, memory, rows, links, items>>, clock' \in Nat, clock <= clock'
  PROVE  GraphInv'
  <1>1. NodesOf(memory) /\ NodesOf(rows) /\ clock \in Nat
    BY DEF GraphInv
  <1>2. NodesOf(memory)' /\ NodesOf(rows)'
    BY <1>1, NodesKept DEF NodesOf
  <1>3. QED
    BY <1>2 DEF GraphInv

LEMMA SaveCompactStep ==
  ASSUME MemoryInv, NEW t \in Turns, SaveCompact(t)
  PROVE  /\ MemoryInv' /\ (store = "memory" => faults' = faults) /\ task[t].at = "compact"
         /\ IF task[t].compact = NoCompact THEN compact' = compact
            ELSE store = "memory" => compact' = t
         /\ \E x : /\ task' = [task EXCEPT ![t] = x]
                   /\ \/ x.at = "done" /\ task[t].compact = NoCompact
                      \/ x.at \in {"read", "links"} /\ x.compact = task[t].compact
  <1>1. PICK w : w = task[t]
    OBVIOUS
  <1>2. w \in Task(w, clock) /\ Ready(w) /\ clock \in Nat /\ t \in DOMAIN task
    BY <1>1, TaskAt
  <1>3. PICK facts : facts = IF w.compact = NoCompact THEN <<>> ELSE w.compact
    OBVIOUS
  <1>4. PICK cs : cs = [i \in DOMAIN w.saved |-> ItemNode(t, w.saved[i])]
                       \o [i \in DOMAIN facts |-> FactNode(t, i, facts[i], clock + 1)]
    OBVIOUS
  <1>5. w.at = "compact" /\ UNCHANGED <<store, memory, rows, links, items, mood, serial, restarts>>
    BY <1>1 DEF SaveCompact
  <1>6. facts \in Seq(Topics)
    BY <1>2, <1>3, TaskFields DEF Said
  <1>7. clock' = clock + 1 + Len(facts)
    BY <1>1, <1>3 DEF SaveCompact
  <1>8. cs \in Brought(clock') /\ clock' \in Nat /\ clock <= clock' /\ clock + 1 \in Stamp(clock')
    <2>1. w.saved \in Savings(clock)
      BY <1>2, TaskFields DEF Savings
    <2>2. PICK d : d = clock + 1 + Len(facts)
      OBVIOUS
    <2>3. PICK a, b : /\ a = [i \in DOMAIN w.saved |-> ItemNode(t, w.saved[i])]
                      /\ b = [i \in DOMAIN facts |-> FactNode(t, i, facts[i], clock + 1)]
      OBVIOUS
    <2>4. a \in Brought(d) /\ b \in Brought(d) /\ d \in Nat /\ clock <= d /\ clock + 1 \in Stamp(d)
      BY <1>2, <1>6, <2>1, <2>2, <2>3, CandidatesOfTurn
    <2>5. a \o b \in Brought(d)
      BY <2>4 DEF Brought
    <2>6. QED
      BY <1>4, <1>7, <2>2, <2>3, <2>4, <2>5
  <1>9. PICK begun : begun = Begins(w, "read", clock + 1, <<>>, cs)
    OBVIOUS
  <1>10. begun \in Task(begun, clock') /\ begun.at = "read" /\ begun.edges = w.edges
         /\ begun.compact = w.compact /\ begun.now = clock + 1
    <2>1. w \in Task(w, clock')
      BY <1>2, <1>8, Grow
    <2>2. "read" \in Points /\ <<>> \in Savings(clock')
      BY DEF Points, Savings
    <2>3. PICK now : now = clock + 1
      OBVIOUS
    <2>4. QED
      BY <1>8, <1>9, <2>1, <2>2, <2>3, BeginsType
  <1>11. PICK idle \in BOOLEAN : idle = (w.saved = <<>> /\ w.compact = NoCompact)
    OBVIOUS
  <1>12. task' = [task EXCEPT ![t] = IF idle THEN Ended(w, "done") ELSE Onward(begun)]
    <2>1. task' = [task EXCEPT ![t] = IF idle THEN Ended(@, "done")
                       ELSE Onward([@ EXCEPT !.at = "read", !.now = clock + 1, !.saved = <<>>,
                                             !.candidates = cs])]
      BY <1>1, <1>3, <1>4, <1>11 DEF SaveCompact
    <2>2. QED
      BY <1>1, <1>2, <1>9, <2>1 DEF Begins
  <1>13. PICK x : x = IF idle THEN Ended(w, "done") ELSE Onward(begun)
    OBVIOUS
  <1>14. /\ x \in Task(x, clock') /\ Ready(x)
         /\ \/ x.at = "done" /\ w.compact = NoCompact
            \/ x.at \in {"read", "links"} /\ x.compact = w.compact
    <2>1. CASE idle
      <3>1. w \in Task(w, clock')
        BY <1>2, <1>8, Grow
      <3>2. x = Ended(w, "done")
        BY <1>13, <2>1
      <3>3. x \in Task(x, clock') /\ Ready(x) /\ x.at = "done"
        BY <1>8, <3>1, <3>2, EndedTask
      <3>4. QED
        BY <1>11, <2>1, <3>3
    <2>2. CASE ~idle
      <3>1. Edges(begun.edges) /\ begun.now # 0
        BY <1>2, <1>10 DEF Ready
      <3>2. x = Onward(begun)
        BY <1>13, <2>2
      <3>3. x \in Task(x, clock') /\ Ready(x) /\ Proceeds(begun, x)
        BY <1>8, <1>10, <3>1, <3>2, OnwardTask
      <3>4. QED
        BY <1>10, <3>3 DEF Proceeds
    <2>3. QED
      BY <2>1, <2>2
  <1>15. task' = [task EXCEPT ![t] = x]
    BY <1>12, <1>13
  <1>16. TaskInv'
    BY <1>2, <1>8, <1>14, <1>15, TaskStep DEF MemoryInv
  <1>17. GraphInv'
    BY <1>5, <1>8, GraphKept DEF MemoryInv
  <1>18. /\ compact' \in {compact, t} /\ faults' \in 0 .. MaxFaults
         /\ store = "memory" => faults' = faults
         /\ IF w.compact = NoCompact THEN compact' = compact ELSE store = "memory" => compact' = t
    <2>1. CASE w.compact # NoCompact
      <3>1. PICK broken \in Outcomes : compact' = (IF broken THEN compact ELSE t) /\ Count(broken)
        BY <1>1, <2>1 DEF SaveCompact
      <3>2. QED
        BY <2>1, <3>1, CountOutcome DEF MemoryInv
    <2>2. CASE w.compact = NoCompact
      BY <1>1, <2>2 DEF SaveCompact, MemoryInv, CountersInv
    <2>3. QED
      BY <2>1, <2>2
  <1>19. CountersInv'
    BY <1>5, <1>18, MemoryAssumption DEF MemoryInv, CountersInv, Turns
  <1>20. QED
    BY <1>1, <1>5, <1>14, <1>15, <1>16, <1>17, <1>18, <1>19 DEF MemoryInv

LEMMA MatchesAreMemories ==
  ASSUME GraphInv, NEW n \in Memories(clock), NEW broken
  PROVE  BestMatch(n, ListNodes({n.type}, broken)) \in Found(clock)
  <1> DEFINE listed == ListNodes({n.type}, broken)
  <1>1. listed \subseteq memory \cup rows /\ \A m \in listed : m.type = n.type
    BY Listed
  <1>2. BestMatch(n, listed) \subseteq listed
    BY DEF BestMatch, Newest
  <1>3. ASSUME NEW m \in listed PROVE m \in Memories(clock)
    <2>1. m \in Node(clock) /\ (m.id = SummaryId <=> IsSummary(m))
      BY <1>1 DEF GraphInv, NodesOf
    <2>2. m.type = n.type /\ n.type # "session_summary"
      BY <1>1 DEF Memories, IsSummary
    <2>3. QED
      BY <2>1, <2>2 DEF Memories, IsSummary
  <1> HIDE DEF listed
  <1>4. BestMatch(n, listed) \in Found(clock)
    BY <1>2, <1>3 DEF Found
  <1>5. QED
    BY <1>4 DEF listed

LEMMA ReadSimilarStep ==
  ASSUME MemoryInv, NEW t \in Turns, ReadSimilar(t)
  PROVE  /\ MemoryInv' /\ (store = "memory" => faults' = faults) /\ task[t].at = "read"
         /\ \E x : task' = [task EXCEPT ![t] = x] /\ x.at = "write" /\ x.compact = task[t].compact
  <1>1. PICK w : w = task[t]
    OBVIOUS
  <1>2. w \in Task(w, clock) /\ Ready(w) /\ clock \in Nat /\ t \in DOMAIN task
    BY <1>1, TaskAt
  <1>3. w.at = "read" /\ w.candidates # <<>>
        /\ UNCHANGED <<store, memory, rows, links, items, compact, mood, clock, serial, restarts>>
    BY <1>1 DEF ReadSimilar
  <1>4. PICK n : n = Head(w.candidates)
    OBVIOUS
  <1>5. PICK broken \in Outcomes :
          /\ task' = [task EXCEPT ![t].at = "write",
                        ![t].match = BestMatch(n, ListNodes({n.type}, broken))]
          /\ Count(broken)
    BY <1>1, <1>4 DEF ReadSimilar
  <1>6. PICK match : match = BestMatch(n, ListNodes({n.type}, broken))
    OBVIOUS
  <1>7. n \in Memories(clock)
    BY <1>2, <1>3, <1>4, TaskFields
  <1>8. match \in Found(clock)
    BY <1>6, <1>7, MatchesAreMemories DEF MemoryInv
  <1>9. PICK x : x = Matches(w, "write", match)
    OBVIOUS
  <1>10. "write" \in Points
    BY DEF Points
  <1>11. x \in Task(x, clock) /\ x.at = "write" /\ x.edges = w.edges /\ x.compact = w.compact
         /\ x.now = w.now /\ x.candidates = w.candidates
    BY <1>2, <1>8, <1>9, <1>10, MatchesType
  <1>12. task' = [task EXCEPT ![t] = x]
    <2>1. task' = [task EXCEPT ![t].at = "write", ![t].match = match]
      BY <1>5, <1>6
    <2>2. QED
      BY <1>1, <1>2, <1>9, <2>1 DEF Matches
  <1>13. Ready(x)
    BY <1>2, <1>3, <1>11 DEF Ready
  <1>14. TaskInv'
    <2>1. clock' = clock /\ clock <= clock'
      BY <1>2, <1>3
    <2>2. QED
      BY <1>2, <1>11, <1>12, <1>13, <2>1, TaskStep DEF MemoryInv
  <1>15. GraphInv'
    BY <1>2, <1>3, GraphKept DEF MemoryInv
  <1>16. CountersInv' /\ (store = "memory" => faults' = faults)
    BY <1>3, <1>5, CountOutcome DEF MemoryInv, CountersInv
  <1>17. QED
    BY <1>1, <1>3, <1>11, <1>12, <1>14, <1>15, <1>16 DEF MemoryInv

(* A node is written, and the task goes on as next or has failed.          *)
LEMMA WriteBothStep ==
  ASSUME MemoryInv, NEW t \in Turns, NEW n \in Node(clock), n.id = SummaryId <=> IsSummary(n),
         NEW next, next \in Task(next, clock), Edges(next.edges), next.now # 0,
         next.at \in {"read", "links", "summaryLinks"},
         WriteBoth(t, n, next),
         UNCHANGED <<store, links, items, compact, mood, clock, serial, restarts>>
  PROVE  /\ MemoryInv' /\ (store = "memory" => faults' = faults) /\ memory' = Put(memory, n)
         /\ \E x : /\ task' = [task EXCEPT ![t] = x]
                   /\ \/ x.at = "failed" /\ store # "memory"
                      \/ Proceeds(next, x)
  <1>1. PICK w : w = task[t]
    OBVIOUS
  <1>2. w \in Task(w, clock) /\ Ready(w) /\ clock \in Nat /\ t \in DOMAIN task
    BY <1>1, TaskAt
  <1>3. memory' = Put(memory, n)
    BY DEF WriteBoth
  <1>4. PICK broken \in Outcomes :
          /\ rows' = IF store = "memory" \/ broken THEN rows ELSE Put(rows, n)
          /\ task' = [task EXCEPT ![t] = IF broken THEN Ended(w, "failed") ELSE Onward(next)]
          /\ Count(broken)
    BY <1>1, <1>2 DEF WriteBoth
  <1>5. CountersInv' /\ broken \in BOOLEAN /\ (store = "memory" => ~broken /\ faults' = faults)
    BY <1>4, CountOutcome DEF MemoryInv, CountersInv
  <1>6. PICK x : x = IF broken THEN Ended(w, "failed") ELSE Onward(next)
    OBVIOUS
  <1>7. x \in Task(x, clock) /\ Ready(x) /\ ((x.at = "failed" /\ store # "memory") \/ Proceeds(next, x))
    <2>1. CASE broken
      <3>1. x = Ended(w, "failed")
        BY <1>6, <2>1
      <3>2. x \in Task(x, clock) /\ Ready(x) /\ x.at = "failed"
        BY <1>2, <3>1, EndedTask
      <3>3. QED
        BY <1>5, <2>1, <3>2
    <2>2. CASE ~broken
      <3>1. x = Onward(next)
        BY <1>6, <2>2
      <3>2. QED
        BY <1>2, <3>1, OnwardTask
    <2>3. QED
      BY <2>1, <2>2
  <1>8. task' = [task EXCEPT ![t] = x]
    BY <1>4, <1>6
  <1>9. TaskInv'
    <2>1. clock' = clock /\ clock <= clock'
      BY <1>2
    <2>2. QED
      BY <1>2, <1>7, <1>8, <2>1, TaskStep DEF MemoryInv
  <1>10. GraphInv'
    <2>1. NodesOf(memory) /\ NodesOf(rows) /\ (store = "memory" => rows = {})
      BY DEF MemoryInv, GraphInv
    <2>2. NodesOf(Put(memory, n)) /\ NodesOf(Put(rows, n))
      BY <2>1, PutNode
    <2>3. \A S : NodesOf(S) <=> NodesOf(S)'
      BY DEF NodesOf, Node
    <2>4. rows' = rows \/ (rows' = Put(rows, n) /\ store # "memory")
      BY <1>4, <1>5
    <2>5. NodesOf(memory)' /\ NodesOf(rows)'
      BY <1>3, <2>1, <2>2, <2>4 DEF NodesOf
    <2>6. QED
      BY <2>1, <2>4, <2>5 DEF MemoryInv, GraphInv
  <1>11. QED
    BY <1>3, <1>5, <1>7, <1>8, <1>9, <1>10 DEF MemoryInv

LEMMA WriteNodeStep ==
  ASSUME MemoryInv, NEW t \in Turns, WriteNode(t)
  PROVE  /\ MemoryInv' /\ (store = "memory" => faults' = faults) /\ task[t].at = "write"
         /\ \E n : memory' = Put(memory, n) /\ n.id # SummaryId
         /\ \E x : /\ task' = [task EXCEPT ![t] = x]
                   /\ \/ x.at = "failed" /\ store # "memory"
                      \/ x.at = "done" /\ task[t].compact = NoCompact
                      \/ x.at \in {"read", "links"} /\ x.compact = task[t].compact
  <1>1. PICK w : w = task[t]
    OBVIOUS
  <1>2. w \in Task(w, clock) /\ Ready(w) /\ clock \in Nat /\ t \in DOMAIN task
    BY <1>1, TaskAt
  <1>3. PICK head : head = Head(w.candidates)
    OBVIOUS
  <1>4. PICK n : n = IF w.match = {} THEN head ELSE Merge(CHOOSE m \in w.match : TRUE, head)
    OBVIOUS
  <1>5. PICK kept, rest : kept = Append(w.kept, n) /\ rest = Tail(w.candidates)
    OBVIOUS
  <1>6. PICK next : next = Writes(w, "read", {}, kept, rest)
    OBVIOUS
  <1>7. w.at = "write" /\ WriteBoth(t, n, next)
        /\ UNCHANGED <<store, links, items, compact, mood, clock, serial, restarts>>
    <2>1. [task[t] EXCEPT !.at = "read", !.match = {}, !.kept = kept, !.candidates = rest] = next
      BY <1>1, <1>6 DEF Writes
    <2>2. QED
      BY <1>1, <1>3, <1>4, <1>5, <2>1 DEF WriteNode
  <1>8. head \in Memories(clock) /\ rest \in Brought(clock) /\ w.match \subseteq Memories(clock)
    <2>1. w.candidates \in Seq(Memories(clock)) /\ w.candidates # <<>>
      BY <1>2, <1>7, TaskFields DEF Ready
    <2>2. w.match \subseteq Memories(clock)
      BY <1>2, TaskFields
    <2>3. QED
      BY <1>3, <1>5, <2>1, <2>2 DEF Brought
  <1>9. n \in Memories(clock)
    <2>1. CASE w.match = {}
      BY <1>4, <1>8, <2>1
    <2>2. CASE w.match # {}
      <3>1. PICK old : old = CHOOSE m \in w.match : TRUE
        OBVIOUS
      <3>2. old \in Memories(clock)
        BY <1>8, <2>2, <3>1
      <3>3. n = Merge(old, head)
        BY <1>4, <2>2, <3>1
      <3>4. QED
        BY <1>2, <1>8, <3>2, <3>3, MergedNode
    <2>3. QED
      BY <2>1, <2>2
  <1>10. n \in Node(clock) /\ ~IsSummary(n) /\ n.id # SummaryId
    BY <1>9 DEF Memories
  <1>11. next \in Task(next, clock) /\ next.at = "read" /\ next.edges = w.edges
         /\ next.compact = w.compact /\ next.now = w.now
    <2>1. "read" \in Points /\ {} \in Found(clock)
      BY DEF Points, Found
    <2>2. kept \in Kept(clock)
      BY <1>2, <1>5, <1>10, TaskFields DEF Kept
    <2>3. PICK none : none = {}
      OBVIOUS
    <2>4. next = Writes(w, "read", none, kept, rest) /\ none \in Found(clock)
      BY <1>6, <2>1, <2>3
    <2>5. QED
      BY <1>2, <1>8, <2>1, <2>2, <2>4, WritesType
  <1>12. Edges(next.edges) /\ next.now # 0
    BY <1>2, <1>7, <1>11 DEF Ready
  <1>13. /\ MemoryInv' /\ (store = "memory" => faults' = faults) /\ memory' = Put(memory, n)
         /\ \E x : /\ task' = [task EXCEPT ![t] = x]
                   /\ (x.at = "failed" /\ store # "memory") \/ Proceeds(next, x)
    BY <1>7, <1>10, <1>11, <1>12, WriteBothStep
  <1>14. PICK x : /\ task' = [task EXCEPT ![t] = x]
                  /\ (x.at = "failed" /\ store # "memory") \/ Proceeds(next, x)
    BY <1>13
  <1>15. \/ x.at = "failed" /\ store # "memory"
         \/ x.at = "done" /\ w.compact = NoCompact
         \/ x.at \in {"read", "links"} /\ x.compact = w.compact
    BY <1>11, <1>14 DEF Proceeds
  <1>16. QED
    BY <1>1, <1>7, <1>10, <1>13, <1>14, <1>15

LEMMA LinkStep ==
  ASSUME MemoryInv, NEW t \in Turns, Link(t)
  PROVE  /\ MemoryInv' /\ task[t].at \in {"links", "summaryLinks"}
         /\ \E x : /\ task' = [task EXCEPT ![t] = x]
                   /\ \/ x.at = "failed" /\ store # "memory"
                      \/ x.at = "done" /\ (task[t].at = "links" => task[t].compact = NoCompact)
                      \/ x.at = task[t].at /\ x.compact = task[t].compact
  <1>1. PICK w : w = task[t]
    OBVIOUS
  <1>2. w \in Task(w, clock) /\ Ready(w) /\ clock \in Nat /\ t \in DOMAIN task
    BY <1>1, TaskAt
  <1>3. PICK rest : rest = Tail(w.edges)
    OBVIOUS
  <1>4. PICK next : next = Links(w, rest)
    OBVIOUS
  <1>5. /\ w.at \in {"links", "summaryLinks"} /\ w.edges # <<>>
        /\ links' = links \cup {Head(w.edges)}
        /\ UNCHANGED <<store, memory, rows, items, compact, mood, clock, serial, faults, restarts>>
    BY <1>1 DEF Link
  <1>6. task' = [task EXCEPT ![t] = IF store = "postgres" THEN Ended(w, "failed") ELSE Onward(next)]
    <2>1. task' = [task EXCEPT ![t] = IF store = "postgres" THEN Ended(task[t], "failed")
                                      ELSE Onward([task[t] EXCEPT !.edges = Tail(task[t].edges)])]
      BY <1>2 DEF Link
    <2>2. [task[t] EXCEPT !.edges = Tail(task[t].edges)] = next
      BY <1>1, <1>3, <1>4 DEF Links
    <2>3. QED
      BY <1>1, <2>1, <2>2
  <1>7. Edges(rest) /\ Head(w.edges).type \in EdgeTypes /\ w.now # 0
    BY <1>2, <1>3, <1>5, FewerEdges DEF Ready
  <1>8. next \in Task(next, clock) /\ next.at = w.at /\ next.edges = rest
        /\ next.compact = w.compact /\ next.now = w.now
    BY <1>2, <1>4, LinksType
  <1>9. PICK x : x = IF store = "postgres" THEN Ended(w, "failed") ELSE Onward(next)
    OBVIOUS
  <1>10. /\ x \in Task(x, clock) /\ Ready(x)
         /\ \/ x.at = "failed" /\ store # "memory"
            \/ x.at = "done" /\ (w.at = "links" => w.compact = NoCompact)
            \/ x.at = w.at /\ x.compact = w.compact
    <2>1. CASE store = "postgres"
      <3>1. x = Ended(w, "failed")
        BY <1>9, <2>1
      <3>2. x \in Task(x, clock) /\ Ready(x) /\ x.at = "failed"
        BY <1>2, <3>1, EndedTask
      <3>3. QED
        BY <2>1, <3>2
    <2>2. CASE store # "postgres"
      <3>1. x = Onward(next)
        BY <1>9, <2>2
      <3>2. next.at \in {"read", "links", "summaryLinks"} /\ Edges(next.edges) /\ next.now # 0
        BY <1>5, <1>7, <1>8
      <3>3. x \in Task(x, clock) /\ Ready(x) /\ Proceeds(next, x)
        BY <1>2, <1>8, <3>1, <3>2, OnwardTask
      <3>4. QED
        BY <1>5, <1>8, <3>3 DEF Proceeds
    <2>3. QED
      BY <2>1, <2>2
  <1>11. task' = [task EXCEPT ![t] = x]
    BY <1>6, <1>9
  <1>12. TaskInv'
    <2>1. clock' = clock /\ clock <= clock'
      BY <1>2, <1>5
    <2>2. QED
      BY <1>2, <1>10, <1>11, <2>1, TaskStep DEF MemoryInv
  <1>13. GraphInv'
    BY <1>5, <1>7 DEF MemoryInv, GraphInv, NodesOf
  <1>14. CountersInv'
    BY <1>5 DEF MemoryInv, CountersInv
  <1>15. QED
    BY <1>1, <1>5, <1>10, <1>11, <1>12, <1>13, <1>14 DEF MemoryInv

LEMMA SummarizeStep ==
  ASSUME MemoryInv, NEW t \in Turns, Summarize(t)
  PROVE  /\ MemoryInv' /\ (store = "memory" => faults' = faults)
         /\ task[t].at = "links" /\ task[t].compact # NoCompact
         /\ \E n : memory' = Put(memory, n) /\ n.id = SummaryId /\ n.turn = t
         /\ \E x : /\ task' = [task EXCEPT ![t] = x]
                   /\ (x.at = "failed" /\ store # "memory") \/ x.at \in {"done", "summaryLinks"}
  <1>1. PICK w : w = task[t]
    OBVIOUS
  <1>2. w \in Task(w, clock) /\ Ready(w) /\ clock \in Nat /\ t \in DOMAIN task
    BY <1>1, TaskAt
  <1>3. PICK n : n = SummaryNode(t, w.now)
    OBVIOUS
  <1>4. PICK told : told = SubSeq(w.kept, Len(w.kept) - Len(w.compact) + 1, Len(w.kept))
    OBVIOUS
  <1>5. PICK edges : edges = SummaryEdges(told)
    OBVIOUS
  <1>6. PICK next : next = LinksAt(w, "summaryLinks", edges)
    OBVIOUS
  <1>7. /\ w.at = "links" /\ w.compact # NoCompact /\ WriteBoth(t, n, next)
        /\ UNCHANGED <<store, links, items, compact, mood, clock, serial, restarts>>
    <2>1. [task[t] EXCEPT !.at = "summaryLinks", !.edges = edges] = next
      BY <1>1, <1>6 DEF LinksAt
    <2>2. QED
      BY <1>1, <1>3, <1>4, <1>5, <2>1 DEF Summarize
  <1>8. w.now \in 1 .. clock
    BY <1>2, <1>7, TaskFields DEF Ready
  <1>9. n \in Node(clock) /\ IsSummary(n) /\ n.id = SummaryId /\ n.turn = t
    BY <1>2, <1>3, <1>8, SummaryOfTurn
  <1>10. next \in Task(next, clock) /\ next.at = "summaryLinks" /\ next.edges = edges
         /\ next.compact = w.compact /\ next.now = w.now
    <2>1. "summaryLinks" \in Points
      BY DEF Points
    <2>2. QED
      BY <1>2, <1>6, <2>1, LinksAtType
  <1>11. Edges(edges)
    <2>1. w.kept \in Seq(Node(clock)) /\ w.compact \in Seq(Topics)
      BY <1>2, <1>7, TaskFields DEF Said
    <2>2. PICK k \in Nat : k = Len(w.compact)
      BY <2>1
    <2>3. told = SubSeq(w.kept, Len(w.kept) - k + 1, Len(w.kept))
      BY <1>4, <2>2
    <2>4. DOMAIN told = 1 .. k
      BY <2>1, <2>3
    <2>5. QED
      BY <1>5, <2>4, SummaryEdgesAreEdges
  <1>12. Edges(next.edges) /\ next.now # 0
    BY <1>2, <1>7, <1>10, <1>11 DEF Ready
  <1>13. /\ MemoryInv' /\ (store = "memory" => faults' = faults) /\ memory' = Put(memory, n)
         /\ \E x : /\ task' = [task EXCEPT ![t] = x]
                   /\ (x.at = "failed" /\ store # "memory") \/ Proceeds(next, x)
    BY <1>7, <1>9, <1>10, <1>12, WriteBothStep
  <1>14. PICK x : /\ task' = [task EXCEPT ![t] = x]
                  /\ (x.at = "failed" /\ store # "memory") \/ Proceeds(next, x)
    BY <1>13
  <1>15. (x.at = "failed" /\ store # "memory") \/ x.at \in {"done", "summaryLinks"}
    BY <1>10, <1>14 DEF Proceeds
  <1>16. QED
    BY <1>1, <1>7, <1>9, <1>13, <1>14, <1>15

LEMMA RestartStep ==
  ASSUME MemoryInv, Restart
  PROVE  MemoryInv' /\ store # "memory" /\ store' = store /\ \A t \in Turns : ~Working(t)'
  <1>1. /\ store = "postgres" /\ restarts < MaxRestarts /\ restarts' = restarts + 1
        /\ memory' = {} /\ links' = {}
        /\ task' = [t \in Turns |-> IF Working(t) THEN Ended(task[t], "gone") ELSE task[t]]
        /\ UNCHANGED <<store, rows, items, compact, mood, clock, serial, faults>>
    BY DEF Restart
  <1>2. GraphInv'
    BY <1>1 DEF MemoryInv, GraphInv, NodesOf
  <1>3. CountersInv'
    BY <1>1, MemoryAssumption DEF MemoryInv, CountersInv
  <1>4. ASSUME NEW t \in Turns PROVE task'[t] \in Task(task'[t], clock) /\ Ready(task'[t])
    <2>1. PICK w : w = task[t]
      OBVIOUS
    <2>2. w \in Task(w, clock) /\ Ready(w) /\ clock \in Nat
      BY <2>1, TaskAt
    <2>3. PICK x : x = Ended(w, "gone")
      OBVIOUS
    <2>4. x \in Task(x, clock) /\ Ready(x)
      BY <2>2, <2>3, EndedTask
    <2>5. task'[t] = x \/ task'[t] = w
      BY <1>1, <2>1, <2>3
    <2>6. QED
      BY <2>2, <2>4, <2>5
  <1>5. TaskInv'
    <2>1. task' = [t \in Turns |-> task'[t]] /\ clock' = clock
      BY <1>1
    <2>2. QED
      BY <1>4, <2>1 DEF TaskInv
  <1>6. ASSUME NEW t \in Turns PROVE ~Working(t)'
    <2>1. PICK w : w = task[t]
      OBVIOUS
    <2>2. PICK x : x = Ended(w, "gone")
      OBVIOUS
    <2>3. x.at = "gone"
      BY <2>1, <2>2, TaskAt, EndedTask
    <2>4. task'[t] = IF Working(t) THEN x ELSE w
      BY <1>1, <2>1, <2>2
    <2>5. QED
      BY <2>1, <2>3, <2>4 DEF Working
  <1>7. QED
    BY <1>1, <1>2, <1>3, <1>5, <1>6 DEF MemoryInv

LEMMA MemoryInit == Init => MemoryInv
  <1> SUFFICES ASSUME Init PROVE MemoryInv
    OBVIOUS
  <1>1. GraphInv
    BY DEF Init, GraphInv, NodesOf
  <1>2. CountersInv
    BY MemoryAssumption DEF Init, CountersInv
  <1>3. NoTask \in Task(NoTask, 0) /\ Ready(NoTask)
    <2>1. NoTask.edges = <<>> /\ NoTask.at = "idle"
      BY DEF NoTask
    <2>2. /\ <<>> \in Todos /\ <<>> \in Savings(0) /\ NoCompact \in Said /\ <<>> \in Brought(0)
          /\ {} \in Found(0) /\ <<>> \in Kept(0) /\ 0 \in Stamp(0) /\ "idle" \in Points
      BY DEF Todos, Savings, Said, Brought, Found, Kept, Stamp, Points
    <2>3. NoTask \in TaskWith(<<>>, 0)
      BY <2>2 DEF TaskWith, NoTask
    <2>4. QED
      BY <2>1, <2>3, TaskAsSet, NoEdges DEF Ready
  <1>4. TaskInv
    <2>1. clock = 0 /\ task = [t \in Turns |-> NoTask]
      BY DEF Init
    <2>2. task = [t \in Turns |-> task[t]] /\ \A t \in Turns : task[t] = NoTask
      BY <2>1
    <2>3. QED
      BY <1>3, <2>1, <2>2 DEF TaskInv
  <1>5. QED
    BY <1>1, <1>2, <1>4 DEF MemoryInv

LEMMA MemoryNext == MemoryInv /\ [Next]_vars => MemoryInv'
  <1> SUFFICES ASSUME MemoryInv, [Next]_vars PROVE MemoryInv'
    OBVIOUS
  <1>1. ASSUME NEW t \in Turns, Extract(t) PROVE MemoryInv'
    BY <1>1, ExtractStep
  <1>2. ASSUME NEW t \in Turns, SaveItem(t) PROVE MemoryInv'
    BY <1>2, SaveItemStep
  <1>3. ASSUME NEW t \in Turns, SetMood(t) PROVE MemoryInv'
    BY <1>3, SetMoodStep
  <1>4. ASSUME NEW t \in Turns, SaveCompact(t) PROVE MemoryInv'
    BY <1>4, SaveCompactStep
  <1>5. ASSUME NEW t \in Turns, ReadSimilar(t) PROVE MemoryInv'
    BY <1>5, ReadSimilarStep
  <1>6. ASSUME NEW t \in Turns, WriteNode(t) PROVE MemoryInv'
    BY <1>6, WriteNodeStep
  <1>7. ASSUME NEW t \in Turns, Link(t) PROVE MemoryInv'
    BY <1>7, LinkStep
  <1>8. ASSUME NEW t \in Turns, Summarize(t) PROVE MemoryInv'
    BY <1>8, SummarizeStep
  <1>9. CASE Restart
    BY <1>9, RestartStep
  <1>10. CASE UNCHANGED vars
    BY <1>10 DEF vars, MemoryInv, GraphInv, NodesOf, TaskInv, CountersInv
  <1>11. QED
    BY <1>1, <1>2, <1>3, <1>4, <1>5, <1>6, <1>7, <1>8, <1>9, <1>10 DEF Next

(* Types: one record per id, nothing is stamped later than the clock, and  *)
(* what a task keeps are nodes.                                            *)
THEOREM MemoryTypeCorrect == Spec => []TypeOK
  <1>1. MemoryInv => TypeOK
    <2> SUFFICES ASSUME MemoryInv PROVE TypeOK
      OBVIOUS
    <2>1. ASSUME NEW S \in {memory, rows}
          PROVE  /\ \A n, m \in S : n.id = m.id => n = m
                 /\ \A n \in S : /\ n.type \in AllTypes /\ n.topic \in Topics \cup {None}
                                 /\ n.status \in Statuses /\ n.at \in 1 .. clock
                                 /\ n.evidence \in Nat \ {0} /\ n.turn \in Turns
      <3>1. NodesOf(S)
        BY <2>1 DEF MemoryInv, GraphInv
      <3>2. QED
        BY <3>1 DEF NodesOf, Node
    <2>2. ASSUME NEW t \in Turns PROVE \A i \in DOMAIN task[t].kept : task[t].kept[i].type \in AllTypes
      <3>1. PICK kept : kept = task[t].kept
        OBVIOUS
      <3>2. kept \in Seq(Node(clock))
        BY <3>1, TaskAt, TaskFields
      <3>3. \A n \in Node(clock) : n.type \in AllTypes
        BY DEF Node
      <3>4. \A i \in DOMAIN kept : kept[i] \in Node(clock)
        BY <3>2
      <3>5. QED
        BY <3>1, <3>3, <3>4
    <2>3. store = "memory" => rows = {}
      BY DEF MemoryInv, GraphInv
    <2>4. \A e \in links : e.type \in {"follows", "summarizes"}
      BY DEF MemoryInv, GraphInv, EdgeTypes
    <2>5. QED
      BY <2>1, <2>2, <2>3, <2>4 DEF TypeOK, MemoryInv, CountersInv
  <1>2. QED
    BY <1>1, MemoryInit, MemoryNext, PTL DEF Spec

-----------------------------------------------------------------------------
(* The summary tells of the turn the compact is from.                      *)

LEMMA SummaryStep ==
  ASSUME MemoryInv, SummaryInv, NEW t \in Turns, Working(t),
         NEW x, task' = [task EXCEPT ![t] = x], UNCHANGED <<store, serial>>,
         store = "memory" => faults' = faults /\ x.at \notin {"failed", "gone"},
         store = "memory" /\ serial =>
           IF AtWork(x) THEN Telling(t, x)' ELSE Told'
  PROVE  SummaryInv'
  <1>1. /\ task'[t] = x /\ \A u \in Turns \ {t} : task'[u] = task[u]
        /\ Working(t)' <=> AtWork(x)
        /\ \A u \in Turns \ {t} : Working(u)' <=> Working(u)
    BY DEF MemoryInv, TaskInv, Working, AtWork
  <1>2. serial' => \A u, v \in Turns : Working(u)' /\ Working(v)' => u = v
    BY <1>1 DEF SummaryInv
  <1>3. store' = "memory" => faults' = 0 /\ \A u \in Turns : task'[u].at \notin {"failed", "gone"}
    BY <1>1 DEF SummaryInv
  <1>4. ASSUME store = "memory", serial
        PROVE  /\ \A u \in Turns : Working(u)' => Telling(u, task[u])'
               /\ (\A u \in Turns : ~Working(u)') => Told'
    <2>1. \A u \in Turns \ {t} : ~Working(u)'
      BY <1>1, <1>4 DEF SummaryInv
    <2>2. Working(t)' => Telling(t, task[t])'
      <3>1. Working(t)' => Telling(t, x)'
        BY <1>1, <1>4
      <3>2. QED
        BY <1>1, <3>1 DEF Telling
    <2>3. (~Working(t)') => Told'
      BY <1>1, <1>4
    <2>4. QED
      BY <2>1, <2>2, <2>3
  <1>5. QED
    BY <1>2, <1>3, <1>4 DEF SummaryInv

(* What the step of the working turn finds.                                *)
LEMMA SummaryBefore ==
  ASSUME SummaryInv, NEW t \in Turns, Working(t), store = "memory", serial
  PROVE  Telling(t, task[t])
  BY DEF SummaryInv

LEMMA ToldKept ==
  ASSUME Told, UNCHANGED <<memory, compact>> PROVE Told'
  BY DEF Told

LEMMA ToldBeside ==
  ASSUME Told, UNCHANGED compact, NEW n, memory' = Put(memory, n), n.id # SummaryId
  PROVE  Told'
  BY DEF Told, Put

LEMMA SummaryNext ==
  MemoryInv /\ MemoryInv' /\ SummaryInv /\ [Next]_vars => SummaryInv'
  <1> SUFFICES ASSUME MemoryInv, MemoryInv', SummaryInv, [Next]_vars PROVE SummaryInv'
    OBVIOUS
  <1>1. ASSUME NEW t \in Turns, Extract(t) PROVE SummaryInv'
    <2>1. PICK x : /\ task' = [task EXCEPT ![t] = x] /\ x.at = "items"
                   /\ task[t].at = "idle" /\ (store = "memory" => faults' = faults)
      BY <1>1, ExtractStep
    <2>2. /\ UNCHANGED <<store, memory, compact>> /\ serial' = (serial /\ \A u \in Turns : ~Working(u))
      BY <1>1 DEF Extract
    <2>3. /\ task'[t] = x /\ Working(t)' /\ \A u \in Turns \ {t} : task'[u] = task[u]
      BY <2>1 DEF MemoryInv, TaskInv, Working
    <2>4. \A u \in Turns \ {t} : Working(u)' <=> Working(u)
      BY <2>3 DEF Working
    <2>5. serial' => \A u, v \in Turns : Working(u)' /\ Working(v)' => u = v
      BY <2>2, <2>4
    <2>6. store' = "memory" => faults' = 0 /\ \A u \in Turns : task'[u].at \notin {"failed", "gone"}
      BY <2>1, <2>2, <2>3 DEF SummaryInv
    <2>7. ASSUME store = "memory", serial'
          PROVE  \A u \in Turns : Working(u)' => Telling(u, task[u])'
      <3>1. Told'
        BY <2>2, <2>7, ToldKept DEF SummaryInv
      <3>2. Telling(t, task[t])'
        BY <2>1, <2>3, <3>1 DEF Telling
      <3>3. QED
        BY <2>2, <2>4, <2>7, <3>2
    <2>8. QED
      BY <2>2, <2>3, <2>5, <2>6, <2>7 DEF SummaryInv
  <1>2. ASSUME NEW t \in Turns, SaveItem(t) \/ SetMood(t) PROVE SummaryInv'
    <2>1. PICK x : /\ task' = [task EXCEPT ![t] = x] /\ x.at \in {"items", "compact"}
                   /\ task[t].at = "items" /\ (store = "memory" => faults' = faults)
      BY <1>2, SaveItemStep, SetMoodStep
    <2>2. UNCHANGED <<store, memory, compact, serial>>
      BY <1>2 DEF SaveItem, SetMood
    <2>3. Working(t)
      BY <2>1 DEF Working
    <2>4. store = "memory" /\ serial => Told'
      BY <2>1, <2>2, <2>3, SummaryBefore, ToldKept DEF Telling
    <2>5. store = "memory" /\ serial => IF AtWork(x) THEN Telling(t, x)' ELSE Told'
      BY <2>1, <2>4 DEF Telling
    <2>6. QED
      BY <2>1, <2>2, <2>3, <2>5, SummaryStep
  <1>3. ASSUME NEW t \in Turns, SaveCompact(t) PROVE SummaryInv'
    <2>1. /\ (store = "memory" => faults' = faults) /\ task[t].at = "compact"
          /\ IF task[t].compact = NoCompact THEN compact' = compact ELSE store = "memory" => compact' = t
      BY <1>3, SaveCompactStep
    <2>2. PICK x : /\ task' = [task EXCEPT ![t] = x]
                   /\ \/ x.at = "done" /\ task[t].compact = NoCompact
                      \/ x.at \in {"read", "links"} /\ x.compact = task[t].compact
      BY <1>3, SaveCompactStep
    <2>3. UNCHANGED <<store, memory, serial>>
      BY <1>3 DEF SaveCompact
    <2>4. Working(t)
      BY <2>1 DEF Working
    <2>5. ASSUME store = "memory", serial PROVE IF AtWork(x) THEN Telling(t, x)' ELSE Told'
      <3>1. CASE task[t].compact = NoCompact
        <4>1. Told'
          BY <2>1, <2>3, <2>4, <2>5, <3>1, SummaryBefore, ToldKept DEF Telling
        <4>2. QED
          BY <2>2, <3>1, <4>1 DEF Telling
      <3>2. CASE task[t].compact # NoCompact
        BY <2>1, <2>2, <2>5, <3>2 DEF Telling, AtWork
      <3>3. QED
        BY <3>1, <3>2
    <2>6. QED
      BY <2>1, <2>2, <2>3, <2>4, <2>5, SummaryStep
  <1>4. ASSUME NEW t \in Turns, ReadSimilar(t) PROVE SummaryInv'
    <2>1. PICK x : /\ task' = [task EXCEPT ![t] = x] /\ x.at = "write" /\ x.compact = task[t].compact
                   /\ task[t].at = "read" /\ (store = "memory" => faults' = faults)
      BY <1>4, ReadSimilarStep
    <2>2. UNCHANGED <<store, memory, compact, serial>>
      BY <1>4 DEF ReadSimilar
    <2>3. Working(t)
      BY <2>1 DEF Working
    <2>4. store = "memory" /\ serial => IF AtWork(x) THEN Telling(t, x)' ELSE Told'
      BY <2>1, <2>2, <2>3, SummaryBefore, ToldKept DEF Telling, AtWork
    <2>5. QED
      BY <2>1, <2>2, <2>3, <2>4, SummaryStep
  <1>5. ASSUME NEW t \in Turns, WriteNode(t) PROVE SummaryInv'
    <2>1. PICK n : memory' = Put(memory, n) /\ n.id # SummaryId
      BY <1>5, WriteNodeStep
    <2>2. PICK x : /\ task' = [task EXCEPT ![t] = x]
                   /\ \/ x.at = "failed" /\ store # "memory"
                      \/ x.at = "done" /\ task[t].compact = NoCompact
                      \/ x.at \in {"read", "links"} /\ x.compact = task[t].compact
      BY <1>5, WriteNodeStep
    <2>3. task[t].at = "write" /\ (store = "memory" => faults' = faults)
      BY <1>5, WriteNodeStep
    <2>4. UNCHANGED <<store, compact, serial>>
      BY <1>5 DEF WriteNode
    <2>5. Working(t)
      BY <2>3 DEF Working
    <2>6. Told => Told'
      BY <2>1, <2>4, ToldBeside
    <2>7. store = "memory" /\ serial => IF AtWork(x) THEN Telling(t, x)' ELSE Told'
      BY <2>2, <2>3, <2>4, <2>5, <2>6, SummaryBefore DEF Telling, AtWork
    <2>8. QED
      BY <2>2, <2>3, <2>4, <2>5, <2>7, SummaryStep
  <1>6. ASSUME NEW t \in Turns, Link(t) PROVE SummaryInv'
    <2>1. PICK x : /\ task' = [task EXCEPT ![t] = x]
                   /\ \/ x.at = "failed" /\ store # "memory"
                      \/ x.at = "done" /\ (task[t].at = "links" => task[t].compact = NoCompact)
                      \/ x.at = task[t].at /\ x.compact = task[t].compact
      BY <1>6, LinkStep
    <2>2. task[t].at \in {"links", "summaryLinks"}
      BY <1>6, LinkStep
    <2>3. UNCHANGED <<store, memory, compact, serial, faults>>
      BY <1>6 DEF Link
    <2>4. Working(t)
      BY <2>2 DEF Working
    <2>5. store = "memory" /\ serial => IF AtWork(x) THEN Telling(t, x)' ELSE Told'
      BY <2>1, <2>2, <2>3, <2>4, SummaryBefore, ToldKept DEF Telling, AtWork
    <2>6. store = "memory" => x.at \notin {"failed", "gone"}
      BY <2>1, <2>2
    <2>7. QED
      BY <2>1, <2>3, <2>4, <2>5, <2>6, SummaryStep
  <1>7. ASSUME NEW t \in Turns, Summarize(t) PROVE SummaryInv'
    <2>1. PICK n : memory' = Put(memory, n) /\ n.id = SummaryId /\ n.turn = t
      BY <1>7, SummarizeStep
    <2>2. PICK x : /\ task' = [task EXCEPT ![t] = x]
                   /\ (x.at = "failed" /\ store # "memory") \/ x.at \in {"done", "summaryLinks"}
      BY <1>7, SummarizeStep
    <2>3. task[t].at = "links" /\ task[t].compact # NoCompact /\ (store = "memory" => faults' = faults)
      BY <1>7, SummarizeStep
    <2>4. UNCHANGED <<store, compact, serial>>
      BY <1>7 DEF Summarize
    <2>5. Working(t)
      BY <2>3 DEF Working
    <2>6. ASSUME store = "memory", serial PROVE Told'
      <3>1. compact = t
        BY <2>3, <2>5, <2>6, SummaryBefore DEF Telling
      <3>2. QED
        BY <2>1, <2>4, <3>1 DEF Told, Put
    <2>7. store = "memory" /\ serial => IF AtWork(x) THEN Telling(t, x)' ELSE Told'
      BY <2>2, <2>6 DEF Telling, AtWork
    <2>8. QED
      BY <2>2, <2>3, <2>4, <2>5, <2>7, SummaryStep
  <1>8. CASE Restart
    <2>1. store' # "memory" /\ \A t \in Turns : ~Working(t)'
      BY <1>8, RestartStep
    <2>2. QED
      BY <2>1 DEF SummaryInv
  <1>9. CASE UNCHANGED vars
    BY <1>9 DEF vars, SummaryInv, Working, Telling, Told
  <1>10. QED
    BY <1>1, <1>2, <1>3, <1>4, <1>5, <1>6, <1>7, <1>8, <1>9 DEF Next

LEMMA SummaryInit == Init => SummaryInv
  <1> SUFFICES ASSUME Init PROVE SummaryInv
    OBVIOUS
  <1>1. \A t \in Turns : task[t].at = "idle"
    BY DEF Init, NoTask
  <1>2. QED
    BY <1>1 DEF Init, SummaryInv, Working, Told

(* Each compact is also the session summary: with the in-memory store and  *)
(* subtasks that run one after the other, once they have all ended the     *)
(* summary node is that of the turn the compact is from (SaveCompact,      *)
(* upsertSessionSummary).                                                  *)
THEOREM CompactSummarized == Spec => []CompactIsSummarized
  <1>1. SummaryInv => CompactIsSummarized
    BY DEF SummaryInv, CompactIsSummarized, Told
  <1>2. QED
    BY <1>1, MemoryInit, MemoryNext, SummaryInit, SummaryNext, PTL DEF Spec

-----------------------------------------------------------------------------
(* What a recall finds.                                                    *)

(* A strict order on a finite set leaves some element without a greater.   *)
LEMMA MaximalElement ==
  ASSUME NEW S, IsFiniteSet(S), S # {}, NEW R,
         \A x \in S : <<x, x>> \notin R,
         \A x, y, z \in S : <<x, y>> \in R /\ <<y, z>> \in R => <<x, z>> \in R
  PROVE  \E x \in S : \A y \in S : <<x, y>> \notin R
  <1> DEFINE Above(x) == {y \in S : <<x, y>> \in R}
             All == {Above(x) : x \in S}
  <1>1. All \subseteq FiniteSubsetsOf(S) /\ All # {}
    <2>1. FiniteSubsetsOf(S) = SUBSET S
      BY FS_FiniteSubsetsOfFinite
    <2>2. All \subseteq SUBSET S /\ All # {}
      <3>1. \A x \in S : Above(x) \subseteq S
        OBVIOUS
      <3> HIDE DEF Above
      <3>2. QED
        BY <3>1
    <2>3. QED
      BY <2>1, <2>2
  <1>2. IsWellFoundedOn(StrictSubsetOrdering(S), FiniteSubsetsOf(S))
    BY FS_StrictSubsetOrderingWellFounded
  <1>3. PICK T \in All : \A U \in All : <<U, T>> \notin StrictSubsetOrdering(S)
    <2> HIDE DEF All
    <2>1. QED
      BY <1>1, <1>2, WFMin
  <1>4. PICK x \in S : T = Above(x)
    BY <1>3
  <1>5. ASSUME NEW y \in S, <<x, y>> \in R PROVE FALSE
    <2>1. Above(y) \subseteq Above(x) /\ y \in Above(x) /\ y \notin Above(y)
      BY <1>5
    <2>2. Above(y) \in All /\ Above(y) \subseteq S /\ Above(x) \subseteq S
      <3>1. Above(y) \subseteq S /\ Above(x) \subseteq S
        OBVIOUS
      <3> HIDE DEF Above
      <3>2. Above(y) \in {Above(z) : z \in S}
        OBVIOUS
      <3>3. QED
        BY <3>1, <3>2
    <2>3. <<Above(y), Above(x)>> \in StrictSubsetOrdering(S)
      BY <2>1, <2>2 DEF StrictSubsetOrdering
    <2>4. QED
      BY <1>3, <1>4, <2>2, <2>3
  <1>6. QED
    BY <1>5

(* A finite set of numbers that is not empty has a greatest element.       *)
LEMMA GreatestNumber ==
  ASSUME NEW S \in SUBSET Nat, IsFiniteSet(S), S # {}
  PROVE  \E m \in S : \A x \in S : x <= m
  <1> DEFINE R == {e \in S \X S : e[1] < e[2]}
  <1>1. \A x, y \in S : <<x, y>> \in R <=> x < y
    OBVIOUS
  <1> HIDE DEF R
  <1>2. \A x \in S : <<x, x>> \notin R
    BY <1>1
  <1>3. \A x, y, z \in S : <<x, y>> \in R /\ <<y, z>> \in R => <<x, z>> \in R
    BY <1>1
  <1>4. PICK m \in S : \A x \in S : <<m, x>> \notin R
    BY <1>2, <1>3, MaximalElement
  <1>5. \A x \in S : ~(m < x)
    BY <1>1, <1>4
  <1>6. QED
    BY <1>5

(* Induction up to n, as a fact about sets.                                *)
LEMMA UpTo ==
  ASSUME NEW n \in Nat, NEW G \in SUBSET (0 .. n), 0 \in G, \A k \in G : k < n => k + 1 \in G
  PROVE  n \in G
  <1>1. IsFiniteSet(G)
    <2>1. IsFiniteSet(0 .. n)
      BY FS_Interval
    <2>2. QED
      BY <2>1, FS_Subset
  <1>2. G \in SUBSET Nat /\ G # {}
    OBVIOUS
  <1>3. PICK m \in G : \A x \in G : x <= m
    BY <1>1, <1>2, GreatestNumber
  <1>4. ~(m < n)
    BY <1>2, <1>3
  <1>5. QED
    BY <1>3, <1>4

LEMMA FewerElements ==
  ASSUME NEW A, NEW B, A \subseteq B, IsFiniteSet(B), NEW k \in Nat, Cardinality(B) < k
  PROVE  Cardinality(A) < k
  <1>1. IsFiniteSet(A) /\ Cardinality(A) <= Cardinality(B)
    BY FS_Subset
  <1>2. Cardinality(A) \in Nat /\ Cardinality(B) \in Nat
    BY <1>1, FS_CardinalityType
  <1>3. QED
    BY <1>1, <1>2

LEMMA ScoreNumber ==
  ASSUME NEW n, NEW cue \in [Topics -> Nat]
  PROVE  Score(n, cue) \in Nat
  <1>1. Weight(n.type) \in Nat
    BY DEF Weight
  <1>2. PICK hits : hits = IF n.topic \in Topics THEN cue[n.topic] ELSE 0
    OBVIOUS
  <1>3. hits \in Nat /\ Score(n, cue) = Weight(n.type) + 72 * hits
    BY <1>2 DEF Score
  <1>4. QED
    BY <1>1, <1>3

-----------------------------------------------------------------------------
(* Spreading.  No node is ever sent more than a seed starts with.          *)

LEMMA PassedIsLess ==
  ASSUME NEW amount \in 0 .. 135, NEW e, NEW n
  PROVE  Passed(amount, e, n) \in 0 .. 135
  <1>1. Bonus(n) \in 0 .. 51
    BY DEF Bonus
  <1>2. (amount * 58 * 72) \div 10000 \in 0 .. 84 /\ (amount * 58 * 80) \div 10000 \in 0 .. 84
    OBVIOUS
  <1>3. EdgeWeight(e) = 72 \/ EdgeWeight(e) = 80
    BY DEF EdgeWeight
  <1>4. (amount * 58 * EdgeWeight(e)) \div 10000 \in 0 .. 84
    BY <1>2, <1>3
  <1>5. QED
    BY <1>1, <1>4 DEF Passed

(* A wave over the nodes from the seeds.                                   *)
IsWave(w, seeds, nodes) ==
  /\ seeds \subseteq DOMAIN w /\ DOMAIN w \subseteq nodes
  /\ \A n \in DOMAIN w : w[n] \in 0 .. 135
  /\ \A n \in seeds : w[n] = 135

LEMMA SentIsLess ==
  ASSUME NEW n, NEW w, NEW new, new \subseteq DOMAIN w, \A m \in DOMAIN w : w[m] \in 0 .. 135, NEW edges
  PROVE  Sent(n, new, w, edges) \subseteq 0 .. 135
  <1> DEFINE pairs == {q \in new \X edges : q[1].id # n.id /\ Ends(q[2]) = {q[1].id, n.id}}
  <1>1. \A p \in pairs : p[1] \in new
    OBVIOUS
  <1> HIDE DEF pairs
  <1>2. ASSUME NEW p \in pairs PROVE Passed(w[p[1]], p[2], n) \in 0 .. 135
    <2>1. w[p[1]] \in 0 .. 135
      BY <1>1
    <2>2. QED
      BY <2>1, PassedIsLess
  <1>3. Sent(n, new, w, edges) = {Passed(w[p[1]], p[2], n) : p \in pairs}
    BY DEF Sent, pairs
  <1>4. QED
    BY <1>2, <1>3

LEMMA NextIsWave ==
  ASSUME NEW w, NEW seeds, NEW nodes, IsWave(w, seeds, nodes), NEW before, NEW edges
  PROVE  IsWave(NextWave(w, before, nodes, edges), seeds, nodes)
  <1> DEFINE new == DOMAIN w \ before
             next == {n \in nodes \ DOMAIN w : Sent(n, new, w, edges) # {}}
             x == [n \in DOMAIN w \cup next |-> IF n \in DOMAIN w THEN w[n] ELSE Max(Sent(n, new, w, edges))]
  <1>1. NextWave(w, before, nodes, edges) = x
    BY DEF NextWave
  <1>2. new \subseteq DOMAIN w
    OBVIOUS
  <1>3. next \subseteq nodes /\ \A n \in next : Sent(n, new, w, edges) # {}
    OBVIOUS
  <1> HIDE DEF new, next
  <1>4. ASSUME NEW n \in next PROVE Max(Sent(n, new, w, edges)) \in 0 .. 135
    <2>1. PICK S : S = Sent(n, new, w, edges)
      OBVIOUS
    <2>2. S \subseteq 0 .. 135 /\ S # {}
      BY <1>2, <1>3, <2>1, SentIsLess DEF IsWave
    <2>3. IsFiniteSet(S) /\ S \in SUBSET Nat
      <3>1. S \in SUBSET Nat /\ \A y \in S : y <= 135
        BY <2>2
      <3>2. PICK most \in Nat : most = 135
        OBVIOUS
      <3>3. QED
        BY <3>1, <3>2, FS_BoundedSetOfNaturals
    <2>4. \E m \in S : \A y \in S : y <= m
      BY <2>2, <2>3, GreatestNumber
    <2>5. \E m \in S : \A y \in S : m >= y
      BY <2>3, <2>4
    <2>6. Max(S) \in S
      BY <2>5 DEF Max
    <2>7. QED
      BY <2>1, <2>2, <2>6
  <1>5. DOMAIN x = DOMAIN w \cup next /\ \A n \in DOMAIN w : x[n] = w[n]
    OBVIOUS
  <1>6. \A n \in DOMAIN x : x[n] \in 0 .. 135
    <2>1. ASSUME NEW n \in DOMAIN w \cup next PROVE x[n] \in 0 .. 135
      <3>1. CASE n \in DOMAIN w
        BY <1>5, <3>1 DEF IsWave
      <3>2. CASE n \notin DOMAIN w
        BY <1>4, <2>1, <3>2
      <3>3. QED
        BY <3>1, <3>2
    <2>2. QED
      BY <1>5, <2>1
  <1> HIDE DEF x
  <1>7. IsWave(x, seeds, nodes)
    BY <1>3, <1>5, <1>6 DEF IsWave
  <1>8. QED
    BY <1>1, <1>7

(* One wave after the other: f tells those up to k.                        *)
Following(f, d, seeds, nodes, edges) ==
  IF d = 0 THEN [n \in seeds |-> 135]
  ELSE NextWave(f[d - 1], IF d = 1 THEN {} ELSE DOMAIN f[d - 2], nodes, edges)
Waves(f, k, seeds, nodes, edges) == f = [d \in 0 .. k |-> Following(f, d, seeds, nodes, edges)]

LEMMA OneMoreWave ==
  ASSUME NEW seeds, NEW nodes, NEW edges, NEW k \in Nat, NEW f, Waves(f, k, seeds, nodes, edges)
  PROVE  \E g : Waves(g, k + 1, seeds, nodes, edges)
  <1>1. PICK last : last = Following(f, k + 1, seeds, nodes, edges)
    OBVIOUS
  <1>2. PICK g : g = [d \in 0 .. k + 1 |-> IF d = k + 1 THEN last ELSE f[d]]
    OBVIOUS
  <1>3. \A d \in 0 .. k : g[d] = f[d] /\ f[d] = Following(f, d, seeds, nodes, edges)
    BY <1>2 DEF Waves
  <1>4. \A d \in 0 .. k + 1 : Following(g, d, seeds, nodes, edges) = Following(f, d, seeds, nodes, edges)
    <2>1. ASSUME NEW d \in 0 .. k + 1
          PROVE  Following(g, d, seeds, nodes, edges) = Following(f, d, seeds, nodes, edges)
      <3>1. CASE d = 0
        BY <3>1 DEF Following
      <3>2. CASE d = 1
        <4>1. g[d - 1] = f[d - 1]
          BY <1>3, <3>2
        <4>2. QED
          BY <3>2, <4>1 DEF Following
      <3>3. CASE d > 1
        <4>1. d - 1 \in 0 .. k /\ d - 2 \in 0 .. k /\ d # 0 /\ d # 1
          BY <3>3
        <4>2. g[d - 1] = f[d - 1] /\ g[d - 2] = f[d - 2]
          BY <1>3, <4>1
        <4>3. QED
          BY <4>1, <4>2 DEF Following
      <3>4. QED
        BY <3>1, <3>2, <3>3
    <2>2. QED
      BY <2>1
  <1>5. \A d \in 0 .. k + 1 : g[d] = Following(g, d, seeds, nodes, edges)
    <2>1. ASSUME NEW d \in 0 .. k + 1 PROVE g[d] = Following(f, d, seeds, nodes, edges)
      <3>1. CASE d = k + 1
        BY <1>1, <1>2, <3>1
      <3>2. CASE d # k + 1
        <4>1. d \in 0 .. k
          BY <3>2
        <4>2. QED
          BY <1>3, <4>1
      <3>3. QED
        BY <3>1, <3>2
    <2>2. QED
      BY <1>4, <2>1
  <1>6. g = [d \in 0 .. k + 1 |-> Following(g, d, seeds, nodes, edges)]
    BY <1>2, <1>5
  <1>7. QED
    BY <1>6 DEF Waves

LEMMA WavesExist ==
  ASSUME NEW seeds, NEW nodes, NEW edges, NEW n \in Nat
  PROVE  \E f : Waves(f, n, seeds, nodes, edges)
  <1> DEFINE G == {k \in 0 .. n : \E f : Waves(f, k, seeds, nodes, edges)}
  <1>1. 0 \in G
    <2>1. PICK f : f = [d \in 0 .. 0 |-> [m \in seeds |-> 135]]
      OBVIOUS
    <2>2. \A d \in 0 .. 0 : Following(f, d, seeds, nodes, edges) = [m \in seeds |-> 135]
      BY DEF Following
    <2>3. Waves(f, 0, seeds, nodes, edges)
      BY <2>1, <2>2 DEF Waves
    <2>4. QED
      BY <2>3
  <1>2. \A k \in G : k < n => k + 1 \in G
    BY OneMoreWave
  <1>3. G \in SUBSET (0 .. n)
    OBVIOUS
  <1> HIDE DEF G
  <1>4. n \in G
    BY <1>1, <1>2, <1>3, UpTo
  <1>5. QED
    BY <1>4 DEF G

LEMMA SpreadIsWave ==
  ASSUME NEW seeds, NEW nodes, NEW edges, seeds \subseteq nodes
  PROVE  IsWave(Spread(seeds, nodes, edges), seeds, nodes)
  <1>1. MaxDepth \in Nat
    BY MemoryAssumption
  <1>2. \E f : Waves(f, MaxDepth, seeds, nodes, edges)
    BY <1>1, WavesExist
  <1>3. PICK f : f = CHOOSE g : Waves(g, MaxDepth, seeds, nodes, edges)
    OBVIOUS
  <1>4. Waves(f, MaxDepth, seeds, nodes, edges)
    BY <1>2, <1>3
  <1>5. Spread(seeds, nodes, edges) = f[MaxDepth]
    BY <1>3 DEF Spread, Waves, Following
  <1>6. \A d \in 0 .. MaxDepth : f[d] = Following(f, d, seeds, nodes, edges)
    BY <1>4 DEF Waves
  <1> DEFINE G == {d \in 0 .. MaxDepth : IsWave(f[d], seeds, nodes)}
  <1>7. 0 \in G
    <2>1. f[0] = [n \in seeds |-> 135]
      BY <1>1, <1>6 DEF Following
    <2>2. IsWave(f[0], seeds, nodes)
      BY <2>1 DEF IsWave
    <2>3. QED
      BY <1>1, <2>2
  <1>8. ASSUME NEW d \in G, d < MaxDepth PROVE d + 1 \in G
    <2>1. d + 1 \in 0 .. MaxDepth /\ d + 1 # 0 /\ (d + 1) - 1 = d
      BY <1>1, <1>8
    <2>2. PICK before : before = IF d + 1 = 1 THEN {} ELSE DOMAIN f[(d + 1) - 2]
      OBVIOUS
    <2>3. f[d + 1] = NextWave(f[d], before, nodes, edges)
      BY <1>6, <2>1, <2>2 DEF Following
    <2>4. IsWave(f[d], seeds, nodes)
      OBVIOUS
    <2>5. IsWave(f[d + 1], seeds, nodes)
      BY <2>3, <2>4, NextIsWave
    <2>6. QED
      BY <2>1, <2>5
  <1>9. G \in SUBSET (0 .. MaxDepth)
    OBVIOUS
  <1> HIDE DEF G
  <1>10. MaxDepth \in G
    BY <1>1, <1>7, <1>8, <1>9, UpTo
  <1>11. QED
    BY <1>5, <1>10 DEF G

-----------------------------------------------------------------------------
(* The graph is finite.                                                    *)

FiniteInv == IsFiniteSet(memory) /\ IsFiniteSet(rows)

LEMMA PutFinite ==
  ASSUME NEW S, IsFiniteSet(S), NEW n
  PROVE  IsFiniteSet(Put(S, n))
  <1>1. IsFiniteSet({m \in S : m.id # n.id})
    BY FS_Subset
  <1>2. QED
    BY <1>1, FS_AddElement DEF Put

LEMMA FiniteNext == FiniteInv /\ [Next]_vars => FiniteInv'
  <1> SUFFICES ASSUME FiniteInv, [Next]_vars PROVE FiniteInv'
    OBVIOUS
  <1>1. ASSUME NEW t \in Turns, Extract(t) \/ SaveItem(t) \/ SetMood(t) \/ SaveCompact(t)
                                  \/ ReadSimilar(t) \/ Link(t)
        PROVE  FiniteInv'
    <2>1. UNCHANGED <<memory, rows>>
      BY <1>1 DEF Extract, SaveItem, SetMood, SaveCompact, ReadSimilar, Link
    <2>2. QED
      BY <2>1 DEF FiniteInv
  <1>2. ASSUME NEW t \in Turns, NEW n, NEW next, WriteBoth(t, n, next) PROVE FiniteInv'
    <2>1. memory' = Put(memory, n) /\ (rows' = rows \/ rows' = Put(rows, n))
      BY <1>2 DEF WriteBoth
    <2>2. IsFiniteSet(Put(memory, n)) /\ IsFiniteSet(Put(rows, n))
      BY PutFinite DEF FiniteInv
    <2>3. QED
      BY <2>1, <2>2 DEF FiniteInv
  <1>3. ASSUME NEW t \in Turns, WriteNode(t) \/ Summarize(t) PROVE FiniteInv'
    <2>1. \E n, next : WriteBoth(t, n, next)
      BY <1>3 DEF WriteNode, Summarize
    <2>2. QED
      BY <1>2, <2>1
  <1>4. CASE Restart
    BY <1>4, FS_EmptySet DEF Restart, FiniteInv
  <1>5. CASE UNCHANGED vars
    BY <1>5 DEF vars, FiniteInv
  <1>6. QED
    BY <1>1, <1>3, <1>4, <1>5 DEF Next

LEMMA FiniteInit == Init => FiniteInv
  BY FS_EmptySet DEF Init, FiniteInv

-----------------------------------------------------------------------------
(* Recall.                                                                 *)

Beats(m, n, value) == value[m] > value[n] \/ (value[m] = value[n] /\ m.at > n.at)

LEMMA TopMembers ==
  ASSUME NEW S, NEW k, NEW value, NEW n
  PROVE  n \in Top(S, k, value) <=> n \in S /\ Cardinality({m \in S : Beats(m, n, value)}) < k
  BY DEF Top, Beats

(* The best nodes are among the seeds, and spreading does not displace     *)
(* them: a node that ends before one of them was before it already.        *)
LEMMA BestAreActivated ==
  ASSUME NEW nodes, IsFiniteSet(nodes), NEW edges, NEW cue \in [Topics -> Nat]
  PROVE  SelectSeeds(nodes, cue, Limit) \subseteq Activate(nodes, edges, cue, Limit)
  <1> DEFINE own == [n \in nodes |-> Score(n, cue)]
             seeds == Seeds(nodes, cue, Limit)
             sent == Spread(seeds, nodes, edges)
             reached == {n \in nodes : n \in DOMAIN sent}
             value == [n \in reached |-> Score(n, cue) + sent[n]]
  <1>1. Limit \in Nat /\ Limit <= 6
    BY MemoryAssumption
  <1>2. seeds = SelectSeeds(nodes, cue, Limit) \cup BaseRecallNodes(nodes)
    BY <1>1 DEF Seeds
  <1>3. SelectSeeds(nodes, cue, Limit) \subseteq seeds /\ seeds \subseteq nodes
    BY <1>2 DEF SelectSeeds, Top, BaseRecallNodes, Newest
  <1>4. Activate(nodes, edges, cue, Limit) = Top(reached, Limit, value)
    BY DEF Activate
  <1>5. SelectSeeds(nodes, cue, Limit) = Top(nodes, Limit, own)
    BY DEF SelectSeeds
  <1> HIDE DEF seeds
  <1>6. IsWave(sent, seeds, nodes)
    BY <1>3, SpreadIsWave
  <1> HIDE DEF sent
  <1>7. ASSUME NEW n \in SelectSeeds(nodes, cue, Limit)
        PROVE  n \in Activate(nodes, edges, cue, Limit)
    <2>1. n \in reached /\ n \in nodes /\ sent[n] = 135
      BY <1>3, <1>6, <1>7 DEF IsWave
    <2>2. {m \in reached : Beats(m, n, value)} \subseteq {m \in nodes : Beats(m, n, own)}
      <3>1. ASSUME NEW m \in reached, Beats(m, n, value) PROVE m \in nodes /\ Beats(m, n, own)
        <4>1. m \in nodes /\ sent[m] \in 0 .. 135
          BY <1>6 DEF IsWave
        <4>2. PICK a, b : a = Score(m, cue) /\ b = Score(n, cue)
          OBVIOUS
        <4>3. a \in Nat /\ b \in Nat
          BY <4>2, ScoreNumber
        <4>4. value[m] = a + sent[m] /\ value[n] = b + 135 /\ own[m] = a /\ own[n] = b
          BY <2>1, <4>1, <4>2
        <4> HIDE DEF value, own
        <4>5. a > b \/ (a = b /\ m.at > n.at)
          BY <3>1, <4>1, <4>3, <4>4 DEF Beats
        <4>6. QED
          BY <4>1, <4>4, <4>5 DEF Beats
      <3>2. QED
        BY <3>1
    <2>3. Cardinality({m \in nodes : Beats(m, n, own)}) < Limit
      <3> HIDE DEF own
      <3>1. QED
        BY <1>5, <1>7, TopMembers
    <2>4. IsFiniteSet({m \in nodes : Beats(m, n, own)})
      BY FS_Subset
    <2> DEFINE A == {m \in reached : Beats(m, n, value)}
               B == {m \in nodes : Beats(m, n, own)}
    <2>5. A \subseteq B /\ IsFiniteSet(B) /\ Cardinality(B) < Limit
      BY <2>2, <2>3, <2>4
    <2> HIDE DEF A, B
    <2>6. Cardinality(A) < Limit
      BY <1>1, <2>5, FewerElements
    <2> HIDE DEF value, reached
    <2>7. QED
      BY <1>4, <2>1, <2>6, TopMembers DEF A
  <1>8. QED
    BY <1>7

LEMMA ListedFinite ==
  ASSUME FiniteInv, NEW types, NEW broken
  PROVE  IsFiniteSet(ListNodes(types, broken))
  <1>1. IsFiniteSet(memory \cup rows)
    BY FS_Union DEF FiniteInv
  <1>2. QED
    BY <1>1, Listed, FS_Subset

(* Spreading only fills places that are free: whatever is asked, the nodes *)
(* with the best scores of their own are among those recalled (SelectSeeds *)
(* and BuildActivationSet).                                                *)
THEOREM BestRecalled == Spec => []BestAreRecalled
  <1>1. FiniteInv => BestAreRecalled
    <2> SUFFICES ASSUME FiniteInv, NEW cue \in Cues
                 PROVE  SelectSeeds(ListNodes(AllTypes, FALSE), cue, Limit) \subseteq Recalled(FALSE, cue, Limit)
      BY DEF BestAreRecalled
    <2>1. cue \in [Topics -> Nat]
      BY MemoryAssumption
    <2>2. PICK nodes : nodes = ListNodes(AllTypes, FALSE)
      OBVIOUS
    <2>3. IsFiniteSet(nodes)
      BY <2>2, ListedFinite
    <2>4. SelectSeeds(nodes, cue, Limit) \subseteq Activate(nodes, links, cue, Limit)
      BY <2>1, <2>3, BestAreActivated
    <2>5. QED
      BY <2>2, <2>4 DEF Recalled
  <1>2. QED
    BY <1>1, FiniteInit, FiniteNext, PTL DEF Spec

(* A promise outweighs whatever else is asked for once at most: the best   *)
(* one is the best of all.                                                 *)
LEMMA PromiseIsBest ==
  ASSUME NEW nodes, IsFiniteSet(nodes), NEW cue \in [Topics -> Nat], \A x \in Topics : cue[x] <= 1,
         \A n \in nodes : n.at \in Nat, \E n \in nodes : n.type = "promise"
  PROVE  \E p \in SelectSeeds(nodes, cue, Limit) : p.type = "promise"
  <1> DEFINE own == [n \in nodes |-> Score(n, cue)]
             S == {n \in nodes : n.type = "promise"}
             R == {e \in S \X S : Beats(e[2], e[1], own)}
  <1>1. IsFiniteSet(S) /\ S # {} /\ S \subseteq nodes
    BY FS_Subset
  <1>2. \A x, y \in S : <<x, y>> \in R <=> Beats(y, x, own)
    OBVIOUS
  <1>3. \A n \in nodes : own[n] = Score(n, cue) /\ own[n] \in Nat
    BY ScoreNumber
  <1>4. \A n \in S : n.at \in Nat /\ own[n] \in Nat
    BY <1>1, <1>3
  <1> HIDE DEF R, own
  <1>5. \A x \in S : <<x, x>> \notin R
    BY <1>2, <1>4 DEF Beats
  <1>6. \A x, y, z \in S : <<x, y>> \in R /\ <<y, z>> \in R => <<x, z>> \in R
    BY <1>2, <1>4 DEF Beats
  <1>7. PICK p \in S : \A y \in S : <<p, y>> \notin R
    <2> HIDE DEF S
    <2>1. QED
      BY <1>1, <1>5, <1>6, MaximalElement
  <1>8. ASSUME NEW m \in nodes, Beats(m, p, own) PROVE FALSE
    <2>1. m.type # "promise"
      BY <1>2, <1>7, <1>8
    <2>2. own[m] <= 244
      <3>1. Weight(m.type) \in Nat /\ Weight(m.type) <= 172
        BY <2>1 DEF Weight
      <3>2. PICK hits : hits = IF m.topic \in Topics THEN cue[m.topic] ELSE 0
        OBVIOUS
      <3>3. hits \in Nat /\ hits <= 1
        BY <3>2
      <3>4. own[m] = Weight(m.type) + 72 * hits
        BY <1>3, <3>2 DEF Score
      <3>5. QED
        BY <3>1, <3>3, <3>4
    <2>3. own[p] >= 280
      <3>1. p.type = "promise" /\ p \in nodes
        OBVIOUS
      <3>2. Weight(p.type) = 280
        BY <3>1 DEF Weight
      <3>3. PICK hits : hits = IF p.topic \in Topics THEN cue[p.topic] ELSE 0
        OBVIOUS
      <3>4. hits \in Nat
        BY <3>3
      <3>5. own[p] = 280 + 72 * hits
        BY <1>3, <3>1, <3>2, <3>3 DEF Score
      <3>6. QED
        BY <3>4, <3>5
    <2>4. own[m] \in Nat /\ own[p] \in Nat
      BY <1>3
    <2>5. QED
      BY <1>8, <2>2, <2>3, <2>4 DEF Beats
  <1>9. Cardinality({m \in nodes : Beats(m, p, own)}) < Limit
    <2>1. {m \in nodes : Beats(m, p, own)} = {}
      BY <1>8
    <2>2. Limit \in Nat /\ Limit > 0
      BY MemoryAssumption
    <2>3. QED
      BY <2>1, <2>2, FS_EmptySet
  <1>10. p \in Top(nodes, Limit, own)
    BY <1>9, TopMembers
  <1>11. QED
    BY <1>10 DEF SelectSeeds, own

LEMMA Prefix ==
  ASSUME NEW X, NEW s \in Seq(X), NEW r \in Seq(X), NEW i \in 1 .. Len(s)
  PROVE  s \o r \in Seq(X) /\ i \in 1 .. Len(s \o r) /\ (s \o r)[i] = s[i]
  OBVIOUS

LEMMA Suffix ==
  ASSUME NEW X, NEW s \in Seq(X), NEW r \in Seq(X), NEW i \in 1 .. Len(r)
  PROVE  Len(s) + i \in 1 .. Len(s \o r) /\ (s \o r)[Len(s) + i] = r[i]
  OBVIOUS

(* The card of open loops is the first or the second.                      *)
LEMMA OpenLoopsCard ==
  ASSUME NEW activated, \E n \in activated : n.type = "promise"
  PROVE  \E i \in DOMAIN Cards(activated) : Cards(activated)[i] = "open_loops_card"
  <1> DEFINE For(type, card) == IF \E n \in activated : n.type = type THEN <<card>> ELSE <<>>
             a == For("state_snapshot", "state_card")
             b == For("promise", "open_loops_card")
             c == For("user_fact", "user_card")
             d == IF activated = {} THEN <<>> ELSE <<"episode_chain_card">>
             e == For("session_summary", "session_bridge_card")
             all == a \o b \o c \o d \o e
             n == IF Len(all) < MaxCards THEN Len(all) ELSE MaxCards
             X == {"state_card", "open_loops_card", "user_card", "episode_chain_card", "session_bridge_card"}
  <1>1. Cards(activated) = SubSeq(all, 1, n)
    BY DEF Cards
  <1>2. a = <<>> \/ a = <<"state_card">>
    OBVIOUS
  <1>3. b = <<"open_loops_card">>
    OBVIOUS
  <1>4. a \in Seq(X) /\ b \in Seq(X) /\ c \in Seq(X) /\ d \in Seq(X) /\ e \in Seq(X)
    <2>1. \A x \in X : <<x>> \in Seq(X)
      OBVIOUS
    <2>2. <<>> \in Seq(X)
      OBVIOUS
    <2>3. /\ c = <<>> \/ c = <<"user_card">>
          /\ d = <<>> \/ d = <<"episode_chain_card">>
          /\ e = <<>> \/ e = <<"session_bridge_card">>
      OBVIOUS
    <2> HIDE DEF a, b, c, d, e
    <2>4. /\ "state_card" \in X /\ "open_loops_card" \in X /\ "user_card" \in X
          /\ "episode_chain_card" \in X /\ "session_bridge_card" \in X
      OBVIOUS
    <2> HIDE DEF X
    <2>5. QED
      BY <1>2, <1>3, <2>1, <2>2, <2>3, <2>4
  <1> HIDE DEF a, b, c, d, e, X
  <1>5. PICK i \in 1 .. Len(a \o b) : (a \o b)[i] = "open_loops_card" /\ i <= 2
    <2>1. Len(a) \in 0 .. 1 /\ 1 \in 1 .. Len(b) /\ b[1] = "open_loops_card"
      BY <1>2, <1>3
    <2>2. Len(a) + 1 \in 1 .. Len(a \o b) /\ (a \o b)[Len(a) + 1] = b[1]
      BY <1>4, <2>1, Suffix
    <2>3. Len(a) + 1 <= 2
      BY <2>1
    <2>4. QED
      BY <2>1, <2>2, <2>3
  <1>6. all \in Seq(X) /\ i \in 1 .. Len(all) /\ all[i] = "open_loops_card"
    <2>1. a \o b \in Seq(X)
      BY <1>4
    <2> DEFINE ab == a \o b
               abc == ab \o c
               abcd == abc \o d
    <2> HIDE DEF ab
    <2>2. abc \in Seq(X) /\ i \in 1 .. Len(abc) /\ abc[i] = "open_loops_card"
      BY <1>4, <1>5, <2>1, Prefix DEF ab
    <2> HIDE DEF abc
    <2>3. abcd \in Seq(X) /\ i \in 1 .. Len(abcd) /\ abcd[i] = "open_loops_card"
      BY <1>4, <2>2, Prefix
    <2> HIDE DEF abcd
    <2>4. QED
      BY <1>4, <2>3, Prefix DEF ab, abc, abcd
  <1> HIDE DEF all
  <1>7. n \in Nat /\ n <= Len(all) /\ i <= n
    BY <1>5, <1>6, MemoryAssumption
  <1>8. i \in DOMAIN SubSeq(all, 1, n) /\ SubSeq(all, 1, n)[i] = all[i]
    <2> HIDE DEF n
    <2>1. QED
      BY <1>6, <1>7
  <1>9. QED
    BY <1>1, <1>6, <1>8

(* A promise stays recallable until it is fulfilled: while the memory has  *)
(* an active one and no question hits other memories twice, the prompt has *)
(* the card of open loops (AssemblePromptCards).                           *)
THEOREM PromiseReaches == Spec => []PromiseReachesPrompt
  <1>1. MemoryInv /\ FiniteInv => PromiseReachesPrompt
    <2> SUFFICES ASSUME MemoryInv, FiniteInv, NEW cue \in Cues, \A x \in Topics : cue[x] <= 1,
                        \E n \in ListNodes(AllTypes, FALSE) : n.type = "promise"
                 PROVE  \E i \in DOMAIN Cards(Recalled(FALSE, cue, Limit)) :
                          Cards(Recalled(FALSE, cue, Limit))[i] = "open_loops_card"
      BY DEF PromiseReachesPrompt
    <2>1. cue \in [Topics -> Nat]
      BY MemoryAssumption
    <2>2. PICK nodes : nodes = ListNodes(AllTypes, FALSE)
      OBVIOUS
    <2>3. IsFiniteSet(nodes)
      BY <2>2, ListedFinite
    <2>4. \A n \in nodes : n.at \in Nat
      <3>1. nodes \subseteq memory \cup rows
        BY <2>2, Listed
      <3>2. memory \subseteq Node(clock) /\ rows \subseteq Node(clock)
        BY DEF MemoryInv, GraphInv, NodesOf
      <3>3. \A n \in Node(clock) : n.at \in Nat
        BY DEF Node
      <3>4. QED
        BY <3>1, <3>2, <3>3
    <2>5. PICK p \in SelectSeeds(nodes, cue, Limit) : p.type = "promise"
      BY <2>1, <2>2, <2>3, <2>4, PromiseIsBest
    <2>6. p \in Recalled(FALSE, cue, Limit)
      BY <2>1, <2>2, <2>3, <2>5, BestAreActivated DEF Recalled
    <2>7. QED
      BY <2>5, <2>6, OpenLoopsCard
  <1>2. QED
    BY <1>1, MemoryInit, MemoryNext, FiniteInit, FiniteNext, PTL DEF Spec

-----------------------------------------------------------------------------
(* The evidence of the nodes.                                              *)

(* As many topics as a merge looks at nodes (128, service.go:196): what is *)
(* beyond it in the list is not found.                                     *)
FewTopics == IsFiniteSet(Topics) /\ Cardinality(Topics) <= ListLimit

(* An id is that of the summary or tells the turn it is from.              *)
GoodId(id) == id = SummaryId \/ (id # <<>> /\ id[1] \in Turns)
Begun(t) == task[t].at \notin {"idle", "items", "compact"}
Different(s) == \A i, j \in DOMAIN s : s[i].id = s[j].id => i = j

(* A node under the id of a turn is there only when that turn ingests or   *)
(* has ingested; the embedded store has no nodes of its own.               *)
NodesSound ==
  /\ memory \subseteq Nodes
  /\ \A n \in Nodes :
       /\ n.id = SummaryId \/ (n.id # <<>> /\ n.id[1] \in Turns /\ Begun(n.id[1]))
       /\ IsSummary(n) \/ n.topic \in Topics

(* The items of a turn have different ids.                                 *)
ItemsApart(w) ==
  /\ w.at = "idle" => w.saved = <<>>
  /\ Different(w.todo) /\ Different(w.saved)
  /\ \A i \in DOMAIN w.todo : GoodId(w.todo[i].id)
  /\ \A i \in DOMAIN w.saved : GoodId(w.saved[i].id)
  /\ \A i \in DOMAIN w.todo, j \in DOMAIN w.saved : w.todo[i].id # w.saved[j].id

(* What a turn has yet to ingest is under ids that no node has.            *)
Fresh(t, w) ==
  /\ Different(w.candidates)
  /\ \A i \in DOMAIN w.candidates :
       /\ w.candidates[i].evidence = 1 /\ w.candidates[i].topic \in Topics
       /\ w.candidates[i].id # <<>> /\ w.candidates[i].id[1] = t
       /\ \A m \in Nodes : m.id # w.candidates[i].id

(* What a candidate is merged with is one of the nodes it is like.         *)
Alike(n) == {m \in Nodes : Similar(n, m) /\ m.status = "active"}
Matched(w) ==
  /\ w.match \subseteq Alike(Head(w.candidates))
  /\ w.match = {} /\ FewTopics => Alike(Head(w.candidates)) = {}

TasksSound ==
  \A t \in Turns :
    /\ ItemsApart(task[t]) /\ Fresh(t, task[t])
    /\ task[t].at = "write" => Matched(task[t])

Counted ==
  \A type \in AllTypes \ {"session_summary"}, topic \in Topics :
    /\ IsFiniteSet(Evidence(About(type, topic))) /\ IsFiniteSet(Ingested(type, topic))
    /\ EvidenceAddsUp(type, topic)

OneEach ==
  \A m, n \in Nodes :
    Similar(n, m) /\ ~IsSummary(n) /\ n.status = "active" /\ m.status = "active" => m = n

Reckoning ==
  /\ \A id \in items : GoodId(id)
  /\ NodesSound /\ TasksSound /\ Counted
  /\ FewTopics => OneEach
EvidenceInv == serial /\ faults = 0 => Reckoning

LEMMA Pieces ==
  ASSUME NEW n, n.evidence \in Nat
  PROVE  /\ IsFiniteSet({n} \X (1 .. n.evidence))
         /\ Cardinality({n} \X (1 .. n.evidence)) = n.evidence
  <1>1. PICK k \in Nat : k = n.evidence
    OBVIOUS
  <1>2. IsFiniteSet(1 .. k) /\ Cardinality(1 .. k) = k
    BY FS_Interval
  <1>3. IsFiniteSet({n}) /\ Cardinality({n}) = 1
    BY FS_Singleton
  <1>4. /\ IsFiniteSet({n} \X (1 .. k))
        /\ Cardinality({n} \X (1 .. k)) = Cardinality({n}) * Cardinality(1 .. k)
    BY <1>2, <1>3, FS_Product
  <1>5. Cardinality({n} \X (1 .. k)) = 1 * k
    BY <1>2, <1>3, <1>4
  <1>6. 1 * k = k
    OBVIOUS
  <1>7. QED
    BY <1>1, <1>4, <1>5, <1>6

(* A node more.                                                            *)
LEMMA EvidenceAdded ==
  ASSUME NEW S, IsFiniteSet(Evidence(S)), NEW n, n \notin S, n.evidence \in Nat
  PROVE  /\ IsFiniteSet(Evidence(S \cup {n}))
         /\ Cardinality(Evidence(S)) \in Nat
         /\ Cardinality(Evidence(S \cup {n})) = Cardinality(Evidence(S)) + n.evidence
  <1> DEFINE own == {n} \X (1 .. n.evidence)
  <1>1. Evidence(S \cup {n}) = Evidence(S) \cup own
    BY DEF Evidence
  <1>2. Evidence(S) \cap own = {}
    <2>1. \A p \in Evidence(S) : p[1] \in S
      BY DEF Evidence
    <2>2. \A p \in own : p[1] = n
      OBVIOUS
    <2>3. QED
      BY <2>1, <2>2
  <1>3. IsFiniteSet(own) /\ Cardinality(own) = n.evidence
    BY Pieces
  <1> HIDE DEF own
  <1>4. /\ IsFiniteSet(Evidence(S) \cup own)
        /\ Cardinality(Evidence(S) \cup own)
             = Cardinality(Evidence(S)) + Cardinality(own) - Cardinality(Evidence(S) \cap own)
    BY <1>3, FS_Union
  <1>5. Cardinality(Evidence(S) \cap own) = 0 /\ Cardinality(Evidence(S)) \in Nat
    BY <1>2, FS_EmptySet, FS_CardinalityType
  <1>6. \A a, b \in Nat : a + b - 0 = a + b
    OBVIOUS
  <1>7. Cardinality(Evidence(S) \cup own) = Cardinality(Evidence(S)) + n.evidence
    BY <1>3, <1>4, <1>5, <1>6
  <1>8. QED
    BY <1>1, <1>4, <1>5, <1>7

(* A node in the place of one with less evidence.                          *)
LEMMA EvidenceReplaced ==
  ASSUME NEW S, IsFiniteSet(Evidence(S)), NEW old \in S, NEW n, n \notin S \ {old},
         old.evidence \in Nat, n.evidence = old.evidence + 1
  PROVE  /\ IsFiniteSet(Evidence((S \ {old}) \cup {n}))
         /\ Cardinality(Evidence((S \ {old}) \cup {n})) = Cardinality(Evidence(S)) + 1
  <1> DEFINE others == S \ {old}
  <1>1. S = others \cup {old} /\ old \notin others /\ n \notin others
    OBVIOUS
  <1>2. IsFiniteSet(Evidence(others))
    <2>1. Evidence(others) \subseteq Evidence(S)
      BY DEF Evidence
    <2>2. QED
      BY <2>1, FS_Subset
  <1> HIDE DEF others
  <1>3. /\ Cardinality(Evidence(others)) \in Nat
        /\ Cardinality(Evidence(others \cup {old})) = Cardinality(Evidence(others)) + old.evidence
    BY <1>1, <1>2, EvidenceAdded
  <1>4. /\ IsFiniteSet(Evidence(others \cup {n}))
        /\ Cardinality(Evidence(others \cup {n})) = Cardinality(Evidence(others)) + n.evidence
    BY <1>1, <1>2, EvidenceAdded
  <1>5. Cardinality(Evidence(S)) = Cardinality(Evidence(others)) + old.evidence
    BY <1>1, <1>3
  <1>6. Cardinality(Evidence(others \cup {n})) = Cardinality(Evidence(S)) + 1
    BY <1>3, <1>4, <1>5
  <1>7. QED
    BY <1>4, <1>6 DEF others

(* A node under a new id, and one that takes the place of its like.        *)
LEMMA AboutAdded ==
  ASSUME NEW n, Nodes' = Put(Nodes, n), \A m \in Nodes : m.id # n.id,
         NEW type, NEW topic
  PROVE  /\ About(type, topic)' = IF n.type = type /\ n.topic = topic
                                  THEN About(type, topic) \cup {n} ELSE About(type, topic)
         /\ n \notin About(type, topic)
  <1>1. Nodes' = Nodes \cup {n} /\ n \notin Nodes
    BY DEF Put
  <1>2. QED
    BY <1>1 DEF About

LEMMA AboutReplaced ==
  ASSUME NEW n, Nodes' = Put(Nodes, n), NEW old \in Nodes,
         old.id = n.id, old.type = n.type, old.topic = n.topic,
         \A m \in Nodes : m.id = old.id => m = old,
         NEW type, NEW topic
  PROVE  /\ About(type, topic)' = IF n.type = type /\ n.topic = topic
                                  THEN (About(type, topic) \ {old}) \cup {n}
                                  ELSE About(type, topic)
         /\ n.type = type /\ n.topic = topic => old \in About(type, topic)
         /\ n \notin About(type, topic) \ {old}
  <1>1. Nodes' = (Nodes \ {old}) \cup {n}
    <2>1. {m \in Nodes : m.id # n.id} = Nodes \ {old}
      OBVIOUS
    <2>2. QED
      BY <2>1 DEF Put
  <1>2. n \notin Nodes \ {old}
    OBVIOUS
  <1>3. QED
    BY <1>1, <1>2 DEF About

(* Sets of pairs are equal when the same pairs are in them.                *)
LEMMA SamePairs ==
  ASSUME NEW A, NEW B, \A p \in A \cup B : p = <<p[1], p[2]>>,
         \A u, i : <<u, i>> \in A <=> <<u, i>> \in B
  PROVE  A = B
  <1>1. ASSUME NEW p PROVE p \in A => p \in B
    <2>1. SUFFICES ASSUME p \in A PROVE p \in B
      OBVIOUS
    <2>2. PICK u, i : p = <<u, i>>
      BY <2>1
    <2>3. QED
      BY <2>1, <2>2
  <1>2. ASSUME NEW p PROVE p \in B => p \in A
    <2>1. SUFFICES ASSUME p \in B PROVE p \in A
      OBVIOUS
    <2>2. PICK u, i : p = <<u, i>>
      BY <2>1
    <2>3. QED
      BY <2>1, <2>2
  <1>3. QED
    BY <1>1, <1>2

(* The occasions, as pairs of a turn and a place in what it persisted.     *)
LEMMA Occasions ==
  ASSUME NEW type, NEW topic
  PROVE  /\ \A p \in Ingested(type, topic) : p = <<p[1], p[2]>>
         /\ \A u, i : <<u, i>> \in Ingested(type, topic) <=>
              /\ u \in Turns /\ i \in DOMAIN task[u].kept
              /\ task[u].kept[i].type = type /\ task[u].kept[i].topic = topic
  <1> DEFINE All == UNION {{t} \X DOMAIN task[t].kept : t \in Turns}
  <1>1. \A p \in All : p = <<p[1], p[2]>>
    OBVIOUS
  <1>2. \A u, i : <<u, i>> \in All <=> u \in Turns /\ i \in DOMAIN task[u].kept
    OBVIOUS
  <1>3. Ingested(type, topic)
          = {p \in All : task[p[1]].kept[p[2]].type = type /\ task[p[1]].kept[p[2]].topic = topic}
    BY DEF Ingested
  <1> HIDE DEF All
  <1>4. QED
    BY <1>1, <1>2, <1>3

LEMMA OccasionsPrimed ==
  ASSUME NEW type, NEW topic
  PROVE  /\ \A p \in Ingested(type, topic)' : p = <<p[1], p[2]>>
         /\ \A u, i : <<u, i>> \in Ingested(type, topic)' <=>
              /\ u \in Turns /\ i \in DOMAIN task'[u].kept
              /\ task'[u].kept[i].type = type /\ task'[u].kept[i].topic = topic
  <1> DEFINE All == UNION {{t} \X DOMAIN task'[t].kept : t \in Turns}
  <1>1. \A p \in All : p = <<p[1], p[2]>>
    OBVIOUS
  <1>2. \A u, i : <<u, i>> \in All <=> u \in Turns /\ i \in DOMAIN task'[u].kept
    OBVIOUS
  <1>3. Ingested(type, topic)'
          = {p \in All : task'[p[1]].kept[p[2]].type = type /\ task'[p[1]].kept[p[2]].topic = topic}
    BY DEF Ingested
  <1> HIDE DEF All
  <1>4. QED
    BY <1>1, <1>2, <1>3

LEMMA IngestedKept ==
  ASSUME \A u \in Turns : task'[u].kept = task[u].kept, NEW type, NEW topic
  PROVE  Ingested(type, topic)' = Ingested(type, topic)
  <1>1. ASSUME NEW u, NEW i
        PROVE  <<u, i>> \in Ingested(type, topic)' <=> <<u, i>> \in Ingested(type, topic)
    <2>1. u \in Turns => task'[u].kept = task[u].kept
      OBVIOUS
    <2>2. <<u, i>> \in Ingested(type, topic) <=>
            /\ u \in Turns /\ i \in DOMAIN task[u].kept
            /\ task[u].kept[i].type = type /\ task[u].kept[i].topic = topic
      BY Occasions
    <2>3. <<u, i>> \in Ingested(type, topic)' <=>
            /\ u \in Turns /\ i \in DOMAIN task'[u].kept
            /\ task'[u].kept[i].type = type /\ task'[u].kept[i].topic = topic
      BY OccasionsPrimed
    <2>4. QED
      BY <2>1, <2>2, <2>3
  <1>2. \A p \in Ingested(type, topic)' : p = <<p[1], p[2]>>
    BY OccasionsPrimed
  <1>3. \A p \in Ingested(type, topic) : p = <<p[1], p[2]>>
    BY Occasions
  <1>4. \A p \in Ingested(type, topic)' \cup Ingested(type, topic) : p = <<p[1], p[2]>>
    BY <1>2, <1>3
  <1>5. QED
    BY <1>1, <1>4, SamePairs

Brings(n, one, type, topic) ==
  Ingested(type, topic)' = IF n.type = type /\ n.topic = topic
                           THEN Ingested(type, topic) \cup {one} ELSE Ingested(type, topic)

LEMMA IngestedGrows ==
  ASSUME NEW t \in Turns, NEW n, NEW S, task[t].kept \in Seq(S),
         task'[t].kept = Append(task[t].kept, n),
         \A u \in Turns \ {t} : task'[u].kept = task[u].kept,
         NEW type, NEW topic, NEW one, one = <<t, Len(task[t].kept) + 1>>
  PROVE  Brings(n, one, type, topic) /\ one \notin Ingested(type, topic)
  <1> DEFINE k == Len(task[t].kept)
             grown == IF n.type = type /\ n.topic = topic
                      THEN Ingested(type, topic) \cup {<<t, k + 1>>} ELSE Ingested(type, topic)
  <1>1. PICK old : old = task[t].kept /\ old \in Seq(S)
    OBVIOUS
  <1>2. PICK new : new = task'[t].kept /\ new = Append(old, n)
    BY <1>1
  <1>3. /\ k = Len(old) /\ k \in Nat /\ DOMAIN old = 1 .. k /\ DOMAIN new = 1 .. (k + 1)
        /\ new[k + 1] = n /\ \A i \in 1 .. k : new[i] = old[i]
        /\ k + 1 \notin 1 .. k /\ \A i : i \in 1 .. (k + 1) <=> i \in 1 .. k \/ i = k + 1
    BY <1>1, <1>2
  <1> HIDE DEF k
  <1>4. <<t, k + 1>> \notin Ingested(type, topic)
    BY <1>1, <1>3, Occasions
  <1>5. \A u, i : <<u, i>> \in Ingested(type, topic)' <=> <<u, i>> \in grown
    <2> SUFFICES ASSUME NEW u, NEW i
                 PROVE  <<u, i>> \in Ingested(type, topic)' <=> <<u, i>> \in grown
      OBVIOUS
    <2>1. CASE u = t
      <3>1. <<t, i>> \in Ingested(type, topic)' <=>
              i \in 1 .. (k + 1) /\ new[i].type = type /\ new[i].topic = topic
        BY <1>2, <1>3, OccasionsPrimed
      <3>2. <<t, i>> \in Ingested(type, topic) <=>
              i \in 1 .. k /\ old[i].type = type /\ old[i].topic = topic
        BY <1>1, <1>3, Occasions
      <3>3. <<t, i>> = <<t, k + 1>> <=> i = k + 1
        OBVIOUS
      <3>4. QED
        BY <2>1, <3>1, <3>2, <3>3, <1>3
    <2>2. CASE u # t
      <3>1. <<u, i>> # <<t, k + 1>>
        BY <2>2
      <3>2. <<u, i>> \in Ingested(type, topic)' <=> <<u, i>> \in Ingested(type, topic)
        BY <2>2, Occasions, OccasionsPrimed
      <3>3. QED
        BY <3>1, <3>2
    <2>3. QED
      BY <2>1, <2>2
  <1>6. Ingested(type, topic)' = grown
    <2>1. \A p \in grown : p = <<p[1], p[2]>>
      BY Occasions
    <2>2. \A p \in Ingested(type, topic)' : p = <<p[1], p[2]>>
      BY OccasionsPrimed
    <2> HIDE DEF grown
    <2>3. \A p \in Ingested(type, topic)' \cup grown : p = <<p[1], p[2]>>
      BY <2>1, <2>2
    <2>4. QED
      BY <1>5, <2>3, SamePairs
  <1>7. one = <<t, k + 1>>
    BY DEF k
  <1>8. QED
    BY <1>4, <1>6, <1>7 DEF Brings

-----------------------------------------------------------------------------
(* Steps without a fault.                                                  *)

(* With the embedded store among the nodes, these are all there are.       *)
LEMMA AllAreNodes ==
  ASSUME GraphInv, memory \subseteq Nodes
  PROVE  memory \cup rows = Nodes
  BY DEF GraphInv, Nodes

(* A statement that fails is counted.                                      *)
LEMMA NoFault ==
  ASSUME CountersInv, NEW broken \in Outcomes, Count(broken), faults' = 0
  PROVE  ~broken /\ faults = 0
  <1>1. broken \in BOOLEAN
    BY DEF Outcomes
  <1>2. faults \in Nat
    BY MemoryAssumption DEF CountersInv
  <1>3. \A k \in Nat : k + 1 # 0
    OBVIOUS
  <1>4. QED
    BY <1>1, <1>2, <1>3 DEF Count

LEMMA EndedParts ==
  ASSUME NEW w, NEW how
  PROVE  /\ Ended(w, how).at = how /\ Ended(w, how).kept = w.kept
         /\ Ended(w, how).todo = <<>> /\ Ended(w, how).saved = <<>>
         /\ Ended(w, how).candidates = <<>>
  BY DEF Ended, NoTask

(* What is left of a task that goes on as x.                               *)
Leaves(w, x) ==
  /\ x.kept = w.kept
  /\ x.todo \in {w.todo, <<>>} /\ x.saved \in {w.saved, <<>>}
  /\ x.candidates \in {w.candidates, <<>>}

LEMMA OnwardParts ==
  ASSUME NEW c, NEW w, w \in Task(w, c), w.at \in {"read", "links", "summaryLinks"}
  PROVE  Leaves(w, Onward(w)) /\ Onward(w).at \in {"read", "links", "summaryLinks", "done"}
  <1>1. PICK x : x = IF w.at = "read" /\ w.candidates = <<>>
                     THEN [w EXCEPT !.at = "links", !.edges = TurnEdges(w.kept)] ELSE w
    OBVIOUS
  <1>2. Onward(w) = Ended(x, "done") \/ Onward(w) = x
    BY <1>1 DEF Onward
  <1>3. /\ x.kept = w.kept /\ x.todo = w.todo /\ x.saved = w.saved /\ x.candidates = w.candidates
        /\ x.at \in {"read", "links", "summaryLinks"}
    BY <1>1 DEF Task
  <1>4. QED
    BY <1>2, <1>3, EndedParts DEF Leaves

LEMMA NothingApart ==
  ASSUME NEW w, NEW x, Leaves(w, x), x.at # "idle", ItemsApart(w)
  PROVE  ItemsApart(x)
  BY DEF Leaves, ItemsApart, Different

LEMMA NothingFresh ==
  ASSUME NEW t, NEW w, NEW x, Leaves(w, x), Fresh(t, w)
  PROVE  Fresh(t, x)
  BY DEF Leaves, Fresh, Different

(* The step of a turn that leaves the nodes and what the turn ingested.    *)
LEMMA Quiet ==
  ASSUME MemoryInv, Reckoning, UNCHANGED <<store, memory, rows>>,
         NEW t \in Turns, NEW x, task' = [task EXCEPT ![t] = x],
         x.kept = task[t].kept, ItemsApart(x), Fresh(t, x), x.at = "write" => Matched(x),
         Begun(t) => x.at \notin {"idle", "items", "compact"},
         \A id \in items' : GoodId(id)
  PROVE  Reckoning'
  <1>1. Nodes' = Nodes
    BY DEF Nodes
  <1>2. /\ \A u \in Turns : u \in DOMAIN task /\ u \in DOMAIN task'
        /\ task'[t] = x /\ \A u \in Turns \ {t} : task'[u] = task[u]
    BY DEF MemoryInv, TaskInv
  <1>3. NodesSound'
    BY <1>1, <1>2 DEF Reckoning, NodesSound, Begun, IsSummary
  <1>4. TasksSound'
    <2>1. ASSUME NEW u \in Turns, NEW w, w = task'[u],
                 ItemsApart(w), Fresh(u, w), w.at = "write" => Matched(w)
          PROVE  /\ ItemsApart(task[u])' /\ Fresh(u, task[u])'
                 /\ (task[u].at = "write" => Matched(task[u]))'
      <3>1. ItemsApart(task[u])'
        BY <2>1 DEF ItemsApart, Different, GoodId
      <3>2. Fresh(u, task[u])'
        BY <2>1, <1>1 DEF Fresh, Different
      <3>3. (task[u].at = "write" => Matched(task[u]))'
        BY <2>1, <1>1 DEF Matched, Alike, Similar, FewTopics
      <3>4. QED
        BY <3>1, <3>2, <3>3
    <2>2. \A u \in Turns : LET w == task'[u] IN
            ItemsApart(w) /\ Fresh(u, w) /\ (w.at = "write" => Matched(w))
      BY <1>2 DEF Reckoning, TasksSound
    <2>3. QED
      BY <2>1, <2>2 DEF TasksSound
  <1>5. Counted'
    <2>1. \A u \in Turns : task'[u].kept = task[u].kept
      BY <1>2
    <2>2. \A type, topic : Ingested(type, topic)' = Ingested(type, topic)
      BY <2>1, IngestedKept
    <2>3. \A type, topic : About(type, topic)' = About(type, topic)
      BY <1>1 DEF About
    <2>4. QED
      BY <2>2, <2>3 DEF Reckoning, Counted, EvidenceAddsUp, Evidence
  <1>6. (FewTopics => OneEach)'
    BY <1>1 DEF Reckoning, FewTopics, OneEach, Similar, IsSummary
  <1>7. QED
    BY <1>3, <1>4, <1>5, <1>6 DEF Reckoning, GoodId

-----------------------------------------------------------------------------
(* The steps that write no node.                                           *)

(* The ids that the model is shown tell where they are from.               *)
LEMMA ShownAreGood ==
  ASSUME GraphInv, Reckoning, NEW broken
  PROVE  \A id \in ShownIds(broken) : GoodId(id)
  <1>1. PICK recalled : recalled = Recalled(broken, [x \in Topics |-> 0], Limit + 2)
    OBVIOUS
  <1>2. recalled \subseteq memory \cup rows
    BY <1>1, RecalledAreNodes
  <1>3. recalled \subseteq Nodes
    BY <1>2, AllAreNodes DEF Reckoning, NodesSound
  <1>4. \A n \in recalled : GoodId(n.id)
    BY <1>3 DEF Reckoning, NodesSound, GoodId
  <1>5. ShownIds(broken) = IF recalled = {} THEN items ELSE {n.id : n \in recalled}
    BY <1>1 DEF ShownIds
  <1>6. QED
    BY <1>4, <1>5 DEF Reckoning

LEMMA ExtractReckons ==
  ASSUME MemoryInv, EvidenceInv, NEW t \in Turns, Extract(t), serial', faults' = 0
  PROVE  Reckoning'
  <1>1. PICK broken \in Outcomes, reply \in Replies, new \in Compacts :
          /\ \E ids \in [DOMAIN reply -> ShownIds(broken) \cup {<<t, i>> : i \in DOMAIN reply}] :
               /\ IsInjective(ids)
               /\ task' = [task EXCEPT ![t].at = "items", ![t].compact = new,
                             ![t].todo = [i \in DOMAIN reply |->
                               [id |-> ids[i], kind |-> reply[i].kind, topic |-> reply[i].topic,
                                status |-> reply[i].status]]]
          /\ Count(broken)
    BY DEF Extract
  <1>2. PICK ids \in [DOMAIN reply -> ShownIds(broken) \cup {<<t, i>> : i \in DOMAIN reply}] :
          /\ IsInjective(ids)
          /\ task' = [task EXCEPT ![t].at = "items", ![t].compact = new,
                        ![t].todo = [i \in DOMAIN reply |->
                          [id |-> ids[i], kind |-> reply[i].kind, topic |-> reply[i].topic,
                           status |-> reply[i].status]]]
    BY <1>1
  <1>3. PICK todo : todo = [i \in DOMAIN reply |->
                             [id |-> ids[i], kind |-> reply[i].kind, topic |-> reply[i].topic,
                              status |-> reply[i].status]]
    OBVIOUS
  <1>4. PICK w : w = task[t]
    OBVIOUS
  <1>5. w \in Task(w, clock) /\ t \in DOMAIN task /\ w.at = "idle"
    BY <1>4, TaskAt DEF Extract
  <1>6. PICK x : x = Takes(w, "items", new, todo)
    OBVIOUS
  <1>7. task' = [task EXCEPT ![t] = x]
    BY <1>2, <1>3, <1>4, <1>5, <1>6 DEF Takes
  <1>8. /\ x.at = "items" /\ x.todo = todo /\ x.saved = w.saved
        /\ x.candidates = w.candidates /\ x.kept = w.kept
    BY <1>5, <1>6 DEF Takes, Task
  <1>9. Reckoning
    BY <1>1, NoFault DEF Extract, EvidenceInv, MemoryInv
  <1>10. ItemsApart(w) /\ Fresh(t, w)
    BY <1>4, <1>9 DEF Reckoning, TasksSound
  <1>11. \A id \in ShownIds(broken) : GoodId(id)
    BY <1>9, ShownAreGood DEF MemoryInv
  <1>12. \A i \in DOMAIN reply : GoodId(ids[i])
    <2>1. \A i : GoodId(<<t, i>>)
      BY DEF GoodId
    <2>2. QED
      BY <1>11, <2>1
  <1>13. ItemsApart(x)
    <2>1. DOMAIN todo = DOMAIN reply /\ \A i \in DOMAIN reply : todo[i].id = ids[i]
      BY <1>3
    <2>2. \A i, j \in DOMAIN reply : ids[i] = ids[j] => i = j
      BY <1>2 DEF IsInjective
    <2>3. w.saved = <<>>
      BY <1>5, <1>10 DEF ItemsApart
    <2>4. QED
      BY <1>8, <1>12, <2>1, <2>2, <2>3 DEF ItemsApart, Different
  <1>14. Fresh(t, x)
    BY <1>8, <1>10 DEF Fresh
  <1>15. ~Begun(t)
    BY <1>4, <1>5 DEF Begun
  <1>16. UNCHANGED <<store, memory, rows, items>>
    BY DEF Extract
  <1>17. \A id \in items' : GoodId(id)
    BY <1>9, <1>16 DEF Reckoning
  <1>18. x.kept = task[t].kept /\ x.at # "write"
    BY <1>4, <1>8
  <1>19. QED
    BY <1>7, <1>9, <1>13, <1>14, <1>15, <1>16, <1>17, <1>18, Quiet

LEMMA SaveItemReckons ==
  ASSUME MemoryInv, EvidenceInv, NEW t \in Turns, SaveItem(t), serial', faults' = 0
  PROVE  Reckoning'
  <1>1. PICK w : w = task[t]
    OBVIOUS
  <1>2. w \in Task(w, clock) /\ t \in DOMAIN task
    BY <1>1, TaskAt
  <1>3. w.at = "items" /\ w.todo # <<>> /\ UNCHANGED <<store, memory, rows, serial>>
    BY <1>1 DEF SaveItem
  <1>4. PICK item : item = Head(w.todo)
    OBVIOUS
  <1>5. PICK one : one = [id |-> item.id, kind |-> item.kind, topic |-> item.topic,
                          status |-> item.status, at |-> clock + 1]
    OBVIOUS
  <1>6. PICK x : x = IF task'[t].at = "compact" THEN Drops(w, "compact", <<>>, <<>>)
                     ELSE Saves(w, Tail(w.todo), Append(w.saved, one))
    OBVIOUS
  <1>7. /\ faults = 0 /\ task' = [task EXCEPT ![t] = x]
        /\ x = Drops(w, "compact", <<>>, <<>>) \/ x = Saves(w, Tail(w.todo), Append(w.saved, one))
        /\ items' \subseteq items \cup {item.id}
    <2>1. PICK broken \in Outcomes :
            IF broken \/ (store = "postgres" /\ Len(item.id) > 2)
            THEN /\ task' = [task EXCEPT ![t].at = "compact", ![t].todo = <<>>, ![t].saved = <<>>]
                 /\ Count(broken)
                 /\ UNCHANGED <<items, clock>>
            ELSE /\ task' = [task EXCEPT ![t].todo = Tail(@),
                               ![t].saved = Append(@, [id |-> item.id, kind |-> item.kind,
                                 topic |-> item.topic, status |-> item.status, at |-> clock + 1])]
                 /\ items' = items \cup {item.id}
                 /\ clock' = clock + 1
                 /\ UNCHANGED faults
      BY <1>1, <1>4 DEF SaveItem
    <2>2. CASE broken \/ (store = "postgres" /\ Len(item.id) > 2)
      <3>1. PICK y : y = Drops(w, "compact", <<>>, <<>>)
        OBVIOUS
      <3>2. task' = [task EXCEPT ![t] = y] /\ Count(broken) /\ items' = items
        BY <1>1, <1>2, <2>1, <2>2, <3>1 DEF Drops
      <3>3. y.at = "compact"
        BY <1>2, <3>1 DEF Drops, Task
      <3>4. x = y
        BY <1>2, <1>6, <3>1, <3>2, <3>3
      <3>5. faults = 0
        BY <3>2, NoFault DEF MemoryInv
      <3>6. QED
        BY <3>1, <3>2, <3>4, <3>5
    <2>3. CASE ~(broken \/ (store = "postgres" /\ Len(item.id) > 2))
      <3>1. PICK y : y = Saves(w, Tail(w.todo), Append(w.saved, one))
        OBVIOUS
      <3>2. task' = [task EXCEPT ![t].todo = Tail(w.todo), ![t].saved = Append(w.saved, one)]
        BY <1>1, <1>2, <1>5, <2>1, <2>3
      <3>3. task' = [task EXCEPT ![t] = y]
        BY <1>1, <1>2, <3>1, <3>2 DEF Saves
      <3>4. y.at = "items"
        BY <1>2, <1>3, <3>1 DEF Saves, Task
      <3>5. x = y
        BY <1>2, <1>6, <3>1, <3>3, <3>4
      <3>6. faults = 0 /\ items' = items \cup {item.id}
        BY <2>1, <2>3
      <3>7. QED
        BY <3>1, <3>3, <3>5, <3>6
    <2>4. QED
      BY <2>2, <2>3
  <1>8. Reckoning
    BY <1>3, <1>7 DEF EvidenceInv
  <1>9. ItemsApart(w) /\ Fresh(t, w)
    BY <1>1, <1>8 DEF Reckoning, TasksSound
  <1>10. w.todo \in Seq(Extracted) /\ w.saved \in Seq(Saved(clock))
    BY <1>2, TaskFields
  <1>11. /\ x.at \in {"items", "compact"} /\ x.kept = w.kept /\ x.candidates = w.candidates
         /\ \/ x.todo = <<>> /\ x.saved = <<>>
            \/ x.todo = Tail(w.todo) /\ x.saved = Append(w.saved, one)
    BY <1>2, <1>3, <1>7 DEF Drops, Saves, Task
  <1>12. /\ 1 \in DOMAIN w.todo /\ w.todo[1].id = one.id /\ item.id = one.id
         /\ GoodId(item.id)
    BY <1>3, <1>4, <1>5, <1>9, <1>10 DEF ItemsApart
  <1>13. ItemsApart(x)
    <2>1. CASE x.todo = <<>> /\ x.saved = <<>>
      BY <1>11, <2>1 DEF ItemsApart, Different
    <2>2. CASE x.todo = Tail(w.todo) /\ x.saved = Append(w.saved, one)
      <3>1. PICK a, b : a = w.todo /\ b = w.saved
        OBVIOUS
      <3>2. /\ a \in Seq(Extracted) /\ a # <<>> /\ b \in Seq(Saved(clock))
            /\ x.todo = Tail(a) /\ x.saved = Append(b, one)
        BY <1>3, <1>10, <2>2, <3>1
      <3>3. /\ Len(a) \in Nat /\ DOMAIN a = 1 .. Len(a) /\ DOMAIN Tail(a) = 1 .. (Len(a) - 1)
            /\ \A i \in DOMAIN Tail(a) : i + 1 \in DOMAIN a /\ i \in Nat /\ Tail(a)[i] = a[i + 1]
        BY <3>2
      <3>4. /\ Len(b) \in Nat /\ DOMAIN b = 1 .. Len(b)
            /\ DOMAIN Append(b, one) = DOMAIN b \cup {Len(b) + 1} /\ Len(b) + 1 \notin DOMAIN b
            /\ \A i \in DOMAIN b : Append(b, one)[i] = b[i]
            /\ Append(b, one)[Len(b) + 1] = one
        <4>1. Append(b, one) \in Seq(Saved(clock) \cup {one})
          BY <3>2
        <4>2. Len(b) \in Nat /\ DOMAIN b = 1 .. Len(b) /\ DOMAIN Append(b, one) = 1 .. (Len(b) + 1)
          BY <3>2
        <4>3. \A k \in Nat : 1 .. (k + 1) = (1 .. k) \cup {k + 1} /\ k + 1 \notin 1 .. k
          OBVIOUS
        <4>4. Append(b, one)[Len(b) + 1] = one /\ \A i \in DOMAIN b : Append(b, one)[i] = b[i]
          BY <3>2
        <4>5. QED
          BY <4>2, <4>3, <4>4
      <3>5. /\ \A i, j \in DOMAIN a : a[i].id = a[j].id => i = j
            /\ \A i, j \in DOMAIN b : b[i].id = b[j].id => i = j
            /\ \A i \in DOMAIN a : GoodId(a[i].id)
            /\ \A i \in DOMAIN b : GoodId(b[i].id)
            /\ \A i \in DOMAIN a, j \in DOMAIN b : a[i].id # b[j].id
            /\ 1 \in DOMAIN a /\ a[1].id = one.id
        BY <1>9, <1>12, <3>1 DEF ItemsApart, Different
      <3>6. Different(Tail(a)) /\ \A i \in DOMAIN Tail(a) : GoodId(Tail(a)[i].id)
        <4>1. \A i, j \in Nat : i + 1 = j + 1 => i = j
          OBVIOUS
        <4>2. QED
          BY <3>3, <3>5, <4>1 DEF Different
      <3>7. Different(Append(b, one)) /\ \A i \in DOMAIN Append(b, one) : GoodId(Append(b, one)[i].id)
        BY <3>4, <3>5 DEF Different
      <3>8. \A i \in DOMAIN Tail(a), j \in DOMAIN Append(b, one) : Tail(a)[i].id # Append(b, one)[j].id
        <4>1. \A i \in Nat : i \in DOMAIN Tail(a) => i + 1 # 1
          BY <3>3
        <4>2. \A i \in DOMAIN Tail(a) : Tail(a)[i].id # one.id
          BY <3>3, <3>5, <4>1
        <4>3. QED
          BY <3>3, <3>4, <3>5, <4>2
      <3>9. QED
        BY <1>11, <3>2, <3>6, <3>7, <3>8 DEF ItemsApart
    <2>3. QED
      BY <1>11, <2>1, <2>2
  <1>14. Fresh(t, x)
    BY <1>9, <1>11 DEF Fresh
  <1>15. ~Begun(t)
    BY <1>1, <1>3 DEF Begun
  <1>16. \A id \in items' : GoodId(id)
    BY <1>7, <1>8, <1>12 DEF Reckoning
  <1>17. x.kept = task[t].kept /\ x.at # "write"
    BY <1>1, <1>11
  <1>18. QED
    BY <1>3, <1>7, <1>8, <1>13, <1>14, <1>15, <1>16, <1>17, Quiet

LEMMA SetMoodReckons ==
  ASSUME MemoryInv, EvidenceInv, NEW t \in Turns, SetMood(t), serial', faults' = 0
  PROVE  Reckoning'
  <1>1. PICK w : w = task[t]
    OBVIOUS
  <1>2. w \in Task(w, clock) /\ t \in DOMAIN task
    BY <1>1, TaskAt
  <1>3. w.at = "items" /\ UNCHANGED <<store, memory, rows, items, serial>>
    BY <1>1 DEF SetMood
  <1>4. PICK x : x = Arrives(w, "compact")
    OBVIOUS
  <1>5. task' = [task EXCEPT ![t] = x]
    BY <1>1, <1>2, <1>4 DEF Arrives, SetMood
  <1>6. /\ x.at = "compact" /\ x.todo = w.todo /\ x.saved = w.saved
        /\ x.candidates = w.candidates /\ x.kept = w.kept
    BY <1>2, <1>4 DEF Arrives, Task
  <1>7. faults = 0
    <2>1. CASE \E i \in DOMAIN task[t].saved : task[t].saved[i].kind \in MoodKinds
      <3>1. PICK broken \in Outcomes : Count(broken)
        BY <2>1 DEF SetMood
      <3>2. QED
        BY <3>1, NoFault DEF MemoryInv
    <2>2. CASE ~ \E i \in DOMAIN task[t].saved : task[t].saved[i].kind \in MoodKinds
      BY <2>2 DEF SetMood
    <2>3. QED
      BY <2>1, <2>2
  <1>8. Reckoning
    BY <1>3, <1>7 DEF EvidenceInv
  <1>9. ItemsApart(x) /\ Fresh(t, x)
    <2>1. ItemsApart(w) /\ Fresh(t, w)
      BY <1>1, <1>8 DEF Reckoning, TasksSound
    <2>2. Leaves(w, x) /\ x.at # "idle"
      BY <1>6 DEF Leaves
    <2>3. QED
      BY <2>1, <2>2, NothingApart, NothingFresh
  <1>10. ~Begun(t)
    BY <1>1, <1>3 DEF Begun
  <1>11. \A id \in items' : GoodId(id)
    BY <1>3, <1>8 DEF Reckoning
  <1>12. x.kept = task[t].kept /\ x.at # "write"
    BY <1>1, <1>6
  <1>13. QED
    BY <1>3, <1>5, <1>8, <1>9, <1>10, <1>11, <1>12, Quiet

LEMMA LinkReckons ==
  ASSUME MemoryInv, EvidenceInv, NEW t \in Turns, Link(t), serial', faults' = 0
  PROVE  Reckoning'
  <1>1. PICK w : w = task[t]
    OBVIOUS
  <1>2. w \in Task(w, clock) /\ t \in DOMAIN task
    BY <1>1, TaskAt
  <1>3. /\ w.at \in {"links", "summaryLinks"}
        /\ UNCHANGED <<store, memory, rows, items, serial, faults>>
    BY <1>1 DEF Link
  <1>4. PICK next : next = Links(w, Tail(w.edges))
    OBVIOUS
  <1>5. task' = [task EXCEPT ![t] = IF store = "postgres" THEN Ended(w, "failed") ELSE Onward(next)]
    <2>1. task' = [task EXCEPT ![t] = IF store = "postgres" THEN Ended(task[t], "failed")
                                      ELSE Onward([task[t] EXCEPT !.edges = Tail(task[t].edges)])]
      BY <1>2 DEF Link
    <2>2. QED
      BY <1>1, <1>4, <2>1 DEF Links
  <1>6. PICK x : x = IF store = "postgres" THEN Ended(w, "failed") ELSE Onward(next)
    OBVIOUS
  <1>7. Leaves(w, x) /\ x.at \in {"read", "links", "summaryLinks", "done", "failed"}
    <2>1. CASE store = "postgres"
      BY <1>6, <2>1, EndedParts DEF Leaves
    <2>2. CASE store # "postgres"
      <3>1. next \in Task(next, clock) /\ next.at = w.at
        <4>1. PICK rest : rest = Tail(w.edges)
          OBVIOUS
        <4>2. next = Links(w, rest)
          BY <1>4, <4>1
        <4>3. QED
          BY <1>2, <4>2, LinksType
      <3>2. /\ next.kept = w.kept /\ next.todo = w.todo /\ next.saved = w.saved
            /\ next.candidates = w.candidates
        BY <1>2, <1>4 DEF Links, Task
      <3>3. Leaves(next, x) /\ x.at \in {"read", "links", "summaryLinks", "done"}
        BY <1>3, <1>6, <2>2, <3>1, OnwardParts
      <3>4. QED
        BY <3>2, <3>3 DEF Leaves
    <2>3. QED
      BY <2>1, <2>2
  <1>8. Reckoning
    BY <1>3 DEF EvidenceInv
  <1>9. ItemsApart(x) /\ Fresh(t, x)
    <2>1. ItemsApart(w) /\ Fresh(t, w)
      BY <1>1, <1>8 DEF Reckoning, TasksSound
    <2>2. QED
      BY <1>7, <2>1, NothingApart, NothingFresh
  <1>10. task' = [task EXCEPT ![t] = x]
    BY <1>5, <1>6
  <1>11. \A id \in items' : GoodId(id)
    BY <1>3, <1>8 DEF Reckoning
  <1>12. x.kept = task[t].kept /\ x.at \notin {"write", "idle", "items", "compact"}
    BY <1>1, <1>7 DEF Leaves
  <1>13. QED
    BY <1>3, <1>8, <1>9, <1>10, <1>11, <1>12, Quiet

(* The ids of what a turn brings: those of the items, then those of the    *)
(* facts of the compact.                                                   *)
LEMMA IdsOfTurn ==
  ASSUME NEW t \in Turns, NEW a \in Seq(Nat), NEW b \in Seq(Nat)
  PROVE  /\ <<t>> \o a # <<>> /\ (<<t>> \o a)[1] = t
         /\ <<t>> \o a = <<t>> \o b => a = b
         /\ GoodId(a) => \A i \in Nat : <<t>> \o a # <<t, 0, i>>
  <1>1. <<t>> \in Seq(Nat) /\ t \in Nat
    BY Basics
  <1>2. /\ Len(a) \in Nat /\ DOMAIN a = 1 .. Len(a) /\ Len(b) \in Nat /\ DOMAIN b = 1 .. Len(b)
    OBVIOUS
  <1>3. ASSUME NEW c \in Seq(Nat)
        PROVE  /\ Len(<<t>> \o c) = Len(c) + 1 /\ (<<t>> \o c)[1] = t
               /\ <<t>> \o c # <<>>
               /\ \A i \in 1 .. Len(c) : (<<t>> \o c)[i + 1] = c[i]
    BY <1>1
  <1>4. <<t>> \o a = <<t>> \o b => a = b
    <2> SUFFICES ASSUME <<t>> \o a = <<t>> \o b PROVE a = b
      OBVIOUS
    <2>1. Len(a) + 1 = Len(b) + 1
      BY <1>3
    <2>2. Len(a) = Len(b)
      <3>1. \A j, k \in Nat : j + 1 = k + 1 => j = k
        OBVIOUS
      <3>2. QED
        BY <1>2, <2>1, <3>1
    <2>3. \A i \in 1 .. Len(a) : a[i] = b[i]
      BY <1>3, <2>2
    <2>4. QED
      BY <1>2, <2>2, <2>3
  <1>5. ASSUME GoodId(a), NEW i \in Nat, <<t>> \o a = <<t, 0, i>> PROVE FALSE
    <2>1. Len(a) + 1 = 3
      BY <1>1, <1>3, <1>5
    <2>2. Len(a) = 2
      <3>1. \A k \in Nat : k + 1 = 3 => k = 2
        OBVIOUS
      <3>2. QED
        BY <1>2, <2>1, <3>1
    <2>3. a[1] = 0
      <3>1. 1 \in 1 .. Len(a) /\ 1 + 1 = 2
        BY <2>2
      <3>2. (<<t>> \o a)[2] = a[1]
        BY <1>3, <3>1
      <3>3. <<t, 0, i>>[2] = 0
        OBVIOUS
      <3>4. QED
        BY <1>5, <3>2, <3>3
    <2>4. a # SummaryId /\ a # <<>>
      <3>1. Len(SummaryId) = 1 /\ Len(<<>>) = 0
        BY DEF SummaryId
      <3>2. Len(a) # Len(SummaryId) /\ Len(a) # Len(<<>>)
        BY <2>2, <3>1
      <3>3. QED
        BY <3>2, Zenon
    <2>5. QED
      BY <1>5, <2>3, <2>4, Basics DEF GoodId
  <1>6. QED
    BY <1>3, <1>4, <1>5

LEMMA SaveCompactReckons ==
  ASSUME MemoryInv, EvidenceInv, NEW t \in Turns, SaveCompact(t), serial', faults' = 0
  PROVE  Reckoning'
  <1>1. PICK w : w = task[t]
    OBVIOUS
  <1>2. w \in Task(w, clock) /\ t \in DOMAIN task /\ clock \in Nat
    BY <1>1, TaskAt
  <1>3. w.at = "compact" /\ UNCHANGED <<store, memory, rows, items, serial>>
    BY <1>1 DEF SaveCompact
  <1>4. PICK facts : facts = IF w.compact = NoCompact THEN <<>> ELSE w.compact
    OBVIOUS
  <1>5. PICK a, b : /\ a = [i \in DOMAIN w.saved |-> ItemNode(t, w.saved[i])]
                    /\ b = [i \in DOMAIN facts |-> FactNode(t, i, facts[i], clock + 1)]
    OBVIOUS
  <1>6. PICK next : next = Begins(w, "read", clock + 1, <<>>, a \o b)
    OBVIOUS
  <1>7. PICK x : x = IF w.saved = <<>> /\ w.compact = NoCompact THEN Ended(w, "done")
                     ELSE Onward(next)
    OBVIOUS
  <1>8. task' = [task EXCEPT ![t] = x]
    <2>1. task' = [task EXCEPT ![t] = IF w.saved = <<>> /\ w.compact = NoCompact THEN Ended(w, "done")
                       ELSE Onward([w EXCEPT !.at = "read", !.now = clock + 1, !.saved = <<>>,
                                             !.candidates = a \o b])]
      BY <1>1, <1>2, <1>4, <1>5 DEF SaveCompact
    <2>2. QED
      BY <1>6, <1>7, <2>1 DEF Begins
  <1>9. faults = 0
    <2>1. CASE w.compact # NoCompact
      <3>1. PICK broken \in Outcomes : Count(broken)
        BY <1>1, <2>1 DEF SaveCompact
      <3>2. QED
        BY <3>1, NoFault DEF MemoryInv
    <2>2. CASE w.compact = NoCompact
      BY <1>1, <2>2 DEF SaveCompact
    <2>3. QED
      BY <2>1, <2>2
  <1>10. Reckoning
    BY <1>3, <1>9 DEF EvidenceInv
  <1>11. ItemsApart(w) /\ ~Begun(t)
    BY <1>1, <1>3, <1>10 DEF Reckoning, TasksSound, Begun
  <1>12. facts \in Seq(Topics) /\ w.saved \in Seq(Saved(clock))
    BY <1>2, <1>4, TaskFields DEF Said
  <1>13. a \in Brought(clock + 1 + Len(facts)) /\ b \in Brought(clock + 1 + Len(facts))
    <2>1. PICK d : d = clock + 1 + Len(facts)
      OBVIOUS
    <2>2. w.saved \in Savings(clock)
      BY <1>12 DEF Savings
    <2>3. QED
      BY <1>2, <1>5, <1>12, <2>1, <2>2, CandidatesOfTurn
  <1>14. PICK m, k \in Nat : m = Len(w.saved) /\ k = Len(facts)
    BY <1>12
  <1>15. /\ DOMAIN w.saved = 1 .. m /\ DOMAIN facts = 1 .. k
         /\ DOMAIN a = 1 .. m /\ DOMAIN b = 1 .. k
    BY <1>5, <1>12, <1>14
  <1>16. ASSUME NEW i \in 1 .. m
         PROVE  /\ a[i].id = <<t>> \o w.saved[i].id /\ a[i].evidence = 1
                /\ a[i].topic \in Topics
                /\ w.saved[i].id \in Seq(Nat) /\ GoodId(w.saved[i].id)
    <2>1. PICK one : one = w.saved[i]
      OBVIOUS
    <2>2. one \in Saved(clock) /\ a[i] = ItemNode(t, one)
      BY <1>5, <1>12, <1>15, <2>1
    <2>3. one.id \in Seq(Nat) /\ one.topic \in Topics
      BY <2>2 DEF Saved
    <2>4. GoodId(one.id)
      BY <1>11, <1>15, <2>1 DEF ItemsApart
    <2>5. a[i].id = <<t>> \o one.id /\ a[i].evidence = 1 /\ a[i].topic = one.topic
      BY <2>2 DEF ItemNode
    <2>6. QED
      BY <2>1, <2>3, <2>4, <2>5
  <1>17. ASSUME NEW i \in 1 .. k
         PROVE  b[i].id = <<t, 0, i>> /\ b[i].evidence = 1 /\ b[i].topic \in Topics
    <2>1. b[i] = FactNode(t, i, facts[i], clock + 1) /\ facts[i] \in Topics
      BY <1>5, <1>12, <1>15
    <2>2. QED
      BY <2>1 DEF FactNode
  <1>18. ASSUME NEW i \in 1 .. m, NEW j \in 1 .. m, a[i].id = a[j].id PROVE i = j
    <2>1. PICK c, d : c = w.saved[i].id /\ d = w.saved[j].id
      OBVIOUS
    <2>2. c \in Seq(Nat) /\ d \in Seq(Nat) /\ <<t>> \o c = <<t>> \o d
      BY <1>16, <1>18, <2>1
    <2>3. c = d
      BY <2>2, IdsOfTurn
    <2>4. QED
      BY <1>11, <1>15, <2>1, <2>3 DEF ItemsApart, Different
  <1>19. ASSUME NEW i \in 1 .. k, NEW j \in 1 .. k, b[i].id = b[j].id PROVE i = j
    <2>1. <<t, 0, i>> = <<t, 0, j>>
      BY <1>17, <1>19
    <2>2. QED
      BY <2>1
  <1>20. ASSUME NEW i \in 1 .. m, NEW j \in 1 .. k PROVE a[i].id # b[j].id
    <2>1. PICK c : c = w.saved[i].id
      OBVIOUS
    <2>2. c \in Seq(Nat) /\ GoodId(c) /\ j \in Nat
      BY <1>16, <2>1
    <2>3. <<t>> \o c # <<t, 0, j>>
      BY <2>2, IdsOfTurn
    <2>4. QED
      BY <1>16, <1>17, <2>1, <2>3
  <1>21. PICK cs : cs = a \o b
    OBVIOUS
  <1>22. /\ DOMAIN cs = 1 .. (m + k)
         /\ \A i \in 1 .. m : cs[i] = a[i]
         /\ \A i \in 1 .. (m + k) : i \notin 1 .. m => i - m \in 1 .. k /\ cs[i] = b[i - m]
    <2>1. PICK S : a \in Seq(S) /\ b \in Seq(S)
      BY <1>13 DEF Brought
    <2>2. Len(a) = m /\ Len(b) = k
      BY <1>14, <1>15, <2>1
    <2>3. DOMAIN cs = 1 .. (m + k)
      <3>1. a \o b \in Seq(S) /\ Len(a \o b) = Len(a) + Len(b)
        BY <2>1
      <3>2. cs \in Seq(S) /\ Len(cs) = m + k
        BY <1>21, <2>2, <3>1
      <3>3. QED
        BY <3>2
    <2>4. \A i \in 1 .. m : cs[i] = a[i]
      BY <1>21, <2>1, <2>2, Prefix
    <2>5. ASSUME NEW i \in 1 .. (m + k), i \notin 1 .. m
          PROVE  i - m \in 1 .. k /\ cs[i] = b[i - m]
      <3>1. i - m \in 1 .. k /\ m + (i - m) = i
        BY <2>5
      <3>2. PICK j \in 1 .. k : j = i - m /\ m + j = i
        BY <3>1
      <3>3. (a \o b)[m + j] = b[j]
        BY <2>1, <2>2, Suffix
      <3>4. QED
        BY <1>21, <3>2, <3>3
    <2>6. QED
      BY <2>3, <2>4, <2>5
  <1>23. ASSUME NEW i \in DOMAIN cs
         PROVE  /\ cs[i].evidence = 1 /\ cs[i].topic \in Topics
                /\ cs[i].id # <<>> /\ cs[i].id[1] = t
    <2>1. CASE i \in 1 .. m
      <3>1. PICK c : c = w.saved[i].id
        OBVIOUS
      <3>2. c \in Seq(Nat) /\ cs[i] = a[i] /\ a[i].id = <<t>> \o c
        BY <1>16, <1>22, <2>1, <3>1
      <3>3. <<t>> \o c # <<>> /\ (<<t>> \o c)[1] = t
        BY <3>2, IdsOfTurn
      <3>4. QED
        BY <1>16, <2>1, <3>2, <3>3
    <2>2. CASE i \notin 1 .. m
      <3>1. PICK j \in 1 .. k : cs[i] = b[j]
        BY <1>22, <2>2
      <3>2. <<t, 0, j>> # <<>> /\ <<t, 0, j>>[1] = t
        OBVIOUS
      <3>3. QED
        BY <1>17, <3>1, <3>2
    <2>3. QED
      BY <2>1, <2>2
  <1>24. Different(cs)
    <2> SUFFICES ASSUME NEW i \in 1 .. (m + k), NEW j \in 1 .. (m + k), cs[i].id = cs[j].id
                 PROVE  i = j
      BY <1>22 DEF Different
    <2>1. CASE i \in 1 .. m /\ j \in 1 .. m
      BY <1>18, <1>22, <2>1
    <2>2. CASE i \in 1 .. m /\ j \notin 1 .. m
      BY <1>20, <1>22, <2>2
    <2>3. CASE i \notin 1 .. m /\ j \in 1 .. m
      BY <1>20, <1>22, <2>3
    <2>4. CASE i \notin 1 .. m /\ j \notin 1 .. m
      <3>1. i - m = j - m
        BY <1>19, <1>22, <2>4
      <3>2. QED
        BY <3>1
    <2>5. QED
      BY <2>1, <2>2, <2>3, <2>4
  <1>25. \A i \in DOMAIN cs : \A n \in Nodes : n.id # cs[i].id
    <2>1. SummaryId[1] # t
      BY Basics DEF SummaryId
    <2>2. \A n \in Nodes : n.id[1] # t
      BY <1>10, <1>11, <2>1 DEF Reckoning, NodesSound
    <2>3. QED
      BY <1>23, <2>2
  <1>26. /\ next.at = "read" /\ next.kept = w.kept /\ next.todo = w.todo /\ next.saved = <<>>
         /\ next.candidates = cs
    BY <1>2, <1>6, <1>21 DEF Begins, Task
  <1>27. ItemsApart(next) /\ Fresh(t, next)
    <2>1. ItemsApart(next)
      BY <1>11, <1>26 DEF ItemsApart, Different
    <2>2. QED
      BY <1>23, <1>24, <1>25, <1>26, <2>1 DEF Fresh
  <1>28. /\ ItemsApart(x) /\ Fresh(t, x) /\ x.kept = w.kept
         /\ x.at \notin {"write", "idle", "items", "compact"}
    <2>1. CASE w.saved = <<>> /\ w.compact = NoCompact
      <3>1. x = Ended(w, "done")
        BY <1>7, <2>1
      <3>2. x.at = "done" /\ x.kept = w.kept /\ Leaves(next, x)
        BY <1>26, <3>1, EndedParts DEF Leaves
      <3>3. QED
        BY <1>27, <3>2, NothingApart, NothingFresh
    <2>2. CASE ~(w.saved = <<>> /\ w.compact = NoCompact)
      <3>1. x = Onward(next)
        BY <1>7, <2>2
      <3>2. PICK d : d = clock + 1 + Len(facts)
        OBVIOUS
      <3>3. next \in Task(next, d)
        <4>1. cs \in Brought(d)
          BY <1>13, <1>21, <3>2 DEF Brought
        <4>2. d \in Nat /\ clock <= d /\ clock + 1 \in Stamp(d)
          BY <1>2, <1>14, <3>2 DEF Stamp
        <4>3. w \in Task(w, d)
          BY <1>2, <4>2, Grow
        <4>4. "read" \in Points /\ <<>> \in Savings(d)
          BY DEF Points, Savings
        <4>5. PICK now : now = clock + 1
          OBVIOUS
        <4>6. next = Begins(w, "read", now, <<>>, cs)
          BY <1>6, <1>21, <4>5
        <4>7. QED
          BY <4>1, <4>2, <4>3, <4>4, <4>5, <4>6, BeginsType
      <3>4. Leaves(next, x) /\ x.at \in {"read", "links", "summaryLinks", "done"}
        BY <1>26, <3>1, <3>3, OnwardParts
      <3>5. QED
        BY <1>26, <1>27, <3>4, NothingApart, NothingFresh DEF Leaves
    <2>3. QED
      BY <2>1, <2>2
  <1>29. \A id \in items' : GoodId(id)
    BY <1>3, <1>10 DEF Reckoning
  <1>30. x.kept = task[t].kept
    BY <1>1, <1>28
  <1>31. QED
    BY <1>3, <1>8, <1>10, <1>28, <1>29, <1>30, Quiet

(* One of the nodes that happened last is always found.                    *)
LEMMA SomeAreNewest ==
  ASSUME NEW S, IsFiniteSet(S), S # {}, \A n \in S : n.at \in Nat, NEW k \in Nat \ {0}
  PROVE  Newest(S, k) # {}
  <1> DEFINE R == {e \in S \X S : e[2].at > e[1].at}
  <1>1. \A x, y \in S : <<x, y>> \in R <=> y.at > x.at
    OBVIOUS
  <1> HIDE DEF R
  <1>2. \A x \in S : <<x, x>> \notin R
    BY <1>1
  <1>3. \A x, y, z \in S : <<x, y>> \in R /\ <<y, z>> \in R => <<x, z>> \in R
    BY <1>1
  <1>4. PICK n \in S : \A m \in S : <<n, m>> \notin R
    BY <1>2, <1>3, MaximalElement
  <1>5. {m \in S : m.at > n.at} = {}
    BY <1>1, <1>4
  <1>6. Cardinality({m \in S : m.at > n.at}) = 0
    BY <1>5, FS_EmptySet
  <1>7. QED
    BY <1>6 DEF Newest

(* With few topics all active nodes of a type are listed.                  *)
LEMMA AllAreListed ==
  ASSUME MemoryInv, Reckoning, FewTopics, NEW type, type # "session_summary", NEW m \in Nodes,
         m.type = type, m.status = "active"
  PROVE  m \in Select(Nodes, {type})
  <1> DEFINE S == {n \in Nodes : n.status = "active" /\ n.type \in {type}}
             f == [n \in S |-> n.topic]
             later == {n \in S : n.at > m.at}
  <1>1. f \in Injection(S, Topics)
    <2>1. \A n \in S : n.topic \in Topics
      BY DEF Reckoning, NodesSound, IsSummary
    <2>2. f \in [S -> Topics]
      BY <2>1
    <2>3. \A n, k \in S : n.topic = k.topic => n = k
      BY DEF Reckoning, OneEach, Similar, IsSummary
    <2>4. \A n \in S : f[n] = n.topic
      OBVIOUS
    <2> HIDE DEF f, S
    <2>5. \A n, k \in S : f[n] = f[k] => n = k
      BY <2>3, <2>4
    <2>6. QED
      BY <2>2, <2>5 DEF Injection, IsInjective
  <1>2. m \in S /\ later \subseteq S \ {m}
    <2>1. ASSUME m \in later PROVE FALSE
      <3>1. memory \subseteq Node(clock) /\ rows \subseteq Node(clock) /\ clock \in Nat
        BY DEF MemoryInv, GraphInv, NodesOf
      <3>2. m.at \in Nat
        BY <3>1 DEF Nodes, Node
      <3>3. QED
        BY <2>1, <3>2
    <2>2. QED
      BY <2>1
  <1> HIDE DEF f
  <1>3. /\ IsFiniteSet(S) /\ Cardinality(S) <= Cardinality(Topics)
        /\ IsFiniteSet(Topics) /\ Cardinality(Topics) <= ListLimit
    <2> HIDE DEF S
    <2>1. QED
      BY <1>1, FS_Injection DEF FewTopics
  <1>4. IsFiniteSet(S \ {m}) /\ Cardinality(S \ {m}) = Cardinality(S) - 1
    <2> HIDE DEF S
    <2>1. QED
      BY <1>2, <1>3, FS_RemoveElement
  <1>5. Cardinality(S \ {m}) < ListLimit
    <2>1. Cardinality(S) \in Nat /\ Cardinality(Topics) \in Nat /\ ListLimit \in Nat
      BY <1>3, FS_CardinalityType, MemoryAssumption
    <2>2. \A a, b, c \in Nat : a <= b /\ b <= c => a - 1 < c
      OBVIOUS
    <2>3. QED
      BY <1>3, <1>4, <2>1, <2>2
  <1>6. Cardinality(later) < ListLimit
    <2> HIDE DEF later, S
    <2>1. QED
      BY <1>2, <1>4, <1>5, FewerElements, MemoryAssumption
  <1>7. QED
    BY <1>2, <1>6 DEF Select, Newest

(* What a merge looks at are active nodes; with few topics it finds a      *)
(* similar one if there is one.                                            *)
LEMMA SimilarAreFound ==
  ASSUME MemoryInv, FiniteInv, Reckoning, NEW n, ~IsSummary(n), \A m \in Nodes : m.id # n.id,
         NEW match, match = BestMatch(n, ListNodes({n.type}, FALSE))
  PROVE  match \subseteq Alike(n) /\ (match = {} /\ FewTopics => Alike(n) = {})
  <1>1. PICK listed : listed = ListNodes({n.type}, FALSE)
    OBVIOUS
  <1>2. listed \subseteq Nodes /\ \A m \in listed : m.status = "active"
    <2>1. memory \cup rows = Nodes
      BY AllAreNodes DEF MemoryInv, Reckoning, NodesSound
    <2>2. listed \subseteq memory \cup rows
      BY <1>1, Listed
    <2>3. listed \in {Select(rows, {n.type}), Select(memory, {n.type})}
      BY <1>1 DEF ListNodes
    <2>4. \A S : \A m \in Select(S, {n.type}) : m.status = "active"
      BY DEF Select, Newest
    <2>5. QED
      BY <2>1, <2>2, <2>3, <2>4
  <1>3. PICK found : found = {m \in listed : m.id # n.id /\ Similar(n, m)}
    OBVIOUS
  <1>4. match = IF found = {} THEN {} ELSE Newest(found, 1)
    BY <1>1, <1>3 DEF BestMatch
  <1>5. found \subseteq Alike(n)
    BY <1>2, <1>3 DEF Alike
  <1>6. match \subseteq found
    BY <1>4 DEF Newest
  <1>7. ASSUME match = {}, FewTopics, NEW m \in Alike(n) PROVE FALSE
    <2>1. found = {}
      <3>1. IsFiniteSet(found) /\ \A k \in found : k.at \in Nat
        <4>1. IsFiniteSet(listed)
          BY <1>1, ListedFinite
        <4>2. memory \subseteq Node(clock) /\ rows \subseteq Node(clock) /\ clock \in Nat
          BY DEF MemoryInv, GraphInv, NodesOf
        <4>3. \A k \in listed : k.at \in Nat
          BY <1>2, <4>2 DEF Nodes, Node
        <4>4. QED
          BY <1>3, <4>1, <4>3, FS_Subset
      <3>2. 1 \in Nat \ {0}
        OBVIOUS
      <3>3. found # {} => Newest(found, 1) # {}
        BY <3>1, <3>2, SomeAreNewest
      <3>4. QED
        BY <1>4, <1>7, <3>3
    <2>2. m \in Nodes /\ m.type = n.type /\ m.status = "active" /\ m.type # "session_summary"
      BY <1>7 DEF Alike, Similar, IsSummary
    <2>3. m \in Select(Nodes, {n.type})
      BY <1>7, <2>2, AllAreListed
    <2>4. m \in listed
      <3>1. CASE store = "memory"
        BY <1>1, <2>3, <3>1 DEF Nodes, ListNodes
      <3>2. CASE store # "memory"
        <4>1. m \in Select(rows, {n.type})
          BY <2>3, <3>2 DEF Nodes
        <4>2. QED
          BY <1>1, <3>2, <4>1 DEF ListNodes
      <3>3. QED
        BY <3>1, <3>2
    <2>5. m.id # n.id /\ Similar(n, m)
      BY <1>7, <2>2 DEF Alike
    <2>6. QED
      BY <1>3, <2>1, <2>4, <2>5
  <1>8. QED
    BY <1>5, <1>6, <1>7

LEMMA ReadSimilarReckons ==
  ASSUME MemoryInv, FiniteInv, EvidenceInv, NEW t \in Turns, ReadSimilar(t), serial', faults' = 0
  PROVE  Reckoning'
  <1>1. PICK w : w = task[t]
    OBVIOUS
  <1>2. w \in Task(w, clock) /\ t \in DOMAIN task
    BY <1>1, TaskAt
  <1>3. w.at = "read" /\ w.candidates # <<>> /\ UNCHANGED <<store, memory, rows, items, serial>>
    BY <1>1 DEF ReadSimilar
  <1>4. PICK n : n = Head(w.candidates)
    OBVIOUS
  <1>5. PICK broken \in Outcomes :
          /\ task' = [task EXCEPT ![t].at = "write",
                        ![t].match = BestMatch(n, ListNodes({n.type}, broken))]
          /\ Count(broken)
    BY <1>1, <1>4 DEF ReadSimilar
  <1>6. ~broken /\ faults = 0
    BY <1>5, NoFault DEF MemoryInv
  <1>7. PICK match : match = BestMatch(n, ListNodes({n.type}, FALSE))
    OBVIOUS
  <1>8. broken = FALSE
    BY <1>5, <1>6 DEF Outcomes
  <1>9. PICK x : x = Matches(w, "write", match)
    OBVIOUS
  <1>10. task' = [task EXCEPT ![t] = x]
    <2>1. task' = [task EXCEPT ![t].at = "write", ![t].match = match]
      BY <1>5, <1>7, <1>8
    <2>2. QED
      BY <1>1, <1>2, <1>9, <2>1 DEF Matches
  <1>11. /\ x.at = "write" /\ x.match = match /\ x.todo = w.todo /\ x.saved = w.saved
         /\ x.candidates = w.candidates /\ x.kept = w.kept
    BY <1>2, <1>9 DEF Matches, Task
  <1>12. Reckoning
    BY <1>3, <1>6 DEF EvidenceInv
  <1>13. ItemsApart(w) /\ Fresh(t, w)
    BY <1>1, <1>12 DEF Reckoning, TasksSound
  <1>14. ItemsApart(x) /\ Fresh(t, x)
    <2>1. Leaves(w, x) /\ x.at # "idle"
      BY <1>11 DEF Leaves
    <2>2. QED
      BY <1>13, <2>1, NothingApart, NothingFresh
  <1>15. n \in Memories(clock) /\ \A m \in Nodes : m.id # n.id
    <2>1. w.candidates \in Seq(Memories(clock))
      BY <1>2, TaskFields
    <2>2. 1 \in DOMAIN w.candidates /\ n = w.candidates[1] /\ n \in Memories(clock)
      BY <1>3, <1>4, <2>1
    <2>3. QED
      BY <1>13, <2>2 DEF Fresh
  <1>16. Matched(x)
    <2>1. ~IsSummary(n)
      BY <1>15 DEF Memories
    <2>2. match \subseteq Alike(n) /\ (match = {} /\ FewTopics => Alike(n) = {})
      BY <1>7, <1>12, <1>15, <2>1, SimilarAreFound
    <2>3. QED
      BY <1>4, <1>11, <2>2 DEF Matched
  <1>17. \A id \in items' : GoodId(id)
    BY <1>3, <1>12 DEF Reckoning
  <1>18. x.kept = task[t].kept /\ x.at \notin {"idle", "items", "compact"}
    BY <1>1, <1>11
  <1>19. QED
    BY <1>3, <1>10, <1>12, <1>14, <1>16, <1>17, <1>18, Quiet

-----------------------------------------------------------------------------
(* The steps that write a node.                                            *)

LEMMA Written ==
  ASSUME MemoryInv, memory \subseteq Nodes, NEW t \in Turns, NEW n, NEW next,
         WriteBoth(t, n, next), store' = store, faults' = 0
  PROVE  /\ faults = 0 /\ Nodes' = Put(Nodes, n) /\ memory' \subseteq Nodes'
         /\ task' = [task EXCEPT ![t] = Onward(next)]
  <1>1. PICK broken \in Outcomes :
          /\ rows' = IF store = "memory" \/ broken THEN rows ELSE Put(rows, n)
          /\ task' = [task EXCEPT ![t] = IF broken THEN Ended(@, "failed") ELSE Onward(next)]
          /\ Count(broken)
    BY DEF WriteBoth
  <1>2. ~broken /\ faults = 0
    BY <1>1, NoFault DEF MemoryInv
  <1>3. task' = [task EXCEPT ![t] = Onward(next)]
    BY <1>1, <1>2
  <1>4. memory' = Put(memory, n) /\ rows' = IF store = "memory" THEN rows ELSE Put(rows, n)
    BY <1>1, <1>2 DEF WriteBoth
  <1>5. Nodes' = Put(Nodes, n) /\ memory' \subseteq Nodes'
    BY <1>4 DEF Nodes, Put
  <1>6. QED
    BY <1>2, <1>3, <1>5

(* The node is of this turn, the summary, or one there is.                 *)
Expected(t, n) ==
  n.id = SummaryId \/ (n.id # <<>> /\ n.id[1] = t) \/ \E m \in Nodes : m.id = n.id

LEMMA WrittenSound ==
  ASSUME MemoryInv, SummaryInv, Reckoning, serial, NEW t \in Turns, Working(t), Begun(t),
         NEW n, Nodes' = Put(Nodes, n), memory' \subseteq Nodes',
         Expected(t, n), IsSummary(n) \/ n.topic \in Topics,
         NEW x, task' = [task EXCEPT ![t] = x], ItemsApart(x), Fresh(t, x),
         x.at \notin {"write", "idle", "items", "compact"},
         \A i \in DOMAIN x.candidates : x.candidates[i].id # n.id
  PROVE  NodesSound' /\ TasksSound'
  <1>1. /\ task'[t] = x /\ \A u \in Turns \ {t} : task'[u] = task[u]
    BY DEF MemoryInv, TaskInv
  <1>2. \A u \in Turns \ {t} : task[u].at # "write"
    BY DEF SummaryInv, Working
  <1>3. \A m \in Nodes' : m = n \/ m \in Nodes
    BY DEF Put
  <1>4. NodesSound'
    <2>1. \A u \in Turns : Begun(u) => task'[u].at \notin {"idle", "items", "compact"}
      BY <1>1 DEF Begun
    <2>2. \A m \in Nodes : /\ m.id = SummaryId \/ (m.id # <<>> /\ m.id[1] \in Turns /\ Begun(m.id[1]))
                           /\ IsSummary(m) \/ m.topic \in Topics
      BY DEF Reckoning, NodesSound
    <2>3. n.id = SummaryId \/ (n.id # <<>> /\ n.id[1] \in Turns /\ Begun(n.id[1]))
      BY <2>2 DEF Expected
    <2>4. \A m \in Nodes' :
            /\ m.id = SummaryId \/ (m.id # <<>> /\ m.id[1] \in Turns /\ Begun(m.id[1]))
            /\ IsSummary(m) \/ m.topic \in Topics
      BY <1>3, <2>2, <2>3
    <2>5. QED
      BY <2>1, <2>4 DEF NodesSound, Begun, IsSummary
  <1>5. TasksSound'
    <2>1. ASSUME NEW u \in Turns, NEW w, w = task'[u], ItemsApart(w), Fresh(u, w), w.at # "write",
                 \A i \in DOMAIN w.candidates : w.candidates[i].id # n.id
          PROVE  /\ ItemsApart(task[u])' /\ Fresh(u, task[u])'
                 /\ (task[u].at = "write" => Matched(task[u]))'
      <3>1. ItemsApart(task[u])'
        BY <2>1 DEF ItemsApart, Different, GoodId
      <3>2. Fresh(u, task[u])'
        BY <2>1, <1>3 DEF Fresh, Different
      <3>3. QED
        BY <2>1, <3>1, <3>2
    <2>2. ASSUME NEW u \in Turns \ {t}
          PROVE  LET w == task'[u] IN
                   /\ ItemsApart(w) /\ Fresh(u, w) /\ w.at # "write"
                   /\ \A i \in DOMAIN w.candidates : w.candidates[i].id # n.id
      <3>1. PICK w : w = task[u]
        OBVIOUS
      <3>2. ItemsApart(w) /\ Fresh(u, w) /\ w.at # "write" /\ task'[u] = w
        BY <1>1, <1>2, <3>1 DEF Reckoning, TasksSound
      <3>3. SummaryId[1] # u
        BY Basics DEF SummaryId
      <3>4. \A i \in DOMAIN w.candidates : w.candidates[i].id # n.id
        BY <3>2, <3>3 DEF Fresh, Expected
      <3>5. QED
        BY <3>2, <3>4
    <2>3. \A u \in Turns : LET w == task'[u] IN
            /\ ItemsApart(w) /\ Fresh(u, w) /\ w.at # "write"
            /\ \A i \in DOMAIN w.candidates : w.candidates[i].id # n.id
      BY <1>1, <2>2
    <2>4. QED
      BY <2>1, <2>3 DEF TasksSound
  <1>6. QED
    BY <1>4, <1>5

(* A candidate without a match adds a node ...                             *)
LEMMA CountedWhenAdded ==
  ASSUME Counted, NEW n, Nodes' = Put(Nodes, n), \A m \in Nodes : m.id # n.id, n.evidence = 1,
         NEW t \in Turns, NEW S, task[t].kept \in Seq(S), task'[t].kept = Append(task[t].kept, n),
         \A u \in Turns \ {t} : task'[u].kept = task[u].kept
  PROVE  Counted'
  <1> SUFFICES ASSUME NEW type \in AllTypes \ {"session_summary"}, NEW topic \in Topics
               PROVE  (/\ IsFiniteSet(Evidence(About(type, topic)))
                       /\ IsFiniteSet(Ingested(type, topic)) /\ EvidenceAddsUp(type, topic))'
    BY DEF Counted
  <1>1. PICK A, I, one : /\ A = About(type, topic) /\ I = Ingested(type, topic)
                         /\ one = <<t, Len(task[t].kept) + 1>>
    OBVIOUS
  <1>2. PICK B, J : B = About(type, topic)' /\ J = Ingested(type, topic)'
    OBVIOUS
  <1>3. /\ IsFiniteSet(Evidence(A)) /\ IsFiniteSet(I) /\ Cardinality(Evidence(A)) = Cardinality(I)
    BY <1>1 DEF Counted, EvidenceAddsUp
  <1>4. n \notin A /\ one \notin I
    <2>1. n \notin A
      BY <1>1, AboutAdded
    <2>2. one \notin Ingested(type, topic)
      BY <1>1, IngestedGrows
    <2>3. QED
      BY <1>1, <2>1, <2>2
  <1>5. /\ B = IF n.type = type /\ n.topic = topic THEN A \cup {n} ELSE A
        /\ J = IF n.type = type /\ n.topic = topic THEN I \cup {one} ELSE I
    <2>1. B = IF n.type = type /\ n.topic = topic THEN A \cup {n} ELSE A
      BY <1>1, <1>2, AboutAdded
    <2>2. Brings(n, one, type, topic)
      BY <1>1, IngestedGrows
    <2>3. J = IF n.type = type /\ n.topic = topic THEN I \cup {one} ELSE I
      BY <1>1, <1>2, <2>2 DEF Brings
    <2>4. QED
      BY <2>1, <2>3
  <1>6. IsFiniteSet(Evidence(B)) /\ IsFiniteSet(J) /\ Cardinality(Evidence(B)) = Cardinality(J)
    <2>1. n.evidence \in Nat
      OBVIOUS
    <2>2. /\ IsFiniteSet(Evidence(A \cup {n}))
          /\ Cardinality(Evidence(A \cup {n})) = Cardinality(Evidence(A)) + 1
      BY <1>3, <1>4, <2>1, EvidenceAdded
    <2>3. IsFiniteSet(I \cup {one}) /\ Cardinality(I \cup {one}) = Cardinality(I) + 1
      BY <1>3, <1>4, FS_AddElement
    <2>4. QED
      BY <1>3, <1>5, <2>2, <2>3
  <1>7. QED
    BY <1>2, <1>6 DEF EvidenceAddsUp, Evidence

(* ... and one with a match the evidence of the node it is merged with.    *)
LEMMA CountedWhenMerged ==
  ASSUME Counted, NEW n, Nodes' = Put(Nodes, n), NEW old \in Nodes,
         old.id = n.id, old.type = n.type, old.topic = n.topic,
         \A m \in Nodes : m.id = old.id => m = old,
         old.evidence \in Nat, n.evidence = old.evidence + 1,
         NEW t \in Turns, NEW S, task[t].kept \in Seq(S), task'[t].kept = Append(task[t].kept, n),
         \A u \in Turns \ {t} : task'[u].kept = task[u].kept
  PROVE  Counted'
  <1> SUFFICES ASSUME NEW type \in AllTypes \ {"session_summary"}, NEW topic \in Topics
               PROVE  (/\ IsFiniteSet(Evidence(About(type, topic)))
                       /\ IsFiniteSet(Ingested(type, topic)) /\ EvidenceAddsUp(type, topic))'
    BY DEF Counted
  <1>1. PICK A, I, one : /\ A = About(type, topic) /\ I = Ingested(type, topic)
                         /\ one = <<t, Len(task[t].kept) + 1>>
    OBVIOUS
  <1>2. PICK B, J : B = About(type, topic)' /\ J = Ingested(type, topic)'
    OBVIOUS
  <1>3. /\ IsFiniteSet(Evidence(A)) /\ IsFiniteSet(I) /\ Cardinality(Evidence(A)) = Cardinality(I)
    BY <1>1 DEF Counted, EvidenceAddsUp
  <1>4. /\ n.type = type /\ n.topic = topic => old \in A
        /\ n \notin A \ {old} /\ one \notin I
    <2>1. (n.type = type /\ n.topic = topic => old \in A) /\ n \notin A \ {old}
      BY <1>1, AboutReplaced
    <2>2. one \notin Ingested(type, topic)
      BY <1>1, IngestedGrows
    <2>3. QED
      BY <1>1, <2>1, <2>2
  <1>5. /\ B = IF n.type = type /\ n.topic = topic THEN (A \ {old}) \cup {n} ELSE A
        /\ J = IF n.type = type /\ n.topic = topic THEN I \cup {one} ELSE I
    <2>1. B = IF n.type = type /\ n.topic = topic THEN (A \ {old}) \cup {n} ELSE A
      BY <1>1, <1>2, AboutReplaced
    <2>2. Brings(n, one, type, topic)
      BY <1>1, IngestedGrows
    <2>3. J = IF n.type = type /\ n.topic = topic THEN I \cup {one} ELSE I
      BY <1>1, <1>2, <2>2 DEF Brings
    <2>4. QED
      BY <2>1, <2>3
  <1>6. IsFiniteSet(Evidence(B)) /\ IsFiniteSet(J) /\ Cardinality(Evidence(B)) = Cardinality(J)
    <2>1. CASE n.type = type /\ n.topic = topic
      <3>1. /\ IsFiniteSet(Evidence((A \ {old}) \cup {n}))
            /\ Cardinality(Evidence((A \ {old}) \cup {n})) = Cardinality(Evidence(A)) + 1
        BY <1>3, <1>4, <2>1, EvidenceReplaced
      <3>2. IsFiniteSet(I \cup {one}) /\ Cardinality(I \cup {one}) = Cardinality(I) + 1
        BY <1>3, <1>4, FS_AddElement
      <3>3. QED
        BY <1>3, <1>5, <2>1, <3>1, <3>2
    <2>2. CASE ~(n.type = type /\ n.topic = topic)
      BY <1>3, <1>5, <2>2
    <2>3. QED
      BY <2>1, <2>2
  <1>7. QED
    BY <1>2, <1>6 DEF EvidenceAddsUp, Evidence

(* Of a type and topic one node at most is active.                         *)
LEMMA OneWhenAdded ==
  ASSUME OneEach, NEW n, Nodes' = Put(Nodes, n), Alike(n) = {}
  PROVE  OneEach'
  <1> SUFFICES ASSUME NEW a \in Nodes', NEW b \in Nodes', Similar(b, a), ~IsSummary(b),
                      b.status = "active", a.status = "active"
               PROVE  a = b
    BY DEF OneEach, Similar, IsSummary
  <1>1. (a = n \/ a \in Nodes) /\ (b = n \/ b \in Nodes)
    BY DEF Put
  <1>2. a = n => b \notin Nodes
    BY DEF Alike, Similar
  <1>3. b = n => a \notin Nodes
    BY DEF Alike
  <1>4. a \in Nodes /\ b \in Nodes => a = b
    BY DEF OneEach
  <1>5. QED
    BY <1>1, <1>2, <1>3, <1>4

LEMMA OneWhenMerged ==
  ASSUME OneEach, NEW n, Nodes' = Put(Nodes, n), NEW old \in Nodes, old.status = "active",
         old.id = n.id, old.type = n.type, old.topic = n.topic, ~IsSummary(n)
  PROVE  OneEach'
  <1> SUFFICES ASSUME NEW a \in Nodes', NEW b \in Nodes', Similar(b, a), ~IsSummary(b),
                      b.status = "active", a.status = "active"
               PROVE  a = b
    BY DEF OneEach, Similar, IsSummary
  <1>1. /\ a = n \/ (a \in Nodes /\ a.id # n.id)
        /\ b = n \/ (b \in Nodes /\ b.id # n.id)
    BY DEF Put
  <1>2. a = n /\ b \in Nodes => b = old
    BY DEF OneEach, Similar, IsSummary
  <1>3. b = n /\ a \in Nodes => a = old
    BY DEF OneEach, Similar, IsSummary
  <1>4. a \in Nodes /\ b \in Nodes => a = b
    BY DEF OneEach
  <1>5. QED
    BY <1>1, <1>2, <1>3, <1>4

LEMMA MergedParts ==
  ASSUME NEW c, NEW old \in Node(c), NEW n, n.evidence = 1
  PROVE  LET one == Merge(old, n) IN
         /\ one.id = old.id /\ one.type = old.type /\ one.topic = old.topic
         /\ one.status = old.status /\ one.evidence = old.evidence + 1
         /\ old.evidence \in Nat
  BY DEF Merge, Node

LEMMA WriteNodeReckons ==
  ASSUME MemoryInv, SummaryInv, EvidenceInv, NEW t \in Turns, WriteNode(t), serial', faults' = 0
  PROVE  Reckoning'
  <1>1. PICK w : w = task[t]
    OBVIOUS
  <1>2. w \in Task(w, clock) /\ Ready(w) /\ t \in DOMAIN task /\ clock \in Nat
    BY <1>1, TaskAt
  <1>3. PICK head, old : head = Head(w.candidates) /\ old = CHOOSE m \in w.match : TRUE
    OBVIOUS
  <1>4. PICK n : n = IF w.match = {} THEN head ELSE Merge(old, head)
    OBVIOUS
  <1>5. PICK kept, rest : kept = Append(w.kept, n) /\ rest = Tail(w.candidates)
    OBVIOUS
  <1>6. PICK next : next = Writes(w, "read", {}, kept, rest)
    OBVIOUS
  <1>7. PICK x : x = Onward(next)
    OBVIOUS
  <1>8. w.at = "write" /\ WriteBoth(t, n, next) /\ UNCHANGED <<store, items, serial>>
    <2>1. [task[t] EXCEPT !.at = "read", !.match = {}, !.kept = kept, !.candidates = rest] = next
      BY <1>1, <1>6 DEF Writes
    <2>2. QED
      BY <1>1, <1>3, <1>4, <1>5, <2>1 DEF WriteNode
  <1>9. Reckoning /\ faults = 0
    <2>1. faults = 0
      <3>1. PICK broken \in Outcomes : Count(broken)
        BY <1>8 DEF WriteBoth
      <3>2. QED
        BY <3>1, NoFault DEF MemoryInv
    <2>2. QED
      BY <1>8, <2>1 DEF EvidenceInv
  <1>10. /\ Nodes' = Put(Nodes, n) /\ memory' \subseteq Nodes'
         /\ task' = [task EXCEPT ![t] = x]
    BY <1>7, <1>8, <1>9, Written DEF Reckoning, NodesSound
  <1>11. ItemsApart(w) /\ Fresh(t, w) /\ Matched(w)
    BY <1>1, <1>8, <1>9 DEF Reckoning, TasksSound
  <1>12. PICK k : k = w.candidates
    OBVIOUS
  <1>13. k \in Seq(Memories(clock)) /\ k # <<>> /\ head = k[1] /\ rest = Tail(k)
    BY <1>2, <1>3, <1>5, <1>8, <1>12, TaskFields DEF Ready
  <1>14. /\ 1 \in DOMAIN k
         /\ \A i \in DOMAIN rest : i \in Nat /\ i + 1 \in DOMAIN k /\ i + 1 # 1 /\ rest[i] = k[i + 1]
    BY <1>13
  <1>15. /\ head \in Memories(clock) /\ head.evidence = 1 /\ head.topic \in Topics
         /\ head.id # <<>> /\ head.id[1] = t /\ \A m \in Nodes : m.id # head.id
    BY <1>11, <1>12, <1>13, <1>14 DEF Fresh
  <1>16. /\ next.at = "read" /\ next.todo = w.todo /\ next.saved = w.saved
         /\ next.candidates = rest /\ next.kept = kept
    BY <1>2, <1>6 DEF Writes, Task
  <1>17. ItemsApart(next) /\ Fresh(t, next)
    <2>1. ItemsApart(next)
      BY <1>11, <1>16, <1>8 DEF ItemsApart
    <2>2. Different(rest)
      <3>1. \A i, j \in Nat : i + 1 = j + 1 => i = j
        OBVIOUS
      <3>2. QED
        BY <1>11, <1>12, <1>14, <3>1 DEF Fresh, Different
    <2>3. QED
      BY <1>11, <1>12, <1>14, <1>16, <2>1, <2>2 DEF Fresh
  <1>18. w.match # {} =>
           /\ old \in Nodes /\ Similar(head, old) /\ old.status = "active"
           /\ old.evidence \in Nat /\ n.evidence = old.evidence + 1
           /\ n.id = old.id /\ n.type = old.type /\ n.topic = old.topic
    <2> SUFFICES ASSUME w.match # {}
                 PROVE  /\ old \in Nodes /\ Similar(head, old) /\ old.status = "active"
                        /\ old.evidence \in Nat /\ n.evidence = old.evidence + 1
                        /\ n.id = old.id /\ n.type = old.type /\ n.topic = old.topic
      OBVIOUS
    <2>1. old \in w.match
      BY <1>3
    <2>2. old \in Nodes /\ Similar(head, old) /\ old.status = "active"
      BY <1>3, <1>11, <2>1 DEF Matched, Alike
    <2>3. old \in Node(clock)
      BY <2>2 DEF MemoryInv, GraphInv, NodesOf, Nodes
    <2>4. n = Merge(old, head)
      BY <1>4
    <2>5. QED
      BY <1>15, <2>2, <2>3, <2>4, MergedParts
  <1>19. Expected(t, n) /\ n.topic \in Topics /\ ~IsSummary(n)
    <2>1. CASE w.match = {}
      BY <1>4, <1>15, <2>1 DEF Expected, Memories
    <2>2. CASE w.match # {}
      BY <1>15, <1>18, <2>2 DEF Expected, Similar, Memories, IsSummary
    <2>3. QED
      BY <2>1, <2>2
  <1>20. next \in Task(next, clock)
    <2>1. "read" \in Points /\ {} \in Found(clock)
      BY DEF Points, Found
    <2>2. PICK none : none = {}
      OBVIOUS
    <2>3. w.kept \in Seq(Node(clock)) /\ rest \in Brought(clock)
      BY <1>2, <1>13, TaskFields DEF Brought
    <2>4. n \in Node(clock)
      <3>1. CASE w.match = {}
        BY <1>4, <1>15, <3>1 DEF Memories
      <3>2. CASE w.match # {}
        <4>1. old \in Memories(clock)
          BY <1>2, <1>3, <3>2, TaskFields
        <4>2. Merge(old, head) \in Memories(clock)
          BY <1>2, <1>15, <4>1, MergedNode
        <4>3. QED
          BY <1>4, <3>2, <4>2 DEF Memories
      <3>3. QED
        BY <3>1, <3>2
    <2>5. kept \in Kept(clock)
      BY <1>5, <2>3, <2>4 DEF Kept
    <2>6. next = Writes(w, "read", none, kept, rest) /\ none \in Found(clock)
      BY <1>6, <2>1, <2>2
    <2>7. QED
      BY <1>2, <2>1, <2>3, <2>5, <2>6, WritesType
  <1>21. Leaves(next, x) /\ x.at \in {"read", "links", "summaryLinks", "done"}
    BY <1>7, <1>16, <1>20, OnwardParts
  <1>22. ItemsApart(x) /\ Fresh(t, x)
    BY <1>17, <1>21, NothingApart, NothingFresh
  <1>23. \A i \in DOMAIN x.candidates : x.candidates[i].id # n.id
    <2>1. \A i \in DOMAIN rest : rest[i].id # n.id
      <3>1. CASE w.match = {}
        BY <1>4, <1>11, <1>12, <1>13, <1>14, <3>1 DEF Fresh, Different
      <3>2. CASE w.match # {}
        BY <1>11, <1>12, <1>14, <1>18, <3>2 DEF Fresh
      <3>3. QED
        BY <3>1, <3>2
    <2>2. QED
      BY <1>16, <1>21, <2>1 DEF Leaves
  <1>24. serial /\ Working(t) /\ Begun(t)
    BY <1>1, <1>8 DEF Working, Begun
  <1>25. NodesSound' /\ TasksSound'
    BY <1>9, <1>10, <1>19, <1>21, <1>22, <1>23, <1>24, WrittenSound
  <1>26. /\ task[t].kept \in Seq(Node(clock)) /\ task'[t].kept = Append(task[t].kept, n)
         /\ \A u \in Turns \ {t} : task'[u].kept = task[u].kept
    <2>1. x.kept = Append(w.kept, n)
      BY <1>5, <1>16, <1>21 DEF Leaves
    <2>2. task'[t] = x /\ \A u \in Turns \ {t} : task'[u] = task[u]
      BY <1>2, <1>10 DEF MemoryInv, TaskInv
    <2>3. QED
      BY <1>1, <1>2, <2>1, <2>2, TaskFields
  <1>27. Counted' /\ (FewTopics => OneEach')
    <2>1. CASE w.match = {}
      <3>1. n = head /\ n.evidence = 1 /\ \A m \in Nodes : m.id # n.id
        BY <1>4, <1>15, <2>1
      <3>2. Counted'
        BY <1>9, <1>10, <1>26, <3>1, CountedWhenAdded DEF Reckoning
      <3>3. FewTopics => Alike(n) = {} /\ OneEach
        BY <1>3, <1>9, <1>11, <2>1, <3>1 DEF Matched, Reckoning
      <3>4. FewTopics => OneEach'
        BY <1>10, <3>3, OneWhenAdded
      <3>5. QED
        BY <3>2, <3>4
    <2>2. CASE w.match # {}
      <3>1. /\ old \in Nodes /\ old.status = "active" /\ old.evidence \in Nat
            /\ n.evidence = old.evidence + 1
            /\ old.id = n.id /\ old.type = n.type /\ old.topic = n.topic
        BY <1>18, <2>2
      <3>2. \A m \in Nodes : m.id = old.id => m = old
        BY <3>1 DEF MemoryInv, GraphInv, NodesOf, Nodes
      <3>3. Counted'
        BY <1>9, <1>10, <1>26, <3>1, <3>2, CountedWhenMerged DEF Reckoning
      <3>4. FewTopics => OneEach'
        BY <1>9, <1>10, <1>19, <3>1, OneWhenMerged DEF Reckoning
      <3>5. QED
        BY <3>3, <3>4
    <2>3. QED
      BY <2>1, <2>2
  <1>28. (\A id \in items : GoodId(id))'
    BY <1>8, <1>9 DEF Reckoning, GoodId
  <1>29. QED
    BY <1>25, <1>27, <1>28 DEF Reckoning, FewTopics

LEMMA SummarizeReckons ==
  ASSUME MemoryInv, SummaryInv, EvidenceInv, NEW t \in Turns, Summarize(t), serial', faults' = 0
  PROVE  Reckoning'
  <1>1. PICK w : w = task[t]
    OBVIOUS
  <1>2. w \in Task(w, clock) /\ t \in DOMAIN task
    BY <1>1, TaskAt
  <1>3. PICK edges : edges = SummaryEdges(SubSeq(w.kept, Len(w.kept) - Len(w.compact) + 1, Len(w.kept)))
    OBVIOUS
  <1>4. PICK n, next : n = SummaryNode(t, w.now) /\ next = LinksAt(w, "summaryLinks", edges)
    OBVIOUS
  <1>5. PICK x : x = Onward(next)
    OBVIOUS
  <1>6. w.at = "links" /\ WriteBoth(t, n, next) /\ UNCHANGED <<store, items, serial>>
    <2>1. [task[t] EXCEPT !.at = "summaryLinks", !.edges = edges] = next
      BY <1>1, <1>4 DEF LinksAt
    <2>2. QED
      BY <1>1, <1>3, <1>4, <2>1 DEF Summarize
  <1>7. Reckoning /\ faults = 0
    <2>1. faults = 0
      <3>1. PICK broken \in Outcomes : Count(broken)
        BY <1>6 DEF WriteBoth
      <3>2. QED
        BY <3>1, NoFault DEF MemoryInv
    <2>2. QED
      BY <1>6, <2>1 DEF EvidenceInv
  <1>8. /\ Nodes' = Put(Nodes, n) /\ memory' \subseteq Nodes'
        /\ task' = [task EXCEPT ![t] = x]
    BY <1>5, <1>6, <1>7, Written DEF Reckoning, NodesSound
  <1>9. n.id = SummaryId /\ IsSummary(n)
    BY <1>4 DEF SummaryNode, IsSummary
  <1>10. Leaves(w, x) /\ x.at \in {"read", "links", "summaryLinks", "done"}
    <2>1. "summaryLinks" \in Points
      BY DEF Points
    <2>2. next \in Task(next, clock) /\ next.at = "summaryLinks"
      BY <1>2, <1>4, <2>1, LinksAtType
    <2>3. /\ next.kept = w.kept /\ next.todo = w.todo /\ next.saved = w.saved
          /\ next.candidates = w.candidates
      BY <1>2, <1>4 DEF LinksAt, Task
    <2>4. Leaves(next, x) /\ x.at \in {"read", "links", "summaryLinks", "done"}
      BY <1>5, <2>2, OnwardParts
    <2>5. QED
      BY <2>3, <2>4 DEF Leaves
  <1>11. ItemsApart(x) /\ Fresh(t, x)
    <2>1. ItemsApart(w) /\ Fresh(t, w)
      BY <1>1, <1>7 DEF Reckoning, TasksSound
    <2>2. QED
      BY <1>10, <2>1, NothingApart, NothingFresh
  <1>12. \A i \in DOMAIN x.candidates : x.candidates[i].id # n.id
    <2>1. SummaryId[1] # t
      BY Basics DEF SummaryId
    <2>2. QED
      BY <1>9, <1>11, <2>1 DEF Fresh
  <1>13. serial /\ Working(t) /\ Begun(t) /\ Expected(t, n)
    BY <1>1, <1>6, <1>9 DEF Working, Begun, Expected
  <1>14. NodesSound' /\ TasksSound'
    BY <1>7, <1>8, <1>9, <1>10, <1>11, <1>12, <1>13, WrittenSound
  <1>15. \A m \in Nodes : m.id = SummaryId => IsSummary(m)
    BY DEF MemoryInv, GraphInv, NodesOf, Nodes
  <1>16. Counted'
    <2>1. \A u \in Turns : task'[u].kept = task[u].kept
      BY <1>1, <1>2, <1>8, <1>10 DEF Leaves, MemoryInv, TaskInv
    <2>2. \A type, topic : Ingested(type, topic)' = Ingested(type, topic)
      BY <2>1, IngestedKept
    <2>3. \A type \in AllTypes \ {"session_summary"} : \A topic :
            About(type, topic)' = About(type, topic)
      BY <1>8, <1>9, <1>15 DEF About, Put, IsSummary
    <2>4. QED
      BY <1>7, <2>2, <2>3 DEF Reckoning, Counted, EvidenceAddsUp, Evidence
  <1>17. FewTopics => OneEach'
    <2> SUFFICES ASSUME OneEach, NEW a \in Nodes', NEW b \in Nodes', Similar(b, a), ~IsSummary(b),
                        b.status = "active", a.status = "active"
                 PROVE  a = b
      BY <1>7 DEF Reckoning, OneEach, Similar, IsSummary
    <2>1. ~IsSummary(a)
      BY DEF Similar, IsSummary
    <2>2. a \in Nodes /\ b \in Nodes
      BY <1>8, <1>9, <2>1 DEF Put
    <2>3. QED
      BY <2>2 DEF OneEach
  <1>18. (\A id \in items : GoodId(id))'
    BY <1>6, <1>7 DEF Reckoning, GoodId
  <1>19. QED
    BY <1>14, <1>16, <1>17, <1>18 DEF Reckoning, FewTopics

(* A restart leaves the rows, which are all nodes with Postgres.           *)
LEMMA RestartReckons ==
  ASSUME MemoryInv, EvidenceInv, Restart, serial', faults' = 0
  PROVE  Reckoning'
  <1>1. /\ store = "postgres" /\ memory' = {} /\ UNCHANGED <<store, rows, items, serial, faults>>
        /\ task' = [t \in Turns |-> IF Working(t) THEN Ended(task[t], "gone") ELSE task[t]]
    BY DEF Restart
  <1>2. Nodes' = Nodes /\ Reckoning
    BY <1>1 DEF Nodes, EvidenceInv
  <1>3. ASSUME NEW t \in Turns
        PROVE  /\ task'[t].kept = task[t].kept /\ task'[t].at # "write"
               /\ Begun(t) => task'[t].at \notin {"idle", "items", "compact"}
               /\ ItemsApart(task'[t]) /\ Fresh(t, task'[t])
    <2>1. PICK w : w = task[t]
      OBVIOUS
    <2>2. ItemsApart(w) /\ Fresh(t, w)
      BY <1>2, <2>1 DEF Reckoning, TasksSound
    <2>3. CASE Working(t)
      <3>1. PICK x : x = Ended(w, "gone")
        OBVIOUS
      <3>2. task'[t] = x
        BY <1>1, <2>1, <2>3, <3>1
      <3>3. Leaves(w, x) /\ x.at = "gone"
        BY <3>1, EndedParts DEF Leaves
      <3>4. ItemsApart(x) /\ Fresh(t, x)
        BY <2>2, <3>3, NothingApart, NothingFresh
      <3>5. QED
        BY <2>1, <3>2, <3>3, <3>4 DEF Leaves
    <2>4. CASE ~Working(t)
      <3>1. task'[t] = w
        BY <1>1, <2>1, <2>4
      <3>2. QED
        BY <2>1, <2>2, <2>4, <3>1 DEF Working, Begun
    <2>5. QED
      BY <2>3, <2>4
  <1>4. NodesSound'
    <2>1. memory' \subseteq Nodes'
      BY <1>1
    <2>2. QED
      BY <1>2, <1>3, <2>1 DEF Reckoning, NodesSound, Begun, IsSummary
  <1>5. TasksSound'
    <2>1. ASSUME NEW u \in Turns, NEW w, w = task'[u], ItemsApart(w), Fresh(u, w), w.at # "write"
          PROVE  /\ ItemsApart(task[u])' /\ Fresh(u, task[u])'
                 /\ (task[u].at = "write" => Matched(task[u]))'
      <3>1. ItemsApart(task[u])'
        BY <2>1 DEF ItemsApart, Different, GoodId
      <3>2. Fresh(u, task[u])'
        BY <2>1, <1>2 DEF Fresh, Different
      <3>3. QED
        BY <2>1, <3>1, <3>2
    <2>2. QED
      BY <1>3, <2>1 DEF TasksSound
  <1>6. Counted'
    <2>1. \A type, topic : Ingested(type, topic)' = Ingested(type, topic)
      BY <1>3, IngestedKept
    <2>2. \A type, topic : About(type, topic)' = About(type, topic)
      BY <1>2 DEF About
    <2>3. QED
      BY <1>2, <2>1, <2>2 DEF Reckoning, Counted, EvidenceAddsUp, Evidence
  <1>7. (FewTopics => OneEach)'
    BY <1>2 DEF Reckoning, FewTopics, OneEach, Similar, IsSummary
  <1>8. (\A id \in items : GoodId(id))'
    BY <1>1, <1>2 DEF Reckoning, GoodId
  <1>9. QED
    BY <1>4, <1>5, <1>6, <1>7, <1>8 DEF Reckoning

-----------------------------------------------------------------------------
LEMMA EvidenceStep ==
  MemoryInv /\ SummaryInv /\ FiniteInv /\ EvidenceInv /\ [Next]_vars => EvidenceInv'
  <1> SUFFICES ASSUME MemoryInv, SummaryInv, FiniteInv, EvidenceInv, [Next]_vars,
                      serial', faults' = 0
               PROVE  Reckoning'
    BY DEF EvidenceInv
  <1>1. ASSUME NEW t \in Turns, Extract(t) PROVE Reckoning'
    BY <1>1, ExtractReckons
  <1>2. ASSUME NEW t \in Turns, SaveItem(t) PROVE Reckoning'
    BY <1>2, SaveItemReckons
  <1>3. ASSUME NEW t \in Turns, SetMood(t) PROVE Reckoning'
    BY <1>3, SetMoodReckons
  <1>4. ASSUME NEW t \in Turns, SaveCompact(t) PROVE Reckoning'
    BY <1>4, SaveCompactReckons
  <1>5. ASSUME NEW t \in Turns, ReadSimilar(t) PROVE Reckoning'
    BY <1>5, ReadSimilarReckons
  <1>6. ASSUME NEW t \in Turns, WriteNode(t) PROVE Reckoning'
    BY <1>6, WriteNodeReckons
  <1>7. ASSUME NEW t \in Turns, Link(t) PROVE Reckoning'
    BY <1>7, LinkReckons
  <1>8. ASSUME NEW t \in Turns, Summarize(t) PROVE Reckoning'
    BY <1>8, SummarizeReckons
  <1>9. CASE Restart
    BY <1>9, RestartReckons
  <1>10. CASE UNCHANGED vars
    <2>1. UNCHANGED <<memory, rows, items, task, store, serial, faults>>
      BY <1>10 DEF vars
    <2>2. Nodes' = Nodes /\ Reckoning
      BY <2>1 DEF Nodes, EvidenceInv
    <2>3. NodesSound'
      BY <2>1, <2>2 DEF Reckoning, NodesSound, Begun, IsSummary
    <2>4. TasksSound'
      BY <2>1, <2>2 DEF Reckoning, TasksSound, ItemsApart, Fresh, Different, GoodId, Matched,
                        Alike, Similar, FewTopics
    <2>5. Counted'
      <3>1. \A type, topic : Ingested(type, topic)' = Ingested(type, topic)
        BY <2>1, IngestedKept
      <3>2. \A type, topic : About(type, topic)' = About(type, topic)
        BY <2>2 DEF About
      <3>3. QED
        BY <2>2, <3>1, <3>2 DEF Reckoning, Counted, EvidenceAddsUp, Evidence
    <2>6. (FewTopics => OneEach)'
      BY <2>2 DEF Reckoning, FewTopics, OneEach, Similar, IsSummary
    <2>7. QED
      BY <2>1, <2>2, <2>3, <2>4, <2>5, <2>6 DEF Reckoning, GoodId
  <1>11. QED
    BY <1>1, <1>2, <1>3, <1>4, <1>5, <1>6, <1>7, <1>8, <1>9, <1>10 DEF Next

LEMMA EvidenceInit == Init => EvidenceInv
  <1> SUFFICES ASSUME Init PROVE Reckoning
    BY DEF EvidenceInv
  <1>1. Nodes = {} /\ memory = {} /\ items = {}
    BY DEF Init, Nodes
  <1>2. \A t \in Turns : /\ task[t].at = "idle" /\ task[t].todo = <<>> /\ task[t].saved = <<>>
                         /\ task[t].candidates = <<>> /\ task[t].kept = <<>>
    BY DEF Init, NoTask
  <1>3. NodesSound
    BY <1>1 DEF NodesSound
  <1>4. TasksSound
    BY <1>2 DEF TasksSound, ItemsApart, Fresh, Different
  <1>5. Counted
    <2> SUFFICES ASSUME NEW type \in AllTypes \ {"session_summary"}, NEW topic \in Topics
                 PROVE  /\ IsFiniteSet(Evidence(About(type, topic)))
                        /\ IsFiniteSet(Ingested(type, topic)) /\ EvidenceAddsUp(type, topic)
      BY DEF Counted
    <2>1. Evidence(About(type, topic)) = {}
      BY <1>1 DEF Evidence, About
    <2>2. Ingested(type, topic) = {}
      BY <1>2 DEF Ingested
    <2>3. QED
      BY <2>1, <2>2, FS_EmptySet DEF EvidenceAddsUp
  <1>6. OneEach
    BY <1>1 DEF OneEach
  <1>7. QED
    BY <1>1, <1>3, <1>4, <1>5, <1>6 DEF Reckoning

(* Nothing that is ingested is lost or counted twice, however many topics  *)
(* there are: as long as no two turns run their subtasks at once and no    *)
(* statement fails, the evidence of the nodes about a topic is the number  *)
(* of times it was ingested (upsertMemoryFact, mergeNode).                 *)
THEOREM EvidenceAlwaysAddsUp ==
  Spec => [](serial /\ faults = 0 =>
               \A type \in AllTypes \ {"session_summary"}, topic \in Topics :
                 EvidenceAddsUp(type, topic))
  <1>1. EvidenceInv => (serial /\ faults = 0 =>
                          \A type \in AllTypes \ {"session_summary"}, topic \in Topics :
                            EvidenceAddsUp(type, topic))
    BY DEF EvidenceInv, Reckoning, Counted
  <1>2. QED
    BY <1>1, MemoryInit, MemoryNext, SummaryInit, SummaryNext, FiniteInit, FiniteNext,
       EvidenceInit, EvidenceStep, PTL DEF Spec

(* With no more topics than a merge looks at nodes, one active node of a   *)
(* type stands for a topic at most, besides: the listing that is cut at    *)
(* 128 nodes has the one to merge with (service.go:196,                    *)
(* findBestSimilarityNode).                                                *)
THEOREM EvidenceCounted ==
  ASSUME FewTopics
  PROVE  Spec => []EvidenceIsCounted
  <1>1. EvidenceInv => EvidenceIsCounted
    <2> SUFFICES ASSUME EvidenceInv, serial, faults = 0,
                        NEW type \in AllTypes \ {"session_summary"}, NEW topic \in Topics
                 PROVE  EvidenceAddsUp(type, topic) /\ OneIsActive(type, topic)
      BY DEF EvidenceIsCounted
    <2>1. EvidenceAddsUp(type, topic) /\ OneEach
      BY DEF EvidenceInv, Reckoning, Counted
    <2>2. PICK A : A = {n \in About(type, topic) : n.status = "active"}
      OBVIOUS
    <2>3. \A m, n \in A : m = n
      BY <2>1, <2>2 DEF About, OneEach, Similar, IsSummary
    <2>4. CASE A = {}
      BY <2>1, <2>2, <2>4, FS_EmptySet DEF OneIsActive
    <2>5. CASE A # {}
      <3>1. PICK n \in A : \A m \in A : m = n
        BY <2>3, <2>5
      <3>2. A = {n}
        BY <3>1
      <3>3. Cardinality(A) = 1
        BY <3>2, FS_Singleton
      <3>4. QED
        BY <2>1, <2>2, <3>3 DEF OneIsActive
    <2>6. QED
      BY <2>4, <2>5
  <1>2. QED
    BY <1>1, MemoryInit, MemoryNext, SummaryInit, SummaryNext, FiniteInit, FiniteNext,
       EvidenceInit, EvidenceStep, PTL DEF Spec

-----------------------------------------------------------------------------
(* The story of a turn.                                                    *)

(* In the order of time each node has a place of its own.                  *)
LEMMA EarlierHasFewerBefore ==
  ASSUME NEW nodes, IsFiniteSet(DOMAIN nodes), DOMAIN nodes \subseteq Nat,
         \A i \in DOMAIN nodes : nodes[i].at \in Nat,
         NEW i \in DOMAIN nodes, NEW j \in DOMAIN nodes, Before(nodes, j, i)
  PROVE  Place(nodes, j) < Place(nodes, i)
  <1> DEFINE earlier(k) == {l \in DOMAIN nodes : Before(nodes, l, k)}
  <1>1. earlier(j) \subseteq earlier(i) \ {j} /\ j \in earlier(i)
    BY DEF Before
  <1>2. IsFiniteSet(earlier(i)) /\ IsFiniteSet(earlier(j))
    BY FS_Subset
  <1>3. Place(nodes, i) = 1 + Cardinality(earlier(i)) /\ Place(nodes, j) = 1 + Cardinality(earlier(j))
    BY DEF Place
  <1> HIDE DEF earlier
  <1>4. /\ IsFiniteSet(earlier(i) \ {j})
        /\ Cardinality(earlier(i) \ {j}) = Cardinality(earlier(i)) - 1
    BY <1>1, <1>2, FS_RemoveElement
  <1>5. Cardinality(earlier(j)) <= Cardinality(earlier(i) \ {j})
    BY <1>1, <1>4, FS_Subset
  <1>6. Cardinality(earlier(i)) \in Nat /\ Cardinality(earlier(j)) \in Nat
    BY <1>2, FS_CardinalityType
  <1>7. QED
    BY <1>3, <1>4, <1>5, <1>6

LEMMA PlacesInTime ==
  ASSUME NEW n \in Nat, NEW nodes, DOMAIN nodes = 1 .. n, \A i \in 1 .. n : nodes[i].at \in Nat
  PROVE  /\ \A i \in 1 .. n : Place(nodes, i) \in 1 .. n
         /\ \A i, j \in 1 .. n : Place(nodes, i) = Place(nodes, j) => i = j
  <1>1. IsFiniteSet(1 .. n) /\ Cardinality(1 .. n) = n /\ 1 .. n \subseteq Nat
    BY FS_Interval
  <1>2. ASSUME NEW i \in 1 .. n PROVE Place(nodes, i) \in 1 .. n
    <2> DEFINE earlier == {l \in 1 .. n : Before(nodes, l, i)}
    <2>1. earlier \subseteq (1 .. n) \ {i}
      BY DEF Before
    <2>2. Place(nodes, i) = 1 + Cardinality(earlier)
      BY DEF Place
    <2> HIDE DEF earlier
    <2>3. IsFiniteSet((1 .. n) \ {i}) /\ Cardinality((1 .. n) \ {i}) = n - 1
      BY <1>1, FS_RemoveElement
    <2>4. IsFiniteSet(earlier) /\ Cardinality(earlier) <= n - 1
      BY <2>1, <2>3, FS_Subset
    <2>5. Cardinality(earlier) \in Nat
      BY <2>4, FS_CardinalityType
    <2>6. QED
      BY <2>2, <2>4, <2>5
  <1>3. ASSUME NEW i \in 1 .. n, NEW j \in 1 .. n, i # j PROVE Place(nodes, i) # Place(nodes, j)
    <2>1. Before(nodes, i, j) \/ Before(nodes, j, i)
      BY <1>1, <1>3 DEF Before
    <2>2. Place(nodes, i) < Place(nodes, j) \/ Place(nodes, j) < Place(nodes, i)
      BY <1>1, <2>1, EarlierHasFewerBefore
    <2>3. Place(nodes, i) \in Nat /\ Place(nodes, j) \in Nat
      BY <1>2
    <2>4. QED
      BY <2>2, <2>3
  <1>4. QED
    BY <1>2, <1>3

(* Sorted by time the nodes are the same ones.                             *)
SameNodes(s, nodes, n) ==
  /\ DOMAIN s = 1 .. n
  /\ \A k \in 1 .. n : \E i \in 1 .. n : s[k] = nodes[i]
  /\ \A i \in 1 .. n : \E k \in 1 .. n : s[k] = nodes[i]

LEMMA SortedAreAll ==
  ASSUME NEW n \in Nat, NEW nodes, DOMAIN nodes = 1 .. n, \A i \in 1 .. n : nodes[i].at \in Nat
  PROVE  SameNodes(InTime(nodes), nodes, n)
  <1> DEFINE f == [i \in 1 .. n |-> Place(nodes, i)]
  <1>1. f \in Injection(1 .. n, 1 .. n)
    <2>1. f \in [1 .. n -> 1 .. n] /\ \A i, j \in 1 .. n : f[i] = f[j] => i = j
      BY PlacesInTime
    <2> HIDE DEF f
    <2>2. QED
      BY <2>1 DEF Injection, IsInjective
  <1>2. IsFiniteSet(1 .. n)
    BY FS_Interval
  <1>3. f \in Surjection(1 .. n, 1 .. n)
    <2> HIDE DEF f
    <2>1. QED
      BY <1>1, <1>2, FS_Injection
  <1>4. \A k \in 1 .. n : \E i \in 1 .. n : f[i] = k
    <2> HIDE DEF f
    <2>1. QED
      BY <1>3 DEF Surjection
  <1>5. \A k \in 1 .. n : \E i \in 1 .. n : Place(nodes, i) = k
    BY <1>4
  <1>6. DOMAIN InTime(nodes) = 1 .. n
        /\ \A k \in 1 .. n : InTime(nodes)[k] = nodes[CHOOSE i \in 1 .. n : Place(nodes, i) = k]
    BY DEF InTime
  <1>7. \A k \in 1 .. n : \E i \in 1 .. n : InTime(nodes)[k] = nodes[i]
    BY <1>5, <1>6
  <1>8. ASSUME NEW i \in 1 .. n PROVE \E k \in 1 .. n : InTime(nodes)[k] = nodes[i]
    <2>1. PICK k \in 1 .. n : k = Place(nodes, i)
      BY PlacesInTime
    <2>2. \A j \in 1 .. n : Place(nodes, j) = k => j = i
      BY <2>1, PlacesInTime
    <2>3. (CHOOSE j \in 1 .. n : Place(nodes, j) = k) = i
      BY <2>1, <2>2
    <2>4. QED
      BY <1>6, <2>3
  <1>9. QED
    BY <1>6, <1>7, <1>8 DEF SameNodes

(* The nodes of a turn with an edge from each to the one before, all of    *)
(* them in the graph: a part of the turn that is not all has an edge out.  *)
Listing(s) == \A i \in DOMAIN TurnEdges(s) : TurnEdges(s)[i] \in links

Crosses(S, n, nodes) ==
  \E i, j \in 1 .. n :
    /\ nodes[i].id \in S /\ nodes[j].id \notin S
    /\ \E e \in links : e.type = "follows" /\ Ends(e) = {nodes[i].id, nodes[j].id}

LEMMA Crossing ==
  ASSUME NEW n \in Nat, NEW nodes, DOMAIN nodes = 1 .. n, nodes # <<>>, Len(nodes) = n,
         \A i \in 1 .. n : nodes[i].at \in Nat, Listing(nodes),
         NEW S, NEW a \in 1 .. n, NEW b \in 1 .. n, nodes[a].id \in S, nodes[b].id \notin S
  PROVE  Crosses(S, n, nodes)
  <1>1. PICK s : s = InTime(nodes)
    OBVIOUS
  <1>2. /\ \A k \in 1 .. n : \E i \in 1 .. n : s[k] = nodes[i]
        /\ \A i \in 1 .. n : \E k \in 1 .. n : s[k] = nodes[i]
    <2>1. SameNodes(InTime(nodes), nodes, n)
      BY SortedAreAll
    <2>2. QED
      BY <1>1, <2>1 DEF SameNodes
  <1>3. \A k \in 1 .. (n - 1) : TurnEdges(nodes)[k] = [from |-> s[k + 1].id, to |-> s[k].id, type |-> "follows"]
    BY <1>1 DEF TurnEdges
  <1>4. DOMAIN TurnEdges(nodes) = 1 .. (n - 1)
    BY DEF TurnEdges
  <1>5. ASSUME NEW k \in 1 .. (n - 1)
        PROVE  \E e \in links : e.type = "follows" /\ Ends(e) = {s[k + 1].id, s[k].id}
    <2>1. PICK e : e = TurnEdges(nodes)[k]
      OBVIOUS
    <2>2. e \in links
      BY <1>4, <2>1 DEF Listing
    <2>3. e = [from |-> s[k + 1].id, to |-> s[k].id, type |-> "follows"]
      BY <1>3, <2>1
    <2>4. QED
      BY <2>2, <2>3 DEF Ends
  <1>6. \E k \in 1 .. (n - 1) : ~(s[k].id \in S <=> s[k + 1].id \in S)
    <2> SUFFICES ASSUME \A k \in 1 .. (n - 1) : s[k].id \in S <=> s[k + 1].id \in S PROVE FALSE
      OBVIOUS
    <2>1. n \in Nat \ {0} /\ n - 1 \in Nat
      OBVIOUS
    <2>2. ASSUME NEW d \in 0 .. (n - 1) PROVE s[d + 1].id \in S <=> s[1].id \in S
      <3> DEFINE G == {k \in 0 .. d : s[k + 1].id \in S <=> s[1].id \in S}
      <3>1. 0 \in G /\ G \in SUBSET (0 .. d) /\ d \in Nat
        BY <2>1
      <3>2. ASSUME NEW k \in G, k < d PROVE k + 1 \in G
        <4>1. k + 1 \in 1 .. (n - 1) /\ k + 1 \in 0 .. d
          BY <2>1, <3>2
        <4>2. s[k + 1].id \in S <=> s[(k + 1) + 1].id \in S
          BY <4>1
        <4>3. QED
          BY <4>1, <4>2
      <3> HIDE DEF G
      <3>3. d \in G
        BY <3>1, <3>2, UpTo
      <3>4. QED
        BY <3>3 DEF G
    <2>3. \A k \in 1 .. n : s[k].id \in S <=> s[1].id \in S
      <3>1. ASSUME NEW k \in 1 .. n PROVE s[k].id \in S <=> s[1].id \in S
        <4>1. k - 1 \in 0 .. (n - 1) /\ (k - 1) + 1 = k
          BY <2>1
        <4>2. QED
          BY <2>2, <4>1
      <3>2. QED
        BY <3>1
    <2>4. PICK k, l \in 1 .. n : s[k] = nodes[a] /\ s[l] = nodes[b]
      <3>1. \E k \in 1 .. n : s[k] = nodes[a]
        BY <1>2
      <3>2. \E l \in 1 .. n : s[l] = nodes[b]
        BY <1>2
      <3>3. QED
        BY <3>1, <3>2
    <2>5. s[k].id \in S /\ s[l].id \notin S
      BY <2>4
    <2>6. QED
      BY <2>3, <2>5
  <1>7. PICK k \in 1 .. (n - 1) : ~(s[k].id \in S <=> s[k + 1].id \in S)
    BY <1>6
  <1>8. k \in 1 .. n /\ k + 1 \in 1 .. n
    OBVIOUS
  <1>9. PICK i, j \in 1 .. n : s[k] = nodes[i] /\ s[k + 1] = nodes[j]
    <2>1. \E i \in 1 .. n : s[k] = nodes[i]
      BY <1>2, <1>8
    <2>2. \E j \in 1 .. n : s[k + 1] = nodes[j]
      BY <1>2, <1>8
    <2>3. QED
      BY <2>1, <2>2
  <1>10. PICK e \in links : e.type = "follows" /\ Ends(e) = {nodes[j].id, nodes[i].id}
    BY <1>5, <1>9
  <1>11. Ends(e) = {nodes[i].id, nodes[j].id}
    BY <1>10
  <1>12. CASE nodes[i].id \in S /\ nodes[j].id \notin S
    BY <1>10, <1>11, <1>12 DEF Crosses
  <1>13. CASE nodes[j].id \in S /\ nodes[i].id \notin S
    BY <1>10, <1>13 DEF Crosses
  <1>14. QED
    BY <1>7, <1>9, <1>12, <1>13

(* What BuildRecallChains reaches in so many rounds.                       *)
Near(S, activated, edges) ==
  {m \in activated : \E e \in edges, k \in S : e.type = "follows" /\ Ends(e) = {m.id, k.id}}
Round(f, i, n, activated, edges) ==
  IF i = 0 THEN {n} ELSE f[i - 1] \cup Near(f[i - 1], activated, edges)
Rounds(f, c, n, activated, edges) == f = [i \in 0 .. c |-> Round(f, i, n, activated, edges)]

LEMMA OneMoreRound ==
  ASSUME NEW n, NEW activated, NEW edges, NEW c \in Nat, NEW f, Rounds(f, c, n, activated, edges)
  PROVE  \E g : Rounds(g, c + 1, n, activated, edges)
  <1>1. PICK last : last = Round(f, c + 1, n, activated, edges)
    OBVIOUS
  <1>2. PICK g : g = [i \in 0 .. c + 1 |-> IF i = c + 1 THEN last ELSE f[i]]
    OBVIOUS
  <1>3. \A i \in 0 .. c : g[i] = f[i] /\ f[i] = Round(f, i, n, activated, edges)
    BY <1>2 DEF Rounds
  <1>4. ASSUME NEW i \in 0 .. c + 1
        PROVE  Round(g, i, n, activated, edges) = Round(f, i, n, activated, edges)
    <2>1. CASE i = 0
      BY <2>1 DEF Round
    <2>2. CASE i # 0
      <3>1. i - 1 \in 0 .. c
        BY <2>2
      <3>2. g[i - 1] = f[i - 1]
        BY <1>3, <3>1
      <3>3. QED
        BY <2>2, <3>2 DEF Round
    <2>3. QED
      BY <2>1, <2>2
  <1>5. ASSUME NEW i \in 0 .. c + 1 PROVE g[i] = Round(f, i, n, activated, edges)
    <2>1. CASE i = c + 1
      BY <1>1, <1>2, <2>1
    <2>2. CASE i # c + 1
      <3>1. i \in 0 .. c
        BY <2>2
      <3>2. QED
        BY <1>3, <3>1
    <2>3. QED
      BY <2>1, <2>2
  <1>6. \A i \in 0 .. c + 1 : g[i] = Round(g, i, n, activated, edges)
    BY <1>4, <1>5
  <1>7. g = [i \in 0 .. c + 1 |-> Round(g, i, n, activated, edges)]
    BY <1>2, <1>6
  <1>8. QED
    BY <1>7 DEF Rounds

LEMMA RoundsExist ==
  ASSUME NEW n, NEW activated, NEW edges, NEW c \in Nat
  PROVE  \E f : Rounds(f, c, n, activated, edges)
  <1> DEFINE G == {k \in 0 .. c : \E f : Rounds(f, k, n, activated, edges)}
  <1>1. 0 \in G
    <2>1. PICK f : f = [i \in 0 .. 0 |-> {n}]
      OBVIOUS
    <2>2. \A i \in 0 .. 0 : Round(f, i, n, activated, edges) = {n}
      BY DEF Round
    <2>3. Rounds(f, 0, n, activated, edges)
      BY <2>1, <2>2 DEF Rounds
    <2>4. QED
      BY <2>3
  <1>2. \A k \in G : k < c => k + 1 \in G
    BY OneMoreRound
  <1>3. G \in SUBSET (0 .. c)
    OBVIOUS
  <1> HIDE DEF G
  <1>4. c \in G
    BY <1>1, <1>2, <1>3, UpTo
  <1>5. QED
    BY <1>4 DEF G

(* When no proper part of the nodes is without an edge out, each round     *)
(* adds a node until there are no more.                                    *)
LEMMA AllAreReached ==
  ASSUME NEW B, IsFiniteSet(B), NEW edges, NEW n \in B,
         \A S \in SUBSET B : n \in S /\ S # B => \E m \in B \ S : m \in Near(S, B, edges)
  PROVE  Chain(n, B, edges) = B
  <1>1. PICK c : c = Cardinality(B)
    OBVIOUS
  <1>2. c \in Nat
    BY <1>1, FS_CardinalityType
  <1>3. PICK f : f = CHOOSE g : Rounds(g, c, n, B, edges)
    OBVIOUS
  <1>4. Rounds(f, c, n, B, edges)
    BY <1>2, <1>3, RoundsExist
  <1>5. Chain(n, B, edges) = f[c]
    BY <1>1, <1>3 DEF Chain, Rounds, Round, Near
  <1>6. \A i \in 0 .. c : f[i] = Round(f, i, n, B, edges)
    BY <1>4 DEF Rounds
  <1> DEFINE Good(i) == f[i] \subseteq B /\ n \in f[i] /\ (f[i] = B \/ Cardinality(f[i]) > i)
             G == {i \in 0 .. c : Good(i)}
  <1>7. 0 \in G
    <2>1. 0 \in 0 .. c
      BY <1>2
    <2>2. f[0] = Round(f, 0, n, B, edges)
      BY <1>6, <2>1
    <2>3. f[0] = {n}
      BY <2>2 DEF Round
    <2>4. Cardinality({n}) = 1
      BY FS_Singleton
    <2>5. Cardinality(f[0]) > 0
      BY <2>3, <2>4
    <2>6. QED
      BY <2>1, <2>3, <2>5
  <1>8. ASSUME NEW i \in G, i < c PROVE i + 1 \in G
    <2>1. PICK S : S = f[i]
      OBVIOUS
    <2>2. i \in Nat /\ i + 1 \in 0 .. c /\ i + 1 # 0 /\ (i + 1) - 1 = i
      BY <1>2, <1>8
    <2>3. f[i + 1] = S \cup Near(S, B, edges)
      BY <1>6, <2>1, <2>2 DEF Round
    <2>4. S \subseteq B /\ n \in S /\ (S = B \/ Cardinality(S) > i)
      BY <2>1
    <2>5. Near(S, B, edges) \subseteq B
      BY DEF Near
    <2>6. CASE S = B
      BY <2>2, <2>3, <2>4, <2>5, <2>6
    <2>7. CASE S # B
      <3>1. PICK m \in B \ S : m \in Near(S, B, edges)
        BY <2>4, <2>7
      <3>2. IsFiniteSet(S) /\ IsFiniteSet(f[i + 1]) /\ S \cup {m} \subseteq f[i + 1]
        <4>1. f[i + 1] \subseteq B
          BY <2>3, <2>4, <2>5
        <4>2. IsFiniteSet(S) /\ IsFiniteSet(f[i + 1])
          BY <2>4, <4>1, FS_Subset
        <4>3. QED
          BY <2>3, <3>1, <4>2
      <3>3. IsFiniteSet(S \cup {m}) /\ Cardinality(S \cup {m}) = Cardinality(S) + 1
        BY <3>1, <3>2, FS_AddElement
      <3>4. Cardinality(S \cup {m}) <= Cardinality(f[i + 1])
        BY <3>2, FS_Subset
      <3>5. Cardinality(S) \in Nat /\ Cardinality(f[i + 1]) \in Nat
        BY <3>2, FS_CardinalityType
      <3>6. Cardinality(f[i + 1]) > i + 1
        BY <2>2, <2>4, <2>7, <3>3, <3>4, <3>5
      <3>7. QED
        BY <2>2, <2>3, <2>4, <2>5, <3>6
    <2>8. QED
      BY <2>6, <2>7
  <1>9. G \in SUBSET (0 .. c)
    OBVIOUS
  <1> HIDE DEF G
  <1>10. c \in G
    BY <1>2, <1>7, <1>8, <1>9, UpTo
  <1>11. Good(c)
    BY <1>10 DEF G
  <1>12. Cardinality(f[c]) <= c
    BY <1>1, <1>11, FS_Subset
  <1>13. Cardinality(f[c]) \in Nat
    BY <1>11, FS_Subset, FS_CardinalityType
  <1>14. f[c] = B
    BY <1>2, <1>11, <1>12, <1>13
  <1>15. QED
    BY <1>5, <1>14

(* With all its edges in the graph a turn is one story.                    *)
TurnOf(B, k, nodes) ==
  /\ DOMAIN nodes = 1 .. k /\ Len(nodes) = k /\ \A i \in 1 .. k : nodes[i].at \in Nat
  /\ \A m, n \in B : m.id = n.id => m = n
  /\ \A i \in 1 .. k : \E n \in B : n.id = nodes[i].id
  /\ \A n \in B : \E i \in 1 .. k : n.id = nodes[i].id

LEMMA OneStory ==
  ASSUME NEW k \in Nat, NEW nodes, NEW B, IsFiniteSet(B), TurnOf(B, k, nodes), Listing(nodes),
         NEW n \in B
  PROVE  Chain(n, B, links) = B
  <1>1. ASSUME NEW S \in SUBSET B, n \in S, S # B PROVE \E m \in B \ S : m \in Near(S, B, links)
    <2>1. PICK out \in B : out \notin S
      BY <1>1
    <2>2. PICK ids : ids = {m.id : m \in S}
      OBVIOUS
    <2>3. PICK a \in 1 .. k : n.id = nodes[a].id
      BY DEF TurnOf
    <2>4. PICK b \in 1 .. k : out.id = nodes[b].id
      BY <2>1 DEF TurnOf
    <2>5. nodes[a].id \in ids /\ nodes[b].id \notin ids
      BY <1>1, <2>1, <2>2, <2>3, <2>4 DEF TurnOf
    <2>6. nodes # <<>>
      BY <2>3 DEF TurnOf
    <2>7. PICK i, j \in 1 .. k :
            /\ nodes[i].id \in ids /\ nodes[j].id \notin ids
            /\ \E e \in links : e.type = "follows" /\ Ends(e) = {nodes[i].id, nodes[j].id}
      <3>1. Crosses(ids, k, nodes)
        BY <2>5, <2>6, Crossing DEF TurnOf
      <3>2. QED
        BY <3>1 DEF Crosses
    <2>8. PICK e \in links : e.type = "follows" /\ Ends(e) = {nodes[i].id, nodes[j].id}
      BY <2>7
    <2>9. PICK l \in S : l.id = nodes[i].id
      BY <2>2, <2>7
    <2>10. PICK m \in B : m.id = nodes[j].id
      BY DEF TurnOf
    <2>11. m \notin S
      BY <2>2, <2>7, <2>10
    <2>12. Ends(e) = {m.id, l.id}
      BY <2>8, <2>9, <2>10
    <2>13. m \in Near(S, B, links)
      BY <2>8, <2>9, <2>10, <2>12 DEF Near
    <2>14. QED
      BY <2>10, <2>11, <2>13
  <1>2. QED
    BY <1>1, AllAreReached

-----------------------------------------------------------------------------
(* What is in the memory M and the links L of a task, for each node it     *)
(* keeps and each edge of its turn: those it has yet to write are at hand. *)
Stored(w, M) == \A i \in DOMAIN w.kept : \E n \in M : n.id = w.kept[i].id
Linked(w, L) ==
  \A i \in DOMAIN TurnEdges(w.kept) :
    \/ TurnEdges(w.kept)[i] \in L
    \/ w.at = "links" /\ \E j \in DOMAIN w.edges : w.edges[j] = TurnEdges(w.kept)[i]
Story(w, M, L) ==
  /\ w.at \in {"idle", "items", "compact"} => w.kept = <<>>
  /\ Stored(w, M)
  /\ w.at \in {"links", "summaryLinks", "done"} => Linked(w, L)

StoryInv == store = "memory" => \A t \in Turns : Story(task[t], memory, links)

(* A step of one task that takes no node and no edge away.                 *)
LEMMA StoryStep ==
  ASSUME StoryInv, TaskInv, store = "memory", NEW t \in Turns, NEW x, task' = [task EXCEPT ![t] = x],
         \A n \in memory : \E m \in memory' : m.id = n.id, links \subseteq links',
         Story(x, memory', links')
  PROVE  StoryInv'
  <1>1. /\ task'[t] = x /\ \A u \in Turns \ {t} : task'[u] = task[u]
    BY DEF TaskInv
  <1>2. ASSUME NEW w, Story(w, memory, links) PROVE Story(w, memory', links')
    <2>1. Stored(w, memory')
      <3>1. ASSUME NEW i \in DOMAIN w.kept PROVE \E m \in memory' : m.id = w.kept[i].id
        <4>1. PICK n \in memory : n.id = w.kept[i].id
          BY <1>2 DEF Story, Stored
        <4>2. PICK m \in memory' : m.id = n.id
          OBVIOUS
        <4>3. QED
          BY <4>1, <4>2
      <3>2. QED
        BY <3>1 DEF Stored
    <2>2. Linked(w, links) => Linked(w, links')
      BY DEF Linked
    <2>3. QED
      BY <1>2, <2>1, <2>2 DEF Story
  <1>3. ASSUME NEW u \in Turns PROVE Story(task'[u], memory', links')
    <2>1. CASE u = t
      BY <1>1, <2>1
    <2>2. CASE u # t
      <3>1. PICK w : w = task[u]
        OBVIOUS
      <3>2. Story(w, memory, links) /\ task'[u] = w
        BY <1>1, <2>2, <3>1 DEF StoryInv
      <3>3. QED
        BY <1>2, <3>2
    <2>3. QED
      BY <2>1, <2>2
  <1>4. QED
    BY <1>3 DEF StoryInv, Story, Stored, Linked

LEMMA NothingKept ==
  ASSUME NEW w, w.kept = <<>>, NEW M, NEW L
  PROVE  Story(w, M, L)
  <1>1. TurnEdges(<<>>) = <<>>
    <2>1. DOMAIN TurnEdges(<<>>) = 1 .. 0 /\ TurnEdges(<<>>) = [i \in 1 .. 0 |-> TurnEdges(<<>>)[i]]
      BY DEF TurnEdges
    <2>2. QED
      BY <2>1
  <1>2. DOMAIN TurnEdges(w.kept) = {} /\ DOMAIN w.kept = {}
    BY <1>1
  <1>3. QED
    BY <1>2 DEF Story, Stored, Linked

(* The fields of a task.                                                   *)
Whole(w) ==
  w \in [at : {w.at}, todo : {w.todo}, saved : {w.saved}, compact : {w.compact},
         candidates : {w.candidates}, match : {w.match}, kept : {w.kept}, edges : {w.edges},
         now : {w.now}]

LEMMA TasksAreWhole ==
  ASSUME NEW c, NEW w, w \in Task(w, c)
  PROVE  Whole(w)
  BY DEF Task, Whole

(* A task that has nothing left to write goes on.                          *)
LEMMA OnwardStory ==
  ASSUME NEW w, Whole(w), w.at \in {"read", "links", "summaryLinks"},
         NEW M, NEW L, Story(w, M, L)
  PROVE  Story(Onward(w), M, L)
  <1>1. PICK e : e = TurnEdges(w.kept)
    OBVIOUS
  <1>2. PICK x : x = IF w.at = "read" /\ w.candidates = <<>> THEN LinksAt(w, "links", e) ELSE w
    OBVIOUS
  <1>3. \/ Onward(w) = x
        \/ /\ Onward(w) = Ended(x, "done") /\ x.edges = <<>>
           /\ x.at \in {"links", "summaryLinks"}
    BY <1>1, <1>2 DEF Onward, LinksAt
  <1>4. Story(x, M, L) /\ x.kept = w.kept
    <2>1. CASE w.at = "read" /\ w.candidates = <<>>
      <3>1. x.at = "links" /\ x.edges = e /\ x.kept = w.kept
        BY <1>2, <2>1 DEF Whole, LinksAt
      <3>2. Linked(x, L)
        BY <1>1, <3>1 DEF Linked
      <3>3. QED
        BY <3>1, <3>2 DEF Story, Stored
    <2>2. CASE ~(w.at = "read" /\ w.candidates = <<>>)
      BY <1>2, <2>2
    <2>3. QED
      BY <2>1, <2>2
  <1>5. ASSUME NEW y, y = Ended(x, "done"), x.edges = <<>>, x.at \in {"links", "summaryLinks"}
        PROVE  Story(y, M, L)
    <2>1. y.at = "done" /\ y.kept = x.kept
      BY <1>5, EndedParts
    <2>2. DOMAIN x.edges = {}
      BY <1>5
    <2>3. Linked(y, L)
      <3>1. Linked(x, L)
        BY <1>4, <1>5 DEF Story
      <3>2. QED
        BY <2>1, <2>2, <3>1 DEF Linked
    <2>4. QED
      BY <1>4, <2>1, <2>3 DEF Story, Stored
  <1>6. QED
    BY <1>3, <1>4, <1>5

(* Without a fault: the in-memory store.                                   *)
LEMMA OnlyPostgresFails ==
  ASSUME store = "memory"
  PROVE  Outcomes = {FALSE}
  BY DEF Outcomes

(* Until the ingestion begins a turn keeps nothing.                        *)
LEMMA EarlyStory ==
  ASSUME MemoryInv, StoryInv, store = "memory", NEW t \in Turns,
         Extract(t) \/ SaveItem(t) \/ SetMood(t)
  PROVE  StoryInv'
  <1>1. PICK w : w = task[t]
    OBVIOUS
  <1>2. w \in Task(w, clock) /\ t \in DOMAIN task
    BY <1>1, TaskAt
  <1>3. w.at \in {"idle", "items"} /\ memory' = memory /\ links' = links
    BY <1>1 DEF Extract, SaveItem, SetMood
  <1>4. w.kept = <<>>
    BY <1>1, <1>3 DEF StoryInv, Story
  <1>5. \E x : task' = [task EXCEPT ![t] = x] /\ x.kept = w.kept
    <2>1. CASE Extract(t)
      <3>1. PICK reply \in Replies, new \in Compacts :
              \E todo : task' = [task EXCEPT ![t].at = "items", ![t].compact = new, ![t].todo = todo]
        BY <2>1 DEF Extract
      <3>2. PICK todo : task' = [task EXCEPT ![t].at = "items", ![t].compact = new, ![t].todo = todo]
        BY <3>1
      <3>3. PICK x : x = Takes(w, "items", new, todo)
        OBVIOUS
      <3>4. task' = [task EXCEPT ![t] = x] /\ x.kept = w.kept
        BY <1>1, <1>2, <3>2, <3>3 DEF Takes, Task
      <3>5. QED
        BY <3>4
    <2>2. CASE SaveItem(t)
      <3>1. \/ task' = [task EXCEPT ![t].at = "compact", ![t].todo = <<>>, ![t].saved = <<>>]
            \/ \E todo, saved : task' = [task EXCEPT ![t].todo = todo, ![t].saved = saved]
        BY <2>2 DEF SaveItem
      <3>2. CASE task' = [task EXCEPT ![t].at = "compact", ![t].todo = <<>>, ![t].saved = <<>>]
        <4>1. PICK x : x = Drops(w, "compact", <<>>, <<>>)
          OBVIOUS
        <4>2. task' = [task EXCEPT ![t] = x] /\ x.kept = w.kept
          BY <1>1, <1>2, <3>2, <4>1 DEF Drops, Task
        <4>3. QED
          BY <4>2
      <3>3. CASE \E todo, saved : task' = [task EXCEPT ![t].todo = todo, ![t].saved = saved]
        <4>1. PICK todo, saved : task' = [task EXCEPT ![t].todo = todo, ![t].saved = saved]
          BY <3>3
        <4>2. PICK x : x = Saves(w, todo, saved)
          OBVIOUS
        <4>3. task' = [task EXCEPT ![t] = x] /\ x.kept = w.kept
          BY <1>1, <1>2, <4>1, <4>2 DEF Saves, Task
        <4>4. QED
          BY <4>3
      <3>4. QED
        BY <3>1, <3>2, <3>3
    <2>3. CASE SetMood(t)
      <3>1. PICK x : x = Arrives(w, "compact")
        OBVIOUS
      <3>2. task' = [task EXCEPT ![t] = x] /\ x.kept = w.kept
        BY <1>1, <1>2, <2>3, <3>1 DEF Arrives, SetMood, Task
      <3>3. QED
        BY <3>2
    <2>4. QED
      BY <2>1, <2>2, <2>3
  <1>6. PICK x : task' = [task EXCEPT ![t] = x] /\ x.kept = <<>>
    BY <1>4, <1>5
  <1>7. Story(x, memory', links')
    BY <1>6, NothingKept
  <1>8. QED
    BY <1>3, <1>6, <1>7, StoryStep DEF MemoryInv

LEMMA SaveCompactStory ==
  ASSUME MemoryInv, StoryInv, store = "memory", NEW t \in Turns, SaveCompact(t)
  PROVE  StoryInv'
  <1>1. PICK w : w = task[t]
    OBVIOUS
  <1>2. w \in Task(w, clock) /\ t \in DOMAIN task
    BY <1>1, TaskAt
  <1>3. w.at = "compact" /\ memory' = memory /\ links' = links
    BY <1>1 DEF SaveCompact
  <1>4. w.kept = <<>>
    BY <1>1, <1>3 DEF StoryInv, Story
  <1>5. PICK facts : facts = IF w.compact = NoCompact THEN <<>> ELSE w.compact
    OBVIOUS
  <1>6. PICK cs : cs = [i \in DOMAIN w.saved |-> ItemNode(t, w.saved[i])]
                       \o [i \in DOMAIN facts |-> FactNode(t, i, facts[i], clock + 1)]
    OBVIOUS
  <1>7. PICK now : now = clock + 1
    OBVIOUS
  <1>8. PICK next : next = Begins(w, "read", now, <<>>, cs)
    OBVIOUS
  <1>9. PICK x : x = IF w.saved = <<>> /\ w.compact = NoCompact THEN Ended(w, "done")
                     ELSE Onward(next)
    OBVIOUS
  <1>10. task' = [task EXCEPT ![t] = x]
    <2>1. task' = [task EXCEPT ![t] = IF w.saved = <<>> /\ w.compact = NoCompact THEN Ended(w, "done")
                       ELSE Onward([w EXCEPT !.at = "read", !.now = clock + 1, !.saved = <<>>,
                                             !.candidates = cs])]
      BY <1>1, <1>2, <1>5, <1>6 DEF SaveCompact
    <2>2. QED
      BY <1>7, <1>8, <1>9, <2>1 DEF Begins
  <1>11. Whole(next) /\ next.at = "read" /\ next.kept = <<>>
    BY <1>2, <1>4, <1>8 DEF Begins, Task, Whole
  <1>12. Story(Onward(next), memory, links)
    BY <1>11, NothingKept, OnwardStory
  <1>13. Story(Ended(w, "done"), memory, links)
    BY <1>4, EndedParts, NothingKept
  <1>14. Story(x, memory', links')
    BY <1>3, <1>9, <1>12, <1>13
  <1>15. QED
    BY <1>3, <1>10, <1>14, StoryStep DEF MemoryInv

LEMMA ReadSimilarStory ==
  ASSUME MemoryInv, StoryInv, store = "memory", NEW t \in Turns, ReadSimilar(t)
  PROVE  StoryInv'
  <1>1. PICK w : w = task[t]
    OBVIOUS
  <1>2. w \in Task(w, clock) /\ t \in DOMAIN task
    BY <1>1, TaskAt
  <1>3. memory' = memory /\ links' = links
    BY DEF ReadSimilar
  <1>4. PICK match : task' = [task EXCEPT ![t].at = "write", ![t].match = match]
    BY DEF ReadSimilar
  <1>5. PICK x : x = Matches(w, "write", match)
    OBVIOUS
  <1>6. task' = [task EXCEPT ![t] = x] /\ x.at = "write" /\ x.kept = w.kept
    BY <1>1, <1>2, <1>4, <1>5 DEF Matches, Task
  <1>7. Story(x, memory', links')
    BY <1>1, <1>3, <1>6 DEF StoryInv, Story, Stored
  <1>8. QED
    BY <1>3, <1>6, <1>7, StoryStep DEF MemoryInv

(* A node that is put in place of that with its id.                        *)
LEMMA PutKeepsIds ==
  ASSUME NEW S, NEW n
  PROVE  n \in Put(S, n) /\ \A m \in S : \E k \in Put(S, n) : k.id = m.id
  BY DEF Put

LEMMA WriteBothStory ==
  ASSUME MemoryInv, StoryInv, store = "memory", NEW t \in Turns, NEW n, NEW next,
         WriteBoth(t, n, next), UNCHANGED links, Whole(next),
         next.at \in {"read", "links", "summaryLinks"}, Story(next, memory', links)
  PROVE  StoryInv'
  <1>1. PICK w, x : w = task[t] /\ x = Onward(next)
    OBVIOUS
  <1>2. memory' = Put(memory, n)
    BY DEF WriteBoth
  <1>3. task' = [task EXCEPT ![t] = x]
    BY <1>1, OnlyPostgresFails DEF WriteBoth
  <1>4. Story(x, memory', links')
    BY <1>1, OnwardStory
  <1>5. \A m \in memory : \E k \in memory' : k.id = m.id
    BY <1>2, PutKeepsIds
  <1>6. QED
    BY <1>3, <1>4, <1>5, StoryStep DEF MemoryInv

LEMMA WriteNodeStory ==
  ASSUME MemoryInv, StoryInv, store = "memory", NEW t \in Turns, WriteNode(t)
  PROVE  StoryInv'
  <1>1. PICK w : w = task[t]
    OBVIOUS
  <1>2. w \in Task(w, clock) /\ t \in DOMAIN task
    BY <1>1, TaskAt
  <1>3. PICK n : n = IF w.match = {} THEN Head(w.candidates)
                     ELSE Merge(CHOOSE m \in w.match : TRUE, Head(w.candidates))
    OBVIOUS
  <1>4. PICK kept, rest, none : kept = Append(w.kept, n) /\ rest = Tail(w.candidates) /\ none = {}
    OBVIOUS
  <1>5. PICK next : next = Writes(w, "read", none, kept, rest)
    OBVIOUS
  <1>6. WriteBoth(t, n, next) /\ UNCHANGED links /\ memory' = Put(memory, n)
    <2>1. [task[t] EXCEPT !.at = "read", !.match = {}, !.kept = kept, !.candidates = rest] = next
      BY <1>1, <1>4, <1>5 DEF Writes
    <2>2. WriteBoth(t, n, next) /\ UNCHANGED links
      BY <1>1, <1>3, <1>4, <2>1 DEF WriteNode
    <2>3. QED
      BY <2>2 DEF WriteBoth
  <1>7. Whole(next) /\ next.at = "read" /\ next.kept = kept
    BY <1>2, <1>5 DEF Writes, Task, Whole
  <1>8. Stored(next, memory')
    <2>1. PICK old : old = w.kept /\ old \in Seq(Node(clock))
      BY <1>2, TaskFields
    <2>2. /\ \A i \in DOMAIN kept : i \in DOMAIN old \/ kept[i] = n
          /\ \A i \in DOMAIN old : kept[i] = old[i]
      BY <1>4, <2>1
    <2>3. \A i \in DOMAIN old : \E m \in memory : m.id = old[i].id
      BY <1>1, <2>1 DEF StoryInv, Story, Stored
    <2>4. n \in memory' /\ \A m \in memory : \E k \in memory' : k.id = m.id
      BY <1>6, PutKeepsIds
    <2>5. ASSUME NEW i \in DOMAIN kept PROVE \E m \in memory' : m.id = kept[i].id
      <3>1. CASE kept[i] = n
        BY <2>4, <3>1
      <3>2. CASE i \in DOMAIN old
        <4>1. PICK m \in memory : m.id = old[i].id
          BY <2>3, <3>2
        <4>2. PICK k \in memory' : k.id = m.id
          BY <2>4
        <4>3. QED
          BY <2>2, <3>2, <4>1, <4>2
      <3>3. QED
        BY <2>2, <3>1, <3>2
    <2>6. QED
      BY <1>7, <2>5 DEF Stored
  <1>9. Story(next, memory', links)
    BY <1>7, <1>8 DEF Story
  <1>10. QED
    BY <1>6, <1>7, <1>9, WriteBothStory

LEMMA SummarizeStory ==
  ASSUME MemoryInv, StoryInv, store = "memory", NEW t \in Turns, Summarize(t)
  PROVE  StoryInv'
  <1>1. PICK w : w = task[t]
    OBVIOUS
  <1>2. w \in Task(w, clock) /\ t \in DOMAIN task
    BY <1>1, TaskAt
  <1>3. PICK n : n = SummaryNode(t, w.now)
    OBVIOUS
  <1>4. PICK edges : edges = SummaryEdges(SubSeq(w.kept, Len(w.kept) - Len(w.compact) + 1, Len(w.kept)))
    OBVIOUS
  <1>5. PICK next : next = LinksAt(w, "summaryLinks", edges)
    OBVIOUS
  <1>6. w.at = "links" /\ w.edges = <<>> /\ WriteBoth(t, n, next) /\ UNCHANGED links
    <2>1. [task[t] EXCEPT !.at = "summaryLinks", !.edges = edges] = next
      BY <1>1, <1>5 DEF LinksAt
    <2>2. QED
      BY <1>1, <1>3, <1>4, <2>1 DEF Summarize
  <1>7. Whole(next) /\ next.at = "summaryLinks" /\ next.kept = w.kept
    BY <1>2, <1>5 DEF LinksAt, Task, Whole
  <1>8. Story(w, memory, links)
    BY <1>1 DEF StoryInv
  <1>9. Stored(next, memory')
    <2>1. \A m \in memory : \E k \in memory' : k.id = m.id
      BY <1>6, PutKeepsIds DEF WriteBoth
    <2>2. ASSUME NEW i \in DOMAIN w.kept PROVE \E m \in memory' : m.id = w.kept[i].id
      <3>1. PICK m \in memory : m.id = w.kept[i].id
        BY <1>8 DEF Story, Stored
      <3>2. PICK k \in memory' : k.id = m.id
        BY <2>1
      <3>3. QED
        BY <3>1, <3>2
    <2>3. QED
      BY <1>7, <2>2 DEF Stored
  <1>10. Linked(next, links)
    <2>1. DOMAIN w.edges = {}
      BY <1>6
    <2>2. Linked(w, links)
      BY <1>6, <1>8 DEF Story
    <2>3. QED
      BY <1>7, <2>1, <2>2 DEF Linked
  <1>11. Story(next, memory', links)
    BY <1>7, <1>9, <1>10 DEF Story
  <1>12. QED
    BY <1>6, <1>7, <1>11, WriteBothStory

LEMMA LinkStory ==
  ASSUME MemoryInv, StoryInv, store = "memory", NEW t \in Turns, Link(t)
  PROVE  StoryInv'
  <1>1. PICK w : w = task[t]
    OBVIOUS
  <1>2. w \in Task(w, clock) /\ Ready(w) /\ t \in DOMAIN task
    BY <1>1, TaskAt
  <1>3. PICK edges, rest : edges = w.edges /\ rest = Tail(edges)
    OBVIOUS
  <1>4. PICK next, x : next = Links(w, rest) /\ x = Onward(next)
    OBVIOUS
  <1>5. /\ w.at \in {"links", "summaryLinks"} /\ edges # <<>>
        /\ links' = links \cup {Head(edges)} /\ memory' = memory
    BY <1>1, <1>3 DEF Link
  <1>6. task' = [task EXCEPT ![t] = x]
    <2>1. task' = [task EXCEPT ![t] = Onward([task[t] EXCEPT !.edges = Tail(task[t].edges)])]
      BY <1>2 DEF Link
    <2>2. [task[t] EXCEPT !.edges = Tail(task[t].edges)] = next
      BY <1>1, <1>3, <1>4 DEF Links
    <2>3. QED
      BY <1>4, <2>1, <2>2
  <1>7. Whole(next) /\ next.at = w.at /\ next.edges = rest /\ next.kept = w.kept
    BY <1>2, <1>4 DEF Links, Task, Whole
  <1>8. Story(w, memory, links)
    BY <1>1 DEF StoryInv
  <1>9. \A j \in DOMAIN edges : edges[j] = Head(edges) \/ \E k \in DOMAIN rest : rest[k] = edges[j]
    <2>1. PICK S : edges \in Seq(S)
      BY <1>2, <1>3 DEF Ready, Edges
    <2>2. /\ DOMAIN edges = 1 .. Len(edges) /\ DOMAIN rest = 1 .. (Len(edges) - 1) /\ Len(edges) \in Nat
          /\ Head(edges) = edges[1]
          /\ \A k \in 1 .. (Len(edges) - 1) : rest[k] = edges[k + 1]
      BY <1>3, <1>5, <2>1
    <2>3. ASSUME NEW j \in 1 .. Len(edges), j # 1
          PROVE  \E k \in 1 .. (Len(edges) - 1) : rest[k] = edges[j]
      <3>1. j - 1 \in 1 .. (Len(edges) - 1) /\ (j - 1) + 1 = j
        BY <2>2, <2>3
      <3>2. rest[j - 1] = edges[j]
        BY <2>2, <3>1
      <3>3. QED
        BY <3>1, <3>2
    <2>4. QED
      BY <2>2, <2>3
  <1>10. Linked(next, links')
    <2>1. Linked(w, links)
      BY <1>5, <1>8 DEF Story
    <2>2. ASSUME NEW i \in DOMAIN TurnEdges(w.kept)
          PROVE  \/ TurnEdges(w.kept)[i] \in links'
                 \/ w.at = "links" /\ \E k \in DOMAIN rest : rest[k] = TurnEdges(w.kept)[i]
      <3>1. PICK e : e = TurnEdges(w.kept)[i]
        OBVIOUS
      <3>2. e \in links \/ (w.at = "links" /\ \E j \in DOMAIN edges : edges[j] = e)
        BY <1>3, <2>1, <3>1 DEF Linked
      <3>3. QED
        BY <1>5, <1>9, <3>1, <3>2
    <2>3. QED
      BY <1>7, <2>2 DEF Linked
  <1>11. Story(next, memory', links')
    BY <1>5, <1>7, <1>8, <1>10 DEF Story, Stored
  <1>12. Story(x, memory', links')
    BY <1>4, <1>5, <1>7, <1>11, OnwardStory
  <1>13. QED
    BY <1>5, <1>6, <1>12, StoryStep DEF MemoryInv

LEMMA StoryNext == MemoryInv /\ StoryInv /\ [Next]_vars => StoryInv'
  <1> SUFFICES ASSUME MemoryInv, StoryInv, [Next]_vars, store' = "memory" PROVE StoryInv'
    BY DEF StoryInv
  <1>1. store = "memory"
    BY DEF Next, vars, Extract, SaveItem, SetMood, SaveCompact, ReadSimilar, WriteNode, Link, Summarize,
           Restart
  <1>2. ASSUME NEW t \in Turns, Extract(t) \/ SaveItem(t) \/ SetMood(t) PROVE StoryInv'
    BY <1>1, <1>2, EarlyStory
  <1>3. ASSUME NEW t \in Turns, SaveCompact(t) PROVE StoryInv'
    BY <1>1, <1>3, SaveCompactStory
  <1>4. ASSUME NEW t \in Turns, ReadSimilar(t) PROVE StoryInv'
    BY <1>1, <1>4, ReadSimilarStory
  <1>5. ASSUME NEW t \in Turns, WriteNode(t) PROVE StoryInv'
    BY <1>1, <1>5, WriteNodeStory
  <1>6. ASSUME NEW t \in Turns, Link(t) PROVE StoryInv'
    BY <1>1, <1>6, LinkStory
  <1>7. ASSUME NEW t \in Turns, Summarize(t) PROVE StoryInv'
    BY <1>1, <1>7, SummarizeStory
  <1>8. ~Restart
    BY <1>1 DEF Restart
  <1>9. CASE UNCHANGED vars
    BY <1>9 DEF vars, StoryInv, Story, Stored, Linked
  <1>10. QED
    BY <1>2, <1>3, <1>4, <1>5, <1>6, <1>7, <1>8, <1>9 DEF Next

LEMMA StoryInit == Init => StoryInv
  <1> SUFFICES ASSUME Init PROVE StoryInv
    OBVIOUS
  <1>1. NoTask.kept = <<>>
    BY DEF NoTask
  <1>2. \A t \in Turns : task[t] = NoTask
    BY DEF Init
  <1>3. Story(NoTask, memory, links)
    BY <1>1, NothingKept
  <1>4. QED
    BY <1>2, <1>3 DEF StoryInv

LEMMA StoryTold ==
  ASSUME MemoryInv, FiniteInv, StoryInv
  PROVE  TurnIsOneStory
  <1> DEFINE Those(t) == {n \in memory : \E i \in DOMAIN task[t].kept : task[t].kept[i].id = n.id}
  <1>1. ASSUME store = "memory", NEW t \in Turns, task[t].at = "done"
        PROVE  \A n \in Those(t) : Chain(n, Those(t), links) = Those(t)
    <2>1. PICK B : B = Those(t)
      OBVIOUS
    <2>2. PICK w, nodes : w = task[t] /\ nodes = w.kept
      OBVIOUS
    <2>3. Story(w, memory, links) /\ w.at = "done"
      BY <1>1, <2>2 DEF StoryInv
    <2>4. nodes \in Seq(Node(clock)) /\ clock \in Nat
      BY <2>2, TaskAt, TaskFields
    <2>5. PICK k \in Nat : k = Len(nodes) /\ DOMAIN nodes = 1 .. k
      BY <2>4
    <2>6. \A i \in 1 .. k : nodes[i].at \in Nat
      <3>1. \A i \in 1 .. k : nodes[i] \in Node(clock)
        BY <2>4, <2>5
      <3>2. QED
        BY <2>4, <3>1 DEF Node
    <2>7. Listing(nodes)
      BY <2>2, <2>3 DEF Story, Linked, Listing
    <2>8. IsFiniteSet(B)
      BY <2>1, FS_Subset DEF FiniteInv
    <2>9. \A m, l \in B : m.id = l.id => m = l
      BY <2>1 DEF MemoryInv, GraphInv, NodesOf
    <2>10. \A i \in 1 .. k : \E m \in B : m.id = nodes[i].id
      BY <2>1, <2>2, <2>3, <2>5 DEF Story, Stored
    <2>11. \A m \in B : \E i \in 1 .. k : m.id = nodes[i].id
      BY <2>1, <2>2, <2>5
    <2> HIDE DEF Those
    <2>12. TurnOf(B, k, nodes)
      BY <2>5, <2>6, <2>9, <2>10, <2>11 DEF TurnOf
    <2>13. \A n \in B : Chain(n, B, links) = B
      BY <2>7, <2>8, <2>12, OneStory
    <2>14. QED
      BY <2>1, <2>13
  <1>2. QED
    BY <1>1 DEF TurnIsOneStory

(* What a turn brought can be recalled as one story, for every number of   *)
(* turns, in whatever order their subtasks run and whatever is merged with *)
(* what: once the subtasks of a turn have ended, "follows" edges join its  *)
(* nodes (BuildTurnEdges, CreateMemoryEdge, BuildRecallChains).            *)
THEOREM TurnsAreStories == Spec => []TurnIsOneStory
  <1>1. MemoryInv /\ FiniteInv /\ StoryInv => TurnIsOneStory
    BY StoryTold
  <1>2. QED
    BY <1>1, MemoryInit, MemoryNext, FiniteInit, FiniteNext, StoryInit, StoryNext, PTL DEF Spec

=============================================================================
