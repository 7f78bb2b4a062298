-------------------------- MODULE ProvidersProofs --------------------------
(***************************************************************************)
(* Theorems about Providers, for every number of providers, users, admin   *)
(* requests at once and every set of uses.                                 *)
(***************************************************************************)
EXTENDS Providers, FiniteSetTheorems, TLAPS

-----------------------------------------------------------------------------
(* Types.  A row offers its own model or none; what a handler carries from *)
(* one statement to the next names a provider where it will write one.     *)

Row(p) == [active : BOOLEAN, priority : Nat \ {0}, born : Nat \ {0}, model : Models(p)]

RowsInv ==
  /\ DOMAIN rows \subseteq Ids
  /\ \A p \in DOMAIN rows : rows[p] \in Row(p)
  /\ \A p, q \in DOMAIN rows : p # q => rows[p].born # rows[q].born

(* A provider that a user is assigned to is there.                         *)
ConfigInv ==
  /\ default \in Pair /\ setting \in [Uses -> Pair] /\ custom \in BOOLEAN
  /\ assigned \in [Users -> Pair]
  /\ \A u \in Users : assigned[u].id \in DOMAIN rows \cup {None}

Steps == {"idle", "insert", "rewrite", "rewrite and sync", "delete", "reelect", "ensure",
          "exists", "elect", "sync", "assign", "configure"}

Task(who) == [at : Steps, id : Ids \cup {None}, model : Ids \cup {None}, active : BOOLEAN,
              user : {who}, priority : Nat]

Carries(t) ==
  /\ t.at \in {"insert", "rewrite", "rewrite and sync"} =>
       t.id \in Ids /\ t.model \in Models(t.id) /\ t.priority # 0
  /\ t.at \in {"sync", "assign"} => t.id \in Ids
  /\ t.at = "assign" => t.user \in Users
  /\ t.at = "configure" => t.user \in Uses

AdminInv ==
  /\ admin = [a \in Admins |-> admin[a]]
  /\ \A a \in Admins : admin[a] \in Task(admin[a].user) /\ Carries(admin[a])

FlagsInv == /\ ops \in 0 .. MaxOps
            /\ serial \in BOOLEAN /\ faulty \in BOOLEAN /\ booted \in BOOLEAN

TypeInv == RowsInv /\ ConfigInv /\ AdminInv /\ FlagsInv

-----------------------------------------------------------------------------
(* Ids are finite, so that lists of them have a first and a last.          *)

LEMMA IdFacts ==
  /\ Seed \in Ids /\ None \notin Ids /\ Ids \subseteq Nat \ {0} /\ IsFiniteSet(Ids)
  /\ NoPair \in Pair /\ NoPair.id = None /\ NoPair.model = None
  /\ \A id : None \in Models(id) /\ id \in Models(id)
  /\ \A id \in Ids \cup {None} : Models(id) \subseteq Ids \cup {None}
  <1> USE ProvidersAssumption DEF Ids, None, Seed
  <1>1. IsFiniteSet(1 .. NProviders)
    BY FS_Interval
  <1>2. NoPair \in Pair /\ NoPair.id = None /\ NoPair.model = None
    BY DEF NoPair, Pair
  <1>3. QED
    BY <1>1, <1>2 DEF Models

(* A strict order on a finite set leaves some element without a greater.   *)
LEMMA MaximalElement ==
  ASSUME NEW S, IsFiniteSet(S), S # {}, NEW R,
         \A x \in S : <<x, x>> \notin R,
         \A x, y, z \in S : <<x, y>> \in R /\ <<y, z>> \in R => <<x, z>> \in R
  PROVE  \E x \in S : \A y \in S : <<x, y>> \notin R
  <1> DEFINE Above(x) == {y \in S : <<x, y>> \in R}
             All == {Above(x) : x \in S}
  <1>1. All \subseteq FiniteSubsetsOf(S) /\ All # {}
    <2>1. FiniteSubsetsOf(S) = SUBSET S
      BY FS_FiniteSubsetsOfFinite
    <2>2. All \subseteq SUBSET S /\ All # {}
      <3>1. \A x \in S : Above(x) \subseteq S
        OBVIOUS
      <3> HIDE DEF Above
      <3>2. QED
        BY <3>1
    <2>3. QED
      BY <2>1, <2>2
  <1>2. IsWellFoundedOn(StrictSubsetOrdering(S), FiniteSubsetsOf(S))
    BY FS_StrictSubsetOrderingWellFounded
  <1>3. PICK T \in All : \A U \in All : <<U, T>> \notin StrictSubsetOrdering(S)
    <2> HIDE DEF All
    <2>1. QED
      BY <1>1, <1>2, WFMin
  <1>4. PICK x \in S : T = Above(x)
    BY <1>3
  <1>5. ASSUME NEW y \in S, <<x, y>> \in R PROVE FALSE
    <2>1. Above(y) \subseteq Above(x) /\ y \in Above(x) /\ y \notin Above(y)
      BY <1>5
    <2>2. Above(y) \in All /\ Above(y) \subseteq S /\ Above(x) \subseteq S
      <3>1. Above(y) \subseteq S /\ Above(x) \subseteq S
        OBVIOUS
      <3> HIDE DEF Above
      <3>2. Above(y) \in {Above(z) : z \in S}
        OBVIOUS
      <3>3. QED
        BY <3>1, <3>2
    <2>3. <<Above(y), Above(x)>> \in StrictSubsetOrdering(S)
      BY <2>1, <2>2 DEF StrictSubsetOrdering
    <2>4. QED
      BY <1>3, <1>4, <2>2, <2>3
  <1>6. QED
    BY <1>5

(* Of the numbers of some providers there is a greatest.                   *)
LEMMA GreatestNumber ==
  ASSUME NEW S \in SUBSET Ids, S # {}, NEW f, \A p \in S : f[p] \in Nat
  PROVE  \E p \in S : \A q \in S : f[q] <= f[p]
  <1> DEFINE R == {e \in S \X S : f[e[1]] < f[e[2]]}
  <1>1. IsFiniteSet(S)
    BY IdFacts, FS_Subset
  <1>2. \A x, y \in S : <<x, y>> \in R <=> f[x] < f[y]
    OBVIOUS
  <1> HIDE DEF R
  <1>3. \A x \in S : <<x, x>> \notin R
    BY <1>2
  <1>4. \A x, y, z \in S : <<x, y>> \in R /\ <<y, z>> \in R => <<x, z>> \in R
    BY <1>2
  <1>5. PICK p \in S : \A q \in S : <<p, q>> \notin R
    BY <1>1, <1>3, <1>4, MaximalElement
  <1>6. \A q \in S : ~(f[p] < f[q])
    BY <1>2, <1>5
  <1>7. \A q \in S : f[q] <= f[p]
    BY <1>6
  <1>8. QED
    BY <1>7

(* The admin's list has a first provider.                                  *)
LEMMA FirstIsListed == RowsInv /\ DOMAIN rows # {} => First(rows) \in DOMAIN rows
  <1> SUFFICES ASSUME RowsInv, DOMAIN rows # {} PROVE First(rows) \in DOMAIN rows
    OBVIOUS
  <1> DEFINE S == DOMAIN rows
             R == {e \in S \X S : ListedBefore(e[2], e[1], rows)}
  <1>1. IsFiniteSet(S)
    BY IdFacts, FS_Subset DEF RowsInv
  <1>2. \A x \in S : rows[x].priority \in Nat /\ rows[x].born \in Nat
    BY DEF RowsInv, Row
  <1>3. \A x, y \in S : x # y => rows[x].born # rows[y].born
    BY DEF RowsInv
  <1>4. \A x, y \in S : <<x, y>> \in R <=> ListedBefore(y, x, rows)
    OBVIOUS
  <1> HIDE DEF R, S
  <1>5. \A x \in S : <<x, x>> \notin R
    BY <1>2, <1>4 DEF ListedBefore
  <1>6. \A x, y, z \in S : <<x, y>> \in R /\ <<y, z>> \in R => <<x, z>> \in R
    BY <1>2, <1>4 DEF ListedBefore
  <1>7. PICK p \in S : \A q \in S : <<p, q>> \notin R
    BY <1>1, <1>5, <1>6, MaximalElement DEF S
  <1>8. \A q \in S : ~ListedBefore(q, p, rows)
    BY <1>4, <1>7
  <1>9. \A q \in S \ {p} : ListedBefore(p, q, rows)
    BY <1>2, <1>3, <1>8 DEF ListedBefore
  <1>10. QED
    BY <1>9 DEF First, S

(* So has every part of a list that the router reads.                      *)
LEMMA FirstOfPart ==
  ASSUME NEW list, DOMAIN list \subseteq Ids, \A p \in DOMAIN list : list[p] \in Row(p),
         NEW S \in SUBSET DOMAIN list, S # {}
  PROVE  FirstOf(S, list) \in S
  <1> DEFINE R == {e \in S \X S : SortedBefore(e[2], e[1], list)}
  <1>1. IsFiniteSet(S)
    BY IdFacts, FS_Subset
  <1>2. \A x \in S : list[x].priority \in Nat /\ x \in Nat
    BY IdFacts DEF Row
  <1>3. \A x, y \in S : <<x, y>> \in R <=> SortedBefore(y, x, list)
    OBVIOUS
  <1> HIDE DEF R
  <1>4. \A x \in S : <<x, x>> \notin R
    BY <1>2, <1>3 DEF SortedBefore
  <1>5. \A x, y, z \in S : <<x, y>> \in R /\ <<y, z>> \in R => <<x, z>> \in R
    BY <1>2, <1>3 DEF SortedBefore
  <1>6. PICK p \in S : \A q \in S : <<p, q>> \notin R
    BY <1>1, <1>4, <1>5, MaximalElement
  <1>7. \A q \in S : ~SortedBefore(q, p, list)
    BY <1>3, <1>6
  <1>8. \A q \in S \ {p} : SortedBefore(p, q, list)
    BY <1>2, <1>7 DEF SortedBefore
  <1>9. QED
    BY <1>8 DEF FirstOf

(* A new row is born after all others, and a priority that is read is at   *)
(* least one.                                                              *)
LEMMA BornLast ==
  ASSUME RowsInv
  PROVE  /\ Born \in Nat \ {0} /\ \A p \in DOMAIN rows : rows[p].born < Born
         /\ NextPriority \in Nat \ {0}
  <1> DEFINE S == DOMAIN rows
  <1>1. \A p \in S : rows[p].priority \in Nat /\ rows[p].born \in Nat
    BY DEF RowsInv, Row
  <1>2. CASE S = {}
    BY <1>2 DEF Born, NextPriority
  <1>3. CASE S # {}
    <2> DEFINE age == [p \in S |-> rows[p].born]
               rank == [p \in S |-> rows[p].priority]
    <2>1. \E p \in S : \A q \in S : age[q] <= age[p]
      <3>1. S \in SUBSET Ids /\ \A p \in S : age[p] \in Nat
        BY <1>1 DEF RowsInv
      <3> HIDE DEF age
      <3>2. QED
        BY <1>3, <3>1, GreatestNumber
    <2>2. \E p \in S : \A q \in S : rank[q] <= rank[p]
      <3>1. S \in SUBSET Ids /\ \A p \in S : rank[p] \in Nat
        BY <1>1 DEF RowsInv
      <3> HIDE DEF rank
      <3>2. QED
        BY <1>3, <3>1, GreatestNumber
    <2>3. PICK n \in {rows[p].born : p \in S} : \A q \in S : rows[q].born <= n /\ Born = 1 + n
      <3>1. \E n \in {rows[p].born : p \in S} : \A q \in S : rows[q].born <= n
        BY <2>1
      <3>2. QED
        BY <1>3, <3>1 DEF Born
    <2>4. PICK m \in {rows[p].priority : p \in S} : NextPriority = 1 + m
      <3>1. \E k \in {rows[p].priority : p \in S} : \A q \in S : rows[q].priority <= k
        BY <2>2
      <3>2. QED
        BY <1>3, <3>1 DEF NextPriority
    <2>5. QED
      BY <1>1, <1>3, <2>3, <2>4
  <1>4. QED
    BY <1>2, <1>3

-----------------------------------------------------------------------------
(* The types are inductive.  First the tasks of the handlers.              *)

LEMMA IdleTask == Idle \in Task(Idle.user) /\ Carries(Idle) /\ Idle.at = "idle"
  BY DEF Idle, Task, Steps, Carries, None

(* A new step of a handler.                                                *)
LEMMA GoesStep ==
  ASSUME AdminInv, NEW a \in Admins, NEW t, t \in Task(t.user), Carries(t), Goes(a, t)
  PROVE  /\ AdminInv'
         /\ admin'[a] = t /\ \A b \in Admins \ {a} : admin'[b] = admin[b]
  <1>1. admin' = [b \in Admins |-> IF b = a THEN t ELSE admin[b]]
    BY DEF AdminInv, Goes
  <1>2. admin'[a] = t /\ \A b \in Admins \ {a} : admin'[b] = admin[b]
    BY <1>1
  <1>3. admin' = [b \in Admins |-> admin'[b]]
    BY <1>1
  <1>4. \A b \in Admins : admin'[b] \in Task(admin'[b].user) /\ Carries(admin'[b])
    BY <1>2 DEF AdminInv
  <1>5. QED
    BY <1>2, <1>3, <1>4 DEF AdminInv

(* A request's first step.                                                 *)
Fields(at, id, model, active, user, priority) ==
  [at : {at}, id : {id}, model : {model}, active : {active}, user : {user}, priority : {priority}]

LEMMA IdleFields == Idle \in Fields("idle", None, None, FALSE, None, 0)
  BY DEF Idle, Fields

Begins(t, at, id, model, active, user, priority) ==
  /\ t \in Fields(at, id, model, active, user, priority)
  /\ at \in Steps /\ id \in Ids \cup {None} /\ model \in Models(id)
  /\ active \in BOOLEAN /\ priority \in Nat
  /\ at \in {"insert", "rewrite", "rewrite and sync"} => id \in Ids /\ priority # 0
  /\ at \in {"sync", "assign"} => id \in Ids
  /\ at = "assign" => user \in Users
  /\ at = "configure" => user \in Uses

LEMMA NewTask ==
  ASSUME NEW t, NEW at, NEW id, NEW model, NEW active, NEW user, NEW priority,
         Begins(t, at, id, model, active, user, priority)
  PROVE  /\ t \in Task(t.user) /\ Carries(t)
         /\ t.at = at /\ t.id = id /\ t.active = active
  <1>1. model \in Ids \cup {None}
    BY IdFacts DEF Begins
  <1>2. /\ t.at = at /\ t.id = id /\ t.model = model /\ t.active = active
        /\ t.user = user /\ t.priority = priority
    BY DEF Begins, Fields
  <1>3. t \in Task(user)
    BY <1>1 DEF Task, Fields, Begins
  <1>4. Carries(t)
    BY <1>2 DEF Carries, Begins
  <1>5. QED
    BY <1>2, <1>3, <1>4

(* The same handler at its next step.                                      *)
LEMMA NextTask ==
  ASSUME NEW t, t \in Task(t.user), Carries(t),
         NEW at \in {"ensure", "elect", "reelect", "sync"}, at = "sync" => t.id \in Ids
  PROVE  LET n == [t EXCEPT !.at = at]
         IN  /\ n \in Task(n.user) /\ Carries(n)
             /\ n.at = at /\ n.id = t.id /\ n.active = t.active /\ n.model = t.model
  <1> DEFINE I == Ids \cup {None}
             P == Nat
             U == {t.user}
             n == [t EXCEPT !.at = at]
  <1>1. t \in [at : Steps, id : I, model : I, active : BOOLEAN, user : U, priority : P]
    BY DEF Task
  <1>2. at \in Steps
    BY DEF Steps
  <1> HIDE DEF I, P, U
  <1>3. /\ n \in [at : Steps, id : I, model : I, active : BOOLEAN, user : U, priority : P]
        /\ n.at = at /\ n.id = t.id /\ n.active = t.active /\ n.model = t.model /\ n.user = t.user
    BY <1>1, <1>2
  <1> HIDE DEF n
  <1>4. n \in Task(n.user)
    BY <1>3 DEF Task, I, P, U
  <1>5. Carries(n)
    BY <1>3 DEF Carries
  <1>6. QED
    BY <1>3, <1>4, <1>5 DEF n

(* With another provider, the one whose row it looks up.                   *)
LookingFor(t, id) == [t EXCEPT !.at = "exists", !.id = id]

LEMMA LookTask ==
  ASSUME NEW t, t \in Task(t.user), NEW id \in Ids \cup {None},
         NEW n, n = LookingFor(t, id)
  PROVE  n \in Task(n.user) /\ Carries(n) /\ n.at = "exists" /\ n.id = id
  <1> DEFINE I == Ids \cup {None}
             P == Nat
             U == {t.user}
  <1>1. t \in [at : Steps, id : I, model : I, active : BOOLEAN, user : U, priority : P]
    BY DEF Task
  <1>2. "exists" \in Steps /\ id \in I
    BY DEF Steps
  <1> HIDE DEF I, P, U
  <1>3. /\ n \in [at : Steps, id : I, model : I, active : BOOLEAN, user : U, priority : P]
        /\ n.at = "exists" /\ n.id = id /\ n.user = t.user
    BY <1>1, <1>2 DEF LookingFor
  <1>4. n \in Task(n.user)
    BY <1>3 DEF Task, I, P, U
  <1>5. QED
    BY <1>3, <1>4 DEF Carries

(* And with the model of one that is elected.                              *)
Electing(t, id, model) == [t EXCEPT !.at = "sync", !.id = id, !.model = model]

LEMMA ElectTask ==
  ASSUME NEW t, t \in Task(t.user), NEW id \in Ids, NEW model \in Ids \cup {None},
         NEW n, n = Electing(t, id, model)
  PROVE  n \in Task(n.user) /\ Carries(n) /\ n.at = "sync" /\ n.id = id
  <1> DEFINE I == Ids \cup {None}
             P == Nat
             U == {t.user}
  <1>1. t \in [at : Steps, id : I, model : I, active : BOOLEAN, user : U, priority : P]
    BY DEF Task
  <1>2. "sync" \in Steps /\ id \in I /\ model \in I /\ id \in Ids
    BY DEF Steps
  <1> HIDE DEF I, P, U
  <1>3. /\ n \in [at : Steps, id : I, model : I, active : BOOLEAN, user : U, priority : P]
        /\ n.at = "sync" /\ n.id = id /\ n.user = t.user
    BY <1>1, <1>2 DEF Electing
  <1>4. n \in Task(n.user)
    BY <1>3 DEF Task, I, P, U
  <1>5. QED
    BY <1>2, <1>3, <1>4 DEF Carries

(* Then the rows, where they change.                                       *)

LEMMA RowAdded ==
  ASSUME RowsInv, ConfigInv, NEW id \in Ids, id \notin DOMAIN rows, NEW r \in Row(id), r.born = Born,
         DOMAIN rows' = DOMAIN rows \cup {id}, rows'[id] = r,
         \A p \in DOMAIN rows : rows'[p] = rows[p]
  PROVE  /\ RowsInv'
         /\ \A u \in Users : assigned[u].id \in DOMAIN rows' \cup {None}
  <1>1. \A p \in DOMAIN rows : rows[p].born # Born
    <2>1. \A p \in DOMAIN rows : rows[p].born < Born /\ rows[p].born \in Nat
      BY BornLast DEF RowsInv, Row
    <2>2. Born \in Nat
      BY BornLast
    <2>3. QED
      BY <2>1, <2>2
  <1>2. DOMAIN rows' \subseteq Ids
    BY DEF RowsInv
  <1>3. \A p \in DOMAIN rows' : rows'[p] \in Row(p)
    BY DEF RowsInv
  <1>4. \A p, q \in DOMAIN rows' : p # q => rows'[p].born # rows'[q].born
    <2>1. SUFFICES ASSUME NEW p \in DOMAIN rows', NEW q \in DOMAIN rows', p # q
                   PROVE  rows'[p].born # rows'[q].born
      OBVIOUS
    <2>2. CASE p = id
      BY <1>1, <2>1, <2>2
    <2>3. CASE q = id
      BY <1>1, <2>1, <2>3
    <2>4. CASE p # id /\ q # id
      BY <2>1, <2>4 DEF RowsInv
    <2>5. QED
      BY <2>2, <2>3, <2>4
  <1>5. QED
    BY <1>2, <1>3, <1>4 DEF RowsInv, ConfigInv

(* Rows that are rewritten keep their place and their birth.               *)
LEMMA RowsRewritten ==
  ASSUME RowsInv, DOMAIN rows' = DOMAIN rows,
         \A p \in DOMAIN rows : rows'[p] \in Row(p) /\ rows'[p].born = rows[p].born
  PROVE  RowsInv'
  BY DEF RowsInv

Activated(r, active) == [r EXCEPT !.active = active]
Rewritten(r, t) == [r EXCEPT !.active = t.active, !.model = t.model, !.priority = t.priority]

LEMMA RowActivated ==
  ASSUME NEW p, NEW r \in Row(p), NEW active \in BOOLEAN
  PROVE  /\ Activated(r, active) \in Row(p)
         /\ Activated(r, active).born = r.born /\ Activated(r, active).active = active
  <1> DEFINE P == Nat \ {0}
             M == Models(p)
  <1>1. r \in [active : BOOLEAN, priority : P, born : P, model : M]
    BY DEF Row
  <1> HIDE DEF P, M
  <1>2. /\ Activated(r, active) \in [active : BOOLEAN, priority : P, born : P, model : M]
        /\ Activated(r, active).born = r.born /\ Activated(r, active).active = active
    BY <1>1 DEF Activated
  <1>3. QED
    BY <1>2 DEF Row, P, M

LEMMA RowRewritten ==
  ASSUME NEW p, NEW r \in Row(p), NEW t,
         t.active \in BOOLEAN, t.model \in Models(p), t.priority \in Nat \ {0}
  PROVE  /\ Rewritten(r, t) \in Row(p)
         /\ Rewritten(r, t).born = r.born /\ Rewritten(r, t).active = t.active
  <1> DEFINE P == Nat \ {0}
             M == Models(p)
  <1>1. r \in [active : BOOLEAN, priority : P, born : P, model : M] /\ t.model \in M /\ t.priority \in P
    BY DEF Row
  <1> HIDE DEF P, M
  <1>2. /\ Rewritten(r, t) \in [active : BOOLEAN, priority : P, born : P, model : M]
        /\ Rewritten(r, t).born = r.born /\ Rewritten(r, t).active = t.active
    BY <1>1 DEF Rewritten
  <1>3. QED
    BY <1>2 DEF Row, P, M

(* What Rewrite makes of the rows.                                         *)
LEMMA RewriteRows ==
  ASSUME RowsInv, AdminInv, NEW a \in Admins, Rewrite(a)
  PROVE  /\ RowsInv' /\ DOMAIN rows' = DOMAIN rows
         /\ \A p \in DOMAIN rows \ {admin[a].id} : rows'[p] = rows[p]
         /\ admin[a].id \in DOMAIN rows => rows'[admin[a].id].active = admin[a].active
  <1> PICK t : t = admin[a]
    OBVIOUS
  <1>1. /\ t \in Task(t.user) /\ Carries(t) /\ t.at \in {"rewrite", "rewrite and sync"}
        /\ rows' = IF t.id \in DOMAIN rows
                   THEN [rows EXCEPT ![t.id].active = t.active, ![t.id].model = t.model,
                                     ![t.id].priority = t.priority]
                   ELSE rows
    BY DEF AdminInv, Rewrite
  <1>2. t.active \in BOOLEAN /\ t.model \in Models(t.id) /\ t.priority \in Nat \ {0}
    BY <1>1 DEF Task, Carries
  <1>3. CASE t.id \notin DOMAIN rows
    BY <1>1, <1>3 DEF RowsInv
  <1>4. CASE t.id \in DOMAIN rows
    <2> DEFINE n == Rewritten(rows[t.id], t)
    <2>1. rows' = [p \in DOMAIN rows |-> IF p = t.id THEN n ELSE rows[p]]
      BY <1>1, <1>4 DEF Rewritten
    <2>2. n \in Row(t.id) /\ n.born = rows[t.id].born /\ n.active = t.active
      <3>1. rows[t.id] \in Row(t.id)
        BY <1>4 DEF RowsInv
      <3>2. QED
        BY <1>2, <3>1, RowRewritten
    <2> HIDE DEF n
    <2>3. /\ DOMAIN rows' = DOMAIN rows /\ rows'[t.id] = n
          /\ \A p \in DOMAIN rows \ {t.id} : rows'[p] = rows[p]
      BY <1>4, <2>1
    <2>4. \A p \in DOMAIN rows : rows'[p] \in Row(p) /\ rows'[p].born = rows[p].born
      BY <2>2, <2>3 DEF RowsInv
    <2>5. QED
      BY <2>2, <2>3, <2>4, RowsRewritten
  <1>5. QED
    BY <1>3, <1>4

(* What Sync makes of them.                                                *)
LEMMA SyncRows ==
  ASSUME RowsInv, AdminInv, NEW a \in Admins, Sync(a)
  PROVE  /\ RowsInv' /\ DOMAIN rows' = DOMAIN rows
         /\ \A p \in DOMAIN rows : rows'[p].active = (p = admin[a].id)
         /\ default'.id = admin[a].id
  <1>1. /\ rows' = [p \in DOMAIN rows |-> Activated(rows[p], p = admin[a].id)]
        /\ default'.id = admin[a].id
    BY DEF Sync, Activated
  <1>2. \A p \in DOMAIN rows : rows'[p] \in Row(p) /\ rows'[p].born = rows[p].born
                               /\ rows'[p].active = (p = admin[a].id)
    <2>1. SUFFICES ASSUME NEW p \in DOMAIN rows
                   PROVE  rows'[p] \in Row(p) /\ rows'[p].born = rows[p].born
                          /\ rows'[p].active = (p = admin[a].id)
      OBVIOUS
    <2>2. rows[p] \in Row(p)
      BY DEF RowsInv
    <2>3. PICK b \in BOOLEAN : b = (p = admin[a].id)
      OBVIOUS
    <2>4. rows'[p] = Activated(rows[p], b)
      BY <1>1, <2>3
    <2>5. rows'[p] \in Row(p) /\ rows'[p].born = rows[p].born /\ rows'[p].active = b
      BY <2>2, <2>4, RowActivated
    <2>6. QED
      BY <2>3, <2>5, Zenon
  <1>3. QED
    BY <1>1, <1>2, RowsRewritten

-----------------------------------------------------------------------------
(* One default.  DefaultIsActive is about the moments when no request is   *)
(* under way.  While one is, alone, what holds depends on how far it got:  *)
(* a request that leaves the rows without their default goes on to give    *)
(* them one, and knows that the provider it will make active is there.     *)

HasDefault == DOMAIN rows # {} => default.id \in DOMAIN rows \/ (booted /\ Active # {})
OnlyDefault == ~booted => Active \subseteq {default.id}

Underway(t) ==
  /\ t.at \in {"insert", "assign", "configure"} => HasDefault /\ OnlyDefault
  /\ t.at \in {"rewrite", "delete"} => /\ HasDefault /\ OnlyDefault
                                       /\ t.id \in DOMAIN rows /\ t.active = rows[t.id].active
  /\ t.at \in {"rewrite and sync", "sync"} => t.id \in DOMAIN rows
  /\ t.at \in {"ensure", "exists", "elect", "reelect"} => OnlyDefault
  /\ t.at = "exists" => t.id = default.id
  /\ t.at = "reelect" => t.active \/ default.id = t.id \/ HasDefault

SerialInv ==
  /\ serial => \A a, b \in Admins : admin[a] # Idle /\ admin[b] # Idle => a = b
  /\ serial /\ ~faulty =>
       /\ Quiet => HasDefault /\ OnlyDefault
       /\ \A a \in Admins : admin[a] # Idle => Underway(admin[a])

AdminsInv == TypeInv /\ SerialInv

(* With rows and default as they were, so is what a request relies on.     *)
LEMMA SameDefault ==
  ASSUME UNCHANGED <<rows, default, booted>>
  PROVE  /\ HasDefault' <=> HasDefault
         /\ OnlyDefault' <=> OnlyDefault
         /\ \A t : Underway(t)' <=> Underway(t)
  <1>1. Active' = Active
    BY DEF Active
  <1>2. (HasDefault' <=> HasDefault) /\ (OnlyDefault' <=> OnlyDefault)
    BY <1>1 DEF HasDefault, OnlyDefault
  <1>3. QED
    BY <1>2 DEF Underway

(* A request that starts finds a default, if no other is under way.        *)
LEMMA StartStep ==
  ASSUME AdminsInv, NEW a \in Admins, NEW t, t \in Task(t.user), Carries(t), t.at # "idle",
         Starts(a), Goes(a, t), UNCHANGED config,
         HasDefault /\ OnlyDefault => Underway(t)
  PROVE  AdminsInv'
  <1>1. UNCHANGED <<rows, default, setting, custom, assigned, faulty, booted>>
    BY DEF Starts, config
  <1>2. RowsInv' /\ ConfigInv'
    BY <1>1 DEF AdminsInv, TypeInv, RowsInv, ConfigInv
  <1>3. AdminInv' /\ admin'[a] = t /\ \A b \in Admins \ {a} : admin'[b] = admin[b]
    BY GoesStep DEF AdminsInv, TypeInv
  <1>4. FlagsInv'
    BY <1>1, ProvidersAssumption DEF AdminsInv, TypeInv, FlagsInv, Starts
  <1>5. serial' => /\ serial
                   /\ \A b \in Admins : admin[b] = Idle
    BY DEF Starts
  <1>6. t # Idle
    BY IdleTask
  <1>7. serial' /\ ~faulty' => Underway(t)'
    <2>1. serial' /\ ~faulty' => HasDefault /\ OnlyDefault
      BY <1>1, <1>5 DEF AdminsInv, SerialInv, Quiet
    <2>2. Underway(t) => Underway(t)'
      BY <1>1, SameDefault
    <2>3. QED
      BY <2>1, <2>2
  <1>8. SerialInv'
    <2>1. serial' => \A b \in Admins : admin'[b] # Idle => b = a /\ admin'[b] = t
      BY <1>3, <1>5
    <2>2. ~Quiet'
      BY <1>3, <1>6 DEF Quiet
    <2>3. serial' /\ ~faulty' => \A b \in Admins : admin'[b] # Idle => Underway(admin[b])'
      BY <1>7, <2>1 DEF Underway
    <2>4. serial' => \A b, c \in Admins : admin'[b] # Idle /\ admin'[c] # Idle => b = c
      BY <2>1
    <2>5. QED
      BY <2>2, <2>3, <2>4 DEF SerialInv
  <1>9. QED
    BY <1>2, <1>3, <1>4, <1>8 DEF AdminsInv, TypeInv

(* A further step of a request leaves a default or what the next relies on.*)
LEMMA WorkStep ==
  ASSUME AdminsInv, NEW a \in Admins, admin[a] # Idle,
         NEW t, t \in Task(t.user), Carries(t), Goes(a, t), Continues,
         RowsInv', ConfigInv',
         Underway(admin[a]) => IF t = Idle THEN HasDefault' /\ OnlyDefault' ELSE Underway(t)'
  PROVE  AdminsInv'
  <1>1. UNCHANGED <<ops, faulty, booted, serial>>
    BY DEF Continues
  <1>2. AdminInv' /\ admin'[a] = t /\ \A b \in Admins \ {a} : admin'[b] = admin[b]
    BY GoesStep DEF AdminsInv, TypeInv
  <1>3. FlagsInv'
    BY <1>1 DEF AdminsInv, TypeInv, FlagsInv
  <1>4. serial => \A b \in Admins \ {a} : admin'[b] = Idle
    BY <1>2 DEF AdminsInv, SerialInv
  <1>5. serial /\ ~faulty => Underway(admin[a])
    BY DEF AdminsInv, SerialInv
  <1>6. serial' => \A b, c \in Admins : admin'[b] # Idle /\ admin'[c] # Idle => b = c
    BY <1>1, <1>4
  <1>7. serial' /\ ~faulty' /\ Quiet' => HasDefault' /\ OnlyDefault'
    BY <1>1, <1>2, <1>5 DEF Quiet
  <1>8. serial' /\ ~faulty' => \A b \in Admins : admin'[b] # Idle => Underway(admin[b])'
    <2>1. SUFFICES ASSUME serial, ~faulty, NEW b \in Admins, admin'[b] # Idle
                   PROVE  Underway(admin[b])'
      BY <1>1
    <2>2. b = a /\ admin'[b] = t
      BY <1>2, <1>4, <2>1
    <2>3. Underway(t)'
      BY <1>5, <2>1, <2>2
    <2>4. QED
      BY <2>2, <2>3 DEF Underway
  <1>9. QED
    BY <1>2, <1>3, <1>6, <1>7, <1>8 DEF AdminsInv, TypeInv, SerialInv

(* The requests start.                                                     *)

LEMMA CreateStep ==
  ASSUME AdminsInv, NEW a \in Admins, NEW id \in Ids, NEW model \in Models(id), NEW active \in BOOLEAN,
         NEW priority \in Nat, Create(a, id, model, active, priority)
  PROVE  AdminsInv'
  <1>1. PICK n : n = IF priority = 0 THEN NextPriority ELSE priority
    OBVIOUS
  <1>2. n \in Nat \ {0}
    BY <1>1, BornLast DEF AdminsInv, TypeInv
  <1>3. PICK t : t = [Idle EXCEPT !.at = "insert", !.id = id, !.model = model, !.active = active, !.priority = n]
    OBVIOUS
  <1>4. t \in Fields("insert", id, model, active, None, n)
    BY <1>3, IdleFields DEF Fields
  <1>5. Begins(t, "insert", id, model, active, None, n)
    BY <1>4, <1>2, IdFacts DEF Begins, Steps
  <1>6. t \in Task(t.user) /\ Carries(t) /\ t.at = "insert"
    BY <1>5, NewTask
  <1>7. Goes(a, t)
    BY <1>1, <1>3 DEF Create
  <1>8. Starts(a) /\ UNCHANGED config
    BY DEF Create
  <1>9. HasDefault /\ OnlyDefault => Underway(t)
    BY <1>6 DEF Underway
  <1>10. QED
    BY <1>6, <1>7, <1>8, <1>9, StartStep

LEMMA UpdateStep ==
  ASSUME AdminsInv, NEW a \in Admins, NEW id \in Ids, NEW model \in Models(id), NEW active \in BOOLEAN,
         NEW priority \in Nat, Update(a, id, model, active, priority)
  PROVE  AdminsInv'
  <1>1. PICK n : n = IF priority = 0 THEN rows[id].priority ELSE priority
    OBVIOUS
  <1>2. id \in DOMAIN rows /\ rows[id].priority \in Nat \ {0} /\ rows[id].active \in BOOLEAN
    BY DEF Update, AdminsInv, TypeInv, RowsInv, Row
  <1>3. n \in Nat \ {0}
    BY <1>1, <1>2
  <1>4. Starts(a) /\ UNCHANGED config
    BY DEF Update
  <1>5. CASE active
    <2>1. PICK t : t = [Idle EXCEPT !.at = "rewrite and sync", !.id = id, !.model = model,
                                    !.active = TRUE, !.priority = n]
      OBVIOUS
    <2>2. t \in Fields("rewrite and sync", id, model, TRUE, None, n)
      BY <2>1, IdleFields DEF Fields
    <2>3. Begins(t, "rewrite and sync", id, model, TRUE, None, n)
      BY <2>2, <1>3, IdFacts DEF Begins, Steps
    <2>4. t \in Task(t.user) /\ Carries(t) /\ t.at = "rewrite and sync" /\ t.id = id
      BY <2>3, NewTask
    <2>5. Goes(a, t)
      BY <1>1, <1>5, <2>1 DEF Update
    <2>6. HasDefault /\ OnlyDefault => Underway(t)
      BY <1>2, <2>4 DEF Underway
    <2>7. QED
      BY <1>4, <2>4, <2>5, <2>6, StartStep
  <1>6. CASE ~active
    <2>1. PICK b \in BOOLEAN : b = rows[id].active
      BY <1>2
    <2>2. PICK t : t = [Idle EXCEPT !.at = "rewrite", !.id = id, !.model = model,
                                    !.active = b, !.priority = n]
      OBVIOUS
    <2>3. t \in Fields("rewrite", id, model, b, None, n)
      BY <2>2, IdleFields DEF Fields
    <2>4. Begins(t, "rewrite", id, model, b, None, n)
      BY <2>3, <1>3, IdFacts DEF Begins, Steps
    <2>5. t \in Task(t.user) /\ Carries(t) /\ t.at = "rewrite" /\ t.id = id /\ t.active = b
      BY <2>4, NewTask
    <2>6. (active \/ rows[id].active) = b
      BY <1>6, <2>1
    <2>7. Goes(a, t)
      BY <1>1, <1>6, <2>2, <2>6 DEF Update
    <2>8. HasDefault /\ OnlyDefault => Underway(t)
      BY <1>2, <2>1, <2>5 DEF Underway
    <2>9. QED
      BY <1>4, <2>5, <2>7, <2>8, StartStep
  <1>7. QED
    BY <1>5, <1>6

LEMMA DeleteStep ==
  ASSUME AdminsInv, NEW a \in Admins, NEW id \in Ids, Delete(a, id)
  PROVE  AdminsInv'
  <1>1. id \in DOMAIN rows /\ rows[id].active \in BOOLEAN
    BY DEF Delete, AdminsInv, TypeInv, RowsInv, Row
  <1>2. PICK t : t = [Idle EXCEPT !.at = "delete", !.id = id, !.active = rows[id].active]
    OBVIOUS
  <1>3. t \in Fields("delete", id, None, rows[id].active, None, 0)
    BY <1>2, IdleFields DEF Fields
  <1>4. Begins(t, "delete", id, None, rows[id].active, None, 0)
    BY <1>3, <1>1, IdFacts DEF Begins, Steps
  <1>5. t \in Task(t.user) /\ Carries(t) /\ t.at = "delete" /\ t.id = id /\ t.active = rows[id].active
    BY <1>4, NewTask
  <1>6. Goes(a, t)
    BY <1>2 DEF Delete
  <1>7. Starts(a) /\ UNCHANGED config
    BY DEF Delete
  <1>8. HasDefault /\ OnlyDefault => Underway(t)
    BY <1>1, <1>5 DEF Underway
  <1>9. QED
    BY <1>5, <1>6, <1>7, <1>8, StartStep

LEMMA SwitchStep ==
  ASSUME AdminsInv, NEW a \in Admins, NEW id \in Ids, NEW model \in Models(id), Switch(a, id, model)
  PROVE  AdminsInv'
  <1>1. id \in DOMAIN rows /\ rows[id].model \in Models(id)
    BY DEF Switch, AdminsInv, TypeInv, RowsInv, Row
  <1>2. PICK m \in Models(id) : m = IF model = None THEN rows[id].model ELSE model
    BY <1>1
  <1>3. PICK t : t = [Idle EXCEPT !.at = "sync", !.id = id, !.model = m]
    OBVIOUS
  <1>4. t \in Fields("sync", id, m, FALSE, None, 0)
    BY <1>3, IdleFields DEF Fields
  <1>5. Begins(t, "sync", id, m, FALSE, None, 0)
    BY <1>4, IdFacts DEF Begins, Steps
  <1>6. t \in Task(t.user) /\ Carries(t) /\ t.at = "sync" /\ t.id = id
    BY <1>5, NewTask
  <1>7. Goes(a, t)
    BY <1>2, <1>3 DEF Switch
  <1>8. Starts(a) /\ UNCHANGED config
    BY DEF Switch
  <1>9. HasDefault /\ OnlyDefault => Underway(t)
    BY <1>1, <1>6 DEF Underway
  <1>10. QED
    BY <1>6, <1>7, <1>8, <1>9, StartStep

LEMMA ChooseStep ==
  ASSUME AdminsInv, NEW a \in Admins, NEW u \in Users, NEW id \in Ids, NEW model \in Models(id),
         Choose(a, u, id, model)
  PROVE  AdminsInv'
  <1>1. PICK t : t = [Idle EXCEPT !.at = "assign", !.id = id, !.model = model, !.user = u]
    OBVIOUS
  <1>2. t \in Fields("assign", id, model, FALSE, u, 0)
    BY <1>1, IdleFields DEF Fields
  <1>3. Begins(t, "assign", id, model, FALSE, u, 0)
    BY <1>2, IdFacts DEF Begins, Steps
  <1>4. t \in Task(t.user) /\ Carries(t) /\ t.at = "assign"
    BY <1>3, NewTask
  <1>5. Goes(a, t) /\ Starts(a) /\ UNCHANGED config
    BY <1>1 DEF Choose
  <1>6. HasDefault /\ OnlyDefault => Underway(t)
    BY <1>4 DEF Underway
  <1>7. QED
    BY <1>4, <1>5, <1>6, StartStep

LEMMA ChoiceStep ==
  ASSUME AdminsInv, NEW a \in Admins, NEW use \in Uses, NEW id \in Ids \cup {None},
         NEW model \in Models(id), NEW base \in BOOLEAN, Choice(a, use, id, model, base)
  PROVE  AdminsInv'
  <1>1. PICK t : t = [Idle EXCEPT !.at = "configure", !.id = id, !.model = model, !.user = use, !.active = base]
    OBVIOUS
  <1>2. t \in Fields("configure", id, model, base, use, 0)
    BY <1>1, IdleFields DEF Fields
  <1>3. Begins(t, "configure", id, model, base, use, 0)
    BY <1>2, IdFacts DEF Begins, Steps
  <1>4. t \in Task(t.user) /\ Carries(t) /\ t.at = "configure"
    BY <1>3, NewTask
  <1>5. Goes(a, t) /\ Starts(a) /\ UNCHANGED config
    BY <1>1 DEF Choice
  <1>6. HasDefault /\ OnlyDefault => Underway(t)
    BY <1>4 DEF Underway
  <1>7. QED
    BY <1>4, <1>5, <1>6, StartStep

(* A request of one statement.                                             *)
LEMMA UnassignStep ==
  ASSUME AdminsInv, NEW a \in Admins, NEW u \in Users, Unassign(a, u)
  PROVE  AdminsInv'
  <1>1. UNCHANGED <<rows, default, setting, custom, admin, faulty, booted>>
    BY DEF Unassign, Starts
  <1>2. RowsInv' /\ AdminInv'
    BY <1>1 DEF AdminsInv, TypeInv, RowsInv, AdminInv
  <1>3. ConfigInv'
    <2>1. assigned' = [assigned EXCEPT ![u] = NoPair]
      BY DEF Unassign
    <2>2. QED
      BY <1>1, <2>1, IdFacts DEF AdminsInv, TypeInv, ConfigInv
  <1>4. FlagsInv'
    BY <1>1, ProvidersAssumption DEF AdminsInv, TypeInv, FlagsInv, Unassign, Starts
  <1>5. serial' => serial
    BY DEF Unassign, Starts
  <1>6. (HasDefault => HasDefault') /\ (OnlyDefault => OnlyDefault') /\ \A t : Underway(t) => Underway(t)'
    BY <1>1, SameDefault
  <1>7. SerialInv'
    <2>1. \A b \in Admins : Underway(admin[b]) => Underway(admin[b])'
      BY <1>1, <1>6 DEF Underway
    <2>2. Quiet' <=> Quiet
      BY <1>1 DEF Quiet
    <2>3. QED
      BY <1>1, <1>5, <1>6, <2>1, <2>2 DEF AdminsInv, SerialInv
  <1>8. QED
    BY <1>2, <1>3, <1>4, <1>7 DEF AdminsInv, TypeInv

(* Their further statements.                                               *)

LEMMA InsertStep ==
  ASSUME AdminsInv, NEW a \in Admins, Insert(a)
  PROVE  AdminsInv'
  <1>1. PICK t : t = admin[a]
    OBVIOUS
  <1>2. /\ t \in Task(t.user) /\ Carries(t) /\ t.at = "insert" /\ t # Idle
        /\ UNCHANGED <<default, setting, custom, assigned, booted>> /\ Continues
    BY <1>1, IdleTask DEF AdminsInv, TypeInv, AdminInv, Insert, Continues
  <1>3. /\ t.id \in Ids /\ t.model \in Models(t.id) /\ t.priority \in Nat \ {0}
        /\ t.active \in BOOLEAN
    BY <1>2 DEF Carries, Task
  <1>4. Underway(t) => HasDefault /\ OnlyDefault
    BY <1>2 DEF Underway
  <1>5. CASE t.id \in DOMAIN rows
    <2>1. Goes(a, Idle) /\ UNCHANGED rows
      BY <1>1, <1>5 DEF Insert
    <2>2. RowsInv' /\ ConfigInv'
      BY <1>2, <2>1 DEF AdminsInv, TypeInv, RowsInv, ConfigInv
    <2>3. HasDefault /\ OnlyDefault => HasDefault' /\ OnlyDefault'
      BY <1>2, <2>1, SameDefault
    <2>4. QED
      BY <1>1, <1>2, <1>4, <2>1, <2>2, <2>3, IdleTask, WorkStep
  <1>6. CASE t.id \notin DOMAIN rows
    <2>1. PICK r : r = [active |-> t.active, priority |-> t.priority, born |-> Born, model |-> t.model]
      OBVIOUS
    <2>2. r \in Row(t.id) /\ r.born = Born /\ r.active = t.active
      BY <1>3, <2>1, BornLast DEF Row, AdminsInv, TypeInv
    <2>3. rows' = [p \in DOMAIN rows \cup {t.id} |-> IF p \in DOMAIN rows THEN rows[p] ELSE r]
      BY <1>1, <1>6, <2>1 DEF Insert
    <2>4. /\ DOMAIN rows' = DOMAIN rows \cup {t.id} /\ rows'[t.id] = r
          /\ \A p \in DOMAIN rows : rows'[p] = rows[p]
      BY <1>6, <2>3
    <2>5. RowsInv' /\ \A u \in Users : assigned[u].id \in DOMAIN rows' \cup {None}
      BY <1>3, <1>6, <2>2, <2>4, RowAdded DEF AdminsInv, TypeInv
    <2>6. ConfigInv'
      BY <1>2, <2>5 DEF AdminsInv, TypeInv, ConfigInv
    <2>7. CASE t.active
      <3>1. PICK n : n = [t EXCEPT !.at = "sync"]
        OBVIOUS
      <3>2. n \in Task(n.user) /\ Carries(n) /\ n.at = "sync" /\ n.id = t.id /\ n # Idle
        BY <1>2, <1>3, <3>1, NextTask, IdleTask
      <3>3. Goes(a, n)
        BY <1>1, <1>6, <2>7, <3>1 DEF Insert
      <3>4. Underway(n)'
        BY <2>4, <3>2 DEF Underway
      <3>5. QED
        BY <1>1, <1>2, <2>5, <2>6, <3>2, <3>3, <3>4, WorkStep
    <2>8. CASE ~t.active
      <3>1. PICK n : n = [t EXCEPT !.at = "ensure"]
        OBVIOUS
      <3>2. n \in Task(n.user) /\ Carries(n) /\ n.at = "ensure" /\ n # Idle
        BY <1>2, <1>3, <3>1, NextTask, IdleTask
      <3>3. Goes(a, n)
        BY <1>1, <1>6, <2>8, <3>1 DEF Insert
      <3>4. Active' = Active
        <4>1. ~rows'[t.id].active
          BY <2>2, <2>4, <2>8
        <4>2. QED
          BY <1>6, <2>4, <4>1 DEF Active
      <3>5. OnlyDefault => Underway(n)'
        BY <1>2, <3>2, <3>4 DEF Underway, OnlyDefault
      <3>6. QED
        BY <1>1, <1>2, <1>4, <2>5, <2>6, <3>2, <3>3, <3>5, WorkStep
    <2>9. QED
      BY <1>3, <2>7, <2>8
  <1>7. QED
    BY <1>5, <1>6

LEMMA RewriteStep ==
  ASSUME AdminsInv, NEW a \in Admins, Rewrite(a)
  PROVE  AdminsInv'
  <1>1. PICK t : t = admin[a]
    OBVIOUS
  <1>2. /\ t \in Task(t.user) /\ Carries(t) /\ t.at \in {"rewrite", "rewrite and sync"} /\ t # Idle
        /\ UNCHANGED <<default, setting, custom, assigned, booted>> /\ Continues
    BY <1>1, IdleTask DEF AdminsInv, TypeInv, AdminInv, Rewrite, Continues
  <1>3. /\ RowsInv' /\ DOMAIN rows' = DOMAIN rows
        /\ \A p \in DOMAIN rows \ {t.id} : rows'[p] = rows[p]
        /\ t.id \in DOMAIN rows => rows'[t.id].active = t.active
    BY <1>1, RewriteRows DEF AdminsInv, TypeInv
  <1>4. ConfigInv'
    BY <1>2, <1>3 DEF AdminsInv, TypeInv, ConfigInv
  <1>5. CASE t.at = "rewrite"
    <2>1. Goes(a, Idle)
      BY <1>1, <1>5 DEF Rewrite
    <2>2. Underway(t) => HasDefault' /\ OnlyDefault'
      <3>1. SUFFICES ASSUME Underway(t) PROVE HasDefault' /\ OnlyDefault'
        OBVIOUS
      <3>2. HasDefault /\ OnlyDefault /\ t.id \in DOMAIN rows /\ t.active = rows[t.id].active
        BY <1>5, <3>1 DEF Underway
      <3>3. rows'[t.id].active = rows[t.id].active
        BY <1>3, <3>2
      <3>4. Active' = Active
        BY <1>3, <3>3 DEF Active
      <3>5. QED
        BY <1>2, <1>3, <3>2, <3>4 DEF HasDefault, OnlyDefault
    <2>3. QED
      BY <1>1, <1>2, <1>3, <1>4, <2>1, <2>2, IdleTask, WorkStep
  <1>6. CASE t.at = "rewrite and sync"
    <2>1. PICK n : n = [t EXCEPT !.at = "sync"]
      OBVIOUS
    <2>2. n \in Task(n.user) /\ Carries(n) /\ n.at = "sync" /\ n.id = t.id /\ n # Idle
      <3>1. t.id \in Ids
        BY <1>2 DEF Carries
      <3>2. QED
        BY <1>2, <2>1, <3>1, NextTask, IdleTask
    <2>3. Goes(a, n)
      BY <1>1, <1>6, <2>1 DEF Rewrite
    <2>4. Underway(t) => Underway(n)'
      BY <1>3, <1>6, <2>2 DEF Underway
    <2>5. QED
      BY <1>1, <1>2, <1>3, <1>4, <2>2, <2>3, <2>4, WorkStep
  <1>7. QED
    BY <1>2, <1>5, <1>6

LEMMA DeleteRowStep ==
  ASSUME AdminsInv, NEW a \in Admins, DeleteRow(a)
  PROVE  AdminsInv'
  <1>1. PICK t : t = admin[a]
    OBVIOUS
  <1>2. /\ t \in Task(t.user) /\ Carries(t) /\ t.at = "delete" /\ t # Idle
        /\ UNCHANGED <<default, setting, custom, assigned, booted>> /\ Continues
    BY <1>1, IdleTask DEF AdminsInv, TypeInv, AdminInv, DeleteRow, Continues
  <1>3. CASE \E u \in DOMAIN assigned : assigned[u].id = t.id
    <2>1. Goes(a, Idle) /\ UNCHANGED rows
      BY <1>1, <1>3 DEF DeleteRow
    <2>2. RowsInv' /\ ConfigInv'
      BY <1>2, <2>1 DEF AdminsInv, TypeInv, RowsInv, ConfigInv
    <2>3. Underway(t) => HasDefault' /\ OnlyDefault'
      BY <1>2, <2>1, SameDefault DEF Underway
    <2>4. QED
      BY <1>1, <1>2, <2>1, <2>2, <2>3, IdleTask, WorkStep
  <1>4. CASE ~ \E u \in DOMAIN assigned : assigned[u].id = t.id
    <2>1. /\ DOMAIN rows' = DOMAIN rows \ {t.id}
          /\ \A p \in DOMAIN rows' : rows'[p] = rows[p]
      <3>1. rows' = [p \in DOMAIN rows \ {t.id} |-> rows[p]]
        BY <1>1, <1>4 DEF DeleteRow, Restrict
      <3>2. QED
        BY <3>1
    <2>2. RowsInv'
      BY <2>1 DEF AdminsInv, TypeInv, RowsInv
    <2>3. ConfigInv'
      <3>1. DOMAIN assigned = Users
        BY DEF AdminsInv, TypeInv, ConfigInv
      <3>2. \A u \in Users : assigned[u].id \in DOMAIN rows' \cup {None}
        BY <1>4, <2>1, <3>1 DEF AdminsInv, TypeInv, ConfigInv
      <3>3. QED
        BY <1>2, <3>2 DEF AdminsInv, TypeInv, ConfigInv
    <2>4. PICK n : n = [t EXCEPT !.at = "reelect"]
      OBVIOUS
    <2>5. /\ n \in Task(n.user) /\ Carries(n) /\ n.at = "reelect" /\ n # Idle
          /\ n.id = t.id /\ n.active = t.active
      BY <1>2, <2>4, NextTask, IdleTask
    <2>6. Goes(a, n)
      BY <1>1, <1>4, <2>4 DEF DeleteRow
    <2>7. Underway(t) => Underway(n)'
      <3>1. SUFFICES ASSUME Underway(t) PROVE Underway(n)'
        OBVIOUS
      <3>2. HasDefault /\ OnlyDefault /\ t.id \in DOMAIN rows /\ t.active = rows[t.id].active
        BY <1>2, <3>1 DEF Underway
      <3>3. Active' = Active \ {t.id}
        BY <2>1 DEF Active
      <3>4. OnlyDefault'
        BY <1>2, <3>2, <3>3 DEF OnlyDefault
      <3>5. t.active \/ t.id \notin Active
        BY <3>2 DEF Active
      <3>6. t.active \/ default.id = t.id \/ HasDefault'
        BY <1>2, <2>1, <3>2, <3>3, <3>5 DEF HasDefault
      <3>7. QED
        BY <1>2, <2>5, <3>4, <3>6 DEF Underway
    <2>8. QED
      BY <1>1, <1>2, <2>2, <2>3, <2>5, <2>6, <2>7, WorkStep
  <1>5. QED
    BY <1>3, <1>4

(* The steps that only read.                                               *)
LEMMA ReadingStep ==
  ASSUME AdminsInv, NEW a \in Admins, Reelect(a) \/ Ensure(a) \/ Exists(a) \/ Elect(a)
  PROVE  AdminsInv'
  <1>1. PICK t : t = admin[a]
    OBVIOUS
  <1>2. /\ t \in Task(t.user) /\ Carries(t) /\ t.at \in {"reelect", "ensure", "exists", "elect"} /\ t # Idle
        /\ UNCHANGED <<rows, default, setting, custom, assigned, booted>> /\ Continues
    BY <1>1, IdleTask DEF AdminsInv, TypeInv, AdminInv, Reelect, Ensure, Exists, Elect, Continues, config
  <1>3. RowsInv' /\ ConfigInv'
    BY <1>2 DEF AdminsInv, TypeInv, RowsInv, ConfigInv
  <1>4. /\ HasDefault' <=> HasDefault
        /\ OnlyDefault' <=> OnlyDefault
        /\ \A n : Underway(n)' <=> Underway(n)
    BY <1>2, SameDefault
  <1>5. ASSUME Goes(a, Idle), Underway(t) => HasDefault /\ OnlyDefault PROVE AdminsInv'
    BY <1>1, <1>2, <1>3, <1>4, <1>5, IdleTask, WorkStep
  <1>6. ASSUME NEW n, Goes(a, n), n \in Task(n.user), Carries(n), n.at # "idle", Underway(t) => Underway(n)
        PROVE  AdminsInv'
    <2>1. n # Idle
      BY <1>6, IdleTask
    <2>2. QED
      BY <1>1, <1>2, <1>3, <1>4, <1>6, <2>1, WorkStep
  <1>7. CASE Reelect(a)
    <2>1. t.at = "reelect"
      BY <1>1, <1>7 DEF Reelect
    <2>2. CASE t.active \/ default.id = t.id
      <3>1. PICK n : n = [t EXCEPT !.at = "ensure"]
        OBVIOUS
      <3>2. Goes(a, n)
        BY <1>1, <1>7, <2>2, <3>1 DEF Reelect
      <3>3. n \in Task(n.user) /\ Carries(n) /\ n.at = "ensure"
        BY <1>2, <3>1, NextTask
      <3>4. Underway(t) => Underway(n)
        BY <2>1, <3>3 DEF Underway
      <3>5. QED
        BY <1>6, <3>2, <3>3, <3>4
    <2>3. CASE ~(t.active \/ default.id = t.id)
      <3>1. Goes(a, Idle)
        BY <1>1, <1>7, <2>3 DEF Reelect
      <3>2. Underway(t) => HasDefault /\ OnlyDefault
        BY <2>1, <2>3 DEF Underway
      <3>3. QED
        BY <1>5, <3>1, <3>2
    <2>4. QED
      BY <2>2, <2>3
  <1>8. CASE Ensure(a)
    <2>1. PICK n : n = LookingFor(t, default.id)
      OBVIOUS
    <2>2. Goes(a, n) /\ t.at = "ensure"
      BY <1>1, <1>8, <2>1 DEF Ensure, LookingFor
    <2>3. default.id \in Ids \cup {None}
      BY DEF AdminsInv, TypeInv, ConfigInv, Pair
    <2>4. n \in Task(n.user) /\ Carries(n) /\ n.at = "exists" /\ n.id = default.id
      BY <1>2, <2>1, <2>3, LookTask
    <2>5. Underway(t) => Underway(n)
      BY <2>2, <2>4 DEF Underway
    <2>6. QED
      BY <1>6, <2>2, <2>4, <2>5
  <1>9. CASE Exists(a)
    <2>1. t.at = "exists"
      BY <1>1, <1>9 DEF Exists
    <2>2. CASE t.id \in DOMAIN rows
      <3>1. Goes(a, Idle)
        BY <1>1, <1>9, <2>2 DEF Exists
      <3>2. Underway(t) => HasDefault /\ OnlyDefault
        BY <2>1, <2>2 DEF Underway, HasDefault
      <3>3. QED
        BY <1>5, <3>1, <3>2
    <2>3. CASE t.id \notin DOMAIN rows
      <3>1. PICK n : n = [t EXCEPT !.at = "elect"]
        OBVIOUS
      <3>2. Goes(a, n)
        BY <1>1, <1>9, <2>3, <3>1 DEF Exists
      <3>3. n \in Task(n.user) /\ Carries(n) /\ n.at = "elect"
        BY <1>2, <3>1, NextTask
      <3>4. Underway(t) => Underway(n)
        BY <2>1, <3>3 DEF Underway
      <3>5. QED
        BY <1>6, <3>2, <3>3, <3>4
    <2>4. QED
      BY <2>2, <2>3
  <1>10. CASE Elect(a)
    <2>1. t.at = "elect"
      BY <1>1, <1>10 DEF Elect
    <2>2. CASE DOMAIN rows = {}
      <3>1. Goes(a, Idle)
        BY <1>1, <1>10, <2>2 DEF Elect
      <3>2. Underway(t) => HasDefault /\ OnlyDefault
        BY <2>1, <2>2 DEF Underway, HasDefault
      <3>3. QED
        BY <1>5, <3>1, <3>2
    <2>3. CASE DOMAIN rows # {}
      <3>1. PICK p \in DOMAIN rows : p = First(rows)
        BY <2>3, FirstIsListed DEF AdminsInv, TypeInv
      <3>2. PICK n : n = Electing(t, p, rows[p].model)
        OBVIOUS
      <3>3. Goes(a, n)
        BY <1>1, <1>10, <2>3, <3>1, <3>2 DEF Elect, Electing
      <3>4. p \in Ids /\ rows[p].model \in Ids \cup {None}
        BY IdFacts DEF AdminsInv, TypeInv, RowsInv, Row
      <3>5. n \in Task(n.user) /\ Carries(n) /\ n.at = "sync" /\ n.id = p
        BY <1>2, <3>2, <3>4, ElectTask
      <3>6. Underway(t) => Underway(n)
        BY <3>1, <3>5 DEF Underway
      <3>7. QED
        BY <1>6, <3>3, <3>5, <3>6
    <2>4. QED
      BY <2>2, <2>3
  <1>11. QED
    BY <1>7, <1>8, <1>9, <1>10

(* The steps that write the rows' flags, the users' settings and those of  *)
(* the uses.                                                               *)
LEMMA SyncStep ==
  ASSUME AdminsInv, NEW a \in Admins, Sync(a)
  PROVE  AdminsInv'
  <1>1. PICK t : t = admin[a]
    OBVIOUS
  <1>2. /\ t \in Task(t.user) /\ Carries(t) /\ t.at = "sync" /\ t # Idle
        /\ UNCHANGED <<setting, custom, assigned, booted>> /\ Continues /\ Goes(a, Idle)
    BY <1>1, IdleTask DEF AdminsInv, TypeInv, AdminInv, Sync, Continues
  <1>3. /\ RowsInv' /\ DOMAIN rows' = DOMAIN rows
        /\ \A p \in DOMAIN rows : rows'[p].active = (p = t.id)
        /\ default'.id = t.id
    BY <1>1, SyncRows DEF AdminsInv, TypeInv
  <1>4. ConfigInv'
    <2>1. t.id \in Ids /\ t.model \in Ids \cup {None}
      BY <1>2 DEF Carries, Task
    <2>2. default' = [id |-> t.id, model |-> IF t.model = None THEN default.model ELSE t.model]
      BY <1>1 DEF Sync
    <2>3. default' \in Pair
      BY <2>1, <2>2 DEF Pair, AdminsInv, TypeInv, ConfigInv
    <2>4. QED
      BY <1>2, <1>3, <2>3 DEF AdminsInv, TypeInv, ConfigInv
  <1>5. Underway(t) => HasDefault' /\ OnlyDefault'
    <2>1. SUFFICES ASSUME Underway(t) PROVE HasDefault' /\ OnlyDefault'
      OBVIOUS
    <2>2. t.id \in DOMAIN rows
      BY <1>2, <2>1 DEF Underway
    <2>3. Active' \subseteq {t.id}
      BY <1>3 DEF Active
    <2>4. QED
      BY <1>3, <2>2, <2>3 DEF HasDefault, OnlyDefault
  <1>6. QED
    BY <1>1, <1>2, <1>3, <1>4, <1>5, IdleTask, WorkStep

LEMMA AssignStep ==
  ASSUME AdminsInv, NEW a \in Admins, Assign(a)
  PROVE  AdminsInv'
  <1>1. PICK t : t = admin[a]
    OBVIOUS
  <1>2. /\ t \in Task(t.user) /\ Carries(t) /\ t.at = "assign" /\ t # Idle
        /\ UNCHANGED <<rows, default, setting, custom, booted>> /\ Continues /\ Goes(a, Idle)
    BY <1>1, IdleTask DEF AdminsInv, TypeInv, AdminInv, Assign, Continues
  <1>3. RowsInv'
    BY <1>2 DEF AdminsInv, TypeInv, RowsInv
  <1>4. ConfigInv'
    <2>1. t.user \in Users /\ [id |-> t.id, model |-> t.model] \in Pair
      BY <1>2 DEF Carries, Task, Pair
    <2>2. assigned' = IF t.id \in DOMAIN rows
                      THEN [assigned EXCEPT ![t.user] = [id |-> t.id, model |-> t.model]]
                      ELSE assigned
      BY <1>1 DEF Assign
    <2>3. assigned' \in [Users -> Pair] /\ \A u \in Users : assigned'[u].id \in DOMAIN rows \cup {None}
      BY <2>1, <2>2 DEF AdminsInv, TypeInv, ConfigInv
    <2>4. QED
      BY <1>2, <2>3 DEF AdminsInv, TypeInv, ConfigInv
  <1>5. Underway(t) => HasDefault' /\ OnlyDefault'
    BY <1>2, SameDefault DEF Underway
  <1>6. QED
    BY <1>1, <1>2, <1>3, <1>4, <1>5, IdleTask, WorkStep

LEMMA ConfigureStep ==
  ASSUME AdminsInv, NEW a \in Admins, Configure(a)
  PROVE  AdminsInv'
  <1>1. PICK t : t = admin[a]
    OBVIOUS
  <1>2. /\ t \in Task(t.user) /\ Carries(t) /\ t.at = "configure" /\ t # Idle
        /\ UNCHANGED <<rows, default, assigned, booted>> /\ Continues /\ Goes(a, Idle)
    BY <1>1, IdleTask DEF AdminsInv, TypeInv, AdminInv, Configure, Continues
  <1>3. RowsInv'
    BY <1>2 DEF AdminsInv, TypeInv, RowsInv
  <1>4. ConfigInv'
    <2>1. t.user \in Uses /\ [id |-> t.id, model |-> t.model] \in Pair /\ t.active \in BOOLEAN
      BY <1>2 DEF Carries, Task, Pair
    <2>2. /\ setting' = [setting EXCEPT ![t.user] = [id |-> t.id, model |-> t.model]]
          /\ custom' = IF t.user = "embedding" THEN t.active ELSE custom
      BY <1>1 DEF Configure
    <2>3. setting' \in [Uses -> Pair] /\ custom' \in BOOLEAN
      BY <2>1, <2>2 DEF AdminsInv, TypeInv, ConfigInv
    <2>4. QED
      BY <1>2, <2>3 DEF AdminsInv, TypeInv, ConfigInv
  <1>5. Underway(t) => HasDefault' /\ OnlyDefault'
    BY <1>2, SameDefault DEF Underway
  <1>6. QED
    BY <1>1, <1>2, <1>3, <1>4, <1>5, IdleTask, WorkStep

(* A failure ends what DefaultIsActive promises.                           *)
LEMMA FailStep ==
  ASSUME AdminsInv, NEW a \in Admins, Fail(a)
  PROVE  AdminsInv'
  <1>1. UNCHANGED <<rows, default, setting, custom, assigned, booted, serial>> /\ faulty' = TRUE /\ Goes(a, Idle)
    BY DEF Fail, config
  <1>2. RowsInv' /\ ConfigInv'
    BY <1>1 DEF AdminsInv, TypeInv, RowsInv, ConfigInv
  <1>3. AdminInv' /\ admin'[a] = Idle /\ \A b \in Admins \ {a} : admin'[b] = admin[b]
    BY <1>1, IdleTask, GoesStep DEF AdminsInv, TypeInv
  <1>4. FlagsInv'
    BY <1>1, ProvidersAssumption DEF AdminsInv, TypeInv, FlagsInv, Fail
  <1>5. SerialInv'
    BY <1>1, <1>3 DEF AdminsInv, SerialInv
  <1>6. QED
    BY <1>2, <1>3, <1>4, <1>5 DEF AdminsInv, TypeInv

(* The seed that comes back is active, whoever is at work.                 *)
LEMMA BootRows ==
  ASSUME AdminsInv, Boot
  PROVE  /\ DOMAIN rows' = DOMAIN rows \cup {Seed} /\ rows'[Seed].active
         /\ \A p \in DOMAIN rows : rows'[p] = rows[p]
         /\ RowsInv' /\ \A u \in Users : assigned[u].id \in DOMAIN rows' \cup {None}
  <1>1. PICK r : r = [active |-> TRUE, priority |-> 1, born |-> Born, model |-> Seed]
    OBVIOUS
  <1>2. r \in Row(Seed) /\ r.born = Born /\ r.active = TRUE
    BY <1>1, BornLast, IdFacts DEF Row, AdminsInv, TypeInv
  <1>3. rows' = [p \in DOMAIN rows \cup {Seed} |-> IF p = Seed THEN r ELSE rows[p]]
    BY <1>1 DEF Boot
  <1>4. Seed \notin DOMAIN rows
    BY DEF Boot
  <1>5. /\ DOMAIN rows' = DOMAIN rows \cup {Seed} /\ rows'[Seed] = r
        /\ \A p \in DOMAIN rows : rows'[p] = rows[p]
    BY <1>3, <1>4
  <1>6. RowsInv' /\ \A u \in Users : assigned[u].id \in DOMAIN rows' \cup {None}
    BY <1>2, <1>4, <1>5, IdFacts, RowAdded DEF AdminsInv, TypeInv
  <1>7. QED
    BY <1>2, <1>5, <1>6

LEMMA BootStep == AdminsInv /\ Boot => AdminsInv'
  <1> SUFFICES ASSUME AdminsInv, Boot PROVE AdminsInv'
    OBVIOUS
  <1>1. UNCHANGED <<default, setting, custom, assigned, admin, faulty, serial>> /\ booted' = TRUE
    BY DEF Boot
  <1>2. /\ DOMAIN rows' = DOMAIN rows \cup {Seed} /\ rows'[Seed].active
        /\ \A p \in DOMAIN rows : rows'[p] = rows[p]
        /\ RowsInv' /\ \A u \in Users : assigned[u].id \in DOMAIN rows' \cup {None}
    BY BootRows
  <1>3. ConfigInv' /\ AdminInv'
    BY <1>1, <1>2 DEF AdminsInv, TypeInv, ConfigInv, AdminInv
  <1>4. FlagsInv'
    BY <1>1, ProvidersAssumption DEF AdminsInv, TypeInv, FlagsInv, Boot
  <1>5. Seed \in Active'
    BY <1>2 DEF Active
  <1>6. HasDefault' /\ OnlyDefault'
    BY <1>1, <1>5 DEF HasDefault, OnlyDefault
  <1>7. \A b \in Admins : Underway(admin[b]) => Underway(admin[b])'
    BY <1>1, <1>2, <1>6 DEF Underway
  <1>8. SerialInv'
    BY <1>1, <1>6, <1>7 DEF AdminsInv, SerialInv
  <1>9. QED
    BY <1>2, <1>3, <1>4, <1>8 DEF AdminsInv, TypeInv

(* The router reads; all it moves is the bound on its failures.            *)
RouterStep ==
  \/ \E use \in {"chat"} \cup Uses, u \in Users : Resolve(use, u)
  \/ List \/ ReadMyId \/ ReadMyModel \/ ReadDefaultId \/ ReadDefaultModel
  \/ ChatRoute \/ UseRoute \/ EmbeddingRoute

LEMMA AnswerCount ==
  ASSUME FlagsInv, NEW value, NEW none, NEW answer \in Answers(value, none), NEW next, Read(answer, next)
  PROVE  ops' \in 0 .. MaxOps
  BY ProvidersAssumption DEF FlagsInv, Answers, Read

LEMMA SameAdmins ==
  ASSUME AdminsInv, UNCHANGED <<config, admin, faulty, booted, serial>>, ops' \in 0 .. MaxOps
  PROVE  AdminsInv'
  <1>1. UNCHANGED <<rows, default, setting, custom, assigned, admin, faulty, booted, serial>>
    BY DEF config
  <1>2. RowsInv' /\ ConfigInv' /\ AdminInv' /\ FlagsInv'
    BY <1>1 DEF AdminsInv, TypeInv, RowsInv, ConfigInv, AdminInv, FlagsInv
  <1>3. (HasDefault' <=> HasDefault) /\ (OnlyDefault' <=> OnlyDefault) /\ \A t : Underway(t)' <=> Underway(t)
    BY <1>1, SameDefault
  <1>4. \A b \in Admins : Underway(admin[b]) => Underway(admin[b])'
    BY <1>1, <1>3 DEF Underway
  <1>5. Quiet' <=> Quiet
    BY <1>1 DEF Quiet
  <1>6. SerialInv'
    BY <1>1, <1>3, <1>4, <1>5 DEF AdminsInv, SerialInv
  <1>7. QED
    BY <1>2, <1>6 DEF AdminsInv, TypeInv

LEMMA RouterKeepsAdmins == AdminsInv /\ RouterStep => AdminsInv'
  <1> SUFFICES ASSUME AdminsInv, RouterStep PROVE AdminsInv'
    OBVIOUS
  <1>1. UNCHANGED <<config, admin, faulty, booted, serial>>
    BY DEF RouterStep, Resolve, List, ReadMyId, ReadMyModel, ReadDefaultId, ReadDefaultModel,
           ChatRoute, UseRoute, EmbeddingRoute, Unread
  <1>2. ops' \in 0 .. MaxOps
    <2> USE DEF AdminsInv, TypeInv
    <2>1. ASSUME NEW use, NEW u, Resolve(use, u) PROVE ops' \in 0 .. MaxOps
      BY <2>1, ProvidersAssumption DEF Resolve, FlagsInv
    <2>2. CASE List \/ UseRoute \/ EmbeddingRoute
      BY <2>2 DEF List, UseRoute, EmbeddingRoute, FlagsInv
    <2>3. CASE ReadMyId
      BY <2>3, AnswerCount DEF ReadMyId
    <2>4. CASE ReadMyModel
      BY <2>4, AnswerCount DEF ReadMyModel
    <2>5. CASE ReadDefaultId
      BY <2>5, AnswerCount DEF ReadDefaultId
    <2>6. CASE ReadDefaultModel
      BY <2>6, AnswerCount DEF ReadDefaultModel
    <2>7. CASE ChatRoute
      BY <2>7, AnswerCount DEF ChatRoute
    <2>8. QED
      BY <2>1, <2>2, <2>3, <2>4, <2>5, <2>6, <2>7 DEF RouterStep
  <1>3. QED
    BY <1>1, <1>2, SameAdmins

(* The admin's part of the next-state relation.                            *)
AdminStep(a) ==
  \/ \E id \in Ids, active \in BOOLEAN : \E model \in Models(id) :
       \E priority \in 0 .. MaxPriority : \/ Create(a, id, model, active, priority)
                                         \/ Update(a, id, model, active, priority)
  \/ \E id \in Ids : Delete(a, id) \/ \E model \in Models(id) : Switch(a, id, model)
  \/ \E u \in Users : Unassign(a, u) \/ \E id \in Ids : \E model \in Models(id) : Choose(a, u, id, model)
  \/ \E use \in Uses, id \in Ids \cup {None}, base \in BOOLEAN : \E model \in Models(id) :
       Choice(a, use, id, model, base)
  \/ Insert(a) \/ Rewrite(a) \/ DeleteRow(a) \/ Reelect(a) \/ Ensure(a) \/ Exists(a) \/ Elect(a)
  \/ Sync(a) \/ Assign(a) \/ Configure(a) \/ Fail(a)

LEMMA NextSteps == Next => (\E a \in Admins : AdminStep(a)) \/ Boot \/ RouterStep
  BY DEF Next, AdminStep, RouterStep

LEMMA InitAdmins == Init => AdminsInv
  <1> SUFFICES ASSUME Init PROVE AdminsInv
    OBVIOUS
  <1> USE DEF Init
  <1>1. RowsInv
    BY IdFacts DEF RowsInv, Row, Models, Seed
  <1>2. [id |-> Seed, model |-> Seed] \in Pair
    BY IdFacts DEF Pair
  <1>3. ConfigInv
    BY <1>2, IdFacts DEF ConfigInv
  <1>4. AdminInv
    BY IdleTask DEF AdminInv
  <1>5. FlagsInv
    <2>1. ops = 0 /\ serial \in BOOLEAN /\ faulty \in BOOLEAN /\ booted \in BOOLEAN
      OBVIOUS
    <2> HIDE DEF Init
    <2>2. 0 \in 0 .. MaxOps
      BY ProvidersAssumption
    <2>3. QED
      BY <2>1, <2>2 DEF FlagsInv
  <1>6. HasDefault /\ OnlyDefault
    BY DEF HasDefault, OnlyDefault, Active
  <1>7. SerialInv
    BY <1>6 DEF SerialInv
  <1>8. QED
    BY <1>1, <1>3, <1>4, <1>5, <1>7 DEF AdminsInv, TypeInv

LEMMA NextAdmins == AdminsInv /\ [Next]_vars => AdminsInv'
  <1> SUFFICES ASSUME AdminsInv, [Next]_vars PROVE AdminsInv'
    OBVIOUS
  <1>1. CASE UNCHANGED vars
    BY <1>1, SameAdmins DEF vars, AdminsInv, TypeInv, FlagsInv
  <1>2. CASE Boot
    BY <1>2, BootStep
  <1>3. CASE RouterStep
    BY <1>3, RouterKeepsAdmins
  <1>4. ASSUME NEW a \in Admins, AdminStep(a) PROVE AdminsInv'
    <2>1. 0 .. MaxPriority \subseteq Nat
      BY ProvidersAssumption
    <2>2. QED
      BY <1>4, <2>1, CreateStep, UpdateStep, DeleteStep, SwitchStep, UnassignStep, ChooseStep, ChoiceStep,
         InsertStep, RewriteStep, DeleteRowStep, ReadingStep, SyncStep, AssignStep, ConfigureStep, FailStep
         DEF AdminStep
  <1>5. QED
    BY <1>1, <1>2, <1>3, <1>4, NextSteps

THEOREM AdminsInvariant == Spec => []AdminsInv
  BY InitAdmins, NextAdmins, PTL DEF Spec

(* There is a default while there is a provider and no other is active,    *)
(* between requests that come one by one and whose statements succeed.     *)
THEOREM OneDefaultIsActive == Spec => []DefaultIsActive
  <1>1. AdminsInv => DefaultIsActive
    BY DEF AdminsInv, SerialInv, DefaultIsActive, HasDefault, OnlyDefault
  <1>2. QED
    BY <1>1, AdminsInvariant, PTL

-----------------------------------------------------------------------------
(* The route.  While it is resolved, and neither a setting nor the set of  *)
(* providers has changed, what the router has read so far is what the      *)
(* tables hold, each part of the default being that of some moment of the  *)
(* resolution; and what the call wanted when it began is still what the    *)
(* settings ask for, with the default of one of those moments.             *)

Points == {"idle", "list", "my id", "my model", "default id", "default model", "user", "build", "done"}

Asked(r) ==
  [at : Points, use : {"chat"} \cup Uses, again : BOOLEAN, custom : BOOLEAN, user : {r.user},
   list : {r.list}, mine : Pair, default : Pair, result : Pair, calm : BOOLEAN, lapsed : BOOLEAN,
   wanted : {r.wanted}, defaults : SUBSET Pair]

Chat(r) == r.use = "chat" \/ r.again

(* Where a resolution can be, and what it has then.                        *)
Path(r) ==
  /\ r.at # "idle" => r.user \in Users
  /\ r.again => r.use # "chat" /\ r.use # "embedding"
  /\ r.at \in {"my id", "my model"} => ~Chat(r)
  /\ r.at = "default id" => Chat(r) \/ r.use = "embedding"
  /\ r.at = "user" => Chat(r)
  /\ r.at = "build" => ~Chat(r)
  /\ DOMAIN r.list \subseteq Ids
  /\ \A p \in DOMAIN r.list : r.list[p] \in Row(p)
  /\ r.at \notin {"idle", "list", "done"} => DOMAIN r.list # {}
  /\ r.at # "done" => r.result.id = None

(* Wanted, with the default of another moment.                             *)
WantedOf(use, u, d, S, set, asg) ==
  LET own == IF use = "chat" THEN NoPair ELSE set[use]
      model == FirstNonEmpty(own.model, d.model)
  IN  IF own.id \in S THEN [id |-> own.id, model |-> model, own |-> TRUE]
      ELSE IF use = "embedding" THEN [id |-> d.id, model |-> model, own |-> FALSE]
      ELSE IF asg[u].id # None
           THEN [id |-> asg[u].id, model |-> FirstNonEmpty(asg[u].model, d.model), own |-> TRUE]
           ELSE [id |-> d.id, model |-> d.model, own |-> FALSE]

HasMine(r) == r.use # "chat" /\ (r.again \/ r.at \in {"my model", "default id", "default model", "build"})
HasDefaultId(r) == r.at \in {"default model", "user", "build"} /\ (Chat(r) \/ r.use = "embedding")
HasDefaultModel(r) == r.at \in {"user", "build"}

Faithful(r, S, set, asg, def) ==
  /\ def \in r.defaults
  /\ \E d \in r.defaults : r.wanted = WantedOf(r.use, r.user, d, S, set, asg)
  /\ r.at # "list" => DOMAIN r.list = S
  /\ HasMine(r) => r.mine.id = set[r.use].id
  /\ HasMine(r) /\ r.at # "my model" => r.mine.model = set[r.use].model
  /\ r.again => r.mine.id \notin S
  /\ HasDefaultId(r) => \E d \in r.defaults : r.default.id = d.id
  /\ HasDefaultModel(r) => \E d \in r.defaults : r.default.model = d.model

Reading(r) == r.at # "idle" /\ r.at # "done"
Sound(r) == r.calm /\ ~r.lapsed

RouteInv ==
  /\ route \in Asked(route)
  /\ Path(route)
  /\ Reading(route) /\ Sound(route) => Faithful(route, DOMAIN rows, setting, assigned, default)
  /\ AssignedIsRouted

ProvidersInv == AdminsInv /\ RouteInv

(* Another resolution, or a further state of it, with the same fields but  *)
(* for what it lost.                                                       *)
SameRequest(n, r) == n.use = r.use /\ n.user = r.user /\ n.wanted = r.wanted
Alike(n, r) ==
  /\ SameRequest(n, r) /\ n.defaults = r.defaults /\ n.calm = r.calm
  /\ n.at = r.at /\ n.again = r.again /\ n.list = r.list
  /\ n.mine = r.mine /\ n.default = r.default /\ n.result = r.result

LEMMA AlikeIsFaithful ==
  ASSUME NEW n, NEW r, Alike(n, r)
  PROVE  /\ Path(r) => Path(n)
         /\ \A S, set, asg, def : Faithful(r, S, set, asg, def) => Faithful(n, S, set, asg, def)
  <1>1. Chat(n) <=> Chat(r)
    BY DEF Alike, SameRequest, Chat
  <1>2. Path(r) => Path(n)
    BY <1>1 DEF Alike, SameRequest, Path
  <1>3. /\ HasMine(n) <=> HasMine(r)
        /\ HasDefaultId(n) <=> HasDefaultId(r)
        /\ HasDefaultModel(n) <=> HasDefaultModel(r)
    BY <1>1 DEF Alike, SameRequest, HasMine, HasDefaultId, HasDefaultModel
  <1>4. \A S, set, asg, def : Faithful(r, S, set, asg, def) => Faithful(n, S, set, asg, def)
    <2>1. SUFFICES ASSUME NEW S, NEW set, NEW asg, NEW def, Faithful(r, S, set, asg, def)
                   PROVE  Faithful(n, S, set, asg, def)
      OBVIOUS
    <2>2. /\ n.use = r.use /\ n.user = r.user /\ n.wanted = r.wanted /\ n.defaults = r.defaults
          /\ n.at = r.at /\ n.again = r.again /\ n.list = r.list /\ n.mine = r.mine /\ n.default = r.default
      BY DEF Alike, SameRequest
    <2>3. def \in n.defaults /\ \E d \in n.defaults : n.wanted = WantedOf(n.use, n.user, d, S, set, asg)
      BY <2>1, <2>2 DEF Faithful
    <2>4. /\ n.at # "list" => DOMAIN n.list = S
          /\ HasMine(n) => n.mine.id = set[n.use].id
          /\ HasMine(n) /\ n.at # "my model" => n.mine.model = set[n.use].model
          /\ n.again => n.mine.id \notin S
      BY <1>3, <2>1, <2>2 DEF Faithful
    <2>5. /\ HasDefaultId(n) => \E d \in n.defaults : n.default.id = d.id
          /\ HasDefaultModel(n) => \E d \in n.defaults : n.default.model = d.model
      BY <1>3, <2>1, <2>2 DEF Faithful
    <2>6. QED
      BY <2>3, <2>4, <2>5 DEF Faithful
  <1>5. QED
    BY <1>2, <1>4

(* What the admin's steps do to it.                                        *)
LEMMA AdminWatched == (\E a \in Admins : AdminStep(a)) \/ Boot => Watched \/ UNCHANGED <<config, route>>
  <1>1. Boot => Watched
    BY DEF Boot
  <1>2. ASSUME NEW a, Insert(a) \/ Rewrite(a) \/ DeleteRow(a) \/ Sync(a) \/ Assign(a) \/ Configure(a)
        PROVE  Watched
    BY <1>2 DEF Insert, Rewrite, DeleteRow, Sync, Assign, Configure
  <1>3. ASSUME NEW a, NEW u, Unassign(a, u) PROVE Watched
    BY <1>3 DEF Unassign
  <1>4. ASSUME NEW a, Reelect(a) \/ Ensure(a) \/ Exists(a) \/ Elect(a) \/ Fail(a)
        PROVE  UNCHANGED <<config, route>>
    BY <1>4 DEF Reelect, Ensure, Exists, Elect, Fail
  <1>5. ASSUME NEW a, NEW id, NEW model, NEW active, NEW priority,
               Create(a, id, model, active, priority) \/ Update(a, id, model, active, priority)
        PROVE  UNCHANGED <<config, route>>
    BY <1>5 DEF Create, Update
  <1>6. ASSUME NEW a, NEW id, NEW model, NEW who, NEW base,
               Delete(a, id) \/ Switch(a, id, model) \/ Choose(a, who, id, model) \/ Choice(a, who, id, model, base)
        PROVE  UNCHANGED <<config, route>>
    BY <1>6 DEF Delete, Switch, Choose, Choice
  <1>7. QED
    BY <1>1, <1>2, <1>3, <1>4, <1>5, <1>6 DEF AdminStep

LEMMA SameRoute == RouteInv /\ UNCHANGED <<config, route>> => RouteInv'
  BY DEF RouteInv, AssignedIsRouted, config

Meanwhile(r, calm, d) == [r EXCEPT !.calm = calm, !.defaults = @ \cup {d}]

Later(n, r, calm, d) ==
  /\ SameRequest(n, r) /\ n.calm = calm /\ n.defaults = r.defaults \cup {d}
  /\ n.at = r.at /\ n.again = r.again /\ n.list = r.list /\ n.lapsed = r.lapsed
  /\ n.mine = r.mine /\ n.default = r.default /\ n.result = r.result

LEMMA WatchedFields ==
  ASSUME NEW r, r \in Asked(r), NEW calm \in BOOLEAN, NEW d \in Pair, NEW n, n = Meanwhile(r, calm, d)
  PROVE  n \in Asked(n) /\ Later(n, r, calm, d)
  <1> DEFINE W == {"chat"} \cup Uses
             U == {r.user}
             L == {r.list}
             V == {r.wanted}
             D == SUBSET Pair
  <1>1. r \in [at : Points, use : W, again : BOOLEAN, custom : BOOLEAN, user : U,
               list : L, mine : Pair, default : Pair, result : Pair, calm : BOOLEAN, lapsed : BOOLEAN,
               wanted : V, defaults : D]
    BY DEF Asked
  <1>2. PICK e \in D : e = r.defaults \cup {d}
    BY <1>1
  <1>3. n = [r EXCEPT !.calm = calm, !.defaults = e]
    BY <1>2 DEF Meanwhile
  <1> HIDE DEF W, U, L, V, D
  <1>4. n \in [at : Points, use : W, again : BOOLEAN, custom : BOOLEAN, user : U,
               list : L, mine : Pair, default : Pair, result : Pair, calm : BOOLEAN, lapsed : BOOLEAN,
               wanted : V, defaults : D]
    BY <1>1, <1>3
  <1>5. /\ n.use = r.use /\ n.user = r.user /\ n.wanted = r.wanted /\ n.calm = calm /\ n.defaults = e
        /\ n.at = r.at /\ n.again = r.again /\ n.list = r.list /\ n.lapsed = r.lapsed
        /\ n.mine = r.mine /\ n.default = r.default /\ n.result = r.result
    BY <1>1, <1>3
  <1>6. n \in Asked(n)
    BY <1>4, <1>5 DEF Asked, W, U, L, V, D
  <1>7. QED
    BY <1>2, <1>5, <1>6 DEF Later, SameRequest

LEMMA WatchedRoute ==
  ASSUME ProvidersInv, AdminsInv', Watched
  PROVE  RouteInv'
  <1>1. CASE route.at \in {"idle", "done"}
    <2>1. route' = route
      BY <1>1 DEF Watched
    <2>2. ~Reading(route)
      BY <1>1 DEF Reading
    <2>3. QED
      BY <2>1, <2>2 DEF ProvidersInv, RouteInv, AssignedIsRouted, Reading
  <1>2. CASE route.at \notin {"idle", "done"}
    <2> DEFINE same == <<DOMAIN rows', assigned', setting', custom'>> = <<DOMAIN rows, assigned, setting, custom>>
    <2>1. PICK c \in BOOLEAN : c = (route.calm /\ same)
      OBVIOUS
    <2>2. PICK r : r = route
      OBVIOUS
    <2>3. PICK n : n = route'
      OBVIOUS
    <2>4. PICK d : d = default'
      OBVIOUS
    <2>5. n = Meanwhile(r, c, d)
      BY <1>2, <2>1, <2>2, <2>3, <2>4 DEF Watched, Meanwhile
    <2>6. /\ n \in Asked(n) /\ SameRequest(n, r) /\ n.calm = c /\ n.defaults = r.defaults \cup {d}
          /\ n.at = r.at /\ n.again = r.again /\ n.list = r.list /\ n.lapsed = r.lapsed
          /\ n.mine = r.mine /\ n.default = r.default /\ n.result = r.result
      <3>1. r \in Asked(r) /\ d \in Pair
        BY <2>2, <2>4 DEF ProvidersInv, RouteInv, AdminsInv, TypeInv, ConfigInv
      <3>2. n \in Asked(n) /\ Later(n, r, c, d)
        BY <2>1, <2>5, <3>1, WatchedFields
      <3>3. QED
        BY <3>2 DEF Later
    <2>7. Path(n)
      <3>1. Path(r)
        BY <2>2 DEF ProvidersInv, RouteInv
      <3>2. Chat(n) <=> Chat(r)
        BY <2>6 DEF Chat, SameRequest
      <3>3. QED
        BY <2>6, <3>1, <3>2 DEF Path, SameRequest
    <2>8. Sound(n) => Faithful(n, DOMAIN rows', setting', assigned', default')
      <3>1. SUFFICES ASSUME Sound(n) PROVE Faithful(n, DOMAIN rows', setting', assigned', d)
        BY <2>4
      <3>2. c
        BY <2>6, <3>1 DEF Sound
      <3>3. r.calm /\ same
        BY <2>1, <2>2, <3>2
      <3>4. Sound(r) /\ Reading(r)
        BY <1>2, <2>2, <2>6, <3>1, <3>3 DEF Sound, Reading
      <3>5. Faithful(r, DOMAIN rows, setting, assigned, default)
        BY <2>2, <3>4 DEF ProvidersInv, RouteInv
      <3>6. PICK S, set, asg : S = DOMAIN rows /\ set = setting /\ asg = assigned
        OBVIOUS
      <3>7. S = DOMAIN rows' /\ set = setting' /\ asg = assigned'
        BY <3>3, <3>6
      <3>8. /\ HasMine(n) <=> HasMine(r)
            /\ HasDefaultId(n) <=> HasDefaultId(r)
            /\ HasDefaultModel(n) <=> HasDefaultModel(r)
        BY <2>6 DEF HasMine, HasDefaultId, HasDefaultModel, Chat, SameRequest
      <3>9. n.use = r.use /\ n.user = r.user /\ n.wanted = r.wanted
        BY <2>6 DEF SameRequest
      <3>10. d \in n.defaults /\ r.defaults \subseteq n.defaults
        BY <2>6
      <3>11. \E e \in n.defaults : n.wanted = WantedOf(n.use, n.user, e, S, set, asg)
        BY <3>5, <3>6, <3>9, <3>10 DEF Faithful
      <3>12. /\ n.at # "list" => DOMAIN n.list = S
             /\ HasMine(n) => n.mine.id = set[n.use].id
             /\ HasMine(n) /\ n.at # "my model" => n.mine.model = set[n.use].model
             /\ n.again => n.mine.id \notin S
        BY <2>6, <3>5, <3>6, <3>8, <3>9 DEF Faithful
      <3>13. /\ HasDefaultId(n) => \E e \in n.defaults : n.default.id = e.id
             /\ HasDefaultModel(n) => \E e \in n.defaults : n.default.model = e.model
        BY <2>6, <3>5, <3>8, <3>10 DEF Faithful
      <3>14. Faithful(n, S, set, asg, d)
        BY <3>10, <3>11, <3>12, <3>13 DEF Faithful
      <3>15. QED
        BY <3>7, <3>14
    <2>9. n.at # "done"
      BY <1>2, <2>2, <2>6
    <2>10. QED
      BY <2>3, <2>6, <2>7, <2>8, <2>9 DEF RouteInv, AssignedIsRouted
  <1>3. QED
    BY <1>1, <1>2

-----------------------------------------------------------------------------
(* The router's steps.  An answer that lapsed leaves nothing to promise.   *)

LEMMA AnswerRead ==
  ASSUME NEW value, NEW none, NEW answer \in Answers(value, none), NEW m, m \in Asked(m), Read(answer, m)
  PROVE  /\ route' \in Asked(route') /\ Alike(route', m)
         /\ ~route'.lapsed => ~m.lapsed /\ answer.value = value
  <1> DEFINE W == {"chat"} \cup Uses
             U == {m.user}
             L == {m.list}
             V == {m.wanted}
             D == SUBSET Pair
  <1>1. m \in [at : Points, use : W, again : BOOLEAN, custom : BOOLEAN, user : U,
               list : L, mine : Pair, default : Pair, result : Pair, calm : BOOLEAN, lapsed : BOOLEAN,
               wanted : V, defaults : D]
    BY DEF Asked
  <1>2. answer.lapsed \in BOOLEAN /\ (~answer.lapsed => answer.value = value)
    <2>1. \/ answer = [value |-> value, lapsed |-> FALSE]
          \/ answer = [value |-> none, lapsed |-> TRUE]
      BY DEF Answers
    <2>2. answer.lapsed \in BOOLEAN
      <3>1. CASE answer = [value |-> value, lapsed |-> FALSE]
        BY <3>1
      <3>2. CASE answer = [value |-> none, lapsed |-> TRUE]
        BY <3>2
      <3>3. QED
        BY <2>1, <3>1, <3>2
    <2>3. answer.lapsed = TRUE \/ answer.value = value
      <3>1. CASE answer = [value |-> value, lapsed |-> FALSE]
        BY <3>1
      <3>2. CASE answer = [value |-> none, lapsed |-> TRUE]
        BY <3>2
      <3>3. QED
        BY <2>1, <3>1, <3>2
    <2>4. QED
      BY <2>2, <2>3
  <1>3. PICK l \in BOOLEAN : l = (m.lapsed \/ answer.lapsed)
    OBVIOUS
  <1>4. PICK n : n = [m EXCEPT !.lapsed = l]
    OBVIOUS
  <1>5. route' = n
    BY <1>3, <1>4 DEF Read
  <1> HIDE DEF W, U, L, V, D
  <1>6. n \in [at : Points, use : W, again : BOOLEAN, custom : BOOLEAN, user : U,
               list : L, mine : Pair, default : Pair, result : Pair, calm : BOOLEAN, lapsed : BOOLEAN,
               wanted : V, defaults : D]
    BY <1>1, <1>4
  <1>7. Alike(n, m) /\ n.lapsed = l
    BY <1>1, <1>4 DEF Alike, SameRequest
  <1>8. n \in Asked(n)
    BY <1>6, <1>7 DEF Asked, Alike, SameRequest, W, U, L, V, D
  <1>9. ~l => ~m.lapsed /\ ~answer.lapsed
    BY <1>3
  <1>10. QED
    BY <1>2, <1>5, <1>7, <1>8, <1>9

(* A reading that goes on.                                                 *)
LEMMA ReadOn ==
  ASSUME UNCHANGED config, NEW n, route' = n, n \in Asked(n), Path(n), n.at # "done",
         Sound(n) => Faithful(n, DOMAIN rows, setting, assigned, default)
  PROVE  RouteInv'
  BY DEF RouteInv, AssignedIsRouted, config

LEMMA AnswerReadOn ==
  ASSUME UNCHANGED config, NEW value, NEW none, NEW answer \in Answers(value, none), NEW m, m \in Asked(m),
         Read(answer, m), Path(m), m.at # "done",
         Sound(m) /\ answer.value = value => Faithful(m, DOMAIN rows, setting, assigned, default)
  PROVE  RouteInv'
  <1>1. PICK n : n = route'
    OBVIOUS
  <1>2. n \in Asked(n) /\ Alike(n, m) /\ (~n.lapsed => ~m.lapsed /\ answer.value = value)
    BY <1>1, AnswerRead
  <1>3. Path(n) /\ n.at # "done"
    BY <1>2, AlikeIsFaithful DEF Alike
  <1>4. Sound(n) => Sound(m) /\ answer.value = value
    BY <1>2 DEF Sound, Alike
  <1>5. Sound(n) => Faithful(n, DOMAIN rows, setting, assigned, default)
    BY <1>2, <1>4, AlikeIsFaithful
  <1>6. QED
    BY <1>1, <1>2, <1>3, <1>5, ReadOn

(* What each step of the router changes.                                   *)
Moved(n, r, at, again, list, mine, def, result) ==
  /\ SameRequest(n, r) /\ n.defaults = r.defaults /\ n.calm = r.calm /\ n.lapsed = r.lapsed
  /\ n.at = at /\ n.again = again /\ n.list = list /\ n.mine = mine /\ n.default = def /\ n.result = result

Listing(r, l, at) == [r EXCEPT !.list = l, !.at = at]
Closing(r) == [r EXCEPT !.at = "done"]
GotMyId(r, q, b) == [r EXCEPT !.mine = q, !.at = "my model", !.custom = b]
GotMyModel(r, q, at) == [r EXCEPT !.mine = q, !.at = at]
GotDefault(r, q, at) == [r EXCEPT !.default = q, !.at = at]
Ending(r, q) == [r EXCEPT !.at = "done", !.result = q]
Restarting(r) == [r EXCEPT !.at = "list", !.again = TRUE]

LEMMA ListingFields ==
  ASSUME NEW r, r \in Asked(r), NEW l, NEW at \in Points, NEW n, n = Listing(r, l, at)
  PROVE  n \in Asked(n) /\ Moved(n, r, at, r.again, l, r.mine, r.default, r.result)
  <1> DEFINE W == {"chat"} \cup Uses
             U == {r.user}
             L == {r.list}
             K == {l}
             V == {r.wanted}
             D == SUBSET Pair
  <1>1. /\ r \in [at : Points, use : W, again : BOOLEAN, custom : BOOLEAN, user : U,
               list : L, mine : Pair, default : Pair, result : Pair, calm : BOOLEAN, lapsed : BOOLEAN,
               wanted : V, defaults : D]
        /\ {"done", "my model", "list"} \subseteq Points /\ l \in K
    BY DEF Asked, Points
  <1> HIDE DEF W, U, L, K, V, D
  <1>2. n \in [at : Points, use : W, again : BOOLEAN, custom : BOOLEAN, user : U,
               list : K, mine : Pair, default : Pair, result : Pair, calm : BOOLEAN, lapsed : BOOLEAN,
               wanted : V, defaults : D]
    BY <1>1 DEF Listing
  <1>3. Moved(n, r, at, r.again, l, r.mine, r.default, r.result)
    BY <1>1 DEF Listing, Moved, SameRequest
  <1>4. n \in Asked(n)
    BY <1>2, <1>3 DEF Asked, Moved, SameRequest, W, U, L, K, V, D
  <1>5. QED
    BY <1>3, <1>4

LEMMA ClosingFields ==
  ASSUME NEW r, r \in Asked(r), NEW n, n = Closing(r)
  PROVE  n \in Asked(n) /\ Moved(n, r, "done", r.again, r.list, r.mine, r.default, r.result)
  <1> DEFINE W == {"chat"} \cup Uses
             U == {r.user}
             L == {r.list}
             V == {r.wanted}
             D == SUBSET Pair
  <1>1. /\ r \in [at : Points, use : W, again : BOOLEAN, custom : BOOLEAN, user : U,
               list : L, mine : Pair, default : Pair, result : Pair, calm : BOOLEAN, lapsed : BOOLEAN,
               wanted : V, defaults : D]
        /\ {"done", "my model", "list"} \subseteq Points
    BY DEF Asked, Points
  <1> HIDE DEF W, U, L, V, D
  <1>2. n \in [at : Points, use : W, again : BOOLEAN, custom : BOOLEAN, user : U,
               list : L, mine : Pair, default : Pair, result : Pair, calm : BOOLEAN, lapsed : BOOLEAN,
               wanted : V, defaults : D]
    BY <1>1 DEF Closing
  <1>3. Moved(n, r, "done", r.again, r.list, r.mine, r.default, r.result)
    BY <1>1 DEF Closing, Moved, SameRequest
  <1>4. n \in Asked(n)
    BY <1>2, <1>3 DEF Asked, Moved, SameRequest, W, U, L, V, D
  <1>5. QED
    BY <1>3, <1>4

LEMMA GotMyIdFields ==
  ASSUME NEW r, r \in Asked(r), NEW q \in Pair, NEW b \in BOOLEAN, NEW n, n = GotMyId(r, q, b)
  PROVE  n \in Asked(n) /\ Moved(n, r, "my model", r.again, r.list, q, r.default, r.result)
  <1> DEFINE W == {"chat"} \cup Uses
             U == {r.user}
             L == {r.list}
             V == {r.wanted}
             D == SUBSET Pair
  <1>1. /\ r \in [at : Points, use : W, again : BOOLEAN, custom : BOOLEAN, user : U,
               list : L, mine : Pair, default : Pair, result : Pair, calm : BOOLEAN, lapsed : BOOLEAN,
               wanted : V, defaults : D]
        /\ {"done", "my model", "list"} \subseteq Points
    BY DEF Asked, Points
  <1> HIDE DEF W, U, L, V, D
  <1>2. n \in [at : Points, use : W, again : BOOLEAN, custom : BOOLEAN, user : U,
               list : L, mine : Pair, default : Pair, result : Pair, calm : BOOLEAN, lapsed : BOOLEAN,
               wanted : V, defaults : D]
    BY <1>1 DEF GotMyId
  <1>3. Moved(n, r, "my model", r.again, r.list, q, r.default, r.result)
    BY <1>1 DEF GotMyId, Moved, SameRequest
  <1>4. n \in Asked(n)
    BY <1>2, <1>3 DEF Asked, Moved, SameRequest, W, U, L, V, D
  <1>5. QED
    BY <1>3, <1>4

LEMMA GotMyModelFields ==
  ASSUME NEW r, r \in Asked(r), NEW q \in Pair, NEW at \in Points, NEW n, n = GotMyModel(r, q, at)
  PROVE  n \in Asked(n) /\ Moved(n, r, at, r.again, r.list, q, r.default, r.result)
  <1> DEFINE W == {"chat"} \cup Uses
             U == {r.user}
             L == {r.list}
             V == {r.wanted}
             D == SUBSET Pair
  <1>1. /\ r \in [at : Points, use : W, again : BOOLEAN, custom : BOOLEAN, user : U,
               list : L, mine : Pair, default : Pair, result : Pair, calm : BOOLEAN, lapsed : BOOLEAN,
               wanted : V, defaults : D]
        /\ {"done", "my model", "list"} \subseteq Points
    BY DEF Asked, Points
  <1> HIDE DEF W, U, L, V, D
  <1>2. n \in [at : Points, use : W, again : BOOLEAN, custom : BOOLEAN, user : U,
               list : L, mine : Pair, default : Pair, result : Pair, calm : BOOLEAN, lapsed : BOOLEAN,
               wanted : V, defaults : D]
    BY <1>1 DEF GotMyModel
  <1>3. Moved(n, r, at, r.again, r.list, q, r.default, r.result)
    BY <1>1 DEF GotMyModel, Moved, SameRequest
  <1>4. n \in Asked(n)
    BY <1>2, <1>3 DEF Asked, Moved, SameRequest, W, U, L, V, D
  <1>5. QED
    BY <1>3, <1>4

LEMMA GotDefaultFields ==
  ASSUME NEW r, r \in Asked(r), NEW q \in Pair, NEW at \in Points, NEW n, n = GotDefault(r, q, at)
  PROVE  n \in Asked(n) /\ Moved(n, r, at, r.again, r.list, r.mine, q, r.result)
  <1> DEFINE W == {"chat"} \cup Uses
             U == {r.user}
             L == {r.list}
             V == {r.wanted}
             D == SUBSET Pair
  <1>1. /\ r \in [at : Points, use : W, again : BOOLEAN, custom : BOOLEAN, user : U,
               list : L, mine : Pair, default : Pair, result : Pair, calm : BOOLEAN, lapsed : BOOLEAN,
               wanted : V, defaults : D]
        /\ {"done", "my model", "list"} \subseteq Points
    BY DEF Asked, Points
  <1> HIDE DEF W, U, L, V, D
  <1>2. n \in [at : Points, use : W, again : BOOLEAN, custom : BOOLEAN, user : U,
               list : L, mine : Pair, default : Pair, result : Pair, calm : BOOLEAN, lapsed : BOOLEAN,
               wanted : V, defaults : D]
    BY <1>1 DEF GotDefault
  <1>3. Moved(n, r, at, r.again, r.list, r.mine, q, r.result)
    BY <1>1 DEF GotDefault, Moved, SameRequest
  <1>4. n \in Asked(n)
    BY <1>2, <1>3 DEF Asked, Moved, SameRequest, W, U, L, V, D
  <1>5. QED
    BY <1>3, <1>4

LEMMA EndingFields ==
  ASSUME NEW r, r \in Asked(r), NEW q \in Pair, NEW n, n = Ending(r, q)
  PROVE  n \in Asked(n) /\ Moved(n, r, "done", r.again, r.list, r.mine, r.default, q)
  <1> DEFINE W == {"chat"} \cup Uses
             U == {r.user}
             L == {r.list}
             V == {r.wanted}
             D == SUBSET Pair
  <1>1. /\ r \in [at : Points, use : W, again : BOOLEAN, custom : BOOLEAN, user : U,
               list : L, mine : Pair, default : Pair, result : Pair, calm : BOOLEAN, lapsed : BOOLEAN,
               wanted : V, defaults : D]
        /\ {"done", "my model", "list"} \subseteq Points
    BY DEF Asked, Points
  <1> HIDE DEF W, U, L, V, D
  <1>2. n \in [at : Points, use : W, again : BOOLEAN, custom : BOOLEAN, user : U,
               list : L, mine : Pair, default : Pair, result : Pair, calm : BOOLEAN, lapsed : BOOLEAN,
               wanted : V, defaults : D]
    BY <1>1 DEF Ending
  <1>3. Moved(n, r, "done", r.again, r.list, r.mine, r.default, q)
    BY <1>1 DEF Ending, Moved, SameRequest
  <1>4. n \in Asked(n)
    BY <1>2, <1>3 DEF Asked, Moved, SameRequest, W, U, L, V, D
  <1>5. QED
    BY <1>3, <1>4

LEMMA RestartingFields ==
  ASSUME NEW r, r \in Asked(r), NEW n, n = Restarting(r)
  PROVE  n \in Asked(n) /\ Moved(n, r, "list", TRUE, r.list, r.mine, r.default, r.result)
  <1> DEFINE W == {"chat"} \cup Uses
             U == {r.user}
             L == {r.list}
             V == {r.wanted}
             D == SUBSET Pair
  <1>1. /\ r \in [at : Points, use : W, again : BOOLEAN, custom : BOOLEAN, user : U,
               list : L, mine : Pair, default : Pair, result : Pair, calm : BOOLEAN, lapsed : BOOLEAN,
               wanted : V, defaults : D]
        /\ {"done", "my model", "list"} \subseteq Points
    BY DEF Asked, Points
  <1> HIDE DEF W, U, L, V, D
  <1>2. n \in [at : Points, use : W, again : BOOLEAN, custom : BOOLEAN, user : U,
               list : L, mine : Pair, default : Pair, result : Pair, calm : BOOLEAN, lapsed : BOOLEAN,
               wanted : V, defaults : D]
    BY <1>1 DEF Restarting
  <1>3. Moved(n, r, "list", TRUE, r.list, r.mine, r.default, r.result)
    BY <1>1 DEF Restarting, Moved, SameRequest
  <1>4. n \in Asked(n)
    BY <1>2, <1>3 DEF Asked, Moved, SameRequest, W, U, L, V, D
  <1>5. QED
    BY <1>3, <1>4

(* The steps that read on.                                                 *)

WithId(q, v) == [q EXCEPT !.id = v]
WithModel(q, v) == [q EXCEPT !.model = v]

LEMMA PairPart ==
  ASSUME NEW q \in Pair, NEW v \in Ids \cup {None}
  PROVE  /\ WithId(q, v) \in Pair /\ WithId(q, v).id = v /\ WithId(q, v).model = q.model
         /\ WithModel(q, v) \in Pair /\ WithModel(q, v).model = v /\ WithModel(q, v).id = q.id
  <1> DEFINE I == Ids \cup {None}
  <1>1. q \in [id : I, model : I] /\ v \in I
    BY DEF Pair
  <1> HIDE DEF I
  <1>2. WithId(q, v) \in [id : I, model : I] /\ WithId(q, v).id = v /\ WithId(q, v).model = q.model
    BY <1>1 DEF WithId
  <1>3. WithModel(q, v) \in [id : I, model : I] /\ WithModel(q, v).model = v /\ WithModel(q, v).id = q.id
    BY <1>1 DEF WithModel
  <1>4. QED
    BY <1>2, <1>3 DEF Pair, I

LEMMA AnswerIs ==
  ASSUME NEW value, NEW none, NEW answer \in Answers(value, none)
  PROVE  answer.value \in {value, none}
  <1>1. \/ answer = [value |-> value, lapsed |-> FALSE]
        \/ answer = [value |-> none, lapsed |-> TRUE]
    BY DEF Answers
  <1>2. QED
    BY <1>1

(* What the reading knows so far.                                          *)
LEMMA KnownSoFar ==
  ASSUME ProvidersInv, NEW r, r = route
  PROVE  /\ r \in Asked(r) /\ Path(r) /\ r.use \in {"chat"} \cup Uses
         /\ r.mine \in Pair /\ r.default \in Pair
         /\ Reading(r) /\ Sound(r) => Faithful(r, DOMAIN rows, setting, assigned, default)
         /\ default \in Pair /\ setting \in [Uses -> Pair] /\ assigned \in [Users -> Pair]
  <1>1. r \in Asked(r)
    BY DEF ProvidersInv, RouteInv
  <1>2. r.use \in {"chat"} \cup Uses /\ r.mine \in Pair /\ r.default \in Pair
    BY <1>1 DEF Asked
  <1>3. QED
    BY <1>1, <1>2 DEF ProvidersInv, RouteInv, AdminsInv, TypeInv, ConfigInv

LEMMA ReadMyIdStep == ProvidersInv /\ ReadMyId => RouteInv'
  <1> SUFFICES ASSUME ProvidersInv, ReadMyId PROVE RouteInv'
    OBVIOUS
  <1>1. PICK r : r = route
    OBVIOUS
  <1>2. PICK S, set, asg, def : S = DOMAIN rows /\ set = setting /\ asg = assigned /\ def = default
    OBVIOUS
  <1>3. /\ r \in Asked(r) /\ Path(r) /\ r.use \in {"chat"} \cup Uses /\ r.mine \in Pair
        /\ Reading(r) /\ Sound(r) => Faithful(r, S, set, asg, def)
        /\ set \in [Uses -> Pair]
    BY <1>1, <1>2, KnownSoFar
  <1>4. r.at = "my id" /\ UNCHANGED config
    BY <1>1 DEF ReadMyId, Unread
  <1>5. ~Chat(r) /\ r.use \in Uses
    BY <1>3, <1>4 DEF Path, Chat
  <1>6. PICK value : value = set[r.use].id
    OBVIOUS
  <1>7. PICK answer \in Answers(value, None) :
          Read(answer, [route EXCEPT !.mine.id = answer.value, !.at = "my model",
                                     !.custom = route.use = "embedding" /\ custom])
    BY <1>1, <1>2, <1>6 DEF ReadMyId
  <1>8. answer.value \in Ids \cup {None}
    <2>1. set[r.use] \in Pair
      BY <1>3, <1>5
    <2>2. value \in Ids \cup {None}
      BY <1>6, <2>1 DEF Pair
    <2>3. QED
      BY <2>2, AnswerIs
  <1>9. PICK b \in BOOLEAN : b = (route.use = "embedding" /\ custom)
    OBVIOUS
  <1>10. PICK q \in Pair : q = WithId(r.mine, answer.value) /\ q.id = answer.value
    BY <1>3, <1>8, PairPart
  <1>11. PICK m : m = GotMyId(r, q, b)
    OBVIOUS
  <1>12. Read(answer, m)
    BY <1>1, <1>7, <1>9, <1>10, <1>11 DEF GotMyId, WithId
  <1>13. m \in Asked(m) /\ Moved(m, r, "my model", r.again, r.list, q, r.default, r.result)
    BY <1>3, <1>11, GotMyIdFields
  <1>14. ~Chat(m)
    BY <1>5, <1>13 DEF Chat, Moved, SameRequest
  <1>15. Path(m) /\ m.at # "done"
    BY <1>3, <1>4, <1>13, <1>14 DEF Path, Moved, SameRequest
  <1>16. ASSUME Sound(m), answer.value = value PROVE Faithful(m, S, set, asg, def)
    <2>1. Faithful(r, S, set, asg, def)
      BY <1>3, <1>4, <1>13, <1>16 DEF Sound, Reading, Moved
    <2>2. ~HasDefaultId(m) /\ ~HasDefaultModel(m) /\ ~m.again
      BY <1>13, <1>14 DEF HasDefaultId, HasDefaultModel, Moved, SameRequest, Chat
    <2>3. m.mine.id = set[m.use].id
      BY <1>6, <1>10, <1>13, <1>16 DEF Moved, SameRequest
    <2>4. QED
      BY <1>4, <1>13, <2>1, <2>2, <2>3 DEF Faithful, Moved, SameRequest
  <1>17. QED
    BY <1>2, <1>4, <1>12, <1>13, <1>15, <1>16, AnswerReadOn

LEMMA ReadMyModelStep == ProvidersInv /\ ReadMyModel => RouteInv'
  <1> SUFFICES ASSUME ProvidersInv, ReadMyModel PROVE RouteInv'
    OBVIOUS
  <1>1. PICK r : r = route
    OBVIOUS
  <1>2. PICK S, set, asg, def : S = DOMAIN rows /\ set = setting /\ asg = assigned /\ def = default
    OBVIOUS
  <1>3. /\ r \in Asked(r) /\ Path(r) /\ r.use \in {"chat"} \cup Uses /\ r.mine \in Pair
        /\ Reading(r) /\ Sound(r) => Faithful(r, S, set, asg, def)
        /\ set \in [Uses -> Pair]
    BY <1>1, <1>2, KnownSoFar
  <1>4. r.at = "my model" /\ UNCHANGED config
    BY <1>1 DEF ReadMyModel, Unread
  <1>5. ~Chat(r) /\ r.use \in Uses
    BY <1>3, <1>4 DEF Path, Chat
  <1>6. PICK value : value = set[r.use].model
    OBVIOUS
  <1>7. PICK answer \in Answers(value, None) :
          Read(answer, [route EXCEPT !.mine.model = answer.value,
                                     !.at = IF route.use = "embedding" THEN "default id" ELSE "default model"])
    BY <1>1, <1>2, <1>6 DEF ReadMyModel
  <1>8. answer.value \in Ids \cup {None}
    <2>1. set[r.use] \in Pair
      BY <1>3, <1>5
    <2>2. value \in Ids \cup {None}
      BY <1>6, <2>1 DEF Pair
    <2>3. QED
      BY <2>2, AnswerIs
  <1>9. PICK at \in Points : /\ at = IF r.use = "embedding" THEN "default id" ELSE "default model"
                             /\ at \in {"default id", "default model"}
                             /\ at = "default id" <=> r.use = "embedding"
    BY DEF Points
  <1>10. PICK q \in Pair : q = WithModel(r.mine, answer.value) /\ q.model = answer.value /\ q.id = r.mine.id
    BY <1>3, <1>8, PairPart
  <1>11. PICK m : m = GotMyModel(r, q, at)
    OBVIOUS
  <1>12. Read(answer, m)
    BY <1>1, <1>7, <1>9, <1>10, <1>11 DEF GotMyModel, WithModel
  <1>13. m \in Asked(m) /\ Moved(m, r, at, r.again, r.list, q, r.default, r.result)
    BY <1>3, <1>11, GotMyModelFields
  <1>14. ~Chat(m)
    BY <1>5, <1>13 DEF Chat, Moved, SameRequest
  <1>15. Path(m) /\ m.at # "done"
    BY <1>3, <1>4, <1>9, <1>13, <1>14 DEF Path, Moved, SameRequest
  <1>16. ASSUME Sound(m), answer.value = value PROVE Faithful(m, S, set, asg, def)
    <2>1. Faithful(r, S, set, asg, def)
      BY <1>3, <1>4, <1>13, <1>16 DEF Sound, Reading, Moved
    <2>2. ~HasDefaultId(m) /\ ~HasDefaultModel(m) /\ ~m.again
      BY <1>9, <1>13, <1>14 DEF HasDefaultId, HasDefaultModel, Moved, SameRequest, Chat
    <2>3. HasMine(r)
      BY <1>4, <1>5 DEF HasMine, Chat
    <2>4. m.mine.id = set[m.use].id /\ m.mine.model = set[m.use].model
      BY <1>6, <1>10, <1>13, <1>16, <2>1, <2>3 DEF Moved, SameRequest, Faithful
    <2>5. QED
      BY <1>4, <1>13, <2>1, <2>2, <2>4 DEF Faithful, Moved, SameRequest
  <1>17. QED
    BY <1>2, <1>4, <1>12, <1>13, <1>15, <1>16, AnswerReadOn

LEMMA ReadDefaultIdStep == ProvidersInv /\ ReadDefaultId => RouteInv'
  <1> SUFFICES ASSUME ProvidersInv, ReadDefaultId PROVE RouteInv'
    OBVIOUS
  <1>1. PICK r : r = route
    OBVIOUS
  <1>2. PICK S, set, asg, def : S = DOMAIN rows /\ set = setting /\ asg = assigned /\ def = default
    OBVIOUS
  <1>3. /\ r \in Asked(r) /\ Path(r) /\ r.use \in {"chat"} \cup Uses /\ r.default \in Pair
        /\ Reading(r) /\ Sound(r) => Faithful(r, S, set, asg, def)
        /\ def \in Pair
    BY <1>1, <1>2, KnownSoFar
  <1>4. r.at = "default id" /\ UNCHANGED config
    BY <1>1 DEF ReadDefaultId, Unread
  <1>5. Chat(r) \/ r.use = "embedding"
    BY <1>3, <1>4 DEF Path
  <1>6. PICK value : value = def.id
    OBVIOUS
  <1>7. PICK answer \in Answers(value, None) :
          Read(answer, [route EXCEPT !.default.id = answer.value, !.at = "default model"])
    BY <1>2, <1>6 DEF ReadDefaultId
  <1>8. answer.value \in Ids \cup {None}
    <2>1. value \in Ids \cup {None}
      BY <1>3, <1>6 DEF Pair
    <2>2. QED
      BY <2>1, AnswerIs
  <1>9. PICK at \in Points : at = "default model"
    BY DEF Points
  <1>10. PICK q \in Pair : q = WithId(r.default, answer.value) /\ q.id = answer.value
    BY <1>3, <1>8, PairPart
  <1>11. PICK m : m = GotDefault(r, q, at)
    OBVIOUS
  <1>12. Read(answer, m)
    BY <1>1, <1>7, <1>9, <1>10, <1>11 DEF GotDefault, WithId
  <1>13. m \in Asked(m) /\ Moved(m, r, at, r.again, r.list, r.mine, q, r.result)
    BY <1>3, <1>11, GotDefaultFields
  <1>14. Chat(m) <=> Chat(r)
    BY <1>13 DEF Chat, Moved, SameRequest
  <1>15. Path(m) /\ m.at # "done"
    BY <1>3, <1>4, <1>9, <1>13, <1>14 DEF Path, Moved, SameRequest
  <1>16. ASSUME Sound(m), answer.value = value PROVE Faithful(m, S, set, asg, def)
    <2>1. Faithful(r, S, set, asg, def)
      BY <1>3, <1>4, <1>13, <1>16 DEF Sound, Reading, Moved
    <2>2. ~HasDefaultModel(m) /\ (HasMine(m) <=> HasMine(r))
      BY <1>4, <1>9, <1>13 DEF HasDefaultModel, HasMine, Moved, SameRequest
    <2>3. m.default.id = def.id /\ def \in m.defaults
      BY <1>6, <1>10, <1>13, <1>16, <2>1 DEF Moved, Faithful
    <2>4. /\ HasMine(m) => m.mine.id = set[m.use].id /\ m.mine.model = set[m.use].model
          /\ m.again => m.mine.id \notin S
      BY <1>4, <1>13, <2>1, <2>2 DEF Moved, SameRequest, Faithful
    <2>5. QED
      BY <1>4, <1>13, <2>1, <2>2, <2>3, <2>4 DEF Faithful, Moved, SameRequest
  <1>17. QED
    BY <1>2, <1>4, <1>12, <1>13, <1>15, <1>16, AnswerReadOn

LEMMA ReadDefaultModelStep == ProvidersInv /\ ReadDefaultModel => RouteInv'
  <1> SUFFICES ASSUME ProvidersInv, ReadDefaultModel PROVE RouteInv'
    OBVIOUS
  <1>1. PICK r : r = route
    OBVIOUS
  <1>2. PICK S, set, asg, def : S = DOMAIN rows /\ set = setting /\ asg = assigned /\ def = default
    OBVIOUS
  <1>3. /\ r \in Asked(r) /\ Path(r) /\ r.use \in {"chat"} \cup Uses /\ r.default \in Pair
        /\ Reading(r) /\ Sound(r) => Faithful(r, S, set, asg, def)
        /\ def \in Pair
    BY <1>1, <1>2, KnownSoFar
  <1>4. r.at = "default model" /\ UNCHANGED config
    BY <1>1 DEF ReadDefaultModel, Unread
  <1>5. PICK value : value = def.model
    OBVIOUS
  <1>6. PICK answer \in Answers(value, None) :
          Read(answer, [route EXCEPT !.default.model = answer.value,
                                     !.at = IF route.use = "chat" \/ route.again THEN "user" ELSE "build"])
    BY <1>2, <1>5 DEF ReadDefaultModel
  <1>7. answer.value \in Ids \cup {None}
    <2>1. value \in Ids \cup {None}
      BY <1>3, <1>5 DEF Pair
    <2>2. QED
      BY <2>1, AnswerIs
  <1>8. PICK at \in Points : /\ at = IF r.use = "chat" \/ r.again THEN "user" ELSE "build"
                             /\ at \in {"user", "build"}
                             /\ at = "user" <=> Chat(r)
    BY DEF Points, Chat
  <1>9. PICK q \in Pair : q = WithModel(r.default, answer.value) /\ q.model = answer.value /\ q.id = r.default.id
    BY <1>3, <1>7, PairPart
  <1>10. PICK m : m = GotDefault(r, q, at)
    OBVIOUS
  <1>11. Read(answer, m)
    BY <1>1, <1>6, <1>8, <1>9, <1>10 DEF GotDefault, WithModel
  <1>12. m \in Asked(m) /\ Moved(m, r, at, r.again, r.list, r.mine, q, r.result)
    BY <1>3, <1>10, GotDefaultFields
  <1>13. Chat(m) <=> Chat(r)
    BY <1>12 DEF Chat, Moved, SameRequest
  <1>14. Path(m) /\ m.at # "done"
    BY <1>3, <1>4, <1>8, <1>12, <1>13 DEF Path, Moved, SameRequest
  <1>15. ASSUME Sound(m), answer.value = value PROVE Faithful(m, S, set, asg, def)
    <2>1. Faithful(r, S, set, asg, def)
      BY <1>3, <1>4, <1>12, <1>15 DEF Sound, Reading, Moved
    <2>2. (HasMine(m) => HasMine(r)) /\ (HasDefaultId(m) => HasDefaultId(r))
      BY <1>4, <1>12, <1>13 DEF HasDefaultId, HasMine, Moved, SameRequest
    <2>3. m.default.model = def.model /\ def \in m.defaults /\ m.default.id = r.default.id
      BY <1>5, <1>9, <1>12, <1>15, <2>1 DEF Moved, Faithful
    <2>4. /\ HasMine(m) => m.mine.id = set[m.use].id /\ m.mine.model = set[m.use].model
          /\ m.again => m.mine.id \notin S
          /\ HasDefaultId(m) => \E d \in m.defaults : m.default.id = d.id
      BY <1>4, <1>12, <2>1, <2>2, <2>3 DEF Moved, SameRequest, Faithful
    <2>5. QED
      BY <1>4, <1>12, <2>1, <2>3, <2>4 DEF Faithful, Moved, SameRequest
  <1>16. QED
    BY <1>2, <1>4, <1>11, <1>12, <1>14, <1>15, AnswerReadOn

(* A resolution begins with what the call wants at this moment.            *)
Asking(use, u, w, S) == [NotAsked EXCEPT !.at = "list", !.use = use, !.user = u, !.wanted = w, !.defaults = S]

LEMMA NotAskedFields ==
  NotAsked \in [at : {"idle"}, use : {"chat"}, again : {FALSE}, custom : {FALSE}, user : {None}, list : {<<>>},
                mine : {NoPair}, default : {NoPair}, result : {NoPair}, calm : {TRUE}, lapsed : {FALSE},
                wanted : {NotAsked.wanted}, defaults : {{}}]
  BY DEF NotAsked

LEMMA AskingFields ==
  ASSUME NEW use \in {"chat"} \cup Uses, NEW u, NEW w, NEW S \in SUBSET Pair, NEW n, n = Asking(use, u, w, S)
  PROVE  /\ n \in Asked(n)
         /\ n.at = "list" /\ n.use = use /\ n.user = u /\ n.wanted = w /\ n.defaults = S
         /\ ~n.again /\ n.list = <<>> /\ n.result = NoPair
  <1> DEFINE W == {"chat"} \cup Uses
             U == {u}
             V == {w}
             D == {S}
             NP == {NoPair}
             L == {<<>>}
  <1>1. n \in [at : {"list"}, use : {use}, again : {FALSE}, custom : {FALSE}, user : U, list : L,
               mine : NP, default : NP, result : NP, calm : {TRUE}, lapsed : {FALSE},
               wanted : V, defaults : D]
    BY NotAskedFields DEF Asking
  <1>2. NP \subseteq Pair /\ use \in W /\ "list" \in Points /\ D \subseteq SUBSET Pair
    BY IdFacts DEF Points
  <1> HIDE DEF W, U, V, D, NP, L
  <1>3. n \in [at : Points, use : W, again : BOOLEAN, custom : BOOLEAN, user : U, list : L,
               mine : Pair, default : Pair, result : Pair, calm : BOOLEAN, lapsed : BOOLEAN,
               wanted : V, defaults : SUBSET Pair]
    BY <1>1, <1>2
  <1>4. /\ n.user \in U /\ n.wanted \in V /\ n.defaults \in D /\ n.list \in L /\ n.result \in NP
        /\ n.at = "list" /\ n.use = use /\ n.again \in {FALSE}
    BY <1>1
  <1>5. /\ n.user = u /\ n.wanted = w /\ n.defaults = S /\ n.list = <<>> /\ n.result = NoPair /\ ~n.again
    BY <1>4 DEF U, V, D, L, NP
  <1>6. n \in Asked(n)
    BY <1>3, <1>5 DEF Asked, W, U, V, L
  <1>7. QED
    BY <1>4, <1>5, <1>6

LEMMA WantedIs ==
  ASSUME NEW use, NEW u
  PROVE  Wanted(use, u) = WantedOf(use, u, default, DOMAIN rows, setting, assigned)
  <1>1. CASE assigned[u].id # None
    BY <1>1 DEF Wanted, WantedOf, Effective
  <1>2. CASE assigned[u].id = None
    BY <1>2 DEF Wanted, WantedOf, Effective
  <1>3. QED
    BY <1>1, <1>2

LEMMA ResolveStep ==
  ASSUME ProvidersInv, NEW use \in {"chat"} \cup Uses, NEW u \in Users, Resolve(use, u)
  PROVE  RouteInv'
  <1>1. PICK w : w = Wanted(use, u)
    OBVIOUS
  <1>2. PICK d : d = default
    OBVIOUS
  <1>3. d \in Pair
    BY <1>2 DEF ProvidersInv, AdminsInv, TypeInv, ConfigInv
  <1>4. PICK n : n = Asking(use, u, w, {d})
    OBVIOUS
  <1>5. route' = n /\ UNCHANGED config
    BY <1>1, <1>2, <1>4 DEF Resolve, Asking
  <1>6. /\ n \in Asked(n)
        /\ n.at = "list" /\ n.use = use /\ n.user = u /\ n.wanted = w /\ n.defaults = {d}
        /\ ~n.again /\ n.list = <<>> /\ n.result = NoPair
    BY <1>3, <1>4, AskingFields
  <1>7. Path(n)
    <2>1. DOMAIN n.list = {}
      BY <1>6
    <2>2. QED
      BY <1>6, <2>1, IdFacts DEF Path
  <1>8. Faithful(n, DOMAIN rows, setting, assigned, default)
    <2>1. ~HasMine(n) /\ ~HasDefaultId(n) /\ ~HasDefaultModel(n)
      BY <1>6 DEF HasMine, HasDefaultId, HasDefaultModel
    <2>2. n.wanted = WantedOf(n.use, n.user, default, DOMAIN rows, setting, assigned)
      BY <1>1, <1>6, WantedIs
    <2>3. default \in n.defaults
      BY <1>2, <1>6
    <2>4. QED
      BY <1>6, <2>1, <2>2, <2>3 DEF Faithful
  <1>9. QED
    BY <1>5, <1>6, <1>7, <1>8, ReadOn

(* Without a provider it ends, with none as the result.                    *)
LEMMA ListStep == ProvidersInv /\ List => RouteInv'
  <1> SUFFICES ASSUME ProvidersInv, List PROVE RouteInv'
    OBVIOUS
  <1>1. PICK r : r = route
    OBVIOUS
  <1>2. PICK S, set, asg, def : S = DOMAIN rows /\ set = setting /\ asg = assigned /\ def = default
    OBVIOUS
  <1>3. /\ r \in Asked(r) /\ Path(r)
        /\ Reading(r) /\ Sound(r) => Faithful(r, S, set, asg, def)
    BY <1>1, <1>2, KnownSoFar
  <1>4. r.at = "list" /\ UNCHANGED config
    BY <1>1 DEF List
  <1>5. CASE DOMAIN rows = {}
    <2>1. PICK n : n = Closing(r)
      OBVIOUS
    <2>2. route' = n
      BY <1>1, <1>5, <2>1 DEF List, Closing
    <2>3. n \in Asked(n) /\ Moved(n, r, "done", r.again, r.list, r.mine, r.default, r.result)
      BY <1>3, <2>1, ClosingFields
    <2>4. Path(n)
      BY <1>3, <1>4, <2>3 DEF Path, Moved, SameRequest
    <2>5. n.result.id = None /\ n.at = "done"
      BY <1>3, <1>4, <2>3 DEF Path, Moved
    <2>6. QED
      BY <2>2, <2>3, <2>4, <2>5 DEF RouteInv, AssignedIsRouted, Reading
  <1>6. CASE DOMAIN rows # {}
    <2>1. PICK at \in Points : /\ at = IF r.use = "chat" \/ r.again THEN "default id" ELSE "my id"
                               /\ at \in {"default id", "my id"}
                               /\ at = "default id" <=> Chat(r)
      BY DEF Points, Chat
    <2>2. PICK list : list = rows
      OBVIOUS
    <2>3. PICK n : n = Listing(r, list, at)
      OBVIOUS
    <2>4. route' = n
      BY <1>1, <1>6, <2>1, <2>2, <2>3 DEF List, Listing
    <2>5. n \in Asked(n) /\ Moved(n, r, at, r.again, list, r.mine, r.default, r.result)
      BY <1>3, <2>3, ListingFields
    <2>6. Chat(n) <=> Chat(r)
      BY <2>5 DEF Chat, Moved, SameRequest
    <2>7. DOMAIN list \subseteq Ids /\ DOMAIN list # {} /\ (\A p \in DOMAIN list : list[p] \in Row(p))
      BY <1>6, <2>2 DEF ProvidersInv, AdminsInv, TypeInv, RowsInv
    <2>8. Path(n) /\ n.at # "done"
      BY <1>3, <1>4, <2>1, <2>5, <2>6, <2>7 DEF Path, Moved, SameRequest
    <2>9. Sound(n) => Faithful(n, S, set, asg, def)
      <3>1. SUFFICES ASSUME Sound(n) PROVE Faithful(n, S, set, asg, def)
        OBVIOUS
      <3>2. Faithful(r, S, set, asg, def)
        BY <1>3, <1>4, <2>5, <3>1 DEF Sound, Reading, Moved
      <3>3. ~HasDefaultId(n) /\ ~HasDefaultModel(n)
        BY <2>1, <2>5 DEF HasDefaultId, HasDefaultModel, Moved
      <3>4. HasMine(n) => HasMine(r)
        BY <2>1, <2>5 DEF HasMine, Chat, Moved, SameRequest
      <3>5. /\ HasMine(n) => n.mine.id = set[n.use].id /\ n.mine.model = set[n.use].model
            /\ n.again => n.mine.id \notin S
        BY <1>4, <2>5, <3>2, <3>4 DEF Moved, SameRequest, Faithful
      <3>6. DOMAIN n.list = S
        BY <1>2, <2>2, <2>5 DEF Moved
      <3>7. QED
        BY <2>5, <3>2, <3>3, <3>5, <3>6 DEF Faithful, Moved, SameRequest
    <2>10. QED
      BY <1>2, <1>4, <2>4, <2>5, <2>8, <2>9, ReadOn
  <1>7. QED
    BY <1>5, <1>6

-----------------------------------------------------------------------------
(* The route itself.                                                       *)

RightResult(r, result) ==
  result.id # None =>
    LET defaults == {d.id : d \in r.defaults}
    IN  /\ result.id \in DOMAIN r.list
        /\ IF r.wanted.own THEN result.id = r.wanted.id
           ELSE result.id \in defaults \/ ~ defaults \subseteq DOMAIN r.list
        /\ Cardinality(r.defaults) = 1 /\ r.wanted.id \in DOMAIN r.list /\ r.wanted.model # None
             => result = [id |-> r.wanted.id, model |-> r.wanted.model]

LEMMA PairsAreFinite == IsFiniteSet(Pair)
  <1> DEFINE I == Ids \cup {None}
             f == [e \in I \X I |-> [id |-> e[1], model |-> e[2]]]
  <1>1. IsFiniteSet(I \X I)
    BY IdFacts, FS_AddElement, FS_Product
  <1>2. Pair \subseteq {f[e] : e \in I \X I}
    <2>1. SUFFICES ASSUME NEW q \in Pair PROVE \E e \in I \X I : q = f[e]
      OBVIOUS
    <2>2. q = [id |-> q.id, model |-> q.model] /\ q.id \in I /\ q.model \in I
      BY DEF Pair
    <2>3. <<q.id, q.model>> \in I \X I /\ f[<<q.id, q.model>>] = [id |-> q.id, model |-> q.model]
      BY <2>2
    <2> HIDE DEF f
    <2>4. QED
      BY <2>2, <2>3
  <1>3. IsFiniteSet({f[e] : e \in I \X I})
    <2>1. PICK S : S = I \X I
      OBVIOUS
    <2>2. f \in Surjection(S, {f[e] : e \in S})
      BY <2>1 DEF Surjection
    <2> HIDE DEF f
    <2>3. QED
      BY <1>1, <2>1, <2>2, FS_Surjection
  <1>4. QED
    BY <1>2, <1>3, FS_Subset

LEMMA OnlyOne ==
  ASSUME NEW S \in SUBSET Pair, Cardinality(S) = 1
  PROVE  \A d, e \in S : d = e
  <1>1. IsFiniteSet(S)
    BY PairsAreFinite, FS_Subset
  <1>2. PICK x : S = {x}
    BY <1>1, FS_Singleton
  <1>3. QED
    BY <1>2

(* Build names the provider it is given, with the model if there is one.   *)
LEMMA BuildIs ==
  ASSUME ProvidersInv, NEW p \in DOMAIN route.list, NEW model \in Ids \cup {None}
  PROVE  /\ Build(p, model) \in Pair /\ Build(p, model).id = p
         /\ model # None => Build(p, model) = [id |-> p, model |-> model]
  <1>1. p \in Ids /\ route.list[p].model \in Ids \cup {None}
    BY IdFacts DEF ProvidersInv, RouteInv, Path, Row
  <1>2. Build(p, model) = [id |-> p, model |-> IF model # None THEN model ELSE route.list[p].model]
    BY DEF Build, FirstNonEmpty
  <1>3. QED
    BY <1>1, <1>2 DEF Pair

(* FallBack takes the default if it is listed, and always one of the list. *)
LEMMA FallBackIs ==
  ASSUME ProvidersInv, DOMAIN route.list # {}, NEW model
  PROVE  \E p \in DOMAIN route.list :
           FallBack(model) = Build(p, model) /\ (route.default.id \in DOMAIN route.list => p = route.default.id)
  <1> DEFINE active == {p \in DOMAIN route.list : route.list[p].active}
  <1>1. PICK list : list = route.list
    OBVIOUS
  <1>2. DOMAIN list \subseteq Ids /\ \A p \in DOMAIN list : list[p] \in Row(p)
    BY <1>1 DEF ProvidersInv, RouteInv, Path
  <1>3. \A S \in SUBSET DOMAIN list : S # {} => FirstOf(S, list) \in S
    BY <1>2, FirstOfPart
  <1>4. CASE Found(route.default.id)
    BY <1>4 DEF FallBack, Found
  <1>5. CASE ~Found(route.default.id) /\ active # {}
    <2>1. active \in SUBSET DOMAIN list
      BY <1>1
    <2>2. FirstOf(active, list) \in active
      BY <1>3, <1>5, <2>1
    <2>3. FallBack(model) = Build(FirstOf(active, list), model)
      BY <1>1, <1>5 DEF FallBack
    <2>4. QED
      BY <1>5, <2>2, <2>3 DEF Found
  <1>6. CASE ~Found(route.default.id) /\ active = {}
    <2>1. FirstOf(DOMAIN list, list) \in DOMAIN list
      BY <1>1, <1>3
    <2>2. FallBack(model) = Build(FirstOf(DOMAIN list, list), model)
      BY <1>1, <1>6 DEF FallBack
    <2>3. QED
      BY <1>1, <1>6, <2>1, <2>2 DEF Found
  <1>7. QED
    BY <1>4, <1>5, <1>6

(* A provider of the caller's own.                                         *)
LEMMA OwnIsRight ==
  ASSUME NEW r, r.defaults \subseteq Pair, NEW own, NEW result, own \in Pair,
         NEW d0 \in r.defaults, NEW d2 \in r.defaults,
         r.wanted = [id |-> own.id, model |-> FirstNonEmpty(own.model, d0.model), own |-> TRUE],
         own.id \in DOMAIN r.list, result.id = own.id,
         FirstNonEmpty(own.model, d2.model) # None =>
           result = [id |-> own.id, model |-> FirstNonEmpty(own.model, d2.model)]
  PROVE  RightResult(r, result)
  <1>1. r.wanted.own /\ r.wanted.id = own.id /\ r.wanted.model = FirstNonEmpty(own.model, d0.model)
    OBVIOUS
  <1>2. Cardinality(r.defaults) = 1 => d0 = d2
    BY OnlyOne
  <1>3. QED
    BY <1>1, <1>2 DEF RightResult

(* The default.                                                            *)
LEMMA DefaultIsRight ==
  ASSUME NEW r, r.defaults \subseteq Pair, NEW m, NEW p, NEW result,
         NEW d0 \in r.defaults, NEW d1 \in r.defaults, NEW d2 \in r.defaults,
         r.wanted = [id |-> d0.id, model |-> FirstNonEmpty(m, d0.model), own |-> FALSE],
         p \in DOMAIN r.list, result.id = p, d1.id \in DOMAIN r.list => p = d1.id,
         FirstNonEmpty(m, d2.model) # None =>
           result = [id |-> p, model |-> FirstNonEmpty(m, d2.model)]
  PROVE  RightResult(r, result)
  <1>1. ~r.wanted.own /\ r.wanted.id = d0.id /\ r.wanted.model = FirstNonEmpty(m, d0.model)
    OBVIOUS
  <1>2. Cardinality(r.defaults) = 1 => d0 = d2 /\ d0 = d1
    BY OnlyOne
  <1>3. d1.id \in {d.id : d \in r.defaults}
    OBVIOUS
  <1>4. result.id \in {d.id : d \in r.defaults} \/ ~ {d.id : d \in r.defaults} \subseteq DOMAIN r.list
    BY <1>3
  <1>5. QED
    BY <1>1, <1>2, <1>4 DEF RightResult

LEMMA EndOn ==
  ASSUME NEW n, route' = n, n \in Asked(n), Path(n), n.at = "done", Sound(n) => RightResult(n, n.result)
  PROVE  RouteInv'
  <1>1. AssignedIsRouted'
    BY DEF AssignedIsRouted, RightResult, Sound
  <1>2. QED
    BY <1>1 DEF RouteInv, Reading

LEMMA RightAlike ==
  ASSUME NEW n, NEW r, n.defaults = r.defaults, n.list = r.list, n.wanted = r.wanted, NEW q, RightResult(r, q)
  PROVE  RightResult(n, q)
  BY DEF RightResult

LEMMA ModelIs ==
  ASSUME NEW m \in Ids \cup {None}, NEW k \in Ids \cup {None}
  PROVE  FirstNonEmpty(m, k) \in Ids \cup {None} /\ FirstNonEmpty(None, k) = k
  BY DEF FirstNonEmpty

(* What a chat call wants, or one that began again as a chat.              *)
LEMMA ChatWants ==
  ASSUME ProvidersInv, NEW r, r = route, Chat(r),
         Faithful(r, DOMAIN rows, setting, assigned, default)
  PROVE  \E d \in r.defaults :
           r.wanted = IF assigned[r.user].id # None
                      THEN [id |-> assigned[r.user].id, model |-> FirstNonEmpty(assigned[r.user].model, d.model), own |-> TRUE]
                      ELSE [id |-> d.id, model |-> d.model, own |-> FALSE]
  <1>1. PICK d \in r.defaults : r.wanted = WantedOf(r.use, r.user, d, DOMAIN rows, setting, assigned)
    BY DEF Faithful
  <1>2. None \notin DOMAIN rows /\ NoPair.id = None
    BY IdFacts DEF ProvidersInv, AdminsInv, TypeInv, RowsInv
  <1>3. CASE r.use = "chat"
    BY <1>1, <1>2, <1>3 DEF WantedOf
  <1>4. CASE r.use # "chat"
    <2>1. r.again /\ r.use # "embedding"
      BY <1>4 DEF Chat, ProvidersInv, RouteInv, Path
    <2>2. setting[r.use].id \notin DOMAIN rows
      BY <1>4, <2>1 DEF Faithful, HasMine
    <2>3. QED
      BY <1>1, <1>4, <2>1, <2>2 DEF WantedOf
  <1>5. QED
    BY <1>3, <1>4

LEMMA ChatIsRight ==
  ASSUME ProvidersInv, NEW r, r = route, r.at = "user", Sound(r),
         NEW own, own = assigned[r.user], NEW q,
         q = IF Found(own.id) THEN Build(own.id, FirstNonEmpty(own.model, route.default.model))
             ELSE FallBack(route.default.model)
  PROVE  RightResult(r, q)
  <1>1. /\ r \in Asked(r) /\ Path(r) /\ r.default \in Pair
        /\ Faithful(r, DOMAIN rows, setting, assigned, default)
    BY KnownSoFar DEF Reading
  <1>2. Chat(r) /\ DOMAIN r.list # {} /\ r.user \in Users
    BY <1>1 DEF Path
  <1>3. PICK d0 \in r.defaults :
          r.wanted = IF assigned[r.user].id # None
                     THEN [id |-> assigned[r.user].id, model |-> FirstNonEmpty(assigned[r.user].model, d0.model), own |-> TRUE]
                     ELSE [id |-> d0.id, model |-> d0.model, own |-> FALSE]
    BY <1>1, <1>2, ChatWants
  <1>4. PICK d1 \in r.defaults : r.default.id = d1.id
    BY <1>1, <1>2 DEF Faithful, HasDefaultId
  <1>5. PICK d2 \in r.defaults : r.default.model = d2.model
    BY <1>1 DEF Faithful, HasDefaultModel
  <1>6. r.defaults \subseteq Pair
    BY <1>1 DEF Asked
  <1>7. DOMAIN r.list = DOMAIN rows /\ None \notin DOMAIN r.list
    BY <1>1, IdFacts DEF Faithful, Path
  <1>8. own \in Pair /\ own.id \in DOMAIN rows \cup {None}
    BY <1>2 DEF ProvidersInv, AdminsInv, TypeInv, ConfigInv
  <1>9. own.model \in Ids \cup {None} /\ r.default.model \in Ids \cup {None} /\ None \in Ids \cup {None}
    BY <1>1, <1>8 DEF Pair
  <1>10. CASE own.id # None
    <2>1. own.id \in DOMAIN r.list
      BY <1>7, <1>8, <1>10
    <2>2. PICK model \in Ids \cup {None} : model = FirstNonEmpty(own.model, d2.model)
      BY <1>5, <1>9, ModelIs
    <2>3. q = Build(own.id, model)
      BY <1>5, <2>1, <2>2 DEF Found
    <2>4. q.id = own.id /\ (model # None => q = [id |-> own.id, model |-> model])
      BY <2>1, <2>3, BuildIs
    <2>5. r.wanted = [id |-> own.id, model |-> FirstNonEmpty(own.model, d0.model), own |-> TRUE]
      BY <1>3, <1>10
    <2>6. QED
      BY <1>6, <1>8, <2>1, <2>2, <2>4, <2>5, OwnIsRight
  <1>11. CASE own.id = None
    <2>1. q = FallBack(route.default.model)
      BY <1>7, <1>11 DEF Found
    <2>2. PICK model \in Ids \cup {None} : model = d2.model /\ model = r.default.model
      BY <1>5, <1>9
    <2>3. PICK p \in DOMAIN r.list : q = Build(p, model) /\ (r.default.id \in DOMAIN r.list => p = r.default.id)
      BY <1>2, <2>1, <2>2, FallBackIs
    <2>4. q.id = p /\ (model # None => q = [id |-> p, model |-> model])
      BY <2>3, BuildIs
    <2>5. FirstNonEmpty(None, d0.model) = d0.model /\ FirstNonEmpty(None, d2.model) = d2.model
      BY DEF FirstNonEmpty
    <2>6. r.wanted = [id |-> d0.id, model |-> FirstNonEmpty(None, d0.model), own |-> FALSE]
      BY <1>3, <1>11, <2>5
    <2>7. d1.id \in DOMAIN r.list => p = d1.id
      BY <1>4, <2>3
    <2>8. FirstNonEmpty(None, d2.model) # None => q = [id |-> p, model |-> FirstNonEmpty(None, d2.model)]
      BY <2>2, <2>4, <2>5
    <2>9. QED
      BY <1>6, <2>3, <2>4, <2>6, <2>7, <2>8, DefaultIsRight
  <1>12. QED
    BY <1>10, <1>11

LEMMA ChatRouteStep == ProvidersInv /\ ChatRoute => RouteInv'
  <1> SUFFICES ASSUME ProvidersInv, ChatRoute PROVE RouteInv'
    OBVIOUS
  <1>1. PICK r : r = route
    OBVIOUS
  <1>2. r \in Asked(r) /\ Path(r) /\ r.default \in Pair /\ assigned \in [Users -> Pair]
    BY <1>1, KnownSoFar
  <1>3. r.at = "user" /\ DOMAIN r.list # {} /\ r.user \in Users
    BY <1>1, <1>2 DEF ChatRoute, Path
  <1>4. PICK value : value = assigned[r.user]
    OBVIOUS
  <1>5. PICK answer \in Answers(value, NoPair) :
          Read(answer, [route EXCEPT !.at = "done", !.result =
            IF Found(answer.value.id) THEN Build(answer.value.id, FirstNonEmpty(answer.value.model, route.default.model))
            ELSE FallBack(route.default.model)])
    BY <1>1, <1>4 DEF ChatRoute
  <1>6. PICK mine \in Pair : mine = answer.value
    <2>1. value \in Pair /\ NoPair \in Pair
      BY <1>2, <1>3, <1>4, IdFacts
    <2>2. QED
      BY <2>1, AnswerIs
  <1>7. PICK q : q = IF Found(mine.id) THEN Build(mine.id, FirstNonEmpty(mine.model, route.default.model))
                     ELSE FallBack(route.default.model)
    OBVIOUS
  <1>8. q \in Pair
    <2>1. mine.model \in Ids \cup {None} /\ route.default.model \in Ids \cup {None}
      BY <1>1, <1>2 DEF Pair
    <2>2. PICK model \in Ids \cup {None} : model = FirstNonEmpty(mine.model, route.default.model)
      BY <2>1, ModelIs
    <2>3. CASE Found(mine.id)
      BY <1>7, <2>2, <2>3, BuildIs DEF Found
    <2>4. CASE ~Found(mine.id)
      <3>1. PICK k \in Ids \cup {None} : k = route.default.model
        BY <2>1
      <3>2. PICK p \in DOMAIN route.list : FallBack(k) = Build(p, k)
        BY <1>1, <1>3, FallBackIs
      <3>3. Build(p, k) \in Pair
        BY BuildIs
      <3>4. QED
        BY <1>7, <2>4, <3>1, <3>2, <3>3
    <2>5. QED
      BY <2>3, <2>4
  <1>9. PICK m : m = Ending(r, q)
    OBVIOUS
  <1>10. Read(answer, m)
    BY <1>1, <1>5, <1>6, <1>7, <1>9 DEF Ending
  <1>11. m \in Asked(m) /\ Moved(m, r, "done", r.again, r.list, r.mine, r.default, q)
    BY <1>2, <1>8, <1>9, EndingFields
  <1>12. Path(m)
    BY <1>2, <1>3, <1>11 DEF Path, Moved, SameRequest
  <1>13. PICK n : n = route'
    OBVIOUS
  <1>14. n \in Asked(n) /\ Alike(n, m) /\ (~n.lapsed => ~m.lapsed /\ answer.value = value)
    BY <1>10, <1>11, <1>13, AnswerRead
  <1>15. Path(n) /\ n.at = "done" /\ n.result = q
    BY <1>11, <1>12, <1>14, AlikeIsFaithful DEF Alike, Moved
  <1>16. ASSUME Sound(n) PROVE RightResult(n, q)
    <2>1. Sound(r) /\ mine = assigned[r.user]
      BY <1>4, <1>6, <1>11, <1>14, <1>16 DEF Sound, Alike, Moved
    <2>2. RightResult(r, q)
      BY <1>1, <1>3, <1>7, <2>1, ChatIsRight
    <2>3. n.defaults = r.defaults /\ n.list = r.list /\ n.wanted = r.wanted
      BY <1>11, <1>14 DEF Alike, Moved, SameRequest
    <2>4. QED
      BY <2>2, <2>3, RightAlike
  <1>17. QED
    BY <1>13, <1>14, <1>15, <1>16, EndOn

(* What a call with a setting of its own has read when it builds.          *)
LEMMA BuildKnows ==
  ASSUME ProvidersInv, NEW r, r = route, r.at = "build"
  PROVE  /\ r \in Asked(r) /\ Path(r) /\ ~Chat(r) /\ r.use \in Uses /\ DOMAIN r.list # {}
         /\ r.mine.model \in Ids \cup {None} /\ r.default.model \in Ids \cup {None}
         /\ r.defaults \subseteq Pair
         /\ Sound(r) =>
              /\ Faithful(r, DOMAIN rows, setting, assigned, default)
              /\ DOMAIN r.list = DOMAIN rows
              /\ r.mine.id = setting[r.use].id /\ r.mine.model = setting[r.use].model
              /\ setting[r.use] \in Pair
  <1>1. /\ r \in Asked(r) /\ Path(r) /\ r.default \in Pair /\ r.mine \in Pair
        /\ r.use \in {"chat"} \cup Uses /\ setting \in [Uses -> Pair]
        /\ Sound(r) => Faithful(r, DOMAIN rows, setting, assigned, default)
    BY KnownSoFar DEF Reading
  <1>2. ~Chat(r) /\ r.use \in Uses /\ DOMAIN r.list # {}
    BY <1>1 DEF Path, Chat
  <1>3. r.mine.model \in Ids \cup {None} /\ r.default.model \in Ids \cup {None}
    BY <1>1 DEF Pair
  <1>4. r.defaults \subseteq Pair
    BY <1>1 DEF Asked
  <1>5. HasMine(r)
    BY <1>2 DEF HasMine, Chat
  <1>6. QED
    BY <1>1, <1>2, <1>3, <1>4, <1>5 DEF Faithful

LEMMA OwnBuilt ==
  ASSUME ProvidersInv, NEW r, r = route, r.at = "build", r.mine.id \in DOMAIN r.list, NEW q,
         q = Build(r.mine.id, FirstNonEmpty(r.mine.model, r.default.model))
  PROVE  q \in Pair /\ (Sound(r) => RightResult(r, q))
  <1>1. /\ r.mine.model \in Ids \cup {None} /\ r.default.model \in Ids \cup {None}
        /\ r.defaults \subseteq Pair /\ ~Chat(r) /\ r.use \in Uses
    BY BuildKnows
  <1>2. PICK model \in Ids \cup {None} : model = FirstNonEmpty(r.mine.model, r.default.model)
    BY <1>1, ModelIs
  <1>3. q \in Pair /\ q.id = r.mine.id /\ (model # None => q = [id |-> r.mine.id, model |-> model])
    BY <1>2, BuildIs
  <1>4. ASSUME Sound(r) PROVE RightResult(r, q)
    <2>1. PICK own \in Pair : own = setting[r.use] /\ r.mine.id = own.id /\ r.mine.model = own.model
      BY <1>4, BuildKnows
    <2>2. Faithful(r, DOMAIN rows, setting, assigned, default) /\ own.id \in DOMAIN rows
      BY <1>4, <2>1, BuildKnows
    <2>3. PICK d0 \in r.defaults : r.wanted = WantedOf(r.use, r.user, d0, DOMAIN rows, setting, assigned)
      BY <2>2 DEF Faithful
    <2>4. r.wanted = [id |-> own.id, model |-> FirstNonEmpty(own.model, d0.model), own |-> TRUE]
      BY <1>1, <2>1, <2>2, <2>3 DEF WantedOf, Chat
    <2>5. PICK d2 \in r.defaults : r.default.model = d2.model
      BY <2>2 DEF Faithful, HasDefaultModel
    <2>6. model = FirstNonEmpty(own.model, d2.model)
      BY <1>2, <2>1, <2>5
    <2>7. QED
      BY <1>1, <1>3, <2>1, <2>4, <2>6, OwnIsRight
  <1>5. QED
    BY <1>3, <1>4

(* An embedding without a provider of its own.                             *)
LEMMA FallBackBuilt ==
  ASSUME ProvidersInv, NEW r, r = route, r.at = "build", r.use = "embedding", r.mine.id \notin DOMAIN r.list,
         NEW q, q = FallBack(FirstNonEmpty(r.mine.model, r.default.model))
  PROVE  q \in Pair /\ (Sound(r) => RightResult(r, q))
  <1>1. /\ r.mine.model \in Ids \cup {None} /\ r.default.model \in Ids \cup {None}
        /\ r.defaults \subseteq Pair /\ DOMAIN r.list # {}
    BY BuildKnows
  <1>2. PICK model \in Ids \cup {None} : model = FirstNonEmpty(r.mine.model, r.default.model)
    BY <1>1, ModelIs
  <1>3. PICK p \in DOMAIN r.list : q = Build(p, model) /\ (r.default.id \in DOMAIN r.list => p = r.default.id)
    BY <1>1, <1>2, FallBackIs
  <1>4. q \in Pair /\ q.id = p /\ (model # None => q = [id |-> p, model |-> model])
    BY <1>3, BuildIs
  <1>5. ASSUME Sound(r) PROVE RightResult(r, q)
    <2>1. PICK own \in Pair : own = setting[r.use] /\ r.mine.id = own.id /\ r.mine.model = own.model
      BY <1>5, BuildKnows
    <2>2. Faithful(r, DOMAIN rows, setting, assigned, default) /\ own.id \notin DOMAIN rows
      BY <1>5, <2>1, BuildKnows
    <2>3. PICK d0 \in r.defaults : r.wanted = WantedOf(r.use, r.user, d0, DOMAIN rows, setting, assigned)
      BY <2>2 DEF Faithful
    <2>4. r.wanted = [id |-> d0.id, model |-> FirstNonEmpty(own.model, d0.model), own |-> FALSE]
      BY <2>1, <2>2, <2>3 DEF WantedOf
    <2>5. PICK d2 \in r.defaults : r.default.model = d2.model
      BY <2>2 DEF Faithful, HasDefaultModel
    <2>6. PICK d1 \in r.defaults : r.default.id = d1.id
      BY <2>2 DEF Faithful, HasDefaultId
    <2>7. model = FirstNonEmpty(own.model, d2.model)
      BY <1>2, <2>1, <2>5
    <2>8. d1.id \in DOMAIN r.list => p = d1.id
      BY <1>3, <2>6
    <2>9. FirstNonEmpty(own.model, d2.model) # None => q = [id |-> p, model |-> FirstNonEmpty(own.model, d2.model)]
      BY <1>4, <2>7
    <2>10. QED
      BY <1>1, <1>3, <1>4, <2>4, <2>8, <2>9, DefaultIsRight
  <1>6. QED
    BY <1>4, <1>5

LEMMA EndsWith ==
  ASSUME ProvidersInv, NEW r, r = route, r.at = "build", NEW q \in Pair, Done(q), Sound(r) => RightResult(r, q)
  PROVE  RouteInv'
  <1>1. r \in Asked(r) /\ Path(r) /\ DOMAIN r.list # {} /\ ~Chat(r)
    BY BuildKnows
  <1>2. PICK n : n = Ending(r, q)
    OBVIOUS
  <1>3. route' = n
    BY <1>2 DEF Done, Ending
  <1>4. n \in Asked(n) /\ Moved(n, r, "done", r.again, r.list, r.mine, r.default, q)
    BY <1>1, <1>2, EndingFields
  <1>5. Path(n) /\ n.at = "done" /\ n.result = q
    BY <1>1, <1>4 DEF Path, Moved, SameRequest
  <1>6. Sound(n) => RightResult(n, q)
    <2>1. Sound(n) => Sound(r)
      BY <1>4 DEF Sound, Moved
    <2>2. n.defaults = r.defaults /\ n.list = r.list /\ n.wanted = r.wanted
      BY <1>4 DEF Moved, SameRequest
    <2>3. QED
      BY <2>1, <2>2, RightAlike
  <1>7. QED
    BY <1>3, <1>4, <1>5, <1>6, EndOn

LEMMA UseRouteStep == ProvidersInv /\ UseRoute => RouteInv'
  <1> SUFFICES ASSUME ProvidersInv, UseRoute PROVE RouteInv'
    OBVIOUS
  <1>1. PICK r : r = route
    OBVIOUS
  <1>2. r.at = "build" /\ r.use # "embedding" /\ UNCHANGED config
    BY <1>1 DEF UseRoute, Unread
  <1>3. CASE Found(r.mine.id)
    <2>1. PICK q : q = Build(r.mine.id, FirstNonEmpty(r.mine.model, r.default.model))
      OBVIOUS
    <2>2. q \in Pair /\ (Sound(r) => RightResult(r, q))
      BY <1>1, <1>2, <1>3, <2>1, OwnBuilt DEF Found
    <2>3. Done(q)
      BY <1>1, <1>3, <2>1 DEF UseRoute
    <2>4. QED
      BY <1>1, <1>2, <2>2, <2>3, EndsWith
  <1>4. CASE ~Found(r.mine.id)
    <2>1. PICK n : n = Restarting(r)
      OBVIOUS
    <2>2. route' = n
      BY <1>1, <1>4, <2>1 DEF UseRoute, Restarting
    <2>3. r \in Asked(r) /\ Path(r) /\ ~Chat(r) /\ r.use \in Uses /\ DOMAIN r.list # {}
      BY <1>1, <1>2, BuildKnows
    <2>4. n \in Asked(n) /\ Moved(n, r, "list", TRUE, r.list, r.mine, r.default, r.result)
      BY <2>1, <2>3, RestartingFields
    <2>5. Path(n) /\ n.at # "done"
      BY <1>2, <2>3, <2>4 DEF Path, Moved, SameRequest, Chat
    <2>6. Sound(n) => Faithful(n, DOMAIN rows, setting, assigned, default)
      <3>1. SUFFICES ASSUME Sound(n) PROVE Faithful(n, DOMAIN rows, setting, assigned, default)
        OBVIOUS
      <3>2. Sound(r)
        BY <2>4, <3>1 DEF Sound, Moved
      <3>3. PICK S, set, asg, def : S = DOMAIN rows /\ set = setting /\ asg = assigned /\ def = default
        OBVIOUS
      <3>4. /\ Faithful(r, S, set, asg, def) /\ DOMAIN r.list = S
            /\ r.mine.id = set[r.use].id /\ r.mine.model = set[r.use].model
        BY <1>1, <1>2, <3>2, <3>3, BuildKnows
      <3>5. n.mine.id = set[n.use].id /\ n.mine.model = set[n.use].model /\ n.mine.id \notin S
        BY <1>1, <1>4, <2>4, <3>4 DEF Moved, SameRequest, Found
      <3>6. ~HasDefaultId(n) /\ ~HasDefaultModel(n)
        BY <2>4 DEF HasDefaultId, HasDefaultModel, Moved
      <3>7. Faithful(n, S, set, asg, def)
        BY <2>4, <3>4, <3>5, <3>6 DEF Faithful, Moved, SameRequest
      <3>8. QED
        BY <3>3, <3>7
    <2>7. QED
      BY <1>2, <2>2, <2>4, <2>5, <2>6, ReadOn
  <1>5. QED
    BY <1>3, <1>4

LEMMA EmbeddingRouteStep == ProvidersInv /\ EmbeddingRoute => RouteInv'
  <1> SUFFICES ASSUME ProvidersInv, EmbeddingRoute PROVE RouteInv'
    OBVIOUS
  <1>1. PICK r : r = route
    OBVIOUS
  <1>2. r.at = "build" /\ r.use = "embedding"
    BY <1>1 DEF EmbeddingRoute
  <1>3. PICK model \in Ids \cup {None} : model = FirstNonEmpty(r.mine.model, r.default.model)
    BY <1>1, <1>2, BuildKnows, ModelIs
  <1>4. CASE r.custom
    <2>1. PICK q : q = [id |-> None, model |-> model]
      OBVIOUS
    <2>2. q \in Pair /\ RightResult(r, q)
      BY <2>1 DEF Pair, RightResult
    <2>3. Done(q)
      BY <1>1, <1>3, <1>4, <2>1 DEF EmbeddingRoute
    <2>4. QED
      BY <1>1, <1>2, <2>2, <2>3, EndsWith
  <1>5. CASE ~r.custom /\ Found(r.mine.id)
    <2>1. PICK q : q = Build(r.mine.id, FirstNonEmpty(r.mine.model, r.default.model))
      OBVIOUS
    <2>2. q \in Pair /\ (Sound(r) => RightResult(r, q))
      BY <1>1, <1>2, <1>5, <2>1, OwnBuilt DEF Found
    <2>3. Done(q)
      BY <1>1, <1>5, <2>1 DEF EmbeddingRoute
    <2>4. QED
      BY <1>1, <1>2, <2>2, <2>3, EndsWith
  <1>6. CASE ~r.custom /\ ~Found(r.mine.id)
    <2>1. PICK q : q = FallBack(FirstNonEmpty(r.mine.model, r.default.model))
      OBVIOUS
    <2>2. q \in Pair /\ (Sound(r) => RightResult(r, q))
      BY <1>1, <1>2, <1>6, <2>1, FallBackBuilt DEF Found
    <2>3. Done(q)
      BY <1>1, <1>6, <2>1 DEF EmbeddingRoute
    <2>4. QED
      BY <1>1, <1>2, <2>2, <2>3, EndsWith
  <1>7. QED
    BY <1>4, <1>5, <1>6

-----------------------------------------------------------------------------
LEMMA InitRoute == Init => RouteInv
  <1> SUFFICES ASSUME Init PROVE RouteInv
    OBVIOUS
  <1>1. route = NotAsked
    BY DEF Init
  <1>2. /\ NotAsked.at = "idle" /\ NotAsked.use = "chat" /\ ~NotAsked.again /\ NotAsked.list = <<>>
        /\ NotAsked.result = NoPair
    BY DEF NotAsked
  <1>3. NotAsked \in Asked(NotAsked)
    <2> DEFINE W == {"chat"} \cup Uses
               L == {<<>>}
               V == {NotAsked.wanted}
               U == {None}
    <2>1. NotAsked \in [at : {"idle"}, use : {"chat"}, again : {FALSE}, custom : {FALSE}, user : U, list : L,
                        mine : {NoPair}, default : {NoPair}, result : {NoPair}, calm : {TRUE}, lapsed : {FALSE},
                        wanted : V, defaults : {{}}]
      BY NotAskedFields
    <2>2. NoPair \in Pair /\ "chat" \in W /\ "idle" \in Points /\ {} \in SUBSET Pair
      BY IdFacts DEF Points
    <2>3. U = {NotAsked.user} /\ L = {NotAsked.list}
      BY DEF NotAsked
    <2> HIDE DEF W, L, V, U
    <2>4. NotAsked \in [at : Points, use : W, again : BOOLEAN, custom : BOOLEAN, user : U, list : L,
                        mine : Pair, default : Pair, result : Pair, calm : BOOLEAN, lapsed : BOOLEAN,
                        wanted : V, defaults : SUBSET Pair]
      BY <2>1, <2>2
    <2>5. QED
      BY <2>3, <2>4 DEF Asked, W, V
  <1>4. DOMAIN NotAsked.list = {}
    BY <1>2
  <1>5. Path(NotAsked)
    BY <1>2, <1>4, IdFacts DEF Path
  <1>6. QED
    BY <1>1, <1>2, <1>3, <1>5 DEF RouteInv, Reading, AssignedIsRouted

LEMMA NextRoute == ProvidersInv /\ AdminsInv' /\ [Next]_vars => RouteInv'
  <1> SUFFICES ASSUME ProvidersInv, AdminsInv', [Next]_vars PROVE RouteInv'
    OBVIOUS
  <1>1. CASE UNCHANGED vars
    BY <1>1, SameRoute DEF vars, ProvidersInv
  <1>2. CASE (\E a \in Admins : AdminStep(a)) \/ Boot
    BY <1>2, AdminWatched, WatchedRoute, SameRoute DEF ProvidersInv
  <1>3. CASE RouterStep
    BY <1>3, ResolveStep, ListStep, ReadMyIdStep, ReadMyModelStep, ReadDefaultIdStep, ReadDefaultModelStep,
       ChatRouteStep, UseRouteStep, EmbeddingRouteStep DEF RouterStep
  <1>4. QED
    BY <1>1, <1>2, <1>3, NextSteps

THEOREM ProvidersInvariant == Spec => []ProvidersInv
  <1>1. Init => ProvidersInv
    BY InitAdmins, InitRoute DEF ProvidersInv
  <1>2. ProvidersInv /\ [Next]_vars => ProvidersInv'
    BY NextAdmins, NextRoute DEF ProvidersInv
  <1>3. QED
    BY <1>1, <1>2, PTL DEF Spec

(* The tables keep their types, and the provider a user is assigned to     *)
(* exists, however the statements of assignments and deletions interleave. *)
THEOREM ProvidersTypeCorrect == Spec => []TypeOK
  <1>1. ProvidersInv => TypeOK
    <2>1. SUFFICES ASSUME ProvidersInv PROVE TypeOK
      OBVIOUS
    <2>2. RowsInv /\ ConfigInv /\ FlagsInv
      BY <2>1 DEF ProvidersInv, AdminsInv, TypeInv
    <2>3. route.default \in Pair /\ route.mine \in Pair /\ route.result \in Pair
      BY <2>1 DEF ProvidersInv, RouteInv, Asked
    <2>4. /\ DOMAIN rows \subseteq Ids
          /\ \A p \in DOMAIN rows :
               /\ rows[p] \in [active : BOOLEAN, priority : Nat \ {0}, born : Nat \ {0}, model : Models(p)]
               /\ \A q \in DOMAIN rows \ {p} : rows[p].born # rows[q].born
      BY <2>2 DEF RowsInv, Row
    <2>5. {serial, faulty, booted} \subseteq BOOLEAN
      BY <2>2 DEF FlagsInv
    <2>6. QED
      BY <2>2, <2>3, <2>4, <2>5 DEF TypeOK, ConfigInv, FlagsInv
  <1>2. QED
    BY <1>1, ProvidersInvariant, PTL

(* A resolution that reads the list and each setting apart, while nothing  *)
(* but the default changes, takes the provider it would have found had it  *)
(* read them at once.                                                      *)
THEOREM RoutesFollowAssignments == Spec => []AssignedIsRouted
  <1>1. ProvidersInv => AssignedIsRouted
    BY DEF ProvidersInv, RouteInv
  <1>2. QED
    BY <1>1, ProvidersInvariant, PTL
=============================================================================
