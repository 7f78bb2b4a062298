------------------------ MODULE ConversationsProofs ------------------------
(***************************************************************************)
(* Theorems about Conversations, for every number of requests served at    *)
(* once, every page size and any number of bots, over either store.        *)
(***************************************************************************)
EXTENDS Conversations, FiniteSetTheorems, TLAPS

-----------------------------------------------------------------------------
Convs(i, n) == [bot : 1 .. i, unread : Nat, last : 0 .. n]
Stored(i, n) == [conv : 1 .. i, from : {"user", "bot"}, at : 1 .. n]

(* What holds of each store by itself, when i ids and n stamps were given  *)
(* out: its types, one conversation per bot, and a truthful list.          *)
WellKept(s, i, n) ==
  /\ s = [bots |-> s.bots, convs |-> s.convs, log |-> s.log, seen |-> s.seen]
  /\ s.bots \subseteq 1 .. i /\ DOMAIN s.convs \subseteq 1 .. i
  /\ s.convs \in [DOMAIN s.convs -> Convs(i, n)]
  /\ s.log \subseteq Stored(i, n)
  /\ s.seen \subseteq s.log /\ IsFiniteSet(s.log)
  /\ \A b \in s.bots : \E c \in DOMAIN s.convs : OfBot(s, b) = {c}
  /\ \A c \in DOMAIN s.convs : Summary(s, c)

StoresInv ==
  /\ kind \in {"memory", "postgres"} /\ ids \in Nat /\ now \in Nat
  /\ WellKept(db, ids, now) /\ WellKept(mem, ids, now)
  /\ kind = "memory" => db = Empty
  /\ \A c \in DOMAIN db.convs : db.convs[c].bot \in db.bots
  /\ DOMAIN db.convs \cap DOMAIN mem.convs = {}

(* A request writes to a conversation that was created, and ensures one    *)
(* for a bot that exists; it inserts only into the tables of a bot they    *)
(* have.  B are the bots of the tables, E those of either store.           *)
TaskOf(i, n) ==
  [at : {"idle", "find", "ensure", "insert", "ensure again", "look", "commit"},
   task : {"none", "starter", "send", "test", "proactive"}, bot : 0 .. i, conv : 0 .. i,
   from : {"user", "bot"}, stamp : 0 .. n, unread : Nat]

Ready(t, i, B, E) ==
  /\ t.at \in {"look", "commit"} => t.conv \in 1 .. i
  /\ t.at \in {"find", "ensure", "insert", "ensure again"} => t.bot \in 1 .. i
  /\ t.at = "ensure" => t.bot \in E
  /\ t.at \in {"insert", "ensure again"} => t.bot \in B

WorkInv ==
  /\ work \in [Workers -> TaskOf(ids, now)]
  /\ \A w \in Workers : Ready(work[w], ids, db.bots, db.bots \cup mem.bots)

(* A request that is about to commit has a stamp of its own.               *)
Stamped(w) == work[w].at = "commit"

StampInv ==
  /\ \A w \in Workers : Stamped(w) =>
       /\ kind = "postgres" /\ work[w].stamp \in 1 .. now
       /\ \A m \in db.log \cup acked : m.at # work[w].stamp
  /\ \A v, w \in Workers : Stamped(v) /\ Stamped(w) /\ v # w => work[v].stamp # work[w].stamp

(* No two messages share a stamp; what was acknowledged is in the store    *)
(* that is listed, if its conversation is.                                 *)
AckInv ==
  /\ acked \subseteq Stored(ids, now)
  /\ mem.log \subseteq acked
  /\ \A m, n \in db.log \cup acked : m.at = n.at => m = n
  /\ \A m \in acked : m.conv \in DOMAIN Home.convs => m \in Home.log

ConversationInv == StoresInv /\ WorkInv /\ StampInv /\ AckInv /\ ops \in 0 .. MaxOps

-----------------------------------------------------------------------------
(* Stores.                                                                 *)

(* From one store to the next: bots stay, conversations stay with their    *)
(* bot, and new ones have new ids.                                         *)
Grows(s, t, i, j) ==
  /\ s.bots \subseteq t.bots
  /\ DOMAIN s.convs \subseteq DOMAIN t.convs
  /\ \A c \in DOMAIN t.convs \ DOMAIN s.convs : c \in (i + 1) .. j
  /\ \A c \in DOMAIN s.convs : t.convs[c].bot = s.convs[c].bot

LEMMA EmptyKept ==
  ASSUME NEW i \in Nat, NEW n \in Nat
  PROVE  WellKept(Empty, i, n) /\ DOMAIN Empty.convs = {} /\ Empty.log = {} /\ Empty.bots = {}
  <1>1. DOMAIN Empty.convs = {} /\ Empty.log = {} /\ Empty.bots = {} /\ Empty.seen = {}
    BY DEF Empty
  <1>2. Empty = [bots |-> Empty.bots, convs |-> Empty.convs, log |-> Empty.log, seen |-> Empty.seen]
    BY DEF Empty
  <1>3. Empty.convs \in [DOMAIN Empty.convs -> Convs(i, n)]
    BY DEF Empty
  <1>4. IsFiniteSet(Empty.log)
    BY <1>1, FS_EmptySet
  <1>5. QED
    BY <1>1, <1>2, <1>3, <1>4 DEF WellKept

LEMMA SpaceGrows ==
  ASSUME NEW i \in Nat, NEW n \in Nat, NEW j \in Nat, NEW k \in Nat, i <= j, n <= k
  PROVE  /\ 1 .. i \subseteq 1 .. j
         /\ Convs(i, n) \subseteq Convs(j, k)
         /\ Stored(i, n) \subseteq Stored(j, k)
         /\ TaskOf(i, n) \subseteq TaskOf(j, k)
  <1>1. 1 .. i \subseteq 1 .. j /\ 0 .. i \subseteq 0 .. j /\ 1 .. n \subseteq 1 .. k /\ 0 .. n \subseteq 0 .. k
    OBVIOUS
  <1>2. Convs(i, n) \subseteq Convs(j, k)
    BY <1>1 DEF Convs
  <1>3. Stored(i, n) \subseteq Stored(j, k)
    BY <1>1 DEF Stored
  <1>4. TaskOf(i, n) \subseteq TaskOf(j, k)
    BY <1>1 DEF TaskOf
  <1>5. QED
    BY <1>1, <1>2, <1>3, <1>4

(* Ids and stamps that are given out elsewhere leave a store well kept.    *)
LEMMA KeptGrows ==
  ASSUME NEW s, NEW i \in Nat, NEW n \in Nat, NEW j \in Nat, NEW k \in Nat, i <= j, n <= k,
         WellKept(s, i, n)
  PROVE  WellKept(s, j, k) /\ Grows(s, s, i, j)
  <1>1. /\ 1 .. i \subseteq 1 .. j
        /\ Convs(i, n) \subseteq Convs(j, k)
        /\ Stored(i, n) \subseteq Stored(j, k)
    BY SpaceGrows
  <1>2. s.convs \in [DOMAIN s.convs -> Convs(j, k)]
    BY <1>1 DEF WellKept
  <1>3. WellKept(s, j, k)
    BY <1>1, <1>2 DEF WellKept
  <1>4. QED
    BY <1>3 DEF Grows

Added(f, b, c) == [d \in DOMAIN f \cup {c} |-> IF d = c THEN NewConversation(b) ELSE f[d]]

Enlarged(s, B, b, c) ==
  [bots |-> s.bots \cup B, convs |-> Added(s.convs, b, c), log |-> s.log, seen |-> s.seen]

Enlarges(s, t, i, n, j, B, b, c) ==
  /\ i \in Nat /\ n \in Nat /\ j \in Nat /\ i <= j
  /\ b \in 1 .. j /\ c \in (i + 1) .. j /\ B \subseteq {b}
  /\ WellKept(s, i, n) /\ OfBot(s, b) = {}
  /\ t = Enlarged(s, B, b, c)

LEMMA FreshConversation ==
  ASSUME NEW s, NEW t, NEW i, NEW n, NEW j, NEW B, NEW b, NEW c,
         Enlarges(s, t, i, n, j, B, b, c)
  PROVE  /\ WellKept(t, j, n) /\ Grows(s, t, i, j)
         /\ DOMAIN t.convs = DOMAIN s.convs \cup {c} /\ t.convs[c].bot = b
         /\ t.log = s.log /\ t.bots = s.bots \cup B
  <1>a. /\ i \in Nat /\ n \in Nat /\ j \in Nat /\ i <= j
        /\ b \in 1 .. j /\ c \in (i + 1) .. j /\ B \subseteq {b}
        /\ WellKept(s, i, n) /\ OfBot(s, b) = {}
        /\ t = Enlarged(s, B, b, c)
    BY DEF Enlarges
  <1> USE <1>a
  <1>1. /\ t.bots = s.bots \cup B /\ t.log = s.log /\ t.seen = s.seen
        /\ t.convs = Added(s.convs, b, c)
    BY DEF Enlarged
  <1>2. c \notin DOMAIN s.convs /\ c \in 1 .. j
    BY DEF WellKept
  <1>3. /\ DOMAIN t.convs = DOMAIN s.convs \cup {c}
        /\ t.convs[c] = NewConversation(b)
        /\ \A d \in DOMAIN s.convs : t.convs[d] = s.convs[d]
    BY <1>1, <1>2 DEF Added
  <1>4. NewConversation(b) \in Convs(j, n) /\ NewConversation(b).bot = b
    BY DEF NewConversation, Convs
  <1>5. WellKept(s, j, n)
    BY KeptGrows
  <1>6. t.convs \in [DOMAIN t.convs -> Convs(j, n)]
    <2>1. t.convs = [d \in DOMAIN t.convs |-> t.convs[d]]
      BY <1>1 DEF Added
    <2>2. \A d \in DOMAIN t.convs : t.convs[d] \in Convs(j, n)
      BY <1>3, <1>4, <1>5 DEF WellKept
    <2>3. QED
      BY <2>1, <2>2
  <1>7. ASSUME NEW a \in t.bots PROVE \E d \in DOMAIN t.convs : OfBot(t, a) = {d}
    <2>1. CASE a = b
      <3>1. OfBot(t, b) = {c}
        BY <1>3, <1>4 DEF OfBot
      <3>2. QED
        BY <2>1, <3>1, <1>3
    <2>2. CASE a # b
      <3>1. a \in s.bots
        BY <2>2, <1>1
      <3>2. OfBot(t, a) = OfBot(s, a)
        BY <2>2, <1>3, <1>4 DEF OfBot
      <3>3. QED
        BY <3>1, <3>2, <1>3 DEF WellKept
    <2>3. QED
      BY <2>1, <2>2
  <1>8. ASSUME NEW d \in DOMAIN t.convs PROVE Summary(t, d)
    <2>1. CASE d \in DOMAIN s.convs
      BY <2>1, <1>1, <1>3 DEF WellKept, Summary
    <2>2. CASE d = c
      <3>1. \A m \in s.log : m.conv # c
        <4>1. \A m \in s.log : m.conv \in 1 .. i
          BY DEF WellKept, Stored
        <4>2. QED
          BY <4>1
      <3>2. {m \in t.log : m.conv = c /\ m.from = "bot" /\ m \notin t.seen} = {}
        BY <3>1, <1>1
      <3>3. t.convs[d].unread = 0 /\ t.convs[d].last = 0
        BY <2>2, <1>3 DEF NewConversation
      <3>4. QED
        BY <2>2, <3>2, <3>3, FS_EmptySet DEF Summary
    <2>3. QED
      BY <2>1, <2>2, <1>3
  <1>9. s.bots \subseteq 1 .. j /\ DOMAIN s.convs \subseteq 1 .. j
    BY <1>5 DEF WellKept
  <1>10. /\ t.bots \subseteq 1 .. j /\ DOMAIN t.convs \subseteq 1 .. j
         /\ t = [bots |-> t.bots, convs |-> t.convs, log |-> t.log, seen |-> t.seen]
    BY <1>1, <1>2, <1>3, <1>9 DEF Enlarged
  <1>11. WellKept(t, j, n)
    <2>1. t.log \subseteq Stored(j, n) /\ t.seen \subseteq t.log /\ IsFiniteSet(t.log)
      BY <1>1, <1>5 DEF WellKept
    <2>2. QED
      BY <2>1, <1>6, <1>7, <1>8, <1>10 DEF WellKept
  <1>12. Grows(s, t, i, j)
    BY <1>1, <1>2, <1>3 DEF Grows
  <1>13. QED
    BY <1>1, <1>3, <1>4, <1>11, <1>12

Gets(s, t, i, n, j, b, c) ==
  /\ i \in Nat /\ n \in Nat /\ j \in Nat /\ i <= j
  /\ b \in 1 .. j /\ c \in (i + 1) .. j
  /\ WellKept(s, i, n) /\ OfBot(s, b) = {}
  /\ t = WithConversation(s, b, c)

LEMMA ConversationKept ==
  ASSUME NEW s, NEW t, NEW i, NEW n, NEW j, NEW b, NEW c, Gets(s, t, i, n, j, b, c)
  PROVE  /\ WellKept(t, j, n) /\ Grows(s, t, i, j)
         /\ DOMAIN t.convs = DOMAIN s.convs \cup {c} /\ t.convs[c].bot = b
         /\ t.log = s.log /\ t.bots = s.bots
  <1>a. /\ i \in Nat /\ n \in Nat /\ j \in Nat /\ i <= j
        /\ b \in 1 .. j /\ c \in (i + 1) .. j
        /\ WellKept(s, i, n) /\ OfBot(s, b) = {}
        /\ t = WithConversation(s, b, c)
    BY DEF Gets
  <1> USE <1>a
  <1>1. s = [bots |-> s.bots, convs |-> s.convs, log |-> s.log, seen |-> s.seen]
    BY DEF WellKept
  <1>2. t = [bots |-> s.bots \cup {}, convs |-> Added(s.convs, b, c),
             log |-> s.log, seen |-> s.seen]
    BY <1>1 DEF WithConversation, Added
  <1> DEFINE B == {}
  <1>3. Enlarges(s, t, i, n, j, B, b, c)
    BY <1>2 DEF Enlarged, Enlarges
  <1> HIDE DEF B
  <1>4. /\ WellKept(t, j, n) /\ Grows(s, t, i, j)
        /\ DOMAIN t.convs = DOMAIN s.convs \cup {c} /\ t.convs[c].bot = b
        /\ t.log = s.log /\ t.bots = s.bots \cup B
    BY <1>3, FreshConversation
  <1>5. QED
    BY <1>4 DEF B

(* A bot that has no id yet has no conversation.                           *)
GetsBot(s, t, i, n, j, b, c) ==
  /\ i \in Nat /\ n \in Nat /\ j \in Nat /\ i <= j
  /\ b \in (i + 1) .. j /\ c \in (i + 1) .. j
  /\ WellKept(s, i, n)
  /\ t = WithBot(s, b, c)

LEMMA BotKept ==
  ASSUME NEW s, NEW t, NEW i, NEW n, NEW j, NEW b, NEW c, GetsBot(s, t, i, n, j, b, c)
  PROVE  /\ WellKept(t, j, n) /\ Grows(s, t, i, j)
         /\ DOMAIN t.convs = DOMAIN s.convs \cup {c} /\ t.convs[c].bot = b
         /\ t.log = s.log /\ t.bots = s.bots \cup {b}
  <1>a. /\ i \in Nat /\ n \in Nat /\ j \in Nat /\ i <= j
        /\ b \in (i + 1) .. j /\ c \in (i + 1) .. j
        /\ WellKept(s, i, n)
        /\ t = WithBot(s, b, c)
    BY DEF GetsBot
  <1> USE <1>a
  <1>1. s = [bots |-> s.bots, convs |-> s.convs, log |-> s.log, seen |-> s.seen]
    BY DEF WellKept
  <1>2. t = [bots |-> s.bots \cup {b}, convs |-> Added(s.convs, b, c),
             log |-> s.log, seen |-> s.seen]
    BY <1>1 DEF WithConversation, WithBot, Added
  <1>3. OfBot(s, b) = {}
    <2>1. \A d \in DOMAIN s.convs : s.convs[d].bot \in 1 .. i
      BY DEF WellKept, Convs
    <2>2. QED
      BY <2>1 DEF OfBot
  <1>4. b \in 1 .. j
    OBVIOUS
  <1> DEFINE B == {b}
  <1>5. Enlarges(s, t, i, n, j, B, b, c)
    BY <1>2, <1>3, <1>4 DEF Enlarged, Enlarges
  <1> HIDE DEF B
  <1>6. /\ WellKept(t, j, n) /\ Grows(s, t, i, j)
        /\ DOMAIN t.convs = DOMAIN s.convs \cup {c} /\ t.convs[c].bot = b
        /\ t.log = s.log /\ t.bots = s.bots \cup B
    BY <1>5, FreshConversation
  <1>7. QED
    BY <1>6 DEF B

LEMMA CountedConversation ==
  ASSUME NEW B, NEW N, NEW L, NEW r \in [bot : B, unread : N, last : L], NEW u \in N, NEW a \in L
  PROVE  LET q == [r EXCEPT !.unread = u, !.last = a]
         IN  q \in [bot : B, unread : N, last : L] /\ q.bot = r.bot /\ q.unread = u /\ q.last = a
OBVIOUS

LEMMA UnreadType ==
  ASSUME NEW s, NEW i \in Nat, NEW n \in Nat, WellKept(s, i, n), NEW c
  PROVE  Unread(s, c) \in Nat
BY DEF WellKept, Convs, Unread

(* A new message, when the count is the one it raises.                     *)
Takes(s, t, i, n, k, msg) ==
  /\ i \in Nat /\ n \in Nat /\ k \in Nat /\ n <= k
  /\ WellKept(s, i, n)
  /\ msg \in Stored(i, k) /\ msg \notin s.log
  /\ t = WithMessage(s, msg, Raised(Unread(s, msg.conv), msg.from))

LEMMA MessageKept ==
  ASSUME NEW s, NEW t, NEW i, NEW n, NEW k, NEW msg, Takes(s, t, i, n, k, msg)
  PROVE  /\ WellKept(t, i, k) /\ Grows(s, t, i, i)
         /\ DOMAIN t.convs = DOMAIN s.convs
         /\ t.log = s.log \cup {msg} /\ t.bots = s.bots
  <1> DEFINE u == Raised(Unread(s, msg.conv), msg.from)
             Kept(r, c) == {m \in r.log : m.conv = c /\ m.from = "bot" /\ m \notin r.seen}
  <1>a. /\ i \in Nat /\ n \in Nat /\ k \in Nat /\ n <= k
        /\ WellKept(s, i, n)
        /\ msg \in Stored(i, k) /\ msg \notin s.log
        /\ t = WithMessage(s, msg, Raised(Unread(s, msg.conv), msg.from))
    BY DEF Takes
  <1> USE <1>a
  <1>1. WellKept(s, i, k)
    BY KeptGrows
  <1>2. s = [bots |-> s.bots, convs |-> s.convs, log |-> s.log, seen |-> s.seen]
    BY DEF WellKept
  <1>3. /\ t.bots = s.bots /\ t.log = s.log \cup {msg} /\ t.seen = s.seen
        /\ t.convs = [c \in DOMAIN s.convs |-> IF c # msg.conv THEN s.convs[c]
                                               ELSE [s.convs[c] EXCEPT !.unread = u, !.last = msg.at]]
        /\ t = [bots |-> t.bots, convs |-> t.convs, log |-> t.log, seen |-> t.seen]
    BY <1>2 DEF WithMessage
  <1>4. u \in Nat
    BY UnreadType DEF Raised
  <1>5. msg.conv \in 1 .. i /\ msg.at \in 1 .. k /\ msg.from \in {"user", "bot"}
    BY DEF Stored
  <1>6. ASSUME NEW d \in DOMAIN s.convs, d = msg.conv
        PROVE  /\ t.convs[d] \in Convs(i, k) /\ t.convs[d].bot = s.convs[d].bot
               /\ t.convs[d].unread = u /\ t.convs[d].last = msg.at
    <2>1. s.convs[d] \in Convs(i, k)
      BY <1>1 DEF WellKept
    <2>2. t.convs[d] = [s.convs[d] EXCEPT !.unread = u, !.last = msg.at]
      BY <1>3, <1>6
    <2> HIDE DEF u
    <2> HIDE DEF Kept
    <2>3. msg.at \in 0 .. k
      BY <1>5
    <2>4. PICK r : r = s.convs[d]
      OBVIOUS
    <2>5. PICK a : a = msg.at
      OBVIOUS
    <2>6. r \in Convs(i, k) /\ u \in Nat /\ a \in 0 .. k
      BY <2>1, <2>3, <2>4, <2>5, <1>4
    <2>7. LET q == [r EXCEPT !.unread = u, !.last = a]
          IN  q \in Convs(i, k) /\ q.bot = r.bot /\ q.unread = u /\ q.last = a
      BY <2>6, CountedConversation DEF Convs
    <2>8. QED
      BY <2>2, <2>4, <2>5, <2>7
  <1>7. \A d \in DOMAIN s.convs : d # msg.conv => t.convs[d] = s.convs[d] /\ t.convs[d] \in Convs(i, k)
    BY <1>1, <1>3 DEF WellKept
  <1>8. DOMAIN t.convs = DOMAIN s.convs /\ t.convs = [d \in DOMAIN t.convs |-> t.convs[d]]
    BY <1>3
  <1>9. t.convs \in [DOMAIN t.convs -> Convs(i, k)]
    BY <1>6, <1>7, <1>8
  <1>10. \A d \in DOMAIN s.convs : t.convs[d].bot = s.convs[d].bot
    BY <1>6, <1>7
  <1>11. ASSUME NEW b \in t.bots PROVE \E c \in DOMAIN t.convs : OfBot(t, b) = {c}
    <2>1. OfBot(t, b) = OfBot(s, b)
      BY <1>8, <1>10 DEF OfBot
    <2>2. QED
      BY <2>1, <1>3, <1>8 DEF WellKept
  <1>12. ASSUME NEW d \in DOMAIN t.convs PROVE Summary(t, d)
    <2>1. /\ s.convs[d].unread = Cardinality(Kept(s, d))
          /\ s.convs[d].last \in {m.at : m \in {r \in s.log : r.conv = d}} \cup {0}
      BY <1>8 DEF WellKept, Summary
    <2>2. CASE d # msg.conv
      <3>1. Kept(t, d) = Kept(s, d)
        BY <2>2, <1>3
      <3>2. {r \in t.log : r.conv = d} = {r \in s.log : r.conv = d}
        BY <2>2, <1>3
      <3>3. QED
        BY <2>1, <2>2, <3>1, <3>2, <1>7, <1>8 DEF Summary
    <2>3. CASE d = msg.conv
      <3>1. IsFiniteSet(Kept(s, d))
        BY FS_Subset DEF WellKept
      <3>2. msg \notin s.seen /\ msg \notin Kept(s, d)
        BY DEF WellKept
      <3>3. Kept(t, d) = IF msg.from = "bot" THEN Kept(s, d) \cup {msg} ELSE Kept(s, d)
        BY <2>3, <3>2, <1>3
      <3>4. Cardinality(Kept(t, d)) = u
        <4>1. u = IF msg.from = "bot" THEN s.convs[d].unread + 1 ELSE s.convs[d].unread
          BY <2>3, <1>8 DEF Raised, Unread
        <4> HIDE DEF u, Kept
        <4>2. Cardinality(Kept(s, d) \cup {msg}) = Cardinality(Kept(s, d)) + 1
          BY <3>1, <3>2, FS_AddElement
        <4>3. QED
          BY <2>1, <3>3, <4>1, <4>2
      <3>5. msg.at \in {m.at : m \in {r \in t.log : r.conv = d}}
        BY <2>3, <1>3
      <3> HIDE DEF u
      <3>6. QED
        BY <2>3, <3>4, <3>5, <1>6, <1>8 DEF Summary
    <2>4. QED
      BY <2>2, <2>3
  <1>13. t.log \subseteq Stored(i, k) /\ t.seen \subseteq t.log /\ IsFiniteSet(t.log)
    <2>1. IsFiniteSet(s.log \cup {msg})
      BY FS_AddElement DEF WellKept
    <2>2. QED
      BY <2>1, <1>1, <1>3 DEF WellKept
  <1>14. WellKept(t, i, k)
    BY <1>1, <1>3, <1>8, <1>9, <1>11, <1>12, <1>13 DEF WellKept
  <1>15. Grows(s, t, i, i)
    BY <1>3, <1>8, <1>10 DEF Grows
  <1>16. QED
    BY <1>3, <1>8, <1>14, <1>15

Reads(s, t, i, n, c) ==
  i \in Nat /\ n \in Nat /\ WellKept(s, i, n) /\ c \in DOMAIN s.convs /\ t = AsRead(s, c)

LEMMA ReadKept ==
  ASSUME NEW s, NEW t, NEW i, NEW n, NEW c, Reads(s, t, i, n, c)
  PROVE  /\ WellKept(t, i, n) /\ Grows(s, t, i, i)
         /\ DOMAIN t.convs = DOMAIN s.convs /\ t.log = s.log /\ t.bots = s.bots
  <1> DEFINE Kept(r, d) == {m \in r.log : m.conv = d /\ m.from = "bot" /\ m \notin r.seen}
  <1>1. i \in Nat /\ n \in Nat /\ WellKept(s, i, n) /\ c \in DOMAIN s.convs /\ t = AsRead(s, c)
    BY DEF Reads
  <1> USE <1>1
  <1>2. s = [bots |-> s.bots, convs |-> s.convs, log |-> s.log, seen |-> s.seen]
    BY DEF WellKept
  <1>3. /\ t.bots = s.bots /\ t.log = s.log /\ t.seen = s.seen \cup {m \in s.log : m.conv = c}
        /\ t.convs = [s.convs EXCEPT ![c].unread = 0]
        /\ t = [bots |-> t.bots, convs |-> t.convs, log |-> t.log, seen |-> t.seen]
    BY <1>2 DEF AsRead
  <1>4. DOMAIN t.convs = DOMAIN s.convs /\ t.convs = [d \in DOMAIN t.convs |-> t.convs[d]]
    BY <1>3 DEF WellKept
  <1>5. \A d \in DOMAIN s.convs : d # c => t.convs[d] = s.convs[d] /\ t.convs[d] \in Convs(i, n)
    BY <1>3 DEF WellKept
  <1>6. /\ t.convs[c] \in Convs(i, n) /\ t.convs[c].bot = s.convs[c].bot
        /\ t.convs[c].unread = 0 /\ t.convs[c].last = s.convs[c].last
    <2>1. s.convs[c] \in Convs(i, n)
      BY DEF WellKept
    <2>2. t.convs[c] = [s.convs[c] EXCEPT !.unread = 0]
      BY <1>3 DEF WellKept
    <2>3. QED
      BY <2>1, <2>2 DEF Convs
  <1>7. t.convs \in [DOMAIN t.convs -> Convs(i, n)]
    BY <1>4, <1>5, <1>6
  <1>8. \A d \in DOMAIN s.convs : t.convs[d].bot = s.convs[d].bot
    BY <1>5, <1>6
  <1>9. ASSUME NEW b \in t.bots PROVE \E d \in DOMAIN t.convs : OfBot(t, b) = {d}
    <2>1. OfBot(t, b) = OfBot(s, b)
      BY <1>4, <1>8 DEF OfBot
    <2>2. QED
      BY <2>1, <1>3, <1>4 DEF WellKept
  <1>10. ASSUME NEW d \in DOMAIN t.convs PROVE Summary(t, d)
    <2>1. /\ s.convs[d].unread = Cardinality(Kept(s, d))
          /\ s.convs[d].last \in {m.at : m \in {r \in s.log : r.conv = d}} \cup {0}
      BY <1>4 DEF WellKept, Summary
    <2>2. CASE d # c
      <3>1. Kept(t, d) = Kept(s, d)
        BY <2>2, <1>3
      <3>2. QED
        BY <2>1, <2>2, <3>1, <1>3, <1>4, <1>5 DEF Summary
    <2>3. CASE d = c
      <3>1. Kept(t, d) = {}
        BY <2>3, <1>3
      <3>2. QED
        BY <2>1, <2>3, <3>1, <1>3, <1>6, FS_EmptySet DEF Summary
    <2>4. QED
      BY <2>2, <2>3
  <1>11. t.log \subseteq Stored(i, n) /\ t.seen \subseteq t.log /\ IsFiniteSet(t.log)
    BY <1>3 DEF WellKept
  <1>12. WellKept(t, i, n)
    <2>1. t.bots \subseteq 1 .. i /\ DOMAIN t.convs \subseteq 1 .. i
      BY <1>3, <1>4 DEF WellKept
    <2>2. QED
      BY <2>1, <1>3, <1>7, <1>9, <1>10, <1>11 DEF WellKept
  <1>13. Grows(s, t, i, i)
    BY <1>3, <1>4, <1>8 DEF Grows
  <1>14. QED
    BY <1>3, <1>4, <1>12, <1>13

-----------------------------------------------------------------------------
(* Handlers.                                                               *)

(* What the handlers make of their task.                                   *)
Writing(t, f, c) == [t EXCEPT !.at = "look", !.from = f, !.conv = c]

LEMMA WritesType ==
  ASSUME NEW i \in Nat, NEW n \in Nat, NEW t \in TaskOf(i, n), NEW f \in {"user", "bot"}, NEW c \in 1 .. i
  PROVE  Writing(t, f, c) \in TaskOf(i, n) /\ Writing(t, f, c).at = "look" /\ Writing(t, f, c).conv = c
  <1> DEFINE A == {"idle", "find", "ensure", "insert", "ensure again", "look", "commit"}
             T == {"none", "starter", "send", "test", "proactive"}
             I == 0 .. i
             F == {"user", "bot"}
             S == 0 .. n
  <1>1. /\ TaskOf(i, n) = [at : A, task : T, bot : I, conv : I, from : F, stamp : S, unread : Nat]
        /\ t \in [at : A, task : T, bot : I, conv : I, from : F, stamp : S, unread : Nat]
    BY DEF TaskOf
  <1>2. PICK a : a = "look"
    OBVIOUS
  <1>3. a \in A /\ f \in F /\ c \in I
    BY <1>2
  <1> HIDE DEF A, T, I, F, S
  <1>4. LET x == [t EXCEPT !.at = a, !.from = f, !.conv = c]
        IN  /\ x \in [at : A, task : T, bot : I, conv : I, from : F, stamp : S, unread : Nat]
            /\ x.at = a /\ x.conv = c
    BY <1>1, <1>3
  <1>5. Writing(t, f, c) \in TaskOf(i, n) /\ Writing(t, f, c).at = "look" /\ Writing(t, f, c).conv = c
    BY <1>1, <1>2, <1>4 DEF Writing
  <1>6. QED
    BY <1>5

Replying(t) == [t EXCEPT !.at = "look", !.from = "bot", !.stamp = 0, !.unread = 0]

LEMMA RepliesType ==
  ASSUME NEW i \in Nat, NEW n \in Nat, NEW t \in TaskOf(i, n), t.conv \in 1 .. i
  PROVE  Replying(t) \in TaskOf(i, n) /\ Replying(t).at = "look" /\ Replying(t).conv = t.conv
  <1> DEFINE A == {"idle", "find", "ensure", "insert", "ensure again", "look", "commit"}
             T == {"none", "starter", "send", "test", "proactive"}
             I == 0 .. i
             F == {"user", "bot"}
             S == 0 .. n
  <1>1. /\ TaskOf(i, n) = [at : A, task : T, bot : I, conv : I, from : F, stamp : S, unread : Nat]
        /\ t \in [at : A, task : T, bot : I, conv : I, from : F, stamp : S, unread : Nat]
    BY DEF TaskOf
  <1>2. PICK a, f, z : a = "look" /\ f = "bot" /\ z = 0
    OBVIOUS
  <1>3. a \in A /\ f \in F /\ z \in S /\ z \in Nat
    BY <1>2
  <1> HIDE DEF A, T, I, F, S
  <1>4. LET x == [t EXCEPT !.at = a, !.from = f, !.stamp = z, !.unread = z]
        IN  /\ x \in [at : A, task : T, bot : I, conv : I, from : F, stamp : S, unread : Nat]
            /\ x.at = a /\ x.conv = t.conv
    BY <1>1, <1>3
  <1>5. Replying(t) \in TaskOf(i, n) /\ Replying(t).at = "look" /\ Replying(t).conv = t.conv
    BY <1>1, <1>2, <1>4 DEF Replying
  <1>6. QED
    BY <1>5

Ensuring(t, a) == [t EXCEPT !.at = a]

LEMMA EnsuresType ==
  ASSUME NEW i \in Nat, NEW n \in Nat, NEW t \in TaskOf(i, n)
  PROVE  \A a \in {"insert", "ensure again"} :
           Ensuring(t, a) \in TaskOf(i, n) /\ Ensuring(t, a).at = a /\ Ensuring(t, a).bot = t.bot
  <1> DEFINE A == {"idle", "find", "ensure", "insert", "ensure again", "look", "commit"}
             T == {"none", "starter", "send", "test", "proactive"}
             I == 0 .. i
             F == {"user", "bot"}
             S == 0 .. n
  <1>1. /\ TaskOf(i, n) = [at : A, task : T, bot : I, conv : I, from : F, stamp : S, unread : Nat]
        /\ t \in [at : A, task : T, bot : I, conv : I, from : F, stamp : S, unread : Nat]
    BY DEF TaskOf
  <1>2. SUFFICES ASSUME NEW a \in {"insert", "ensure again"}
                 PROVE  Ensuring(t, a) \in TaskOf(i, n) /\ Ensuring(t, a).at = a /\ Ensuring(t, a).bot = t.bot
    OBVIOUS
  <1>3. a \in A
    OBVIOUS
  <1> HIDE DEF A, T, I, F, S
  <1>4. LET x == [t EXCEPT !.at = a]
        IN  /\ x \in [at : A, task : T, bot : I, conv : I, from : F, stamp : S, unread : Nat]
            /\ x.at = a /\ x.bot = t.bot
    BY <1>1, <1>3
  <1>5. QED
    BY <1>1, <1>4 DEF Ensuring

Looked(t, s, u) == [t EXCEPT !.at = "commit", !.stamp = s, !.unread = u]

LEMMA LookedType ==
  ASSUME NEW i \in Nat, NEW n \in Nat, NEW t \in TaskOf(i, n), NEW s \in 0 .. n, NEW u \in Nat
  PROVE  Looked(t, s, u) \in TaskOf(i, n) /\ Looked(t, s, u).at = "commit" /\ Looked(t, s, u).conv = t.conv /\ Looked(t, s, u).stamp = s
  <1> DEFINE A == {"idle", "find", "ensure", "insert", "ensure again", "look", "commit"}
             T == {"none", "starter", "send", "test", "proactive"}
             I == 0 .. i
             F == {"user", "bot"}
             S == 0 .. n
  <1>1. /\ TaskOf(i, n) = [at : A, task : T, bot : I, conv : I, from : F, stamp : S, unread : Nat]
        /\ t \in [at : A, task : T, bot : I, conv : I, from : F, stamp : S, unread : Nat]
    BY DEF TaskOf
  <1>2. PICK a : a = "commit"
    OBVIOUS
  <1>3. a \in A /\ s \in S
    BY <1>2
  <1> HIDE DEF A, T, I, F, S
  <1>4. LET x == [t EXCEPT !.at = a, !.stamp = s, !.unread = u]
        IN  /\ x \in [at : A, task : T, bot : I, conv : I, from : F, stamp : S, unread : Nat]
            /\ x.at = a /\ x.conv = t.conv /\ x.stamp = s
    BY <1>1, <1>3
  <1>5. QED
    BY <1>1, <1>2, <1>4 DEF Looked

(* What the handlers start with.                                           *)
Begins(i, n, t, q, a, k, b) ==
  /\ i \in Nat /\ n \in Nat /\ t \in TaskOf(i, n)
  /\ a \in {"find", "ensure"} /\ k \in {"starter", "test"} /\ b \in 1 .. i
  /\ q = [t EXCEPT !.at = a, !.task = k, !.bot = b]

LEMMA StartsWithBot ==
  ASSUME NEW i, NEW n, NEW t, NEW q, NEW a, NEW k, NEW b, Begins(i, n, t, q, a, k, b)
  PROVE  q \in TaskOf(i, n) /\ q.at = a /\ q.bot = b
  <1>a. /\ i \in Nat /\ n \in Nat /\ t \in TaskOf(i, n)
        /\ a \in {"find", "ensure"} /\ k \in {"starter", "test"} /\ b \in 1 .. i
        /\ q = [t EXCEPT !.at = a, !.task = k, !.bot = b]
    BY DEF Begins
  <1> DEFINE A == {"idle", "find", "ensure", "insert", "ensure again", "look", "commit"}
             T == {"none", "starter", "send", "test", "proactive"}
             I == 0 .. i
             F == {"user", "bot"}
             S == 0 .. n
  <1>1. /\ TaskOf(i, n) = [at : A, task : T, bot : I, conv : I, from : F, stamp : S, unread : Nat]
        /\ t \in [at : A, task : T, bot : I, conv : I, from : F, stamp : S, unread : Nat]
    BY <1>a DEF TaskOf
  <1>3. a \in A /\ k \in T /\ b \in I
    <2>1. b \in I
      BY <1>a
    <2>2. a \in A /\ k \in T
      BY <1>a, Zenon
    <2>3. QED
      BY <2>1, <2>2
  <1> HIDE DEF A, T, I, F, S
  <1>4. LET x == [t EXCEPT !.at = a, !.task = k, !.bot = b]
        IN  /\ x \in [at : A, task : T, bot : I, conv : I, from : F, stamp : S, unread : Nat]
            /\ x.at = a /\ x.bot = b
    BY <1>1, <1>3
  <1>5. q \in TaskOf(i, n) /\ q.at = a /\ q.bot = b
    BY <1>a, <1>1, <1>4
  <1>6. QED
    BY <1>5 DEF Ready

SendTo(t, c) == [t EXCEPT !.at = "look", !.task = "send", !.conv = c]

LEMMA StartsToSend ==
  ASSUME NEW i \in Nat, NEW n \in Nat, NEW t \in TaskOf(i, n), NEW c \in 1 .. i
  PROVE  SendTo(t, c) \in TaskOf(i, n) /\ SendTo(t, c).at = "look" /\ SendTo(t, c).conv = c
  <1> DEFINE A == {"idle", "find", "ensure", "insert", "ensure again", "look", "commit"}
             T == {"none", "starter", "send", "test", "proactive"}
             I == 0 .. i
             F == {"user", "bot"}
             S == 0 .. n
  <1>1. /\ TaskOf(i, n) = [at : A, task : T, bot : I, conv : I, from : F, stamp : S, unread : Nat]
        /\ t \in [at : A, task : T, bot : I, conv : I, from : F, stamp : S, unread : Nat]
    BY DEF TaskOf
  <1>2. PICK a, k : a = "look" /\ k = "send"
    OBVIOUS
  <1>3. a \in A /\ k \in T /\ c \in I
    BY <1>2
  <1> HIDE DEF A, T, I, F, S
  <1>4. LET x == [t EXCEPT !.at = a, !.task = k, !.conv = c]
        IN  /\ x \in [at : A, task : T, bot : I, conv : I, from : F, stamp : S, unread : Nat]
            /\ x.at = a /\ x.conv = c
    BY <1>1, <1>3
  <1>5. SendTo(t, c) \in TaskOf(i, n) /\ SendTo(t, c).at = "look" /\ SendTo(t, c).conv = c
    BY <1>1, <1>2, <1>4 DEF SendTo
  <1>6. QED
    BY <1>5

SpeakIn(t, c) == [t EXCEPT !.at = "look", !.task = "proactive", !.from = "bot", !.conv = c]

LEMMA StartsForBot ==
  ASSUME NEW i \in Nat, NEW n \in Nat, NEW t \in TaskOf(i, n), NEW c \in 1 .. i
  PROVE  SpeakIn(t, c) \in TaskOf(i, n) /\ SpeakIn(t, c).at = "look" /\ SpeakIn(t, c).conv = c
  <1> DEFINE A == {"idle", "find", "ensure", "insert", "ensure again", "look", "commit"}
             T == {"none", "starter", "send", "test", "proactive"}
             I == 0 .. i
             F == {"user", "bot"}
             S == 0 .. n
  <1>1. /\ TaskOf(i, n) = [at : A, task : T, bot : I, conv : I, from : F, stamp : S, unread : Nat]
        /\ t \in [at : A, task : T, bot : I, conv : I, from : F, stamp : S, unread : Nat]
    BY DEF TaskOf
  <1>2. PICK a, k, f : a = "look" /\ k = "proactive" /\ f = "bot"
    OBVIOUS
  <1>3. a \in A /\ k \in T /\ f \in F /\ c \in I
    BY <1>2
  <1> HIDE DEF A, T, I, F, S
  <1>4. LET x == [t EXCEPT !.at = a, !.task = k, !.from = f, !.conv = c]
        IN  /\ x \in [at : A, task : T, bot : I, conv : I, from : F, stamp : S, unread : Nat]
            /\ x.at = a /\ x.conv = c
    BY <1>1, <1>3
  <1>5. SpeakIn(t, c) \in TaskOf(i, n) /\ SpeakIn(t, c).at = "look" /\ SpeakIn(t, c).conv = c
    BY <1>1, <1>2, <1>4 DEF SpeakIn
  <1>6. QED
    BY <1>5

SpeakAs(t, b) == [t EXCEPT !.at = "ensure", !.task = "proactive", !.from = "bot", !.bot = b]

LEMMA StartsToEnsure ==
  ASSUME NEW i \in Nat, NEW n \in Nat, NEW t \in TaskOf(i, n), NEW b \in 1 .. i
  PROVE  SpeakAs(t, b) \in TaskOf(i, n) /\ SpeakAs(t, b).at = "ensure" /\ SpeakAs(t, b).bot = b
  <1> DEFINE A == {"idle", "find", "ensure", "insert", "ensure again", "look", "commit"}
             T == {"none", "starter", "send", "test", "proactive"}
             I == 0 .. i
             F == {"user", "bot"}
             S == 0 .. n
  <1>1. /\ TaskOf(i, n) = [at : A, task : T, bot : I, conv : I, from : F, stamp : S, unread : Nat]
        /\ t \in [at : A, task : T, bot : I, conv : I, from : F, stamp : S, unread : Nat]
    BY DEF TaskOf
  <1>2. PICK a, k, f : a = "ensure" /\ k = "proactive" /\ f = "bot"
    OBVIOUS
  <1>3. a \in A /\ k \in T /\ f \in F /\ b \in I
    BY <1>2
  <1> HIDE DEF A, T, I, F, S
  <1>4. LET x == [t EXCEPT !.at = a, !.task = k, !.from = f, !.bot = b]
        IN  /\ x \in [at : A, task : T, bot : I, conv : I, from : F, stamp : S, unread : Nat]
            /\ x.at = a /\ x.bot = b
    BY <1>1, <1>3
  <1>5. SpeakAs(t, b) \in TaskOf(i, n) /\ SpeakAs(t, b).at = "ensure" /\ SpeakAs(t, b).bot = b
    BY <1>1, <1>2, <1>4 DEF SpeakAs
  <1>6. QED
    BY <1>5

LEMMA IdleType == \A i, n \in Nat : Idle \in TaskOf(i, n)
BY DEF Idle, TaskOf

LEMMA IdleReady == Idle.at = "idle" /\ \A i, B, E : Ready(Idle, i, B, E)
BY DEF Idle, Ready

LEMMA GoesStep ==
  ASSUME NEW w \in Workers, NEW t, NEW D, work \in [Workers -> D], Goes(w, t)
  PROVE  /\ work'[w] = t /\ \A v \in Workers : v # w => work'[v] = work[v]
         /\ work' = [v \in Workers |-> work'[v]]
BY DEF Goes

(* A handler moves on, ids and stamps are given out, bots are added.       *)
LEMMA WorkStep ==
  ASSUME WorkInv, NEW w \in Workers, NEW t, Goes(w, t),
         ids \in Nat, now \in Nat, ids' \in Nat, now' \in Nat, ids <= ids', now <= now',
         db.bots \subseteq db'.bots, mem.bots \subseteq mem'.bots,
         t \in TaskOf(ids', now'), Ready(t, ids', db'.bots, db'.bots \cup mem'.bots)
  PROVE  WorkInv' /\ work'[w] = t /\ \A v \in Workers : v # w => work'[v] = work[v]
  <1>1. /\ work'[w] = t /\ \A v \in Workers : v # w => work'[v] = work[v]
        /\ work' = [v \in Workers |-> work'[v]]
    BY GoesStep DEF WorkInv
  <1>2. TaskOf(ids, now) \subseteq TaskOf(ids', now') /\ 1 .. ids \subseteq 1 .. ids'
    BY SpaceGrows
  <1>3. \A v \in Workers : work'[v] \in TaskOf(ids', now')
    BY <1>1, <1>2 DEF WorkInv
  <1>4. \A v \in Workers : Ready(work'[v], ids', db'.bots, db'.bots \cup mem'.bots)
    <2>1. ASSUME NEW v \in Workers, v # w PROVE Ready(work'[v], ids', db'.bots, db'.bots \cup mem'.bots)
      BY <1>1, <1>2, <2>1 DEF WorkInv, Ready
    <2>2. QED
      BY <1>1, <2>1
  <1>5. QED
    BY <1>1, <1>3, <1>4 DEF WorkInv

(* Conversations are added to the stores, or messages.                     *)
StoresGrow ==
  /\ kind' = kind /\ ids' \in Nat /\ now' \in Nat /\ ids <= ids' /\ now <= now'
  /\ WellKept(db', ids', now') /\ WellKept(mem', ids', now')
  /\ Grows(db, db', ids, ids') /\ Grows(mem, mem', ids, ids')
  /\ (DOMAIN db'.convs \ DOMAIN db.convs) \cap (DOMAIN mem'.convs \ DOMAIN mem.convs) = {}
  /\ \A c \in DOMAIN db'.convs \ DOMAIN db.convs : db'.convs[c].bot \in db'.bots
  /\ kind = "memory" => db' = db

LEMMA StoresStep ==
  ASSUME StoresInv, StoresGrow
  PROVE  StoresInv'
  <1>1. /\ DOMAIN db.convs \subseteq 1 .. ids /\ DOMAIN mem.convs \subseteq 1 .. ids
    BY DEF StoresInv, WellKept
  <1>2. DOMAIN db'.convs \cap DOMAIN mem'.convs = {}
    <2>1. \A c \in (ids + 1) .. ids' : c \notin 1 .. ids
      BY DEF StoresInv
    <2>2. QED
      BY <1>1, <2>1 DEF StoresInv, StoresGrow, Grows
  <1>3. ASSUME NEW c \in DOMAIN db'.convs PROVE db'.convs[c].bot \in db'.bots
    BY DEF StoresInv, StoresGrow, Grows
  <1>4. QED
    BY <1>2, <1>3 DEF StoresInv, StoresGrow

LEMMA QuietStamps ==
  ASSUME StampInv, kind' = kind, now \in Nat, now' \in Nat, now <= now', db'.log = db.log, acked' = acked,
         \A v \in Workers : work'[v].at = "commit" => work'[v] = work[v]
  PROVE  StampInv'
  <1>1. 1 .. now \subseteq 1 .. now'
    OBVIOUS
  <1>2. QED
    BY <1>1 DEF StampInv, Stamped

LEMMA QuietAcks ==
  ASSUME StoresInv, AckInv, StoresGrow, db'.log = db.log, mem'.log = mem.log, acked' = acked
  PROVE  AckInv'
  <1>1. Stored(ids, now) \subseteq Stored(ids', now')
    BY SpaceGrows DEF StoresInv, StoresGrow
  <1>2. ASSUME NEW m \in acked, m.conv \in DOMAIN Home'.convs PROVE m \in Home'.log
    <2>1. m.conv \in 1 .. ids
      BY DEF AckInv, Stored
    <2>2. m.conv \notin (ids + 1) .. ids'
      BY <2>1 DEF StoresInv
    <2>3. m.conv \in DOMAIN Home.convs
      BY <1>2, <2>2 DEF StoresGrow, Grows, Home
    <2>4. QED
      BY <2>3 DEF AckInv, Home, StoresGrow
  <1>3. QED
    BY <1>1, <1>2 DEF AckInv

(* A step that stores no message.                                          *)
LEMMA PlainStep ==
  ASSUME ConversationInv, NEW w \in Workers, NEW t, Goes(w, t), StoresGrow,
         t \in TaskOf(ids', now'), Ready(t, ids', db'.bots, db'.bots \cup mem'.bots), t.at # "commit",
         db'.log = db.log, mem'.log = mem.log, acked' = acked, ops' \in 0 .. MaxOps
  PROVE  ConversationInv'
  <1>1. StoresInv' /\ AckInv'
    BY StoresStep, QuietAcks DEF ConversationInv
  <1>2. WorkInv' /\ work'[w] = t /\ \A v \in Workers : v # w => work'[v] = work[v]
    BY WorkStep DEF ConversationInv, StoresInv, StoresGrow, Grows
  <1>3. StampInv'
    BY <1>2, QuietStamps DEF ConversationInv, StoresInv, StoresGrow
  <1>4. QED
    BY <1>1, <1>2, <1>3 DEF ConversationInv

LEMMA OpsStep ==
  ASSUME ops \in 0 .. MaxOps, Works \/ (ops < MaxOps /\ ops' = ops + 1)
  PROVE  ops' \in 0 .. MaxOps
BY ConversationsAssumption DEF Works

(* The tables and the memory stay.                                         *)
LEMMA NoStoreStep ==
  ASSUME StoresInv, UNCHANGED <<kind, db, mem, ids>>, now' \in Nat, now <= now'
  PROVE  StoresGrow
  <1>1. ids \in Nat /\ now \in Nat /\ ids <= ids
    BY DEF StoresInv
  <1>2. /\ WellKept(db, ids, now') /\ Grows(db, db, ids, ids)
        /\ WellKept(mem, ids, now') /\ Grows(mem, mem, ids, ids)
    BY <1>1, KeptGrows DEF StoresInv
  <1>3. QED
    BY <1>1, <1>2 DEF StoresGrow

(* The memory gets a conversation, or the tables one of a bot of theirs.   *)
LEMMA MemoryStep ==
  ASSUME StoresInv, UNCHANGED <<kind, db>>, now' = now, ids' \in Nat, ids <= ids',
         WellKept(mem', ids', now), Grows(mem, mem', ids, ids')
  PROVE  StoresGrow
  <1>1. now \in Nat /\ ids \in Nat /\ now <= now
    BY DEF StoresInv
  <1>2. WellKept(db, ids', now) /\ Grows(db, db, ids, ids')
    BY <1>1, KeptGrows DEF StoresInv
  <1>3. QED
    BY <1>1, <1>2 DEF StoresGrow

LEMMA TablesStep ==
  ASSUME StoresInv, UNCHANGED <<kind, mem>>, now' = now, ids' \in Nat, ids <= ids', kind = "postgres",
         WellKept(db', ids', now), Grows(db, db', ids, ids'),
         \A c \in DOMAIN db'.convs \ DOMAIN db.convs : db'.convs[c].bot \in db'.bots
  PROVE  StoresGrow
  <1>1. now \in Nat /\ ids \in Nat /\ now <= now
    BY DEF StoresInv
  <1>2. WellKept(mem, ids', now) /\ Grows(mem, mem, ids, ids')
    BY <1>1, KeptGrows DEF StoresInv
  <1>3. QED
    BY <1>1, <1>2 DEF StoresGrow

LEMMA CreateStep ==
  ASSUME ConversationInv, NEW w \in Workers, Create(w)
  PROVE  ConversationInv'
  <1> DEFINE t == [Idle EXCEPT !.at = "find", !.task = "starter", !.bot = ids + 1]
  <1>1. /\ Goes(w, t) /\ ids' = ids + 2 /\ UNCHANGED <<kind, acked, now>>
        /\ IF kind = "postgres" THEN db' = WithBot(db, ids + 1, ids + 2) /\ UNCHANGED mem
           ELSE mem' = WithBot(mem, ids + 1, ids + 2) /\ UNCHANGED db
    BY DEF Create
  <1>2. ids \in Nat /\ now \in Nat /\ ids' \in Nat /\ ids <= ids' /\ ids + 1 \in 1 .. ids'
        /\ ids + 1 \in (ids + 1) .. ids' /\ ids + 2 \in (ids + 1) .. ids'
    BY <1>1 DEF ConversationInv, StoresInv
  <1>3. StoresGrow /\ db'.log = db.log /\ mem'.log = mem.log
        /\ ids + 1 \in db'.bots \cup mem'.bots
    <2>1. CASE kind = "postgres"
      <3>1. /\ WellKept(db', ids', now) /\ Grows(db, db', ids, ids')
            /\ DOMAIN db'.convs = DOMAIN db.convs \cup {ids + 2} /\ db'.convs[ids + 2].bot = ids + 1
            /\ db'.log = db.log /\ db'.bots = db.bots \cup {ids + 1}
        <4>1. GetsBot(db, db', ids, now, ids', ids + 1, ids + 2)
          BY <1>1, <1>2, <2>1 DEF ConversationInv, StoresInv, GetsBot
        <4>2. QED
          BY <4>1, BotKept
      <3>2. StoresGrow
        BY <1>1, <1>2, <2>1, <3>1, TablesStep DEF ConversationInv
      <3>3. QED
        BY <1>1, <2>1, <3>1, <3>2
    <2>2. CASE kind # "postgres"
      <3>1. /\ WellKept(mem', ids', now) /\ Grows(mem, mem', ids, ids')
            /\ mem'.log = mem.log /\ mem'.bots = mem.bots \cup {ids + 1}
        <4>1. GetsBot(mem, mem', ids, now, ids', ids + 1, ids + 2)
          BY <1>1, <1>2, <2>2 DEF ConversationInv, StoresInv, GetsBot
        <4>2. QED
          BY <4>1, BotKept
      <3>2. StoresGrow
        BY <1>1, <1>2, <2>2, <3>1, MemoryStep DEF ConversationInv
      <3>3. QED
        BY <1>1, <2>2, <3>1, <3>2
    <2>3. QED
      BY <2>1, <2>2
  <1>4. t \in TaskOf(ids', now') /\ Ready(t, ids', db'.bots, db'.bots \cup mem'.bots) /\ t.at = "find"
    <2>1. Idle \in TaskOf(ids', now')
      BY <1>1, <1>2, IdleType
    <2>2. PICK a, k, b : a = "find" /\ k = "starter" /\ b = ids + 1
      OBVIOUS
    <2>3. /\ a \in {"find", "ensure"} /\ k \in {"starter", "test"} /\ b \in 1 .. ids'
          /\ b \in db'.bots \cup mem'.bots /\ t = [Idle EXCEPT !.at = a, !.task = k, !.bot = b]
      BY <1>2, <1>3, <2>2
    <2> HIDE DEF t
    <2>4. ids' \in Nat /\ now' \in Nat
      BY <1>1, <1>2
    <2>5. t \in TaskOf(ids', now') /\ t.bot = b /\ t.at = a
      <3>1. Begins(ids', now', Idle, t, a, k, b)
        BY <2>1, <2>3, <2>4 DEF Begins
      <3>2. QED
        BY <3>1, StartsWithBot
    <2>6. QED
      BY <2>2, <2>3, <2>5 DEF Ready
  <1>5. ops' \in 0 .. MaxOps
    BY OpsStep DEF Create, Starts, ConversationInv
  <1> HIDE DEF t
  <1>6. QED
    BY <1>1, <1>3, <1>4, <1>5, PlainStep

LEMMA CreateFailsStep ==
  ASSUME ConversationInv, NEW w \in Workers, CreateFails(w)
  PROVE  ConversationInv'
  <1> DEFINE t == [Idle EXCEPT !.at = "find", !.task = "starter", !.bot = ids + 3]
  <1>1. /\ Goes(w, t) /\ ids' = ids + 4 /\ UNCHANGED <<kind, acked, now>> /\ kind = "postgres"
        /\ db' \in {db, WithBot(db, ids + 1, ids + 2)}
        /\ mem' = WithBot(mem, ids + 3, ids + 4)
    BY DEF CreateFails, QueryFails
  <1>2. ids \in Nat /\ now \in Nat /\ ids' \in Nat /\ ids <= ids' /\ ids + 3 \in 1 .. ids'
        /\ ids + 1 \in (ids + 1) .. ids' /\ ids + 2 \in (ids + 1) .. ids'
        /\ ids + 3 \in (ids + 1) .. ids' /\ ids + 4 \in (ids + 1) .. ids' /\ ids + 2 # ids + 4
    BY <1>1 DEF ConversationInv, StoresInv
  <1>3. /\ WellKept(mem', ids', now) /\ Grows(mem, mem', ids, ids')
        /\ DOMAIN mem'.convs = DOMAIN mem.convs \cup {ids + 4}
        /\ mem'.log = mem.log /\ mem'.bots = mem.bots \cup {ids + 3}
    <2>1. PICK b, c : b = ids + 3 /\ c = ids + 4
      OBVIOUS
    <2>2. b \in (ids + 1) .. ids' /\ c \in (ids + 1) .. ids' /\ mem' = WithBot(mem, b, c)
      BY <1>1, <1>2, <2>1
    <2>3. WellKept(mem, ids, now) /\ ids \in Nat /\ now \in Nat /\ ids' \in Nat /\ ids <= ids'
      BY <1>2 DEF ConversationInv, StoresInv
    <2>4. /\ WellKept(mem', ids', now) /\ Grows(mem, mem', ids, ids')
          /\ DOMAIN mem'.convs = DOMAIN mem.convs \cup {c}
          /\ mem'.log = mem.log /\ mem'.bots = mem.bots \cup {b}
      <3>1. GetsBot(mem, mem', ids, now, ids', b, c)
        BY <2>2, <2>3 DEF GetsBot
      <3>2. QED
        BY <3>1, BotKept
    <2>5. QED
      BY <2>1, <2>4
  <1>4. /\ WellKept(db', ids', now) /\ Grows(db, db', ids, ids') /\ db'.log = db.log
        /\ \A c \in DOMAIN db'.convs \ DOMAIN db.convs : c = ids + 2 /\ db'.convs[c].bot \in db'.bots
    <2>1. CASE db' = db
      BY <1>2, <2>1, KeptGrows DEF ConversationInv, StoresInv
    <2>2. CASE db' = WithBot(db, ids + 1, ids + 2)
      <3>1. /\ WellKept(db', ids', now) /\ Grows(db, db', ids, ids')
            /\ DOMAIN db'.convs = DOMAIN db.convs \cup {ids + 2} /\ db'.convs[ids + 2].bot = ids + 1
            /\ db'.log = db.log /\ db'.bots = db.bots \cup {ids + 1}
        <4>1. PICK b, c : b = ids + 1 /\ c = ids + 2
          OBVIOUS
        <4>2. b \in (ids + 1) .. ids' /\ c \in (ids + 1) .. ids' /\ db' = WithBot(db, b, c)
          BY <1>2, <2>2, <4>1
        <4>3. WellKept(db, ids, now) /\ ids \in Nat /\ now \in Nat /\ ids' \in Nat /\ ids <= ids'
          BY <1>2 DEF ConversationInv, StoresInv
        <4>4. /\ WellKept(db', ids', now) /\ Grows(db, db', ids, ids')
              /\ DOMAIN db'.convs = DOMAIN db.convs \cup {c} /\ db'.convs[c].bot = b
              /\ db'.log = db.log /\ db'.bots = db.bots \cup {b}
          <5>1. GetsBot(db, db', ids, now, ids', b, c)
            BY <4>2, <4>3 DEF GetsBot
          <5>2. QED
            BY <5>1, BotKept
        <4>5. QED
          BY <4>1, <4>4
      <3>2. QED
        BY <3>1
    <2>3. QED
      BY <1>1, <2>1, <2>2
  <1>5. StoresGrow
    BY <1>1, <1>2, <1>3, <1>4 DEF StoresGrow
  <1>6. t \in TaskOf(ids', now') /\ Ready(t, ids', db'.bots, db'.bots \cup mem'.bots) /\ t.at = "find"
    <2>1. Idle \in TaskOf(ids', now')
      BY <1>1, <1>2, IdleType
    <2>2. PICK a, k, b : a = "find" /\ k = "starter" /\ b = ids + 3
      OBVIOUS
    <2>3. /\ a \in {"find", "ensure"} /\ k \in {"starter", "test"} /\ b \in 1 .. ids'
          /\ b \in db'.bots \cup mem'.bots /\ t = [Idle EXCEPT !.at = a, !.task = k, !.bot = b]
      BY <1>2, <1>3, <2>2
    <2> HIDE DEF t
    <2>4. ids' \in Nat /\ now' \in Nat
      BY <1>1, <1>2
    <2>5. t \in TaskOf(ids', now') /\ t.bot = b /\ t.at = a
      <3>1. Begins(ids', now', Idle, t, a, k, b)
        BY <2>1, <2>3, <2>4 DEF Begins
      <3>2. QED
        BY <3>1, StartsWithBot
    <2>6. QED
      BY <2>2, <2>3, <2>5 DEF Ready
  <1>7. ops' \in 0 .. MaxOps
    BY OpsStep DEF CreateFails, QueryFails, ConversationInv
  <1> HIDE DEF t
  <1>8. QED
    BY <1>1, <1>3, <1>4, <1>5, <1>6, <1>7, PlainStep

(* A handler moves on, and nothing else changes.                           *)
LEMMA MoveStep ==
  ASSUME ConversationInv, NEW w \in Workers, NEW t \in TaskOf(ids, now), Goes(w, t), t.at # "commit",
         Ready(t, ids, db.bots, db.bots \cup mem.bots),
         UNCHANGED <<kind, db, mem, acked, ids, now>>, ops' \in 0 .. MaxOps
  PROVE  ConversationInv'
  <1>1. now' \in Nat /\ now <= now'
    BY DEF ConversationInv, StoresInv
  <1>2. StoresGrow
    BY <1>1, NoStoreStep DEF ConversationInv
  <1>3. QED
    BY <1>2, PlainStep

LEMMA FoundIds ==
  ASSUME StoresInv, NEW b
  PROVE  OfBot(db, b) \subseteq 1 .. ids /\ OfBot(mem, b) \subseteq 1 .. ids /\ ByBot(b) \subseteq 1 .. ids
  <1>1. DOMAIN db.convs \subseteq 1 .. ids /\ DOMAIN mem.convs \subseteq 1 .. ids
    BY DEF StoresInv, WellKept
  <1>2. QED
    BY <1>1 DEF OfBot, ByBot

LEMMA KnownIds ==
  ASSUME StoresInv, NEW c, Known(c)
  PROVE  c \in 1 .. ids
BY DEF StoresInv, WellKept, Known

LEMMA MayWrite ==
  ASSUME ConversationInv, NEW w \in Workers, NEW f \in {"user", "bot"}, NEW c \in 1 .. ids, Writes(w, f, c)
  PROVE  \E t \in TaskOf(ids, now) : /\ Goes(w, t) /\ t.at = "look"
                                     /\ \A B, E : Ready(t, ids, B, E)
  <1>1. ids \in Nat /\ now \in Nat /\ work[w] \in TaskOf(ids, now)
    BY DEF ConversationInv, StoresInv, WorkInv
  <1>2. Goes(w, Writing(work[w], f, c))
    BY DEF Writes, Writing
  <1>3. Writing(work[w], f, c) \in TaskOf(ids, now) /\ Writing(work[w], f, c).at = "look"
        /\ Writing(work[w], f, c).conv = c
    BY <1>1, WritesType
  <1>4. \A B, E : Ready(Writing(work[w], f, c), ids, B, E)
    BY <1>3 DEF Ready
  <1>5. QED
    BY <1>2, <1>3, <1>4

LEMMA MayReply ==
  ASSUME ConversationInv, NEW w \in Workers, work[w].conv \in 1 .. ids, Replies(w) \/ Refused(w)
  PROVE  \E t \in TaskOf(ids, now) : /\ Goes(w, t) /\ t.at \in {"look", "idle"}
                                     /\ \A B, E : Ready(t, ids, B, E)
  <1>1. ids \in Nat /\ now \in Nat /\ work[w] \in TaskOf(ids, now)
    BY DEF ConversationInv, StoresInv, WorkInv
  <1>2. Goes(w, Replying(work[w])) \/ Goes(w, Idle)
    BY DEF Replies, Refused, Replying
  <1>3. Replying(work[w]) \in TaskOf(ids, now) /\ Replying(work[w]).at = "look"
        /\ Replying(work[w]).conv = work[w].conv
    BY <1>1, RepliesType
  <1>4. \A B, E : Ready(Replying(work[w]), ids, B, E)
    BY <1>3 DEF Ready
  <1>5. Idle \in TaskOf(ids, now)
    BY <1>1, IdleType
  <1>6. QED
    BY <1>2, <1>3, <1>4, <1>5, IdleReady

LEMMA FindStep ==
  ASSUME ConversationInv, NEW w \in Workers, Find(w)
  PROVE  ConversationInv'
  <1>1. PICK found \in {ByBot(work[w].bot), OfBot(mem, work[w].bot)} :
          /\ IF found = ByBot(work[w].bot) THEN Works ELSE QueryFails
          /\ IF found = {} THEN Goes(w, Idle) ELSE \E c \in found : Writes(w, "bot", c)
    BY DEF Find
  <1>2. UNCHANGED <<kind, db, mem, acked, ids, now>>
    BY DEF Find
  <1>3. ops' \in 0 .. MaxOps
    BY <1>1, OpsStep DEF QueryFails, ConversationInv
  <1>4. \E t \in TaskOf(ids, now) : /\ Goes(w, t) /\ t.at # "commit"
                                    /\ \A B, E : Ready(t, ids, B, E)
    <2>1. CASE found = {}
      <3>1. Idle \in TaskOf(ids, now)
        BY IdleType DEF ConversationInv, StoresInv
      <3>2. QED
        BY <1>1, <2>1, <3>1, IdleReady
    <2>2. CASE found # {}
      <3>1. PICK c \in found : Writes(w, "bot", c)
        BY <1>1, <2>2
      <3>2. c \in 1 .. ids
        BY <3>1, <1>1, FoundIds DEF ConversationInv
      <3>3. PICK f \in {"user", "bot"} : f = "bot"
        OBVIOUS
      <3>4. \E t \in TaskOf(ids, now) : /\ Goes(w, t) /\ t.at = "look"
                                        /\ \A B, E : Ready(t, ids, B, E)
        BY <3>1, <3>2, <3>3, MayWrite
      <3>5. QED
        BY <3>4
    <2>3. QED
      BY <2>1, <2>2
  <1>5. QED
    BY <1>2, <1>3, <1>4, MoveStep

LEMMA SendStep ==
  ASSUME ConversationInv, NEW w \in Workers, NEW c \in 1 .. ids, Send(w, c)
  PROVE  ConversationInv'
  <1>1. ids \in Nat /\ now \in Nat /\ Idle \in TaskOf(ids, now)
    BY IdleType DEF ConversationInv, StoresInv
  <1>2. Goes(w, SendTo(Idle, c))
    BY DEF Send, SendTo
  <1>3. SendTo(Idle, c) \in TaskOf(ids, now) /\ SendTo(Idle, c).at = "look" /\ SendTo(Idle, c).conv = c
    BY <1>1, StartsToSend
  <1>4. Ready(SendTo(Idle, c), ids, db.bots, db.bots \cup mem.bots)
    BY <1>3 DEF Ready
  <1>5. ops' \in 0 .. MaxOps /\ UNCHANGED <<kind, db, mem, acked, ids, now>>
    BY OpsStep DEF Send, Starts, ConversationInv
  <1>6. QED
    BY <1>2, <1>3, <1>4, <1>5, MoveStep

LEMMA TestChatStep ==
  ASSUME ConversationInv, NEW w \in Workers, NEW b \in 1 .. ids, TestChat(w, b)
  PROVE  ConversationInv'
  <1>1. ids \in Nat /\ now \in Nat /\ Idle \in TaskOf(ids, now)
    BY IdleType DEF ConversationInv, StoresInv
  <1>2. PICK t : t = [Idle EXCEPT !.at = "ensure", !.task = "test", !.bot = b]
    OBVIOUS
  <1>3. PICK a, k : a = "ensure" /\ k = "test"
    OBVIOUS
  <1>4. Begins(ids, now, Idle, t, a, k, b)
    BY <1>1, <1>2, <1>3 DEF Begins
  <1>5. t \in TaskOf(ids, now) /\ t.at = "ensure" /\ t.bot = b
    BY <1>3, <1>4, StartsWithBot
  <1>6. Goes(w, t) /\ b \in db.bots \cup mem.bots
    BY <1>2 DEF TestChat, Exists
  <1>7. Ready(t, ids, db.bots, db.bots \cup mem.bots)
    BY <1>5, <1>6 DEF Ready
  <1>8. ops' \in 0 .. MaxOps /\ UNCHANGED <<kind, db, mem, acked, ids, now>>
    BY OpsStep DEF TestChat, Starts, ConversationInv
  <1>9. QED
    BY <1>5, <1>6, <1>7, <1>8, MoveStep

LEMMA TestProactiveStep ==
  ASSUME ConversationInv, NEW w \in Workers, NEW b \in 1 .. ids, NEW c, TestProactive(w, b, c)
  PROVE  ConversationInv'
  <1>1. ids \in Nat /\ now \in Nat /\ Idle \in TaskOf(ids, now)
    BY IdleType DEF ConversationInv, StoresInv
  <1>2. ops' \in 0 .. MaxOps /\ UNCHANGED <<kind, db, mem, acked, ids, now>>
    BY OpsStep DEF TestProactive, Starts, ConversationInv
  <1>3. CASE Known(c)
    <2>1. Goes(w, SpeakIn(Idle, c)) /\ c \in 1 .. ids
      BY <1>3, KnownIds DEF TestProactive, SpeakIn, ConversationInv
    <2>2. SpeakIn(Idle, c) \in TaskOf(ids, now) /\ SpeakIn(Idle, c).at = "look" /\ SpeakIn(Idle, c).conv = c
      BY <1>1, <2>1, StartsForBot
    <2>3. Ready(SpeakIn(Idle, c), ids, db.bots, db.bots \cup mem.bots)
      BY <2>1, <2>2 DEF Ready
    <2>4. QED
      BY <1>2, <2>1, <2>2, <2>3, MoveStep
  <1>4. CASE ~Known(c)
    <2>1. Goes(w, SpeakAs(Idle, b)) /\ b \in db.bots \cup mem.bots
      BY <1>4 DEF TestProactive, SpeakAs, Exists
    <2>2. SpeakAs(Idle, b) \in TaskOf(ids, now) /\ SpeakAs(Idle, b).at = "ensure" /\ SpeakAs(Idle, b).bot = b
      BY <1>1, StartsToEnsure
    <2>3. Ready(SpeakAs(Idle, b), ids, db.bots, db.bots \cup mem.bots)
      BY <2>1, <2>2 DEF Ready
    <2>4. QED
      BY <1>2, <2>1, <2>2, <2>3, MoveStep
  <1>5. QED
    BY <1>3, <1>4

(* A bot of a store has a conversation there.                              *)
LEMMA BotHasOne ==
  ASSUME StoresInv, NEW b
  PROVE  (b \in db.bots => OfBot(db, b) # {}) /\ (b \in mem.bots => OfBot(mem, b) # {})
BY DEF StoresInv, WellKept

LEMMA EnsureEmbeddedStep ==
  ASSUME ConversationInv, NEW w \in Workers, work[w].bot \in 1 .. ids, EnsureEmbedded(w),
         UNCHANGED <<kind, db, acked, now>>, ops' \in 0 .. MaxOps
  PROVE  ConversationInv'
  <1>1. ids \in Nat /\ now \in Nat /\ work[w] \in TaskOf(ids, now) /\ work[w].from \in {"user", "bot"}
    BY DEF ConversationInv, StoresInv, WorkInv, TaskOf
  <1>2. CASE OfBot(mem, work[w].bot) # {}
    <2>1. PICK c \in OfBot(mem, work[w].bot) : Writes(w, work[w].from, c)
      BY <1>2 DEF EnsureEmbedded
    <2>2. c \in 1 .. ids
      BY FoundIds DEF ConversationInv
    <2>3. PICK t \in TaskOf(ids, now) : /\ Goes(w, t) /\ t.at = "look"
                                        /\ \A B, E : Ready(t, ids, B, E)
      BY <1>1, <2>1, <2>2, MayWrite
    <2>4. UNCHANGED <<mem, ids>>
      BY <1>2 DEF EnsureEmbedded
    <2>5. QED
      BY <2>3, <2>4, MoveStep
  <1>3. CASE OfBot(mem, work[w].bot) = {}
    <2>1. /\ mem' = WithConversation(mem, work[w].bot, ids + 1)
          /\ ids' = ids + 1
          /\ Writes(w, work[w].from, ids + 1)
      BY <1>3 DEF EnsureEmbedded
    <2>2. ids' \in Nat /\ ids <= ids' /\ work[w].bot \in 1 .. ids' /\ ids + 1 \in (ids + 1) .. ids'
          /\ ids + 1 \in 1 .. ids'
      BY <1>1, <2>1
    <2>3. /\ WellKept(mem', ids', now) /\ Grows(mem, mem', ids, ids')
          /\ mem'.log = mem.log /\ mem'.bots = mem.bots
      <3>1. PICK b, c : b = work[w].bot /\ c = ids + 1
        OBVIOUS
      <3>2. /\ b \in 1 .. ids' /\ c \in (ids + 1) .. ids' /\ OfBot(mem, b) = {}
            /\ mem' = WithConversation(mem, b, c)
        BY <1>3, <2>1, <2>2, <3>1
      <3>3. WellKept(mem, ids, now)
        BY DEF ConversationInv, StoresInv
      <3>4. Gets(mem, mem', ids, now, ids', b, c)
        BY <1>1, <2>2, <3>2, <3>3 DEF Gets
      <3>5. QED
        BY <3>4, ConversationKept
    <2>4. StoresGrow
      BY <2>2, <2>3, MemoryStep DEF ConversationInv
    <2>5. PICK t : t = Writing(work[w], work[w].from, ids + 1)
      OBVIOUS
    <2>6. work[w] \in TaskOf(ids', now)
      BY <1>1, <2>2, SpaceGrows
    <2>7. t \in TaskOf(ids', now) /\ t.at = "look" /\ t.conv = ids + 1
      <3>1. PICK f, c : f = work[w].from /\ c = ids + 1
        OBVIOUS
      <3>2. c \in 1 .. ids' /\ t = Writing(work[w], f, c) /\ f \in {"user", "bot"}
        BY <1>1, <2>2, <2>5, <3>1
      <3>3. ids' \in Nat /\ now \in Nat
        BY <1>1, <2>2
      <3>4. t \in TaskOf(ids', now) /\ t.at = "look" /\ t.conv = c
        BY <2>6, <3>2, <3>3, WritesType
      <3>5. QED
        BY <3>1, <3>4
    <2>8. Ready(t, ids', db'.bots, db'.bots \cup mem'.bots)
      BY <2>2, <2>7 DEF Ready
    <2>9. Goes(w, t)
      BY <2>1, <2>5 DEF Writes, Writing
    <2>10. QED
      BY <2>3, <2>4, <2>7, <2>8, <2>9, PlainStep
  <1>4. QED
    BY <1>2, <1>3

LEMMA EnsureStep ==
  ASSUME ConversationInv, NEW w \in Workers, Ensure(w)
  PROVE  ConversationInv'
  <1>1. PICK found \in {ByBot(work[w].bot), OfBot(mem, work[w].bot)} :
          /\ IF found = ByBot(work[w].bot) THEN Works ELSE QueryFails
          /\ CASE found # {} -> (\E c \in found : Writes(w, work[w].from, c)) /\ UNCHANGED <<mem, ids>>
               [] found = {} /\ kind = "postgres" /\ work[w].at = "ensure" ->
                    Goes(w, [work[w] EXCEPT !.at = "insert"]) /\ UNCHANGED <<mem, ids>>
               [] OTHER -> EnsureEmbedded(w)
    BY DEF Ensure
  <1>2. work[w].at \in {"ensure", "ensure again"} /\ UNCHANGED <<kind, db, acked, now>>
    BY DEF Ensure
  <1>3. ops' \in 0 .. MaxOps
    BY <1>1, OpsStep DEF QueryFails, ConversationInv
  <1>4. /\ ids \in Nat /\ now \in Nat /\ work[w] \in TaskOf(ids, now) /\ work[w].from \in {"user", "bot"}
        /\ Ready(work[w], ids, db.bots, db.bots \cup mem.bots)
    BY DEF ConversationInv, StoresInv, WorkInv, TaskOf
  <1>5. work[w].bot \in 1 .. ids
    BY <1>2, <1>4 DEF Ready
  <1>6. CASE found # {}
    <2>1. PICK c \in found : Writes(w, work[w].from, c)
      BY <1>1, <1>6
    <2>2. c \in 1 .. ids
      BY <1>1, FoundIds DEF ConversationInv
    <2>3. PICK t \in TaskOf(ids, now) : /\ Goes(w, t) /\ t.at = "look"
                                        /\ \A B, E : Ready(t, ids, B, E)
      BY <1>4, <2>1, <2>2, MayWrite
    <2>4. UNCHANGED <<mem, ids>>
      BY <1>1, <1>6
    <2>5. QED
      BY <1>2, <1>3, <2>3, <2>4, MoveStep
  <1>7. CASE found = {} /\ kind = "postgres" /\ work[w].at = "ensure"
    <2>1. Goes(w, Ensuring(work[w], "insert")) /\ UNCHANGED <<mem, ids>>
      BY <1>1, <1>7 DEF Ensuring
    <2>2. PICK a \in {"insert", "ensure again"} : a = "insert"
      OBVIOUS
    <2>3. /\ Ensuring(work[w], a) \in TaskOf(ids, now) /\ Ensuring(work[w], a).at = a
          /\ Ensuring(work[w], a).bot = work[w].bot
      <3>1. \A q \in {"insert", "ensure again"} :
              /\ Ensuring(work[w], q) \in TaskOf(ids, now) /\ Ensuring(work[w], q).at = q
              /\ Ensuring(work[w], q).bot = work[w].bot
        <4>1. ids \in Nat /\ now \in Nat /\ work[w] \in TaskOf(ids, now)
          BY <1>4
        <4>2. QED
          BY <4>1, EnsuresType
      <3>2. QED
        BY <3>1
    <2>4. work[w].bot \in db.bots
      <3>1. OfBot(mem, work[w].bot) = {}
        BY <1>1, <1>7 DEF ByBot
      <3>2. work[w].bot \notin mem.bots
        BY <3>1, BotHasOne DEF ConversationInv
      <3>3. QED
        BY <1>4, <1>7, <3>2 DEF Ready
    <2>5. Ready(Ensuring(work[w], a), ids, db.bots, db.bots \cup mem.bots)
      BY <1>5, <2>2, <2>3, <2>4 DEF Ready
    <2>6. QED
      BY <1>2, <1>3, <2>1, <2>2, <2>3, <2>5, MoveStep
  <1>8. CASE found = {} /\ ~(kind = "postgres" /\ work[w].at = "ensure")
    <2>1. EnsureEmbedded(w)
      BY <1>1, <1>8
    <2>2. QED
      BY <1>2, <1>3, <1>5, <2>1, EnsureEmbeddedStep
  <1>9. QED
    BY <1>6, <1>7, <1>8

(* ON CONFLICT finds the conversation: the bot is in the tables.           *)
LEMMA InsertStep ==
  ASSUME ConversationInv, NEW w \in Workers, Insert(w)
  PROVE  ConversationInv'
  <1>1. /\ ids \in Nat /\ now \in Nat /\ work[w] \in TaskOf(ids, now)
        /\ Ready(work[w], ids, db.bots, db.bots \cup mem.bots)
    BY DEF ConversationInv, StoresInv, WorkInv
  <1>2. work[w].at = "insert" /\ UNCHANGED <<kind, mem, acked, now>>
        /\ Goes(w, Ensuring(work[w], "ensure again"))
    BY DEF Insert, Ensuring
  <1>3. work[w].bot \in db.bots /\ work[w].bot \in 1 .. ids
    BY <1>1, <1>2 DEF Ready
  <1>4. OfBot(db, work[w].bot) # {}
    BY <1>3, BotHasOne DEF ConversationInv
  <1>5. UNCHANGED <<db, ids>>
    BY <1>4 DEF Insert, Inserted
  <1>6. ops' \in 0 .. MaxOps
    BY OpsStep DEF Insert, QueryFails, ConversationInv
  <1>7. PICK a \in {"insert", "ensure again"} : a = "ensure again"
    OBVIOUS
  <1>8. /\ Ensuring(work[w], a) \in TaskOf(ids, now) /\ Ensuring(work[w], a).at = a
        /\ Ensuring(work[w], a).bot = work[w].bot
    <2>1. \A q \in {"insert", "ensure again"} :
            /\ Ensuring(work[w], q) \in TaskOf(ids, now) /\ Ensuring(work[w], q).at = q
            /\ Ensuring(work[w], q).bot = work[w].bot
      BY <1>1, EnsuresType
    <2>2. QED
      BY <2>1
  <1>9. Ready(Ensuring(work[w], a), ids, db.bots, db.bots \cup mem.bots)
    BY <1>3, <1>7, <1>8 DEF Ready
  <1>10. QED
    BY <1>2, <1>5, <1>6, <1>7, <1>8, <1>9, MoveStep

LEMMA LookStep ==
  ASSUME ConversationInv, NEW w \in Workers, Look(w)
  PROVE  ConversationInv'
  <1>1. PICK found \in {Known(work[w].conv), work[w].conv \in DOMAIN mem.convs} :
          /\ IF found = Known(work[w].conv) THEN Works ELSE QueryFails
          /\ IF found
             THEN /\ now' = now + 1
                  /\ Goes(w, [work[w] EXCEPT !.at = "commit", !.stamp = now + 1,
                                             !.unread = Unread(db, work[w].conv)])
             ELSE Refused(w) /\ UNCHANGED now
    BY DEF Look
  <1>2. work[w].at = "look" /\ kind = "postgres" /\ UNCHANGED <<kind, db, mem, acked, ids>>
    BY DEF Look
  <1>3. ops' \in 0 .. MaxOps
    BY <1>1, OpsStep DEF QueryFails, ConversationInv
  <1>4. /\ ids \in Nat /\ now \in Nat /\ work[w] \in TaskOf(ids, now)
        /\ Ready(work[w], ids, db.bots, db.bots \cup mem.bots)
    BY DEF ConversationInv, StoresInv, WorkInv
  <1>5. work[w].conv \in 1 .. ids
    BY <1>2, <1>4 DEF Ready
  <1>6. CASE ~found
    <2>1. PICK t \in TaskOf(ids, now) : /\ Goes(w, t) /\ t.at \in {"look", "idle"}
                                        /\ \A B, E : Ready(t, ids, B, E)
      BY <1>1, <1>5, <1>6, MayReply
    <2>2. QED
      BY <1>1, <1>2, <1>3, <1>6, <2>1, MoveStep
  <1>7. CASE found
    <2>1. PICK n : n = now + 1
      OBVIOUS
    <2>2. PICK u : u = Unread(db, work[w].conv)
      OBVIOUS
    <2>3. n \in Nat /\ now' = n /\ now <= n /\ u \in Nat /\ n \in 0 .. n
      BY <1>1, <1>4, <1>7, <2>1, <2>2, UnreadType DEF ConversationInv, StoresInv
    <2>4. Goes(w, Looked(work[w], n, u))
      BY <1>1, <1>7, <2>1, <2>2 DEF Looked
    <2>5. work[w] \in TaskOf(ids, n)
      BY <1>4, <2>3, SpaceGrows
    <2>6. PICK t : t = Looked(work[w], n, u)
      OBVIOUS
    <2>7. t \in TaskOf(ids, n) /\ t.at = "commit" /\ t.conv = work[w].conv /\ t.stamp = n
      <3>1. ids \in Nat /\ n \in Nat /\ n \in 0 .. n /\ u \in Nat
        BY <1>4, <2>3
      <3>2. /\ Looked(work[w], n, u) \in TaskOf(ids, n) /\ Looked(work[w], n, u).at = "commit"
            /\ Looked(work[w], n, u).conv = work[w].conv /\ Looked(work[w], n, u).stamp = n
        BY <2>5, <3>1, LookedType
      <3>3. QED
        BY <2>6, <3>2
    <2>8. Ready(t, ids, db.bots, db.bots \cup mem.bots)
      BY <1>5, <2>7 DEF Ready
    <2>9. StoresGrow
      BY <1>2, <2>3, NoStoreStep DEF ConversationInv
    <2>10. StoresInv' /\ AckInv'
      BY <1>2, <2>9, StoresStep, QuietAcks DEF ConversationInv
    <2>11. WorkInv' /\ work'[w] = t /\ \A v \in Workers : v # w => work'[v] = work[v]
      BY <1>2, <1>4, <2>3, <2>4, <2>6, <2>7, <2>8, WorkStep DEF ConversationInv
    <2>12. StampInv'
      <3>1. \A m \in db.log \cup acked : m.at \in 1 .. now
        BY DEF ConversationInv, StoresInv, WellKept, AckInv, Stored
      <3>2. ASSUME NEW v \in Workers, work'[v].at = "commit"
            PROVE  /\ kind' = "postgres" /\ work'[v].stamp \in 1 .. now'
                   /\ \A m \in db'.log \cup acked' : m.at # work'[v].stamp
        <4>1. CASE v = w
          <5>1. \A m \in db.log \cup acked : m.at # n
            BY <1>4, <2>1, <3>1
          <5>2. n \in 1 .. n
            BY <1>4, <2>1
          <5>3. QED
            BY <1>2, <2>3, <2>7, <2>11, <4>1, <5>1, <5>2
        <4>2. CASE v # w
          <5>1. work[v].at = "commit" /\ work'[v].stamp = work[v].stamp
            BY <2>11, <3>2, <4>2
          <5>2. /\ work[v].stamp \in 1 .. now
                /\ \A m \in db.log \cup acked : m.at # work[v].stamp
            BY <5>1 DEF ConversationInv, StampInv, Stamped
          <5>3. work[v].stamp \in 1 .. now'
            BY <1>4, <2>3, <5>2
          <5>4. QED
            BY <1>2, <5>1, <5>2, <5>3
        <4>3. QED
          BY <4>1, <4>2
      <3>3. ASSUME NEW u1 \in Workers, NEW v \in Workers, work'[u1].at = "commit", work'[v].at = "commit", u1 # v
            PROVE  work'[u1].stamp # work'[v].stamp
        <4>1. \A x \in Workers : x # w /\ work'[x].at = "commit" => work'[x].stamp \in 1 .. now
          BY <2>11 DEF ConversationInv, StampInv, Stamped
        <4>2. n \notin 1 .. now
          BY <1>4, <2>1
        <4>3. CASE u1 = w \/ v = w
          BY <2>7, <2>11, <3>3, <4>1, <4>2, <4>3
        <4>4. CASE u1 # w /\ v # w
          BY <2>11, <3>3, <4>4 DEF ConversationInv, StampInv, Stamped
        <4>5. QED
          BY <4>3, <4>4
      <3>4. QED
        BY <3>2, <3>3 DEF StampInv, Stamped
    <2>13. QED
      BY <1>3, <2>10, <2>11, <2>12 DEF ConversationInv
  <1>8. QED
    BY <1>6, <1>7

(* A step of a handler that stores D in the tables and M in the memory, of *)
(* which it acknowledges some, each at most one message.                   *)
Stores(w, D, M) ==
  /\ D \subseteq Stored(ids, now') /\ M \subseteq Stored(ids, now')
  /\ (\A m, n \in D : m = n) /\ (\A m, n \in M : m = n)
  /\ \A m \in D : Stamped(w) /\ m.at = work[w].stamp
  /\ \A m \in M : m.at = now + 1 /\ m.conv \in DOMAIN mem.convs
  /\ db'.log = db.log \cup D /\ mem'.log = mem.log \cup M
  /\ acked \subseteq acked' /\ M \subseteq acked' /\ acked' \subseteq acked \cup D \cup M
  /\ DOMAIN db'.convs = DOMAIN db.convs /\ DOMAIN mem'.convs = DOMAIN mem.convs

LEMMA StoreStep ==
  ASSUME ConversationInv, NEW w \in Workers, NEW t \in TaskOf(ids, now), Goes(w, t), t.at # "commit",
         \A B, E : Ready(t, ids, B, E), StoresGrow, ids' = ids, ops' \in 0 .. MaxOps,
         NEW D, NEW M, Stores(w, D, M)
  PROVE  ConversationInv'
  <1>1. StoresInv'
    BY StoresStep DEF ConversationInv
  <1>2. ids \in Nat /\ now \in Nat /\ now' \in Nat /\ now <= now' /\ ids <= ids'
    BY DEF ConversationInv, StoresInv, StoresGrow
  <1>3. WorkInv' /\ work'[w] = t /\ \A v \in Workers : v # w => work'[v] = work[v]
    <2>1. t \in TaskOf(ids', now') /\ Ready(t, ids', db'.bots, db'.bots \cup mem'.bots)
      BY <1>2, SpaceGrows
    <2>2. db.bots \subseteq db'.bots /\ mem.bots \subseteq mem'.bots
      BY DEF StoresGrow, Grows
    <2>3. QED
      BY <1>2, <2>1, <2>2, WorkStep DEF ConversationInv
  <1>4. \A m \in db.log \cup acked : m.at \in 1 .. now
    BY DEF ConversationInv, StoresInv, WellKept, AckInv, Stored
  <1>5. db'.log \cup acked' = ((db.log \cup acked) \cup D) \cup M
        \/ db'.log \cup acked' = (db.log \cup acked) \cup D
    BY DEF Stores
  <1>6. \A m \in db'.log \cup acked' : m \in db.log \cup acked \/ m \in D \/ m \in M
    BY DEF Stores
  <1>7. ASSUME NEW v \in Workers, v # w, Stamped(v)
        PROVE  \A m \in db'.log \cup acked' : m.at # work[v].stamp
    <2>1. /\ work[v].stamp \in 1 .. now
          /\ \A m \in db.log \cup acked : m.at # work[v].stamp
      BY <1>7 DEF ConversationInv, StampInv
    <2>2. \A m \in D : m.at # work[v].stamp
      BY <1>7 DEF Stores, ConversationInv, StampInv
    <2>3. \A m \in M : m.at # work[v].stamp
      BY <1>2, <2>1 DEF Stores
    <2>4. QED
      BY <1>6, <2>1, <2>2, <2>3
  <1>8. StampInv'
    <2>1. \A v \in Workers : work'[v].at = "commit" => v # w /\ Stamped(v) /\ work'[v] = work[v]
      BY <1>3 DEF Stamped
    <2>2. \A v \in Workers : Stamped(v) => kind' = "postgres" /\ work[v].stamp \in 1 .. now'
      <3>1. \A v \in Workers : Stamped(v) => kind = "postgres" /\ work[v].stamp \in 1 .. now
        BY DEF ConversationInv, StampInv
      <3>2. 1 .. now \subseteq 1 .. now'
        BY <1>2
      <3>3. QED
        BY <3>1, <3>2 DEF StoresGrow
    <2>3. \A u, v \in Workers : Stamped(u) /\ Stamped(v) /\ u # v => work[u].stamp # work[v].stamp
      BY DEF ConversationInv, StampInv
    <2>4. ASSUME NEW v \in Workers, work'[v].at = "commit"
          PROVE  /\ kind' = "postgres" /\ work'[v].stamp \in 1 .. now'
                 /\ \A m \in db'.log \cup acked' : m.at # work'[v].stamp
      BY <1>7, <2>1, <2>2, <2>4
    <2>5. ASSUME NEW u \in Workers, NEW v \in Workers, work'[u].at = "commit", work'[v].at = "commit", u # v
          PROVE  work'[u].stamp # work'[v].stamp
      BY <2>1, <2>3, <2>5
    <2>6. QED
      BY <2>4, <2>5 DEF StampInv, Stamped
  <1>9. \A m, n \in db'.log \cup acked' : m.at = n.at => m = n
    <2>1. \A m, n \in db.log \cup acked : m.at = n.at => m = n
      BY DEF ConversationInv, AckInv
    <2>2. \A m \in D : m.at \in 1 .. now /\ \A n \in db.log \cup acked : m.at # n.at
      BY DEF Stores, ConversationInv, StampInv
    <2>3. \A m \in M, n \in (db.log \cup acked) \cup D : m.at # n.at
      <3>1. \A n \in (db.log \cup acked) \cup D : n.at \in 1 .. now
        BY <1>4, <2>2
      <3>2. \A m \in M : m.at = now + 1
        BY DEF Stores
      <3>3. now + 1 \notin 1 .. now
        BY <1>2
      <3>4. QED
        BY <3>1, <3>2, <3>3
    <2>4. (\A m, n \in D : m = n) /\ (\A m, n \in M : m = n)
      BY DEF Stores
    <2>5. TAKE m, n \in db'.log \cup acked'
    <2>6. CASE m \in M
      BY <1>6, <2>3, <2>4, <2>6
    <2>7. CASE n \in M
      BY <1>6, <2>3, <2>4, <2>7
    <2>8. CASE m \notin M /\ n \notin M
      BY <1>6, <2>1, <2>2, <2>4, <2>8
    <2>9. QED
      BY <2>6, <2>7, <2>8
  <1>10. ASSUME NEW m \in acked', m.conv \in DOMAIN Home'.convs PROVE m \in Home'.log
    <2>1. \A n \in acked : n.conv \in DOMAIN Home.convs => n \in Home.log
      BY DEF ConversationInv, AckInv
    <2>2. kind' = kind /\ m.conv \in DOMAIN Home.convs
      BY <1>10 DEF Home, StoresGrow, Stores
    <2>3. Home.log \subseteq Home'.log
      BY <2>2 DEF Home, Stores
    <2>4. CASE m \in acked
      BY <2>1, <2>2, <2>3, <2>4
    <2>5. CASE m \in D
      <3>1. kind = "postgres"
        BY <2>5 DEF Stores, ConversationInv, StampInv
      <3>2. QED
        BY <2>2, <2>5, <3>1 DEF Home, Stores
    <2>6. CASE m \in M
      <3>1. m.conv \in DOMAIN mem.convs
        BY <2>6 DEF Stores
      <3>2. kind # "postgres"
        BY <2>2, <3>1 DEF Home, ConversationInv, StoresInv
      <3>3. QED
        BY <2>2, <2>6, <3>2 DEF Home, Stores
    <2>7. QED
      BY <2>4, <2>5, <2>6 DEF Stores
  <1>11. acked' \subseteq Stored(ids', now') /\ mem'.log \subseteq acked'
    <2>1. acked \subseteq Stored(ids', now')
      BY <1>2, SpaceGrows DEF ConversationInv, AckInv
    <2>2. mem.log \subseteq acked
      BY DEF ConversationInv, AckInv
    <2>3. QED
      BY <2>1, <2>2 DEF Stores
  <1>12. AckInv'
    BY <1>9, <1>10, <1>11 DEF AckInv
  <1>13. QED
    BY <1>1, <1>3, <1>8, <1>12 DEF ConversationInv

(* What SaveEmbedded does to the memory, which is not what it tells.       *)
EmbeddedStores(M) ==
  /\ now' \in Nat /\ now <= now'
  /\ WellKept(mem', ids, now') /\ Grows(mem, mem', ids, ids)
  /\ DOMAIN mem'.convs = DOMAIN mem.convs
  /\ M \subseteq Stored(ids, now') /\ \A m, n \in M : m = n
  /\ \A m \in M : m.at = now + 1 /\ m.conv \in DOMAIN mem.convs
  /\ mem'.log = mem.log \cup M /\ acked' = acked \cup M

LEMMA EmbeddedStep ==
  ASSUME ConversationInv, NEW w \in Workers, work[w].conv \in 1 .. ids, SaveEmbedded(w)
  PROVE  (\E M : EmbeddedStores(M)) /\ (Replies(w) \/ Refused(w))
  <1> DEFINE msg == [conv |-> work[w].conv, from |-> work[w].from, at |-> now + 1]
  <1>1. ids \in Nat /\ now \in Nat /\ work[w].from \in {"user", "bot"} /\ WellKept(mem, ids, now)
    BY DEF ConversationInv, StoresInv, WorkInv, TaskOf
  <1>2. CASE msg.conv \in DOMAIN mem.convs
    <2>1. /\ mem' = WithMessage(mem, msg, Raised(Unread(mem, msg.conv), msg.from))
          /\ acked' = acked \cup {msg} /\ now' = now + 1 /\ Replies(w)
      BY <1>2 DEF SaveEmbedded
    <2>2. now' \in Nat /\ now <= now' /\ now + 1 \in 1 .. now'
      BY <1>1, <2>1
    <2>3. msg \in Stored(ids, now')
      BY <1>1, <2>2 DEF Stored
    <2>4. msg \notin mem.log
      <3>1. \A m \in mem.log : m.at \in 1 .. now
        BY <1>1 DEF WellKept, Stored
      <3>2. msg.at \notin 1 .. now
        BY <1>1
      <3>3. QED
        BY <3>1, <3>2
    <2>5. PICK x : x = msg
      OBVIOUS
    <2>6. x.at = now + 1 /\ x.conv \in DOMAIN mem.convs
      BY <1>2, <2>5
    <2> HIDE DEF msg
    <2>7. Takes(mem, mem', ids, now, now', x)
      BY <1>1, <2>1, <2>2, <2>3, <2>4, <2>5 DEF Takes
    <2>8. /\ WellKept(mem', ids, now') /\ Grows(mem, mem', ids, ids)
          /\ DOMAIN mem'.convs = DOMAIN mem.convs /\ mem'.log = mem.log \cup {x}
      BY <2>7, MessageKept
    <2>9. EmbeddedStores({x})
      BY <2>1, <2>2, <2>3, <2>5, <2>6, <2>8 DEF EmbeddedStores
    <2>10. QED
      BY <2>1, <2>9
  <1>3. CASE msg.conv \notin DOMAIN mem.convs
    <2>1. Refused(w) /\ UNCHANGED <<mem, acked, now>>
      BY <1>3 DEF SaveEmbedded
    <2>2. WellKept(mem', ids, now') /\ Grows(mem, mem', ids, ids)
      BY <1>1, <2>1 DEF Grows
    <2>3. EmbeddedStores({})
      BY <1>1, <2>1, <2>2 DEF EmbeddedStores
    <2>4. QED
      BY <2>1, <2>3
  <1>4. QED
    BY <1>2, <1>3

LEMMA SaveInMemoryStep ==
  ASSUME ConversationInv, NEW w \in Workers, SaveInMemory(w)
  PROVE  ConversationInv'
  <1>1. /\ work[w].at = "look" /\ SaveEmbedded(w) /\ UNCHANGED <<kind, db, ids>> /\ kind = "memory"
        /\ ops' \in 0 .. MaxOps
    BY OpsStep DEF SaveInMemory, ConversationInv
  <1>2. work[w].conv \in 1 .. ids /\ ids \in Nat /\ now \in Nat
    BY <1>1 DEF ConversationInv, StoresInv, WorkInv, Ready
  <1>3. PICK M : EmbeddedStores(M)
    BY <1>1, <1>2, EmbeddedStep
  <1>4. PICK t \in TaskOf(ids, now) : /\ Goes(w, t) /\ t.at \in {"look", "idle"}
                                      /\ \A B, E : Ready(t, ids, B, E)
    BY <1>1, <1>2, EmbeddedStep, MayReply
  <1>5. StoresGrow
    <2>1. WellKept(db, ids, now') /\ Grows(db, db, ids, ids)
      BY <1>2, <1>3, KeptGrows DEF EmbeddedStores, ConversationInv, StoresInv
    <2>2. QED
      BY <1>1, <1>2, <1>3, <2>1 DEF StoresGrow, EmbeddedStores
  <1>6. Stores(w, {}, M)
    BY <1>1, <1>3 DEF Stores, EmbeddedStores
  <1>7. QED
    BY <1>1, <1>4, <1>5, <1>6, StoreStep

(* The transaction, when n stamps are given out.                           *)
LEMMA TxStep ==
  ASSUME ConversationInv, NEW w \in Workers, work[w].at = "commit", Tx(w), now' \in Nat, now <= now'
  PROVE  /\ WellKept(db', ids, now') /\ Grows(db, db', ids, ids)
         /\ DOMAIN db'.convs = DOMAIN db.convs /\ db'.log = db.log \cup {Message(w)}
         /\ Message(w) \in Stored(ids, now') /\ Message(w).at = work[w].stamp /\ Stamped(w)
  <1>1. /\ ids \in Nat /\ now \in Nat /\ work[w].from \in {"user", "bot"} /\ WellKept(db, ids, now)
        /\ work[w].conv \in 1 .. ids
    BY DEF ConversationInv, StoresInv, WorkInv, TaskOf, Ready
  <1>2. work[w].stamp \in 1 .. now /\ \A m \in db.log \cup acked : m.at # work[w].stamp
    BY DEF ConversationInv, StampInv, Stamped
  <1>3. work[w].stamp \in 1 .. now'
    BY <1>1, <1>2
  <1>4. PICK x : x = Message(w)
    OBVIOUS
  <1>5. x \in Stored(ids, now') /\ x \notin db.log /\ x.conv = work[w].conv /\ x.from = work[w].from
        /\ x.at = work[w].stamp
    BY <1>1, <1>2, <1>3, <1>4 DEF Message, Stored
  <1>6. db' = WithMessage(db, x, Raised(Unread(db, x.conv), x.from))
    BY <1>4, <1>5 DEF Tx
  <1>7. Takes(db, db', ids, now, now', x)
    BY <1>1, <1>5, <1>6 DEF Takes
  <1>8. /\ WellKept(db', ids, now') /\ Grows(db, db', ids, ids)
        /\ DOMAIN db'.convs = DOMAIN db.convs /\ db'.log = db.log \cup {x}
    BY <1>7, MessageKept
  <1>9. QED
    BY <1>4, <1>5, <1>8 DEF Stamped

LEMMA CommitStep ==
  ASSUME ConversationInv, NEW w \in Workers, Commit(w)
  PROVE  ConversationInv'
  <1>1. work[w].at = "commit" /\ UNCHANGED <<kind, ids>>
    BY DEF Commit
  <1>2. ops' \in 0 .. MaxOps
    BY OpsStep DEF Commit, QueryFails, ConversationInv
  <1>3. work[w].conv \in 1 .. ids /\ ids \in Nat /\ now \in Nat /\ kind = "postgres"
        /\ WellKept(db, ids, now) /\ WellKept(mem, ids, now)
    BY <1>1 DEF ConversationInv, StoresInv, WorkInv, Ready, StampInv, Stamped
  <1>4. CASE Tx(w) /\ acked' = acked \cup {Message(w)} /\ Replies(w) /\ UNCHANGED <<mem, now>>
    <2>1. now' \in Nat /\ now <= now'
      BY <1>3, <1>4
    <2>2. /\ WellKept(db', ids, now') /\ Grows(db, db', ids, ids)
          /\ DOMAIN db'.convs = DOMAIN db.convs /\ db'.log = db.log \cup {Message(w)}
          /\ Message(w) \in Stored(ids, now') /\ Message(w).at = work[w].stamp /\ Stamped(w)
      BY <1>1, <1>4, <2>1, TxStep
    <2>3. PICK t \in TaskOf(ids, now) : /\ Goes(w, t) /\ t.at \in {"look", "idle"}
                                        /\ \A B, E : Ready(t, ids, B, E)
      BY <1>3, <1>4, MayReply
    <2>4. StoresGrow
      <3>1. WellKept(mem', ids, now') /\ Grows(mem, mem', ids, ids)
        BY <1>3, <1>4, KeptGrows
      <3>2. QED
        BY <1>1, <1>3, <1>4, <2>1, <2>2, <3>1 DEF StoresGrow
    <2>5. PICK x : x = Message(w)
      OBVIOUS
    <2>6. Stores(w, {x}, {})
      BY <1>4, <2>2, <2>5 DEF Stores
    <2>7. QED
      BY <1>1, <1>2, <2>3, <2>4, <2>6, StoreStep
  <1>5. CASE UNCHANGED db /\ SaveEmbedded(w)
    <2>1. PICK M : EmbeddedStores(M)
      BY <1>3, <1>5, EmbeddedStep
    <2>2. PICK t \in TaskOf(ids, now) : /\ Goes(w, t) /\ t.at \in {"look", "idle"}
                                        /\ \A B, E : Ready(t, ids, B, E)
      BY <1>3, <1>5, EmbeddedStep, MayReply
    <2>3. StoresGrow
      <3>1. WellKept(db, ids, now') /\ Grows(db, db, ids, ids)
        BY <1>3, <2>1, KeptGrows DEF EmbeddedStores
      <3>2. QED
        BY <1>1, <1>3, <1>5, <2>1, <3>1 DEF StoresGrow, EmbeddedStores
    <2>4. Stores(w, {}, M)
      BY <1>5, <2>1 DEF Stores, EmbeddedStores
    <2>5. QED
      BY <1>1, <1>2, <2>2, <2>3, <2>4, StoreStep
  <1>6. CASE Tx(w) /\ SaveEmbedded(w)
    <2>1. PICK M : EmbeddedStores(M)
      BY <1>3, <1>6, EmbeddedStep
    <2>2. PICK t \in TaskOf(ids, now) : /\ Goes(w, t) /\ t.at \in {"look", "idle"}
                                        /\ \A B, E : Ready(t, ids, B, E)
      BY <1>3, <1>6, EmbeddedStep, MayReply
    <2>3. /\ WellKept(db', ids, now') /\ Grows(db, db', ids, ids)
          /\ DOMAIN db'.convs = DOMAIN db.convs /\ db'.log = db.log \cup {Message(w)}
          /\ Message(w) \in Stored(ids, now') /\ Message(w).at = work[w].stamp /\ Stamped(w)
      BY <1>1, <1>6, <2>1, TxStep DEF EmbeddedStores
    <2>4. StoresGrow
      BY <1>1, <1>3, <2>1, <2>3 DEF StoresGrow, EmbeddedStores
    <2>5. PICK x : x = Message(w)
      OBVIOUS
    <2>6. Stores(w, {x}, M)
      BY <2>1, <2>3, <2>5 DEF Stores, EmbeddedStores
    <2>7. QED
      BY <1>1, <1>2, <2>2, <2>4, <2>6, StoreStep
  <1>7. QED
    BY <1>4, <1>5, <1>6 DEF Commit

LEMMA MarkReadStep ==
  ASSUME ConversationInv, NEW c, MarkRead(c)
  PROVE  ConversationInv'
  <1>1. Marked(c) /\ UNCHANGED <<kind, work, acked, ids, now>> /\ ops' \in 0 .. MaxOps
    BY OpsStep DEF MarkRead, ConversationInv
  <1>2. ids \in Nat /\ now \in Nat /\ WellKept(db, ids, now) /\ WellKept(mem, ids, now)
    BY DEF ConversationInv, StoresInv
  <1>3. StoresGrow /\ db'.log = db.log /\ mem'.log = mem.log /\ db'.bots = db.bots /\ mem'.bots = mem.bots
    <2>1. CASE kind = "postgres" /\ c \in DOMAIN db.convs /\ db' = AsRead(db, c) /\ UNCHANGED mem
      <3>1. /\ WellKept(db', ids, now) /\ Grows(db, db', ids, ids)
            /\ DOMAIN db'.convs = DOMAIN db.convs /\ db'.log = db.log /\ db'.bots = db.bots
        <4>1. Reads(db, db', ids, now, c)
          BY <1>2, <2>1 DEF Reads
        <4>2. QED
          BY <4>1, ReadKept
      <3>2. QED
        BY <1>1, <1>2, <2>1, <3>1, TablesStep DEF ConversationInv
    <2>2. CASE c \in DOMAIN mem.convs /\ mem' = AsRead(mem, c) /\ UNCHANGED db
      <3>1. /\ WellKept(mem', ids, now) /\ Grows(mem, mem', ids, ids)
            /\ mem'.log = mem.log /\ mem'.bots = mem.bots
        <4>1. Reads(mem, mem', ids, now, c)
          BY <1>2, <2>2 DEF Reads
        <4>2. QED
          BY <4>1, ReadKept
      <3>2. QED
        BY <1>1, <1>2, <2>2, <3>1, MemoryStep DEF ConversationInv
    <2>3. QED
      BY <1>1, <2>1, <2>2 DEF Marked
  <1>4. StoresInv' /\ AckInv'
    BY <1>1, <1>3, StoresStep, QuietAcks DEF ConversationInv
  <1>5. WorkInv'
    BY <1>1, <1>3 DEF ConversationInv, WorkInv
  <1>6. StampInv'
    BY <1>1, <1>3 DEF ConversationInv, StampInv, Stamped
  <1>7. QED
    BY <1>1, <1>4, <1>5, <1>6 DEF ConversationInv

LEMMA RestartStep ==
  ASSUME ConversationInv, Restart
  PROVE  ConversationInv'
  <1>1. /\ mem' = Empty /\ work' = [w \in Workers |-> Idle]
        /\ UNCHANGED <<kind, db, acked, ids, now>> /\ ops' \in 0 .. MaxOps
    BY OpsStep DEF Restart, ConversationInv
  <1>2. ids \in Nat /\ now \in Nat
    BY DEF ConversationInv, StoresInv
  <1>3. WellKept(mem', ids, now) /\ DOMAIN mem'.convs = {} /\ mem'.log = {}
    BY <1>1, <1>2, EmptyKept
  <1>4. StoresInv'
    BY <1>1, <1>3 DEF ConversationInv, StoresInv
  <1>5. WorkInv'
    <2>1. Idle \in TaskOf(ids, now)
      BY <1>2, IdleType
    <2>2. QED
      BY <1>1, <2>1, IdleReady DEF WorkInv
  <1>6. StampInv'
    BY <1>1, IdleReady DEF StampInv, Stamped
  <1>7. AckInv'
    BY <1>1, <1>3 DEF ConversationInv, AckInv, Home
  <1>8. QED
    BY <1>1, <1>4, <1>5, <1>6, <1>7 DEF ConversationInv

LEMMA InitConversation == Init => ConversationInv
  <1> SUFFICES ASSUME Init PROVE ConversationInv
    OBVIOUS
  <1>1. /\ kind \in {"memory", "postgres"} /\ db = Empty /\ mem = Empty
        /\ work = [w \in Workers |-> Idle] /\ acked = {} /\ ids = 0 /\ now = 0 /\ ops = 0
    BY DEF Init
  <1>2. WellKept(Empty, ids, now) /\ DOMAIN Empty.convs = {} /\ Empty.log = {}
    BY <1>1, EmptyKept
  <1>3. StoresInv
    BY <1>1, <1>2 DEF StoresInv
  <1>4. WorkInv
    <2>1. Idle \in TaskOf(ids, now)
      BY <1>1, IdleType
    <2>2. QED
      BY <1>1, <2>1, IdleReady DEF WorkInv
  <1>5. StampInv
    BY <1>1, IdleReady DEF StampInv, Stamped
  <1>6. AckInv
    BY <1>1, <1>2 DEF AckInv
  <1>7. QED
    BY <1>1, <1>3, <1>4, <1>5, <1>6, ConversationsAssumption DEF ConversationInv

LEMMA NextConversation == ConversationInv /\ [Next]_vars => ConversationInv'
  <1> SUFFICES ASSUME ConversationInv, [Next]_vars PROVE ConversationInv'
    OBVIOUS
  <1>1. ASSUME NEW w \in Workers, Create(w) PROVE ConversationInv'
    BY <1>1, CreateStep
  <1>2. ASSUME NEW w \in Workers, CreateFails(w) PROVE ConversationInv'
    BY <1>2, CreateFailsStep
  <1>3. ASSUME NEW w \in Workers, Find(w) PROVE ConversationInv'
    BY <1>3, FindStep
  <1>4. ASSUME NEW w \in Workers, Ensure(w) PROVE ConversationInv'
    BY <1>4, EnsureStep
  <1>5. ASSUME NEW w \in Workers, Insert(w) PROVE ConversationInv'
    BY <1>5, InsertStep
  <1>6. ASSUME NEW w \in Workers, Look(w) PROVE ConversationInv'
    BY <1>6, LookStep
  <1>7. ASSUME NEW w \in Workers, SaveInMemory(w) PROVE ConversationInv'
    BY <1>7, SaveInMemoryStep
  <1>8. ASSUME NEW w \in Workers, Commit(w) PROVE ConversationInv'
    BY <1>8, CommitStep
  <1>9. ASSUME NEW w \in Workers, NEW c \in 1 .. ids, Send(w, c) PROVE ConversationInv'
    BY <1>9, SendStep
  <1>10. ASSUME NEW w \in Workers, NEW b \in 1 .. ids, TestChat(w, b) PROVE ConversationInv'
    BY <1>10, TestChatStep
  <1>11. ASSUME NEW w \in Workers, NEW b \in 1 .. ids, NEW c \in 0 .. ids, TestProactive(w, b, c)
         PROVE  ConversationInv'
    BY <1>11, TestProactiveStep
  <1>12. ASSUME NEW c \in 1 .. ids, MarkRead(c) PROVE ConversationInv'
    BY <1>12, MarkReadStep
  <1>13. CASE Restart
    BY <1>13, RestartStep
  <1>14. CASE UNCHANGED vars
    BY <1>14 DEF vars, ConversationInv, StoresInv, WorkInv, StampInv, Stamped, AckInv, Home
  <1>15. QED
    BY <1>1, <1>2, <1>3, <1>4, <1>5, <1>6, <1>7, <1>8, <1>9, <1>10, <1>11, <1>12, <1>13, <1>14 DEF Next

LEMMA ConversationsKept == Spec => []ConversationInv
  <1>1. QED
    BY InitConversation, NextConversation, PTL DEF Spec

-----------------------------------------------------------------------------
(* Pages.                                                                  *)

(* A finite set that is not empty has an element above which there is      *)
(* none, in an order R.                                                    *)
LEMMA ExtremeElement ==
  ASSUME NEW S, IsFiniteSet(S), S # {}, NEW R,
         \A x \in S : <<x, x>> \notin R,
         \A x, y, z \in S : <<x, y>> \in R /\ <<y, z>> \in R => <<x, z>> \in R
  PROVE  \E x \in S : \A y \in S : <<x, y>> \notin R
  <1> DEFINE Above(x) == {y \in S : <<x, y>> \in R}
             All == {Above(x) : x \in S}
  <1>1. All \subseteq FiniteSubsetsOf(S) /\ All # {}
    <2>1. FiniteSubsetsOf(S) = SUBSET S
      BY FS_FiniteSubsetsOfFinite
    <2>2. All \subseteq SUBSET S /\ All # {}
      <3>1. \A x \in S : Above(x) \subseteq S
        OBVIOUS
      <3> HIDE DEF Above
      <3>2. QED
        BY <3>1
    <2>3. QED
      BY <2>1, <2>2
  <1>2. IsWellFoundedOn(StrictSubsetOrdering(S), FiniteSubsetsOf(S))
    BY FS_StrictSubsetOrderingWellFounded
  <1>3. PICK T \in All : \A U \in All : <<U, T>> \notin StrictSubsetOrdering(S)
    <2> HIDE DEF All
    <2>1. QED
      BY <1>1, <1>2, WFMin
  <1>4. PICK x \in S : T = Above(x)
    BY <1>3
  <1>5. ASSUME NEW y \in S, <<x, y>> \in R PROVE FALSE
    <2>1. Above(y) \subseteq Above(x) /\ y \in Above(x) /\ y \notin Above(y)
      BY <1>5
    <2>2. Above(y) \in All /\ Above(y) \subseteq S /\ Above(x) \subseteq S
      <3>1. Above(y) \subseteq S /\ Above(x) \subseteq S
        OBVIOUS
      <3> HIDE DEF Above
      <3>2. Above(y) \in {Above(z) : z \in S}
        OBVIOUS
      <3>3. QED
        BY <3>1, <3>2
    <2>3. <<Above(y), Above(x)>> \in StrictSubsetOrdering(S)
      BY <2>1, <2>2 DEF StrictSubsetOrdering
    <2>4. QED
      BY <1>3, <1>4, <2>2, <2>3
  <1>6. QED
    BY <1>5

LEMMA NewestAndOldest ==
  ASSUME NEW S, IsFiniteSet(S), S # {}, \A x \in S : x.at \in Nat
  PROVE  /\ \E x \in S : \A y \in S : y.at <= x.at
         /\ \E x \in S : \A y \in S : x.at <= y.at
  <1>1. \E x \in S : \A y \in S : y.at <= x.at
    <2>1. PICK R : R = {p \in S \X S : p[1].at < p[2].at}
      OBVIOUS
    <2>2. \A x, y \in S : <<x, y>> \in R <=> x.at < y.at
      BY <2>1
    <2>3. \A x \in S : <<x, x>> \notin R
      BY <2>2
    <2>4. \A x, y, z \in S : <<x, y>> \in R /\ <<y, z>> \in R => <<x, z>> \in R
      BY <2>2
    <2>5. PICK x \in S : \A y \in S : <<x, y>> \notin R
      BY <2>3, <2>4, ExtremeElement
    <2>6. ASSUME NEW y \in S PROVE y.at <= x.at
      <3>1. x.at \in Nat /\ y.at \in Nat
        OBVIOUS
      <3>2. ~(x.at < y.at)
        BY <2>2, <2>5
      <3>3. QED
        BY <3>1, <3>2
    <2>7. QED
      BY <2>6
  <1>2. \E x \in S : \A y \in S : x.at <= y.at
    <2>1. PICK R : R = {p \in S \X S : p[1].at > p[2].at}
      OBVIOUS
    <2>2. \A x, y \in S : <<x, y>> \in R <=> x.at > y.at
      BY <2>1
    <2>3. \A x \in S : <<x, x>> \notin R
      BY <2>2
    <2>4. \A x, y, z \in S : <<x, y>> \in R /\ <<y, z>> \in R => <<x, z>> \in R
      BY <2>2
    <2>5. PICK x \in S : \A y \in S : <<x, y>> \notin R
      BY <2>3, <2>4, ExtremeElement
    <2>6. ASSUME NEW y \in S PROVE x.at <= y.at
      <3>1. x.at \in Nat /\ y.at \in Nat
        OBVIOUS
      <3>2. ~(x.at > y.at)
        BY <2>2, <2>5
      <3>3. QED
        BY <3>1, <3>2
    <2>7. QED
      BY <2>6
  <1>3. QED
    BY <1>1, <1>2

(* What is not on the page is older than a page of messages.               *)
LEMMA PageIsFull ==
  ASSUME NEW s, NEW c, IsFiniteSet(s.log), \A x \in s.log : x.at \in Nat,
         \A x, y \in s.log : x.at = y.at => x = y,
         NEW m \in s.log, m.conv = c, m \notin Page(s, c)
  PROVE  Cardinality(Page(s, c)) = PageSize /\ \A y \in Page(s, c) : y.at > m.at
  <1> DEFINE L == {x \in s.log : x.conv = c}
             Newer(x) == {y \in s.log : y.conv = c /\ y.at > x.at}
             P == Page(s, c)
             Out == L \ P
  <1>1. P = {x \in L : Cardinality(Newer(x)) < PageSize}
    BY DEF Page
  <1>2. P \subseteq L /\ Out \subseteq L /\ \A x : Newer(x) \subseteq L
    BY <1>1
  <1>3. /\ IsFiniteSet(L) /\ IsFiniteSet(P) /\ IsFiniteSet(Out) /\ \A x : IsFiniteSet(Newer(x))
    <2>1. L \subseteq s.log /\ P \subseteq s.log /\ Out \subseteq s.log /\ \A x : Newer(x) \subseteq s.log
      BY <1>2
    <2>2. \A T \in SUBSET s.log : IsFiniteSet(T)
      BY FS_Subset
    <2> HIDE DEF L, P, Out, Newer
    <2>3. QED
      BY <2>1, <2>2
  <1>4. \A x \in L : x.at \in Nat
    OBVIOUS
  <1>5. \A x, y \in L : x.at = y.at => x = y
    OBVIOUS
  <1>6. \A x, y : y \in Newer(x) <=> y \in L /\ y.at > x.at
    OBVIOUS
  <1>7. m \in Out
    OBVIOUS
  <1> HIDE DEF L, Newer, P, Out
  <1>8. \A x : Cardinality(Newer(x)) \in Nat
    BY <1>3, FS_CardinalityType
  <1>9. ASSUME NEW x \in P, NEW y \in L, y.at > x.at PROVE y \in P
    <2>1. x \in L
      BY <1>2
    <2>2. Newer(y) \subseteq Newer(x)
      <3>1. ASSUME NEW z \in Newer(y) PROVE z.at > x.at /\ z \in L
        <4>1. z \in L /\ z.at > y.at
          BY <1>6
        <4>2. x.at \in Nat /\ y.at \in Nat /\ z.at \in Nat
          BY <1>4, <2>1, <4>1
        <4>3. QED
          BY <1>9, <4>1, <4>2
      <3>2. QED
        BY <1>6, <3>1
    <2>3. Cardinality(Newer(y)) <= Cardinality(Newer(x))
      BY <1>3, <2>2, FS_Subset
    <2>4. Cardinality(Newer(x)) < PageSize
      BY <1>1
    <2>5. Cardinality(Newer(y)) < PageSize
      BY <1>8, <2>3, <2>4, ConversationsAssumption
    <2>6. QED
      BY <1>1, <2>5
  <1>10. ASSUME NEW x \in Out, NEW y \in P PROVE y.at > x.at
    <2>1. x \in L /\ y \in L /\ x \notin P /\ x # y
      BY <1>2 DEF Out
    <2>2. x.at \in Nat /\ y.at \in Nat /\ x.at # y.at
      BY <1>4, <1>5, <2>1
    <2>3. ~(x.at > y.at)
      BY <1>9, <2>1
    <2>4. QED
      BY <2>2, <2>3
  <1>11. Cardinality(P) \in Nat /\ Cardinality(P) >= PageSize
    <2>1. \A x \in Out : x.at \in Nat
      BY <1>2, <1>4
    <2>2. PICK x \in Out : \A y \in Out : y.at <= x.at
      BY <1>3, <1>7, <2>1, NewestAndOldest
    <2>3. Newer(x) = P
      <3>1. ASSUME NEW y \in Newer(x) PROVE y \in P
        <4>1. y \in L /\ y.at > x.at
          BY <1>6
        <4>2. y \notin Out
          BY <2>1, <2>2, <4>1
        <4>3. QED
          BY <4>1, <4>2 DEF Out
      <3>2. ASSUME NEW y \in P PROVE y \in Newer(x)
        BY <1>2, <1>6, <1>10
      <3>3. QED
        BY <3>1, <3>2
    <2>4. ~(Cardinality(Newer(x)) < PageSize)
      BY <1>1, <1>2 DEF Out
    <2>5. QED
      BY <1>8, <2>3, <2>4, ConversationsAssumption
  <1>12. Cardinality(P) <= PageSize
    <2>1. P # {}
      BY <1>11, FS_EmptySet, ConversationsAssumption
    <2>2. \A x \in P : x.at \in Nat
      BY <1>2, <1>4
    <2>3. PICK x \in P : \A y \in P : x.at <= y.at
      BY <1>3, <2>1, <2>2, NewestAndOldest
    <2>4. P \ {x} = Newer(x)
      <3>1. ASSUME NEW y \in P, y # x PROVE y \in Newer(x)
        <4>1. y.at \in Nat /\ x.at \in Nat /\ x.at <= y.at /\ x.at # y.at /\ y \in L
          BY <1>2, <1>5, <2>2, <2>3, <3>1
        <4>2. QED
          BY <1>6, <4>1
      <3>2. ASSUME NEW y \in Newer(x) PROVE y \in P /\ y # x
        <4>1. y \in L /\ y.at > x.at
          BY <1>6
        <4>2. y # x
          BY <2>2, <4>1
        <4>3. QED
          BY <1>9, <4>1, <4>2
      <3>3. QED
        BY <3>1, <3>2
    <2>5. Cardinality(P \ {x}) = Cardinality(P) - 1
      BY <1>3, FS_RemoveElement
    <2>6. Cardinality(Newer(x)) < PageSize
      BY <1>1
    <2>7. PICK k : k = Cardinality(P)
      OBVIOUS
    <2>8. k \in Nat /\ k - 1 < PageSize
      BY <1>11, <2>4, <2>5, <2>6, <2>7
    <2>9. QED
      BY <2>7, <2>8, ConversationsAssumption
  <1>13. Cardinality(P) = PageSize
    BY <1>11, <1>12, ConversationsAssumption
  <1>14. \A y \in P : y.at > m.at
    BY <1>7, <1>10
  <1>15. QED
    BY <1>13, <1>14 DEF P

-----------------------------------------------------------------------------
LEMMA KeptIsSound ==
  ASSUME NEW s, WellKept(s, ids, now)
  PROVE  Sound(s)
  <1>1. Messages = Stored(ids, now)
    BY DEF Messages, Stored
  <1>2. \A c \in DOMAIN s.convs : s.convs[c] \in [bot : 1 .. ids, unread : Nat, last : 0 .. now]
    BY DEF WellKept, Convs
  <1>3. \A b \in s.bots : Cardinality(OfBot(s, b)) = 1
    BY FS_Singleton DEF WellKept
  <1>4. QED
    BY <1>1, <1>2, <1>3 DEF WellKept, Sound

(* The types are kept, and with them the shape of the tables: whichever    *)
(* requests ensure a bot's conversation at once and whichever of their     *)
(* statements fail, a store never has two of one bot.                      *)
THEOREM ConversationTypeCorrect == Spec => []TypeOK
  <1>1. ConversationInv => TypeOK
    <2> SUFFICES ASSUME ConversationInv PROVE TypeOK
      OBVIOUS
    <2>1. Sound(db) /\ Sound(mem)
      BY KeptIsSound DEF ConversationInv, StoresInv
    <2>2. Task = TaskOf(ids, now) /\ Messages = Stored(ids, now)
      BY DEF Task, TaskOf, Messages, Stored
    <2>3. work \in [Workers -> Task] /\ acked \subseteq Messages
      BY <2>2 DEF ConversationInv, WorkInv, AckInv
    <2>4. QED
      BY <2>1, <2>3 DEF ConversationInv, StoresInv, AckInv, TypeOK
  <1>2. QED
    BY <1>1, ConversationsKept, PTL

(* The unread counts are those of the stored messages and the previews are *)
(* there, in the list that is shown and in the memory behind it, however   *)
(* the transactions of saving and marking interleave and fail.             *)
THEOREM UnreadCountsAreTrue == Spec => []UnreadIsCounted
  <1>1. ConversationInv => UnreadIsCounted
    BY DEF ConversationInv, StoresInv, WellKept, UnreadIsCounted, ListConversations
  <1>2. QED
    BY <1>1, ConversationsKept, PTL

(* An acknowledged message is on the page, or as many newer ones as a page *)
(* holds are, whatever the size of the page.                               *)
THEOREM AcknowledgedIsListed == Spec => []ListedIsAcknowledged
  <1>1. ConversationInv => ListedIsAcknowledged
    <2> SUFFICES ASSUME ConversationInv, NEW m \in acked, m.conv \in DOMAIN Home.convs,
                        m \notin ListMessages(m.conv)
                 PROVE  /\ Cardinality(ListMessages(m.conv)) = PageSize
                        /\ \A n \in ListMessages(m.conv) : n.at > m.at
      BY DEF ListedIsAcknowledged
    <2>1. m \in Home.log
      BY DEF ConversationInv, AckInv
    <2>2. Known(m.conv)
      BY DEF Home, Known
    <2>3. ListMessages(m.conv) = Page(Home, m.conv)
      BY <2>2 DEF ListMessages
    <2>4. IsFiniteSet(Home.log) /\ \A x \in Home.log : x.at \in Nat
      BY DEF ConversationInv, StoresInv, WellKept, Stored, Home
    <2>5. \A x, y \in Home.log : x.at = y.at => x = y
      BY DEF ConversationInv, AckInv, Home
    <2>6. PICK s : s = Home
      OBVIOUS
    <2>7. QED
      BY <2>1, <2>3, <2>4, <2>5, <2>6, PageIsFull
  <1>2. QED
    BY <1>1, ConversationsKept, PTL
=============================================================================
