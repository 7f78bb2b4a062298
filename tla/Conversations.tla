--------------------------- MODULE Conversations ---------------------------
(* The bots, conversations and messages of one user: the HTTP handlers     *)
(* that create bots, send and list messages and mark them read, over the   *)
(* in-memory store or over Postgres, whose every operation falls back to   *)
(* the in-memory store embedded in it when a statement fails.              *)
(*                                                                         *)
(* Contents, names and emotions are left out.  Ids count what was created; *)
(* a message is known by its created_at, which no two share.               *)
EXTENDS Naturals, FiniteSets

CONSTANTS
  Workers,   \* requests, with the goroutines they start, served at once
  PageSize,  \* messages a listing returns
  MaxIds,    \* bound: no bot is created once so many ids are given out
  MaxOps     \* bound: requests, failing statements and restarts, together

ASSUME ConversationsAssumption == PageSize \in Nat \ {0} /\ MaxIds \in Nat /\ MaxOps \in Nat

VARIABLES
  kind,   \* "memory" or "postgres": the store of the deployment
  db,     \* the tables
  mem,    \* the in-memory store
  work,   \* the handlers
  acked,  \* messages whose SaveMessage returned true
  ids,    \* ids given out
  now,    \* the last created_at
  ops     \* what MaxOps bounds

vars == <<kind, db, mem, work, acked, ids, now, ops>>

Idle == [at |-> "idle", task |-> "none", bot |-> 0, conv |-> 0, from |-> "user", stamp |-> 0, unread |-> 0]
Goes(w, next) == work' = [work EXCEPT ![w] = next]
Starts(w) == work[w] = Idle /\ ops < MaxOps /\ ops' = ops + 1
Works == UNCHANGED ops
QueryFails == kind = "postgres" /\ ops < MaxOps /\ ops' = ops + 1

-----------------------------------------------------------------------------
(* A store: the two kinds have the same contents.                          *)

Empty == [bots |-> {}, convs |-> <<>>, log |-> {}, seen |-> {}]
NewConversation(b) == [bot |-> b, unread |-> 0, last |-> 0]

WithConversation(s, b, c) ==
  [s EXCEPT !.convs = [d \in DOMAIN @ \cup {c} |-> IF d = c THEN NewConversation(b) ELSE @[d]]]
WithBot(s, b, c) == WithConversation([s EXCEPT !.bots = @ \cup {b}], b, c)
OfBot(s, b) == {c \in DOMAIN s.convs : s.convs[c].bot = b}

(* The message, and its conversation's preview and count.                  *)
WithMessage(s, msg, unread) ==
  [s EXCEPT !.log = @ \cup {msg},
            !.convs = [c \in DOMAIN @ |-> IF c # msg.conv THEN @[c]
                                          ELSE [@[c] EXCEPT !.unread = unread, !.last = msg.at]]]
Unread(s, c) == IF c \in DOMAIN s.convs THEN s.convs[c].unread ELSE 0
Raised(unread, from) == IF from = "bot" THEN unread + 1 ELSE unread

AsRead(s, c) ==
  [s EXCEPT !.seen = @ \cup {msg \in s.log : msg.conv = c},
            !.convs = [@ EXCEPT ![c].unread = 0]]

Home == IF kind = "postgres" THEN db ELSE mem

(* GetConversation, GetBot and FindConversationByBot: the tables, then the *)
(* memory; the memory alone when the query fails.                          *)
Known(c) == c \in DOMAIN db.convs \cup DOMAIN mem.convs
Exists(b) == b \in db.bots \cup mem.bots
ByBot(b) == IF OfBot(db, b) # {} THEN OfBot(db, b) ELSE OfBot(mem, b)

Page(s, c) ==
  {msg \in s.log : /\ msg.conv = c
                   /\ Cardinality({m \in s.log : m.conv = c /\ m.at > msg.at}) < PageSize}
ListMessages(c) == IF Known(c) THEN Page(Home, c) ELSE {}

(* The store whose conversations are listed: the tables, unless they are   *)
(* empty; the memory also when the query fails.                            *)
ListConversations == IF DOMAIN db.convs # {} THEN db ELSE mem

-----------------------------------------------------------------------------
(* Bots.  A new one comes with its conversation, in one transaction; the   *)
(* handler then has a goroutine write the first message.                   *)

Create(w) ==
  /\ Starts(w) /\ ids < MaxIds
  /\ ids' = ids + 2
  /\ IF kind = "postgres" THEN db' = WithBot(db, ids + 1, ids + 2) /\ UNCHANGED mem
     ELSE mem' = WithBot(mem, ids + 1, ids + 2) /\ UNCHANGED db
  /\ Goes(w, [Idle EXCEPT !.at = "find", !.task = "starter", !.bot = ids + 1])
  /\ UNCHANGED <<kind, acked, now>>

(* The fallback creates another, also when only the commit's answer is     *)
(* lost.                                                                   *)
CreateFails(w) ==
  /\ work[w] = Idle /\ QueryFails /\ ids < MaxIds
  /\ ids' = ids + 4
  /\ db' \in {db, WithBot(db, ids + 1, ids + 2)}
  /\ mem' = WithBot(mem, ids + 3, ids + 4)
  /\ Goes(w, [Idle EXCEPT !.at = "find", !.task = "starter", !.bot = ids + 3])
  /\ UNCHANGED <<kind, acked, now>>

Writes(w, from, c) == Goes(w, [work[w] EXCEPT !.at = "look", !.from = from, !.conv = c])

Find(w) ==
  /\ work[w].at = "find"
  /\ \E found \in {ByBot(work[w].bot), OfBot(mem, work[w].bot)} :
       /\ IF found = ByBot(work[w].bot) THEN Works ELSE QueryFails
       /\ IF found = {} THEN Goes(w, Idle) ELSE \E c \in found : Writes(w, "bot", c)
  /\ UNCHANGED <<kind, db, mem, acked, ids, now>>

-----------------------------------------------------------------------------
(* Requests that write: processChatMessage, the test chats and the test of *)
(* proactive messages.                                                     *)

BotOf(c) == IF c \in DOMAIN db.convs THEN db.convs[c].bot ELSE mem.convs[c].bot
Opened(c) == Known(c) /\ Exists(BotOf(c))

Send(w, c) ==
  /\ Starts(w) /\ Opened(c)
  /\ Goes(w, [Idle EXCEPT !.at = "look", !.task = "send", !.conv = c])
  /\ UNCHANGED <<kind, db, mem, acked, ids, now>>

TestChat(w, b) ==
  /\ Starts(w) /\ Exists(b)
  /\ Goes(w, [Idle EXCEPT !.at = "ensure", !.task = "test", !.bot = b])
  /\ UNCHANGED <<kind, db, mem, acked, ids, now>>

TestProactive(w, b, c) ==
  /\ Starts(w) /\ Exists(b)
  /\ Goes(w, IF Known(c) THEN [Idle EXCEPT !.at = "look", !.task = "proactive", !.from = "bot", !.conv = c]
             ELSE [Idle EXCEPT !.at = "ensure", !.task = "proactive", !.from = "bot", !.bot = b])
  /\ UNCHANGED <<kind, db, mem, acked, ids, now>>

(* EnsureConversation: a search, an INSERT whose error is ignored, and the *)
(* search again.                                                           *)
EnsureEmbedded(w) ==
  IF OfBot(mem, work[w].bot) # {}
  THEN (\E c \in OfBot(mem, work[w].bot) : Writes(w, work[w].from, c)) /\ UNCHANGED <<mem, ids>>
  ELSE /\ mem' = WithConversation(mem, work[w].bot, ids + 1)
       /\ ids' = ids + 1
       /\ Writes(w, work[w].from, ids + 1)

Ensure(w) ==
  /\ work[w].at \in {"ensure", "ensure again"}
  /\ \E found \in {ByBot(work[w].bot), OfBot(mem, work[w].bot)} :
       /\ IF found = ByBot(work[w].bot) THEN Works ELSE QueryFails
       /\ CASE found # {} -> (\E c \in found : Writes(w, work[w].from, c)) /\ UNCHANGED <<mem, ids>>
            [] found = {} /\ kind = "postgres" /\ work[w].at = "ensure" ->
                 Goes(w, [work[w] EXCEPT !.at = "insert"]) /\ UNCHANGED <<mem, ids>>
            [] OTHER -> EnsureEmbedded(w)
  /\ UNCHANGED <<kind, db, acked, now>>

(* Fault: no UNIQUE (user_id, bot_id) for ON CONFLICT to find.             *)
AlwaysInserted(b) == db' = WithConversation(db, b, ids + 1) /\ ids' = ids + 1

Inserted(b) ==
  IF OfBot(db, b) # {} THEN UNCHANGED <<db, ids>>
  ELSE db' = WithConversation(db, b, ids + 1) /\ ids' = ids + 1

Insert(w) ==
  /\ work[w].at = "insert"
  /\ \/ Inserted(work[w].bot) /\ Works
     \/ UNCHANGED <<db, ids>> /\ QueryFails
  /\ Goes(w, [work[w] EXCEPT !.at = "ensure again"])
  /\ UNCHANGED <<kind, mem, acked, now>>

-----------------------------------------------------------------------------
(* SaveMessage, and what its callers do next: a user's message is followed *)
(* by the bot's, when the reply has come or the canned one replaces it; a  *)
(* refused one ends the request, except in the tests, which ignore it.     *)

Replies(w) ==
  IF work[w].from = "user" THEN Goes(w, [work[w] EXCEPT !.at = "look", !.from = "bot", !.stamp = 0, !.unread = 0])
  ELSE Goes(w, Idle)
Refused(w) == IF work[w].task = "send" THEN Goes(w, Idle) ELSE Replies(w)

(* Fault: the in-memory store takes a message of any conversation.         *)
SaveAnyEmbedded(w) ==
  LET msg == [conv |-> work[w].conv, from |-> work[w].from, at |-> now + 1]
  IN  /\ mem' = WithMessage(mem, msg, Raised(Unread(mem, msg.conv), msg.from))
      /\ acked' = acked \cup {msg} /\ now' = now + 1 /\ Replies(w)

SaveEmbedded(w) ==
  LET msg == [conv |-> work[w].conv, from |-> work[w].from, at |-> now + 1]
  IN  IF msg.conv \in DOMAIN mem.convs
      THEN /\ mem' = WithMessage(mem, msg, Raised(Unread(mem, msg.conv), msg.from))
           /\ acked' = acked \cup {msg} /\ now' = now + 1 /\ Replies(w)
      ELSE Refused(w) /\ UNCHANGED <<mem, acked, now>>

(* created_at is taken before the transaction begins.                      *)
Look(w) ==
  /\ work[w].at = "look" /\ kind = "postgres"
  /\ \E found \in {Known(work[w].conv), work[w].conv \in DOMAIN mem.convs} :
       /\ IF found = Known(work[w].conv) THEN Works ELSE QueryFails
       /\ IF found
          THEN /\ now' = now + 1
               /\ Goes(w, [work[w] EXCEPT !.at = "commit", !.stamp = now + 1,
                                          !.unread = Unread(db, work[w].conv)])
          ELSE Refused(w) /\ UNCHANGED now
  /\ UNCHANGED <<kind, db, mem, acked, ids>>

SaveInMemory(w) ==
  /\ work[w].at = "look" /\ kind = "memory"
  /\ SaveEmbedded(w) /\ Works
  /\ UNCHANGED <<kind, db, ids>>

Message(w) == [conv |-> work[w].conv, from |-> work[w].from, at |-> work[w].stamp]

(* Fault: the count is the one GetConversation returned, plus one.         *)
TxFromRead(w) == db' = WithMessage(db, Message(w), Raised(work[w].unread, work[w].from))

Tx(w) == db' = WithMessage(db, Message(w), Raised(Unread(db, work[w].conv), work[w].from))

(* A commit may succeed and its answer be lost.                            *)
Commit(w) ==
  /\ work[w].at = "commit"
  /\ \/ Tx(w) /\ acked' = acked \cup {Message(w)} /\ Replies(w) /\ Works /\ UNCHANGED <<mem, now>>
     \/ UNCHANGED db /\ SaveEmbedded(w) /\ QueryFails
     \/ Tx(w) /\ SaveEmbedded(w) /\ QueryFails
  /\ UNCHANGED <<kind, ids>>

-----------------------------------------------------------------------------
(* MarkConversationRead.  No row updated is "not found"; the memory is     *)
(* asked only after an error.                                              *)
Marked(c) ==
  \/ kind = "postgres" /\ c \in DOMAIN db.convs /\ db' = AsRead(db, c) /\ UNCHANGED mem
  \/ c \in DOMAIN mem.convs /\ mem' = AsRead(mem, c) /\ UNCHANGED db

MarkRead(c) ==
  /\ ops < MaxOps /\ ops' = ops + 1
  /\ Marked(c)
  /\ UNCHANGED <<kind, work, acked, ids, now>>

Restart ==
  /\ ops < MaxOps /\ ops' = ops + 1
  /\ mem' = Empty
  /\ work' = [w \in Workers |-> Idle]
  /\ UNCHANGED <<kind, db, acked, ids, now>>

Init ==
  /\ kind \in {"memory", "postgres"}
  /\ db = Empty /\ mem = Empty
  /\ work = [w \in Workers |-> Idle]
  /\ acked = {} /\ ids = 0 /\ now = 0 /\ ops = 0

Next ==
  \/ \E w \in Workers :
       \/ Create(w) \/ CreateFails(w) \/ Find(w)
       \/ Ensure(w) \/ Insert(w) \/ Look(w) \/ SaveInMemory(w) \/ Commit(w)
       \/ \E c \in 1 .. ids : Send(w, c)
       \/ \E b \in 1 .. ids : TestChat(w, b) \/ \E c \in 0 .. ids : TestProactive(w, b, c)
  \/ \E c \in 1 .. ids : MarkRead(c)
  \/ Restart

Spec == Init /\ [][Next]_vars

-----------------------------------------------------------------------------
Messages == [conv : 1 .. ids, from : {"user", "bot"}, at : 1 .. now]
Task ==
  [at : {"idle", "find", "ensure", "insert", "ensure again", "look", "commit"},
   task : {"none", "starter", "send", "test", "proactive"}, bot : 0 .. ids, conv : 0 .. ids,
   from : {"user", "bot"}, stamp : 0 .. now, unread : Nat]
Sound(s) ==
  /\ s.bots \subseteq 1 .. ids /\ DOMAIN s.convs \subseteq 1 .. ids
  /\ \A c \in DOMAIN s.convs : s.convs[c] \in [bot : 1 .. ids, unread : Nat, last : 0 .. now]
  /\ s.log \subseteq Messages /\ s.seen \subseteq s.log
  /\ \A b \in s.bots : Cardinality(OfBot(s, b)) = 1

(* The types; and the shape of the tables: a bot that is in a store has    *)
(* there exactly one conversation, however many requests ensure one at     *)
(* once and whichever of their statements fail, the tables have none of a  *)
(* bot they do not have, and no two messages share a created_at.           *)
TypeOK ==
  /\ kind \in {"memory", "postgres"} /\ work \in [Workers -> Task]
  /\ ids \in Nat /\ now \in Nat /\ ops \in 0 .. MaxOps
  /\ acked \subseteq Messages
  /\ Sound(db) /\ Sound(mem)
  /\ \A c \in DOMAIN db.convs : db.convs[c].bot \in db.bots
  /\ kind = "memory" => db = Empty
  /\ \A m, n \in db.log \cup acked : m.at = n.at => m = n

Summary(s, c) ==
  /\ s.convs[c].unread = Cardinality({m \in s.log : m.conv = c /\ m.from = "bot" /\ m \notin s.seen})
  /\ s.convs[c].last \in {m.at : m \in {n \in s.log : n.conv = c}} \cup {0}

(* The list of conversations tells the truth about their messages: the     *)
(* unread count is the number of bot messages stored since the last time   *)
(* it was marked read, with messages being saved and marked at once, and   *)
(* the preview is a message that is there, whichever transaction failed.   *)
UnreadIsCounted ==
  \A s \in {ListConversations, mem} : \A c \in DOMAIN s.convs : Summary(s, c)

(* A message whose sender was told it is stored is listed, unless a whole  *)
(* page of newer ones is: when a statement fails, the fallback refuses     *)
(* what the listing would not show (store.go:833).  Not claimed for a      *)
(* conversation the tables do not have, because its bot's creation failed. *)
ListedIsAcknowledged ==
  \A m \in acked : m.conv \in DOMAIN Home.convs =>
    \/ m \in ListMessages(m.conv)
    \/ /\ Cardinality(ListMessages(m.conv)) = PageSize
       /\ \A n \in ListMessages(m.conv) : n.at > m.at
=============================================================================
