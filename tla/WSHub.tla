------------------------------- MODULE WSHub -------------------------------
(***************************************************************************)
(* The WebSocket hub (ws_hub.go) of every gateway node and the Redis       *)
(* channel between the nodes: read loops register and unregister their     *)
(* sessions, goroutines publish events to all sessions of a user, and one  *)
(* subscriber goroutine per node relays the events of the other nodes.     *)
(*                                                                         *)
(* A publisher works on a snapshot of the sessions, outside the hub's      *)
(* lock.  SetWSConnections, which copies the count to a metric after the   *)
(* lock is released, is left out.                                          *)
(***************************************************************************)
EXTENDS Integers, Sequences, FiniteSets

CONSTANTS
  Nodes,      \* gateway processes
  Users,
  Sessions,   \* WebSocket sessions; each is opened once
  Publishers, \* goroutines that publish, one event after the other
  Home,       \* node of each session and publisher
  UserOf,     \* user of each session
  MaxEvents, MaxDrops \* bounds: events published, Redis disconnections

(* A node's subscriber writes like a publisher and is named by its node.   *)
Writers == Publishers \cup Nodes

Place == [w \in Writers |-> IF w \in Nodes THEN w ELSE Home[w]]

ASSUME HubAssumption ==
  /\ Home \in [Sessions \cup Publishers -> Nodes]
  /\ UserOf \in [Sessions -> Users]
  /\ MaxEvents \in Nat /\ MaxDrops \in Nat
  /\ IsFiniteSet(Sessions)
  /\ Nodes \cap Publishers = {} /\ Writers \cap Sessions = {}

VARIABLES
  phase,   \* read loop of each session
  up,      \* sessions whose socket still takes writes
  byUser,  \* sessions in their hub's map
  total,   \* wsHub.total per node
  events,  \* published so far: who published, for which user
  writer,  \* per writer: what it is doing
  inbox,   \* per node: envelopes Redis has for its subscriber
  subscribed, \* nodes whose subscription is up
  drops,
  received \* per session: the events its client got, in order

vars == <<phase, up, byUser, total, events, writer, inbox,
          subscribed, drops, received>>

Idle == [event |-> 0, todo |-> {}, count |-> 0]

Writing(e, S) == [event |-> e, todo |-> S, count |-> 0]

Init ==
  /\ phase = [s \in Sessions |-> "new"]
  /\ up = {}
  /\ byUser = {}
  /\ total = [n \in Nodes |-> 0]
  /\ events = <<>>
  /\ writer = [w \in Writers |-> Idle]
  /\ inbox = [n \in Nodes |-> <<>>]
  /\ subscribed = Nodes
  /\ drops = 0
  /\ received = [s \in Sessions |-> <<>>]

-----------------------------------------------------------------------------
(* Read loops.                                                             *)

(* register, its locked part.                                              *)
Register(s) ==
  /\ phase[s] = "new"
  /\ phase' = [phase EXCEPT ![s] = "open"]
  /\ up' = up \cup {s}
  /\ byUser' = byUser \cup {s}
  /\ total' = [total EXCEPT ![Home[s]] = @ + 1]
  /\ UNCHANGED <<events, writer, inbox, subscribed, drops, received>>

(* The client is gone: writes and reads fail from now on.                  *)
Break(s) ==
  /\ s \in up
  /\ up' = up \ {s}
  /\ UNCHANGED <<phase, byUser, total, events, writer, inbox, subscribed,
                 drops, received>>

(* Faults: the count is taken down whether or not the session was there,   *)
(* without and with the guard at zero.                                     *)
RemoveUnguarded(s) ==
  /\ byUser' = byUser \ {s}
  /\ total' = [total EXCEPT ![Home[s]] = @ - 1]

RemoveUnchecked(s) ==
  LET left == IF total[Home[s]] > 0 THEN total[Home[s]] - 1 ELSE 0
  IN  /\ byUser' = byUser \ {s}
      /\ total' = [total EXCEPT ![Home[s]] = left]

(* unregister, its locked part: the second caller finds nothing to remove. *)
Remove(s) ==
  LET left == IF s \in byUser /\ total[Home[s]] > 0 THEN total[Home[s]] - 1
              ELSE total[Home[s]]
  IN  /\ byUser' = byUser \ {s}
      /\ total' = [total EXCEPT ![Home[s]] = left]

(* The read loop returns (also on its own idle timeout): unregister ...    *)
Leave(s) ==
  /\ phase[s] = "open"
  /\ phase' = [phase EXCEPT ![s] = "closing"]
  /\ Remove(s)
  /\ UNCHANGED <<up, events, writer, inbox, subscribed, drops, received>>

(* ... and conn.Close.                                                     *)
Close(s) ==
  /\ phase[s] = "closing"
  /\ phase' = [phase EXCEPT ![s] = "gone"]
  /\ up' = up \ {s}
  /\ UNCHANGED <<byUser, total, events, writer, inbox, subscribed, drops,
                 received>>

-----------------------------------------------------------------------------
(* Publishing.                                                             *)

Snapshot(n, u) == {s \in byUser : Home[s] = n /\ UserOf[s] = u}

(* publishToUser: the snapshot.                                            *)
Publish(p, u) ==
  /\ writer[p] = Idle
  /\ Len(events) < MaxEvents
  /\ events' = Append(events, [by |-> p, user |-> u, audience |-> byUser])
  /\ writer' = [writer EXCEPT ![p] =
       Writing(Len(events) + 1, Snapshot(Home[p], u))]
  /\ UNCHANGED <<phase, up, byUser, total, inbox, subscribed, drops, received>>

(* WriteJSON to the next session of the snapshot: the client gets the      *)
(* event, or the write fails and the writer closes and unregisters it.     *)
Write(w, s) ==
  /\ s \in writer[w].todo
  /\ IF s \in up
     THEN /\ received' = [received EXCEPT ![s] = Append(@, writer[w].event)]
          /\ writer' = [writer EXCEPT ![w].todo = @ \ {s}, ![w].count = @ + 1]
          /\ UNCHANGED <<byUser, total>>
     ELSE /\ writer' = [writer EXCEPT ![w].todo = @ \ {s}]
          /\ Remove(s)
          /\ UNCHANGED received
  /\ UNCHANGED <<phase, up, events, inbox, subscribed, drops>>

(* Fault: only what no local session took is handed to the other nodes.    *)
RelayUndelivered(p) ==
  /\ writer[p] # Idle /\ writer[p].todo = {}
  /\ inbox' = [n \in Nodes |-> IF n \in subscribed /\ writer[p].count = 0
                               THEN Append(inbox[n], writer[p].event) ELSE inbox[n]]
  /\ writer' = [writer EXCEPT ![p] = Idle]
  /\ UNCHANGED <<phase, up, byUser, total, events, subscribed, drops, received>>

(* publishRemote: Redis hands the envelope to every subscribed node.       *)
Relay(p) ==
  /\ writer[p] # Idle /\ writer[p].todo = {}
  /\ inbox' = [n \in Nodes |-> IF n \in subscribed
                               THEN Append(inbox[n], writer[p].event) ELSE inbox[n]]
  /\ writer' = [writer EXCEPT ![p] = Idle]
  /\ UNCHANGED <<phase, up, byUser, total, events, subscribed, drops, received>>

(* Fault: the subscriber does not skip its own node's envelopes.           *)
ReceiveOwn(n) ==
  /\ writer[n] = Idle /\ inbox[n] # <<>>
  /\ inbox' = [inbox EXCEPT ![n] = Tail(@)]
  /\ LET e == Head(inbox[n])
     IN  writer' = [writer EXCEPT ![n] =
           Writing(e, Snapshot(n, events[e].user))]
  /\ UNCHANGED <<phase, up, byUser, total, events, subscribed, drops, received>>

(* The subscriber takes the next envelope and skips its own node's.        *)
Receive(n) ==
  /\ writer[n] = Idle /\ inbox[n] # <<>>
  /\ inbox' = [inbox EXCEPT ![n] = Tail(@)]
  /\ LET e == Head(inbox[n])
     IN  writer' = [writer EXCEPT ![n] =
           IF Home[events[e].by] = n THEN Idle
           ELSE Writing(e, Snapshot(n, events[e].user))]
  /\ UNCHANGED <<phase, up, byUser, total, events, subscribed, drops, received>>

(* publishLocalToUser returns to the subscriber.                           *)
Relayed(n) ==
  /\ writer[n] # Idle /\ writer[n].todo = {}
  /\ writer' = [writer EXCEPT ![n] = Idle]
  /\ UNCHANGED <<phase, up, byUser, total, events, inbox, subscribed, drops,
                 received>>

(* The Redis connection of a node breaks: what it was to receive is lost,  *)
(* and so is what is published until it has subscribed again.              *)
Unsubscribe(n) ==
  /\ n \in subscribed /\ drops < MaxDrops
  /\ subscribed' = subscribed \ {n}
  /\ inbox' = [inbox EXCEPT ![n] = <<>>]
  /\ drops' = drops + 1
  /\ UNCHANGED <<phase, up, byUser, total, events, writer, received>>

Subscribe(n) ==
  /\ n \notin subscribed
  /\ subscribed' = subscribed \cup {n}
  /\ UNCHANGED <<phase, up, byUser, total, events, writer, inbox, drops,
                 received>>

Next ==
  \/ \E s \in Sessions : Register(s) \/ Break(s) \/ Leave(s) \/ Close(s)
  \/ \E p \in Publishers, u \in Users : Publish(p, u)
  \/ \E w \in Writers : \E s \in writer[w].todo : Write(w, s)
  \/ \E p \in Publishers : Relay(p)
  \/ \E n \in Nodes : Receive(n) \/ Relayed(n) \/ Unsubscribe(n) \/ Subscribe(n)

Spec == Init /\ [][Next]_vars

-----------------------------------------------------------------------------
(* Properties.                                                             *)

TypeOK ==
  /\ phase \in [Sessions -> {"new", "open", "closing", "gone"}]
  /\ up \subseteq Sessions /\ byUser \subseteq Sessions
  /\ total \in [Nodes -> 0 .. Cardinality(Sessions)]
  /\ Len(events) <= MaxEvents
  /\ events \in Seq([by : Publishers, user : Users, audience : SUBSET Sessions])
  /\ writer \in [Writers -> [event : 0 .. Len(events), todo : SUBSET Sessions, count : Nat]]
  /\ inbox \in [Nodes -> Seq(1 .. Len(events))]
  /\ subscribed \subseteq Nodes
  /\ drops \in 0 .. MaxDrops
  /\ received \in [Sessions -> Seq(1 .. Len(events))]

Hears(s, e) == \E i \in DOMAIN received[s] : received[s][i] = e

(* A session is unregistered by its read loop and by every writer that     *)
(* cannot write to it.  The hub's count survives all of them, and no       *)
(* session whose read loop has returned is left in the hub or put back by  *)
(* a writer with an old snapshot.                                          *)
NoLeak ==
  /\ \A s \in byUser : phase[s] = "open"
  /\ \A n \in Nodes : total[n] = Cardinality({s \in byUser : Home[s] = n})

(* Whatever path an event takes (local loop, Redis, a node's own envelope  *)
(* coming back), a client gets it at most once, gets only its own user's   *)
(* events, and gets those of one goroutine (a turn's stream) in order.     *)
StreamsIntact ==
  \A s \in Sessions : \A i, j \in DOMAIN received[s] :
    LET e == received[s][i]  f == received[s][j]
    IN  /\ events[e].user = UserOf[s]
        /\ i < j /\ events[e].by = events[f].by => e < f

(* When publishToUser has written to its snapshot, every session that was  *)
(* there and still works has the event, though others failed on the way;   *)
(* and the count it returns, which decides whether a push is sent, is the  *)
(* number of local clients that got it.                                    *)
LocalSessionsServed(p) ==
  LET w == writer[p]
      here == {s \in Sessions : Home[s] = Home[p]}
  IN  w # Idle /\ w.todo = {} =>
        /\ w.count = Cardinality({s \in here : Hears(s, w.event)})
        /\ \A s \in here \cap events[w.event].audience \cap up :
             UserOf[s] = events[w.event].user => Hears(s, w.event)

(* That, and when nothing is under way any more, an event has reached      *)
(* every session of the user, on any node, that was registered when it was *)
(* published, unless the session or a node's Redis connection ended first. *)
EveryoneServed ==
  /\ \A p \in Publishers : LocalSessionsServed(p)
  /\ (\A w \in Writers : writer[w] = Idle) /\ (\A n \in Nodes : inbox[n] = <<>>) =>
       \A e \in DOMAIN events : \A s \in events[e].audience :
         UserOf[s] = events[e].user => Hears(s, e) \/ s \notin byUser \/ drops > 0
=============================================================================
