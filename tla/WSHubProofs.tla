----------------------------- MODULE WSHubProofs -----------------------------
(***************************************************************************)
(* Theorems about WSHub, for every number of nodes, sessions, publishers   *)
(* and events, and every placement of the sessions.                        *)
(***************************************************************************)
EXTENDS WSHub, FiniteSetTheorems, TLAPS

Registered(n) == {s \in byUser : Home[s] = n}

(* A writer without an event has nothing to do.                            *)
IdleInv == \A w \in Writers : writer[w].event = 0 => writer[w] = Idle

(* TypeOK bounds the count of a node by the number of sessions; that holds *)
(* because the count is right, so the two are proved together.             *)
HubInv == TypeOK /\ NoLeak /\ IdleInv

(* A set of sessions, and those of it at one node.                         *)
LEMMA SessionsFinite ==
  ASSUME NEW S, S \subseteq Sessions
  PROVE  /\ IsFiniteSet(S)
         /\ Cardinality(S) \in 0 .. Cardinality(Sessions)
         /\ Cardinality(S) \in Nat
  <1>1. /\ IsFiniteSet(S)
        /\ Cardinality(S) <= Cardinality(Sessions)
    BY HubAssumption, FS_Subset
  <1>2. Cardinality(S) \in Nat /\ Cardinality(Sessions) \in Nat
    BY <1>1, HubAssumption, FS_CardinalityType
  <1>3. QED
    BY <1>1, <1>2

(* The locked part of unregister, for the read loop and for a writer.      *)
LEMMA RemoveKeepsCount ==
  ASSUME HubInv, NEW s \in Sessions, Remove(s)
  PROVE  /\ byUser' = byUser \ {s}
         /\ byUser' \subseteq Sessions
         /\ total' \in [Nodes -> 0 .. Cardinality(Sessions)]
         /\ \A n \in Nodes : total'[n] = Cardinality({x \in byUser' : Home[x] = n})
  <1>1. /\ byUser \subseteq Sessions
        /\ total \in [Nodes -> 0 .. Cardinality(Sessions)]
        /\ \A n \in Nodes : total[n] = Cardinality({x \in byUser : Home[x] = n})
        /\ Home[s] \in Nodes
    BY HubAssumption DEF HubInv, TypeOK, NoLeak
  <1>2. /\ byUser' = byUser \ {s}
        /\ total' = [total EXCEPT ![Home[s]] =
                       IF s \in byUser /\ total[Home[s]] > 0
                       THEN total[Home[s]] - 1 ELSE total[Home[s]]]
    BY DEF Remove
  <1>3. ASSUME NEW n \in Nodes
        PROVE  total'[n] = Cardinality({x \in byUser' : Home[x] = n})
    <2>1. PICK S : S = {x \in byUser : Home[x] = n}
      OBVIOUS
    <2>2. IsFiniteSet(S) /\ Cardinality(S) \in Nat /\ total[n] = Cardinality(S)
      BY <1>1, <2>1, SessionsFinite
    <2>3. CASE n = Home[s] /\ s \in byUser
      <3>1. /\ {x \in byUser' : Home[x] = n} = S \ {s}
            /\ s \in S
        BY <1>2, <2>1, <2>3
      <3>2. Cardinality(S \ {s}) = Cardinality(S) - 1
        BY <2>2, <3>1, FS_RemoveElement
      <3>3. Cardinality(S) # 0
        BY <2>2, <3>1, FS_EmptySet
      <3>4. total'[n] = total[n] - 1
        BY <1>1, <1>2, <2>2, <2>3, <3>3
      <3>5. QED
        BY <2>2, <3>1, <3>2, <3>4
    <2>4. CASE ~(n = Home[s] /\ s \in byUser)
      <3>1. {x \in byUser' : Home[x] = n} = S
        BY <1>2, <2>1, <2>4
      <3>2. total'[n] = total[n]
        BY <1>1, <1>2, <2>4
      <3>3. QED
        BY <2>2, <3>1, <3>2
    <2>5. QED
      BY <2>3, <2>4
  <1>4. byUser' \subseteq Sessions
    BY <1>1, <1>2
  <1>5. total' \in [Nodes -> 0 .. Cardinality(Sessions)]
    <2>1. \A n \in Nodes : total'[n] \in 0 .. Cardinality(Sessions)
      BY <1>3, <1>4, SessionsFinite
    <2>2. QED
      BY <1>1, <1>2, <2>1
  <1>6. QED
    BY <1>2, <1>3, <1>4, <1>5

LEMMA InitHubInv == Init => HubInv
  <1> SUFFICES ASSUME Init PROVE HubInv
    OBVIOUS
  <1>1. \A n \in Nodes : {s \in byUser : Home[s] = n} = {}
    BY DEF Init
  <1>2. Cardinality({}) = 0 /\ 0 \in 0 .. Cardinality(Sessions)
    BY FS_EmptySet, HubAssumption, FS_CardinalityType
  <1>3. NoLeak
    BY <1>1, <1>2 DEF Init, NoLeak
  <1>4. TypeOK
    BY <1>2, HubAssumption DEF Init, TypeOK, Idle
  <1>5. IdleInv
    BY DEF Init, IdleInv
  <1>6. QED
    BY <1>3, <1>4, <1>5 DEF HubInv

LEMMA IdleType ==
  ASSUME TypeOK
  PROVE  Idle \in [event : 0 .. Len(events), todo : SUBSET Sessions, count : Nat]
  BY DEF Idle, TypeOK

(* An event whose number is at most Len(events).                           *)
LEMMA InboxEntries ==
  ASSUME TypeOK, NEW n \in Nodes, inbox[n] # <<>>
  PROVE  /\ Head(inbox[n]) \in 1 .. Len(events)
         /\ Tail(inbox[n]) \in Seq(1 .. Len(events))
  BY DEF TypeOK

LEMMA NextHubInv == HubInv /\ [Next]_vars => HubInv'
  <1> SUFFICES ASSUME HubInv, [Next]_vars PROVE HubInv'
    OBVIOUS
  <1> USE HubAssumption
  <1>t. TypeOK /\ NoLeak /\ IdleInv
    BY DEF HubInv
  <1>1. CASE UNCHANGED vars
    BY <1>1, <1>t DEF vars, HubInv, TypeOK, NoLeak, IdleInv
  <1>2. ASSUME NEW s \in Sessions, Register(s) PROVE HubInv'
    <2>1. /\ phase[s] = "new" /\ s \notin byUser
          /\ phase' = [phase EXCEPT ![s] = "open"]
          /\ up' = up \cup {s}
          /\ byUser' = byUser \cup {s}
          /\ total' = [total EXCEPT ![Home[s]] = total[Home[s]] + 1]
          /\ UNCHANGED <<events, writer, inbox, subscribed, drops, received>>
      BY <1>2, <1>t DEF Register, NoLeak
    <2>2. /\ byUser \subseteq Sessions /\ byUser' \subseteq Sessions
          /\ total \in [Nodes -> 0 .. Cardinality(Sessions)]
          /\ Home[s] \in Nodes
      BY <1>t, <2>1 DEF TypeOK
    <2>3. ASSUME NEW n \in Nodes
          PROVE  total'[n] = Cardinality({x \in byUser' : Home[x] = n})
      <3>1. PICK S : S = {x \in byUser : Home[x] = n}
        OBVIOUS
      <3>2. IsFiniteSet(S) /\ Cardinality(S) \in Nat /\ total[n] = Cardinality(S)
        BY <1>t, <2>2, <3>1, SessionsFinite DEF NoLeak
      <3>3. CASE n = Home[s]
        <4>1. {x \in byUser' : Home[x] = n} = S \cup {s} /\ s \notin S
          BY <2>1, <3>1, <3>3
        <4>2. Cardinality(S \cup {s}) = Cardinality(S) + 1
          BY <3>2, <4>1, FS_AddElement
        <4>3. QED
          BY <2>1, <2>2, <3>2, <3>3, <4>1, <4>2
      <3>4. CASE n # Home[s]
        <4>1. {x \in byUser' : Home[x] = n} = S
          BY <2>1, <3>1, <3>4
        <4>2. QED
          BY <2>1, <2>2, <3>2, <3>4, <4>1
      <3>5. QED
        BY <3>3, <3>4
    <2>4. total' \in [Nodes -> 0 .. Cardinality(Sessions)]
      <3>1. ASSUME NEW n \in Nodes PROVE total'[n] \in 0 .. Cardinality(Sessions)
        <4>1. PICK T : T = {x \in byUser' : Home[x] = n}
          OBVIOUS
        <4>2. T \subseteq Sessions /\ total'[n] = Cardinality(T)
          BY <2>2, <2>3, <4>1
        <4>3. QED
          BY <4>2, SessionsFinite
      <3>2. QED
        BY <2>1, <2>2, <3>1
    <2>5. NoLeak'
      BY <1>t, <2>1, <2>2, <2>3 DEF NoLeak, TypeOK
    <2>6. TypeOK'
      BY <1>t, <2>1, <2>2, <2>4 DEF TypeOK
    <2>7. QED
      BY <1>t, <2>1, <2>5, <2>6 DEF HubInv, IdleInv
  <1>3. ASSUME NEW s \in Sessions, Break(s) \/ Close(s) PROVE HubInv'
    <2>1. TypeOK'
      BY <1>3, <1>t DEF Break, Close, TypeOK
    <2>2. NoLeak'
      BY <1>3, <1>t DEF Break, Close, TypeOK, NoLeak
    <2>3. QED
      BY <1>3, <1>t, <2>1, <2>2 DEF HubInv, IdleInv, Break, Close
  <1>4. ASSUME NEW s \in Sessions, Leave(s) PROVE HubInv'
    <2>1. /\ byUser' = byUser \ {s}
          /\ byUser' \subseteq Sessions
          /\ total' \in [Nodes -> 0 .. Cardinality(Sessions)]
          /\ \A n \in Nodes : total'[n] = Cardinality({x \in byUser' : Home[x] = n})
      BY <1>4, RemoveKeepsCount DEF Leave
    <2>2. TypeOK'
      BY <1>4, <1>t, <2>1 DEF Leave, TypeOK
    <2>3. NoLeak'
      BY <1>4, <1>t, <2>1 DEF Leave, TypeOK, NoLeak
    <2>4. QED
      BY <1>4, <1>t, <2>2, <2>3 DEF HubInv, IdleInv, Leave
  <1>5. ASSUME NEW p \in Publishers, NEW u \in Users, Publish(p, u) PROVE HubInv'
    <2>1. /\ events' \in Seq([by : Publishers, user : Users, audience : SUBSET Sessions])
          /\ Len(events') = Len(events) + 1 /\ Len(events) \in Nat
          /\ Len(events') <= MaxEvents
      BY <1>5, <1>t DEF Publish, TypeOK
    <2>2. Writing(Len(events) + 1, Snapshot(Home[p], u))
            \in [event : 0 .. Len(events'), todo : SUBSET Sessions, count : Nat]
      BY <1>t, <2>1 DEF Writing, Snapshot, TypeOK
    <2>3. 1 .. Len(events) \subseteq 1 .. Len(events')
          /\ 0 .. Len(events) \subseteq 0 .. Len(events')
      BY <2>1
    <2>4. writer' \in [Writers -> [event : 0 .. Len(events'), todo : SUBSET Sessions, count : Nat]]
      <3>1. writer \in [Writers -> [event : 0 .. Len(events'), todo : SUBSET Sessions, count : Nat]]
        BY <1>t, <2>3 DEF TypeOK
      <3>2. QED
        BY <1>5, <2>2, <3>1 DEF Publish, Writers
    <2>5. /\ inbox' \in [Nodes -> Seq(1 .. Len(events'))]
          /\ received' \in [Sessions -> Seq(1 .. Len(events'))]
      BY <1>5, <1>t, <2>3 DEF Publish, TypeOK
    <2>6. TypeOK'
      BY <1>5, <1>t, <2>1, <2>4, <2>5 DEF Publish, TypeOK
    <2>7. NoLeak'
      BY <1>5, <1>t DEF Publish, NoLeak
    <2>8. IdleInv'
      <3>1. writer' = [writer EXCEPT ![p] = Writing(Len(events) + 1, Snapshot(Home[p], u))]
        BY <1>5 DEF Publish
      <3>2. Writing(Len(events) + 1, Snapshot(Home[p], u)).event # 0
        BY <2>1 DEF Writing
      <3>3. QED
        BY <1>t, <3>1, <3>2 DEF IdleInv, TypeOK, Writers
    <2>9. QED
      BY <2>6, <2>7, <2>8 DEF HubInv
  <1>6. ASSUME NEW w \in Writers, NEW s \in writer[w].todo, Write(w, s) PROVE HubInv'
    <2>1. /\ writer[w] \in [event : 0 .. Len(events), todo : SUBSET Sessions, count : Nat]
          /\ s \in Sessions
          /\ writer[w].event # 0
      BY <1>t DEF TypeOK, IdleInv, Idle
    <2>2. PICK v \in [event : 0 .. Len(events), todo : SUBSET Sessions, count : Nat] :
            writer' = [writer EXCEPT ![w] = v] /\ v.event = writer[w].event
      <3> DEFINE v(c) == [writer[w] EXCEPT !.todo = writer[w].todo \ {s}, !.count = c]
      <3>1. ASSUME NEW c \in Nat
            PROVE  /\ v(c) \in [event : 0 .. Len(events), todo : SUBSET Sessions, count : Nat]
                   /\ v(c).event = writer[w].event
        BY <2>1
      <3>2. /\ s \in up => writer' = [writer EXCEPT ![w] = v(writer[w].count + 1)]
            /\ s \notin up => writer' = [writer EXCEPT ![w] = v(writer[w].count)]
        BY <1>6, <2>1, <1>t DEF Write, TypeOK
      <3>3. writer[w].count \in Nat /\ writer[w].count + 1 \in Nat
        BY <2>1
      <3> HIDE DEF v
      <3>4. QED
        BY <3>1, <3>2, <3>3
    <2>3. writer' \in [Writers -> [event : 0 .. Len(events), todo : SUBSET Sessions, count : Nat]]
      BY <1>t, <2>2 DEF TypeOK
    <2>4. IdleInv'
      BY <1>t, <2>1, <2>2 DEF IdleInv, TypeOK
    <2>5. received' \in [Sessions -> Seq(1 .. Len(events))]
      <3>1. writer[w].event \in 1 .. Len(events)
        BY <1>t, <2>1 DEF TypeOK
      <3>2. QED
        <4>1. received[s] \in Seq(1 .. Len(events))
          BY <1>t, <2>1 DEF TypeOK
        <4>2. Append(received[s], writer[w].event) \in Seq(1 .. Len(events))
          BY <3>1, <4>1
        <4>3. \/ received' = [received EXCEPT ![s] = Append(received[s], writer[w].event)]
              \/ received' = received
          BY <1>6 DEF Write
        <4>4. received \in [Sessions -> Seq(1 .. Len(events))]
          BY <1>t DEF TypeOK
        <4>5. QED
          BY <2>1, <4>2, <4>3, <4>4
    <2>6. /\ byUser' \subseteq byUser
          /\ byUser' \subseteq Sessions
          /\ total' \in [Nodes -> 0 .. Cardinality(Sessions)]
          /\ \A n \in Nodes : total'[n] = Cardinality({x \in byUser' : Home[x] = n})
      <3>1. CASE s \in up
        BY <1>6, <1>t, <3>1 DEF Write, TypeOK, NoLeak
      <3>2. CASE s \notin up
        BY <1>6, <2>1, <3>2, RemoveKeepsCount DEF Write
      <3>3. QED
        BY <3>1, <3>2
    <2>7. TypeOK'
      BY <1>6, <1>t, <2>3, <2>5, <2>6 DEF Write, TypeOK
    <2>8. NoLeak'
      BY <1>6, <1>t, <2>6 DEF Write, NoLeak
    <2>9. QED
      BY <2>4, <2>7, <2>8 DEF HubInv
  <1>7. ASSUME NEW p \in Publishers, Relay(p) PROVE HubInv'
    <2>1. writer[p].event \in 1 .. Len(events)
      BY <1>7, <1>t DEF Relay, TypeOK, IdleInv, Writers
    <2>2. inbox' \in [Nodes -> Seq(1 .. Len(events))]
      <3>1. \A n \in Nodes : /\ inbox[n] \in Seq(1 .. Len(events))
                             /\ Append(inbox[n], writer[p].event) \in Seq(1 .. Len(events))
        BY <1>t, <2>1 DEF TypeOK
      <3>2. QED
        BY <1>7, <3>1 DEF Relay
    <2>3. writer' \in [Writers -> [event : 0 .. Len(events), todo : SUBSET Sessions, count : Nat]]
      BY <1>7, <1>t, IdleType DEF Relay, TypeOK
    <2>4. IdleInv'
      BY <1>7, <1>t DEF Relay, TypeOK, IdleInv
    <2>5. TypeOK'
      BY <1>7, <1>t, <2>2, <2>3 DEF Relay, TypeOK
    <2>6. NoLeak'
      BY <1>7, <1>t DEF Relay, NoLeak
    <2>7. QED
      BY <2>4, <2>5, <2>6 DEF HubInv
  <1>8. ASSUME NEW n \in Nodes, Receive(n) PROVE HubInv'
    <2>1. /\ Head(inbox[n]) \in 1 .. Len(events)
          /\ Tail(inbox[n]) \in Seq(1 .. Len(events))
      BY <1>8, <1>t, InboxEntries DEF Receive
    <2>2. PICK v \in [event : 0 .. Len(events), todo : SUBSET Sessions, count : Nat] :
            writer' = [writer EXCEPT ![n] = v] /\ (v.event = 0 => v = Idle)
      <3> DEFINE e == Head(inbox[n])
                 v == Writing(e, Snapshot(n, events[e].user))
      <3>1. v \in [event : 0 .. Len(events), todo : SUBSET Sessions, count : Nat]
            /\ v.event # 0
        <4>1. /\ e \in 0 .. Len(events) /\ e # 0
              /\ Snapshot(n, events[e].user) \subseteq Sessions
          BY <1>t, <2>1 DEF Snapshot, TypeOK
        <4> HIDE DEF e
        <4>2. QED
          BY <4>1 DEF Writing
      <3>2. Idle \in [event : 0 .. Len(events), todo : SUBSET Sessions, count : Nat]
        BY <1>t, IdleType
      <3>3. writer' = [writer EXCEPT ![n] = IF Home[events[e].by] = n THEN Idle ELSE v]
        BY <1>8 DEF Receive
      <3> HIDE DEF v, e
      <3>4. QED
        BY <3>1, <3>2, <3>3
    <2>3. writer' \in [Writers -> [event : 0 .. Len(events), todo : SUBSET Sessions, count : Nat]]
      BY <1>t, <2>2 DEF TypeOK
    <2>4. IdleInv'
      BY <1>t, <2>2 DEF TypeOK, IdleInv
    <2>5. inbox' \in [Nodes -> Seq(1 .. Len(events))]
      BY <1>8, <1>t, <2>1 DEF Receive, TypeOK
    <2>6. TypeOK'
      BY <1>8, <1>t, <2>3, <2>5 DEF Receive, TypeOK
    <2>7. NoLeak'
      BY <1>8, <1>t DEF Receive, NoLeak
    <2>8. QED
      BY <2>4, <2>6, <2>7 DEF HubInv
  <1>9. ASSUME NEW n \in Nodes, Relayed(n) \/ Unsubscribe(n) \/ Subscribe(n) PROVE HubInv'
    <2>1. TypeOK'
      <3>1. CASE Relayed(n)
        BY <1>t, <3>1, IdleType DEF Relayed, TypeOK
      <3>2. CASE Unsubscribe(n)
        BY <1>t, <3>2 DEF Unsubscribe, TypeOK
      <3>3. CASE Subscribe(n)
        BY <1>t, <3>3 DEF Subscribe, TypeOK
      <3>4. QED
        BY <1>9, <3>1, <3>2, <3>3
    <2>2. NoLeak'
      BY <1>9, <1>t DEF Relayed, Unsubscribe, Subscribe, NoLeak
    <2>3. IdleInv'
      BY <1>9, <1>t DEF Relayed, Unsubscribe, Subscribe, IdleInv, TypeOK
    <2>4. QED
      BY <2>1, <2>2, <2>3 DEF HubInv
  <1>10. QED
    BY <1>1, <1>2, <1>3, <1>4, <1>5, <1>6, <1>7, <1>8, <1>9 DEF Next

(* The hub's variables keep their types: no count ever exceeds the number  *)
(* of sessions, though every session may be removed more than once.        *)
THEOREM HubTypeCorrect == Spec => []TypeOK
  BY InitHubInv, NextHubInv, PTL DEF Spec, HubInv

(* Every hub's count is the number of sessions in its map, and no session  *)
(* whose read loop has returned is in it.                                  *)
THEOREM NoSessionLeaks == Spec => []NoLeak
  BY InitHubInv, NextHubInv, PTL DEF Spec, HubInv

-----------------------------------------------------------------------------
(* The order of what a session hears.  An event reaches it by one path     *)
(* only: its publisher, on the session's node, or the node's subscriber,   *)
(* which skips the events of its own node.  Along that path every place    *)
(* holds the events of one publisher in order.                             *)

By(e) == events[e].by

(* What a writer is about to write to a session is newer than all that the *)
(* session has of the same publisher.                                      *)
WritingInv ==
  \A w \in Writers : writer[w].event # 0 =>
    \A s \in writer[w].todo :
      /\ Home[s] = Place[w]
      /\ UserOf[s] = events[writer[w].event].user
      /\ \A f \in DOMAIN events :
           Hears(s, f) /\ By(f) = By(writer[w].event) => f < writer[w].event

(* What a publisher is at is newer than what the other nodes have of it.   *)
PublishingInv ==
  \A p \in Publishers : writer[p].event # 0 =>
    /\ By(writer[p].event) = p
    /\ \A n \in Nodes :
         /\ writer[n].event # 0 /\ By(writer[n].event) = p
              => writer[n].event < writer[p].event
         /\ \A i \in DOMAIN inbox[n] :
              By(inbox[n][i]) = p => inbox[n][i] < writer[p].event
    /\ \A s \in Sessions, f \in DOMAIN events :
         Home[s] # Home[p] /\ Hears(s, f) /\ By(f) = p => f < writer[p].event

(* What a subscriber is at is of another node, and older than its inbox.   *)
RelayingInv ==
  \A n \in Nodes : writer[n].event # 0 =>
    /\ Home[By(writer[n].event)] # n
    /\ \A i \in DOMAIN inbox[n] :
         By(inbox[n][i]) = By(writer[n].event) => writer[n].event < inbox[n][i]

(* An inbox is in order, and newer than what the sessions of its node have *)
(* of other nodes' publishers.                                             *)
InboxInv ==
  \A n \in Nodes : \A i \in DOMAIN inbox[n] :
    /\ \A j \in DOMAIN inbox[n] :
         i < j /\ By(inbox[n][i]) = By(inbox[n][j]) => inbox[n][i] < inbox[n][j]
    /\ \A s \in Sessions, f \in DOMAIN events :
         /\ Home[s] = n /\ Home[By(f)] # n
         /\ Hears(s, f) /\ By(f) = By(inbox[n][i])
         => f < inbox[n][i]

StreamInv ==
  WritingInv /\ PublishingInv /\ RelayingInv /\ InboxInv /\ StreamsIntact

(* An event that is under way is one that was published.                   *)
LEMMA EventTypes ==
  ASSUME HubInv
  PROVE  /\ Len(events) \in Nat /\ DOMAIN events = 1 .. Len(events)
         /\ \A e \in DOMAIN events :
              /\ e \in Nat /\ By(e) \in Publishers /\ Home[By(e)] \in Nodes
              /\ events[e].audience \subseteq Sessions
         /\ \A w \in Writers :
              /\ writer[w].event # 0 => writer[w].event \in DOMAIN events
              /\ writer[w].todo \subseteq Sessions
              /\ writer[w].todo # {} => writer[w].event # 0
         /\ \A n \in Nodes : \A i \in DOMAIN inbox[n] :
              i \in Nat /\ inbox[n][i] \in DOMAIN events
         /\ \A s \in Sessions : \A i \in DOMAIN received[s] :
              i \in Nat /\ received[s][i] \in DOMAIN events
         /\ \A s \in Sessions : \A f : Hears(s, f) => f \in DOMAIN events
  <1>1. /\ events \in Seq([by : Publishers, user : Users, audience : SUBSET Sessions])
        /\ writer \in [Writers -> [event : 0 .. Len(events), todo : SUBSET Sessions, count : Nat]]
        /\ inbox \in [Nodes -> Seq(1 .. Len(events))]
        /\ received \in [Sessions -> Seq(1 .. Len(events))]
        /\ \A w \in Writers : writer[w].event = 0 => writer[w] = Idle
    BY DEF HubInv, TypeOK, IdleInv
  <1>2. Len(events) \in Nat /\ DOMAIN events = 1 .. Len(events)
    BY <1>1
  <1>3. ASSUME NEW e \in DOMAIN events
        PROVE  /\ e \in Nat /\ By(e) \in Publishers /\ Home[By(e)] \in Nodes
               /\ events[e].audience \subseteq Sessions
    <2>1. events[e] \in [by : Publishers, user : Users, audience : SUBSET Sessions]
      <3>1. PICK E : E = [by : Publishers, user : Users, audience : SUBSET Sessions]
        OBVIOUS
      <3>2. events \in Seq(E) /\ e \in 1 .. Len(events)
        BY <1>1, <1>2, <3>1
      <3>3. events[e] \in E
        BY <3>2
      <3>4. QED
        BY <3>1, <3>3
    <2>2. QED
      BY <1>2, <2>1, HubAssumption DEF By
  <1>4. ASSUME NEW w \in Writers
        PROVE  /\ writer[w].event # 0 => writer[w].event \in DOMAIN events
               /\ writer[w].todo \subseteq Sessions
               /\ writer[w].todo # {} => writer[w].event # 0
    BY <1>1, <1>2 DEF Idle
  <1>5. ASSUME NEW n \in Nodes, NEW i \in DOMAIN inbox[n]
        PROVE  i \in Nat /\ inbox[n][i] \in DOMAIN events
    BY <1>1, <1>2
  <1>6. ASSUME NEW s \in Sessions, NEW i \in DOMAIN received[s]
        PROVE  i \in Nat /\ received[s][i] \in DOMAIN events
    BY <1>1, <1>2
  <1>7. QED
    BY <1>2, <1>3, <1>4, <1>5, <1>6 DEF Hears

(* Steps that leave the events, the writers and the clients alone may only *)
(* empty inboxes.                                                          *)
LEMMA EmptyingKeepsStreams ==
  ASSUME StreamInv, UNCHANGED <<events, writer, received>>,
         \A n \in Nodes : inbox'[n] = inbox[n] \/ inbox'[n] = <<>>
  PROVE  StreamInv'
  <1>1. WritingInv'
    BY DEF StreamInv, WritingInv, Hears, By
  <1>2. PublishingInv'
    BY DEF StreamInv, PublishingInv, Hears, By
  <1>3. RelayingInv'
    BY DEF StreamInv, RelayingInv, By
  <1>4. InboxInv'
    BY DEF StreamInv, InboxInv, Hears, By
  <1>5. StreamsIntact'
    BY DEF StreamInv, StreamsIntact
  <1>6. QED
    BY <1>1, <1>2, <1>3, <1>4, <1>5 DEF StreamInv

(* A writer that has finished.                                             *)
LEMMA RestingKeepsStreams ==
  ASSUME HubInv, StreamInv, NEW w \in Writers, writer' = [writer EXCEPT ![w] = Idle],
         UNCHANGED <<events, inbox, received>>
  PROVE  StreamInv'
  <1>1. \A v \in Writers : writer'[v] = writer[v] \/ writer'[v] = Idle
    BY DEF HubInv, TypeOK
  <1>2. Idle.event = 0
    BY DEF Idle
  <1>3. WritingInv'
    BY <1>1, <1>2 DEF StreamInv, WritingInv, Hears, By
  <1>4. PublishingInv'
    BY <1>1, <1>2 DEF StreamInv, PublishingInv, Hears, By, Writers
  <1>5. RelayingInv'
    BY <1>1, <1>2 DEF StreamInv, RelayingInv, By, Writers
  <1>6. InboxInv'
    BY DEF StreamInv, InboxInv, Hears, By
  <1>7. StreamsIntact'
    BY DEF StreamInv, StreamsIntact
  <1>8. QED
    BY <1>3, <1>4, <1>5, <1>6, <1>7 DEF StreamInv

(* The event that is published is newer than everything anywhere.          *)
LEMMA PublishKeepsStreams ==
  ASSUME HubInv, StreamInv, NEW p \in Publishers, NEW u \in Users, Publish(p, u)
  PROVE  StreamInv'
  <1> DEFINE e == Len(events) + 1
             v == Writing(e, Snapshot(Home[p], u))
  <1>1. /\ writer' = [writer EXCEPT ![p] = v]
        /\ events' = Append(events, [by |-> p, user |-> u, audience |-> byUser])
        /\ UNCHANGED <<inbox, received>>
        /\ p \in Writers
    BY DEF Publish, Writers
  <1>2. /\ e \in Nat /\ e # 0 /\ e \notin DOMAIN events
        /\ DOMAIN events' = DOMAIN events \cup {e}
        /\ \A f \in DOMAIN events : f < e /\ events'[f] = events[f]
        /\ events'[e] = [by |-> p, user |-> u, audience |-> byUser]
        /\ \A f \in DOMAIN events : f # 0
    BY <1>1, EventTypes
  <1>3. v.event = e /\ v.todo = Snapshot(Home[p], u)
    BY DEF Writing
  <1>4. /\ writer'[p] = v
        /\ \A w \in Writers \ {p} : writer'[w] = writer[w]
        /\ p \notin Nodes
    BY <1>1, HubAssumption DEF HubInv, TypeOK
  <1> HIDE DEF e, v
  <1>5. WritingInv'
    <2> SUFFICES ASSUME NEW w \in Writers, writer'[w].event # 0, NEW s \in writer'[w].todo
                 PROVE  /\ Home[s] = Place[w]
                        /\ UserOf[s] = events'[writer'[w].event].user
                        /\ \A f \in DOMAIN events' :
                             Hears(s, f)' /\ events'[f].by = events'[writer'[w].event].by
                               => f < writer'[w].event
      BY DEF WritingInv, By
    <2>1. CASE w = p
      <3>1. Home[s] = Home[p] /\ UserOf[s] = u /\ s \in Sessions
        BY <1>3, <1>4, <2>1 DEF Snapshot, HubInv, TypeOK
      <3>2. Place[w] = Home[p]
        BY <1>1, <1>4, <2>1 DEF Place
      <3>3. \A f : Hears(s, f)' => f \in DOMAIN events
        BY <1>1, <3>1, EventTypes DEF Hears
      <3>4. QED
        BY <1>2, <1>3, <1>4, <2>1, <3>1, <3>2, <3>3
    <2>2. CASE w # p
      <3>1. /\ writer'[w] = writer[w] /\ writer[w].event \in DOMAIN events
            /\ s \in Sessions
        BY <1>4, <2>2, EventTypes
      <3>2. \A f : Hears(s, f)' => f \in DOMAIN events /\ Hears(s, f)
        BY <1>1, <3>1, EventTypes DEF Hears
      <3>3. QED
        BY <1>2, <3>1, <3>2 DEF StreamInv, WritingInv, By
    <2>3. QED
      BY <2>1, <2>2
  <1>6. PublishingInv'
    <2>1. \A n \in Nodes : /\ writer'[n] = writer[n] /\ n \in Writers
                           /\ inbox'[n] = inbox[n]
                           /\ writer[n].event # 0 => writer[n].event \in DOMAIN events
                           /\ \A i \in DOMAIN inbox[n] : inbox[n][i] \in DOMAIN events
      BY <1>1, <1>4, EventTypes DEF Writers
    <2>2. \A s \in Sessions : \A f : Hears(s, f)' => f \in DOMAIN events /\ Hears(s, f)
      BY <1>1, EventTypes DEF Hears
    <2>3. ASSUME NEW q \in Publishers, writer'[q].event # 0
          PROVE  /\ events'[writer'[q].event].by = q
                 /\ \A n \in Nodes :
                      /\ writer'[n].event # 0 /\ events'[writer'[n].event].by = q
                           => writer'[n].event < writer'[q].event
                      /\ \A i \in DOMAIN inbox'[n] :
                           events'[inbox'[n][i]].by = q => inbox'[n][i] < writer'[q].event
                 /\ \A s \in Sessions, f \in DOMAIN events' :
                      Home[s] # Home[q] /\ Hears(s, f)' /\ events'[f].by = q => f < writer'[q].event
      <3>1. CASE q = p
        BY <1>2, <1>3, <1>4, <2>1, <2>2, <3>1 DEF By
      <3>2. CASE q # p
        <4>1. writer'[q] = writer[q] /\ writer[q].event \in DOMAIN events
          BY <1>4, <2>3, <3>2, EventTypes DEF Writers
        <4>2. QED
          BY <1>2, <2>1, <2>2, <2>3, <4>1 DEF StreamInv, PublishingInv, By
      <3>3. QED
        BY <3>1, <3>2
    <2>4. QED
      BY <2>3 DEF PublishingInv, By
  <1>7. RelayingInv'
    <2>1. \A n \in Nodes : /\ writer'[n] = writer[n]
                           /\ inbox'[n] = inbox[n]
                           /\ writer[n].event # 0 => writer[n].event \in DOMAIN events
                           /\ \A i \in DOMAIN inbox[n] : inbox[n][i] \in DOMAIN events
      BY <1>1, <1>4, EventTypes DEF Writers
    <2>2. QED
      BY <1>2, <2>1 DEF StreamInv, RelayingInv, By
  <1>8. InboxInv'
    <2>1. \A n \in Nodes : /\ inbox'[n] = inbox[n]
                           /\ \A i \in DOMAIN inbox[n] : inbox[n][i] \in DOMAIN events
      BY <1>1, EventTypes
    <2>2. \A s \in Sessions : \A f : Hears(s, f)' => f \in DOMAIN events /\ Hears(s, f)
      BY <1>1, EventTypes DEF Hears
    <2>3. QED
      BY <1>2, <2>1, <2>2 DEF StreamInv, InboxInv, By
  <1>9. StreamsIntact'
    <2>1. \A s \in Sessions : \A i \in DOMAIN received[s] : received[s][i] \in DOMAIN events
      BY EventTypes
    <2>2. QED
      BY <1>1, <1>2, <2>1 DEF StreamInv, StreamsIntact
  <1>10. QED
    BY <1>5, <1>6, <1>7, <1>8, <1>9 DEF StreamInv

(* A client that takes an event: two writers never hold an event of the    *)
(* same publisher for the same session.                                    *)
LEMMA WriteKeepsStreams ==
  ASSUME HubInv, StreamInv, NEW w \in Writers, NEW s \in writer[w].todo, Write(w, s)
  PROVE  StreamInv'
  <1> DEFINE e == writer[w].event
  <1>1. /\ s \in Sessions /\ e # 0 /\ e \in DOMAIN events /\ e \in Nat
        /\ events' = events /\ inbox' = inbox
        /\ Home[s] = Place[w] /\ UserOf[s] = events[e].user
    BY EventTypes DEF Write, StreamInv, WritingInv
  <1>2. /\ writer[w] \in [event : 0 .. Len(events), todo : SUBSET Sessions, count : Nat]
        /\ writer \in [Writers -> [event : 0 .. Len(events), todo : SUBSET Sessions, count : Nat]]
        /\ received \in [Sessions -> Seq(1 .. Len(events))]
    BY DEF HubInv, TypeOK
  <1>3. \A x \in Writers : writer'[x].event = writer[x].event
                           /\ writer'[x].todo \subseteq writer[x].todo
    <2>1. CASE s \in up
      <3>1. writer' = [writer EXCEPT ![w] = [writer[w] EXCEPT
                         !.todo = writer[w].todo \ {s}, !.count = writer[w].count + 1]]
        BY <1>2, <2>1 DEF Write
      <3>2. QED
        BY <1>2, <3>1
    <2>2. CASE s \notin up
      <3>1. writer' = [writer EXCEPT ![w] = [writer[w] EXCEPT !.todo = writer[w].todo \ {s}]]
        BY <1>2, <2>2 DEF Write
      <3>2. QED
        BY <1>2, <3>1
    <2>3. QED
      BY <2>1, <2>2
  <1>4. s \notin writer'[w].todo
    BY <1>2 DEF Write
  <1>5. \/ received' = received
        \/ received' = [received EXCEPT ![s] = Append(received[s], e)]
    BY DEF Write
  <1>6. \A x \in Sessions : x # s => received'[x] = received[x]
    BY <1>2, <1>5
  <1>7. /\ Len(received[s]) \in Nat /\ DOMAIN received[s] = 1 .. Len(received[s])
        /\ \A i \in DOMAIN received'[s] :
             \/ i \in DOMAIN received[s] /\ received'[s][i] = received[s][i]
             \/ i = Len(received[s]) + 1 /\ received'[s][i] = e
    <2>1. received[s] \in Seq(1 .. Len(events)) /\ e \in 1 .. Len(events)
      BY <1>1, <1>2, EventTypes
    <2> HIDE DEF e
    <2>2. CASE received' = received
      BY <2>1, <2>2
    <2>3. CASE received' = [received EXCEPT ![s] = Append(received[s], e)]
      <3>1. received'[s] = Append(received[s], e)
        BY <1>1, <1>2, <2>3
      <3>2. QED
        BY <2>1, <3>1
    <2>4. QED
      BY <1>5, <2>2, <2>3
  <1>8. \A x \in Sessions : \A f : Hears(x, f)' => Hears(x, f) \/ (x = s /\ f = e)
    BY <1>6, <1>7 DEF Hears
  <1> HIDE DEF e
  <1>9. WritingInv'
    <2> SUFFICES ASSUME NEW v \in Writers, writer'[v].event # 0, NEW x \in writer'[v].todo
                 PROVE  /\ Home[x] = Place[v]
                        /\ UserOf[x] = events'[writer'[v].event].user
                        /\ \A f \in DOMAIN events' :
                             Hears(x, f)' /\ events'[f].by = events'[writer'[v].event].by
                               => f < writer'[v].event
      BY DEF WritingInv, By
    <2>1. /\ writer[v].event # 0 /\ x \in writer[v].todo /\ x \in Sessions
          /\ writer'[v].event = writer[v].event
      BY <1>3, EventTypes
    <2>2. /\ Home[x] = Place[v]
          /\ UserOf[x] = events[writer[v].event].user
          /\ \A f \in DOMAIN events :
               Hears(x, f) /\ events[f].by = events[writer[v].event].by => f < writer[v].event
      BY <2>1 DEF StreamInv, WritingInv, By
    <2>3. x = s => events[e].by # events[writer[v].event].by
      <3> SUFFICES ASSUME x = s PROVE events[e].by # events[writer[v].event].by
        OBVIOUS
      <3>1. v # w /\ Place[v] = Place[w]
        BY <1>1, <1>4, <2>2
      <3>2. ASSUME NEW a \in Publishers, NEW b \in Nodes, writer[a].event # 0,
                   writer[b].event # 0, Place[a] = Place[b]
            PROVE  events[writer[a].event].by # events[writer[b].event].by
        <4>1. events[writer[a].event].by = a /\ Home[events[writer[b].event].by] # b
          BY <3>2 DEF StreamInv, PublishingInv, RelayingInv, By
        <4>2. Home[a] = b
          BY <3>2, HubAssumption DEF Place, Writers
        <4>3. QED
          BY <4>1, <4>2
      <3>3. ASSUME NEW a \in Publishers, writer[a].event # 0
            PROVE  events[writer[a].event].by = a
        BY <3>3 DEF StreamInv, PublishingInv, By
      <3>4. v \in Nodes => w \notin Nodes
        BY <3>1 DEF Place, Writers
      <3>5. QED
        BY <1>1, <2>1, <3>1, <3>2, <3>3, <3>4 DEF Writers, e
    <2>4. QED
      BY <1>1, <1>8, <2>1, <2>2, <2>3
  <1>10. PublishingInv'
    <2> SUFFICES ASSUME NEW p \in Publishers, writer'[p].event # 0
                 PROVE  /\ events'[writer'[p].event].by = p
                        /\ \A n \in Nodes :
                             /\ writer'[n].event # 0 /\ events'[writer'[n].event].by = p
                                  => writer'[n].event < writer'[p].event
                             /\ \A i \in DOMAIN inbox'[n] :
                                  events'[inbox'[n][i]].by = p => inbox'[n][i] < writer'[p].event
                        /\ \A x \in Sessions, f \in DOMAIN events' :
                             Home[x] # Home[p] /\ Hears(x, f)' /\ events'[f].by = p
                               => f < writer'[p].event
      BY DEF PublishingInv, By
    <2>1. /\ p \in Writers /\ Nodes \subseteq Writers
          /\ writer'[p].event = writer[p].event
          /\ writer[p].event # 0
      BY <1>3 DEF Writers
    <2>2. /\ events[writer[p].event].by = p
          /\ \A n \in Nodes :
               /\ writer[n].event # 0 /\ events[writer[n].event].by = p
                    => writer[n].event < writer[p].event
               /\ \A i \in DOMAIN inbox[n] :
                    events[inbox[n][i]].by = p => inbox[n][i] < writer[p].event
          /\ \A x \in Sessions, f \in DOMAIN events :
               Home[x] # Home[p] /\ Hears(x, f) /\ events[f].by = p => f < writer[p].event
      BY <2>1 DEF StreamInv, PublishingInv, By
    <2>3. Home[s] # Home[p] /\ events[e].by = p => e < writer[p].event
      <3> SUFFICES ASSUME Home[s] # Home[p], events[e].by = p PROVE e < writer[p].event
        OBVIOUS
      <3>1. CASE w \in Nodes
        BY <1>1, <2>2, <3>1 DEF e
      <3>2. CASE w \notin Nodes
        <4>1. w = p
          BY <1>1, <3>2 DEF StreamInv, PublishingInv, By, e, Writers
        <4>2. QED
          BY <1>1, <3>2, <4>1 DEF Place
      <3>3. QED
        BY <3>1, <3>2
    <2>4. QED
      BY <1>1, <1>3, <1>8, <2>1, <2>2, <2>3
  <1>11. RelayingInv'
    BY <1>1, <1>3 DEF StreamInv, RelayingInv, By, Writers
  <1>12. InboxInv'
    <2>1. ASSUME NEW n \in Nodes, NEW i \in DOMAIN inbox[n],
                 Home[s] = n, Home[events[e].by] # n, events[e].by = events[inbox[n][i]].by
          PROVE  e < inbox[n][i]
      <3>1. CASE w \in Nodes
        BY <1>1, <2>1, <3>1 DEF StreamInv, RelayingInv, By, e, Place
      <3>2. CASE w \notin Nodes
        BY <1>1, <2>1, <3>2 DEF StreamInv, PublishingInv, By, e, Place, Writers
      <3>3. QED
        BY <3>1, <3>2
    <2>2. QED
      BY <1>1, <1>8, <2>1 DEF StreamInv, InboxInv, By
  <1>13. StreamsIntact'
    <2> SUFFICES ASSUME NEW x \in Sessions, NEW i \in DOMAIN received'[x],
                        NEW j \in DOMAIN received'[x]
                 PROVE  /\ events[received'[x][i]].user = UserOf[x]
                        /\ i < j /\ events[received'[x][i]].by = events[received'[x][j]].by
                             => received'[x][i] < received'[x][j]
      BY <1>1 DEF StreamsIntact
    <2>1. CASE x # s
      BY <1>6, <2>1 DEF StreamInv, StreamsIntact
    <2>2. CASE x = s
      <3>1. \A k \in DOMAIN received[s] :
              events[received[s][k]].by = events[e].by => received[s][k] < e
        BY <1>1, EventTypes DEF StreamInv, WritingInv, By, Hears, e
      <3>2. /\ events[received'[s][i]].user = UserOf[s]
            /\ i \in Nat /\ j \in Nat
            /\ j \in DOMAIN received[s] /\ i < j => i \in DOMAIN received[s]
        BY <1>1, <1>7, <2>2 DEF StreamInv, StreamsIntact
      <3>3. QED
        BY <1>7, <2>2, <3>1, <3>2 DEF StreamInv, StreamsIntact
    <2>3. QED
      BY <2>1, <2>2
  <1>14. QED
    BY <1>9, <1>10, <1>11, <1>12, <1>13 DEF StreamInv

(* What the publisher hands to Redis is newer than all that is there of it. *)
LEMMA RelayKeepsStreams ==
  ASSUME HubInv, StreamInv, NEW p \in Publishers, Relay(p)
  PROVE  StreamInv'
  <1>1. PICK e : e = writer[p].event
    OBVIOUS
  <1>2. /\ p \in Writers /\ p \notin Nodes /\ Nodes \subseteq Writers /\ Publishers \subseteq Writers
        /\ e # 0 /\ e \in DOMAIN events /\ e \in Nat /\ events[e].by = p
        /\ UNCHANGED <<events, received>>
    <2>1. p \in Writers /\ p \notin Nodes /\ Nodes \subseteq Writers /\ Publishers \subseteq Writers
      BY HubAssumption DEF Writers
    <2>2. e # 0
      BY <1>1, <2>1 DEF Relay, HubInv, IdleInv
    <2>3. QED
      BY <1>1, <2>1, <2>2, EventTypes DEF Relay, StreamInv, PublishingInv, By
  <1>3. /\ writer'[p] = Idle
        /\ \A w \in Writers \ {p} : writer'[w] = writer[w]
        /\ Idle.event = 0
    BY <1>2 DEF Relay, HubInv, TypeOK, Idle
  <1>4. \A n \in Nodes : /\ inbox'[n] \in {inbox[n], Append(inbox[n], e)}
                         /\ Len(inbox[n]) \in Nat
                         /\ DOMAIN inbox[n] = 1 .. Len(inbox[n])
                         /\ inbox[n] \in Seq(1 .. Len(events))
    BY <1>1 DEF Relay, HubInv, TypeOK
  <1>5. \A n \in Nodes : \A i \in DOMAIN inbox'[n] :
          \/ i \in DOMAIN inbox[n] /\ inbox'[n][i] = inbox[n][i]
          \/ i = Len(inbox[n]) + 1 /\ inbox'[n][i] = e
    <2> SUFFICES ASSUME NEW n \in Nodes, NEW i \in DOMAIN inbox'[n]
                 PROVE  \/ i \in DOMAIN inbox[n] /\ inbox'[n][i] = inbox[n][i]
                        \/ i = Len(inbox[n]) + 1 /\ inbox'[n][i] = e
      OBVIOUS
    <2>1. PICK q : q = inbox[n]
      OBVIOUS
    <2>2. q \in Seq(1 .. Len(events)) /\ inbox'[n] \in {q, Append(q, e)}
      BY <1>4, <2>1
    <2>3. QED
      BY <2>1, <2>2
  <1>6. \A s \in Sessions : \A f : Hears(s, f)' => Hears(s, f)
    BY <1>2 DEF Hears
  <1>7. /\ \A n \in Nodes :
             /\ writer[n].event # 0 /\ events[writer[n].event].by = p => writer[n].event < e
             /\ \A i \in DOMAIN inbox[n] : events[inbox[n][i]].by = p => inbox[n][i] < e
        /\ \A s \in Sessions, f \in DOMAIN events :
             Home[s] # Home[p] /\ Hears(s, f) /\ events[f].by = p => f < e
    BY <1>1, <1>2 DEF StreamInv, PublishingInv, By
  <1>8. WritingInv'
    <2> SUFFICES ASSUME NEW w \in Writers, writer'[w].event # 0, NEW s \in writer'[w].todo
                 PROVE  /\ Home[s] = Place[w]
                        /\ UserOf[s] = events[writer'[w].event].user
                        /\ \A f \in DOMAIN events :
                             Hears(s, f)' /\ events[f].by = events[writer'[w].event].by
                               => f < writer'[w].event
      BY <1>2 DEF WritingInv, By
    <2>1. writer'[w] = writer[w] /\ s \in Sessions
      BY <1>3, EventTypes
    <2>2. QED
      BY <1>6, <2>1 DEF StreamInv, WritingInv, By
  <1>9. PublishingInv'
    <2> SUFFICES ASSUME NEW q \in Publishers, writer'[q].event # 0
                 PROVE  /\ events'[writer'[q].event].by = q
                        /\ \A n \in Nodes :
                             /\ writer'[n].event # 0 /\ events'[writer'[n].event].by = q
                                  => writer'[n].event < writer'[q].event
                             /\ \A i \in DOMAIN inbox'[n] :
                                  events'[inbox'[n][i]].by = q => inbox'[n][i] < writer'[q].event
                        /\ \A x \in Sessions, f \in DOMAIN events' :
                             Home[x] # Home[q] /\ Hears(x, f)' /\ events'[f].by = q
                               => f < writer'[q].event
      BY DEF PublishingInv, By
    <2>1. q # p /\ writer'[q] = writer[q] /\ \A n \in Nodes : writer'[n] = writer[n]
      BY <1>2, <1>3
    <2>2. QED
      BY <1>2, <1>5, <1>6, <2>1 DEF StreamInv, PublishingInv, By
  <1>10. RelayingInv'
    <2>1. \A n \in Nodes : writer'[n] = writer[n]
      BY <1>2, <1>3
    <2>2. QED
      BY <1>2, <1>5, <1>7, <2>1 DEF StreamInv, RelayingInv, By
  <1>11. InboxInv'
    <2> SUFFICES ASSUME NEW n \in Nodes, NEW i \in DOMAIN inbox'[n]
                 PROVE  /\ \A j \in DOMAIN inbox'[n] :
                             i < j /\ events[inbox'[n][i]].by = events[inbox'[n][j]].by
                               => inbox'[n][i] < inbox'[n][j]
                        /\ \A s \in Sessions, f \in DOMAIN events :
                             /\ Home[s] = n /\ Home[events[f].by] # n
                             /\ Hears(s, f)' /\ events[f].by = events[inbox'[n][i]].by
                             => f < inbox'[n][i]
      BY <1>2 DEF InboxInv, By
    <2>1. CASE i \in DOMAIN inbox[n] /\ inbox'[n][i] = inbox[n][i]
      <3>1. \A j \in DOMAIN inbox'[n] :
              i < j /\ events[inbox[n][i]].by = events[inbox'[n][j]].by
                => inbox[n][i] < inbox'[n][j]
        <4> SUFFICES ASSUME NEW j \in DOMAIN inbox'[n],
                            i < j, events[inbox[n][i]].by = events[inbox'[n][j]].by
                     PROVE  inbox[n][i] < inbox'[n][j]
          OBVIOUS
        <4>1. CASE j \in DOMAIN inbox[n] /\ inbox'[n][j] = inbox[n][j]
          BY <2>1, <4>1 DEF StreamInv, InboxInv, By
        <4>2. CASE inbox'[n][j] = e
          BY <1>2, <1>7, <2>1, <4>2
        <4>3. QED
          BY <1>5, <4>1, <4>2
      <3>2. QED
        BY <1>6, <2>1, <3>1 DEF StreamInv, InboxInv, By
    <2>2. CASE i = Len(inbox[n]) + 1 /\ inbox'[n][i] = e
      <3>1. \A j \in DOMAIN inbox'[n] : ~(i < j)
        BY <1>4, <1>5, <2>2
      <3>2. QED
        BY <1>2, <1>6, <1>7, <2>2, <3>1
    <2>3. QED
      BY <1>5, <2>1, <2>2
  <1>12. StreamsIntact'
    BY <1>2 DEF StreamInv, StreamsIntact
  <1>13. QED
    BY <1>8, <1>9, <1>10, <1>11, <1>12 DEF StreamInv

(* The subscriber takes the oldest envelope.                               *)
LEMMA ReceiveKeepsStreams ==
  ASSUME HubInv, StreamInv, NEW n \in Nodes, Receive(n)
  PROVE  StreamInv'
  <1>1. PICK e : e = Head(inbox[n])
    OBVIOUS
  <1>2. PICK v : v = IF Home[events[e].by] = n THEN Idle
                     ELSE Writing(e, Snapshot(n, events[e].user))
    OBVIOUS
  <1>3. /\ writer' = [writer EXCEPT ![n] = v]
        /\ inbox' = [inbox EXCEPT ![n] = Tail(inbox[n])]
        /\ UNCHANGED <<events, received>>
        /\ inbox[n] # <<>>
    BY <1>1, <1>2 DEF Receive
  <1>4. /\ n \in Writers /\ Nodes \subseteq Writers /\ Publishers \subseteq Writers
        /\ \A p \in Publishers : p # n
    BY HubAssumption DEF Writers
  <1>5. /\ writer'[n] = v
        /\ \A w \in Writers \ {n} : writer'[w] = writer[w]
        /\ inbox'[n] = Tail(inbox[n])
        /\ \A m \in Nodes \ {n} : inbox'[m] = inbox[m]
        /\ inbox[n] \in Seq(1 .. Len(events))
    BY <1>3, <1>4 DEF HubInv, TypeOK
  <1>6. /\ 1 \in DOMAIN inbox[n] /\ inbox[n][1] = e
        /\ e \in DOMAIN events /\ e # 0
        /\ \A i \in DOMAIN inbox'[n] : /\ i \in Nat /\ 1 < i + 1 /\ i + 1 \in DOMAIN inbox[n]
                                       /\ inbox'[n][i] = inbox[n][i + 1]
    <2>1. PICK q : q = inbox[n]
      OBVIOUS
    <2>2. q \in Seq(1 .. Len(events)) /\ q # <<>> /\ inbox'[n] = Tail(q) /\ e = Head(q)
      BY <1>1, <1>3, <1>5, <2>1
    <2>3. /\ 1 \in DOMAIN q /\ q[1] = e /\ e \in 1 .. Len(events)
          /\ \A i \in DOMAIN Tail(q) : /\ i \in Nat /\ 1 < i + 1 /\ i + 1 \in DOMAIN q
                                       /\ Tail(q)[i] = q[i + 1]
      BY <2>2
    <2>4. QED
      BY <2>1, <2>2, <2>3, EventTypes
  <1>7. v.event # 0 => /\ v.event = e /\ Home[events[e].by] # n
                       /\ v.todo = Snapshot(n, events[e].user)
    BY <1>2 DEF Idle, Writing
  <1>t. v.event = 0 => v.todo = {}
    BY <1>2, <1>6 DEF Idle, Writing
  <1>8. \A s \in Sessions : \A f : Hears(s, f)' => Hears(s, f)
    BY <1>3 DEF Hears
  <1>9. \A m \in Nodes : \A i \in DOMAIN inbox'[m] :
          \E k \in DOMAIN inbox[m] : inbox'[m][i] = inbox[m][k]
    <2>1. ASSUME NEW i \in DOMAIN inbox'[n]
          PROVE  \E k \in DOMAIN inbox[n] : inbox'[n][i] = inbox[n][k]
      BY <1>6
    <2>2. QED
      BY <1>5, <2>1
  <1>10. WritingInv'
    <2> SUFFICES ASSUME NEW w \in Writers, writer'[w].event # 0, NEW s \in writer'[w].todo
                 PROVE  /\ Home[s] = Place[w]
                        /\ UserOf[s] = events[writer'[w].event].user
                        /\ \A f \in DOMAIN events :
                             Hears(s, f)' /\ events[f].by = events[writer'[w].event].by
                               => f < writer'[w].event
      BY <1>3 DEF WritingInv, By
    <2>1. CASE w = n
      <3>1. /\ Home[s] = n /\ UserOf[s] = events[e].user /\ s \in Sessions
            /\ writer'[w].event = e /\ Home[events[e].by] # n
        BY <1>5, <1>7, <2>1 DEF Snapshot, HubInv, TypeOK
      <3>2. Place[w] = n
        BY <1>4, <2>1 DEF Place
      <3>3. QED
        BY <1>6, <1>8, <3>1, <3>2 DEF StreamInv, InboxInv, By
    <2>2. CASE w # n
      <3>1. writer'[w] = writer[w] /\ s \in Sessions
        BY <1>5, <2>2, EventTypes
      <3>2. QED
        BY <1>8, <3>1 DEF StreamInv, WritingInv, By
    <2>3. QED
      BY <2>1, <2>2
  <1>11. PublishingInv'
    <2> SUFFICES ASSUME NEW p \in Publishers, writer'[p].event # 0
                 PROVE  /\ events[writer'[p].event].by = p
                        /\ \A m \in Nodes :
                             /\ writer'[m].event # 0 /\ events[writer'[m].event].by = p
                                  => writer'[m].event < writer'[p].event
                             /\ \A i \in DOMAIN inbox'[m] :
                                  events[inbox'[m][i]].by = p => inbox'[m][i] < writer'[p].event
                        /\ \A x \in Sessions, f \in DOMAIN events :
                             Home[x] # Home[p] /\ Hears(x, f)' /\ events[f].by = p
                               => f < writer'[p].event
      BY <1>3 DEF PublishingInv, By
    <2>1. writer'[p] = writer[p]
      BY <1>4, <1>5
    <2>2. \A m \in Nodes : m # n => writer'[m] = writer[m]
      BY <1>4, <1>5
    <2>3. QED
      BY <1>5, <1>6, <1>7, <1>8, <1>9, <2>1, <2>2 DEF StreamInv, PublishingInv, By
  <1>12. RelayingInv'
    <2>1. \A m \in Nodes : m # n => writer'[m] = writer[m] /\ inbox'[m] = inbox[m]
      BY <1>4, <1>5
    <2>2. \A i \in DOMAIN inbox'[n] :
            events[inbox'[n][i]].by = events[e].by => e < inbox'[n][i]
      BY <1>6 DEF StreamInv, InboxInv, By
    <2>3. ASSUME NEW m \in Nodes, writer'[m].event # 0
          PROVE  /\ Home[events[writer'[m].event].by] # m
                 /\ \A i \in DOMAIN inbox'[m] :
                      events[inbox'[m][i]].by = events[writer'[m].event].by
                        => writer'[m].event < inbox'[m][i]
      <3>1. CASE m = n
        <4>1. writer'[m].event = e /\ Home[events[e].by] # n
          BY <1>5, <1>7, <2>3, <3>1
        <4>2. QED
          BY <2>2, <3>1, <4>1
      <3>2. CASE m # n
        BY <2>1, <2>3, <3>2 DEF StreamInv, RelayingInv, By
      <3>3. QED
        BY <3>1, <3>2
    <2>4. QED
      BY <1>3, <2>3 DEF RelayingInv, By
  <1>13. InboxInv'
    <2> SUFFICES ASSUME NEW m \in Nodes, NEW i \in DOMAIN inbox'[m]
                 PROVE  /\ \A j \in DOMAIN inbox'[m] :
                             i < j /\ events[inbox'[m][i]].by = events[inbox'[m][j]].by
                               => inbox'[m][i] < inbox'[m][j]
                        /\ \A s \in Sessions, f \in DOMAIN events :
                             /\ Home[s] = m /\ Home[events[f].by] # m
                             /\ Hears(s, f)' /\ events[f].by = events[inbox'[m][i]].by
                             => f < inbox'[m][i]
      BY <1>3 DEF InboxInv, By
    <2>1. \A j \in DOMAIN inbox'[m] :
            i < j /\ events[inbox'[m][i]].by = events[inbox'[m][j]].by
              => inbox'[m][i] < inbox'[m][j]
      <3>1. CASE m = n
        <4>1. \A j \in DOMAIN inbox'[n] : i < j => i + 1 < j + 1
          BY <1>6, <3>1
        <4>2. QED
          BY <1>6, <3>1, <4>1 DEF StreamInv, InboxInv, By
      <3>2. CASE m # n
        BY <1>5, <3>2 DEF StreamInv, InboxInv, By
      <3>3. QED
        BY <3>1, <3>2
    <2>2. QED
      BY <1>8, <1>9, <2>1 DEF StreamInv, InboxInv, By
  <1>14. StreamsIntact'
    BY <1>3 DEF StreamInv, StreamsIntact
  <1>15. QED
    BY <1>10, <1>11, <1>12, <1>13, <1>14 DEF StreamInv

LEMMA InitStreamInv == Init => StreamInv
  BY DEF Init, StreamInv, WritingInv, PublishingInv, RelayingInv, InboxInv, StreamsIntact,
         Idle, Writers

LEMMA NextStreamInv == HubInv /\ StreamInv /\ [Next]_vars => StreamInv'
  <1> SUFFICES ASSUME HubInv, StreamInv, [Next]_vars PROVE StreamInv'
    OBVIOUS
  <1>1. ASSUME UNCHANGED <<events, writer, inbox, received>> PROVE StreamInv'
    BY <1>1, EmptyingKeepsStreams
  <1>2. ASSUME NEW s \in Sessions, Register(s) \/ Break(s) \/ Leave(s) \/ Close(s)
        PROVE  StreamInv'
    BY <1>1, <1>2 DEF Register, Break, Leave, Close
  <1>3. ASSUME NEW p \in Publishers, NEW u \in Users, Publish(p, u) PROVE StreamInv'
    BY <1>3, PublishKeepsStreams
  <1>4. ASSUME NEW w \in Writers, NEW s \in writer[w].todo, Write(w, s) PROVE StreamInv'
    BY <1>4, WriteKeepsStreams
  <1>5. ASSUME NEW p \in Publishers, Relay(p) PROVE StreamInv'
    BY <1>5, RelayKeepsStreams
  <1>6. ASSUME NEW n \in Nodes, Receive(n) PROVE StreamInv'
    BY <1>6, ReceiveKeepsStreams
  <1>7. ASSUME NEW n \in Nodes, Relayed(n) PROVE StreamInv'
    BY <1>7, RestingKeepsStreams DEF Relayed, Writers
  <1>8. ASSUME NEW n \in Nodes, Unsubscribe(n) \/ Subscribe(n) PROVE StreamInv'
    <2>1. \A m \in Nodes : inbox'[m] = inbox[m] \/ inbox'[m] = <<>>
      BY <1>8 DEF Unsubscribe, Subscribe, HubInv, TypeOK
    <2>2. QED
      BY <1>8, <2>1, EmptyingKeepsStreams DEF Unsubscribe, Subscribe
  <1>9. CASE UNCHANGED vars
    BY <1>1, <1>9 DEF vars
  <1>10. QED
    BY <1>2, <1>3, <1>4, <1>5, <1>6, <1>7, <1>8, <1>9 DEF Next

(* Whatever path an event takes, a client gets it at most once, gets only  *)
(* its own user's events, and gets those of one goroutine in order.        *)
THEOREM StreamsStayIntact == Spec => []StreamsIntact
  BY InitHubInv, NextHubInv, InitStreamInv, NextStreamInv, PTL DEF Spec, StreamInv

-----------------------------------------------------------------------------
(* Whom an event reaches.  A session that was registered when the event    *)
(* was published has it, is no longer registered, or is still to be        *)
(* reached: by the publisher, by the envelope, or by the node's subscriber.*)

(* Those an event was published for.                                       *)
MeantFor(e) == {s \in events[e].audience : UserOf[s] = events[e].user}

ServedLocally(p) == {s \in Sessions : Home[s] = Home[p] /\ Hears(s, writer[p].event)}

(* No session is registered a second time.                                 *)
AudienceInv ==
  \A e \in DOMAIN events : \A s \in events[e].audience : phase[s] # "new"

(* What publishToUser has done so far of its snapshot.                     *)
LocalInv ==
  \A p \in Publishers : writer[p].event # 0 =>
    /\ writer[p].count = Cardinality(ServedLocally(p))
    /\ \A s \in MeantFor(writer[p].event) : Home[s] = Home[p] =>
         s \in writer[p].todo \/ Hears(s, writer[p].event) \/ s \notin up

(* The ways an event may still reach a session.                            *)
Pending(s, e) ==
  \/ /\ writer[By(e)].event = e
     /\ Home[s] = Home[By(e)] => s \in writer[By(e)].todo
  \/ /\ Home[s] # Home[By(e)]
     /\ \E i \in DOMAIN inbox[Home[s]] : inbox[Home[s]][i] = e
  \/ writer[Home[s]].event = e /\ s \in writer[Home[s]].todo

ReachInv ==
  drops = 0 =>
    /\ subscribed = Nodes
    /\ \A e \in DOMAIN events : \A s \in MeantFor(e) :
         s \in byUser => Hears(s, e) \/ Pending(s, e)

ServeInv == AudienceInv /\ LocalInv /\ ReachInv

(* The step of a writer, seen from the sessions.                           *)
LEMMA WriteStep ==
  ASSUME HubInv, StreamInv, NEW w \in Writers, NEW s \in writer[w].todo, Write(w, s),
         NEW e, e = writer[w].event
  PROVE  /\ s \in Sessions /\ e # 0 /\ e \in DOMAIN events
         /\ Home[s] = Place[w] /\ ~Hears(s, e)
         /\ UNCHANGED <<phase, up, events, inbox, subscribed, drops>>
         /\ \A x \in Writers : /\ x # w => writer'[x] = writer[x]
                               /\ writer'[x].event = writer[x].event
         /\ writer'[w].todo = writer[w].todo \ {s}
         /\ byUser' \subseteq byUser /\ (s \notin up => s \notin byUser')
         /\ writer'[w].count = IF s \in up THEN writer[w].count + 1 ELSE writer[w].count
         /\ \A x \in Sessions : \A f :
              Hears(x, f)' <=> Hears(x, f) \/ (s \in up /\ x = s /\ f = e)
  <1>1. /\ s \in Sessions /\ e # 0 /\ e \in DOMAIN events /\ e \in Nat
        /\ Home[s] = Place[w]
        /\ \A f \in DOMAIN events : Hears(s, f) /\ By(f) = By(e) => f < e
    BY EventTypes DEF StreamInv, WritingInv
  <1>2. ~Hears(s, e)
    BY <1>1
  <1>3. /\ writer \in [Writers -> [event : 0 .. Len(events), todo : SUBSET Sessions, count : Nat]]
        /\ writer[w] \in [event : 0 .. Len(events), todo : SUBSET Sessions, count : Nat]
        /\ received \in [Sessions -> Seq(1 .. Len(events))]
        /\ received[s] \in Seq(1 .. Len(events))
        /\ e \in 1 .. Len(events)
    BY <1>1, EventTypes DEF HubInv, TypeOK
  <1>4. UNCHANGED <<phase, up, events, inbox, subscribed, drops>>
    BY DEF Write
  <1>5. CASE s \in up
    <2>1. writer' = [writer EXCEPT ![w] = [writer[w] EXCEPT
                       !.todo = writer[w].todo \ {s}, !.count = writer[w].count + 1]]
      BY <1>3, <1>5 DEF Write
    <2>2. received' = [received EXCEPT ![s] = Append(received[s], e)] /\ byUser' = byUser
      BY <1>5 DEF Write
    <2>3. /\ \A x \in Writers : /\ x # w => writer'[x] = writer[x]
                                /\ writer'[x].event = writer[x].event
          /\ writer'[w].todo = writer[w].todo \ {s}
          /\ writer'[w].count = writer[w].count + 1
      BY <1>3, <2>1
    <2>4. \A f : Hears(s, f)' <=> Hears(s, f) \/ f = e
      <3>1. received'[s] = Append(received[s], e)
        BY <1>1, <1>3, <2>2
      <3>2. PICK q : q = received[s]
        OBVIOUS
      <3>3. q \in Seq(1 .. Len(events))
        BY <1>3, <3>2
      <3>4. /\ \A i \in DOMAIN Append(q, e) : (i \in DOMAIN q /\ Append(q, e)[i] = q[i]) \/ Append(q, e)[i] = e
            /\ \A i \in DOMAIN q : i \in DOMAIN Append(q, e) /\ Append(q, e)[i] = q[i]
            /\ Len(q) + 1 \in DOMAIN Append(q, e) /\ Append(q, e)[Len(q) + 1] = e
        BY <1>3, <3>3
      <3>5. QED
        BY <3>1, <3>2, <3>4 DEF Hears
    <2>5. \A x \in Sessions : x # s => received'[x] = received[x]
      BY <1>3, <2>2
    <2>6. \A x \in Sessions : \A f : x # s => (Hears(x, f)' <=> Hears(x, f))
      BY <2>5 DEF Hears
    <2>7. QED
      BY <1>1, <1>2, <1>4, <1>5, <2>2, <2>3, <2>4, <2>6
  <1>6. CASE s \notin up
    <2>1. writer' = [writer EXCEPT ![w] = [writer[w] EXCEPT !.todo = writer[w].todo \ {s}]]
      BY <1>3, <1>6 DEF Write
    <2>2. received' = received /\ byUser' = byUser \ {s}
      BY <1>6 DEF Write, Remove
    <2>3. /\ \A x \in Writers : /\ x # w => writer'[x] = writer[x]
                                /\ writer'[x].event = writer[x].event
          /\ writer'[w].todo = writer[w].todo \ {s}
          /\ writer'[w].count = writer[w].count
      BY <1>3, <2>1
    <2>4. QED
      BY <1>1, <1>2, <1>4, <1>6, <2>2, <2>3 DEF Hears
  <1>7. QED
    BY <1>5, <1>6

(* An event reaches a node's sessions by one writer: its publisher on the  *)
(* publisher's node, the subscriber on every other.                        *)
LEMMA OneWriter ==
  ASSUME HubInv, StreamInv, NEW p \in Publishers, writer[p].event # 0,
         NEW w \in Writers, w # p, writer[w].event = writer[p].event
  PROVE  Place[w] # Home[p]
  <1>1. w \in Nodes
    BY DEF StreamInv, PublishingInv, By, Writers
  <1>2. Home[events[writer[w].event].by] # w
    BY <1>1 DEF StreamInv, RelayingInv, By
  <1>3. events[writer[p].event].by = p
    BY DEF StreamInv, PublishingInv, By
  <1>4. QED
    BY <1>1, <1>2, <1>3 DEF Place

LEMMA MeantTypes ==
  ASSUME HubInv
  PROVE  \A e \in DOMAIN events : MeantFor(e) \subseteq Sessions
  BY EventTypes DEF MeantFor

LEMMA NextAudienceInv ==
  ASSUME HubInv, StreamInv, AudienceInv, [Next]_vars
  PROVE  AudienceInv'
  <1>1. ASSUME events' = events, \A s \in Sessions : phase'[s] = "new" => phase[s] = "new"
        PROVE  AudienceInv'
    BY <1>1, EventTypes DEF AudienceInv
  <1>2. ASSUME NEW s \in Sessions, Register(s) \/ Break(s) \/ Leave(s) \/ Close(s)
        PROVE  AudienceInv'
    BY <1>1, <1>2 DEF Register, Break, Leave, Close, HubInv, TypeOK
  <1>3. ASSUME NEW p \in Publishers, NEW u \in Users, Publish(p, u) PROVE AudienceInv'
    <2>1. /\ DOMAIN events' = DOMAIN events \cup {Len(events) + 1}
          /\ \A e \in DOMAIN events : events'[e] = events[e]
          /\ events'[Len(events) + 1].audience = byUser
          /\ phase' = phase
      BY <1>3, EventTypes DEF Publish
    <2>2. \A s \in byUser : phase[s] # "new"
      BY DEF HubInv, NoLeak
    <2>3. QED
      BY <2>1, <2>2 DEF AudienceInv
  <1>4. ASSUME UNCHANGED <<events, phase>> PROVE AudienceInv'
    BY <1>1, <1>4
  <1>5. QED
    BY <1>2, <1>3, <1>4 DEF Next, vars, Write, Relay, Receive, Relayed, Unsubscribe, Subscribe

(* Steps that give no socket back to a session and leave alone what is     *)
(* heard and what a publisher is at.                                       *)
LEMMA QuietKeepsLocal ==
  ASSUME HubInv, LocalInv, UNCHANGED <<events, received>>,
         \A p \in Publishers : writer'[p] = writer[p] \/ writer'[p].event = 0,
         \A e \in DOMAIN events : \A s \in events[e].audience : s \notin up => s \notin up'
  PROVE  LocalInv'
  <1> SUFFICES ASSUME NEW q \in Publishers, writer'[q].event # 0, NEW f, f = writer'[q].event
               PROVE  /\ writer'[q].count =
                           Cardinality({s \in Sessions : Home[s] = Home[q] /\ Hears(s, f)'})
                      /\ \A s \in events'[f].audience :
                           Home[s] = Home[q] /\ UserOf[s] = events'[f].user =>
                             s \in writer'[q].todo \/ Hears(s, f)' \/ s \notin up'
    BY DEF LocalInv, ServedLocally, MeantFor, Hears
  <1>1. writer'[q] = writer[q] /\ f \in DOMAIN events
    BY EventTypes DEF Writers
  <1>2. {s \in Sessions : Home[s] = Home[q] /\ Hears(s, f)'} = ServedLocally(q)
    BY <1>1 DEF ServedLocally, Hears
  <1>3. \A s : Hears(s, f)' <=> Hears(s, f)
    BY DEF Hears
  <1>4. QED
    BY <1>1, <1>2, <1>3 DEF LocalInv, MeantFor

LEMMA PublishKeepsLocal ==
  ASSUME HubInv, StreamInv, AudienceInv, LocalInv,
         NEW p \in Publishers, NEW u \in Users, Publish(p, u)
  PROVE  LocalInv'
  <1>1. PICK e : e = Len(events) + 1
    OBVIOUS
  <1>2. /\ UNCHANGED <<up, byUser, received>>
        /\ DOMAIN events' = DOMAIN events \cup {e} /\ e \notin DOMAIN events
        /\ \A f \in DOMAIN events : events'[f] = events[f]
        /\ events'[e] = [by |-> p, user |-> u, audience |-> byUser]
    BY <1>1, EventTypes DEF Publish
  <1>3. /\ writer'[p].event = e /\ writer'[p].count = 0
        /\ writer'[p].todo = Snapshot(Home[p], u)
        /\ \A q \in Publishers : q # p => writer'[q] = writer[q]
    BY <1>1 DEF Publish, Writing, HubInv, TypeOK, Writers
  <1> SUFFICES ASSUME NEW q \in Publishers, writer'[q].event # 0, NEW f, f = writer'[q].event
               PROVE  /\ writer'[q].count =
                           Cardinality({s \in Sessions : Home[s] = Home[q] /\ Hears(s, f)'})
                      /\ \A s \in events'[f].audience :
                           Home[s] = Home[q] /\ UserOf[s] = events'[f].user =>
                             s \in writer'[q].todo \/ Hears(s, f)' \/ s \notin up'
    BY DEF LocalInv, ServedLocally, MeantFor, Hears
  <1>4. CASE q = p
    <2>1. \A s \in Sessions : ~Hears(s, e)'
      BY <1>2, EventTypes DEF Hears
    <2>2. {s \in Sessions : Home[s] = Home[q] /\ Hears(s, f)'} = {}
      BY <1>3, <1>4, <2>1
    <2>3. writer'[q].count = Cardinality({s \in Sessions : Home[s] = Home[q] /\ Hears(s, f)'})
      BY <1>3, <1>4, <2>2, FS_EmptySet
    <2>4. f = e /\ events'[f].audience = byUser /\ events'[f].user = u
      BY <1>2, <1>3, <1>4
    <2>5. QED
      BY <1>3, <1>4, <2>3, <2>4 DEF Snapshot
  <1>5. CASE q # p
    <2>1. writer'[q] = writer[q] /\ f \in DOMAIN events
      BY <1>3, <1>5, EventTypes DEF Writers
    <2>2. {s \in Sessions : Home[s] = Home[q] /\ Hears(s, f)'} = ServedLocally(q)
      BY <1>2, <2>1 DEF ServedLocally, Hears
    <2>3. \A s : Hears(s, f)' <=> Hears(s, f)
      BY <1>2 DEF Hears
    <2>4. QED
      BY <1>2, <2>1, <2>2, <2>3 DEF LocalInv, MeantFor
  <1>6. QED
    BY <1>4, <1>5

(* A publisher counts the sessions that take its event: none has it twice, *)
(* and no other writer brings it to them.                                  *)
LEMMA WriteKeepsLocal ==
  ASSUME HubInv, StreamInv, LocalInv, NEW w \in Writers, NEW s \in writer[w].todo, Write(w, s)
  PROVE  LocalInv'
  <1>1. PICK e : e = writer[w].event
    OBVIOUS
  <1>2. /\ s \in Sessions /\ Home[s] = Place[w] /\ ~Hears(s, e)
        /\ UNCHANGED <<up, events>>
        /\ \A x \in Writers : /\ x # w => writer'[x] = writer[x]
                              /\ writer'[x].event = writer[x].event
        /\ writer'[w].todo = writer[w].todo \ {s}
        /\ writer'[w].count = IF s \in up THEN writer[w].count + 1 ELSE writer[w].count
        /\ \A x \in Sessions : \A f :
             Hears(x, f)' <=> Hears(x, f) \/ (s \in up /\ x = s /\ f = e)
    BY <1>1, WriteStep
  <1> SUFFICES ASSUME NEW q \in Publishers, writer'[q].event # 0, NEW f, f = writer'[q].event
               PROVE  /\ writer'[q].count =
                           Cardinality({x \in Sessions : Home[x] = Home[q] /\ Hears(x, f)'})
                      /\ \A x \in events'[f].audience :
                           Home[x] = Home[q] /\ UserOf[x] = events'[f].user =>
                             x \in writer'[q].todo \/ Hears(x, f)' \/ x \notin up'
    BY DEF LocalInv, ServedLocally, MeantFor, Hears
  <1>3. /\ q \in Writers /\ writer[q].event = f /\ f # 0 /\ f \in DOMAIN events
        /\ writer[q].count \in Nat
    BY <1>2, EventTypes DEF Writers, HubInv, TypeOK
  <1>4. /\ events[f].audience \subseteq Sessions
        /\ writer[q].count = Cardinality(ServedLocally(q))
        /\ \A x \in events[f].audience :
             Home[x] = Home[q] /\ UserOf[x] = events[f].user =>
               x \in writer[q].todo \/ Hears(x, f) \/ x \notin up
    BY <1>3, EventTypes DEF LocalInv, MeantFor
  <1>5. ServedLocally(q) = {x \in Sessions : Home[x] = Home[q] /\ Hears(x, f)}
    BY <1>3 DEF ServedLocally
  <1>6. CASE q = w
    <2>1. PICK S : S = ServedLocally(q)
      OBVIOUS
    <2>2. f = e /\ Home[s] = Home[q] /\ s \notin S
      BY <1>1, <1>2, <1>3, <1>5, <1>6, <2>1, HubAssumption DEF Place
    <2>3. CASE s \in up
      <3>1. {x \in Sessions : Home[x] = Home[q] /\ Hears(x, f)'} = S \cup {s}
        BY <1>2, <1>5, <2>1, <2>2, <2>3
      <3>2. Cardinality(S \cup {s}) = Cardinality(S) + 1
        BY <1>5, <2>1, <2>2, SessionsFinite, FS_AddElement
      <3>3. QED
        BY <1>2, <1>4, <1>6, <2>1, <2>2, <2>3, <3>1, <3>2
    <2>4. CASE s \notin up
      <3>1. {x \in Sessions : Home[x] = Home[q] /\ Hears(x, f)'} = S
        BY <1>2, <1>5, <2>1, <2>4
      <3>2. QED
        BY <1>2, <1>4, <1>6, <2>1, <2>4, <3>1
    <2>5. QED
      BY <2>3, <2>4
  <1>7. CASE q # w
    <2>1. f = e => Home[s] # Home[q]
      BY <1>1, <1>2, <1>3, <1>7, OneWriter
    <2>2. {x \in Sessions : Home[x] = Home[q] /\ Hears(x, f)'} = ServedLocally(q)
      BY <1>2, <1>5, <2>1
    <2>3. writer'[q] = writer[q]
      BY <1>2, <1>3, <1>7
    <2>4. QED
      BY <1>2, <1>4, <2>2, <2>3
  <1>8. QED
    BY <1>6, <1>7

LEMMA NextLocalInv ==
  ASSUME HubInv, StreamInv, AudienceInv, LocalInv, [Next]_vars
  PROVE  LocalInv'
  <1>1. ASSUME UNCHANGED <<events, received, writer, up>> PROVE LocalInv'
    BY <1>1, QuietKeepsLocal
  <1>2. ASSUME NEW s \in Sessions, Register(s) PROVE LocalInv'
    BY <1>2, QuietKeepsLocal DEF Register, AudienceInv
  <1>3. ASSUME NEW s \in Sessions, Break(s) \/ Leave(s) \/ Close(s) PROVE LocalInv'
    BY <1>3, QuietKeepsLocal DEF Break, Leave, Close
  <1>4. ASSUME NEW p \in Publishers, NEW u \in Users, Publish(p, u) PROVE LocalInv'
    BY <1>4, PublishKeepsLocal
  <1>5. ASSUME NEW w \in Writers, NEW s \in writer[w].todo, Write(w, s) PROVE LocalInv'
    BY <1>5, WriteKeepsLocal
  <1>6. ASSUME NEW p \in Publishers, Relay(p) PROVE LocalInv'
    <2>1. \A q \in Publishers : writer'[q] = writer[q] \/ writer'[q].event = 0
      BY <1>6 DEF Relay, HubInv, TypeOK, Idle, Writers
    <2>2. QED
      BY <1>6, <2>1, QuietKeepsLocal DEF Relay
  <1>7. ASSUME NEW n \in Nodes, Receive(n) \/ Relayed(n) PROVE LocalInv'
    <2>1. \A q \in Publishers : writer'[q] = writer[q]
      BY <1>7, HubAssumption DEF Receive, Relayed, HubInv, TypeOK, Writers
    <2>2. QED
      BY <1>7, <2>1, QuietKeepsLocal DEF Receive, Relayed
  <1>8. ASSUME NEW n \in Nodes, Unsubscribe(n) \/ Subscribe(n) PROVE LocalInv'
    BY <1>1, <1>8 DEF Unsubscribe, Subscribe
  <1>9. QED
    BY <1>1, <1>2, <1>3, <1>4, <1>5, <1>6, <1>7, <1>8 DEF Next, vars

(* Steps that only unregister sessions.                                    *)
LEMMA QuietKeepsReach ==
  ASSUME HubInv, ReachInv,
         UNCHANGED <<events, received, writer, inbox, subscribed, drops>>,
         \A e \in DOMAIN events : \A s \in events[e].audience : s \in byUser' => s \in byUser
  PROVE  ReachInv'
  BY DEF ReachInv, MeantFor, Hears, Pending, By

LEMMA PublishKeepsReach ==
  ASSUME HubInv, ReachInv, NEW p \in Publishers, NEW u \in Users, Publish(p, u)
  PROVE  ReachInv'
  <1> SUFFICES ASSUME drops = 0, NEW e \in DOMAIN events', NEW s \in events'[e].audience,
                      UserOf[s] = events'[e].user, s \in byUser
               PROVE  Hears(s, e)' \/ Pending(s, e)'
    BY DEF ReachInv, MeantFor, Publish
  <1>1. PICK new : new = Len(events) + 1
    OBVIOUS
  <1>2. /\ UNCHANGED <<received, inbox>>
        /\ DOMAIN events' = DOMAIN events \cup {new} /\ new \notin DOMAIN events
        /\ \A f \in DOMAIN events : events'[f] = events[f]
        /\ events'[new] = [by |-> p, user |-> u, audience |-> byUser]
    BY <1>1, EventTypes DEF Publish
  <1>3. /\ writer'[p].event = new /\ writer'[p].todo = Snapshot(Home[p], u)
        /\ \A w \in Writers : w # p => writer'[w] = writer[w]
        /\ writer[p].event = 0 /\ writer[p].todo = {}
        /\ p \in Writers
    BY <1>1 DEF Publish, Writing, Idle, HubInv, TypeOK, Writers
  <1>4. CASE e = new
    BY <1>2, <1>3, <1>4 DEF Snapshot, Pending, By
  <1>5. CASE e # new
    <2>1. e \in DOMAIN events /\ events'[e] = events[e] /\ e # 0
      BY <1>2, <1>5, EventTypes
    <2>2. Hears(s, e) \/ Pending(s, e)
      BY <2>1 DEF ReachInv, MeantFor
    <2>3. Hears(s, e) => Hears(s, e)'
      BY <1>2 DEF Hears
    <2>4. Pending(s, e) => Pending(s, e)'
      <3>1. /\ By(e) \in Writers /\ s \in Sessions /\ Home[s] \in Writers
        BY <2>1, EventTypes, HubAssumption DEF Writers
      <3>2. events'[e].by = events[e].by
        BY <2>1
      <3>3. \A w \in Writers : writer[w].event = e => writer'[w] = writer[w]
        BY <1>3, <2>1
      <3>4. QED
        BY <1>2, <3>1, <3>2, <3>3 DEF Pending, By
    <2>5. QED
      BY <2>2, <2>3, <2>4
  <1>6. QED
    BY <1>4, <1>5

LEMMA WriteKeepsReach ==
  ASSUME HubInv, StreamInv, ReachInv, NEW w \in Writers, NEW s \in writer[w].todo, Write(w, s)
  PROVE  ReachInv'
  <1>1. PICK e : e = writer[w].event
    OBVIOUS
  <1>2. /\ UNCHANGED <<events, inbox, subscribed, drops>>
        /\ \A x \in Writers : /\ x # w => writer'[x] = writer[x]
                              /\ writer'[x].event = writer[x].event
        /\ writer'[w].todo = writer[w].todo \ {s}
        /\ byUser' \subseteq byUser /\ (s \notin up => s \notin byUser')
        /\ \A x \in Sessions : \A f :
             Hears(x, f)' <=> Hears(x, f) \/ (s \in up /\ x = s /\ f = e)
    BY <1>1, WriteStep
  <1> SUFFICES ASSUME drops = 0, NEW f \in DOMAIN events, NEW x \in events[f].audience,
                      UserOf[x] = events[f].user, x \in byUser'
               PROVE  Hears(x, f)' \/ Pending(x, f)'
    BY <1>2 DEF ReachInv, MeantFor
  <1>3. /\ By(f) \in Writers /\ x \in Sessions /\ Home[x] \in Writers
        /\ By(f) \in Publishers /\ Home[x] \in Nodes
    BY EventTypes, HubAssumption DEF Writers
  <1>4. Hears(x, f) \/ Pending(x, f)
    BY <1>2 DEF ReachInv, MeantFor
  <1>5. CASE x = s /\ f = e
    BY <1>2, <1>3, <1>5
  <1>6. CASE ~(x = s /\ f = e)
    <2>1. \A v \in Writers : writer[v].event = f /\ x \in writer[v].todo =>
            writer'[v].event = f /\ x \in writer'[v].todo
      BY <1>1, <1>2, <1>6
    <2>2. Pending(x, f) => Pending(x, f)'
      BY <1>2, <1>3, <2>1 DEF Pending, By
    <2>3. QED
      BY <1>2, <1>3, <1>4, <2>2
  <1>7. QED
    BY <1>5, <1>6

LEMMA RelayKeepsReach ==
  ASSUME HubInv, ReachInv, NEW p \in Publishers, Relay(p)
  PROVE  ReachInv'
  <1> SUFFICES ASSUME drops = 0, NEW f \in DOMAIN events, NEW x \in events[f].audience,
                      UserOf[x] = events[f].user, x \in byUser
               PROVE  Hears(x, f)' \/ Pending(x, f)'
    BY DEF ReachInv, MeantFor, Relay
  <1>1. PICK e : e = writer[p].event
    OBVIOUS
  <1>2. /\ By(f) \in Writers /\ x \in Sessions /\ Home[x] \in Writers
        /\ By(f) \in Publishers /\ Home[x] \in Nodes
    BY EventTypes, HubAssumption DEF Writers
  <1>3. Hears(x, f) \/ Pending(x, f)
    BY DEF ReachInv, MeantFor
  <1>4. /\ subscribed = Nodes /\ UNCHANGED <<events, received>> /\ writer[p].todo = {}
        /\ \A w \in Writers : w # p => writer'[w] = writer[w]
        /\ p \in Publishers /\ p \notin Nodes
    BY HubAssumption DEF ReachInv, Relay, HubInv, TypeOK
  <1>5. PICK q : q = inbox[Home[x]]
    OBVIOUS
  <1>6. inbox'[Home[x]] = Append(q, e) /\ q \in Seq(1 .. Len(events))
    BY <1>1, <1>2, <1>4, <1>5 DEF Relay, HubInv, TypeOK
  <1>7. /\ \A i \in DOMAIN q : i \in DOMAIN Append(q, e) /\ Append(q, e)[i] = q[i]
        /\ Len(q) + 1 \in DOMAIN Append(q, e) /\ Append(q, e)[Len(q) + 1] = e
    BY <1>6
  <1>8. /\ \A i \in DOMAIN q : \E j \in DOMAIN inbox'[Home[x]] : inbox'[Home[x]][j] = q[i]
        /\ \E j \in DOMAIN inbox'[Home[x]] : inbox'[Home[x]][j] = e
    BY <1>6, <1>7
  <1>9. Hears(x, f) => Hears(x, f)'
    BY <1>4 DEF Hears
  <1>10. CASE writer[By(f)].event = f /\ (Home[x] = Home[By(f)] => x \in writer[By(f)].todo)
    <2>1. CASE By(f) = p
      <3>1. f = e /\ Home[x] # Home[By(f)]
        BY <1>1, <1>4, <1>10, <2>1
      <3>2. QED
        BY <1>4, <1>8, <3>1 DEF Pending, By
    <2>2. CASE By(f) # p
      BY <1>2, <1>4, <1>10, <2>2 DEF Pending, By
    <2>3. QED
      BY <2>1, <2>2
  <1>11. CASE Home[x] # Home[By(f)] /\ \E i \in DOMAIN q : q[i] = f
    BY <1>4, <1>8, <1>11 DEF Pending, By
  <1>12. CASE writer[Home[x]].event = f /\ x \in writer[Home[x]].todo
    BY <1>2, <1>4, <1>12 DEF Pending, By
  <1>13. QED
    BY <1>3, <1>5, <1>9, <1>10, <1>11, <1>12 DEF Pending

LEMMA ReceiveKeepsReach ==
  ASSUME HubInv, ReachInv, NEW n \in Nodes, Receive(n)
  PROVE  ReachInv'
  <1> SUFFICES ASSUME drops = 0, NEW f \in DOMAIN events, NEW x \in events[f].audience,
                      UserOf[x] = events[f].user, x \in byUser
               PROVE  Hears(x, f)' \/ Pending(x, f)'
    BY DEF ReachInv, MeantFor, Receive
  <1>1. PICK e : e = Head(inbox[n])
    OBVIOUS
  <1>2. /\ By(f) \in Writers /\ x \in Sessions /\ Home[x] \in Writers
        /\ By(f) \in Publishers /\ Home[x] \in Nodes /\ By(f) # n
        /\ f # 0
    BY EventTypes, HubAssumption DEF Writers
  <1>3. Hears(x, f) \/ Pending(x, f)
    BY DEF ReachInv, MeantFor
  <1>4. /\ UNCHANGED <<events, received>>
        /\ \A w \in Writers : w # n => writer'[w] = writer[w]
        /\ \A m \in Nodes : m # n => inbox'[m] = inbox[m]
        /\ inbox'[n] = Tail(inbox[n])
        /\ writer[n].event = 0
        /\ writer'[n] = IF Home[events[e].by] = n THEN Idle
                        ELSE Writing(e, Snapshot(n, events[e].user))
    BY <1>1 DEF Receive, HubInv, TypeOK, Writers, Idle
  <1>5. Hears(x, f) => Hears(x, f)'
    BY <1>4 DEF Hears
  <1>6. CASE writer[By(f)].event = f /\ (Home[x] = Home[By(f)] => x \in writer[By(f)].todo)
    BY <1>2, <1>4, <1>6 DEF Pending, By
  <1>7. CASE Home[x] # Home[By(f)] /\ \E i \in DOMAIN inbox[Home[x]] : inbox[Home[x]][i] = f
    <2>1. CASE Home[x] # n
      BY <1>2, <1>4, <1>7, <2>1 DEF Pending, By
    <2>2. CASE Home[x] = n
      <3>1. PICK q : q = inbox[n]
        OBVIOUS
      <3>2. PICK i \in DOMAIN q : q[i] = f
        BY <1>7, <2>2, <3>1
      <3>3. q \in Seq(1 .. Len(events)) /\ q # <<>>
        BY <3>1 DEF Receive, HubInv, TypeOK
      <3>4. \/ i = 1 /\ Head(q) = f
            \/ i - 1 \in DOMAIN Tail(q) /\ Tail(q)[i - 1] = f
        BY <3>2, <3>3
      <3>5. CASE Head(q) = f
        <4>1. e = f
          BY <1>1, <3>1, <3>5
        <4>2. writer'[n].event = f /\ writer'[n].todo = Snapshot(n, events[f].user)
          BY <1>4, <1>7, <2>2, <4>1 DEF Writing, By
        <4>3. QED
          BY <2>2, <4>2 DEF Pending, Snapshot
      <3>6. CASE i - 1 \in DOMAIN Tail(q) /\ Tail(q)[i - 1] = f
        BY <1>4, <1>7, <2>2, <3>1, <3>6 DEF Pending, By
      <3>7. QED
        BY <3>4, <3>5, <3>6
    <2>3. QED
      BY <2>1, <2>2
  <1>8. CASE writer[Home[x]].event = f /\ x \in writer[Home[x]].todo
    BY <1>2, <1>4, <1>8 DEF Pending, By
  <1>9. QED
    BY <1>3, <1>5, <1>6, <1>7, <1>8 DEF Pending

LEMMA RelayedKeepsReach ==
  ASSUME HubInv, ReachInv, NEW n \in Nodes, Relayed(n)
  PROVE  ReachInv'
  <1> SUFFICES ASSUME drops = 0, NEW f \in DOMAIN events, NEW x \in events[f].audience,
                      UserOf[x] = events[f].user, x \in byUser
               PROVE  Hears(x, f)' \/ Pending(x, f)'
    BY DEF ReachInv, MeantFor, Relayed
  <1>1. /\ By(f) \in Writers /\ x \in Sessions /\ Home[x] \in Writers /\ By(f) # n
    BY EventTypes, HubAssumption DEF Writers
  <1>2. Hears(x, f) \/ Pending(x, f)
    BY DEF ReachInv, MeantFor
  <1>3. /\ UNCHANGED <<events, received, inbox>>
        /\ \A w \in Writers : w # n => writer'[w] = writer[w]
        /\ writer[n].todo = {}
    BY DEF Relayed, HubInv, TypeOK
  <1>4. QED
    BY <1>1, <1>2, <1>3 DEF Pending, Hears, By

LEMMA NextReachInv ==
  ASSUME HubInv, StreamInv, AudienceInv, ReachInv, [Next]_vars
  PROVE  ReachInv'
  <1>1. ASSUME NEW s \in Sessions, Register(s) PROVE ReachInv'
    BY <1>1, QuietKeepsReach DEF Register, AudienceInv
  <1>2. ASSUME NEW s \in Sessions, Break(s) \/ Leave(s) \/ Close(s) PROVE ReachInv'
    BY <1>2, QuietKeepsReach DEF Break, Leave, Close, Remove
  <1>3. ASSUME NEW p \in Publishers, NEW u \in Users, Publish(p, u) PROVE ReachInv'
    BY <1>3, PublishKeepsReach
  <1>4. ASSUME NEW w \in Writers, NEW s \in writer[w].todo, Write(w, s) PROVE ReachInv'
    BY <1>4, WriteKeepsReach
  <1>5. ASSUME NEW p \in Publishers, Relay(p) PROVE ReachInv'
    BY <1>5, RelayKeepsReach
  <1>6. ASSUME NEW n \in Nodes, Receive(n) \/ Relayed(n) PROVE ReachInv'
    BY <1>6, ReceiveKeepsReach, RelayedKeepsReach
  <1>7. ASSUME NEW n \in Nodes, Unsubscribe(n) PROVE ReachInv'
    BY <1>7 DEF Unsubscribe, ReachInv, HubInv, TypeOK
  <1>8. ASSUME NEW n \in Nodes, Subscribe(n) PROVE ReachInv'
    BY <1>8 DEF Subscribe, ReachInv
  <1>9. CASE UNCHANGED vars
    BY <1>9, QuietKeepsReach DEF vars
  <1>10. QED
    BY <1>1, <1>2, <1>3, <1>4, <1>5, <1>6, <1>7, <1>8, <1>9 DEF Next

LEMMA InitServeInv == Init => ServeInv
  <1> SUFFICES ASSUME Init PROVE ServeInv
    OBVIOUS
  <1>1. DOMAIN events = {} /\ \A p \in Publishers : writer[p].event = 0
    BY DEF Init, Idle, Writers
  <1>2. QED
    BY <1>1 DEF Init, ServeInv, AudienceInv, LocalInv, ReachInv

LEMMA NextServeInv ==
  HubInv /\ StreamInv /\ ServeInv /\ [Next]_vars => ServeInv'
  BY NextAudienceInv, NextLocalInv, NextReachInv DEF ServeInv

LEMMA ServeInvSuffices == HubInv /\ StreamInv /\ ServeInv => EveryoneServed
  <1> SUFFICES ASSUME HubInv, StreamInv, ServeInv PROVE EveryoneServed
    OBVIOUS
  <1>1. ASSUME NEW p \in Publishers PROVE LocalSessionsServed(p)
    <2> SUFFICES ASSUME writer[p] # Idle, writer[p].todo = {}, NEW e, e = writer[p].event
                 PROVE  /\ writer[p].count =
                             Cardinality({s \in {x \in Sessions : Home[x] = Home[p]} : Hears(s, e)})
                        /\ \A s \in {x \in Sessions : Home[x] = Home[p]} \cap events[e].audience \cap up :
                             UserOf[s] = events[e].user => Hears(s, e)
      BY DEF LocalSessionsServed
    <2>1. e # 0
      BY DEF HubInv, IdleInv, Writers
    <2>2. {s \in {x \in Sessions : Home[x] = Home[p]} : Hears(s, e)} = ServedLocally(p)
      BY DEF ServedLocally
    <2>3. QED
      BY <2>1, <2>2 DEF ServeInv, LocalInv, MeantFor
  <1>2. ASSUME \A w \in Writers : writer[w] = Idle, \A n \in Nodes : inbox[n] = <<>>,
               NEW e \in DOMAIN events, NEW s \in events[e].audience,
               UserOf[s] = events[e].user, s \in byUser, ~(drops > 0)
        PROVE  Hears(s, e)
    <2>1. drops = 0
      BY <1>2 DEF HubInv, TypeOK
    <2>2. Hears(s, e) \/ Pending(s, e)
      BY <1>2, <2>1 DEF ServeInv, ReachInv, MeantFor
    <2>3. /\ By(e) \in Writers /\ Home[s] \in Writers /\ Home[s] \in Nodes /\ e # 0
      BY <1>2, EventTypes, HubAssumption DEF Writers
    <2>4. ~Pending(s, e)
      BY <1>2, <2>3 DEF Pending, Idle
    <2>5. QED
      BY <2>2, <2>4
  <1>3. QED
    BY <1>1, <1>2 DEF EveryoneServed

(* When a publisher has written to its snapshot, every session of its node *)
(* that still works has the event and the count it returns is theirs; when *)
(* nothing is under way, every session that was registered has it, unless  *)
(* it or a node's Redis connection ended first.                            *)
THEOREM EveryoneIsServed == Spec => []EveryoneServed
  BY InitHubInv, NextHubInv, InitStreamInv, NextStreamInv, InitServeInv, NextServeInv,
     ServeInvSuffices, PTL DEF Spec
=============================================================================
