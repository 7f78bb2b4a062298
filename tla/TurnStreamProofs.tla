-------------------------- MODULE TurnStreamProofs --------------------------
(***************************************************************************)
(* Theorems about TurnStream, for every answer of the model, every channel *)
(* capacity and every number of turns, page loads and broken connections.  *)
(***************************************************************************)
EXTENDS TurnStream, FiniteSetTheorems, SequenceTheorems, TLAPS

-----------------------------------------------------------------------------
(* Sequences of whatever they hold: texts, events and entries need no type *)
(* of their own.                                                           *)

IsSequence(s) == s \in Seq(ToSet(s))

LEMMA SequenceOf ==
  ASSUME NEW S, NEW s \in Seq(S)
  PROVE  IsSequence(s)
  <1>1. DOMAIN s = 1 .. Len(s) /\ Len(s) \in Nat
    OBVIOUS
  <1>2. s \in [1 .. Len(s) -> ToSet(s)]
    BY <1>1 DEF ToSet
  <1>3. QED
    BY <1>1, <1>2, SeqDef DEF IsSequence

LEMMA SequenceFacts ==
  ASSUME NEW s, IsSequence(s)
  PROVE  Len(s) \in Nat /\ DOMAIN s = 1 .. Len(s) /\ (s = <<>> <=> Len(s) = 0)
  BY EmptySeq DEF IsSequence

LEMMA EmptyIsSequence == IsSequence(<<>>) /\ Len(<<>>) = 0
  <1>1. <<>> \in Seq({})
    BY EmptySeq
  <1>2. QED
    BY <1>1, SequenceOf

LEMMA SingleIsSequence ==
  ASSUME NEW x
  PROVE  IsSequence(<<x>>) /\ Len(<<x>>) = 1 /\ <<x>>[1] = x
  <1>1. <<x>> \in Seq({x})
    OBVIOUS
  <1>2. QED
    BY <1>1, SequenceOf

LEMMA PairIsSequence ==
  ASSUME NEW x, NEW y
  PROVE  /\ IsSequence(<<x, y>>)
         /\ Len(<<x, y>>) = 2 /\ <<x, y>>[1] = x /\ <<x, y>>[2] = y
  <1>1. <<x, y>> \in Seq({x, y})
    OBVIOUS
  <1>2. QED
    BY <1>1, SequenceOf

LEMMA AppendIsSequence ==
  ASSUME NEW s, NEW x, IsSequence(s)
  PROVE  /\ IsSequence(Append(s, x))
         /\ Len(Append(s, x)) = Len(s) + 1
         /\ \A i \in 1 .. Len(s) : Append(s, x)[i] = s[i]
         /\ Append(s, x)[Len(s) + 1] = x
  <1> DEFINE S == ToSet(s) \cup {x}
  <1>1. s \in Seq(S) /\ x \in S
    BY SeqMonotonic DEF IsSequence
  <1> HIDE DEF S
  <1>2. Append(s, x) \in Seq(S)
    BY <1>1, AppendProperties
  <1>3. IsSequence(Append(s, x))
    BY <1>2, SequenceOf
  <1>4. QED
    BY <1>1, <1>3, AppendProperties

LEMMA ConcatIsSequence ==
  ASSUME NEW s, NEW t, IsSequence(s), IsSequence(t)
  PROVE  /\ IsSequence(s \o t)
         /\ Len(s \o t) = Len(s) + Len(t)
         /\ \A i \in 1 .. Len(s) : (s \o t)[i] = s[i]
         /\ \A i \in 1 .. Len(t) : (s \o t)[Len(s) + i] = t[i]
  <1> DEFINE S == ToSet(s) \cup ToSet(t)
  <1>1. s \in Seq(S) /\ t \in Seq(S)
    BY SeqMonotonic DEF IsSequence
  <1> HIDE DEF S
  <1>2. s \o t \in Seq(S) /\ Len(s) \in Nat /\ Len(t) \in Nat
    BY <1>1, ConcatProperties
  <1>3. \A i \in 1 .. Len(s) + Len(t) :
          (s \o t)[i] = IF i <= Len(s) THEN s[i] ELSE t[i - Len(s)]
    BY <1>1, ConcatProperties
  <1>4. ASSUME NEW i \in 1 .. Len(t) PROVE (s \o t)[Len(s) + i] = t[i]
    <2>1. Len(s) + i \in 1 .. Len(s) + Len(t) /\ ~(Len(s) + i <= Len(s)) /\ (Len(s) + i) - Len(s) = i
      BY <1>2
    <2>2. QED
      BY <1>3, <2>1
  <1>5. \A i \in 1 .. Len(s) : (s \o t)[i] = s[i]
    BY <1>2, <1>3
  <1>6. QED
    BY <1>1, <1>2, <1>4, <1>5, SequenceOf, ConcatProperties

LEMMA TailIsSequence ==
  ASSUME NEW s, IsSequence(s), s # <<>>
  PROVE  /\ IsSequence(Tail(s))
         /\ Len(s) \in Nat /\ Len(s) >= 1 /\ Len(Tail(s)) = Len(s) - 1
         /\ \A i \in 1 .. Len(s) - 1 : Tail(s)[i] = s[i + 1]
         /\ Head(s) = s[1]
  <1>1. s \in Seq(ToSet(s))
    BY DEF IsSequence
  <1>2. Tail(s) \in Seq(ToSet(s)) /\ Len(Tail(s)) = Len(s) - 1
    BY <1>1, HeadTailProperties
  <1>3. IsSequence(Tail(s))
    BY <1>2, SequenceOf
  <1>4. Len(s) \in Nat /\ Len(s) >= 1
    BY <1>1, EmptySeq
  <1>5. \A i \in 1 .. Len(s) - 1 : Tail(s)[i] = s[i + 1]
    BY <1>1, <1>2, HeadTailProperties
  <1>6. QED
    BY <1>1, <1>2, <1>3, <1>4, <1>5

LEMMA FunctionIsSequence ==
  ASSUME NEW n \in Nat, NEW t, t = [i \in 1 .. n |-> t[i]]
  PROVE  IsSequence(t) /\ Len(t) = n
  <1>1. t \in [1 .. n -> ToSet(t)]
    BY DEF ToSet
  <1>2. t \in Seq(ToSet(t))
    BY <1>1, SeqDef
  <1>3. QED
    BY <1>1, <1>2 DEF IsSequence

(* Every non-empty set of numbers has a least one.                         *)
LEMMA LeastNumber ==
  ASSUME NEW S \in SUBSET Nat, S # {}
  PROVE  \E m \in S : \A x \in S : m <= x
  <1> DEFINE All == {0 .. k : k \in S}
  <1>1. All \subseteq FiniteSubsetsOf(Nat) /\ All # {}
    <2>1. ASSUME NEW k \in S PROVE 0 .. k \in FiniteSubsetsOf(Nat)
      <3>1. IsFiniteSet(0 .. k)
        BY FS_Interval
      <3>2. QED
        BY <3>1 DEF FiniteSubsetsOf
    <2>2. QED
      BY <2>1
  <1>2. IsWellFoundedOn(StrictSubsetOrdering(Nat), FiniteSubsetsOf(Nat))
    BY FS_StrictSubsetOrderingWellFounded
  <1>3. PICK T \in All : \A U \in All : <<U, T>> \notin StrictSubsetOrdering(Nat)
    <2> HIDE DEF All
    <2>1. QED
      BY <1>1, <1>2, WFMin
  <1>4. PICK m \in S : T = 0 .. m
    BY <1>3
  <1>5. ASSUME NEW x \in S, x < m PROVE FALSE
    <2>1. 0 .. x \in All /\ 0 .. x \subseteq 0 .. m /\ m \in 0 .. m /\ m \notin 0 .. x
      BY <1>5
    <2>2. <<0 .. x, 0 .. m>> \in StrictSubsetOrdering(Nat)
      BY <2>1 DEF StrictSubsetOrdering
    <2>3. QED
      BY <1>3, <1>4, <2>1, <2>2
  <1>6. QED
    BY <1>5

(* What is left of the entries when the first draft of a turn is removed.  *)
DraftRemoved(s, n, r) ==
  \/ r = s /\ \A i \in DOMAIN s : ~IsDraft(s[i], n)
  \/ /\ IsSequence(r) /\ Len(r) = Len(s) - 1
     /\ \E k \in 1 .. Len(s) :
          /\ IsDraft(s[k], n)
          /\ \A i \in 1 .. Len(s) - 1 : r[i] = IF i < k THEN s[i] ELSE s[i + 1]

LEMMA RemoveDraft ==
  ASSUME NEW s, IsSequence(s), NEW n
  PROVE  DraftRemoved(s, n, WithoutDraft(s, n))
  <1> DEFINE r == WithoutDraft(s, n)
  <1>1. Len(s) \in Nat /\ DOMAIN s = 1 .. Len(s)
    BY SequenceFacts
  <1> DEFINE M == {i \in 1 .. Len(s) : IsDraft(s[i], n)}
  <1>2. CASE M = {}
    <2>1. r = s
      BY <1>2 DEF WithoutDraft, RemoveFirstMatch
    <2>2. QED
      BY <1>1, <1>2, <2>1 DEF DraftRemoved
  <1>3. CASE M # {}
    <2>1. r = RemoveAt(s, Min(M))
      BY <1>3 DEF WithoutDraft, RemoveFirstMatch, SelectInSeq
    <2> HIDE DEF r
    <2>2. M \in SUBSET Nat
      OBVIOUS
    <2>3. PICK k : k = Min(M)
      OBVIOUS
    <2>4. k \in M
      <3> HIDE DEF M
      <3>1. \E m \in M : \A x \in M : m <= x
        BY <1>3, <2>2, LeastNumber
      <3>2. QED
        BY <2>3, <3>1 DEF Min
    <2>5. k \in 1 .. Len(s) /\ IsDraft(s[k], n)
      BY <2>4
    <2>6. r = SubSeq(s, 1, k - 1) \o SubSeq(s, k + 1, Len(s))
      BY <2>1, <2>3 DEF RemoveAt
    <2>7. s \in Seq(ToSet(s)) /\ \A i \in 1 .. Len(s) : s[i] \in ToSet(s)
      BY <1>1 DEF IsSequence, ToSet
    <2>8. PICK p, q : p = SubSeq(s, 1, k - 1) /\ q = SubSeq(s, k + 1, Len(s))
      OBVIOUS
    <2>9. /\ p \in Seq(ToSet(s)) /\ Len(p) = k - 1
          /\ \A i \in 1 .. k - 1 : p[i] = s[i]
      <3>1. 1 \in Int /\ k - 1 \in Int /\ \A i \in 1 .. k - 1 : s[i] \in ToSet(s)
        BY <1>1, <2>5, <2>7
      <3>2. /\ SubSeq(s, 1, k - 1) \in Seq(ToSet(s))
            /\ Len(SubSeq(s, 1, k - 1)) = IF 1 <= k - 1 THEN (k - 1) - 1 + 1 ELSE 0
            /\ \A i \in 1 .. (k - 1) - 1 + 1 : SubSeq(s, 1, k - 1)[i] = s[1 + i - 1]
        BY <3>1, SubSeqProperties
      <3>3. QED
        BY <1>1, <2>5, <2>8, <3>2
    <2>10. /\ q \in Seq(ToSet(s)) /\ Len(q) = Len(s) - k
           /\ \A i \in 1 .. Len(s) - k : q[i] = s[k + i]
      <3>1. k + 1 \in Int /\ Len(s) \in Int /\ \A i \in k + 1 .. Len(s) : s[i] \in ToSet(s)
        BY <1>1, <2>5, <2>7
      <3>2. /\ SubSeq(s, k + 1, Len(s)) \in Seq(ToSet(s))
            /\ Len(SubSeq(s, k + 1, Len(s))) = IF k + 1 <= Len(s) THEN Len(s) - (k + 1) + 1 ELSE 0
            /\ \A i \in 1 .. Len(s) - (k + 1) + 1 :
                 SubSeq(s, k + 1, Len(s))[i] = s[(k + 1) + i - 1]
        BY <3>1, SubSeqProperties
      <3>3. /\ Len(s) - (k + 1) + 1 = Len(s) - k
            /\ k + 1 <= Len(s) \/ Len(s) - k = 0
        <4>1. \A l \in Nat : \A m \in 1 .. l : l - (m + 1) + 1 = l - m /\ (m + 1 <= l \/ l - m = 0)
          OBVIOUS
        <4>2. QED
          BY <1>1, <2>5, <4>1
      <3>4. \A i \in 1 .. Len(s) - k : (k + 1) + i - 1 = k + i
        BY <1>1, <2>5
      <3>5. QED
        BY <2>8, <3>2, <3>3, <3>4
    <2>11. IsSequence(p) /\ IsSequence(q)
      BY <2>9, <2>10, SequenceOf
    <2>12. /\ IsSequence(r) /\ Len(r) = (k - 1) + (Len(s) - k)
           /\ \A i \in 1 .. k - 1 : r[i] = p[i]
           /\ \A i \in 1 .. Len(s) - k : r[(k - 1) + i] = q[i]
      <3>1. r = p \o q
        BY <2>6, <2>8
      <3>2. /\ IsSequence(p \o q) /\ Len(p \o q) = Len(p) + Len(q)
            /\ \A i \in 1 .. Len(p) : (p \o q)[i] = p[i]
            /\ \A i \in 1 .. Len(q) : (p \o q)[Len(p) + i] = q[i]
        BY <2>11, ConcatIsSequence
      <3>3. QED
        BY <2>9, <2>10, <3>1, <3>2
    <2>13. ASSUME NEW i \in 1 .. Len(s) - 1
           PROVE  r[i] = IF i < k THEN s[i] ELSE s[i + 1]
      <3>1. CASE i < k
        <4>1. i \in 1 .. k - 1
          BY <2>5, <3>1
        <4>2. QED
          BY <2>9, <2>12, <3>1, <4>1
      <3>2. CASE ~(i < k)
        <4>1. /\ i - (k - 1) \in 1 .. Len(s) - k
              /\ (k - 1) + (i - (k - 1)) = i /\ k + (i - (k - 1)) = i + 1
          BY <1>1, <2>5, <3>2
        <4>2. r[i] = q[i - (k - 1)] /\ q[i - (k - 1)] = s[i + 1]
          BY <2>10, <2>12, <4>1
        <4>3. QED
          BY <3>2, <4>2
      <3>3. QED
        BY <3>1, <3>2
    <2>14. Len(r) = Len(s) - 1
      <3>1. k \in Int /\ Len(s) \in Int
        BY <1>1, <2>5
      <3>2. QED
        BY <2>12, <3>1
    <2>15. DraftRemoved(s, n, r)
      BY <2>5, <2>12, <2>13, <2>14 DEF DraftRemoved
    <2>16. QED
      BY <2>15 DEF r
  <1>4. QED
    BY <1>2, <1>3

-----------------------------------------------------------------------------
(* The inductive invariant, part by part.                                  *)

ModeNames == {"responses", "chat"}
CallStates == {"asking", "waiting", "failed", "streaming", "over"}
Calls == [state : CallStates, modes : Seq(ModeNames), attempt : 1 .. MaxAttempts, dedupe : BOOLEAN]

(* The request: a mode is left, and one that waits may ask again.          *)
CallOK ==
  /\ call \in Calls /\ call.modes # <<>>
  /\ call.state = "waiting" => call.attempt < MaxAttempts

(* The channels between the client, the runtime and the turn.              *)
RuntimeRecord ==
  rt = [state |-> rt.state, text |-> rt.text, rawEnd |-> rt.rawEnd, errEnd |-> rt.errEnd,
        hand |-> rt.hand]
ChannelsOK ==
  /\ RuntimeRecord /\ rt.state \in {"on", "over"}
  /\ IsSequence(raw) /\ Len(raw) <= RawCap
  /\ IsSequence(deltas) /\ Len(deltas) <= DeltaCap
  /\ IsSequence(final) /\ Len(final) <= 1
  /\ err \in {"none", "sent", "closed"}
  /\ late \in BOOLEAN

Stores(n) == \E i \in DOMAIN stored : stored[i].turn = n

(* The turn: it stores segments only while it is being stored, so never    *)
(* any of a turn that failed.                                              *)
TurnRecord == turn = [state |-> turn.state, n |-> turn.n, san |-> turn.san, todo |-> turn.todo]
TurnStates == {"idle", "calling", "reading", "storing"}
TurnOK ==
  /\ TurnRecord /\ turn.state \in TurnStates /\ turn.n \in 0 .. MaxTurns
  /\ turn.state # "idle" => turn.n >= 1
  /\ call.state \in {"asking", "waiting"} => turn.state = "calling"
  /\ IsSequence(stored)
  /\ \A i \in DOMAIN stored : stored[i].turn \in 1 .. turn.n
  /\ failed \subseteq 1 .. turn.n
  /\ \A n \in failed : ~Stores(n)
  /\ turn.state # "idle" => turn.n \notin failed
  /\ turn.state \in {"calling", "reading"} => ~Stores(turn.n)

EventTypes == {"typing", "stream_start", "stream_chunk", "stream_end", "message", "error"}
EventOK(e) == e.type \in EventTypes /\ (e.type = "typing" => e.on \in BOOLEAN)
MessageAfter(i, n) ==
  \E j \in DOMAIN wire : i < j /\ wire[j].type = "message" /\ wire[j].turn = n

(* What the page can count on: the client missed part of the turn, nothing *)
(* is stored of it, or a message is on its way behind the i-th event.      *)
Followed(i, n) == n \in lost \/ ~Stores(n) \/ MessageAfter(i, n)
StartFollowed(i) == wire[i].type = "stream_start" => Followed(i, wire[i].turn)

(* The connection: where a turn's start is still on its way, the messages  *)
(* it stored since are behind it, or the client missed one.                *)
LinkOK ==
  /\ IsSequence(wire)
  /\ \A i \in DOMAIN wire : wire[i].turn \in 1 .. turn.n /\ EventOK(wire[i])
  /\ lost \subseteq 1 .. turn.n
  /\ up \in BOOLEAN /\ (~up => wire = <<>>)
  /\ \A i \in DOMAIN wire : StartFollowed(i)

(* An entry of the page is a message or the draft of a turn the page still *)
(* keeps track of.                                                         *)
IsMessage(x) == x.type = "message" /\ x = Message(x.id)
IsDraftRecord(x) ==
  x.type = "draft" /\ x = [type |-> "draft", turn |-> x.turn, text |-> x.text, live |-> x.live]
SameDraft(x, y) == x.type = "draft" /\ y.type = "draft" /\ x.turn = y.turn
EntriesOK(s, ds) ==
  /\ IsSequence(s)
  /\ \A i \in DOMAIN s : IsMessage(s[i]) \/ (IsDraftRecord(s[i]) /\ s[i].turn \in ds)
  /\ \A i, j \in DOMAIN s : s[i] = s[j] \/ SameDraft(s[i], s[j]) => i = j
IsLoad(l) == l = [nr |-> l.nr, read |-> l.read, upto |-> l.upto] /\ l.upto \in Nat
PageOK ==
  /\ EntriesOK(shown, drafts)
  /\ drafts \subseteq 1 .. turn.n
  /\ view \in BOOLEAN /\ typing \in BOOLEAN
  /\ ~view => drafts = {} /\ ~typing
  /\ \A l \in loads : IsLoad(l)

(* The typing indicator of a turn that is over: off, or about to be.       *)
TypingOK ==
  /\ ~up => ~typing
  /\ turn.state = "idle" =>
       IF wire = <<>> THEN ~typing
       ELSE wire[Len(wire)].type = "typing" /\ wire[Len(wire)].on = FALSE

(* A draft that is shown: its turn failed or the client missed part of it, *)
(* or nothing is stored of it yet, or the message that replaces it is on   *)
(* its way.                                                                *)
DraftExpected(i) ==
  shown[i].type = "draft" => shown[i].turn \in failed \/ Followed(0, shown[i].turn)
DraftsOK == \A i \in DOMAIN shown : DraftExpected(i)

StreamInv ==
  /\ CallOK
  /\ ChannelsOK
  /\ TurnOK
  /\ LinkOK
  /\ PageOK
  /\ TypingOK
  /\ DraftsOK

-----------------------------------------------------------------------------
(* The request to the model.                                               *)

LEMMA ModeFailsStep ==
  ASSUME CallOK, ModeFails
  PROVE  CallOK' /\ call'.state \in {"asking", "failed"}
  <1>1. /\ call \in Calls /\ call.modes \in Seq(ModeNames) /\ call.modes # <<>>
        /\ MaxAttempts \in Nat \ {0}
    BY StreamAssumption DEF CallOK, Calls
  <1>2. CASE Len(call.modes) > 1
    <2>1. PICK rest2 : rest2 = Tail(call.modes)
      OBVIOUS
    <2>2. rest2 \in Seq(ModeNames) /\ Len(rest2) = Len(call.modes) - 1
      BY <1>1, <2>1, HeadTailProperties
    <2>3. rest2 # <<>>
      <3>1. Len(call.modes) \in Nat /\ Len(rest2) # 0
        BY <1>1, <1>2, <2>2
      <3>2. QED
        BY <3>1, EmptyIsSequence
    <2>4. call' = [call EXCEPT !.state = "asking", !.modes = rest2, !.attempt = 1]
      BY <1>2, <2>1 DEF ModeFails
    <2>5. /\ "asking" \in CallStates /\ 1 \in 1 .. MaxAttempts
          /\ call = [state |-> call.state, modes |-> call.modes, attempt |-> call.attempt,
                     dedupe |-> call.dedupe]
          /\ call.dedupe \in BOOLEAN
      BY <1>1 DEF Calls, CallStates
    <2>6. call' = [state |-> "asking", modes |-> rest2, attempt |-> 1, dedupe |-> call.dedupe]
      BY <2>4, <2>5
    <2>7. call' \in Calls
      BY <2>2, <2>5, <2>6 DEF Calls
    <2>8. QED
      BY <2>3, <2>6, <2>7 DEF CallOK
  <1>3. CASE ~(Len(call.modes) > 1)
    <2>1. call' = [call EXCEPT !.state = "failed"]
      BY <1>3 DEF ModeFails
    <2>2. call' \in Calls /\ call'.state = "failed" /\ call'.modes = call.modes
      BY <1>1, <2>1 DEF Calls, CallStates
    <2>3. QED
      BY <1>1, <2>2 DEF CallOK
  <1>4. QED
    BY <1>2, <1>3

(* What leaves the turn, the connection and the page alone.                *)
Quiet == UNCHANGED <<turn, stored, failed, wire, up, lost, view, shown, drafts, typing, loads>>

LEMMA QuietSteps ==
  /\ Refuse \/ TooMany \/ Retry \/ Emit \/ Runtime \/ Deadline \/ UNCHANGED vars => Quiet
  /\ \A broken \in BOOLEAN : Hangup(broken) => Quiet
  <1> USE DEF Quiet, reply, link, page
  <1>1. Refuse \/ TooMany \/ Retry \/ Emit => Quiet
    BY DEF Refuse, TooMany, Retry, Emit
  <1>2. ASSUME NEW broken \in BOOLEAN, Hangup(broken) PROVE Quiet
    BY <1>2 DEF Hangup
  <1>3. Runtime => Quiet
    BY DEF Runtime, TakeDelta, Forward, RawEnds, ErrEnds, GiveUp, Finalize, outside
  <1>4. Deadline => Quiet
    BY DEF Deadline
  <1>5. UNCHANGED vars => Quiet
    BY DEF vars
  <1>6. QED
    BY <1>1, <1>2, <1>3, <1>4, <1>5

LEMMA CallKept ==
  Emit \/ Runtime \/ Serving \/ Deadline \/ Client \/ Disconnect \/ Reconnect \/ UNCHANGED vars
    => call' = call
  <1>1. Emit => call' = call
    BY DEF Emit
  <1>2. Runtime => call' = call
    BY DEF Runtime, TakeDelta, Forward, RawEnds, ErrEnds, GiveUp, Finalize, outside
  <1>3. Serving => call' = call
    BY DEF Serving, Fail, ReadDelta, ReadFinal, StoreSegment, EndTurn, model
  <1>4. Client => call' = call
    <2>1. Receive \/ Open \/ Leave => call' = call
      BY DEF Receive, Open, Leave, model
    <2>2. \A l \in loads : Serve(l) \/ Loaded(l) => call' = call
      BY DEF Serve, Loaded, model
    <2>3. QED
      BY <2>1, <2>2 DEF Client
  <1>5. Deadline \/ Disconnect \/ Reconnect \/ UNCHANGED vars => call' = call
    BY DEF Deadline, Disconnect, Reconnect, vars, model
  <1>6. QED
    BY <1>1, <1>2, <1>3, <1>4, <1>5

LEMMA CallStep ==
  ASSUME CallOK, [Next]_vars
  PROVE  CallOK'
  <1>1. call \in Calls /\ call.modes # <<>> /\ MaxAttempts \in Nat \ {0}
    BY StreamAssumption DEF CallOK
  <1>2. CASE Refuse
    BY <1>2, ModeFailsStep DEF Refuse
  <1>3. CASE TooMany
    <2>2. CASE call.attempt = MaxAttempts
      <3>1. ModeFails
        BY <1>3, <2>2 DEF TooMany
      <3>2. QED
        BY <3>1, ModeFailsStep
    <2>3. CASE call.attempt # MaxAttempts
      <3>1. call' = [call EXCEPT !.state = "waiting"]
        BY <1>3, <2>3 DEF TooMany
      <3>2. /\ call' \in Calls /\ call'.modes = call.modes /\ call'.attempt = call.attempt
            /\ call.attempt \in 1 .. MaxAttempts
        BY <1>1, <3>1 DEF Calls, CallStates
      <3>3. call'.attempt < MaxAttempts
        BY <1>1, <2>3, <3>2
      <3>4. QED
        BY <1>1, <3>2, <3>3 DEF CallOK
    <2>4. QED
      BY <1>3, <2>2, <2>3 DEF TooMany
  <1>4. CASE Retry
    <2>1. call.state = "waiting" /\ call.attempt < MaxAttempts
      BY <1>4 DEF Retry, CallOK
    <2>2. CASE call' = [call EXCEPT !.state = "asking", !.attempt = @ + 1]
      <3>1. call.attempt + 1 \in 1 .. MaxAttempts
        BY <1>1, <2>1 DEF Calls
      <3>2. call' = [call EXCEPT !.state = "asking", !.attempt = call.attempt + 1]
        BY <2>2
      <3>3. call' \in Calls /\ call'.modes = call.modes /\ call'.state = "asking"
        BY <1>1, <3>1, <3>2 DEF Calls, CallStates
      <3>4. QED
        BY <1>1, <3>3 DEF CallOK
    <2>3. CASE ModeFails
      BY <2>3, ModeFailsStep
    <2>4. QED
      BY <1>4, <2>2, <2>3 DEF Retry
  <1>5. CASE Answer
    <2>1. PICK kind : call' = [call EXCEPT !.state = "streaming", !.dedupe = (kind = "responses")]
      BY <1>5 DEF Answer
    <2>2. call' \in Calls /\ call'.modes = call.modes /\ call'.state = "streaming"
      BY <1>1, <2>1 DEF Calls, CallStates
    <2>3. QED
      BY <1>1, <2>2 DEF CallOK
  <1>6. ASSUME NEW broken \in BOOLEAN, Hangup(broken)
        PROVE  CallOK'
    <2>1. call' = [call EXCEPT !.state = "over"]
      BY <1>6 DEF Hangup
    <2>2. call' \in Calls /\ call'.modes = call.modes /\ call'.state = "over"
      BY <1>1, <2>1 DEF Calls, CallStates
    <2>3. QED
      BY <1>1, <2>2 DEF CallOK
  <1>7. CASE Begin
    <2>1. call' = [state |-> "asking", modes |-> Modes, attempt |-> 1, dedupe |-> FALSE]
      BY <1>7 DEF Begin
    <2>2. Modes \in Seq(ModeNames) /\ Modes # <<>> /\ 1 \in 1 .. MaxAttempts
      BY <1>1, StreamAssumption DEF ModeNames
    <2>3. call' \in Calls /\ call'.modes = Modes /\ call'.state = "asking"
      BY <2>1, <2>2 DEF Calls, CallStates
    <2>4. QED
      BY <1>7, <2>2, <2>3 DEF CallOK
  <1>8. CASE call' = call
    BY <1>8 DEF CallOK
  <1>9. QED
    BY <1>2, <1>3, <1>4, <1>5, <1>6, <1>7, <1>8, CallKept DEF Next, Provider, Asking

-----------------------------------------------------------------------------
(* The channels.                                                           *)

LEMMA RuntimeStep ==
  ASSUME ChannelsOK, Runtime
  PROVE  ChannelsOK'
  <1>1. rt = [state |-> rt.state, text |-> rt.text, rawEnd |-> rt.rawEnd, errEnd |-> rt.errEnd,
              hand |-> rt.hand]
    BY DEF ChannelsOK, RuntimeRecord
  <1>2. /\ IsSequence(raw) /\ IsSequence(deltas) /\ IsSequence(final)
        /\ Len(raw) <= RawCap /\ Len(deltas) <= DeltaCap /\ Len(final) <= 1
        /\ err \in {"none", "sent", "closed"} /\ late \in BOOLEAN
        /\ rt.state \in {"on", "over"}
        /\ RawCap \in Nat /\ DeltaCap \in Nat
    BY StreamAssumption DEF ChannelsOK
  <1>3. late' = late /\ err' = err
    BY DEF Runtime, TakeDelta, Forward, RawEnds, ErrEnds, GiveUp, Finalize, outside, reply
  <1>4. CASE TakeDelta
    <2>1. PICK text, hand : rt' = [rt EXCEPT !.text = text, !.hand = hand]
      BY <1>4 DEF TakeDelta
    <2>2. RuntimeRecord' /\ rt'.state = rt.state
      BY <1>1, <2>1 DEF RuntimeRecord
    <2>3. raw # <<>> /\ raw' = Tail(raw) /\ deltas' = deltas /\ final' = final
      BY <1>4 DEF TakeDelta
    <2>4. IsSequence(raw') /\ Len(raw') <= RawCap
      <3>1. IsSequence(Tail(raw)) /\ Len(raw) \in Nat /\ Len(Tail(raw)) = Len(raw) - 1
        BY <1>2, <2>3, TailIsSequence
      <3>2. QED
        BY <1>2, <2>3, <3>1
    <2>5. QED
      BY <1>2, <1>3, <2>2, <2>3, <2>4 DEF ChannelsOK
  <1>5. CASE Forward
    <2>1. rt' = [rt EXCEPT !.hand = <<>>]
      BY <1>5 DEF Forward
    <2>2. RuntimeRecord' /\ rt'.state = rt.state
      BY <1>1, <2>1 DEF RuntimeRecord
    <2>3. Len(deltas) < DeltaCap /\ deltas' = Append(deltas, rt.hand) /\ raw' = raw /\ final' = final
      BY <1>5 DEF Forward
    <2>4. IsSequence(deltas') /\ Len(deltas') <= DeltaCap
      <3>1. IsSequence(Append(deltas, rt.hand)) /\ Len(Append(deltas, rt.hand)) = Len(deltas) + 1
        BY <1>2, AppendIsSequence
      <3>2. Len(deltas) \in Nat
        BY <1>2, SequenceFacts
      <3>3. QED
        BY <1>2, <2>3, <3>1, <3>2
    <2>5. QED
      BY <1>2, <1>3, <2>2, <2>3, <2>4 DEF ChannelsOK
  <1>6. CASE RawEnds \/ ErrEnds
    <2>1. rt' = [rt EXCEPT !.rawEnd = TRUE] \/ rt' = [rt EXCEPT !.errEnd = TRUE]
      BY <1>6 DEF RawEnds, ErrEnds
    <2>2. RuntimeRecord' /\ rt'.state = rt.state
      BY <1>1, <2>1 DEF RuntimeRecord
    <2>3. raw' = raw /\ deltas' = deltas /\ final' = final
      BY <1>6 DEF RawEnds, ErrEnds
    <2>4. QED
      BY <1>2, <1>3, <2>2, <2>3 DEF ChannelsOK
  <1>7. CASE GiveUp \/ Finalize
    <2>1. PICK text : FinishWith(text)
      BY <1>7 DEF GiveUp, Finalize
    <2>2. rt' = [rt EXCEPT !.state = "over"] /\ final' = <<text>>
      BY <2>1 DEF FinishWith
    <2>3. RuntimeRecord' /\ rt'.state = "over"
      BY <1>1, <2>2 DEF RuntimeRecord
    <2>4. raw' = raw /\ deltas' = deltas
      BY <1>7 DEF GiveUp, Finalize
    <2>5. IsSequence(final') /\ Len(final') <= 1
      BY <2>2, SingleIsSequence
    <2>6. QED
      BY <1>2, <1>3, <2>3, <2>4, <2>5 DEF ChannelsOK
  <1>8. QED
    BY <1>4, <1>5, <1>6, <1>7 DEF Runtime

LEMMA ChannelsStep ==
  ASSUME ChannelsOK, [Next]_vars
  PROVE  ChannelsOK'
  <1> DEFINE Same == UNCHANGED <<rt, raw, deltas, final, err, late>>
  <1>1. CASE Same
    BY <1>1 DEF ChannelsOK, RuntimeRecord
  <1>2. Refuse \/ TooMany \/ Retry => Same
    BY DEF Refuse, TooMany, Retry, pipe, reply
  <1>3. CASE Answer
    <2>1. /\ rt' = [state |-> "on", text |-> <<>>, rawEnd |-> FALSE, errEnd |-> FALSE, hand |-> <<>>]
          /\ raw' = <<>> /\ deltas' = <<>> /\ final' = <<>> /\ err' = "none" /\ late' = late
      BY <1>3 DEF Answer
    <2>2. RuntimeRecord' /\ rt'.state = "on"
      BY <2>1 DEF RuntimeRecord
    <2>3. RawCap \in Nat /\ DeltaCap \in Nat
      BY StreamAssumption
    <2>4. QED
      BY <2>1, <2>2, <2>3, EmptyIsSequence DEF ChannelsOK
  <1>4. CASE Emit
    <2>1. UNCHANGED <<rt, deltas, final, err, late>>
      BY <1>4 DEF Emit, pipe, reply
    <2>2. PICK d : raw' = raw \/ (Len(raw) < RawCap /\ raw' = Append(raw, d))
      BY <1>4 DEF Emit
    <2>3. IsSequence(raw) /\ Len(raw) <= RawCap /\ Len(raw) \in Nat /\ RawCap \in Nat
      BY StreamAssumption, SequenceFacts DEF ChannelsOK
    <2>4. IsSequence(Append(raw, d)) /\ Len(Append(raw, d)) = Len(raw) + 1
      BY <2>3, AppendIsSequence
    <2>5. IsSequence(raw') /\ Len(raw') <= RawCap
      <3>1. CASE raw' = raw
        BY <2>3, <3>1
      <3>2. CASE Len(raw) < RawCap /\ raw' = Append(raw, d)
        <4>1. Len(raw) + 1 <= RawCap
          BY <2>3, <3>2
        <4>2. QED
          BY <2>4, <3>2, <4>1
      <3>3. QED
        BY <2>2, <3>1, <3>2
    <2>6. QED
      BY <2>1, <2>5 DEF ChannelsOK, RuntimeRecord
  <1>5. ASSUME NEW broken \in BOOLEAN, Hangup(broken)
        PROVE  ChannelsOK'
    <2>1. UNCHANGED <<rt, raw, deltas, final, late>> /\ err' \in {"sent", "closed"}
      BY <1>5 DEF Hangup, pipe, reply
    <2>2. QED
      BY <2>1 DEF ChannelsOK, RuntimeRecord
  <1>6. CASE Begin \/ EndTurn \/ Deadline
    <2>1. UNCHANGED <<rt, raw, deltas, final, err>> /\ late' \in BOOLEAN
      BY <1>6 DEF Begin, EndTurn, Deadline, model, pipe
    <2>2. QED
      BY <2>1 DEF ChannelsOK, RuntimeRecord
  <1>7. CASE ReadDelta
    <2>1. UNCHANGED <<rt, raw, final, err, late>> /\ deltas # <<>> /\ deltas' = Tail(deltas)
      BY <1>7 DEF ReadDelta, model
    <2>2. /\ IsSequence(Tail(deltas)) /\ Len(deltas) \in Nat
          /\ Len(Tail(deltas)) = Len(deltas) - 1
      BY <2>1, TailIsSequence DEF ChannelsOK
    <2>3. IsSequence(deltas') /\ Len(deltas') <= DeltaCap
      BY <2>1, <2>2, StreamAssumption DEF ChannelsOK
    <2>4. QED
      BY <2>1, <2>3 DEF ChannelsOK, RuntimeRecord
  <1>8. Fail \/ ReadFinal \/ StoreSegment => Same
    BY DEF Fail, ReadFinal, StoreSegment, model, pipe
  <1>9. Client => Same
    <2>1. Receive \/ Open \/ Leave => Same
      BY DEF Receive, Open, Leave, model, pipe, reply
    <2>2. \A l \in loads : Serve(l) \/ Loaded(l) => Same
      BY DEF Serve, Loaded, model, pipe, reply
    <2>3. QED
      BY <2>1, <2>2 DEF Client
  <1>10. Disconnect \/ Reconnect \/ UNCHANGED vars => Same
    BY DEF Disconnect, Reconnect, vars, model, pipe, reply
  <1> HIDE DEF Same
  <1>11. QED
    BY <1>1, <1>2, <1>3, <1>4, <1>5, <1>6, <1>7, <1>8, <1>9, <1>10, RuntimeStep
       DEF Next, Provider, Asking, Serving

-----------------------------------------------------------------------------
(* The turn.                                                               *)

LEMMA AskingKept ==
  ASSUME CallOK, [Next]_vars, ~Begin, call'.state \in {"asking", "waiting"}
  PROVE  call.state \in {"asking", "waiting"}
  <1>1. call \in Calls
    BY DEF CallOK
  <1>2. CASE Refuse \/ TooMany \/ Retry
    BY <1>2 DEF Refuse, TooMany, Retry
  <1>3. CASE Answer
    <2>1. PICK kind : call' = [call EXCEPT !.state = "streaming", !.dedupe = (kind = "responses")]
      BY <1>3 DEF Answer
    <2>2. call'.state = "streaming"
      BY <1>1, <2>1 DEF Calls
    <2>3. QED
      BY <2>2
  <1>4. ASSUME NEW broken \in BOOLEAN, Hangup(broken) PROVE FALSE
    <2>1. call' = [call EXCEPT !.state = "over"]
      BY <1>4 DEF Hangup
    <2>2. call'.state = "over"
      BY <1>1, <2>1 DEF Calls
    <2>3. QED
      BY <2>2
  <1>5. CASE call' = call
    BY <1>5
  <1>6. QED
    BY <1>2, <1>3, <1>4, <1>5, CallKept DEF Next, Provider, Asking

LEMMA TurnStep ==
  ASSUME CallOK, TurnOK, [Next]_vars
  PROVE  TurnOK'
  <1>1. /\ turn = [state |-> turn.state, n |-> turn.n, san |-> turn.san, todo |-> turn.todo]
        /\ turn.state \in TurnStates /\ turn.n \in 0 .. MaxTurns /\ MaxTurns \in Nat
        /\ turn.n \in Nat
        /\ turn.state # "idle" => turn.n >= 1
        /\ IsSequence(stored)
        /\ \A i \in DOMAIN stored : stored[i].turn \in 1 .. turn.n
        /\ failed \subseteq 1 .. turn.n
        /\ \A n \in failed : ~Stores(n)
        /\ turn.state # "idle" => turn.n \notin failed
        /\ turn.state \in {"calling", "reading"} => ~Stores(turn.n)
    BY StreamAssumption DEF TurnOK, TurnRecord
  <1>2. call.state \in {"asking", "waiting"} => turn.state = "calling"
    BY DEF TurnOK
  <1>3. CASE ~Begin /\ UNCHANGED <<turn, stored, failed>>
    <2>1. call'.state \in {"asking", "waiting"} => turn.state = "calling"
      BY <1>2, <1>3, AskingKept
    <2>2. \A n : Stores(n)' <=> Stores(n)
      BY <1>3 DEF Stores
    <2>3. QED
      BY <1>1, <1>3, <2>1, <2>2 DEF TurnOK, TurnRecord
  <1>4. CASE Answer
    <2>1. turn' = [turn EXCEPT !.state = "reading"] /\ UNCHANGED <<stored, failed>>
          /\ turn.state = "calling" /\ ~Begin
      BY <1>2, <1>4 DEF Answer, Begin
    <2>2. turn' = [state |-> "reading", n |-> turn.n, san |-> turn.san, todo |-> turn.todo]
      BY <1>1, <2>1
    <2>3. \A n : Stores(n)' <=> Stores(n)
      BY <2>1 DEF Stores
    <2>4. call'.state \notin {"asking", "waiting"}
      <3>1. PICK kind : call' = [call EXCEPT !.state = "streaming", !.dedupe = (kind = "responses")]
        BY <1>4 DEF Answer
      <3>2. call'.state = "streaming"
        BY <3>1 DEF CallOK, Calls
      <3>3. QED
        BY <3>2
    <2>5. QED
      BY <1>1, <2>1, <2>2, <2>3, <2>4 DEF TurnOK, TurnRecord, TurnStates
  <1>5. CASE Begin
    <2>1. /\ turn.state = "idle" /\ turn.n < MaxTurns /\ UNCHANGED <<stored, failed>>
          /\ turn' = [state |-> "calling", n |-> turn.n + 1, san |-> NewSanitizer, todo |-> <<>>]
      BY <1>5 DEF Begin
    <2>2. /\ TurnRecord' /\ turn'.state = "calling" /\ turn'.n = turn.n + 1
          /\ turn'.n \in 0 .. MaxTurns /\ turn'.n >= 1
      BY <1>1, <2>1 DEF TurnRecord
    <2>3. \A n : Stores(n)' <=> Stores(n)
      BY <2>1 DEF Stores
    <2>4. ~Stores(turn'.n) /\ turn'.n \notin failed
      BY <1>1, <2>2 DEF Stores
    <2>5. failed' \subseteq 1 .. turn'.n /\ \A i \in DOMAIN stored' : stored'[i].turn \in 1 .. turn'.n
      BY <1>1, <2>1, <2>2
    <2>6. QED
      BY <1>1, <2>1, <2>2, <2>3, <2>4, <2>5 DEF TurnOK, TurnStates
  <1>6. CASE Fail
    <2>1. /\ turn.state = "calling" /\ call.state = "failed" /\ call' = call /\ stored' = stored
          /\ turn' = [turn EXCEPT !.state = "idle"] /\ failed' = failed \cup {turn.n}
      BY <1>6 DEF Fail, model
    <2>2. turn' = [state |-> "idle", n |-> turn.n, san |-> turn.san, todo |-> turn.todo]
      BY <1>1, <2>1
    <2>3. \A n : Stores(n)' <=> Stores(n)
      BY <2>1 DEF Stores
    <2>4. \A n \in failed' : n \in 1 .. turn.n /\ ~Stores(n)
      BY <1>1, <2>1
    <2>5. QED
      BY <1>1, <2>1, <2>2, <2>3, <2>4 DEF TurnOK, TurnRecord, TurnStates
  <1>7. CASE ReadDelta \/ ReadFinal \/ EndTurn
    <2> DEFINE After(new, san, todo) ==
          /\ turn' = [state |-> new, n |-> turn.n, san |-> san, todo |-> todo]
          /\ new \in {"reading", "storing", "idle"}
          /\ (new = "reading" => turn.state = "reading")
    <2>1. \E new, san, todo : After(new, san, todo)
      <3>1. CASE ReadDelta
        <4>1. PICK san : turn' = [turn EXCEPT !.san = san] /\ turn.state = "reading"
          BY <1>7, <3>1 DEF ReadDelta
        <4>2. After("reading", san, turn.todo)
          BY <1>1, <4>1
        <4> HIDE DEF After
        <4>3. QED
          BY <4>2
      <3>2. CASE ReadFinal
        <4>1. PICK todo : turn' = [turn EXCEPT !.state = "storing", !.todo = todo]
          BY <1>7, <3>2 DEF ReadFinal
        <4>2. After("storing", turn.san, todo)
          BY <1>1, <4>1
        <4> HIDE DEF After
        <4>3. QED
          BY <4>2
      <3>3. CASE EndTurn
        <4>1. turn' = [turn EXCEPT !.state = "idle"]
          BY <1>7, <3>3 DEF EndTurn
        <4>2. After("idle", turn.san, turn.todo)
          BY <1>1, <4>1
        <4> HIDE DEF After
        <4>3. QED
          BY <4>2
      <3>4. QED
        BY <1>7, <3>1, <3>2, <3>3
    <2>2. PICK new, san, todo : After(new, san, todo)
      BY <2>1
    <2>3. UNCHANGED <<stored, failed, call>> /\ turn.state \in {"reading", "storing"}
      BY <1>7 DEF ReadDelta, ReadFinal, EndTurn, model
    <2>4. \A n : Stores(n)' <=> Stores(n)
      BY <2>3 DEF Stores
    <2>5. call.state \notin {"asking", "waiting"}
      BY <1>2, <2>3
    <2>6. QED
      BY <1>1, <2>2, <2>3, <2>4, <2>5 DEF TurnOK, TurnRecord, TurnStates
  <1>8. CASE StoreSegment
    <2>1. PICK text, todo : /\ stored' = Append(stored, [turn |-> turn.n, text |-> text])
                            /\ turn' = [turn EXCEPT !.todo = todo]
      BY <1>8 DEF StoreSegment
    <2>2. turn.state = "storing" /\ UNCHANGED <<failed, call>>
      BY <1>8 DEF StoreSegment, model
    <2>3. turn' = [state |-> "storing", n |-> turn.n, san |-> turn.san, todo |-> todo]
      BY <1>1, <2>1, <2>2
    <2>4. PICK x : x = [turn |-> turn.n, text |-> text]
      OBVIOUS
    <2>5. /\ IsSequence(stored') /\ Len(stored') = Len(stored) + 1
          /\ \A i \in 1 .. Len(stored) : stored'[i] = stored[i]
          /\ stored'[Len(stored) + 1] = x
      BY <1>1, <2>1, <2>4, AppendIsSequence
    <2>6. /\ DOMAIN stored = 1 .. Len(stored) /\ Len(stored) \in Nat
          /\ DOMAIN stored' = 1 .. Len(stored) + 1
      BY <1>1, <2>5, SequenceFacts
    <2>7. ASSUME NEW i \in DOMAIN stored'
          PROVE  stored'[i].turn = turn.n \/ (i \in DOMAIN stored /\ stored'[i] = stored[i])
      BY <2>4, <2>5, <2>6
    <2>8. \A n : n # turn.n /\ Stores(n)' => Stores(n)
      BY <2>7 DEF Stores
    <2>9. \A i \in DOMAIN stored' : stored'[i].turn \in 1 .. turn.n
      BY <1>1, <2>2, <2>7
    <2>10. \A n \in failed : ~Stores(n)'
      BY <1>1, <2>2, <2>8
    <2>11. call.state \notin {"asking", "waiting"}
      BY <1>2, <2>2
    <2>12. QED
      BY <1>1, <2>2, <2>3, <2>5, <2>9, <2>10, <2>11 DEF TurnOK, TurnRecord, TurnStates
  <1>9. Refuse \/ TooMany \/ Retry \/ Emit \/ Runtime \/ Deadline \/ UNCHANGED vars
          => UNCHANGED <<turn, stored, failed>>
    BY QuietSteps DEF Quiet
  <1>10. \A broken \in BOOLEAN : Hangup(broken) => UNCHANGED <<turn, stored, failed>>
    BY QuietSteps DEF Quiet
  <1>11. Client => UNCHANGED <<turn, stored, failed>>
    <2>1. Receive \/ Open \/ Leave => UNCHANGED <<turn, stored, failed>>
      BY DEF Receive, Open, Leave, reply
    <2>2. \A l \in loads : Serve(l) \/ Loaded(l) => UNCHANGED <<turn, stored, failed>>
      BY DEF Serve, Loaded, reply
    <2>3. QED
      BY <2>1, <2>2 DEF Client
  <1>12. Disconnect \/ Reconnect => UNCHANGED <<turn, stored, failed>>
    BY DEF Disconnect, Reconnect, reply
  <1>13. QED
    BY <1>3, <1>4, <1>5, <1>6, <1>7, <1>8, <1>9, <1>10, <1>11, <1>12
       DEF Next, Provider, Asking, Serving

-----------------------------------------------------------------------------
(* The connection.                                                         *)

(* What publishing does to the events on their way.                        *)
LEMMA PublishStep ==
  ASSUME NEW events, IsSequence(events), IsSequence(wire), Publish(events)
  PROVE  /\ up' = up /\ lost \subseteq lost' /\ lost' \subseteq lost \cup {turn'.n}
         /\ IsSequence(wire') /\ Len(wire) \in Nat /\ Len(wire') \in Nat /\ Len(wire) <= Len(wire')
         /\ \A i \in 1 .. Len(wire) : wire'[i] = wire[i]
         /\ ~up => wire' = wire /\ (events = <<>> \/ turn'.n \in lost')
         /\ up => /\ Len(wire') = Len(wire) + Len(events)
                  /\ \A j \in 1 .. Len(events) : wire'[Len(wire) + j] = events[j]
         /\ \A i \in DOMAIN wire' :
              \/ i \in DOMAIN wire /\ wire'[i] = wire[i]
              \/ \E j \in DOMAIN events : wire'[i] = events[j]
  <1>1. /\ Len(wire) \in Nat /\ DOMAIN wire = 1 .. Len(wire)
        /\ Len(events) \in Nat /\ DOMAIN events = 1 .. Len(events)
    BY SequenceFacts
  <1>2. up' = up /\ lost \subseteq lost' /\ lost' \subseteq lost \cup {turn'.n}
    BY DEF Publish
  <1>3. CASE ~up
    <2>1. wire' = wire /\ (events = <<>> \/ turn'.n \in lost')
      BY <1>3 DEF Publish
    <2>2. /\ IsSequence(wire') /\ Len(wire') = Len(wire) /\ DOMAIN wire' = DOMAIN wire
          /\ \A i \in DOMAIN wire : wire'[i] = wire[i]
      BY <2>1
    <2>3. \A i \in DOMAIN wire' : i \in DOMAIN wire /\ wire'[i] = wire[i]
      BY <2>2
    <2>4. Len(wire') \in Nat /\ Len(wire) <= Len(wire') /\ \A i \in 1 .. Len(wire) : wire'[i] = wire[i]
      BY <1>1, <2>2
    <2>5. QED
      BY <1>1, <1>2, <1>3, <2>1, <2>2, <2>3, <2>4
  <1>4. CASE up
    <2>1. wire' = wire \o events
      BY <1>4 DEF Publish
    <2>2. /\ IsSequence(wire') /\ Len(wire') = Len(wire) + Len(events)
          /\ \A i \in 1 .. Len(wire) : wire'[i] = wire[i]
          /\ \A j \in 1 .. Len(events) : wire'[Len(wire) + j] = events[j]
      BY <2>1, ConcatIsSequence
    <2>3. DOMAIN wire' = 1 .. Len(wire) + Len(events)
      BY <2>2, SequenceFacts
    <2>4. ASSUME NEW i \in DOMAIN wire', i \notin DOMAIN wire
          PROVE  \E j \in DOMAIN events : wire'[i] = events[j]
      <3>1. i - Len(wire) \in 1 .. Len(events) /\ Len(wire) + (i - Len(wire)) = i
        BY <1>1, <2>3, <2>4
      <3>2. QED
        BY <1>1, <2>2, <3>1
    <2>5. Len(wire') \in Nat /\ Len(wire) <= Len(wire')
      BY <1>1, <2>2
    <2>6. \A i \in DOMAIN wire' :
            \/ i \in DOMAIN wire /\ wire'[i] = wire[i]
            \/ \E j \in DOMAIN events : wire'[i] = events[j]
      BY <1>1, <2>2, <2>4
    <2>7. QED
      BY <1>1, <1>2, <1>4, <2>2, <2>5, <2>6
  <1>5. QED
    BY <1>3, <1>4

(* What the steps of a turn publish.                                       *)
Spoken(events) ==
  /\ IsSequence(events) /\ Publish(events)
  /\ \A i \in DOMAIN events :
       /\ events[i].turn = turn'.n /\ EventOK(events[i])
       /\ events[i].type = "stream_start" => turn'.state = "calling"

LEMMA BeginSpeaks ==
  ASSUME Begin
  PROVE  /\ turn'.n = turn.n + 1 /\ turn'.state = "calling" /\ stored' = stored
         /\ \E events : Spoken(events)
  <1>1. /\ turn' = [state |-> "calling", n |-> turn.n + 1, san |-> NewSanitizer, todo |-> <<>>]
        /\ Publish(<<Typing(TRUE), StreamStart>>) /\ stored' = stored
    BY DEF Begin
  <1>2. PICK a, b : a = Typing(TRUE) /\ b = StreamStart
    OBVIOUS
  <1>3. /\ a.turn = turn'.n /\ a.type = "typing" /\ a.on = TRUE
        /\ b.turn = turn'.n /\ b.type = "stream_start"
    BY <1>2 DEF Typing, StreamStart
  <1>4. IsSequence(<<a, b>>) /\ Len(<<a, b>>) = 2 /\ <<a, b>>[1] = a /\ <<a, b>>[2] = b
    BY PairIsSequence
  <1>5. turn'.n = turn.n + 1 /\ turn'.state = "calling"
    BY <1>1
  <1>6. PICK events : events = <<a, b>>
    OBVIOUS
  <1>7. IsSequence(events) /\ DOMAIN events = 1 .. 2 /\ events[1] = a /\ events[2] = b
    BY <1>4, <1>6, SequenceFacts
  <1>8. \A i \in DOMAIN events : events[i] = a \/ events[i] = b
    BY <1>7
  <1>9. Publish(events)
    BY <1>1, <1>2, <1>6
  <1>10. Spoken(events)
    BY <1>3, <1>5, <1>7, <1>8, <1>9 DEF Spoken, EventOK, EventTypes
  <1>11. QED
    BY <1>1, <1>5, <1>10

LEMMA FailSpeaks ==
  ASSUME TurnOK, Fail
  PROVE  /\ turn'.n = turn.n /\ stored' = stored /\ turn'.state = "idle"
         /\ \E events : /\ Spoken(events) /\ Len(events) = 2
                        /\ events[2].type = "typing" /\ events[2].on = FALSE
  <1>1. /\ turn' = [turn EXCEPT !.state = "idle"]
        /\ Publish(<<ErrorEvent, Typing(FALSE)>>) /\ stored' = stored
    BY DEF Fail
  <1>2. turn'.n = turn.n /\ turn'.state = "idle"
    BY <1>1 DEF TurnOK, TurnRecord
  <1>3. PICK a, b : a = ErrorEvent /\ b = Typing(FALSE)
    OBVIOUS
  <1>4. /\ a.turn = turn'.n /\ a.type = "error"
        /\ b.turn = turn'.n /\ b.type = "typing" /\ b.on = FALSE
    BY <1>3 DEF Typing, ErrorEvent
  <1>5. IsSequence(<<a, b>>) /\ Len(<<a, b>>) = 2 /\ <<a, b>>[1] = a /\ <<a, b>>[2] = b
    BY PairIsSequence
  <1>6. PICK events : events = <<a, b>>
    OBVIOUS
  <1>7. /\ IsSequence(events) /\ Len(events) = 2 /\ DOMAIN events = 1 .. 2
        /\ events[1] = a /\ events[2] = b
    BY <1>5, <1>6, SequenceFacts
  <1>8. \A i \in DOMAIN events : events[i] = a \/ events[i] = b
    BY <1>7
  <1>9. Publish(events)
    BY <1>1, <1>3, <1>6
  <1>10. Spoken(events)
    BY <1>4, <1>7, <1>8, <1>9 DEF Spoken, EventOK, EventTypes
  <1>11. QED
    BY <1>1, <1>2, <1>4, <1>7, <1>10

(* The steps that publish one event, or none.                              *)
LEMMA OneSpeaks ==
  ASSUME NEW e, Publish(<<e>>), e.turn = turn'.n, EventOK(e), e.type # "stream_start"
  PROVE  \E events : Spoken(events) /\ Len(events) = 1 /\ events[1] = e
  <1>1. IsSequence(<<e>>) /\ Len(<<e>>) = 1 /\ <<e>>[1] = e
    BY SingleIsSequence
  <1>2. PICK events : events = <<e>>
    OBVIOUS
  <1>3. IsSequence(events) /\ Len(events) = 1 /\ DOMAIN events = 1 .. 1 /\ events[1] = e
    BY <1>1, <1>2, SequenceFacts
  <1>4. \A i \in DOMAIN events : events[i] = e
    BY <1>3
  <1>5. Spoken(events)
    BY <1>2, <1>3, <1>4 DEF Spoken
  <1>6. QED
    BY <1>3, <1>5

LEMMA ReadSpeaks ==
  ASSUME TurnOK, ReadDelta \/ ReadFinal
  PROVE  /\ turn'.n = turn.n /\ stored' = stored /\ turn'.state \in {"reading", "storing"}
         /\ \E events : Spoken(events)
  <1>1. CASE ReadDelta
    <2>1. PICK san, visible :
            /\ turn' = [turn EXCEPT !.san = san] /\ turn.state = "reading" /\ stored' = stored
            /\ Publish(IF visible = <<>> THEN <<>> ELSE <<StreamChunk(visible)>>)
      BY <1>1 DEF ReadDelta
    <2>2. turn'.n = turn.n /\ turn'.state = "reading"
      BY <2>1 DEF TurnOK, TurnRecord
    <2>3. CASE visible = <<>>
      <3>1. Publish(<<>>)
        BY <2>1, <2>3
      <3>2. IsSequence(<<>>) /\ DOMAIN <<>> = {}
        BY EmptyIsSequence, SequenceFacts
      <3>3. Spoken(<<>>)
        BY <3>1, <3>2 DEF Spoken
      <3>4. QED
        BY <2>1, <2>2, <3>3
    <2>4. CASE visible # <<>>
      <3>1. PICK e : e = StreamChunk(visible)
        OBVIOUS
      <3>2. Publish(<<e>>)
        BY <2>1, <2>4, <3>1
      <3>3. e.turn = turn'.n /\ e.type = "stream_chunk"
        BY <3>1 DEF StreamChunk
      <3>4. \E events : Spoken(events)
        BY <3>2, <3>3, OneSpeaks DEF EventOK, EventTypes
      <3>5. QED
        BY <2>1, <2>2, <3>4
    <2>5. QED
      BY <2>3, <2>4
  <1>2. CASE ReadFinal
    <2>1. PICK todo : /\ turn' = [turn EXCEPT !.state = "storing", !.todo = todo]
                      /\ stored' = stored /\ Publish(<<StreamEnd>>)
      BY <1>2 DEF ReadFinal
    <2>2. turn'.n = turn.n /\ turn'.state = "storing"
      BY <2>1 DEF TurnOK, TurnRecord
    <2>3. PICK e : e = StreamEnd
      OBVIOUS
    <2>4. Publish(<<e>>) /\ e.turn = turn'.n /\ e.type = "stream_end"
      BY <2>1, <2>3 DEF StreamEnd
    <2>5. \E events : Spoken(events)
      BY <2>4, OneSpeaks DEF EventOK, EventTypes
    <2>6. QED
      BY <2>1, <2>2, <2>5
  <1>3. QED
    BY <1>1, <1>2

LEMMA StoreSpeaks ==
  ASSUME TurnOK, StoreSegment
  PROVE  /\ turn'.n = turn.n /\ turn'.state = "storing"
         /\ \A n : Stores(n)' => Stores(n) \/ n = turn.n
         /\ \E events : Spoken(events) /\ Len(events) = 1 /\ events[1].type = "message"
  <1>1. PICK x, todo, id :
          /\ stored' = Append(stored, x) /\ x.turn = turn.n
          /\ turn' = [turn EXCEPT !.todo = todo] /\ turn.state = "storing"
          /\ Publish(<<MessageEvent(id)>>)
    BY DEF StoreSegment
  <1>2. turn'.n = turn.n /\ turn'.state = "storing" /\ IsSequence(stored)
    BY <1>1 DEF TurnOK, TurnRecord
  <1>3. /\ IsSequence(stored') /\ Len(stored') = Len(stored) + 1
        /\ \A i \in 1 .. Len(stored) : stored'[i] = stored[i]
        /\ stored'[Len(stored) + 1] = x
    BY <1>1, <1>2, AppendIsSequence
  <1>4. DOMAIN stored = 1 .. Len(stored) /\ DOMAIN stored' = 1 .. Len(stored) + 1 /\ Len(stored) \in Nat
    BY <1>2, <1>3, SequenceFacts
  <1>5. ASSUME NEW n, Stores(n)' PROVE Stores(n) \/ n = turn.n
    <2>1. PICK i \in DOMAIN stored' : stored'[i].turn = n
      BY <1>5 DEF Stores
    <2>2. CASE i \in 1 .. Len(stored)
      BY <1>3, <1>4, <2>1, <2>2 DEF Stores
    <2>3. CASE i = Len(stored) + 1
      BY <1>1, <1>3, <2>1, <2>3
    <2>4. QED
      BY <1>4, <2>2, <2>3
  <1>6. PICK e : e = MessageEvent(id)
    OBVIOUS
  <1>7. Publish(<<e>>) /\ e.turn = turn'.n /\ e.type = "message"
    BY <1>1, <1>6 DEF MessageEvent
  <1>8. \E events : Spoken(events) /\ Len(events) = 1 /\ events[1] = e
    BY <1>7, OneSpeaks DEF EventOK, EventTypes
  <1>9. QED
    BY <1>2, <1>5, <1>7, <1>8

LEMMA EndSpeaks ==
  ASSUME TurnOK, EndTurn
  PROVE  /\ turn'.n = turn.n /\ stored' = stored /\ turn'.state = "idle"
         /\ \E events : /\ Spoken(events) /\ Len(events) = 1
                        /\ events[1].type = "typing" /\ events[1].on = FALSE
  <1>1. turn' = [turn EXCEPT !.state = "idle"] /\ Publish(<<Typing(FALSE)>>) /\ stored' = stored
    BY DEF EndTurn
  <1>2. turn'.n = turn.n /\ turn'.state = "idle"
    BY <1>1 DEF TurnOK, TurnRecord
  <1>3. PICK e : e = Typing(FALSE)
    OBVIOUS
  <1>4. Publish(<<e>>) /\ e.turn = turn'.n /\ e.type = "typing" /\ e.on = FALSE
    BY <1>1, <1>3 DEF Typing
  <1>5. \E events : Spoken(events) /\ Len(events) = 1 /\ events[1] = e
    BY <1>4, OneSpeaks DEF EventOK, EventTypes
  <1>6. QED
    BY <1>1, <1>2, <1>4, <1>5

(* What is known of a turn's messages stays known when a turn speaks: what *)
(* it stores now is published behind everything on its way, or lost.       *)
LEMMA SpokenKeepsFollowed ==
  ASSUME TurnOK, LinkOK, Begin \/ Serving,
         NEW i \in 0 .. Len(wire), NEW n, Followed(i, n)
  PROVE  Followed(i, n)'
  <1>1. IsSequence(wire) /\ DOMAIN wire = 1 .. Len(wire) /\ Len(wire) \in Nat
    BY SequenceFacts DEF LinkOK
  <1>2. ASSUME NEW events, Spoken(events)
        PROVE  /\ n \in lost => n \in lost'
               /\ MessageAfter(i, n) => MessageAfter(i, n)'
    <2>1. /\ lost \subseteq lost' /\ IsSequence(wire') /\ Len(wire') \in Nat /\ Len(wire) <= Len(wire')
          /\ \A k \in 1 .. Len(wire) : wire'[k] = wire[k]
      BY <1>1, <1>2, PublishStep DEF Spoken
    <2>2. DOMAIN wire' = 1 .. Len(wire')
      BY <2>1, SequenceFacts
    <2>3. \A k \in DOMAIN wire : k \in DOMAIN wire' /\ wire'[k] = wire[k]
      BY <1>1, <2>1, <2>2
    <2>4. QED
      BY <2>1, <2>3 DEF MessageAfter
  <1>3. CASE Begin \/ Fail \/ ReadDelta \/ ReadFinal \/ EndTurn
    <2>1. stored' = stored /\ \E events : Spoken(events)
      BY <1>3, BeginSpeaks, FailSpeaks, ReadSpeaks, EndSpeaks
    <2>2. Stores(n)' => Stores(n)
      BY <2>1 DEF Stores
    <2>3. QED
      BY <1>2, <2>1, <2>2 DEF Followed
  <1>4. CASE StoreSegment
    <2>1. turn'.n = turn.n /\ (Stores(n)' => Stores(n) \/ n = turn.n)
      BY <1>4, StoreSpeaks
    <2>2. PICK events : Spoken(events) /\ Len(events) = 1 /\ events[1].type = "message"
      BY <1>4, StoreSpeaks
    <2>3. CASE n # turn.n
      BY <1>2, <2>1, <2>2, <2>3 DEF Followed
    <2>4. CASE n = turn.n
      <3>1. /\ IsSequence(events) /\ Publish(events) /\ DOMAIN events = 1 .. 1 /\ events # <<>>
            /\ 1 \in 1 .. Len(events)
        <4>1. IsSequence(events) /\ Publish(events)
          BY <2>2 DEF Spoken
        <4>2. DOMAIN events = 1 .. Len(events) /\ (events = <<>> <=> Len(events) = 0)
          BY <4>1, SequenceFacts
        <4>3. DOMAIN events = 1 .. 1 /\ 1 \in 1 .. Len(events)
          BY <2>2, <4>2
        <4>4. QED
          BY <2>2, <4>1, <4>2, <4>3
      <3>2. CASE ~up
        <4>1. turn'.n \in lost'
          BY <1>1, <3>1, <3>2, PublishStep
        <4>2. QED
          BY <2>1, <2>4, <4>1 DEF Followed
      <3>3. CASE up
        <4>1. /\ Len(wire') = Len(wire) + 1 /\ wire'[Len(wire) + 1] = events[1]
              /\ IsSequence(wire')
          <5>1. /\ Len(wire') = Len(wire) + Len(events) /\ IsSequence(wire')
                /\ \A j \in 1 .. Len(events) : wire'[Len(wire) + j] = events[j]
            BY <1>1, <3>1, <3>3, PublishStep
          <5>2. QED
            BY <2>2, <3>1, <5>1
        <4>2. Len(wire) + 1 \in DOMAIN wire' /\ i < Len(wire) + 1
          BY <1>1, <4>1, SequenceFacts
        <4>3. events[1].turn = turn'.n
          BY <2>2, <3>1 DEF Spoken
        <4>4. MessageAfter(i, n)'
          BY <2>1, <2>2, <2>4, <4>1, <4>2, <4>3 DEF MessageAfter
        <4>5. QED
          BY <4>4 DEF Followed
      <3>4. QED
        BY <3>2, <3>3
    <2>5. QED
      BY <2>3, <2>4
  <1>5. QED
    BY <1>3, <1>4 DEF Serving

LEMMA TurnSpeaks ==
  ASSUME TurnOK, Begin \/ Serving
  PROVE  /\ turn'.n = turn.n \/ turn'.n = turn.n + 1
         /\ \E events : Spoken(events)
  <1>1. CASE Begin
    BY <1>1, BeginSpeaks
  <1>2. CASE Fail
    BY <1>2, FailSpeaks
  <1>3. CASE ReadDelta \/ ReadFinal
    BY <1>3, ReadSpeaks
  <1>4. CASE StoreSegment
    BY <1>4, StoreSpeaks
  <1>5. CASE EndTurn
    BY <1>5, EndSpeaks
  <1>6. QED
    BY <1>1, <1>2, <1>3, <1>4, <1>5 DEF Serving

(* The steps that leave the connection alone.                              *)
LinkQuiet == UNCHANGED <<wire, up, lost, stored>> /\ turn'.n = turn.n

LEMMA LinkQuietSteps ==
  ASSUME TurnOK, Refuse \/ TooMany \/ Retry \/ Answer \/ Emit \/ Runtime \/ Deadline \/ Open \/ Leave
                 \/ (\E broken \in BOOLEAN : Hangup(broken))
                 \/ (\E l \in loads : Serve(l) \/ Loaded(l)) \/ UNCHANGED vars
  PROVE  LinkQuiet
  <1>1. Refuse \/ TooMany \/ Retry \/ Emit \/ Runtime \/ Deadline \/ UNCHANGED vars => LinkQuiet
    BY QuietSteps DEF Quiet, LinkQuiet
  <1>2. (\E broken \in BOOLEAN : Hangup(broken)) => LinkQuiet
    BY QuietSteps DEF Quiet, LinkQuiet
  <1>3. Answer => LinkQuiet
    <2> SUFFICES ASSUME Answer PROVE LinkQuiet
      OBVIOUS
    <2>1. turn' = [turn EXCEPT !.state = "reading"] /\ UNCHANGED <<wire, up, lost, stored>>
      BY DEF Answer, link
    <2>2. QED
      BY <2>1 DEF LinkQuiet, TurnOK, TurnRecord
  <1>4. Open \/ Leave => LinkQuiet
    BY DEF Open, Leave, reply, link, LinkQuiet
  <1>5. (\E l \in loads : Serve(l) \/ Loaded(l)) => LinkQuiet
    BY DEF Serve, Loaded, reply, link, LinkQuiet
  <1>6. QED
    BY <1>1, <1>2, <1>3, <1>4, <1>5

(* Receiving takes the first event off.                                    *)
LEMMA ReceiveTakes ==
  ASSUME IsSequence(wire), Receive
  PROVE  /\ IsSequence(wire') /\ Len(wire) \in Nat /\ Len(wire) >= 1 /\ Len(wire') = Len(wire) - 1
         /\ DOMAIN wire = 1 .. Len(wire) /\ DOMAIN wire' = 1 .. Len(wire) - 1
         /\ \A i \in 1 .. Len(wire) - 1 : wire'[i] = wire[i + 1]
         /\ Head(wire) = wire[1]
         /\ UNCHANGED <<turn, stored, failed, up, lost, view>>
  <1>1. wire # <<>> /\ wire' = Tail(wire)
    BY DEF Receive
  <1>2. /\ IsSequence(wire') /\ Len(wire) \in Nat /\ Len(wire) >= 1 /\ Len(wire') = Len(wire) - 1
        /\ \A i \in 1 .. Len(wire) - 1 : wire'[i] = wire[i + 1]
        /\ Head(wire) = wire[1]
    BY <1>1, TailIsSequence
  <1>3. DOMAIN wire = 1 .. Len(wire) /\ DOMAIN wire' = 1 .. Len(wire')
    BY <1>2, SequenceFacts
  <1>4. UNCHANGED <<turn, stored, failed, up, lost, view>>
    BY DEF Receive, reply
  <1>5. QED
    BY <1>2, <1>3, <1>4

LEMMA ReceiveKeepsFollowed ==
  ASSUME IsSequence(wire), Receive, NEW i \in 1 .. Len(wire), NEW n, Followed(i, n)
  PROVE  Followed(i - 1, n)'
  <1>1. /\ IsSequence(wire') /\ Len(wire) \in Nat
        /\ DOMAIN wire = 1 .. Len(wire) /\ DOMAIN wire' = 1 .. Len(wire) - 1
        /\ \A k \in 1 .. Len(wire) - 1 : wire'[k] = wire[k + 1]
        /\ UNCHANGED <<stored, lost>>
    BY ReceiveTakes
  <1>2. Stores(n)' <=> Stores(n)
    BY <1>1 DEF Stores
  <1>3. ASSUME MessageAfter(i, n) PROVE MessageAfter(i - 1, n)'
    <2>1. PICK j \in DOMAIN wire : i < j /\ wire[j].type = "message" /\ wire[j].turn = n
      BY <1>3 DEF MessageAfter
    <2>2. j - 1 \in DOMAIN wire' /\ i - 1 < j - 1 /\ wire'[j - 1] = wire[j]
      <3>1. j - 1 \in 1 .. Len(wire) - 1 /\ i - 1 < j - 1 /\ (j - 1) + 1 = j
        BY <1>1, <2>1
      <3>2. QED
        BY <1>1, <3>1
    <2>3. QED
      BY <2>1, <2>2 DEF MessageAfter
  <1>4. QED
    BY <1>1, <1>2, <1>3 DEF Followed

LEMMA LinkStep ==
  ASSUME TurnOK, TurnOK', LinkOK, [Next]_vars
  PROVE  LinkOK'
  <1>1. /\ IsSequence(wire) /\ DOMAIN wire = 1 .. Len(wire) /\ Len(wire) \in Nat
        /\ \A i \in DOMAIN wire : wire[i].turn \in 1 .. turn.n /\ EventOK(wire[i])
        /\ lost \subseteq 1 .. turn.n
        /\ up \in BOOLEAN /\ (~up => wire = <<>>)
    BY SequenceFacts DEF LinkOK
  <1>2. \A i \in DOMAIN wire : StartFollowed(i)
    BY DEF LinkOK
  <1>3. turn.n \in Nat /\ turn'.n \in Nat
    BY StreamAssumption DEF TurnOK
  <1>4. SUFFICES /\ IsSequence(wire')
                 /\ \A i \in DOMAIN wire' : wire'[i].turn \in 1 .. turn'.n /\ EventOK(wire'[i])
                 /\ lost' \subseteq 1 .. turn'.n
                 /\ up' \in BOOLEAN /\ (~up' => wire' = <<>>)
                 /\ \A i \in DOMAIN wire' : StartFollowed(i)'
    BY DEF LinkOK
  <1>5. CASE LinkQuiet \/ Reconnect
    <2>1. /\ UNCHANGED <<wire, lost, stored>> /\ turn'.n = turn.n
          /\ up' \in BOOLEAN /\ (~up' => ~up)
      BY <1>1, <1>5 DEF LinkQuiet, Reconnect, reply
    <2>2. \A i : StartFollowed(i)' <=> StartFollowed(i)
      BY <2>1 DEF StartFollowed, Followed, Stores, MessageAfter
    <2>3. QED
      BY <1>1, <1>2, <2>1, <2>2
  <1>6. CASE Begin \/ Serving
    <2>1. PICK events : Spoken(events)
      BY <1>6, TurnSpeaks
    <2>2. turn'.n = turn.n \/ turn'.n = turn.n + 1
      BY <1>6, TurnSpeaks
    <2>3. 1 .. turn.n \subseteq 1 .. turn'.n
      BY <1>3, <2>2
    <2>4. turn'.n \in 1 .. turn'.n
      <3>1. CASE Begin
        BY <1>3, <3>1, BeginSpeaks
      <3>2. CASE Serving
        <4>1. turn.state # "idle"
          BY <3>2 DEF Serving, Fail, ReadDelta, ReadFinal, StoreSegment, EndTurn
        <4>2. turn.n >= 1
          BY <4>1 DEF TurnOK
        <4>3. QED
          BY <1>3, <2>2, <4>2
      <3>3. QED
        BY <1>6, <3>1, <3>2
    <2>5. /\ up' = up /\ lost \subseteq lost' /\ lost' \subseteq lost \cup {turn'.n}
          /\ IsSequence(wire') /\ (~up => wire' = wire)
      BY <1>1, <2>1, PublishStep DEF Spoken
    <2>6. \A i \in DOMAIN wire' :
            \/ i \in DOMAIN wire /\ wire'[i] = wire[i]
            \/ \E j \in DOMAIN events : wire'[i] = events[j]
      BY <1>1, <2>1, PublishStep DEF Spoken
    <2>7. \A j \in DOMAIN events :
            /\ events[j].turn = turn'.n /\ EventOK(events[j])
            /\ events[j].type = "stream_start" => turn'.state = "calling"
      BY <2>1 DEF Spoken
    <2>8. ASSUME NEW i \in DOMAIN wire'
          PROVE  /\ wire'[i].turn \in 1 .. turn'.n /\ EventOK(wire'[i])
                 /\ StartFollowed(i)'
      <3>1. CASE i \in DOMAIN wire /\ wire'[i] = wire[i]
        <4>1. wire'[i].turn \in 1 .. turn'.n /\ EventOK(wire'[i])
          BY <1>1, <2>3, <3>1
        <4>2. ASSUME wire'[i].type = "stream_start" PROVE StartFollowed(i)'
          <5>1. PICK n : n = wire[i].turn
            OBVIOUS
          <5>2. Followed(i, n) /\ i \in 0 .. Len(wire)
            BY <1>1, <1>2, <3>1, <4>2, <5>1 DEF StartFollowed
          <5>3. Followed(i, n)'
            BY <1>6, <5>2, SpokenKeepsFollowed
          <5>4. wire'[i].turn = n
            BY <3>1, <5>1
          <5>5. QED
            BY <5>3, <5>4 DEF StartFollowed, Followed, Stores, MessageAfter
        <4>3. QED
          BY <4>1, <4>2 DEF StartFollowed
      <3>2. CASE \E j \in DOMAIN events : wire'[i] = events[j]
        <4>1. wire'[i].turn = turn'.n /\ EventOK(wire'[i])
          BY <2>7, <3>2
        <4>2. ASSUME wire'[i].type = "stream_start" PROVE StartFollowed(i)'
          <5>1. turn'.state = "calling"
            BY <2>7, <3>2, <4>2
          <5>2. ~Stores(turn.n)'
            BY <5>1 DEF TurnOK
          <5>3. QED
            BY <4>1, <5>2 DEF StartFollowed, Followed, Stores
        <4>3. QED
          BY <2>4, <4>1, <4>2 DEF StartFollowed
      <3>3. QED
        BY <2>6, <3>1, <3>2
    <2>9. lost' \subseteq 1 .. turn'.n
      BY <1>1, <2>3, <2>4, <2>5
    <2>10. QED
      BY <1>1, <2>5, <2>8, <2>9
  <1>7. CASE Receive
    <2>1. /\ IsSequence(wire') /\ DOMAIN wire' = 1 .. Len(wire) - 1
          /\ \A i \in 1 .. Len(wire) - 1 : wire'[i] = wire[i + 1]
          /\ UNCHANGED <<turn, up, lost>>
          /\ Len(wire) >= 1
      BY <1>1, <1>7, ReceiveTakes
    <2>2. ASSUME NEW i \in DOMAIN wire'
          PROVE  /\ wire'[i].turn \in 1 .. turn'.n /\ EventOK(wire'[i])
                 /\ StartFollowed(i)'
      <3>1. i + 1 \in DOMAIN wire /\ wire'[i] = wire[i + 1] /\ (i + 1) - 1 = i
        BY <1>1, <2>1
      <3>2. ASSUME wire'[i].type = "stream_start" PROVE StartFollowed(i)'
        <4>1. PICK n : n = wire[i + 1].turn
          OBVIOUS
        <4>2. Followed(i + 1, n)
          BY <1>2, <3>1, <3>2, <4>1 DEF StartFollowed
        <4>3. PICK k : k = i + 1
          OBVIOUS
        <4>4. Followed(k - 1, n)'
          BY <1>1, <1>7, <3>1, <4>2, <4>3, ReceiveKeepsFollowed
        <4>5. k - 1 = i /\ wire'[i].turn = n
          BY <3>1, <4>1, <4>3
        <4>6. QED
          BY <4>4, <4>5 DEF StartFollowed, Followed, Stores, MessageAfter
      <3>3. QED
        BY <1>1, <2>1, <3>1, <3>2 DEF StartFollowed
    <2>3. ~up' => FALSE
      <3>1. wire # <<>>
        BY <1>7 DEF Receive
      <3>2. QED
        BY <1>1, <2>1, <3>1
    <2>4. QED
      BY <1>1, <2>1, <2>2, <2>3
  <1>8. CASE Disconnect
    <2>1. /\ up' = FALSE /\ wire' = <<>> /\ UNCHANGED turn
          /\ lost' = lost \cup {wire[i].turn : i \in DOMAIN wire}
      BY <1>8 DEF Disconnect, reply
    <2>2. IsSequence(wire') /\ DOMAIN wire' = {}
      BY <2>1, EmptyIsSequence, SequenceFacts
    <2>3. QED
      BY <1>1, <2>1, <2>2
  <1>9. QED
    <2>1. Client => LinkQuiet \/ Receive
      BY LinkQuietSteps DEF Client
    <2>2. Provider \/ Runtime \/ Deadline \/ UNCHANGED vars => LinkQuiet
      BY LinkQuietSteps DEF Provider, Asking
    <2>3. QED
      BY <1>5, <1>6, <1>7, <1>8, <2>1, <2>2 DEF Next

-----------------------------------------------------------------------------
(* The page.                                                               *)

LEMMA EntryFacts ==
  ASSUME NEW s, NEW ds, EntriesOK(s, ds)
  PROVE  /\ IsSequence(s) /\ Len(s) \in Nat /\ DOMAIN s = 1 .. Len(s)
         /\ \A i \in DOMAIN s : IsMessage(s[i]) \/ (IsDraftRecord(s[i]) /\ s[i].turn \in ds)
         /\ \A i, j \in DOMAIN s : s[i] = s[j] \/ SameDraft(s[i], s[j]) => i = j
  BY SequenceFacts DEF EntriesOK

LEMMA MappedEntries ==
  ASSUME NEW s, NEW ds, EntriesOK(s, ds), NEW t, t = [i \in DOMAIN s |-> t[i]],
         \A i \in DOMAIN s :
           t[i] = s[i] \/ (IsDraftRecord(s[i]) /\ IsDraftRecord(t[i]) /\ t[i].turn = s[i].turn)
  PROVE  /\ EntriesOK(t, ds) /\ DOMAIN t = DOMAIN s
         /\ \A i \in DOMAIN s : t[i].type = s[i].type /\ (t[i].type = "draft" => t[i].turn = s[i].turn)
  <1>1. /\ Len(s) \in Nat /\ DOMAIN s = 1 .. Len(s)
        /\ \A i \in DOMAIN s : IsMessage(s[i]) \/ (IsDraftRecord(s[i]) /\ s[i].turn \in ds)
        /\ \A i, j \in DOMAIN s : s[i] = s[j] \/ SameDraft(s[i], s[j]) => i = j
    BY EntryFacts
  <1>2. t = [i \in 1 .. Len(s) |-> t[i]]
    BY <1>1
  <1>3. IsSequence(t) /\ Len(t) = Len(s)
    BY <1>1, <1>2, FunctionIsSequence
  <1>4. DOMAIN t = DOMAIN s
    OBVIOUS
  <1>5. \A i \in DOMAIN s : t[i].type = s[i].type /\ (t[i].type = "draft" => t[i].turn = s[i].turn)
    BY DEF IsDraftRecord
  <1>6. ASSUME NEW i \in DOMAIN s
        PROVE  IsMessage(t[i]) \/ (IsDraftRecord(t[i]) /\ t[i].turn \in ds)
    <2>1. PICK x, y : x = s[i] /\ y = t[i]
      OBVIOUS
    <2>2. /\ IsMessage(x) \/ (IsDraftRecord(x) /\ x.turn \in ds)
          /\ y = x \/ (IsDraftRecord(x) /\ IsDraftRecord(y) /\ y.turn = x.turn)
      BY <1>1, <2>1
    <2>3. ~(IsMessage(x) /\ IsDraftRecord(x))
      BY DEF IsMessage, IsDraftRecord
    <2>4. IsMessage(y) \/ (IsDraftRecord(y) /\ y.turn \in ds)
      BY <2>2, <2>3
    <2>5. QED
      BY <2>1, <2>4
  <1>7. ASSUME NEW i \in DOMAIN s, NEW j \in DOMAIN s, t[i] = t[j] \/ SameDraft(t[i], t[j])
        PROVE  i = j
    <2>1. CASE t[i].type = "draft" /\ t[j].type = "draft"
      <3>1. t[i].turn = t[j].turn
        BY <1>7 DEF SameDraft
      <3>2. SameDraft(s[i], s[j])
        BY <1>5, <2>1, <3>1 DEF SameDraft
      <3>3. QED
        BY <1>1, <3>2
    <2>2. CASE ~(t[i].type = "draft" /\ t[j].type = "draft")
      <3>1. t[i] = t[j] /\ t[i].type # "draft" /\ t[j].type # "draft"
        BY <1>7, <2>2 DEF SameDraft
      <3>2. t[i] = s[i] /\ t[j] = s[j]
        BY <3>1 DEF IsDraftRecord
      <3>3. QED
        BY <1>1, <3>1, <3>2
    <2>3. QED
      BY <2>1, <2>2
  <1>8. QED
    BY <1>3, <1>4, <1>5, <1>6, <1>7 DEF EntriesOK

LEMMA AppendedEntry ==
  ASSUME NEW s, NEW ds, EntriesOK(s, ds), NEW x, NEW more, ds \subseteq more,
         IsMessage(x) \/ (IsDraftRecord(x) /\ x.turn \in more),
         \A i \in DOMAIN s : s[i] # x /\ ~SameDraft(s[i], x)
  PROVE  /\ EntriesOK(Append(s, x), more)
         /\ \A i \in DOMAIN Append(s, x) :
              Append(s, x)[i] = x \/ \E j \in DOMAIN s : Append(s, x)[i] = s[j]
  <1>1. /\ IsSequence(s) /\ Len(s) \in Nat /\ DOMAIN s = 1 .. Len(s)
        /\ \A i \in DOMAIN s : IsMessage(s[i]) \/ (IsDraftRecord(s[i]) /\ s[i].turn \in ds)
        /\ \A i, j \in DOMAIN s : s[i] = s[j] \/ SameDraft(s[i], s[j]) => i = j
    BY EntryFacts
  <1>2. PICK t : t = Append(s, x)
    OBVIOUS
  <1>3. /\ IsSequence(t) /\ Len(t) = Len(s) + 1
        /\ \A i \in 1 .. Len(s) : t[i] = s[i]
        /\ t[Len(s) + 1] = x
    BY <1>1, <1>2, AppendIsSequence
  <1>4. DOMAIN t = 1 .. Len(s) + 1
    BY <1>3, SequenceFacts
  <1>5. \A i \in DOMAIN t : (i \in DOMAIN s /\ t[i] = s[i]) \/ (i = Len(s) + 1 /\ t[i] = x)
    BY <1>1, <1>3, <1>4
  <1>6. \A i \in DOMAIN t : IsMessage(t[i]) \/ (IsDraftRecord(t[i]) /\ t[i].turn \in more)
    BY <1>1, <1>5
  <1>7. \A i \in DOMAIN s : ~SameDraft(x, s[i])
    BY DEF SameDraft
  <1>8. ASSUME NEW i \in DOMAIN t, NEW j \in DOMAIN t, t[i] = t[j] \/ SameDraft(t[i], t[j])
        PROVE  i = j
    BY <1>1, <1>5, <1>7, <1>8
  <1>9. EntriesOK(t, more)
    BY <1>3, <1>6, <1>8 DEF EntriesOK
  <1>10. \A i \in DOMAIN t : t[i] = x \/ \E j \in DOMAIN s : t[i] = s[j]
    BY <1>5
  <1>11. QED
    BY <1>2, <1>9, <1>10

LEMMA RemovedEntry ==
  ASSUME NEW s, NEW ds, EntriesOK(s, ds), NEW n, NEW r,
         r = WithoutDraft(s, n)
  PROVE  /\ EntriesOK(r, ds \ {n})
         /\ \A i \in DOMAIN r : \E j \in DOMAIN s : r[i] = s[j]
  <1>1. /\ IsSequence(s) /\ Len(s) \in Nat /\ DOMAIN s = 1 .. Len(s)
        /\ \A i \in DOMAIN s : IsMessage(s[i]) \/ (IsDraftRecord(s[i]) /\ s[i].turn \in ds)
        /\ \A i, j \in DOMAIN s : s[i] = s[j] \/ SameDraft(s[i], s[j]) => i = j
    BY EntryFacts
  <1>2. CASE r = s /\ \A i \in DOMAIN s : ~IsDraft(s[i], n)
    <2>1. \A i \in DOMAIN s : IsMessage(s[i]) \/ (IsDraftRecord(s[i]) /\ s[i].turn \in ds \ {n})
      BY <1>1, <1>2 DEF IsDraft, IsDraftRecord
    <2>2. QED
      BY <1>1, <1>2, <2>1 DEF EntriesOK
  <1>3. ASSUME IsSequence(r), Len(r) = Len(s) - 1, NEW k \in 1 .. Len(s), IsDraft(s[k], n),
               \A i \in 1 .. Len(s) - 1 : r[i] = IF i < k THEN s[i] ELSE s[i + 1]
        PROVE  /\ EntriesOK(r, ds \ {n})
               /\ \A i \in DOMAIN r : \E j \in DOMAIN s : r[i] = s[j]
    <2>1. DOMAIN r = 1 .. Len(s) - 1
      BY <1>3, SequenceFacts
    <2> DEFINE at(i) == IF i < k THEN i ELSE i + 1
    <2>2. ASSUME NEW i \in DOMAIN r
          PROVE  at(i) \in DOMAIN s /\ at(i) # k /\ r[i] = s[at(i)]
      <3>1. i \in 1 .. Len(s) - 1 /\ r[i] = IF i < k THEN s[i] ELSE s[i + 1]
        BY <1>3, <2>1
      <3>2. CASE i < k
        <4>1. at(i) = i /\ r[i] = s[i]
          BY <3>1, <3>2
        <4>2. i \in 1 .. Len(s) /\ i # k
          BY <1>1, <3>1, <3>2
        <4>3. QED
          BY <1>1, <4>1, <4>2
      <3>3. CASE ~(i < k)
        <4>1. at(i) = i + 1 /\ r[i] = s[i + 1]
          BY <3>1, <3>3
        <4>2. i + 1 \in 1 .. Len(s) /\ i + 1 # k
          BY <1>1, <3>1, <3>3
        <4>3. QED
          BY <1>1, <4>1, <4>2
      <3>4. QED
        BY <3>2, <3>3
    <2>3. \A i, j \in DOMAIN r : at(i) = at(j) => i = j
      BY <2>1
    <2> HIDE DEF at
    <2>4. ASSUME NEW i \in DOMAIN s, i # k PROVE ~IsDraft(s[i], n)
      <3>1. ~SameDraft(s[i], s[k])
        BY <1>1, <1>3, <2>4
      <3>2. QED
        BY <1>3, <3>1 DEF SameDraft, IsDraft
    <2>5. ASSUME NEW i \in DOMAIN r
          PROVE  IsMessage(r[i]) \/ (IsDraftRecord(r[i]) /\ r[i].turn \in ds \ {n})
      <3>1. PICK j : j = at(i)
        OBVIOUS
      <3>2. j \in DOMAIN s /\ j # k /\ r[i] = s[j]
        BY <2>2, <3>1
      <3>3. ~IsDraft(s[j], n)
        BY <2>4, <3>2
      <3>4. IsMessage(s[j]) \/ (IsDraftRecord(s[j]) /\ s[j].turn \in ds \ {n})
        BY <1>1, <3>2, <3>3 DEF IsDraft, IsDraftRecord
      <3>5. QED
        BY <3>2, <3>4
    <2>6. ASSUME NEW i \in DOMAIN r, NEW j \in DOMAIN r, r[i] = r[j] \/ SameDraft(r[i], r[j])
          PROVE  i = j
      <3>1. PICK a, b : a = at(i) /\ b = at(j)
        OBVIOUS
      <3>2. a \in DOMAIN s /\ b \in DOMAIN s /\ r[i] = s[a] /\ r[j] = s[b]
        BY <2>2, <3>1
      <3>3. a = b
        BY <1>1, <2>6, <3>2
      <3>4. QED
        BY <2>3, <3>1, <3>3
    <2>7. QED
      BY <1>3, <2>2, <2>5, <2>6 DEF EntriesOK
  <1>4. DraftRemoved(s, n, r)
    BY <1>1, RemoveDraft
  <1>5. QED
    BY <1>2, <1>3, <1>4 DEF DraftRemoved

LEMMA LoadedEntries ==
  ASSUME NEW n \in Nat, NEW ds, NEW t, t = [i \in 1 .. n |-> Message(i)]
  PROVE  EntriesOK(t, ds) /\ \A i \in DOMAIN t : t[i].type = "message"
  <1>1. t = [i \in 1 .. n |-> t[i]] /\ DOMAIN t = 1 .. n /\ \A i \in 1 .. n : t[i] = Message(i)
    OBVIOUS
  <1>2. IsSequence(t)
    BY <1>1, FunctionIsSequence
  <1>3. \A i \in DOMAIN t : t[i].type = "message" /\ t[i].id = i /\ t[i] = Message(t[i].id)
    BY <1>1 DEF Message
  <1>4. \A i, j \in DOMAIN t : t[i] = t[j] \/ SameDraft(t[i], t[j]) => i = j
    BY <1>3 DEF SameDraft
  <1>5. QED
    BY <1>2, <1>3, <1>4 DEF EntriesOK, IsMessage

(* What the page shows as drafts came from before, or the event starts it. *)
OldDrafts ==
  \A i \in DOMAIN shown' : shown'[i].type = "draft" =>
    \E j \in DOMAIN shown : shown[j].type = "draft" /\ shown[j].turn = shown'[i].turn

LEMMA StartStep ==
  ASSUME PageOK, NEW e, e.turn \in 1 .. turn.n, HandleStreamStart(e)
  PROVE  /\ EntriesOK(shown', drafts') /\ drafts' = drafts \cup {e.turn} /\ typing' = TRUE
         /\ \A i \in DOMAIN shown' : shown'[i].type = "draft" =>
              \/ shown'[i].turn = e.turn
              \/ \E j \in DOMAIN shown : shown[j].type = "draft" /\ shown[j].turn = shown'[i].turn
  <1>1. EntriesOK(shown, drafts) /\ drafts' = drafts \cup {e.turn} /\ typing' = TRUE
    BY DEF PageOK, HandleStreamStart
  <1>2. CASE DraftShown(e.turn)
    <2>1. shown' = shown
      BY <1>2 DEF HandleStreamStart
    <2>2. EntriesOK(shown, drafts')
      BY <1>1 DEF EntriesOK
    <2>3. QED
      BY <1>1, <2>1, <2>2
  <1>3. CASE ~DraftShown(e.turn)
    <2>1. PICK x : x = [type |-> "draft", turn |-> e.turn, text |-> <<>>, live |-> TRUE]
      OBVIOUS
    <2>2. shown' = Append(shown, x)
      BY <1>3, <2>1 DEF HandleStreamStart
    <2>3. IsDraftRecord(x) /\ x.turn = e.turn /\ x.turn \in drafts' /\ drafts \subseteq drafts'
      BY <1>1, <2>1 DEF IsDraftRecord
    <2>4. ASSUME NEW i \in DOMAIN shown PROVE shown[i] # x /\ ~SameDraft(shown[i], x)
      <3>1. ~IsDraft(shown[i], e.turn)
        BY <1>3 DEF DraftShown
      <3>2. QED
        BY <2>3, <3>1 DEF IsDraft, SameDraft, IsDraftRecord
    <2>5. /\ EntriesOK(Append(shown, x), drafts')
          /\ \A i \in DOMAIN Append(shown, x) :
               Append(shown, x)[i] = x \/ \E j \in DOMAIN shown : Append(shown, x)[i] = shown[j]
      <3>1. PICK more : more = drafts'
        OBVIOUS
      <3>2. drafts \subseteq more /\ x.turn \in more
        BY <2>3, <3>1
      <3>3. /\ EntriesOK(Append(shown, x), more)
            /\ \A i \in DOMAIN Append(shown, x) :
                 Append(shown, x)[i] = x \/ \E j \in DOMAIN shown : Append(shown, x)[i] = shown[j]
        BY <1>1, <2>3, <2>4, <3>2, AppendedEntry
      <3>4. QED
        BY <3>1, <3>3
    <2>6. QED
      BY <1>1, <2>2, <2>3, <2>5
  <1>4. QED
    BY <1>2, <1>3

LEMMA ChunkStep ==
  ASSUME PageOK, NEW e, HandleStreamChunk(e) \/ HandleStreamEnd(e)
  PROVE  EntriesOK(shown', drafts') /\ drafts' = drafts /\ OldDrafts
  <1>1. EntriesOK(shown, drafts) /\ drafts' = drafts
    BY DEF PageOK, HandleStreamChunk, HandleStreamEnd
  <1>2. \A i \in DOMAIN shown : IsMessage(shown[i]) \/ (IsDraftRecord(shown[i]) /\ shown[i].turn \in drafts)
    BY <1>1, EntryFacts
  <1>3. CASE shown' = shown
    BY <1>1, <1>3 DEF OldDrafts
  <1>4. CASE shown' # shown
    <2>1. \/ shown' = [i \in DOMAIN shown |->
                        IF IsDraft(shown[i], e.turn)
                        THEN [shown[i] EXCEPT !.text = @ \o Displayed(e.text)] ELSE shown[i]]
          \/ shown' = [i \in DOMAIN shown |->
                        IF IsDraft(shown[i], e.turn) THEN [shown[i] EXCEPT !.live = FALSE] ELSE shown[i]]
      BY <1>4 DEF HandleStreamChunk, HandleStreamEnd
    <2>2. PICK t : t = shown'
      OBVIOUS
    <2>3. t = [i \in DOMAIN shown |-> t[i]]
      BY <2>1, <2>2
    <2>4. ASSUME NEW i \in DOMAIN shown
          PROVE  \/ t[i] = shown[i]
                 \/ /\ IsDraftRecord(shown[i]) /\ IsDraftRecord(t[i])
                    /\ t[i].turn = shown[i].turn
      <3>1. CASE ~IsDraft(shown[i], e.turn)
        BY <2>1, <2>2, <3>1
      <3>2. CASE IsDraft(shown[i], e.turn)
        <4>1. PICK x : x = shown[i]
          OBVIOUS
        <4>2. x = [type |-> "draft", turn |-> x.turn, text |-> x.text, live |-> x.live]
          BY <1>2, <3>2, <4>1 DEF IsDraft, IsDraftRecord, IsMessage
        <4>3. (\E text : t[i] = [x EXCEPT !.text = text]) \/ t[i] = [x EXCEPT !.live = FALSE]
          BY <2>1, <2>2, <3>2, <4>1
        <4>4. IsDraftRecord(t[i]) /\ t[i].turn = x.turn /\ IsDraftRecord(x)
          <5>1. PICK n, text, live : x = [type |-> "draft", turn |-> n, text |-> text, live |-> live]
            BY <4>2
          <5>2. PICK text2, live2 :
                  t[i] = [type |-> "draft", turn |-> n, text |-> text2, live |-> live2]
            <6>1. ASSUME NEW text2, t[i] = [x EXCEPT !.text = text2]
                  PROVE  t[i] = [type |-> "draft", turn |-> n, text |-> text2, live |-> live]
              BY <5>1, <6>1
            <6>2. CASE t[i] = [x EXCEPT !.live = FALSE]
              BY <5>1, <6>2
            <6>3. QED
              BY <4>3, <6>1, <6>2
          <5>3. QED
            BY <5>1, <5>2 DEF IsDraftRecord
        <4>5. QED
          BY <4>1, <4>4
      <3>3. QED
        BY <3>1, <3>2
    <2>5. /\ EntriesOK(t, drafts) /\ DOMAIN t = DOMAIN shown
          /\ \A i \in DOMAIN shown :
               t[i].type = shown[i].type /\ (t[i].type = "draft" => t[i].turn = shown[i].turn)
      BY <1>1, <2>3, <2>4, MappedEntries
    <2>6. QED
      BY <1>1, <2>2, <2>5 DEF OldDrafts
  <1>5. QED
    BY <1>3, <1>4

LEMMA MessageStep ==
  ASSUME PageOK, NEW e, HandleMessage(e)
  PROVE  /\ EntriesOK(shown', drafts') /\ drafts' = drafts \ {e.turn} /\ typing' = typing
         /\ OldDrafts
  <1>1. EntriesOK(shown, drafts) /\ drafts' = drafts \ {e.turn} /\ typing' = typing
    BY DEF PageOK, HandleMessage
  <1>2. PICK kept :
          /\ kept = IF e.turn \in drafts
                    THEN WithoutDraft(shown, e.turn) ELSE shown
          /\ shown' = IF Message(e.id) \in ToSet(kept) THEN kept ELSE Append(kept, Message(e.id))
    BY DEF HandleMessage
  <1>3. EntriesOK(kept, drafts \ {e.turn}) /\ \A i \in DOMAIN kept : \E j \in DOMAIN shown : kept[i] = shown[j]
    <2>1. CASE e.turn \in drafts
      <3>1. kept = WithoutDraft(shown, e.turn)
        BY <1>2, <2>1
      <3>2. PICK n : n = e.turn
        OBVIOUS
      <3>3. kept = WithoutDraft(shown, n)
        BY <3>1, <3>2
      <3>4. PICK s, ds : s = shown /\ ds = drafts
        OBVIOUS
      <3>5. EntriesOK(s, ds) /\ kept = WithoutDraft(s, n)
        BY <1>1, <3>3, <3>4
      <3>6. EntriesOK(kept, ds \ {n}) /\ \A i \in DOMAIN kept : \E j \in DOMAIN s : kept[i] = s[j]
        BY <3>5, RemovedEntry
      <3>7. QED
        BY <3>2, <3>4, <3>6
    <2>2. CASE e.turn \notin drafts
      <3>1. kept = shown /\ drafts \ {e.turn} = drafts
        BY <1>2, <2>2
      <3>2. QED
        BY <1>1, <3>1
    <2>3. QED
      BY <2>1, <2>2
  <1>4. CASE Message(e.id) \in ToSet(kept)
    <2>1. shown' = kept
      BY <1>2, <1>4
    <2>2. EntriesOK(shown', drafts')
      BY <1>1, <1>3, <2>1
    <2>3. OldDrafts
      <3>1. \A i \in DOMAIN shown' : \E j \in DOMAIN shown : shown'[i] = shown[j]
        BY <1>3, <2>1
      <3>2. QED
        BY <3>1 DEF OldDrafts
    <2>4. QED
      BY <1>1, <2>2, <2>3
  <1>5. CASE Message(e.id) \notin ToSet(kept)
    <2>1. PICK x, ds : x = Message(e.id) /\ ds = drafts \ {e.turn}
      OBVIOUS
    <2>2. IsMessage(x) /\ x.type = "message"
      BY <2>1 DEF IsMessage, Message
    <2>3. \A i \in DOMAIN kept : kept[i] # x /\ ~SameDraft(kept[i], x)
      BY <1>5, <2>1, <2>2 DEF ToSet, SameDraft
    <2>4. /\ EntriesOK(Append(kept, x), ds)
          /\ \A i \in DOMAIN Append(kept, x) :
               Append(kept, x)[i] = x \/ \E j \in DOMAIN kept : Append(kept, x)[i] = kept[j]
      BY <1>3, <2>1, <2>2, <2>3, AppendedEntry
    <2>5. shown' = Append(kept, x)
      BY <1>2, <1>5, <2>1
    <2>6. QED
      BY <1>1, <1>3, <2>1, <2>2, <2>4, <2>5 DEF OldDrafts
  <1>6. QED
    BY <1>4, <1>5

(* What receiving does to the page.                                        *)
LEMMA ReceivePage ==
  ASSUME LinkOK, PageOK, Receive, NEW e, e = Head(wire)
  PROVE  /\ EntriesOK(shown', drafts') /\ drafts' \subseteq drafts \cup {e.turn}
         /\ typing' \in BOOLEAN /\ UNCHANGED <<view, loads>>
         /\ ~view => drafts' = {} /\ ~typing'
         /\ view /\ e.type = "typing" => typing' = e.on
         /\ \A i \in DOMAIN shown' : shown'[i].type = "draft" =>
              \/ e.type = "stream_start" /\ shown'[i].turn = e.turn
              \/ /\ \E j \in DOMAIN shown : shown[j].type = "draft" /\ shown[j].turn = shown'[i].turn
                 /\ e.type = "message" => shown'[i].turn # e.turn
  <1>1. /\ IsSequence(wire)
        /\ EntriesOK(shown, drafts) /\ drafts \subseteq 1 .. turn.n
        /\ view \in BOOLEAN /\ typing \in BOOLEAN
        /\ ~view => drafts = {} /\ ~typing
    BY DEF LinkOK, PageOK
  <1>2. /\ wire # <<>> /\ UNCHANGED <<view, loads>>
        /\ IF e.type = "error" THEN typing' = FALSE /\ UNCHANGED <<shown, drafts>>
           ELSE IF ~view THEN UNCHANGED <<typing, shown, drafts>>
           ELSE CASE e.type = "typing" -> typing' = e.on /\ UNCHANGED <<shown, drafts>>
                  [] e.type = "stream_start" -> HandleStreamStart(e)
                  [] e.type = "stream_chunk" -> HandleStreamChunk(e)
                  [] e.type = "stream_end" -> HandleStreamEnd(e)
                  [] e.type = "message" -> HandleMessage(e)
    BY DEF Receive
  <1>3. e.turn \in 1 .. turn.n /\ EventOK(e)
    <2>1. e = wire[1] /\ 1 \in DOMAIN wire
      BY <1>1, <1>2, TailIsSequence, SequenceFacts
    <2>2. QED
      BY <2>1 DEF LinkOK
  <1>4. \A i \in DOMAIN shown : shown[i].type = "draft" => shown[i].turn \in drafts
    BY <1>1 DEF EntriesOK, IsMessage
  <1>5. CASE ~view
    <2>1. UNCHANGED <<shown, drafts>> /\ (typing' = FALSE \/ typing' = typing)
      BY <1>2, <1>5
    <2>2. \A i \in DOMAIN shown' : shown'[i].type # "draft"
      BY <1>1, <1>4, <1>5, <2>1
    <2>3. typing = FALSE /\ typing' = FALSE /\ drafts = {}
      BY <1>1, <1>5, <2>1
    <2>4. QED
      BY <1>1, <1>2, <1>5, <2>1, <2>2, <2>3
  <1>6. CASE e.type = "error"
    <2>1. typing' = FALSE /\ UNCHANGED <<shown, drafts>>
      BY <1>2, <1>6
    <2>2. QED
      BY <1>1, <1>2, <1>6, <2>1
  <1>7. CASE view /\ e.type = "typing"
    <2>1. typing' = e.on /\ UNCHANGED <<shown, drafts>>
      BY <1>2, <1>7
    <2>2. e.on \in BOOLEAN
      BY <1>3, <1>7 DEF EventOK
    <2>3. QED
      BY <1>1, <1>2, <1>7, <2>1, <2>2
  <1>8. CASE view /\ e.type = "stream_start"
    <2>1. HandleStreamStart(e)
      BY <1>2, <1>8
    <2>2. /\ EntriesOK(shown', drafts') /\ drafts' = drafts \cup {e.turn} /\ typing' = TRUE
          /\ \A i \in DOMAIN shown' : shown'[i].type = "draft" =>
               \/ shown'[i].turn = e.turn
               \/ \E j \in DOMAIN shown : shown[j].type = "draft" /\ shown[j].turn = shown'[i].turn
      BY <1>3, <2>1, StartStep
    <2>3. QED
      BY <1>2, <1>8, <2>2
  <1>9. CASE view /\ e.type \in {"stream_chunk", "stream_end"}
    <2>1. HandleStreamChunk(e) \/ HandleStreamEnd(e)
      BY <1>2, <1>9
    <2>2. EntriesOK(shown', drafts') /\ drafts' = drafts /\ OldDrafts
      BY <2>1, ChunkStep
    <2>3. typing' = typing \/ typing' = FALSE
      BY <2>1 DEF HandleStreamChunk, HandleStreamEnd
    <2>4. QED
      BY <1>1, <1>2, <1>9, <2>2, <2>3 DEF OldDrafts
  <1>10. CASE view /\ e.type = "message"
    <2>1. HandleMessage(e)
      BY <1>2, <1>10
    <2>2. /\ EntriesOK(shown', drafts') /\ drafts' = drafts \ {e.turn} /\ typing' = typing
          /\ OldDrafts
      BY <2>1, MessageStep
    <2>3. \A i \in DOMAIN shown' : shown'[i].type = "draft" => shown'[i].turn \in drafts'
      BY <2>2 DEF EntriesOK, IsMessage
    <2>4. QED
      BY <1>1, <1>2, <1>10, <2>2, <2>3 DEF OldDrafts
  <1>11. QED
    BY <1>1, <1>3, <1>5, <1>6, <1>7, <1>8, <1>9, <1>10 DEF EventOK, EventTypes

(* The steps that leave the page alone.                                    *)
PageQuiet == UNCHANGED <<view, shown, drafts, typing, loads>>

LEMMA PageQuietSteps ==
  ASSUME Provider \/ Runtime \/ Begin \/ Serving \/ Deadline \/ Reconnect \/ UNCHANGED vars
  PROVE  PageQuiet
  <1>1. Provider => PageQuiet
    BY QuietSteps DEF Provider, Asking, Quiet, PageQuiet, Answer, page
  <1>2. Runtime \/ Deadline \/ UNCHANGED vars => PageQuiet
    BY QuietSteps DEF Quiet, PageQuiet
  <1>3. Begin \/ Serving => PageQuiet
    BY DEF Begin, Serving, Fail, ReadDelta, ReadFinal, StoreSegment, EndTurn, PageQuiet, page
  <1>4. Reconnect => PageQuiet
    BY DEF Reconnect, PageQuiet, page
  <1>5. QED
    BY <1>1, <1>2, <1>3, <1>4

LEMMA TurnGrows ==
  ASSUME TurnOK, [Next]_vars
  PROVE  turn.n \in Nat /\ turn'.n \in Nat /\ 1 .. turn.n \subseteq 1 .. turn'.n
  <1>1. turn.n \in Nat
    BY StreamAssumption DEF TurnOK
  <1>2. turn'.n = turn.n \/ turn'.n = turn.n + 1
    <2>1. CASE Begin \/ Serving
      BY <2>1, TurnSpeaks
    <2>2. Provider \/ Runtime \/ Deadline \/ UNCHANGED vars => LinkQuiet
      BY LinkQuietSteps DEF Provider, Asking
    <2>3. Client => LinkQuiet \/ Receive
      BY LinkQuietSteps DEF Client
    <2>4. Receive \/ Disconnect \/ Reconnect => turn' = turn
      BY DEF Receive, Disconnect, Reconnect, reply
    <2>5. QED
      BY <2>1, <2>2, <2>3, <2>4 DEF Next, LinkQuiet
  <1>3. QED
    BY <1>1, <1>2

LEMMA PageStep ==
  ASSUME TurnOK, LinkOK, PageOK, [Next]_vars
  PROVE  PageOK'
  <1>1. /\ EntriesOK(shown, drafts) /\ drafts \subseteq 1 .. turn.n
        /\ view \in BOOLEAN /\ typing \in BOOLEAN
        /\ ~view => drafts = {} /\ ~typing
        /\ \A l \in loads : IsLoad(l)
    BY DEF PageOK
  <1>2. turn.n \in Nat /\ turn'.n \in Nat /\ 1 .. turn.n \subseteq 1 .. turn'.n
    BY TurnGrows
  <1>3. SUFFICES /\ EntriesOK(shown', drafts') /\ drafts' \subseteq 1 .. turn'.n
                 /\ view' \in BOOLEAN /\ typing' \in BOOLEAN
                 /\ ~view' => drafts' = {} /\ ~typing'
                 /\ \A l \in loads' : IsLoad(l)
    BY DEF PageOK, EntriesOK, IsMessage, IsDraftRecord, SameDraft, IsLoad, IsSequence, Message
  <1>4. CASE PageQuiet
    BY <1>1, <1>2, <1>4 DEF PageQuiet
  <1>5. CASE Receive
    <2>1. PICK e : e = Head(wire)
      OBVIOUS
    <2>2. /\ EntriesOK(shown', drafts') /\ drafts' \subseteq drafts \cup {e.turn}
          /\ typing' \in BOOLEAN /\ UNCHANGED <<view, loads>>
          /\ ~view => drafts' = {} /\ ~typing'
      BY <1>5, <2>1, ReceivePage
    <2>3. e.turn \in 1 .. turn.n
      <3>1. e = wire[1] /\ 1 \in DOMAIN wire
        BY <1>5, <2>1, ReceiveTakes DEF LinkOK
      <3>2. QED
        BY <3>1 DEF LinkOK
    <2>4. QED
      BY <1>1, <1>2, <2>2, <2>3
  <1>6. CASE Open
    <2>1. PICK l : /\ l = [nr |-> opened, read |-> FALSE, upto |-> 0] /\ loads' = loads \cup {l}
                   /\ view' = TRUE /\ UNCHANGED <<shown, drafts, typing>>
      BY <1>6 DEF Open
    <2>2. IsLoad(l)
      BY <2>1 DEF IsLoad
    <2>3. QED
      BY <1>1, <1>2, <2>1, <2>2
  <1>7. ASSUME NEW l \in loads, Serve(l)
        PROVE  /\ EntriesOK(shown', drafts') /\ drafts' \subseteq 1 .. turn'.n
               /\ view' \in BOOLEAN /\ typing' \in BOOLEAN
               /\ ~view' => drafts' = {} /\ ~typing'
               /\ \A l2 \in loads' : IsLoad(l2)
    <2>1. PICK n, x : /\ n = Len(stored) /\ x = [l EXCEPT !.read = TRUE, !.upto = n]
                      /\ loads' = (loads \ {l}) \cup {x}
                      /\ UNCHANGED <<view, shown, drafts, typing>>
      BY <1>7 DEF Serve
    <2>2. n \in Nat
      BY <2>1, SequenceFacts DEF TurnOK
    <2>3. l = [nr |-> l.nr, read |-> l.read, upto |-> l.upto]
      BY <1>1, <1>7 DEF IsLoad
    <2>4. x = [nr |-> l.nr, read |-> TRUE, upto |-> n]
      BY <2>1, <2>3
    <2>5. IsLoad(x)
      BY <2>2, <2>4 DEF IsLoad
    <2>6. QED
      BY <1>1, <1>2, <2>1, <2>5
  <1>8. ASSUME NEW l \in loads, Loaded(l)
        PROVE  /\ EntriesOK(shown', drafts') /\ drafts' \subseteq 1 .. turn'.n
               /\ view' \in BOOLEAN /\ typing' \in BOOLEAN
               /\ ~view' => drafts' = {} /\ ~typing'
               /\ \A l2 \in loads' : IsLoad(l2)
    <2>1. /\ shown' = [i \in 1 .. l.upto |-> Message(i)] /\ loads' = loads \ {l}
          /\ UNCHANGED <<view, drafts, typing>>
      BY <1>8 DEF Loaded
    <2>2. PICK n, t, ds : n = l.upto /\ t = shown' /\ ds = drafts
      OBVIOUS
    <2>3. n \in Nat /\ t = [i \in 1 .. n |-> Message(i)]
      BY <1>1, <1>8, <2>1, <2>2 DEF IsLoad
    <2>4. EntriesOK(t, ds)
      BY <2>3, LoadedEntries
    <2>5. QED
      BY <1>1, <1>2, <2>1, <2>2, <2>4
  <1>9. CASE Leave
    <2>1. shown' = <<>> /\ drafts' = {} /\ typing' = FALSE /\ view' = FALSE /\ UNCHANGED loads
      BY <1>9 DEF Leave
    <2>2. IsSequence(<<>>) /\ DOMAIN <<>> = {}
      BY EmptyIsSequence, SequenceFacts
    <2>3. EntriesOK(<<>>, {})
      BY <2>2 DEF EntriesOK
    <2>4. QED
      BY <1>1, <1>2, <2>1, <2>3
  <1>10. CASE Disconnect
    <2>1. typing' = FALSE /\ UNCHANGED <<view, shown, drafts, loads>>
      BY <1>10 DEF Disconnect
    <2>2. QED
      BY <1>1, <1>2, <2>1
  <1>11. QED
    BY <1>4, <1>5, <1>6, <1>7, <1>8, <1>9, <1>10, PageQuietSteps DEF Next, Client

-----------------------------------------------------------------------------
(* The typing indicator and the drafts.                                    *)

LEMMA LastReceived ==
  ASSUME IsSequence(wire), Receive
  PROVE  /\ wire' = <<>> => Len(wire) = 1
         /\ wire' # <<>> => wire'[Len(wire')] = wire[Len(wire)]
  <1>1. /\ IsSequence(wire') /\ Len(wire) \in Nat /\ Len(wire) >= 1 /\ Len(wire') = Len(wire) - 1
        /\ \A i \in 1 .. Len(wire) - 1 : wire'[i] = wire[i + 1]
    BY ReceiveTakes
  <1>2. wire' = <<>> <=> Len(wire') = 0
    BY <1>1, SequenceFacts
  <1>3. ASSUME wire' # <<>> PROVE wire'[Len(wire')] = wire[Len(wire)]
    <2>1. PICK k : k = Len(wire) - 1
      OBVIOUS
    <2>2. k \in 1 .. Len(wire) - 1 /\ k + 1 = Len(wire) /\ Len(wire') = k
      BY <1>1, <1>2, <1>3, <2>1
    <2>3. wire'[k] = wire[k + 1]
      BY <1>1, <2>2
    <2>4. QED
      BY <2>2, <2>3
  <1>4. QED
    BY <1>1, <1>2, <1>3

LEMMA TypingStep ==
  ASSUME TurnOK, LinkOK, PageOK, TypingOK, [Next]_vars
  PROVE  TypingOK'
  <1>1. IsSequence(wire) /\ (~up => wire = <<>>) /\ up \in BOOLEAN
    BY DEF LinkOK
  <1>2. TurnRecord
    BY DEF TurnOK
  <1>3. CASE UNCHANGED <<typing, up, wire, turn>>
    BY <1>3 DEF TypingOK
  <1>4. CASE Answer
    <2>1. turn'.state = "reading" /\ UNCHANGED <<typing, up>>
      BY <1>2, <1>4 DEF Answer, TurnRecord, link, page
    <2>2. QED
      BY <2>1 DEF TypingOK
  <1>5. CASE Begin \/ ReadDelta \/ ReadFinal \/ StoreSegment
    <2>1. turn'.state # "idle"
      BY <1>5, BeginSpeaks, ReadSpeaks, StoreSpeaks
    <2>2. up' = up
      <3>1. PICK events : Spoken(events)
        BY <1>5, TurnSpeaks DEF Serving
      <3>2. QED
        BY <1>1, <3>1, PublishStep DEF Spoken
    <2>3. typing' = typing
      BY <1>5, PageQuietSteps DEF PageQuiet, Serving
    <2>4. QED
      BY <2>1, <2>2, <2>3 DEF TypingOK
  <1>6. CASE Fail \/ EndTurn
    <2>1. PICK events : /\ Spoken(events) /\ Len(events) \in {1, 2}
                        /\ events[Len(events)].type = "typing" /\ events[Len(events)].on = FALSE
      <3>1. CASE Fail
        BY <3>1, FailSpeaks
      <3>2. CASE EndTurn
        BY <3>2, EndSpeaks
      <3>3. QED
        BY <1>6, <3>1, <3>2
    <2>2. /\ IsSequence(events) /\ Publish(events)
      BY <2>1 DEF Spoken
    <2>3. typing' = typing
      BY <1>6, PageQuietSteps DEF PageQuiet, Serving
    <2>4. /\ up' = up /\ IsSequence(wire') /\ Len(wire) \in Nat
          /\ ~up => wire' = wire
          /\ up => /\ Len(wire') = Len(wire) + Len(events)
                   /\ \A j \in 1 .. Len(events) : wire'[Len(wire) + j] = events[j]
      BY <1>1, <2>2, PublishStep
    <2>5. CASE ~up
      <3>1. wire' = <<>> /\ ~typing
        BY <1>1, <2>4, <2>5 DEF TypingOK
      <3>2. QED
        BY <2>3, <2>4, <3>1 DEF TypingOK
    <2>6. CASE up
      <3>1. Len(wire') # 0 /\ Len(wire') = Len(wire) + Len(events) /\ Len(events) \in 1 .. Len(events)
        BY <2>1, <2>4, <2>6
      <3>2. wire' # <<>>
        BY <2>4, <3>1, SequenceFacts
      <3>3. wire'[Len(wire')] = events[Len(events)]
        BY <2>4, <2>6, <3>1
      <3>4. QED
        BY <2>1, <2>3, <2>4, <2>6, <3>2, <3>3 DEF TypingOK
    <2>7. QED
      BY <1>1, <2>5, <2>6
  <1>7. CASE Receive
    <2>1. PICK e : e = Head(wire)
      OBVIOUS
    <2>2. /\ Len(wire) \in Nat /\ Len(wire) >= 1 /\ e = wire[1]
          /\ UNCHANGED <<turn, up>> /\ wire # <<>>
      <3>1. wire # <<>>
        BY <1>7 DEF Receive
      <3>2. QED
        BY <1>1, <1>7, <2>1, <3>1, ReceiveTakes
    <2>3. up
      BY <1>1, <2>2
    <2>4. /\ ~view => ~typing'
          /\ view /\ e.type = "typing" => typing' = e.on
      BY <1>7, <2>1, ReceivePage
    <2>5. ASSUME turn'.state = "idle"
          PROVE  IF wire' = <<>> THEN ~typing'
                 ELSE wire'[Len(wire')].type = "typing" /\ wire'[Len(wire')].on = FALSE
      <3>1. wire[Len(wire)].type = "typing" /\ wire[Len(wire)].on = FALSE
        BY <2>2, <2>5 DEF TypingOK
      <3>2. CASE wire' = <<>>
        <4>1. e.type = "typing" /\ e.on = FALSE
          BY <1>1, <1>7, <2>2, <3>1, <3>2, LastReceived
        <4>2. QED
          BY <2>4, <3>2, <4>1
      <3>3. CASE wire' # <<>>
        BY <1>1, <1>7, <3>1, <3>3, LastReceived
      <3>4. QED
        BY <3>2, <3>3
    <2>6. QED
      BY <2>2, <2>3, <2>5 DEF TypingOK
  <1>8. CASE Leave
    <2>1. typing' = FALSE /\ UNCHANGED <<turn, up, wire>>
      BY <1>8 DEF Leave, reply, link
    <2>2. QED
      BY <2>1 DEF TypingOK
  <1>9. CASE Disconnect
    <2>1. typing' = FALSE /\ wire' = <<>>
      BY <1>9 DEF Disconnect
    <2>2. QED
      BY <2>1 DEF TypingOK
  <1>10. CASE Reconnect
    <2>1. up' = TRUE /\ UNCHANGED <<typing, wire, turn>>
      BY <1>10 DEF Reconnect, reply, page
    <2>2. QED
      BY <2>1 DEF TypingOK
  <1>11. QED
    <2>1. Open \/ (\E l \in loads : Serve(l) \/ Loaded(l)) => UNCHANGED <<typing, up, wire, turn>>
      BY DEF Open, Serve, Loaded, reply, link
    <2>2. Refuse \/ TooMany \/ Retry \/ Emit \/ Runtime \/ Deadline \/ UNCHANGED vars
            => UNCHANGED <<typing, up, wire, turn>>
      BY QuietSteps DEF Quiet
    <2>3. (\E broken \in BOOLEAN : Hangup(broken)) => UNCHANGED <<typing, up, wire, turn>>
      BY QuietSteps DEF Quiet
    <2>4. Provider \/ Runtime \/ Deadline \/ UNCHANGED vars
            => Answer \/ UNCHANGED <<typing, up, wire, turn>>
      BY <2>2, <2>3 DEF Provider, Asking
    <2>5. Client => Receive \/ Leave \/ UNCHANGED <<typing, up, wire, turn>>
      BY <2>1 DEF Client
    <2>6. QED
      BY <1>3, <1>4, <1>5, <1>6, <1>7, <1>8, <1>9, <1>10, <2>4, <2>5 DEF Next, Serving

LEMMA DraftsStep ==
  ASSUME TurnOK, LinkOK, PageOK, DraftsOK, [Next]_vars
  PROVE  DraftsOK'
  <1>1. IsSequence(wire) /\ DOMAIN wire = 1 .. Len(wire) /\ Len(wire) \in Nat
    BY SequenceFacts DEF LinkOK
  <1>2. SUFFICES ASSUME NEW i \in DOMAIN shown', shown'[i].type = "draft",
                        NEW n, n = shown'[i].turn
                 PROVE  n \in failed' \/ Followed(0, n)'
    BY DEF DraftsOK, DraftExpected, Followed, Stores, MessageAfter
  <1>3. ASSUME NEW j \in DOMAIN shown, shown[j].type = "draft", shown[j].turn = n
        PROVE  n \in failed \/ Followed(0, n)
    BY <1>3 DEF DraftsOK, DraftExpected
  <1>4. CASE UNCHANGED <<shown, failed, lost, stored, wire>>
    <2>1. Followed(0, n)' <=> Followed(0, n)
      BY <1>4 DEF Followed, Stores, MessageAfter
    <2>2. i \in DOMAIN shown /\ shown[i].type = "draft" /\ shown[i].turn = n
      BY <1>2, <1>4
    <2>3. QED
      BY <1>3, <1>4, <2>1, <2>2
  <1>5. CASE Begin \/ Serving
    <2>1. shown' = shown
      BY <1>5, PageQuietSteps DEF PageQuiet
    <2>2. failed \subseteq failed'
      BY <1>5 DEF Begin, Serving, Fail, ReadDelta, ReadFinal, StoreSegment, EndTurn
    <2>3. i \in DOMAIN shown /\ shown[i].type = "draft" /\ shown[i].turn = n
      BY <1>2, <2>1
    <2>4. n \in failed \/ Followed(0, n)
      BY <1>3, <2>3
    <2>5. CASE Followed(0, n)
      <3>1. 0 \in 0 .. Len(wire)
        BY <1>1
      <3>2. QED
        BY <1>5, <2>5, <3>1, SpokenKeepsFollowed
    <2>6. QED
      BY <2>2, <2>4, <2>5
  <1>6. CASE Receive
    <2>1. PICK e : e = Head(wire)
      OBVIOUS
    <2>2. /\ e = wire[1] /\ 1 \in DOMAIN wire /\ 1 \in 1 .. Len(wire) /\ failed' = failed
      BY <1>1, <1>6, <2>1, ReceiveTakes
    <2>3. \/ e.type = "stream_start" /\ n = e.turn
          \/ /\ \E j \in DOMAIN shown : shown[j].type = "draft" /\ shown[j].turn = n
             /\ e.type = "message" => n # e.turn
      BY <1>2, <1>6, <2>1, ReceivePage
    <2>4. ASSUME Followed(1, n) PROVE Followed(0, n)'
      <3>1. PICK k : k = 1
        OBVIOUS
      <3>2. Followed(k, n) /\ k \in 1 .. Len(wire)
        BY <2>2, <2>4, <3>1
      <3>3. Followed(k - 1, n)'
        BY <1>1, <1>6, <3>2, ReceiveKeepsFollowed
      <3>4. k - 1 = 0
        BY <3>1
      <3>5. QED
        BY <3>3, <3>4 DEF Followed, Stores, MessageAfter
    <2>5. CASE e.type = "stream_start" /\ n = e.turn
      <3>1. StartFollowed(1)
        BY <2>2 DEF LinkOK
      <3>2. Followed(1, n)
        BY <2>2, <2>5, <3>1 DEF StartFollowed
      <3>3. QED
        BY <2>4, <3>2
    <2>6. CASE /\ \E j \in DOMAIN shown : shown[j].type = "draft" /\ shown[j].turn = n
               /\ e.type = "message" => n # e.turn
      <3>1. n \in failed \/ Followed(0, n)
        BY <1>3, <2>6
      <3>2. ASSUME MessageAfter(0, n) PROVE MessageAfter(1, n)
        <4>1. PICK j \in DOMAIN wire : wire[j].type = "message" /\ wire[j].turn = n
          BY <3>2 DEF MessageAfter
        <4>2. j # 1
          BY <2>2, <2>6, <4>1
        <4>3. 1 < j
          BY <1>1, <4>1, <4>2
        <4>4. QED
          BY <4>1, <4>3 DEF MessageAfter
      <3>3. Followed(0, n) => Followed(1, n)
        BY <3>2 DEF Followed
      <3>4. QED
        BY <2>2, <2>4, <3>1, <3>3
    <2>7. QED
      BY <2>3, <2>5, <2>6
  <1>7. CASE Disconnect
    <2>1. /\ UNCHANGED <<shown, stored, failed>>
          /\ lost' = lost \cup {wire[k].turn : k \in DOMAIN wire}
      BY <1>7 DEF Disconnect, reply
    <2>2. Stores(n)' <=> Stores(n)
      BY <2>1 DEF Stores
    <2>3. MessageAfter(0, n) => n \in lost'
      BY <2>1 DEF MessageAfter
    <2>4. i \in DOMAIN shown /\ shown[i].type = "draft" /\ shown[i].turn = n
      BY <1>2, <2>1
    <2>5. n \in failed \/ Followed(0, n)
      BY <1>3, <2>4
    <2>6. QED
      BY <2>1, <2>2, <2>3, <2>5 DEF Followed
  <1>8. ASSUME NEW l \in loads, Loaded(l) PROVE FALSE
    <2>1. shown' = [k \in 1 .. l.upto |-> Message(k)]
      BY <1>8 DEF Loaded
    <2>2. PICK m, t, ds : m = l.upto /\ t = shown' /\ ds = drafts
      OBVIOUS
    <2>3. m \in Nat
      BY <1>8, <2>2 DEF PageOK, IsLoad
    <2>4. t = [k \in 1 .. m |-> Message(k)]
      BY <2>1, <2>2
    <2>5. \A k \in DOMAIN t : t[k].type = "message"
      BY <2>3, <2>4, LoadedEntries
    <2>6. QED
      BY <1>2, <2>2, <2>5
  <1>9. CASE Leave
    <2>1. shown' = <<>>
      BY <1>9 DEF Leave
    <2>2. QED
      BY <1>2, <2>1, EmptyIsSequence, SequenceFacts
  <1>10. QED
    <2> DEFINE Same == UNCHANGED <<shown, failed, lost, stored, wire>>
    <2>1. Open \/ (\E l \in loads : Serve(l)) => Same
      BY DEF Open, Serve, reply, link
    <2>2. Refuse \/ TooMany \/ Retry \/ Emit \/ Runtime \/ Deadline \/ UNCHANGED vars => Same
      BY QuietSteps DEF Quiet
    <2>3. (\E broken \in BOOLEAN : Hangup(broken)) => Same
      BY QuietSteps DEF Quiet
    <2>4. Answer \/ Reconnect => Same
      BY DEF Answer, Reconnect, reply, link, page
    <2>5. QED
      BY <1>4, <1>5, <1>6, <1>7, <1>8, <1>9, <2>1, <2>2, <2>3, <2>4 DEF Next, Provider, Asking, Client

-----------------------------------------------------------------------------
(* The theorems.                                                           *)

LEMMA InitHolds == Init => StreamInv
  <1> SUFFICES ASSUME Init PROVE StreamInv
    OBVIOUS
  <1>1. /\ IsSequence(<<>>) /\ Len(<<>>) = 0 /\ DOMAIN <<>> = {}
    BY EmptyIsSequence, SequenceFacts
  <1>2. CallOK
    <2>1. call = [state |-> "over", modes |-> Modes, attempt |-> 1, dedupe |-> FALSE]
      BY DEF Init
    <2>2. 1 \in 1 .. MaxAttempts /\ Modes \in Seq(ModeNames) /\ Modes # <<>>
      BY StreamAssumption DEF ModeNames
    <2>3. QED
      BY <2>1, <2>2 DEF CallOK, Calls, CallStates
  <1>3. ChannelsOK
    <2>1. RuntimeRecord /\ rt.state = "over"
      BY DEF Init, RuntimeRecord
    <2>2. RawCap \in Nat /\ DeltaCap \in Nat
      BY StreamAssumption
    <2>3. QED
      BY <1>1, <2>1, <2>2 DEF Init, ChannelsOK
  <1>4. TurnOK
    <2>1. /\ turn = [state |-> "idle", n |-> 0, san |-> NewSanitizer, todo |-> <<>>]
          /\ stored = <<>> /\ failed = {} /\ call.state = "over"
      BY DEF Init
    <2>2. TurnRecord /\ turn.state = "idle" /\ turn.n = 0
      BY <2>1 DEF TurnRecord
    <2>3. 0 \in 0 .. MaxTurns
      BY StreamAssumption
    <2>4. QED
      BY <1>1, <2>1, <2>2, <2>3 DEF TurnOK, TurnStates
  <1>5. LinkOK
    <2>1. wire = <<>> /\ up = TRUE /\ lost = {}
      BY DEF Init
    <2>2. QED
      BY <1>1, <2>1 DEF LinkOK
  <1>6. PageOK
    <2>1. view = TRUE /\ shown = <<>> /\ drafts = {} /\ typing = FALSE /\ loads = {}
      BY DEF Init
    <2>2. EntriesOK(shown, drafts)
      BY <1>1, <2>1 DEF EntriesOK
    <2>3. QED
      BY <2>1, <2>2 DEF PageOK
  <1>7. TypingOK /\ DraftsOK
    <2>1. wire = <<>> /\ shown = <<>> /\ typing = FALSE
      BY DEF Init
    <2>2. QED
      BY <1>1, <2>1 DEF TypingOK, DraftsOK
  <1>8. QED
    BY <1>2, <1>3, <1>4, <1>5, <1>6, <1>7 DEF StreamInv

LEMMA StreamInvStep == StreamInv /\ [Next]_vars => StreamInv'
  <1> SUFFICES ASSUME StreamInv, [Next]_vars PROVE StreamInv'
    OBVIOUS
  <1>1. CallOK /\ ChannelsOK /\ TurnOK /\ LinkOK /\ PageOK /\ TypingOK /\ DraftsOK
    BY DEF StreamInv
  <1>2. CallOK' /\ ChannelsOK'
    BY <1>1, CallStep, ChannelsStep
  <1>3. TurnOK'
    BY <1>1, TurnStep
  <1>4. LinkOK'
    BY <1>1, <1>3, LinkStep
  <1>5. PageOK'
    BY <1>1, PageStep
  <1>6. TypingOK'
    BY <1>1, TypingStep
  <1>7. DraftsOK'
    BY <1>1, DraftsStep
  <1>8. QED
    BY <1>2, <1>3, <1>4, <1>5, <1>6, <1>7 DEF StreamInv

(* The state of the channels, the turn, the connection and the page: no    *)
(* channel holds more than its capacity, whatever the provider sends and   *)
(* however slowly the turn reads; a request is never made more often than  *)
(* openAICompatMaxRetryAttempts; and every event on its way or entry of    *)
(* the page belongs to a turn that began.                                  *)
THEOREM StreamTypeOK == Spec => []TypeOK
  <1>1. StreamInv => TypeOK
    <2> SUFFICES ASSUME StreamInv PROVE TypeOK
      OBVIOUS
    <2>2. /\ call.state \in CallStates /\ call.attempt \in 1 .. MaxAttempts /\ call.modes # <<>>
      <3>1. call \in Calls /\ call.modes # <<>>
        BY DEF StreamInv, CallOK
      <3>2. QED
        BY <3>1 DEF Calls
    <2>3. QED
      BY <2>2 DEF StreamInv, ChannelsOK, TurnOK, LinkOK, PageOK, TypeOK, CallStates, TurnStates
  <1>2. QED
    BY InitHolds, StreamInvStep, <1>1, PTL DEF Spec

(* Every stored message is of a turn that began and did not fail.          *)
FailedStoresNothing == \A i \in DOMAIN stored : stored[i].turn \in (1 .. turn.n) \ failed

(* A turn that failed stores nothing (processQueuedTurn), so that the      *)
(* conversation and the error the client shows never contradict each       *)
(* other.                                                                  *)
THEOREM FailedTurnsAreEmpty == Spec => []FailedStoresNothing
  <1>1. StreamInv => FailedStoresNothing
    BY DEF StreamInv, TurnOK, Stores, FailedStoresNothing
  <1>2. QED
    BY InitHolds, StreamInvStep, <1>1, PTL DEF Spec

(* A draft that is shown when all events have been handled is that of a    *)
(* turn that failed, whose events were missed, or that has stored nothing. *)
DraftsEnd ==
  wire = <<>> => \A i \in DOMAIN shown : shown[i].type = "draft" =>
    shown[i].turn \in failed \cup lost \/ \A k \in DOMAIN stored : stored[k].turn # shown[i].turn

(* Whatever order loads, events, departures and broken connections come    *)
(* in, the page (chat.js) shows nothing twice, the typing indicator does   *)
(* not outlive the turns, and a draft stays only where DraftsEnd says.     *)
THEOREM PageHolds == Spec => [](NothingTwice /\ TypingEnds /\ DraftsEnd)
  <1>1. StreamInv => NothingTwice /\ TypingEnds /\ DraftsEnd
    <2> SUFFICES ASSUME StreamInv PROVE NothingTwice /\ TypingEnds /\ DraftsEnd
      OBVIOUS
    <2>1. NothingTwice
      BY DEF StreamInv, PageOK, EntriesOK, NothingTwice
    <2>2. TypingEnds
      BY DEF StreamInv, TypingOK, TypingEnds
    <2>3. ASSUME wire = <<>>, NEW i \in DOMAIN shown, shown[i].type = "draft"
          PROVE  \/ shown[i].turn \in failed \cup lost
                 \/ \A k \in DOMAIN stored : stored[k].turn # shown[i].turn
      <3>1. DOMAIN wire = {}
        BY <2>3, EmptyIsSequence, SequenceFacts
      <3>2. shown[i].turn \in failed \/ Followed(0, shown[i].turn)
        BY <2>3 DEF StreamInv, DraftsOK, DraftExpected
      <3>3. QED
        BY <3>1, <3>2 DEF Followed, MessageAfter, Stores
    <2>4. QED
      BY <2>1, <2>2, <2>3 DEF DraftsEnd
  <1>2. QED
    BY InitHolds, StreamInvStep, <1>1, PTL DEF Spec

(* What is stored of a turn of which no segment is stored.                 *)
LEMMA FlattenEmpty ==
  ASSUME NEW t, NEW m \in Nat, Len(t) = m, m # 0, \A i \in 1 .. m : t[i] = <<>>
  PROVE  FlattenSeq(t) = <<>>
  <1> DEFINE E(f) == f = [i \in 1 .. m |-> IF i = 1 THEN t[i] ELSE f[i - 1] \o t[i]]
             g == [i \in 1 .. m |-> <<>>]
             h == CHOOSE f : E(f)
  <1>1. <<>> \o <<>> = <<>>
    OBVIOUS
  <1>2. E(g)
    BY <1>1
  <1>3. E(h)
    BY <1>2
  <1>4. \A i \in 1 .. m : h[i] = <<>>
    <2> DEFINE S == {i \in 1 .. m : h[i] # <<>>}
    <2>1. SUFFICES ASSUME S # {} PROVE FALSE
      OBVIOUS
    <2>2. PICK k \in S : \A x \in S : k <= x
      <3>1. S \in SUBSET Nat
        OBVIOUS
      <3> HIDE DEF S
      <3>2. QED
        BY <2>1, <3>1, LeastNumber
    <2>3. h[k] = IF k = 1 THEN t[k] ELSE h[k - 1] \o t[k]
      <3> HIDE DEF h
      <3>1. QED
        BY <1>3
    <2> HIDE DEF h
    <2>4. CASE k = 1
      BY <2>2, <2>3, <2>4
    <2>5. CASE k # 1
      <3>1. k - 1 \in 1 .. m /\ k - 1 < k
        BY <2>2, <2>5
      <3>2. h[k - 1] = <<>>
        BY <2>2, <3>1
      <3>3. QED
        BY <1>1, <2>2, <2>3, <2>5, <3>2
    <2>6. QED
      BY <2>4, <2>5
  <1>5. FlattenSeq(t) = h[m]
    BY DEF FlattenSeq
  <1> HIDE DEF h
  <1>6. QED
    BY <1>4, <1>5

LEMMA NothingStored ==
  ASSUME NEW s, IsSequence(s), NEW t, t = [i \in DOMAIN s |-> t[i]],
         \A i \in DOMAIN s : t[i] = <<>>
  PROVE  FlattenSeq(t) = <<>>
  <1>1. PICK m : m = Len(s) /\ m \in Nat /\ DOMAIN s = 1 .. m
    BY SequenceFacts
  <1>2. t = [i \in 1 .. m |-> t[i]] /\ \A i \in 1 .. m : t[i] = <<>>
    BY <1>1
  <1>3. IsSequence(t) /\ Len(t) = m
    BY <1>1, <1>2, FunctionIsSequence
  <1>4. FlattenSeq(t) = <<>>
    <2>1. CASE m = 0
      <3>1. t = <<>> /\ Len(t) = 0
        BY <1>3, <2>1, SequenceFacts
      <3>2. QED
        BY <3>1 DEF FlattenSeq
    <2>2. CASE m # 0
      BY <1>1, <1>2, <1>3, <2>2, FlattenEmpty
    <2>3. QED
      BY <2>1, <2>2
  <1>5. QED
    BY <1>4

(* Every turn that is over has stored something or failed.                 *)
Over(n) == n < turn.n \/ turn.state = "idle"
AllAnswered == \A n \in 1 .. turn.n : Over(n) => n \in failed \/ Stores(n)

LEMMA StoredGrows ==
  ASSUME TurnOK, [Next]_vars
  PROVE  failed \subseteq failed' /\ \A n : Stores(n) => Stores(n)'
  <1>1. CASE StoreSegment
    <2>1. PICK x : stored' = Append(stored, x) /\ failed' = failed
      BY <1>1 DEF StoreSegment
    <2>2. /\ DOMAIN stored = 1 .. Len(stored) /\ Len(stored) \in Nat /\ IsSequence(stored)
      BY SequenceFacts DEF TurnOK
    <2>3. /\ IsSequence(stored') /\ Len(stored') = Len(stored) + 1
          /\ \A i \in 1 .. Len(stored) : stored'[i] = stored[i]
      BY <2>1, <2>2, AppendIsSequence
    <2>4. \A i \in DOMAIN stored : i \in DOMAIN stored' /\ stored'[i] = stored[i]
      BY <2>2, <2>3, SequenceFacts
    <2>5. QED
      BY <2>1, <2>4 DEF Stores
  <1>2. CASE stored' = stored /\ failed \subseteq failed'
    BY <1>2 DEF Stores
  <1>3. CASE Begin \/ Fail \/ ReadDelta \/ ReadFinal \/ EndTurn
    <2>1. stored' = stored /\ failed \subseteq failed'
      BY <1>3 DEF Begin, Fail, ReadDelta, ReadFinal, EndTurn
    <2>2. QED
      BY <1>2, <2>1
  <1>4. QED
    <2> DEFINE Same == UNCHANGED <<stored, failed>>
    <2>1. Receive \/ Open \/ Leave \/ (\E l \in loads : Serve(l) \/ Loaded(l)) => Same
      BY DEF Receive, Open, Leave, Serve, Loaded, reply
    <2>2. Refuse \/ TooMany \/ Retry \/ Emit \/ Runtime \/ Deadline \/ UNCHANGED vars => Same
      BY QuietSteps DEF Quiet
    <2>3. (\E broken \in BOOLEAN : Hangup(broken)) => Same
      BY QuietSteps DEF Quiet
    <2>4. Answer \/ Reconnect \/ Disconnect => Same
      BY DEF Answer, Reconnect, Disconnect, reply
    <2>5. QED
      BY <1>1, <1>2, <1>3, <2>1, <2>2, <2>3, <2>4 DEF Next, Provider, Asking, Client, Serving

LEMMA AllAnsweredStep == StreamInv /\ AllAnswered /\ TurnAnswered' /\ [Next]_vars => AllAnswered'
  <1> SUFFICES ASSUME StreamInv, AllAnswered, TurnAnswered', [Next]_vars,
                      NEW n \in 1 .. turn'.n, n < turn'.n \/ turn'.state = "idle"
               PROVE  n \in failed' \/ Stores(n)'
    BY DEF AllAnswered, Over, Stores
  <1>1. TurnOK /\ TurnOK'
    <2>1. StreamInv'
      BY StreamInvStep
    <2>2. QED
      BY <2>1 DEF StreamInv
  <1>2. turn.n \in Nat /\ turn'.n \in Nat
    BY <1>1, TurnGrows
  <1>3. CASE n = turn'.n
    <2>1. Ended'
      BY <1>2, <1>3 DEF Ended
    <2>2. PICK t : t = [i \in DOMAIN stored' |->
                        IF stored'[i].turn = turn'.n THEN stored'[i].text ELSE <<>>]
      OBVIOUS
    <2>3. (turn'.n \in failed' <=> FlattenSeq(t) = <<>>)
      BY <2>1, <2>2 DEF TurnAnswered, StoredOf
    <2>4. ASSUME \A i \in DOMAIN stored' : stored'[i].turn # n PROVE FlattenSeq(t) = <<>>
      <3>1. PICK s : s = stored'
        OBVIOUS
      <3>2. IsSequence(s)
        BY <1>1, <3>1 DEF TurnOK
      <3>3. t = [i \in DOMAIN s |-> t[i]]
        BY <2>2, <3>1
      <3>4. \A i \in DOMAIN s : t[i] = <<>>
        BY <1>3, <2>2, <2>4, <3>1
      <3>5. QED
        BY <3>2, <3>3, <3>4, NothingStored
    <2>5. QED
      BY <1>3, <2>3, <2>4 DEF Stores
  <1>4. CASE n < turn'.n
    <2>1. turn'.n = turn.n \/ (turn'.n = turn.n + 1 /\ turn.state = "idle")
      <3>1. CASE Begin
        BY <3>1, BeginSpeaks DEF Begin
      <3>2. CASE Serving
        BY <1>1, <3>2, FailSpeaks, ReadSpeaks, StoreSpeaks, EndSpeaks DEF Serving
      <3>3. Provider \/ Runtime \/ Deadline \/ UNCHANGED vars => LinkQuiet
        BY <1>1, LinkQuietSteps DEF Provider, Asking
      <3>4. Client => LinkQuiet \/ Receive
        BY <1>1, LinkQuietSteps DEF Client
      <3>5. Receive \/ Disconnect \/ Reconnect => turn' = turn
        BY DEF Receive, Disconnect, Reconnect, reply
      <3>6. QED
        BY <3>1, <3>2, <3>3, <3>4, <3>5 DEF Next, LinkQuiet
    <2>2. n \in 1 .. turn.n /\ (n < turn.n \/ turn.state = "idle")
      BY <1>2, <1>4, <2>1
    <2>3. n \in failed \/ Stores(n)
      BY <2>2 DEF AllAnswered, Over
    <2>4. QED
      BY <1>1, <2>3, StoredGrows
  <1>5. QED
    BY <1>2, <1>3, <1>4

(* The page settles: once the turns are over and their events handled, no  *)
(* message is shown twice, the bot does not seem to be typing, and the     *)
(* drafts that are left are those of turns that failed or whose events the *)
(* client missed.  The hypothesis, that a turn which ends has stored a     *)
(* message or failed, is a fact about the sanitizers' texts.               *)
THEOREM PageSettled == Spec /\ []TurnAnswered => []PageSettles
  <1>1. Init => AllAnswered
    BY DEF Init, AllAnswered
  <1>2. StreamInv /\ AllAnswered => PageSettles
    <2> SUFFICES ASSUME StreamInv, AllAnswered PROVE PageSettles
      OBVIOUS
    <2>1. NothingTwice
      BY DEF StreamInv, PageOK, EntriesOK, NothingTwice
    <2>2. TypingEnds
      BY DEF StreamInv, TypingOK, TypingEnds
    <2>3. ASSUME Ended, wire = <<>>, NEW i \in DOMAIN shown, shown[i].type = "draft"
          PROVE  shown[i].turn \in failed \cup lost
      <3>1. PICK n : n = shown[i].turn
        OBVIOUS
      <3>2. n \in failed \/ Followed(0, n)
        BY <2>3, <3>1 DEF StreamInv, DraftsOK, DraftExpected
      <3>3. n \in 1 .. turn.n
        BY <2>3, <3>1 DEF StreamInv, PageOK, EntriesOK, IsMessage
      <3>4. n \in failed \/ Stores(n)
        BY <2>3, <3>3 DEF AllAnswered, Over, Ended
      <3>5. DOMAIN wire = {}
        BY <2>3, EmptyIsSequence, SequenceFacts
      <3>6. QED
        BY <3>1, <3>2, <3>4, <3>5 DEF Followed, MessageAfter
    <2>4. QED
      BY <2>1, <2>2, <2>3 DEF PageSettles, NoDraftLeft
  <1>3. QED
    BY InitHolds, StreamInvStep, AllAnsweredStep, <1>1, <1>2, PTL DEF Spec

=============================================================================
