------------------------- MODULE ChatPipelineProofs -------------------------
(***************************************************************************)
(* Theorems about ChatPipeline, for every set of connections and           *)
(* conversations and every value of the bounds.                            *)
(***************************************************************************)
EXTENDS ChatPipeline, FiniteSetTheorems, TLAPS

(* A buffer the map holds, copied into a flight record, is a Flight.       *)
LEMMA TakenType ==
  ASSUME NEW c \in Conns, NEW k \in Convs, NEW buf \in Buffer,
         NEW via \in {"go", "close"}
  PROVE  Taken(c, k, buf, via) \in Flight
  BY DEF Taken, Flight, Buffer

(* Updating one entry of a table indexed by connection and conversation.   *)
LEMMA TableUpdate ==
  ASSUME NEW S, NEW f \in [Conns -> [Convs -> S]],
         NEW c \in Conns, NEW k \in Convs, NEW v \in S
  PROVE  [f EXCEPT ![c][k] = v] \in [Conns -> [Convs -> S]]
  OBVIOUS

(* The entries of the two tables.                                          *)
LEMMA TableEntries ==
  ASSUME TypeOK, NEW c \in Conns, NEW k \in Convs
  PROVE  /\ buffers[c][k] \in Buffer
         /\ firing[c][k] \in Nat
         /\ buffers \in [Conns -> [Convs -> Buffer]]
         /\ firing \in [Conns -> [Convs -> Nat]]
  BY DEF TypeOK

(* An index of a sequence over S selects an element of S.                  *)
LEMMA EntryInSet ==
  ASSUME NEW S, NEW s \in Seq(S), NEW i \in 1 .. Len(s)
  PROVE  s[i] \in S
  OBVIOUS

(* TypeOK is inductive: Init establishes it.                               *)
LEMMA InitTypeOK == Init => TypeOK
  <1> SUFFICES ASSUME Init PROVE TypeOK
    OBVIOUS
  <1> USE PipelineAssumption
  <1>1. NoBuffer \in Buffer
    BY DEF NoBuffer, Buffer
  <1>2. QED
    BY <1>1 DEF Init, TypeOK, Ids

(* ... and every step of the pipeline preserves it.                        *)
LEMMA NextTypeOK == TypeOK /\ [Next]_vars => TypeOK'
  <1> SUFFICES ASSUME TypeOK, [Next]_vars PROVE TypeOK'
    OBVIOUS
  <1> USE PipelineAssumption
  <1>a. NoBuffer \in Buffer
    BY DEF NoBuffer, Buffer
  <1>1. CASE UNCHANGED vars
    BY <1>1 DEF vars, TypeOK, Ids
  <1>2. ASSUME NEW c \in Conns, Connect(c) PROVE TypeOK'
    BY <1>2 DEF Connect, TypeOK, Ids
  <1>3. ASSUME NEW c \in Conns, NEW k \in Convs, SaveMessage(c, k) PROVE TypeOK'
    <2>1. /\ log' \in Seq([conn : Conns, conv : Convs])
          /\ Len(log') = Len(log) + 1
      BY <1>3 DEF SaveMessage, TypeOK
    <2>2. adding' \in [Conns -> 0 .. Len(log')] /\ forgotten' \subseteq Ids'
      BY <1>3, <2>1 DEF SaveMessage, TypeOK, Ids
    <2>3. QED
      BY <1>3, <2>1, <2>2 DEF SaveMessage, TypeOK
  <1>4. ASSUME NEW c \in Conns, Add(c) PROVE TypeOK'
    <2>a. Len(log) \in Nat /\ log \in Seq([conn : Conns, conv : Convs])
          /\ adding \in [Conns -> 0 .. Len(log)]
      BY DEF TypeOK
    <2> DEFINE k == log[adding[c]].conv
    <2>0. /\ adding[c] # 0
          /\ adding' = [adding EXCEPT ![c] = 0]
          /\ UNCHANGED <<log, phase, firing, runners, queue, running, turns, forgotten>>
          /\ AddFirst(c, k) \/ AddMore(c, k) \/ AddFull(c, k)
      BY <1>4, Zenon DEF Add
    <2>b. adding[c] \in 1 .. Len(log) /\ adding[c] \in Nat
      BY <2>0, <2>a
    <2>c. log[adding[c]] \in [conn : Conns, conv : Convs]
      BY <2>a, <2>b, EntryInSet
    <2>1. adding[c] \in 1 .. Len(log) /\ k \in Convs /\ adding[c] \in Nat
      BY <2>b, <2>c
    <2>2. buffers[c][k] \in Buffer
      BY <2>1, TableEntries
    <2>3. adding' \in [Conns -> 0 .. Len(log)]
      BY <2>0, <2>a
    <2> HIDE DEF k
    <2>4. CASE AddFirst(c, k)
      <3>1. [msgs |-> <<adding[c]>>, idle |-> TRUE, hard |-> TRUE] \in Buffer
        BY <2>1 DEF Buffer
      <3>2. buffers' \in [Conns -> [Convs -> Buffer]]
        BY <2>1, <2>4, <3>1 DEF AddFirst, TypeOK
      <3>3. QED
        BY <2>0, <2>3, <2>4, <3>2 DEF AddFirst, TypeOK, Ids
    <2>5. CASE AddMore(c, k)
      <3> DEFINE new == [msgs |-> Append(buffers[c][k].msgs, adding[c]),
                         idle |-> TRUE, hard |-> buffers[c][k].hard]
      <3>1. new \in Buffer
        BY <2>1, <2>2 DEF Buffer
      <3>2. buffers' = [buffers EXCEPT ![c][k] = new]
        BY <2>5 DEF AddMore
      <3>3. buffers' \in [Conns -> [Convs -> Buffer]]
        BY <2>1, <3>1, <3>2, TableEntries, TableUpdate
      <3>4. QED
        BY <2>0, <2>3, <2>5, <3>3 DEF AddMore, TypeOK, Ids
    <2>6. CASE AddFull(c, k)
      <3>1. [msgs |-> Append(buffers[c][k].msgs, adding[c]),
             idle |-> FALSE, hard |-> FALSE] \in Buffer
        BY <2>1, <2>2 DEF Buffer
      <3>2. inflight' \subseteq Flight
        BY <2>1, <2>6, <3>1, TakenType DEF AddFull, TypeOK
      <3>3. buffers' \in [Conns -> [Convs -> Buffer]]
        BY <1>a, <2>1, <2>6 DEF AddFull, TypeOK
      <3>4. QED
        BY <2>0, <2>3, <2>6, <3>2, <3>3 DEF AddFull, TypeOK, Ids
    <2>7. QED
      BY <2>0, <2>4, <2>5, <2>6
  <1>5. ASSUME NEW c \in Conns, Disconnect(c) PROVE TypeOK'
    <2>1. inflight' \subseteq Flight
      BY <1>5, TakenType DEF Disconnect, TypeOK
    <2>2. QED
      BY <1>5, <1>a, <2>1 DEF Disconnect, TypeOK, Ids
  <1>6. ASSUME NEW c \in Conns, CloseConn(c) PROVE TypeOK'
    BY <1>6 DEF CloseConn, TypeOK, Ids
  <1>7. ASSUME NEW c \in Conns, NEW k \in Convs,
               IdleFires(c, k) \/ HardFires(c, k)
        PROVE TypeOK'
    <2>1. firing[c][k] + 1 \in Nat /\ buffers[c][k] \in Buffer
      BY TableEntries
    <2>2. firing' = [firing EXCEPT ![c][k] = firing[c][k] + 1]
      BY <1>7 DEF IdleFires, HardFires
    <2>3. /\ [buffers[c][k] EXCEPT !.idle = FALSE] \in Buffer
          /\ [buffers[c][k] EXCEPT !.hard = FALSE] \in Buffer
      BY <2>1 DEF Buffer
    <2>4. PICK q \in Buffer : buffers' = [buffers EXCEPT ![c][k] = q]
      BY <1>7, <2>3 DEF IdleFires, HardFires
    <2>5. /\ firing' \in [Conns -> [Convs -> Nat]]
          /\ buffers' \in [Conns -> [Convs -> Buffer]]
      BY <2>1, <2>2, <2>4, TableEntries, TableUpdate
    <2>6. QED
      BY <1>7, <2>5 DEF IdleFires, HardFires, TypeOK, Ids
  <1>8. ASSUME NEW c \in Conns, NEW k \in Convs, Flush(c, k) PROVE TypeOK'
    <2>3. buffers[c][k] \in Buffer /\ firing[c][k] \in Nat
      BY TableEntries
    <2>1. firing' \in [Conns -> [Convs -> Nat]]
      BY <1>8, <2>3, TableEntries, TableUpdate DEF Flush
    <2>2. buffers' \in [Conns -> [Convs -> Buffer]]
      <3>1. CASE buffers[c][k].msgs = <<>>
        BY <1>8, <3>1, TableEntries DEF Flush
      <3>2. CASE buffers[c][k].msgs # <<>>
        <4>1. buffers' = [buffers EXCEPT ![c][k] = NoBuffer]
          BY <1>8, <3>2 DEF Flush
        <4>2. QED
          BY <1>a, <4>1, TableEntries, TableUpdate
      <3>3. QED
        BY <3>1, <3>2
    <2>4. inflight' \subseteq Flight
      BY <1>8, <2>3, TakenType DEF Flush, TypeOK
    <2>5. QED
      BY <1>8, <2>1, <2>2, <2>4 DEF Flush, TypeOK, Ids
  <1>9. ASSUME NEW b \in inflight, LateFires(b) PROVE TypeOK'
    <2>1. b \in Flight
      BY DEF TypeOK
    <2>2. [b EXCEPT !.idle = FALSE] \in Flight /\ [b EXCEPT !.hard = FALSE] \in Flight
      BY <2>1 DEF Flight
    <2>3. firing' \in [Conns -> [Convs -> Nat]]
      BY <1>9, <2>1 DEF LateFires, TypeOK, Flight
    <2>4. inflight' \subseteq Flight
      BY <1>9, <2>2 DEF LateFires, TypeOK
    <2>5. QED
      BY <1>9, <2>3, <2>4 DEF LateFires, TypeOK, Ids
  <1>10. ASSUME NEW b \in inflight, BeginEnqueue(b) PROVE TypeOK'
    <2>1. b \in Flight
      BY DEF TypeOK
    <2>2. [b EXCEPT !.stage = "sending", !.idle = FALSE, !.hard = FALSE] \in Flight
      BY <2>1 DEF Flight
    <2>3. inflight' \subseteq Flight
      BY <1>10, <2>2 DEF BeginEnqueue, TypeOK
    <2>4. runners' \in [Convs -> Nat]
      BY <1>10, <2>1 DEF BeginEnqueue, TypeOK, Flight
    <2>5. QED
      BY <1>10, <2>3, <2>4 DEF BeginEnqueue, TypeOK, Ids
  <1>11. ASSUME NEW b \in inflight, Send(b) PROVE TypeOK'
    <2>1. b.conv \in Convs /\ [conn |-> b.conn, msgs |-> b.msgs] \in Turn
      BY DEF TypeOK, Flight, Turn
    <2>2. Append(queue[b.conv], [conn |-> b.conn, msgs |-> b.msgs]) \in Seq(Turn)
          /\ Len(Append(queue[b.conv], [conn |-> b.conn, msgs |-> b.msgs])) <= QueueCap
      BY <1>11, <2>1 DEF Send, TypeOK
    <2>3. queue' \in [Convs -> Seq(Turn)] /\ \A k \in Convs : Len(queue'[k]) <= QueueCap
      BY <1>11, <2>1, <2>2 DEF Send, TypeOK
    <2>4. QED
      BY <1>11, <2>3 DEF Send, TypeOK, Ids
  <1>12. ASSUME NEW k \in Convs, StartTurn(k) PROVE TypeOK'
    <2>1. Head(queue[k]) \in Turn /\ Tail(queue[k]) \in Seq(Turn)
          /\ Len(Tail(queue[k])) <= QueueCap
      BY <1>12 DEF StartTurn, TypeOK
    <2>2. queue' \in [Convs -> Seq(Turn)] /\ \A j \in Convs : Len(queue'[j]) <= QueueCap
      BY <1>12, <2>1 DEF StartTurn, TypeOK
    <2>3. running' \in [Convs -> SUBSET Turn]
      BY <1>12, <2>1 DEF StartTurn, TypeOK
    <2>4. QED
      BY <1>12, <2>2, <2>3 DEF StartTurn, TypeOK, Ids
  <1>13. ASSUME NEW k \in Convs, NEW t \in running[k], NEW ok \in BOOLEAN,
                FinishTurn(k, t, ok)
         PROVE TypeOK'
    <2>1. [conn |-> t.conn, msgs |-> t.msgs, ok |-> ok] \in Outcome
      BY DEF TypeOK, Turn, Outcome
    <2>2. turns' \in [Convs -> Seq(Outcome)]
      BY <1>13, <2>1 DEF FinishTurn, TypeOK
    <2>3. running' \in [Convs -> SUBSET Turn]
      BY <1>13 DEF FinishTurn, TypeOK
    <2>4. QED
      BY <1>13, <2>2, <2>3 DEF FinishTurn, TypeOK, Ids
  <1>14. CASE Crash
    <2>1. buffers' \in [Conns -> [Convs -> Buffer]]
      BY <1>14, <1>a DEF Crash
    <2>2. phase' \in [Conns -> {"new", "open", "closing", "closed"}]
      BY <1>14 DEF Crash
    <2>3. QED
      BY <1>14, <2>1, <2>2 DEF Crash, TypeOK, Ids
  <1>15. QED
    BY <1>1, <1>2, <1>3, <1>4, <1>5, <1>6, <1>7, <1>8, <1>9, <1>10, <1>11,
       <1>12, <1>13, <1>14
    DEF Next

(* The pipeline's variables keep their types; in particular no runner's    *)
(* channel ever holds more than QueueCap turns.                            *)
THEOREM TypeCorrect == Spec => []TypeOK
  BY InitTypeOK, NextTypeOK, PTL DEF Spec

-----------------------------------------------------------------------------
(* BufferWillFlush is inductive under TypeOK.  A timer callback vanishes   *)
(* only by running flush, which empties the map entry; a timer is stopped  *)
(* only after its buffer has left the map.                                 *)
LEMMA InitBufferWillFlush == Init => BufferWillFlush
  BY DEF Init, BufferWillFlush, NoBuffer

LEMMA NextBufferWillFlush ==
  TypeOK /\ BufferWillFlush /\ [Next]_vars => BufferWillFlush'
  <1> SUFFICES ASSUME TypeOK, BufferWillFlush, [Next]_vars,
                      NEW c \in Conns, NEW k \in Convs,
                      buffers'[c][k].msgs # <<>>
               PROVE  /\ Len(buffers'[c][k].msgs) < MaxAggregate
                      /\ buffers'[c][k].idle \/ firing'[c][k] > 0
                      /\ buffers'[c][k].hard \/ firing'[c][k] > 0
    BY DEF BufferWillFlush
  <1> USE PipelineAssumption
  <1> DEFINE Holds == /\ Len(buffers'[c][k].msgs) < MaxAggregate
                      /\ buffers'[c][k].idle \/ firing'[c][k] > 0
                      /\ buffers'[c][k].hard \/ firing'[c][k] > 0
  <1>a. /\ buffers[c][k] \in Buffer
        /\ firing[c][k] \in Nat
        /\ buffers \in [Conns -> [Convs -> Buffer]]
        /\ firing \in [Conns -> [Convs -> Nat]]
    BY TableEntries
  <1>b. buffers[c][k].msgs # <<>> =>
          /\ Len(buffers[c][k].msgs) < MaxAggregate
          /\ buffers[c][k].idle \/ firing[c][k] > 0
          /\ buffers[c][k].hard \/ firing[c][k] > 0
    BY DEF BufferWillFlush
  <1>c. NoBuffer.msgs = <<>>
    BY DEF NoBuffer
  <1>1. ASSUME UNCHANGED <<buffers, firing>> PROVE Holds
    BY <1>1, <1>b
  <1>2. ASSUME NEW d \in Conns, Add(d) PROVE Holds
    <2> DEFINE j == log[adding[d]].conv
    <2>1. /\ AddFirst(d, j) \/ AddMore(d, j) \/ AddFull(d, j)
          /\ firing' = firing
      BY <1>2, Zenon DEF Add
    <2> HIDE DEF j
    <2>2. CASE d = c /\ j = k
      <3>1. CASE AddFirst(c, k)
        <4>1. buffers'[c][k] = [msgs |-> <<adding[c]>>, idle |-> TRUE, hard |-> TRUE]
          BY <1>a, <3>1 DEF AddFirst
        <4>2. QED
          BY <4>1
      <3>2. CASE AddMore(c, k)
        <4>1. /\ buffers'[c][k] = [msgs |-> Append(buffers[c][k].msgs, adding[c]),
                                   idle |-> TRUE, hard |-> buffers[c][k].hard]
              /\ buffers[c][k].msgs # <<>>
              /\ Len(buffers[c][k].msgs) + 1 < MaxAggregate
          BY <1>a, <3>2 DEF AddMore
        <4>2. Len(Append(buffers[c][k].msgs, adding[c])) = Len(buffers[c][k].msgs) + 1
          BY <1>a DEF Buffer
        <4>3. QED
          BY <1>b, <2>1, <4>1, <4>2
      <3>3. CASE AddFull(c, k)
        BY <1>a, <1>c, <3>3 DEF AddFull
      <3>4. QED
        BY <2>1, <2>2, <3>1, <3>2, <3>3
    <2>3. CASE ~(d = c /\ j = k)
      <3>1. PICK v : buffers' = [buffers EXCEPT ![d][j] = v]
        BY <2>1 DEF AddFirst, AddMore, AddFull
      <3>2. buffers'[c][k] = buffers[c][k]
        BY <1>a, <2>3, <3>1
      <3>3. QED
        BY <1>b, <2>1, <3>2
    <2>4. QED
      BY <2>2, <2>3
  <1>3. ASSUME NEW d \in Conns, Disconnect(d) PROVE Holds
    <2>1. CASE d = c
      BY <1>3, <1>a, <1>c, <2>1 DEF Disconnect
    <2>2. CASE d # c
      BY <1>3, <1>a, <1>b, <2>2 DEF Disconnect
    <2>3. QED
      BY <2>1, <2>2
  <1>4. ASSUME NEW d \in Conns, NEW j \in Convs, IdleFires(d, j) \/ HardFires(d, j)
        PROVE  Holds
    <2>1. firing' = [firing EXCEPT ![d][j] = firing[d][j] + 1]
      BY <1>4 DEF IdleFires, HardFires
    <2>2. CASE d = c /\ j = k
      <3>1. firing'[c][k] > 0
        BY <1>a, <2>1, <2>2
      <3>2. buffers'[c][k].msgs = buffers[c][k].msgs
        <4>1. CASE IdleFires(c, k)
          <5> DEFINE b == [buffers[c][k] EXCEPT !.idle = FALSE]
          <5>1. b.msgs = buffers[c][k].msgs
            BY <1>a DEF Buffer
          <5>2. buffers' = [buffers EXCEPT ![c][k] = b]
            BY <4>1 DEF IdleFires
          <5> HIDE DEF b
          <5>3. buffers'[c][k] = b
            BY <5>2, <1>a
          <5>4. QED
            BY <5>1, <5>3
        <4>2. CASE HardFires(c, k)
          <5> DEFINE b == [buffers[c][k] EXCEPT !.hard = FALSE]
          <5>1. b.msgs = buffers[c][k].msgs
            BY <1>a DEF Buffer
          <5>2. buffers' = [buffers EXCEPT ![c][k] = b]
            BY <4>2 DEF HardFires
          <5> HIDE DEF b
          <5>3. buffers'[c][k] = b
            BY <5>2, <1>a
          <5>4. QED
            BY <5>1, <5>3
        <4>3. QED
          BY <1>4, <2>2, <4>1, <4>2
      <3>3. QED
        BY <1>b, <3>1, <3>2
    <2>3. CASE ~(d = c /\ j = k)
      <3>1. PICK v : buffers' = [buffers EXCEPT ![d][j] = v]
        BY <1>4 DEF IdleFires, HardFires
      <3>2. buffers'[c][k] = buffers[c][k] /\ firing'[c][k] = firing[c][k]
        BY <1>a, <2>1, <2>3, <3>1
      <3>3. QED
        BY <1>b, <3>2
    <2>4. QED
      BY <2>2, <2>3
  <1>5. ASSUME NEW d \in Conns, NEW j \in Convs, Flush(d, j) PROVE Holds
    <2>1. CASE d = c /\ j = k
      <3>1. buffers'[c][k].msgs = <<>>
        BY <1>5, <1>a, <1>c, <2>1 DEF Flush
      <3>2. QED
        BY <3>1
    <2>2. CASE ~(d = c /\ j = k)
      <3>1. firing'[c][k] = firing[c][k]
        BY <1>5, <1>a, <2>2 DEF Flush
      <3>2. buffers'[c][k] = buffers[c][k]
        BY <1>5, <1>a, <2>2 DEF Flush
      <3>3. QED
        BY <1>b, <3>1, <3>2
    <2>3. QED
      BY <2>1, <2>2
  <1>6. ASSUME NEW b \in inflight, LateFires(b) PROVE Holds
    <2>1. b.conn \in Conns /\ b.conv \in Convs
      BY DEF TypeOK, Flight
    <2>2. firing[b.conn][b.conv] \in Nat
      BY <2>1, TableEntries
    <2>3. firing'[c][k] >= firing[c][k] /\ firing'[c][k] \in Nat
      BY <1>6, <1>a, <2>1, <2>2 DEF LateFires
    <2>4. buffers' = buffers
      BY <1>6 DEF LateFires
    <2>5. QED
      BY <1>a, <1>b, <2>3, <2>4
  <1>7. CASE Crash
    BY <1>7, <1>c DEF Crash
  <1>8. QED
    <2>1. CASE UNCHANGED vars
      BY <1>1, <2>1 DEF vars
    <2>2. ASSUME NEW d \in Conns, Connect(d) \/ CloseConn(d) PROVE Holds
      BY <1>1, <2>2 DEF Connect, CloseConn
    <2>3. ASSUME NEW d \in Conns, NEW j \in Convs, SaveMessage(d, j) PROVE Holds
      BY <1>1, <2>3 DEF SaveMessage
    <2>4. ASSUME NEW b \in inflight, BeginEnqueue(b) \/ Send(b) PROVE Holds
      BY <1>1, <2>4 DEF BeginEnqueue, Send
    <2>5. ASSUME NEW j \in Convs, StartTurn(j) PROVE Holds
      BY <1>1, <2>5 DEF StartTurn
    <2>6. ASSUME NEW j \in Convs, NEW t \in running[j], NEW ok \in BOOLEAN,
                 FinishTurn(j, t, ok)
          PROVE  Holds
      BY <1>1, <2>6 DEF FinishTurn
    <2>7. QED
      BY <1>2, <1>3, <1>4, <1>5, <1>6, <1>7, <2>1, <2>2, <2>3, <2>4, <2>5, <2>6
      DEF Next

(* No buffer is ever stranded in an aggregator's map: whatever timers      *)
(* fired late, were reset or stopped, a flush for it is due.               *)
THEOREM BuffersFlush == Spec => []BufferWillFlush
  BY InitTypeOK, NextTypeOK, InitBufferWillFlush, NextBufferWillFlush, PTL DEF Spec

-----------------------------------------------------------------------------
(* RunnerInv is inductive under TypeOK.                                    *)
LEMMA InitRunnerInv == Init => RunnerInv
  BY FS_EmptySet DEF Init, RunnerInv

LEMMA NextRunnerInv == TypeOK /\ RunnerInv /\ [Next]_vars => RunnerInv'
  <1> SUFFICES ASSUME TypeOK, RunnerInv, [Next]_vars PROVE RunnerInv'
    OBVIOUS
  <1>a. /\ runners \in [Convs -> Nat]
        /\ queue \in [Convs -> Seq(Turn)]
        /\ running \in [Convs -> SUBSET Turn]
        /\ inflight \subseteq Flight
    BY DEF TypeOK
  <1>1. ASSUME UNCHANGED <<runners, queue, running>>,
               \A b \in inflight' : b.stage = "sending" => b \in inflight
        PROVE  RunnerInv'
    BY <1>1 DEF RunnerInv
  <1>t. ASSUME NEW c, NEW k, NEW buf, NEW via PROVE Taken(c, k, buf, via).stage # "sending"
    BY DEF Taken
  <1>2. ASSUME NEW c \in Conns, Add(c) PROVE RunnerInv'
    <2> DEFINE j == log[adding[c]].conv
    <2>1. /\ AddFirst(c, j) \/ AddMore(c, j) \/ AddFull(c, j)
          /\ UNCHANGED <<runners, queue, running>>
      BY <1>2, Zenon DEF Add
    <2>2. \A b \in inflight' : b.stage = "sending" => b \in inflight
      <3> HIDE DEF j
      <3>1. CASE AddFull(c, j)
        <4>1. PICK buf : inflight' = inflight \cup {Taken(c, j, buf, "go")}
          BY <3>1, Zenon DEF AddFull
        <4>2. QED
          BY <4>1, <1>t
      <3>2. QED
        BY <2>1, <3>1 DEF AddFirst, AddMore
    <2>3. QED
      BY <1>1, <2>1, <2>2
  <1>3. ASSUME NEW c \in Conns, Disconnect(c) PROVE RunnerInv'
    <2>1. \A b \in inflight' : b.stage = "sending" => b \in inflight
      BY <1>3, <1>t DEF Disconnect
    <2>2. QED
      BY <1>1, <1>3, <2>1 DEF Disconnect
  <1>4. ASSUME NEW c \in Conns, NEW k \in Convs, Flush(c, k) PROVE RunnerInv'
    <2>1. \A b \in inflight' : b.stage = "sending" => b \in inflight
      BY <1>4, <1>t DEF Flush
    <2>2. QED
      BY <1>1, <1>4, <2>1 DEF Flush
  <1>5. ASSUME NEW b \in inflight, LateFires(b) PROVE RunnerInv'
    <2>1. b \in Flight
      BY <1>a
    <2>2. \A o \in inflight' : o.stage = "sending" =>
            \E p \in inflight : p.stage = "sending" /\ p.conv = o.conv
      BY <1>5, <2>1 DEF LateFires, Flight
    <2>3. QED
      BY <1>5, <2>2 DEF LateFires, RunnerInv
  <1>6. ASSUME NEW b \in inflight, BeginEnqueue(b) PROVE RunnerInv'
    <2>1. b \in Flight /\ b.conv \in Convs
      BY <1>a DEF Flight
    <2>2. runners' = [runners EXCEPT ![b.conv] = 1]
      BY <1>6, <1>a, <2>1 DEF BeginEnqueue, RunnerInv
    <2>3. \A k \in Convs : runners'[k] \in {0, 1} /\ runners'[k] >= runners[k]
      BY <1>a, <2>1, <2>2 DEF RunnerInv
    <2>4. \A k \in Convs : runners[k] = 1 => runners'[k] = 1
      BY <1>a, <2>1, <2>2 DEF RunnerInv
    <2>5. \A k \in Convs : Cardinality(running[k]) <= runners'[k]
      <3> SUFFICES ASSUME NEW k \in Convs PROVE Cardinality(running[k]) <= runners'[k]
        OBVIOUS
      <3>1. Cardinality(running[k]) \in Nat /\ Cardinality(running[k]) <= runners[k]
        BY FS_CardinalityType DEF RunnerInv
      <3>2. QED
        BY <1>a, <2>3, <3>1
    <2>6. \A o \in inflight' : o.stage = "sending" => runners'[o.conv] = 1
      <3> SUFFICES ASSUME NEW o \in inflight', o.stage = "sending"
                   PROVE  runners'[o.conv] = 1
        OBVIOUS
      <3>1. CASE o \in inflight
        BY <1>a, <2>4, <3>1 DEF RunnerInv, Flight
      <3>2. CASE o \notin inflight
        <4>1. o.conv = b.conv
          BY <1>6, <2>1, <3>2 DEF BeginEnqueue, Flight
        <4>2. QED
          BY <1>a, <2>1, <2>2, <4>1
      <3>3. QED
        BY <3>1, <3>2
    <2>7. QED
      BY <1>6, <2>3, <2>4, <2>5, <2>6 DEF BeginEnqueue, RunnerInv
  <1>7. ASSUME NEW b \in inflight, Send(b) PROVE RunnerInv'
    <2>1. b.conv \in Convs /\ runners[b.conv] = 1
      BY <1>7, <1>a DEF Send, RunnerInv, Flight
    <2>2. \A k \in Convs : k # b.conv => queue'[k] = queue[k]
      BY <1>7, <1>a, <2>1 DEF Send
    <2>3. QED
      BY <1>7, <2>1, <2>2 DEF Send, RunnerInv
  <1>8. ASSUME NEW k \in Convs, StartTurn(k) PROVE RunnerInv'
    <2>1. runners[k] = 1 /\ Cardinality(running[k]) < 1 /\ IsFiniteSet(running[k])
      BY <1>8 DEF StartTurn, RunnerInv
    <2>2. running[k] = {}
      BY <2>1, FS_CardinalityType, FS_EmptySet
    <2>3. running' = [running EXCEPT ![k] = {Head(queue[k])}]
      BY <1>8, <2>2 DEF StartTurn
    <2>4. IsFiniteSet({Head(queue[k])}) /\ Cardinality({Head(queue[k])}) = 1
      BY FS_Singleton
    <2>5. \A j \in Convs : /\ IsFiniteSet(running'[j])
                           /\ Cardinality(running'[j]) <= runners[j]
      <3> SUFFICES ASSUME NEW j \in Convs
                   PROVE  /\ IsFiniteSet(running'[j])
                          /\ Cardinality(running'[j]) <= runners[j]
        OBVIOUS
      <3>1. CASE j = k
        BY <1>a, <2>1, <2>3, <2>4, <3>1
      <3>2. CASE j # k
        BY <1>a, <2>3, <3>2 DEF RunnerInv
      <3>3. QED
        BY <3>1, <3>2
    <2>6. \A j \in Convs : j # k => queue'[j] = queue[j]
      BY <1>8, <1>a DEF StartTurn
    <2>7. QED
      BY <1>8, <2>1, <2>5, <2>6 DEF StartTurn, RunnerInv
  <1>9. ASSUME NEW k \in Convs, NEW t \in running[k], NEW ok \in BOOLEAN,
               FinishTurn(k, t, ok)
        PROVE  RunnerInv'
    <2>1. running' = [running EXCEPT ![k] = running[k] \ {t}]
      BY <1>9 DEF FinishTurn
    <2>2. \A j \in Convs : running'[j] \subseteq running[j]
      BY <1>a, <2>1
    <2>3. \A j \in Convs : /\ IsFiniteSet(running'[j])
                           /\ Cardinality(running'[j]) <= runners[j]
      <3> SUFFICES ASSUME NEW j \in Convs
                   PROVE  /\ IsFiniteSet(running'[j])
                          /\ Cardinality(running'[j]) <= runners[j]
        OBVIOUS
      <3>1. /\ IsFiniteSet(running[j]) /\ Cardinality(running[j]) <= runners[j]
            /\ runners[j] \in Nat
        BY <1>a DEF RunnerInv
      <3>2. /\ IsFiniteSet(running'[j])
            /\ Cardinality(running'[j]) <= Cardinality(running[j])
        BY <2>2, <3>1, FS_Subset
      <3>3. Cardinality(running[j]) \in Nat /\ Cardinality(running'[j]) \in Nat
        BY <3>1, <3>2, FS_CardinalityType
      <3>4. QED
        BY <3>1, <3>2, <3>3
    <2>4. QED
      BY <1>9, <2>3 DEF FinishTurn, RunnerInv
  <1>10. CASE Crash
    BY <1>10, FS_EmptySet DEF Crash, RunnerInv
  <1>11. QED
    <2>1. CASE UNCHANGED vars
      BY <1>1, <2>1 DEF vars
    <2>2. ASSUME NEW d \in Conns, Connect(d) \/ CloseConn(d) PROVE RunnerInv'
      BY <1>1, <2>2 DEF Connect, CloseConn
    <2>3. ASSUME NEW d \in Conns, NEW j \in Convs,
                 SaveMessage(d, j) \/ IdleFires(d, j) \/ HardFires(d, j)
          PROVE  RunnerInv'
      BY <1>1, <2>3 DEF SaveMessage, IdleFires, HardFires
    <2>4. QED
      BY <1>2, <1>3, <1>4, <1>5, <1>6, <1>7, <1>8, <1>9, <1>10, <2>1, <2>2, <2>3
      DEF Next

(* For any number of connections, conversations and messages, at most one  *)
(* turn of a conversation is in processQueuedTurn.                         *)
THEOREM TurnsAreSerial == Spec => []OneTurnAtATime
  <1>1. TypeOK /\ RunnerInv => OneTurnAtATime
    <2> SUFFICES ASSUME TypeOK, RunnerInv, NEW k \in Convs
                 PROVE  /\ Cardinality(running[k]) <= 1
                        /\ queue[k] # <<>> => runners[k] = 1
      BY DEF OneTurnAtATime
    <2>1. /\ runners[k] \in {0, 1} /\ Cardinality(running[k]) <= runners[k]
          /\ Cardinality(running[k]) \in Nat
      BY FS_CardinalityType DEF RunnerInv
    <2>2. QED
      BY <2>1 DEF RunnerInv
  <1>2. QED
    BY <1>1, InitTypeOK, NextTypeOK, InitRunnerInv, NextRunnerInv, PTL DEF Spec

-----------------------------------------------------------------------------
(* ExactlyOnce counts the holders of a message.  The proof follows the     *)
(* message instead: which place has it, and that no other has.             *)

NotAdding(m) == \A c \in Conns : adding[c] # m

NotBuffered(m) == \A c \in Conns, k \in Convs : m \notin Range(buffers[c][k].msgs)

NotInflight(m) == \A b \in inflight : m \notin Range(b.msgs)

NotQueued(m) ==
  \A k \in Convs : \A i \in DOMAIN queue[k] : m \notin Range(queue[k][i].msgs)

NotRunning(m) == \A k \in Convs : \A t \in running[k] : m \notin Range(t.msgs)

NotInTurns(m) ==
  \A k \in Convs : \A i \in DOMAIN turns[k] : m \notin Range(turns[k][i].msgs)

OnlyAdding(m, c) ==
  /\ adding[c] = m
  /\ \A d \in Conns : adding[d] = m => d = c
  /\ NotBuffered(m) /\ NotInflight(m) /\ NotQueued(m) /\ NotRunning(m)
  /\ NotInTurns(m) /\ m \notin forgotten

OnlyBuffered(m, c, k) ==
  /\ m \in Range(buffers[c][k].msgs)
  /\ \A d \in Conns, j \in Convs :
       m \in Range(buffers[d][j].msgs) => d = c /\ j = k
  /\ NotAdding(m) /\ NotInflight(m) /\ NotQueued(m) /\ NotRunning(m)
  /\ NotInTurns(m) /\ m \notin forgotten

OnlyInflight(m, b) ==
  /\ m \in Range(b.msgs)
  /\ \A o \in inflight : m \in Range(o.msgs) => o = b
  /\ NotAdding(m) /\ NotBuffered(m) /\ NotQueued(m) /\ NotRunning(m)
  /\ NotInTurns(m) /\ m \notin forgotten

OnlyQueued(m, k, i) ==
  /\ m \in Range(queue[k][i].msgs)
  /\ \A j \in Convs : \A l \in DOMAIN queue[j] :
       m \in Range(queue[j][l].msgs) => j = k /\ l = i
  /\ NotAdding(m) /\ NotBuffered(m) /\ NotInflight(m) /\ NotRunning(m)
  /\ NotInTurns(m) /\ m \notin forgotten

OnlyRunning(m, k, t) ==
  /\ m \in Range(t.msgs)
  /\ \A j \in Convs : \A u \in running[j] :
       m \in Range(u.msgs) => j = k /\ u = t
  /\ NotAdding(m) /\ NotBuffered(m) /\ NotInflight(m) /\ NotQueued(m)
  /\ NotInTurns(m) /\ m \notin forgotten

OnlyInTurn(m, k, i) ==
  /\ m \in Range(turns[k][i].msgs)
  /\ \A j \in Convs : \A l \in DOMAIN turns[j] :
       m \in Range(turns[j][l].msgs) => j = k /\ l = i
  /\ NotAdding(m) /\ NotBuffered(m) /\ NotInflight(m) /\ NotQueued(m)
  /\ NotRunning(m) /\ m \notin forgotten

OnlyForgotten(m) ==
  /\ m \in forgotten
  /\ NotAdding(m) /\ NotBuffered(m) /\ NotInflight(m) /\ NotQueued(m)
  /\ NotRunning(m) /\ NotInTurns(m)

OnePlace(m) ==
  \/ \E c \in Conns : OnlyAdding(m, c)
  \/ \E c \in Conns, k \in Convs : OnlyBuffered(m, c, k)
  \/ \E b \in inflight : OnlyInflight(m, b)
  \/ \E k \in Convs : \E i \in DOMAIN queue[k] : OnlyQueued(m, k, i)
  \/ \E k \in Convs : \E t \in running[k] : OnlyRunning(m, k, t)
  \/ \E k \in Convs : \E i \in DOMAIN turns[k] : OnlyInTurn(m, k, i)
  \/ OnlyForgotten(m)

Nowhere(m) ==
  /\ NotAdding(m) /\ NotBuffered(m) /\ NotInflight(m) /\ NotQueued(m)
  /\ NotRunning(m) /\ NotInTurns(m) /\ m \notin forgotten

(* The inductive invariant: a stored message is in one place, a message    *)
(* that is not stored yet is nowhere.                                      *)
PlaceInv == \A m \in 1 .. MaxMessages : IF m \in Ids THEN OnePlace(m) ELSE Nowhere(m)

(* The ranges of the sequences a message passes through.                   *)
LEMMA Ranges ==
  /\ Range(<<>>) = {}
  /\ \A x : Range(<<x>>) = {x}
  /\ \A S : \A s \in Seq(S) : \A x \in S : Range(Append(s, x)) = Range(s) \cup {x}
  <1>1. Range(<<>>) = {}
    BY DEF Range
  <1>2. \A x : Range(<<x>>) = {x}
    BY DEF Range
  <1>3. ASSUME NEW S, NEW s \in Seq(S), NEW x \in S
        PROVE  Range(Append(s, x)) = Range(s) \cup {x}
    <2>1. /\ DOMAIN Append(s, x) = (1 .. Len(s)) \cup {Len(s) + 1}
          /\ \A i \in 1 .. Len(s) : Append(s, x)[i] = s[i]
          /\ Append(s, x)[Len(s) + 1] = x
          /\ DOMAIN s = 1 .. Len(s)
      OBVIOUS
    <2>2. QED
      BY <2>1 DEF Range
  <1>4. QED
    BY <1>1, <1>2, <1>3

(* A message whose place no step of the program touches stays in it.       *)
LEMMA Untouched ==
  ASSUME NEW m,
         \A c \in Conns : adding'[c] = m <=> adding[c] = m,
         \A c \in Conns, k \in Convs :
            m \in Range(buffers'[c][k].msgs) <=> m \in Range(buffers[c][k].msgs),
         \A b : b \in inflight' /\ m \in Range(b.msgs)
                <=> b \in inflight /\ m \in Range(b.msgs),
         \A k \in Convs : \A i :
            i \in DOMAIN queue'[k] /\ m \in Range(queue'[k][i].msgs)
            <=> i \in DOMAIN queue[k] /\ m \in Range(queue[k][i].msgs),
         \A k \in Convs : \A t :
            t \in running'[k] /\ m \in Range(t.msgs)
            <=> t \in running[k] /\ m \in Range(t.msgs),
         \A k \in Convs : \A i :
            i \in DOMAIN turns'[k] /\ m \in Range(turns'[k][i].msgs)
            <=> i \in DOMAIN turns[k] /\ m \in Range(turns[k][i].msgs),
         m \in forgotten' <=> m \in forgotten
  PROVE  /\ OnePlace(m) => OnePlace(m)'
         /\ Nowhere(m) => Nowhere(m)'
  <1>1. /\ NotAdding(m) <=> NotAdding(m)'
        /\ NotBuffered(m) <=> NotBuffered(m)'
        /\ NotInflight(m) <=> NotInflight(m)'
        /\ NotQueued(m) <=> NotQueued(m)'
        /\ NotRunning(m) <=> NotRunning(m)'
        /\ NotInTurns(m) <=> NotInTurns(m)'
    BY DEF NotAdding, NotBuffered, NotInflight, NotQueued, NotRunning, NotInTurns
  <1>2. ASSUME NEW c \in Conns, OnlyAdding(m, c) PROVE OnePlace(m)'
    <2>1. OnlyAdding(m, c)'
      BY <1>1, <1>2 DEF OnlyAdding
    <2>2. QED
      BY <2>1 DEF OnePlace
  <1>3. ASSUME NEW c \in Conns, NEW k \in Convs, OnlyBuffered(m, c, k)
        PROVE  OnePlace(m)'
    <2>1. OnlyBuffered(m, c, k)'
      BY <1>1, <1>3 DEF OnlyBuffered
    <2>2. QED
      BY <2>1 DEF OnePlace
  <1>4. ASSUME NEW b \in inflight, OnlyInflight(m, b) PROVE OnePlace(m)'
    <2>1. b \in inflight' /\ OnlyInflight(m, b)'
      BY <1>1, <1>4 DEF OnlyInflight
    <2>2. QED
      BY <2>1 DEF OnePlace
  <1>5. ASSUME NEW k \in Convs, NEW i \in DOMAIN queue[k], OnlyQueued(m, k, i)
        PROVE  OnePlace(m)'
    <2>1. i \in DOMAIN queue'[k] /\ OnlyQueued(m, k, i)'
      BY <1>1, <1>5 DEF OnlyQueued
    <2>2. QED
      BY <2>1 DEF OnePlace
  <1>6. ASSUME NEW k \in Convs, NEW t \in running[k], OnlyRunning(m, k, t)
        PROVE  OnePlace(m)'
    <2>1. t \in running'[k] /\ OnlyRunning(m, k, t)'
      BY <1>1, <1>6 DEF OnlyRunning
    <2>2. QED
      BY <2>1 DEF OnePlace
  <1>7. ASSUME NEW k \in Convs, NEW i \in DOMAIN turns[k], OnlyInTurn(m, k, i)
        PROVE  OnePlace(m)'
    <2>1. i \in DOMAIN turns'[k] /\ OnlyInTurn(m, k, i)'
      BY <1>1, <1>7 DEF OnlyInTurn
    <2>2. QED
      BY <2>1 DEF OnePlace
  <1>8. ASSUME OnlyForgotten(m) PROVE OnePlace(m)'
    <2>1. OnlyForgotten(m)'
      BY <1>1, <1>8 DEF OnlyForgotten
    <2>2. QED
      BY <2>1 DEF OnePlace
  <1>9. Nowhere(m) => Nowhere(m)'
    BY <1>1 DEF Nowhere
  <1>10. QED
    BY <1>2, <1>3, <1>4, <1>5, <1>6, <1>7, <1>8, <1>9 DEF OnePlace

(* A message found in a place is in no other.                              *)
LEMMA FoundOnly ==
  ASSUME NEW m, OnePlace(m)
  PROVE  /\ \A c \in Conns : adding[c] = m => OnlyAdding(m, c)
         /\ \A c \in Conns, k \in Convs :
              m \in Range(buffers[c][k].msgs) => OnlyBuffered(m, c, k)
         /\ \A b \in inflight : m \in Range(b.msgs) => OnlyInflight(m, b)
         /\ \A k \in Convs : \A i \in DOMAIN queue[k] :
              m \in Range(queue[k][i].msgs) => OnlyQueued(m, k, i)
         /\ \A k \in Convs : \A t \in running[k] :
              m \in Range(t.msgs) => OnlyRunning(m, k, t)
         /\ \A k \in Convs : \A i \in DOMAIN turns[k] :
              m \in Range(turns[k][i].msgs) => OnlyInTurn(m, k, i)
         /\ m \in forgotten => OnlyForgotten(m)
  <1> USE DEF NotAdding, NotBuffered, NotInflight, NotQueued, NotRunning, NotInTurns
  <1>1. \A c \in Conns : adding[c] = m => OnlyAdding(m, c)
    BY DEF OnePlace, OnlyAdding, OnlyBuffered, OnlyInflight, OnlyQueued,
           OnlyRunning, OnlyInTurn, OnlyForgotten
  <1>2. \A c \in Conns, k \in Convs :
          m \in Range(buffers[c][k].msgs) => OnlyBuffered(m, c, k)
    BY DEF OnePlace, OnlyAdding, OnlyBuffered, OnlyInflight, OnlyQueued,
           OnlyRunning, OnlyInTurn, OnlyForgotten
  <1>3. \A b \in inflight : m \in Range(b.msgs) => OnlyInflight(m, b)
    BY DEF OnePlace, OnlyAdding, OnlyBuffered, OnlyInflight, OnlyQueued,
           OnlyRunning, OnlyInTurn, OnlyForgotten
  <1>4. \A k \in Convs : \A i \in DOMAIN queue[k] :
          m \in Range(queue[k][i].msgs) => OnlyQueued(m, k, i)
    BY DEF OnePlace, OnlyAdding, OnlyBuffered, OnlyInflight, OnlyQueued,
           OnlyRunning, OnlyInTurn, OnlyForgotten
  <1>5. \A k \in Convs : \A t \in running[k] :
          m \in Range(t.msgs) => OnlyRunning(m, k, t)
    BY DEF OnePlace, OnlyAdding, OnlyBuffered, OnlyInflight, OnlyQueued,
           OnlyRunning, OnlyInTurn, OnlyForgotten
  <1>6. \A k \in Convs : \A i \in DOMAIN turns[k] :
          m \in Range(turns[k][i].msgs) => OnlyInTurn(m, k, i)
    BY DEF OnePlace, OnlyAdding, OnlyBuffered, OnlyInflight, OnlyQueued,
           OnlyRunning, OnlyInTurn, OnlyForgotten
  <1>7. m \in forgotten => OnlyForgotten(m)
    BY DEF OnePlace, OnlyAdding, OnlyBuffered, OnlyInflight, OnlyQueued,
           OnlyRunning, OnlyInTurn, OnlyForgotten
  <1>8. QED
    BY <1>1, <1>2, <1>3, <1>4, <1>5, <1>6, <1>7

(* One entry of the table of buffers changes.                              *)
LEMMA OneBuffer ==
  ASSUME TypeOK, NEW c \in Conns, NEW k \in Convs, NEW v,
         buffers' = [buffers EXCEPT ![c][k] = v]
  PROVE  /\ buffers'[c][k] = v
         /\ \A d \in Conns, j \in Convs :
              ~(d = c /\ j = k) => buffers'[d][j] = buffers[d][j]
  BY DEF TypeOK

(* Neither timer of a buffer in the map touches its messages.              *)
LEMMA TimersKeepMessages ==
  ASSUME TypeOK, NEW c \in Conns, NEW k \in Convs, IdleFires(c, k) \/ HardFires(c, k)
  PROVE  \A d \in Conns, j \in Convs : buffers'[d][j].msgs = buffers[d][j].msgs
  <1>1. PICK v : /\ v.msgs = buffers[c][k].msgs
                 /\ buffers' = [buffers EXCEPT ![c][k] = v]
    <2>1. buffers[c][k] \in Buffer
      BY TableEntries
    <2>2. CASE IdleFires(c, k)
      <3> DEFINE v == [buffers[c][k] EXCEPT !.idle = FALSE]
      <3>1. v.msgs = buffers[c][k].msgs
        BY <2>1 DEF Buffer
      <3>2. buffers' = [buffers EXCEPT ![c][k] = v]
        BY <2>2 DEF IdleFires
      <3> HIDE DEF v
      <3>3. QED
        BY <3>1, <3>2
    <2>3. CASE HardFires(c, k)
      <3> DEFINE v == [buffers[c][k] EXCEPT !.hard = FALSE]
      <3>1. v.msgs = buffers[c][k].msgs
        BY <2>1 DEF Buffer
      <3>2. buffers' = [buffers EXCEPT ![c][k] = v]
        BY <2>3 DEF HardFires
      <3> HIDE DEF v
      <3>3. QED
        BY <3>1, <3>2
    <2>4. QED
      BY <2>2, <2>3
  <1>2. QED
    BY <1>1, OneBuffer

LEMMA InitPlaceInv == Init => PlaceInv
  <1> SUFFICES ASSUME Init, NEW m \in 1 .. MaxMessages PROVE m \notin Ids /\ Nowhere(m)
    BY DEF PlaceInv
  <1>1. m \notin Ids
    BY DEF Init, Ids
  <1>2. Range(<<>>) = {}
    BY Ranges
  <1>3. Nowhere(m)
    BY <1>2 DEF Init, Nowhere, NoBuffer, NotAdding, NotBuffered, NotInflight,
                NotQueued, NotRunning, NotInTurns
  <1>4. QED
    BY <1>1, <1>3

(* A read loop passes its message to the aggregator: into a buffer, or     *)
(* with the whole buffer to a flush goroutine.                             *)
LEMMA AddPlaces ==
  ASSUME TypeOK, PlaceInv, NEW c \in Conns, Add(c)
  PROVE  PlaceInv'
  <1>1. /\ adding[c] # 0
        /\ adding' = [adding EXCEPT ![c] = 0]
        /\ UNCHANGED <<log, phase, firing, runners, queue, running, turns, forgotten>>
    BY Zenon DEF Add
  <1>2. /\ adding \in [Conns -> 0 .. Len(log)]
        /\ log \in Seq([conn : Conns, conv : Convs])
        /\ Len(log) <= MaxMessages
    BY DEF TypeOK
  <1>3. /\ adding[c] \in 1 .. Len(log)
        /\ adding[c] \in Nat
        /\ adding[c] \in 1 .. MaxMessages
    BY <1>1, <1>2, PipelineAssumption
  <1>4. PICK k \in Convs : AddFirst(c, k) \/ AddMore(c, k) \/ AddFull(c, k)
    <2>1. log[adding[c]] \in [conn : Conns, conv : Convs]
      BY <1>2, <1>3, EntryInSet
    <2>2. QED
      BY <2>1, Zenon DEF Add
  <1>5. buffers[c][k] \in Buffer
    BY <1>4, TableEntries
  <1>t. buffers \in [Conns -> [Convs -> Buffer]]
    BY DEF TypeOK
  <1>6. \A d \in Conns : adding'[d] = IF d = c THEN 0 ELSE adding[d]
    BY <1>1, <1>2
  <1>7. OnlyAdding(adding[c], c)
    BY <1>3, FoundOnly DEF PlaceInv, Ids
  <1>8. Range(<<adding[c]>>) = {adding[c]} /\ Range(<<>>) = {}
    BY Ranges
  <1>9. Range(Append(buffers[c][k].msgs, adding[c]))
          = Range(buffers[c][k].msgs) \cup {adding[c]}
    BY <1>3, <1>5, Ranges DEF Buffer
  <1> SUFFICES ASSUME NEW m \in 1 .. MaxMessages
               PROVE  /\ OnePlace(m) => OnePlace(m)'
                      /\ Nowhere(m) => Nowhere(m)'
    BY <1>1 DEF PlaceInv, Ids
  <1>a. m # 0 /\ m \in Nat
    BY PipelineAssumption
  <1>b. ~Nowhere(adding[c])
    BY <1>7 DEF Nowhere, OnlyAdding, NotAdding
  <1>10. CASE AddFirst(c, k) \/ AddMore(c, k)
    <2>1. PICK v : /\ buffers' = [buffers EXCEPT ![c][k] = v]
                   /\ Range(v.msgs) = Range(buffers[c][k].msgs) \cup {adding[c]}
      <3>1. CASE AddFirst(c, k)
        <4> DEFINE v == [msgs |-> <<adding[c]>>, idle |-> TRUE, hard |-> TRUE]
        <4>1. Range(v.msgs) = Range(buffers[c][k].msgs) \cup {adding[c]}
          BY <1>8, <3>1 DEF AddFirst
        <4>2. buffers' = [buffers EXCEPT ![c][k] = v]
          BY <3>1, Zenon DEF AddFirst
        <4> HIDE DEF v
        <4>3. QED
          BY <4>1, <4>2
      <3>2. CASE AddMore(c, k)
        <4> DEFINE v == [msgs |-> Append(buffers[c][k].msgs, adding[c]),
                         idle |-> TRUE, hard |-> buffers[c][k].hard]
        <4>1. Range(v.msgs) = Range(buffers[c][k].msgs) \cup {adding[c]}
          BY <1>9
        <4>2. buffers' = [buffers EXCEPT ![c][k] = v]
          BY <3>2 DEF AddMore
        <4> HIDE DEF v
        <4>3. QED
          BY <4>1, <4>2
      <3>3. QED
        BY <1>10, <3>1, <3>2
    <2>2. /\ buffers'[c][k] = v
          /\ \A d \in Conns, j \in Convs :
               ~(d = c /\ j = k) => buffers'[d][j] = buffers[d][j]
      BY <2>1, <1>t
    <2>3. inflight' = inflight
      BY <1>10 DEF AddFirst, AddMore
    <2>4. CASE m = adding[c]
      <3>1. OnlyBuffered(m, c, k)'
        BY <1>1, <1>4, <1>6, <1>7, <1>a, <2>1, <2>2, <2>3, <2>4
        DEF OnlyAdding, OnlyBuffered, NotAdding, NotBuffered, NotInflight,
            NotQueued, NotRunning, NotInTurns
      <3>2. QED
        BY <1>4, <1>b, <2>4, <3>1 DEF OnePlace
    <2>5. CASE m # adding[c]
      <3>1. \A d \in Conns : adding'[d] = m <=> adding[d] = m
        BY <1>6, <1>a, <2>5
      <3>2. \A d \in Conns, j \in Convs :
              m \in Range(buffers'[d][j].msgs) <=> m \in Range(buffers[d][j].msgs)
        BY <2>1, <2>2, <2>5
      <3>3. QED
        BY <1>1, <2>3, <3>1, <3>2, Untouched
    <2>6. QED
      BY <2>4, <2>5
  <1>11. CASE AddFull(c, k)
    <2>1. PICK b : /\ inflight' = inflight \cup {b}
                   /\ Range(b.msgs) = Range(buffers[c][k].msgs) \cup {adding[c]}
      <3> DEFINE b == Taken(c, k, [msgs |-> Append(buffers[c][k].msgs, adding[c]),
                                   idle |-> FALSE, hard |-> FALSE], "go")
      <3>1. Range(b.msgs) = Range(buffers[c][k].msgs) \cup {adding[c]}
        BY <1>9 DEF Taken
      <3>2. inflight' = inflight \cup {b}
        BY <1>11 DEF AddFull
      <3> HIDE DEF b
      <3>3. QED
        BY <3>1, <3>2
    <2>3. /\ buffers'[c][k] = NoBuffer
          /\ \A d \in Conns, j \in Convs :
               ~(d = c /\ j = k) => buffers'[d][j] = buffers[d][j]
      BY <1>11, <1>t DEF AddFull
    <2>4. Range(NoBuffer.msgs) = {}
      BY <1>8 DEF NoBuffer
    <2>5. CASE m = adding[c]
      <3>1. OnlyInflight(m, b)'
        BY <1>1, <1>4, <1>6, <1>7, <1>a, <2>1, <2>3, <2>4, <2>5
        DEF OnlyAdding, OnlyInflight, NotAdding, NotBuffered, NotInflight,
            NotQueued, NotRunning, NotInTurns
      <3>2. QED
        BY <1>b, <2>1, <2>5, <3>1 DEF OnePlace
    <2>6. CASE m \in Range(buffers[c][k].msgs) /\ m # adding[c]
      <3>1. ~Nowhere(m)
        BY <1>4, <2>6 DEF Nowhere, NotBuffered
      <3>2. OnePlace(m) => OnlyBuffered(m, c, k)
        BY <1>4, <2>6, FoundOnly
      <3>3. OnlyBuffered(m, c, k) => OnlyInflight(m, b)'
        BY <1>1, <1>4, <1>6, <1>a, <2>1, <2>3, <2>4, <2>6
        DEF OnlyBuffered, OnlyInflight, NotAdding, NotBuffered, NotInflight,
            NotQueued, NotRunning, NotInTurns
      <3>4. QED
        BY <2>1, <3>1, <3>2, <3>3 DEF OnePlace
    <2>7. CASE m \notin Range(buffers[c][k].msgs) /\ m # adding[c]
      <3>1. \A d \in Conns : adding'[d] = m <=> adding[d] = m
        BY <1>6, <1>a, <2>7
      <3>2. \A d \in Conns, j \in Convs :
              m \in Range(buffers'[d][j].msgs) <=> m \in Range(buffers[d][j].msgs)
        BY <2>3, <2>4, <2>7
      <3>3. \A o : o \in inflight' /\ m \in Range(o.msgs)
                   <=> o \in inflight /\ m \in Range(o.msgs)
        BY <2>1, <2>7
      <3>4. QED
        BY <1>1, <3>1, <3>2, <3>3, Untouched
    <2>8. QED
      BY <2>5, <2>6, <2>7
  <1>12. QED
    BY <1>4, <1>10, <1>11

(* The remaining steps that move messages, one lemma each.                 *)
LEMMA SavePlaces ==
  ASSUME TypeOK, PlaceInv, NEW c \in Conns, NEW k \in Convs, SaveMessage(c, k)
  PROVE  PlaceInv'
  <1>1. /\ adding[c] = 0
        /\ adding' = [adding EXCEPT ![c] = Len(log) + 1]
        /\ UNCHANGED <<buffers, inflight, queue, running, turns, forgotten>>
    BY DEF SaveMessage
  <1>2. /\ Len(log') = Len(log) + 1
        /\ Len(log) \in Nat
        /\ adding \in [Conns -> 0 .. Len(log)]
    BY DEF SaveMessage, TypeOK
  <1>3. Ids' = Ids \cup {Len(log) + 1} /\ Len(log) + 1 \notin Ids
    BY <1>2 DEF Ids
  <1> SUFFICES ASSUME NEW m \in 1 .. MaxMessages
               PROVE  IF m \in Ids' THEN OnePlace(m)' ELSE Nowhere(m)'
    BY DEF PlaceInv
  <1>a. m # 0 /\ m \in Nat
    BY PipelineAssumption
  <1>4. CASE m = Len(log) + 1
    <2>1. Nowhere(m)
      BY <1>3, <1>4 DEF PlaceInv
    <2>2. OnlyAdding(m, c)'
      BY <1>1, <1>2, <1>4, <2>1
      DEF OnlyAdding, Nowhere, NotAdding, NotBuffered, NotInflight, NotQueued,
          NotRunning, NotInTurns
    <2>3. QED
      BY <1>3, <1>4, <2>2 DEF OnePlace
  <1>5. CASE m # Len(log) + 1
    <2>1. \A d \in Conns : adding'[d] = m <=> adding[d] = m
      BY <1>1, <1>2, <1>5, <1>a
    <2>2. /\ OnePlace(m) => OnePlace(m)'
          /\ Nowhere(m) => Nowhere(m)'
      BY <1>1, <2>1, Untouched
    <2>3. QED
      BY <1>3, <1>5, <2>2 DEF PlaceInv
  <1>6. QED
    BY <1>4, <1>5

(* closeAll takes every buffer of a connection.                            *)
LEMMA DisconnectPlaces ==
  ASSUME TypeOK, PlaceInv, NEW c \in Conns, Disconnect(c)
  PROVE  PlaceInv'
  <1>1. /\ buffers' = [buffers EXCEPT ![c] = [k \in Convs |-> NoBuffer]]
        /\ inflight' = inflight \cup
             {Taken(c, k, buffers[c][k], "close") :
                k \in {kk \in Convs : buffers[c][kk].msgs # <<>>}}
        /\ UNCHANGED <<log, adding, queue, running, turns, forgotten>>
    BY DEF Disconnect
  <1>2. \A k \in Convs : /\ Range(buffers'[c][k].msgs) = {}
                         /\ \A d \in Conns : d # c => buffers'[d][k] = buffers[d][k]
    BY <1>1, Ranges DEF TypeOK, NoBuffer
  <1>3. \A k \in Convs : Range(Taken(c, k, buffers[c][k], "close").msgs)
                           = Range(buffers[c][k].msgs)
    BY DEF Taken
  <1> SUFFICES ASSUME NEW m \in 1 .. MaxMessages
               PROVE  /\ OnePlace(m) => OnePlace(m)'
                      /\ Nowhere(m) => Nowhere(m)'
    BY <1>1 DEF PlaceInv, Ids
  <1>4. CASE \E k \in Convs : m \in Range(buffers[c][k].msgs)
    <2>1. PICK k \in Convs : m \in Range(buffers[c][k].msgs)
      BY <1>4
    <2>2. ~Nowhere(m)
      BY <2>1 DEF Nowhere, NotBuffered
    <2>3. OnePlace(m) => OnlyBuffered(m, c, k)
      BY <2>1, FoundOnly
    <2>4. PICK b : b = Taken(c, k, buffers[c][k], "close")
      OBVIOUS
    <2>5. b \in inflight' /\ m \in Range(b.msgs)
      BY <1>1, <1>3, <2>1, <2>4, Ranges
    <2>6. ASSUME OnlyBuffered(m, c, k) PROVE OnlyInflight(m, b)'
      <3>1. \A o \in inflight' : m \in Range(o.msgs) => o = b
        <4> SUFFICES ASSUME NEW o \in inflight', m \in Range(o.msgs) PROVE o = b
          OBVIOUS
        <4>1. o \notin inflight
          BY <2>6 DEF OnlyBuffered, NotInflight
        <4>2. PICK j \in Convs : o = Taken(c, j, buffers[c][j], "close")
          BY <1>1, <4>1
        <4>3. j = k
          BY <1>3, <2>6, <4>2 DEF OnlyBuffered
        <4>4. QED
          BY <2>4, <4>2, <4>3
      <3>2. NotBuffered(m)'
        BY <1>2, <2>6 DEF OnlyBuffered, NotBuffered
      <3>3. QED
        BY <1>1, <2>5, <2>6, <3>1, <3>2
        DEF OnlyBuffered, OnlyInflight, NotAdding, NotQueued, NotRunning, NotInTurns
    <2>7. QED
      BY <2>2, <2>3, <2>5, <2>6 DEF OnePlace
  <1>5. CASE ~ \E k \in Convs : m \in Range(buffers[c][k].msgs)
    <2>1. \A d \in Conns, j \in Convs :
            m \in Range(buffers'[d][j].msgs) <=> m \in Range(buffers[d][j].msgs)
      BY <1>2, <1>5
    <2>2. \A o : o \in inflight' /\ m \in Range(o.msgs)
                 <=> o \in inflight /\ m \in Range(o.msgs)
      BY <1>1, <1>3, <1>5
    <2>3. QED
      BY <1>1, <2>1, <2>2, Untouched
  <1>6. QED
    BY <1>4, <1>5

(* flush takes the buffer the map holds.                                   *)
LEMMA FlushPlaces ==
  ASSUME TypeOK, PlaceInv, NEW c \in Conns, NEW k \in Convs, Flush(c, k),
         buffers[c][k].msgs # <<>>
  PROVE  PlaceInv'
  <1>1. PICK b : b = Taken(c, k, buffers[c][k], "go")
    OBVIOUS
  <1>2. /\ buffers' = [buffers EXCEPT ![c][k] = NoBuffer]
        /\ inflight' = inflight \cup {b}
        /\ UNCHANGED <<log, adding, queue, running, turns, forgotten>>
    BY <1>1 DEF Flush
  <1>t. buffers \in [Conns -> [Convs -> Buffer]]
    BY DEF TypeOK
  <1>3. /\ buffers'[c][k] = NoBuffer
        /\ \A d \in Conns, j \in Convs :
             ~(d = c /\ j = k) => buffers'[d][j] = buffers[d][j]
    BY <1>2, <1>t
  <1>4. Range(NoBuffer.msgs) = {} /\ Range(b.msgs) = Range(buffers[c][k].msgs)
    BY <1>1, Ranges DEF NoBuffer, Taken
  <1> SUFFICES ASSUME NEW m \in 1 .. MaxMessages
               PROVE  /\ OnePlace(m) => OnePlace(m)'
                      /\ Nowhere(m) => Nowhere(m)'
    BY <1>2 DEF PlaceInv, Ids
  <1>5. CASE m \in Range(buffers[c][k].msgs)
    <2>1. ~Nowhere(m)
      BY <1>5 DEF Nowhere, NotBuffered
    <2>2. OnePlace(m) => OnlyBuffered(m, c, k)
      BY <1>5, FoundOnly
    <2>3. OnlyBuffered(m, c, k) => OnlyInflight(m, b)'
      BY <1>2, <1>3, <1>4, <1>5
      DEF OnlyBuffered, OnlyInflight, NotAdding, NotBuffered, NotInflight,
          NotQueued, NotRunning, NotInTurns
    <2>4. QED
      BY <1>2, <2>1, <2>2, <2>3 DEF OnePlace
  <1>6. CASE m \notin Range(buffers[c][k].msgs)
    <2>1. \A d \in Conns, j \in Convs :
            m \in Range(buffers'[d][j].msgs) <=> m \in Range(buffers[d][j].msgs)
      BY <1>3, <1>4, <1>6
    <2>2. \A o : o \in inflight' /\ m \in Range(o.msgs)
                 <=> o \in inflight /\ m \in Range(o.msgs)
      BY <1>2, <1>4, <1>6
    <2>3. QED
      BY <1>2, <2>1, <2>2, Untouched
  <1>7. QED
    BY <1>5, <1>6

(* A flush under way changes its stage or stops a timer.                   *)
LEMMA FlightPlaces ==
  ASSUME PlaceInv, NEW b \in inflight, NEW q, q.msgs = b.msgs,
         inflight' = (inflight \ {b}) \cup {q},
         UNCHANGED <<log, adding, buffers, queue, running, turns, forgotten>>
  PROVE  PlaceInv'
  <1> SUFFICES ASSUME NEW m \in 1 .. MaxMessages
               PROVE  /\ OnePlace(m) => OnePlace(m)'
                      /\ Nowhere(m) => Nowhere(m)'
    BY DEF PlaceInv, Ids
  <1>1. CASE m \in Range(b.msgs)
    <2>1. ~Nowhere(m)
      BY <1>1 DEF Nowhere, NotInflight
    <2>2. OnePlace(m) => OnlyInflight(m, b)
      BY <1>1, FoundOnly
    <2>3. OnlyInflight(m, b) => OnlyInflight(m, q)'
      BY <1>1
      DEF OnlyInflight, NotAdding, NotBuffered, NotInflight,
          NotQueued, NotRunning, NotInTurns
    <2>4. QED
      BY <2>1, <2>2, <2>3 DEF OnePlace
  <1>2. CASE m \notin Range(b.msgs)
    <2>1. \A o : o \in inflight' /\ m \in Range(o.msgs)
                 <=> o \in inflight /\ m \in Range(o.msgs)
      BY <1>2
    <2>2. QED
      BY <2>1, Untouched
  <1>3. QED
    BY <1>1, <1>2

(* enqueue hands the batch to the channel.                                 *)
LEMMA SendPlaces ==
  ASSUME TypeOK, PlaceInv, NEW b \in inflight, Send(b)
  PROVE  PlaceInv'
  <1>1. PICK k \in Convs : k = b.conv
    BY DEF TypeOK, Flight
  <1>2. PICK t \in Turn : t = [conn |-> b.conn, msgs |-> b.msgs]
    BY DEF TypeOK, Flight, Turn
  <1>3. /\ queue' = [queue EXCEPT ![k] = Append(queue[k], t)]
        /\ inflight' = inflight \ {b}
        /\ UNCHANGED <<log, adding, buffers, running, turns, forgotten>>
    BY <1>1, <1>2 DEF Send
  <1>4. queue \in [Convs -> Seq(Turn)] /\ queue[k] \in Seq(Turn)
    BY DEF TypeOK
  <1>5. PICK n \in Nat : n = Len(queue[k]) + 1
    BY <1>4
  <1>6. /\ DOMAIN queue'[k] = DOMAIN queue[k] \cup {n}
        /\ n \notin DOMAIN queue[k]
        /\ queue'[k][n] = t
        /\ \A i \in DOMAIN queue[k] : queue'[k][i] = queue[k][i]
        /\ \A j \in Convs : j # k => queue'[j] = queue[j]
    BY <1>3, <1>4, <1>5
  <1> SUFFICES ASSUME NEW m \in 1 .. MaxMessages
               PROVE  /\ OnePlace(m) => OnePlace(m)'
                      /\ Nowhere(m) => Nowhere(m)'
    BY <1>3 DEF PlaceInv, Ids
  <1>7. CASE m \in Range(b.msgs)
    <2>1. ~Nowhere(m)
      BY <1>7 DEF Nowhere, NotInflight
    <2>2. OnePlace(m) => OnlyInflight(m, b)
      BY <1>7, FoundOnly
    <2>3. OnlyInflight(m, b) => OnlyQueued(m, k, n)'
      BY <1>2, <1>3, <1>6, <1>7
      DEF OnlyInflight, OnlyQueued, NotAdding, NotBuffered, NotInflight,
          NotQueued, NotRunning, NotInTurns
    <2>4. QED
      BY <1>6, <2>1, <2>2, <2>3 DEF OnePlace
  <1>8. CASE m \notin Range(b.msgs)
    <2>1. \A o : o \in inflight' /\ m \in Range(o.msgs)
                 <=> o \in inflight /\ m \in Range(o.msgs)
      BY <1>3, <1>8
    <2>2. \A j \in Convs : \A i :
            i \in DOMAIN queue'[j] /\ m \in Range(queue'[j][i].msgs)
            <=> i \in DOMAIN queue[j] /\ m \in Range(queue[j][i].msgs)
      BY <1>2, <1>6, <1>8
    <2>3. QED
      BY <1>3, <2>1, <2>2, Untouched
  <1>9. QED
    BY <1>7, <1>8

(* A runner receives a turn; the ones behind it move up.                   *)
LEMMA StartPlaces ==
  ASSUME TypeOK, PlaceInv, NEW k \in Convs, StartTurn(k)
  PROVE  PlaceInv'
  <1>1. queue \in [Convs -> Seq(Turn)] /\ running \in [Convs -> SUBSET Turn]
    BY DEF TypeOK
  <1>2. PICK t \in Turn : t = Head(queue[k])
    BY <1>1 DEF StartTurn
  <1>3. /\ running' = [running EXCEPT ![k] = running[k] \cup {t}]
        /\ queue' = [queue EXCEPT ![k] = Tail(queue[k])]
        /\ queue[k] \in Seq(Turn) /\ queue[k] # <<>>
        /\ UNCHANGED <<log, adding, buffers, inflight, turns, forgotten>>
    BY <1>1, <1>2 DEF StartTurn
  <1>4. /\ 1 \in DOMAIN queue[k] /\ queue[k][1] = t
        /\ \A i \in DOMAIN queue[k] :
             i # 1 => i - 1 \in DOMAIN Tail(queue[k])
                      /\ Tail(queue[k])[i - 1] = queue[k][i]
        /\ \A i \in DOMAIN Tail(queue[k]) :
             i \in Nat /\ i + 1 \in DOMAIN queue[k] /\ i + 1 # 1
             /\ queue[k][i + 1] = Tail(queue[k])[i]
    BY <1>2, <1>3
  <1>5. /\ queue'[k] = Tail(queue[k])
        /\ \A j \in Convs : j # k => queue'[j] = queue[j]
    BY <1>1, <1>3
  <1>6. /\ running'[k] = running[k] \cup {t}
        /\ \A j \in Convs : j # k => running'[j] = running[j]
    BY <1>1, <1>3
  <1> SUFFICES ASSUME NEW m \in 1 .. MaxMessages
               PROVE  /\ OnePlace(m) => OnePlace(m)'
                      /\ Nowhere(m) => Nowhere(m)'
    BY <1>3 DEF PlaceInv, Ids
  <1>7. CASE m \in Range(t.msgs)
    <2>1. ~Nowhere(m)
      BY <1>4, <1>7 DEF Nowhere, NotQueued
    <2>2. OnePlace(m) => OnlyQueued(m, k, 1)
      BY <1>4, <1>7, FoundOnly
    <2>3. ASSUME OnlyQueued(m, k, 1) PROVE OnlyRunning(m, k, t)'
      <3>1. NotQueued(m)'
        <4> SUFFICES ASSUME NEW j \in Convs, NEW i \in DOMAIN queue'[j],
                            m \in Range(queue'[j][i].msgs)
                     PROVE  FALSE
          BY DEF NotQueued
        <4>1. CASE j = k
          <5>1. /\ i + 1 \in DOMAIN queue[k] /\ i + 1 # 1
                /\ m \in Range(queue[k][i + 1].msgs)
            BY <1>4, <1>5, <4>1
          <5>2. QED
            BY <2>3, <5>1 DEF OnlyQueued
        <4>2. CASE j # k
          BY <1>5, <2>3, <4>2 DEF OnlyQueued
        <4>3. QED
          BY <4>1, <4>2
      <3>2. QED
        BY <1>3, <1>6, <1>7, <2>3, <3>1
        DEF OnlyQueued, OnlyRunning, NotAdding, NotBuffered, NotInflight,
            NotRunning, NotInTurns
    <2>4. QED
      BY <1>6, <2>1, <2>2, <2>3 DEF OnePlace
  <1>8. CASE m \notin Range(t.msgs)
    <2>1. CASE \E i \in DOMAIN queue[k] : m \in Range(queue[k][i].msgs)
      <3>1. PICK i \in DOMAIN queue[k] : m \in Range(queue[k][i].msgs)
        BY <2>1
      <3>2. i # 1 /\ i \in Nat
        BY <1>3, <1>4, <1>8, <3>1
      <3>3. ~Nowhere(m)
        BY <3>1 DEF Nowhere, NotQueued
      <3>4. OnePlace(m) => OnlyQueued(m, k, i)
        BY <3>1, FoundOnly
      <3>5. PICK n : n = i - 1
        OBVIOUS
      <3>6. n \in DOMAIN queue'[k] /\ queue'[k][n] = queue[k][i]
        BY <1>4, <1>5, <3>2, <3>5
      <3>7. ASSUME OnlyQueued(m, k, i) PROVE OnlyQueued(m, k, n)'
        <4>1. \A j \in Convs : \A l \in DOMAIN queue'[j] :
                m \in Range(queue'[j][l].msgs) => j = k /\ l = n
          <5> SUFFICES ASSUME NEW j \in Convs, NEW l \in DOMAIN queue'[j],
                              m \in Range(queue'[j][l].msgs)
                       PROVE  j = k /\ l = n
            OBVIOUS
          <5>1. j = k
            BY <1>5, <3>7 DEF OnlyQueued
          <5>2. l \in Nat /\ l + 1 = i
            <6>1. /\ l \in Nat /\ l + 1 \in DOMAIN queue[k]
                  /\ m \in Range(queue[k][l + 1].msgs)
              BY <1>4, <1>5, <5>1
            <6>2. QED
              BY <3>7, <6>1 DEF OnlyQueued
          <5>3. QED
            BY <3>2, <3>5, <5>1, <5>2
        <4>2. NotRunning(m)'
          BY <1>6, <1>8, <3>7 DEF OnlyQueued, NotRunning
        <4>3. QED
          BY <1>3, <3>1, <3>6, <3>7, <4>1, <4>2
          DEF OnlyQueued, NotAdding, NotBuffered, NotInflight, NotInTurns
      <3>8. QED
        BY <3>3, <3>4, <3>6, <3>7 DEF OnePlace
    <2>2. CASE ~ \E i \in DOMAIN queue[k] : m \in Range(queue[k][i].msgs)
      <3>1. \A j \in Convs : \A i :
              i \in DOMAIN queue'[j] /\ m \in Range(queue'[j][i].msgs)
              <=> i \in DOMAIN queue[j] /\ m \in Range(queue[j][i].msgs)
        BY <1>4, <1>5, <2>2
      <3>2. \A j \in Convs : \A u :
              u \in running'[j] /\ m \in Range(u.msgs)
              <=> u \in running[j] /\ m \in Range(u.msgs)
        BY <1>6, <1>8
      <3>3. QED
        BY <1>3, <3>1, <3>2, Untouched
    <2>3. QED
      BY <2>1, <2>2
  <1>9. QED
    BY <1>7, <1>8

(* processQueuedTurn returns.                                              *)
LEMMA FinishPlaces ==
  ASSUME TypeOK, PlaceInv, NEW k \in Convs, NEW t \in running[k],
         NEW ok \in BOOLEAN, FinishTurn(k, t, ok)
  PROVE  PlaceInv'
  <1>1. turns \in [Convs -> Seq(Outcome)] /\ running \in [Convs -> SUBSET Turn]
    BY DEF TypeOK
  <1>2. PICK o \in Outcome : o = [conn |-> t.conn, msgs |-> t.msgs, ok |-> ok]
    <2>1. t \in Turn
      BY <1>1
    <2>2. QED
      BY <2>1 DEF Turn, Outcome
  <1>3. /\ running' = [running EXCEPT ![k] = running[k] \ {t}]
        /\ turns' = [turns EXCEPT ![k] = Append(turns[k], o)]
        /\ UNCHANGED <<log, adding, buffers, inflight, queue, forgotten>>
    BY <1>2 DEF FinishTurn
  <1>4. PICK n \in Nat : n = Len(turns[k]) + 1
    BY <1>1
  <1>5. /\ DOMAIN turns'[k] = DOMAIN turns[k] \cup {n}
        /\ n \notin DOMAIN turns[k]
        /\ turns'[k][n] = o
        /\ \A i \in DOMAIN turns[k] : turns'[k][i] = turns[k][i]
        /\ \A j \in Convs : j # k => turns'[j] = turns[j]
    BY <1>1, <1>3, <1>4
  <1>6. /\ running'[k] = running[k] \ {t}
        /\ \A j \in Convs : j # k => running'[j] = running[j]
    BY <1>1, <1>3
  <1>7. o.msgs = t.msgs
    BY <1>2
  <1> SUFFICES ASSUME NEW m \in 1 .. MaxMessages
               PROVE  /\ OnePlace(m) => OnePlace(m)'
                      /\ Nowhere(m) => Nowhere(m)'
    BY <1>3 DEF PlaceInv, Ids
  <1>8. CASE m \in Range(t.msgs)
    <2>1. ~Nowhere(m)
      BY <1>8 DEF Nowhere, NotRunning
    <2>2. OnePlace(m) => OnlyRunning(m, k, t)
      BY <1>8, FoundOnly
    <2>3. OnlyRunning(m, k, t) => OnlyInTurn(m, k, n)'
      BY <1>3, <1>5, <1>6, <1>7, <1>8
      DEF OnlyRunning, OnlyInTurn, NotAdding, NotBuffered, NotInflight,
          NotQueued, NotRunning, NotInTurns
    <2>4. QED
      BY <1>5, <2>1, <2>2, <2>3 DEF OnePlace
  <1>9. CASE m \notin Range(t.msgs)
    <2>1. \A j \in Convs : \A u :
            u \in running'[j] /\ m \in Range(u.msgs)
            <=> u \in running[j] /\ m \in Range(u.msgs)
      BY <1>6, <1>9
    <2>2. \A j \in Convs : \A i :
            i \in DOMAIN turns'[j] /\ m \in Range(turns'[j][i].msgs)
            <=> i \in DOMAIN turns[j] /\ m \in Range(turns[j][i].msgs)
      BY <1>5, <1>7, <1>9
    <2>3. QED
      BY <1>3, <2>1, <2>2, Untouched
  <1>10. QED
    BY <1>8, <1>9

(* A crash forgets what no finished turn has.                              *)
LEMMA CrashPlaces ==
  ASSUME TypeOK, PlaceInv, Crash
  PROVE  PlaceInv'
  <1>1. /\ \A c \in Conns : adding'[c] = 0
        /\ \A c \in Conns, k \in Convs : Range(buffers'[c][k].msgs) = {}
        /\ inflight' = {}
        /\ \A k \in Convs : queue'[k] = <<>> /\ running'[k] = {}
        /\ forgotten' = {m \in Ids : ~Processed(m)}
        /\ UNCHANGED <<log, turns>>
    BY Ranges DEF Crash, NoBuffer
  <1> SUFFICES ASSUME NEW m \in 1 .. MaxMessages
               PROVE  IF m \in Ids THEN OnePlace(m)' ELSE Nowhere(m)'
    BY <1>1 DEF PlaceInv, Ids
  <1>a. m # 0
    BY PipelineAssumption
  <1>2. /\ NotAdding(m)' /\ NotBuffered(m)' /\ NotInflight(m)'
        /\ NotQueued(m)' /\ NotRunning(m)'
    BY <1>1, <1>a
    DEF NotAdding, NotBuffered, NotInflight, NotQueued, NotRunning
  <1>t. turns \in [Convs -> Seq(Outcome)]
    BY DEF TypeOK
  <1>3. Processed(m) <=> ~NotInTurns(m)
    BY <1>t DEF Processed, NotInTurns
  <1>4. CASE m \notin Ids
    BY <1>1, <1>2, <1>4 DEF PlaceInv, Nowhere, NotInTurns
  <1>5. CASE m \in Ids /\ ~Processed(m)
    <2>1. OnlyForgotten(m)'
      BY <1>1, <1>2, <1>3, <1>5 DEF OnlyForgotten, NotInTurns
    <2>2. QED
      BY <1>5, <2>1 DEF OnePlace
  <1>6. CASE m \in Ids /\ Processed(m)
    <2>0. PICK k \in Convs : \E i \in DOMAIN turns[k] : m \in Range(turns[k][i].msgs)
      BY <1>3, <1>6 DEF NotInTurns
    <2>1. PICK i \in DOMAIN turns[k] : m \in Range(turns[k][i].msgs)
      BY <2>0
    <2>2. OnlyInTurn(m, k, i)
      BY <1>6, <2>1, FoundOnly DEF PlaceInv
    <2>3. OnlyInTurn(m, k, i)' /\ i \in DOMAIN turns'[k]
      BY <1>1, <1>2, <1>6, <2>1, <2>2 DEF OnlyInTurn
    <2>4. QED
      BY <1>6, <2>3 DEF OnePlace
  <1>7. QED
    BY <1>4, <1>5, <1>6

(* The other steps leave every message where it is.                        *)
LEMMA OtherPlaces ==
  ASSUME PlaceInv,
         UNCHANGED <<log, adding, inflight, queue, running, turns, forgotten>>,
         \A c \in Conns, k \in Convs : buffers'[c][k].msgs = buffers[c][k].msgs
  PROVE  PlaceInv'
  BY Untouched DEF PlaceInv, Ids

LEMMA NextPlaceInv == TypeOK /\ PlaceInv /\ [Next]_vars => PlaceInv'
  <1> SUFFICES ASSUME TypeOK, PlaceInv, [Next]_vars PROVE PlaceInv'
    OBVIOUS
  <1>1. CASE UNCHANGED vars
    BY <1>1, OtherPlaces DEF vars
  <1>2. ASSUME NEW c \in Conns, Connect(c) \/ CloseConn(c) PROVE PlaceInv'
    BY <1>2, OtherPlaces DEF Connect, CloseConn
  <1>3. ASSUME NEW c \in Conns, NEW k \in Convs, IdleFires(c, k) \/ HardFires(c, k)
        PROVE  PlaceInv'
    <2>1. UNCHANGED <<log, adding, inflight, queue, running, turns, forgotten>>
      BY <1>3 DEF IdleFires, HardFires
    <2>2. QED
      BY <1>3, <2>1, TimersKeepMessages, OtherPlaces
  <1>4. ASSUME NEW c \in Conns, NEW k \in Convs, Flush(c, k) PROVE PlaceInv'
    <2>1. CASE buffers[c][k].msgs = <<>>
      BY <1>4, <2>1, OtherPlaces DEF Flush
    <2>2. CASE buffers[c][k].msgs # <<>>
      BY <1>4, <2>2, FlushPlaces
    <2>3. QED
      BY <2>1, <2>2
  <1>5. ASSUME NEW b \in inflight, LateFires(b) \/ BeginEnqueue(b) PROVE PlaceInv'
    <2>1. PICK q : q.msgs = b.msgs /\ inflight' = (inflight \ {b}) \cup {q}
      <3>1. b \in Flight
        BY DEF TypeOK
      <3>2. /\ [b EXCEPT !.idle = FALSE].msgs = b.msgs
            /\ [b EXCEPT !.hard = FALSE].msgs = b.msgs
            /\ [b EXCEPT !.stage = "sending", !.idle = FALSE, !.hard = FALSE].msgs = b.msgs
        BY <3>1 DEF Flight
      <3>3. CASE LateFires(b)
        BY <3>2, <3>3 DEF LateFires
      <3>4. CASE BeginEnqueue(b)
        BY <3>2, <3>4 DEF BeginEnqueue
      <3>5. QED
        BY <1>5, <3>3, <3>4
    <2>2. UNCHANGED <<log, adding, buffers, queue, running, turns, forgotten>>
      BY <1>5 DEF LateFires, BeginEnqueue
    <2>3. QED
      BY <2>1, <2>2, FlightPlaces
  <1>6. QED
    BY <1>1, <1>2, <1>3, <1>4, <1>5, SavePlaces, AddPlaces, DisconnectPlaces,
       SendPlaces, StartPlaces, FinishPlaces, CrashPlaces
    DEF Next

(* What holds a message is the place the invariant names.                  *)
LEMMA PlaceIsHolder ==
  ASSUME NEW m, OnePlace(m)
  PROVE  \E h : Holders(m) = {h}
  <1> USE DEF NotAdding, NotBuffered, NotInflight, NotQueued, NotRunning, NotInTurns
  <1>1. ASSUME NEW c \in Conns, OnlyAdding(m, c) PROVE Holders(m) = {<<"adding", c>>}
    BY <1>1 DEF OnlyAdding, Holders
  <1>2. ASSUME NEW c \in Conns, NEW k \in Convs, OnlyBuffered(m, c, k)
        PROVE  Holders(m) = {<<"buffer", <<c, k>>>>}
    BY <1>2 DEF OnlyBuffered, Holders
  <1>3. ASSUME NEW b \in inflight, OnlyInflight(m, b)
        PROVE  Holders(m) = {<<"inflight", b>>}
    BY <1>3 DEF OnlyInflight, Holders
  <1>4. ASSUME NEW k \in Convs, NEW i \in DOMAIN queue[k], OnlyQueued(m, k, i)
        PROVE  Holders(m) = {<<"queue", k, i>>}
    BY <1>4 DEF OnlyQueued, Holders
  <1>5. ASSUME NEW k \in Convs, NEW t \in running[k], OnlyRunning(m, k, t)
        PROVE  Holders(m) = {<<"running", k, t>>}
    BY <1>5 DEF OnlyRunning, Holders
  <1>6. ASSUME NEW k \in Convs, NEW i \in DOMAIN turns[k], OnlyInTurn(m, k, i)
        PROVE  Holders(m) = {<<"turn", k, i>>}
    BY <1>6 DEF OnlyInTurn, Holders
  <1>7. ASSUME OnlyForgotten(m) PROVE Holders(m) = {<<"forgotten">>}
    BY <1>7 DEF OnlyForgotten, Holders
  <1>8. QED
    BY <1>1, <1>2, <1>3, <1>4, <1>5, <1>6, <1>7 DEF OnePlace

(* For any number of connections, conversations and messages and any       *)
(* limits: a stored message is in exactly one place, whatever interleaving *)
(* of timers, the message limit, disconnects, runners and crashes.         *)
THEOREM MessagesAreKeptOnce == Spec => []ExactlyOnce
  <1>1. TypeOK /\ PlaceInv => ExactlyOnce
    <2> SUFFICES ASSUME TypeOK, PlaceInv, NEW m \in Ids
                 PROVE  Cardinality(Holders(m)) = 1
      BY DEF ExactlyOnce
    <2>1. OnePlace(m)
      BY PipelineAssumption DEF TypeOK, Ids, PlaceInv
    <2>2. QED
      BY <2>1, PlaceIsHolder, FS_Singleton
  <1>2. QED
    BY <1>1, InitTypeOK, NextTypeOK, InitPlaceInv, NextPlaceInv, PTL DEF Spec

-----------------------------------------------------------------------------
(* A connection that is not open has nothing in its map, and while one of  *)
(* closeAll's own flushes is under way its connection is not given up.     *)
DrainInv ==
  /\ \A c \in Conns : phase[c] # "open" =>
       adding[c] = 0 /\ \A k \in Convs : buffers[c][k] = NoBuffer
  /\ \A b \in inflight : b.via = "close" => phase[b.conn] # "closed"

LEMMA InitDrainInv == Init => DrainInv
  BY DEF Init, DrainInv

LEMMA NextDrainInv == TypeOK /\ DrainInv /\ [Next]_vars => DrainInv'
  <1> SUFFICES ASSUME TypeOK, DrainInv, [Next]_vars PROVE DrainInv'
    OBVIOUS
  <1>a. /\ phase \in [Conns -> {"new", "open", "closing", "closed"}]
        /\ adding \in [Conns -> 0 .. Len(log)]
        /\ buffers \in [Conns -> [Convs -> Buffer]]
        /\ inflight \subseteq Flight
    BY DEF TypeOK
  <1>b. ASSUME NEW c, NEW k, NEW buf, NEW via PROVE Taken(c, k, buf, via).via = via
    BY DEF Taken
  <1>1. CASE UNCHANGED vars
    BY <1>1 DEF vars, DrainInv
  <1>2. ASSUME NEW c \in Conns, Connect(c) PROVE DrainInv'
    BY <1>2, <1>a DEF Connect, DrainInv, Flight
  <1>3. ASSUME NEW c \in Conns, NEW k \in Convs, SaveMessage(c, k) PROVE DrainInv'
    BY <1>3, <1>a DEF SaveMessage, DrainInv
  <1>4. ASSUME NEW c \in Conns, Add(c) PROVE DrainInv'
    <2>1. /\ adding[c] # 0
          /\ adding' = [adding EXCEPT ![c] = 0]
          /\ UNCHANGED phase
      BY <1>4, Zenon DEF Add
    <2>2. PICK k : AddFirst(c, k) \/ AddMore(c, k) \/ AddFull(c, k)
      BY <1>4, Zenon DEF Add
    <2>3. phase[c] = "open"
      BY <2>1 DEF DrainInv
    <2>4. \A d \in Conns : d # c => buffers'[d] = buffers[d]
      BY <1>a, <2>2 DEF AddFirst, AddMore, AddFull
    <2>5. \A b \in inflight' : b.via = "close" => b \in inflight
      <3>1. CASE AddFull(c, k)
        <4>1. PICK buf : inflight' = inflight \cup {Taken(c, k, buf, "go")}
          BY <3>1, Zenon DEF AddFull
        <4>2. QED
          BY <4>1, <1>b
      <3>2. QED
        BY <2>2, <3>1 DEF AddFirst, AddMore
    <2>6. QED
      BY <1>a, <2>1, <2>3, <2>4, <2>5 DEF DrainInv
  <1>5. ASSUME NEW c \in Conns, Disconnect(c) PROVE DrainInv'
    <2>1. /\ adding[c] = 0 /\ adding' = adding
          /\ phase' = [phase EXCEPT ![c] = "closing"]
          /\ buffers' = [buffers EXCEPT ![c] = [k \in Convs |-> NoBuffer]]
      BY <1>5 DEF Disconnect
    <2>2. \A b \in inflight' : b \in inflight \/ b.conn = c
      BY <1>5 DEF Disconnect, Taken
    <2>3. QED
      BY <1>a, <2>1, <2>2 DEF DrainInv, Flight
  <1>6. ASSUME NEW c \in Conns, CloseConn(c) PROVE DrainInv'
    <2>1. /\ phase[c] = "closing"
          /\ \A b \in inflight : b.via = "close" => b.conn # c
          /\ phase' = [phase EXCEPT ![c] = "closed"]
          /\ UNCHANGED <<adding, buffers, inflight>>
      BY <1>6 DEF CloseConn
    <2>2. QED
      BY <1>a, <2>1 DEF DrainInv, Flight
  <1>7. ASSUME NEW c \in Conns, NEW k \in Convs, IdleFires(c, k) \/ HardFires(c, k)
        PROVE  DrainInv'
    <2>1. phase[c] = "open"
      BY <1>7 DEF DrainInv, NoBuffer, IdleFires, HardFires
    <2>2. \A d \in Conns : d # c => buffers'[d] = buffers[d]
      BY <1>7, <1>a DEF IdleFires, HardFires
    <2>3. UNCHANGED <<phase, adding, inflight>>
      BY <1>7 DEF IdleFires, HardFires
    <2>4. QED
      BY <2>1, <2>2, <2>3 DEF DrainInv
  <1>8. ASSUME NEW c \in Conns, NEW k \in Convs, Flush(c, k) PROVE DrainInv'
    <2>1. \A d \in Conns, j \in Convs :
            buffers[d][j] = NoBuffer => buffers'[d][j] = NoBuffer
      BY <1>8, <1>a DEF Flush
    <2>2. \A b \in inflight' : b.via = "close" => b \in inflight
      BY <1>8, <1>b DEF Flush
    <2>3. QED
      BY <1>8, <2>1, <2>2 DEF Flush, DrainInv
  <1>9. ASSUME NEW b \in inflight, LateFires(b) \/ BeginEnqueue(b) PROVE DrainInv'
    <2>1. b \in Flight
      BY <1>a
    <2>2. \A o \in inflight' :
            o \in inflight \/ (o.conn = b.conn /\ o.via = b.via)
      <3> DEFINE Same(q) == q.conn = b.conn /\ q.via = b.via
      <3>1. /\ Same([b EXCEPT !.idle = FALSE])
            /\ Same([b EXCEPT !.hard = FALSE])
            /\ Same([b EXCEPT !.stage = "sending", !.idle = FALSE, !.hard = FALSE])
        BY <2>1 DEF Flight
      <3>2. PICK q : Same(q) /\ inflight' = (inflight \ {b}) \cup {q}
        <4> HIDE DEF Same
        <4>1. CASE LateFires(b)
          BY <3>1, <4>1 DEF LateFires
        <4>2. CASE BeginEnqueue(b)
          BY <3>1, <4>2 DEF BeginEnqueue
        <4>3. QED
          BY <1>9, <4>1, <4>2
      <3>3. QED
        BY <3>2
    <2>3. UNCHANGED <<phase, adding, buffers>>
      BY <1>9 DEF LateFires, BeginEnqueue
    <2>4. QED
      BY <2>2, <2>3 DEF DrainInv
  <1>10. ASSUME NEW b \in inflight, Send(b) PROVE DrainInv'
    BY <1>10 DEF Send, DrainInv
  <1>11. ASSUME NEW k \in Convs, StartTurn(k) PROVE DrainInv'
    BY <1>11 DEF StartTurn, DrainInv
  <1>12. ASSUME NEW k \in Convs, NEW t \in running[k], NEW ok \in BOOLEAN,
                FinishTurn(k, t, ok)
         PROVE  DrainInv'
    BY <1>12 DEF FinishTurn, DrainInv
  <1>13. CASE Crash
    BY <1>13 DEF Crash, DrainInv
  <1>14. QED
    BY <1>1, <1>2, <1>3, <1>4, <1>5, <1>6, <1>7, <1>8, <1>9, <1>10, <1>11,
       <1>12, <1>13
    DEF Next

(* Whatever is buffered, flushing or adding when a connection ends, it is  *)
(* given up only when all of it is in a queue or with a flush goroutine.   *)
THEOREM ClosedConnectionsAreDrained == Spec => []ClosedIsDrained
  <1>1. TypeOK /\ DrainInv => ClosedIsDrained
    BY DEF DrainInv, ClosedIsDrained
  <1>2. QED
    BY <1>1, InitTypeOK, NextTypeOK, InitDrainInv, NextDrainInv, PTL DEF Spec

-----------------------------------------------------------------------------
(* The order of a connection's messages.  s is a run of c's messages to k. *)
RunOf(s, c, k) ==
  /\ s # <<>>
  /\ \A i \in DOMAIN s : s[i] \in Ids /\ log[s[i]] = [conn |-> c, conv |-> k]
  /\ \A i \in 1 .. Len(s) - 1 :
       /\ s[i] < s[i + 1]
       /\ \A m \in s[i] + 1 .. s[i + 1] - 1 : log[m] # [conn |-> c, conv |-> k]

(* What a buffer in the map holds ends with the last message of c to k,    *)
(* but for one that is being added; what is being added is c's last.       *)
Newest(s, c, k) ==
  /\ RunOf(s, c, k)
  /\ \A m \in Ids : log[m] = [conn |-> c, conv |-> k] /\ m > s[Len(s)] => m = adding[c]
  /\ adding[c] # 0 => \A i \in DOMAIN s : s[i] < adding[c]

(* A batch that has left the map is older than what is still to leave it.  *)
Behind(s, c, k) ==
  /\ RunOf(s, c, k)
  /\ Len(s) <= MaxAggregate
  /\ \A i \in DOMAIN s :
       /\ adding[c] # 0 => s[i] < adding[c]
       /\ \A j \in DOMAIN buffers[c][k].msgs : s[i] < buffers[c][k].msgs[j]

AddingInv ==
  \A c \in Conns : adding[c] # 0 =>
    /\ log[adding[c]].conn = c
    /\ \A m \in Ids : log[m].conn = c => m <= adding[c]

BufferedInv ==
  \A c \in Conns, k \in Convs :
    buffers[c][k].msgs # <<>> => Newest(buffers[c][k].msgs, c, k)

LeftInv == \A c \in Conns, k \in Convs : \A s \in Left(c, k) : Behind(s, c, k)

OrderInv == AddingInv /\ BufferedInv /\ LeftInv

LEMMA LeftMembers ==
  ASSUME NEW c \in Conns, NEW k \in Convs, NEW s
  PROVE  s \in Left(c, k) <=>
           \/ \E b \in inflight : b.conn = c /\ b.conv = k /\ s = b.msgs
           \/ \E i \in DOMAIN queue[k] : queue[k][i].conn = c /\ s = queue[k][i].msgs
           \/ \E t \in running[k] : t.conn = c /\ s = t.msgs
           \/ \E i \in DOMAIN turns[k] : turns[k][i].conn = c /\ s = turns[k][i].msgs
  <1>1. \A f, t : t \in Range(f) <=> \E i \in DOMAIN f : t = f[i]
    BY DEF Range
  <1>2. QED
    BY <1>1 DEF Left

LEMMA LeftMembersNext ==
  ASSUME NEW c \in Conns, NEW k \in Convs, NEW s
  PROVE  s \in Left(c, k)' <=>
           \/ \E b \in inflight' : b.conn = c /\ b.conv = k /\ s = b.msgs
           \/ \E i \in DOMAIN queue'[k] : queue'[k][i].conn = c /\ s = queue'[k][i].msgs
           \/ \E t \in running'[k] : t.conn = c /\ s = t.msgs
           \/ \E i \in DOMAIN turns'[k] : turns'[k][i].conn = c /\ s = turns'[k][i].msgs
  <1>1. \A f, t : t \in Range(f) <=> \E i \in DOMAIN f : t = f[i]
    BY DEF Range
  <1>2. QED
    BY <1>1 DEF Left

LEMMA LeftType ==
  ASSUME TypeOK, NEW c \in Conns, NEW k \in Convs, NEW s \in Left(c, k)
  PROVE  s \in Seq(Nat)
  <1>1. /\ inflight \subseteq Flight
        /\ queue[k] \in Seq(Turn)
        /\ running[k] \subseteq Turn
        /\ turns[k] \in Seq(Outcome)
    BY DEF TypeOK
  <1>2. /\ \A i \in DOMAIN queue[k] : queue[k][i] \in Turn
        /\ \A i \in DOMAIN turns[k] : turns[k][i] \in Outcome
    BY <1>1
  <1>3. QED
    BY <1>1, <1>2, LeftMembers DEF Flight, Turn, Outcome

(* A run is one still when the log grows.                                  *)
LEMMA RunSurvives ==
  ASSUME log \in Seq([conn : Conns, conv : Convs]), NEW x, log' = Append(log, x),
         NEW s \in Seq(Nat), NEW c, NEW k, RunOf(s, c, k)
  PROVE  RunOf(s, c, k)'
  <1>1. /\ Len(log') = Len(log) + 1 /\ Len(log) \in Nat
        /\ \A m \in Ids : m \in Ids' /\ log'[m] = log[m]
    BY DEF Ids
  <1>2. \A i \in DOMAIN s : s[i] \in Ids' /\ log'[s[i]] = [conn |-> c, conv |-> k]
    BY <1>1 DEF RunOf
  <1>3. ASSUME NEW i \in 1 .. Len(s) - 1, NEW m \in s[i] + 1 .. s[i + 1] - 1
        PROVE  log'[m] # [conn |-> c, conv |-> k]
    <2>1. s[i] \in Ids /\ s[i + 1] \in Ids
      BY DEF RunOf
    <2>2. m \in Ids
      BY <1>1, <2>1 DEF Ids
    <2>3. QED
      BY <1>1, <2>2 DEF RunOf
  <1>4. QED
    BY <1>2, <1>3 DEF RunOf

(* ... and when c's next message to k is appended to it.                   *)
LEMMA RunGrows ==
  ASSUME NEW s \in Seq(Nat), NEW c, NEW k, RunOf(s, c, k),
         NEW a \in Ids, log[a] = [conn |-> c, conv |-> k], s[Len(s)] < a,
         \A m \in Ids : log[m] = [conn |-> c, conv |-> k] /\ m > s[Len(s)] => m = a,
         Len(log) \in Nat
  PROVE  RunOf(Append(s, a), c, k)
  <1> DEFINE r == Append(s, a)
  <1>0. s # <<>>
    BY DEF RunOf
  <1>1. /\ Len(s) \in Nat \ {0}
        /\ Len(r) = Len(s) + 1
        /\ DOMAIN r = 1 .. Len(s) + 1
        /\ \A i \in 1 .. Len(s) : r[i] = s[i]
        /\ r[Len(s) + 1] = a
        /\ r # <<>>
    BY <1>0
  <1> HIDE DEF r
  <1>2. \A i \in DOMAIN r : r[i] \in Ids /\ log[r[i]] = [conn |-> c, conv |-> k]
    <2>1. \A i \in 1 .. Len(s) : s[i] \in Ids /\ log[s[i]] = [conn |-> c, conv |-> k]
      BY DEF RunOf
    <2>2. QED
      BY <1>1, <2>1
  <1>3. ASSUME NEW i \in 1 .. Len(r) - 1
        PROVE  /\ r[i] < r[i + 1]
               /\ \A m \in r[i] + 1 .. r[i + 1] - 1 : log[m] # [conn |-> c, conv |-> k]
    <2>1. CASE i = Len(s)
      <3>1. r[i] = s[Len(s)] /\ r[i + 1] = a /\ s[Len(s)] \in Ids
        BY <1>1, <2>1 DEF RunOf
      <3>2. \A m \in r[i] + 1 .. r[i + 1] - 1 : m \in Ids /\ m > s[Len(s)] /\ m # a
        BY <3>1 DEF Ids
      <3>3. QED
        BY <3>1, <3>2
    <2>2. CASE i # Len(s)
      <3>1. i \in 1 .. Len(s) - 1 /\ r[i] = s[i] /\ r[i + 1] = s[i + 1]
        BY <1>1, <2>2
      <3>2. QED
        BY <3>1 DEF RunOf
    <2>3. QED
      BY <2>1, <2>2
  <1>4. QED
    BY <1>1, <1>2, <1>3 DEF RunOf, r

(* Only the messages matter for the order: a step that changes none of     *)
(* them but empties buffers or the read loop's hands keeps a batch behind. *)
LEMMA BehindKept ==
  ASSUME NEW c \in Conns, NEW k \in Convs, NEW s, Behind(s, c, k), log' = log,
         adding'[c] = adding[c] \/ adding'[c] = 0,
         buffers'[c][k].msgs = buffers[c][k].msgs \/ buffers'[c][k].msgs = <<>>
  PROVE  Behind(s, c, k)'
  <1>1. RunOf(s, c, k)'
    BY DEF Behind, RunOf, Ids
  <1>2. QED
    BY <1>1 DEF Behind

LEMMA NewestKept ==
  ASSUME NEW c \in Conns, NEW k \in Convs, NEW s, Newest(s, c, k), log' = log,
         adding'[c] = adding[c]
  PROVE  Newest(s, c, k)'
  <1>1. RunOf(s, c, k)'
    BY DEF Newest, RunOf, Ids
  <1>2. QED
    BY <1>1 DEF Newest, Ids

(* A buffer that is taken is behind what is still to come.                 *)
LEMMA TakenIsBehind ==
  ASSUME NEW c \in Conns, NEW k \in Convs, BufferWillFlush, TypeOK,
         NEW s, s = buffers[c][k].msgs, s # <<>>, Newest(s, c, k),
         log' = log, adding'[c] = adding[c], buffers'[c][k].msgs = <<>>
  PROVE  Behind(s, c, k)'
  <1>1. s \in Seq(Nat)
    BY TableEntries DEF Buffer
  <1>2. Newest(s, c, k)'
    BY <1>1, NewestKept
  <1>3. Len(s) <= MaxAggregate
    BY <1>1, PipelineAssumption DEF BufferWillFlush
  <1>4. QED
    BY <1>2, <1>3 DEF Newest, Behind

LEMMA InitOrderInv == Init => OrderInv
  <1> SUFFICES ASSUME Init PROVE AddingInv /\ BufferedInv /\ LeftInv
    BY DEF OrderInv
  <1>1. AddingInv
    BY DEF Init, AddingInv
  <1>2. BufferedInv
    BY DEF Init, BufferedInv, NoBuffer
  <1>3. LeftInv
    BY LeftMembers DEF Init, LeftInv
  <1>4. QED
    BY <1>1, <1>2, <1>3

(* A batch that moves on the way from flush to the end of its turn keeps   *)
(* its place in the order.                                                 *)
LEMMA OrderMoves ==
  ASSUME OrderInv, UNCHANGED <<log, adding>>,
         \A c \in Conns, k \in Convs : buffers'[c][k].msgs = buffers[c][k].msgs,
         \A c \in Conns, k \in Convs : Left(c, k)' \subseteq Left(c, k)
  PROVE  OrderInv'
  <1>1. AddingInv'
    BY DEF OrderInv, AddingInv, Ids
  <1>2. BufferedInv'
    BY NewestKept DEF OrderInv, BufferedInv
  <1>3. LeftInv'
    BY BehindKept DEF OrderInv, LeftInv
  <1>4. QED
    BY <1>1, <1>2, <1>3 DEF OrderInv

LEMMA SaveOrder ==
  ASSUME TypeOK, OrderInv, NEW c \in Conns, NEW k \in Convs, SaveMessage(c, k)
  PROVE  OrderInv'
  <1>1. /\ adding[c] = 0
        /\ adding' = [adding EXCEPT ![c] = Len(log) + 1]
        /\ log' = Append(log, [conn |-> c, conv |-> k])
        /\ UNCHANGED <<buffers, inflight, queue, running, turns>>
    BY DEF SaveMessage
  <1>2. /\ Len(log) \in Nat
        /\ adding \in [Conns -> 0 .. Len(log)]
        /\ log \in Seq([conn : Conns, conv : Convs])
    BY DEF TypeOK
  <1>3. /\ Len(log') = Len(log) + 1
        /\ Ids' = Ids \cup {Len(log) + 1}
        /\ log'[Len(log) + 1] = [conn |-> c, conv |-> k]
        /\ \A m \in Ids : log'[m] = log[m] /\ m <= Len(log) /\ m \in Nat
    BY <1>1, <1>2 DEF Ids
  <1>4. /\ adding'[c] = Len(log) + 1
        /\ \A d \in Conns : d # c => adding'[d] = adding[d]
        /\ \A d \in Conns : adding[d] # 0 => adding[d] \in Ids
    BY <1>1, <1>2 DEF Ids
  <1>5. AddingInv'
    <2> SUFFICES ASSUME NEW d \in Conns, adding'[d] # 0
                 PROVE  /\ log'[adding'[d]].conn = d
                        /\ \A m \in Ids' : log'[m].conn = d => m <= adding'[d]
      BY DEF AddingInv
    <2>1. CASE d = c
      BY <1>2, <1>3, <1>4, <2>1
    <2>2. CASE d # c
      <3>1. adding'[d] = adding[d] /\ adding[d] \in Ids /\ adding[d] # 0
        BY <1>4, <2>2
      <3>2. /\ log[adding[d]].conn = d
            /\ \A m \in Ids : log[m].conn = d => m <= adding[d]
        BY <3>1 DEF OrderInv, AddingInv
      <3>3. ASSUME NEW m \in Ids', log'[m].conn = d PROVE m \in Ids /\ log[m].conn = d
        <4>1. m # Len(log) + 1
          BY <1>3, <2>2, <3>3
        <4>2. QED
          BY <1>3, <3>3, <4>1
      <3>4. QED
        BY <1>3, <3>1, <3>2, <3>3
    <2>3. QED
      BY <2>1, <2>2
  <1>6. BufferedInv'
    <2> SUFFICES ASSUME NEW d \in Conns, NEW j \in Convs, NEW s, s = buffers[d][j].msgs,
                        s # <<>>
                 PROVE  Newest(s, d, j)'
      BY <1>1 DEF BufferedInv
    <2>1. s \in Seq(Nat)
      BY TableEntries DEF Buffer
    <2>2. Newest(s, d, j)
      BY DEF OrderInv, BufferedInv
    <2>3. RunOf(s, d, j)'
      BY <1>1, <1>2, <2>1, <2>2, RunSurvives DEF Newest
    <2>4. \A m \in Ids' : log'[m] = [conn |-> d, conv |-> j] /\ m > s[Len(s)]
                          => m = adding'[d]
      <3> SUFFICES ASSUME NEW m \in Ids', log'[m] = [conn |-> d, conv |-> j],
                          m > s[Len(s)]
                   PROVE  m = adding'[d]
        OBVIOUS
      <3>1. CASE m = Len(log) + 1
        BY <1>3, <1>4, <3>1
      <3>2. CASE m # Len(log) + 1
        <4>1. m \in Ids /\ log[m] = [conn |-> d, conv |-> j]
          BY <1>3, <3>2
        <4>2. m = adding[d] /\ m # 0
          BY <2>2, <4>1 DEF Newest, Ids
        <4>3. QED
          BY <1>1, <1>4, <4>2
      <3>3. QED
        BY <3>1, <3>2
    <2>5. adding'[d] # 0 => \A i \in DOMAIN s : s[i] < adding'[d]
      <3>1. \A i \in DOMAIN s : s[i] \in Ids
        BY <2>2 DEF Newest, RunOf
      <3>2. CASE d = c
        BY <1>2, <1>3, <1>4, <3>1, <3>2
      <3>3. CASE d # c
        BY <1>4, <2>2, <3>3 DEF Newest
      <3>4. QED
        BY <3>2, <3>3
    <2>6. QED
      BY <2>3, <2>4, <2>5 DEF Newest
  <1>7. LeftInv'
    <2> SUFFICES ASSUME NEW d \in Conns, NEW j \in Convs, NEW s \in Left(d, j)
                 PROVE  Behind(s, d, j)'
      BY <1>1 DEF LeftInv, Left
    <2>1. s \in Seq(Nat) /\ Behind(s, d, j)
      BY LeftType DEF OrderInv, LeftInv
    <2>2. RunOf(s, d, j)'
      BY <1>1, <1>2, <2>1, RunSurvives DEF Behind
    <2>3. \A i \in DOMAIN s : adding'[d] # 0 => s[i] < adding'[d]
      <3>1. \A i \in DOMAIN s : s[i] \in Ids
        BY <2>1 DEF Behind, RunOf
      <3>2. CASE d = c
        BY <1>2, <1>3, <1>4, <3>1, <3>2
      <3>3. CASE d # c
        BY <1>4, <2>1, <3>3 DEF Behind
      <3>4. QED
        BY <3>2, <3>3
    <2>4. QED
      BY <1>1, <2>1, <2>2, <2>3 DEF Behind
  <1>8. QED
    BY <1>5, <1>6, <1>7 DEF OrderInv

(* The connection whose message is added: the step for its other           *)
(* conversations and for the other connections.                            *)
LEMMA AddLeavesOthers ==
  ASSUME TypeOK, OrderInv, NEW c \in Conns, adding[c] # 0, NEW k \in Convs,
         k = log[adding[c]].conv, log' = log,
         adding' = [adding EXCEPT ![c] = 0],
         NEW d \in Conns, NEW j \in Convs, ~(d = c /\ j = k),
         NEW s, Newest(s, d, j)
  PROVE  Newest(s, d, j)'
  <1>1. adding \in [Conns -> 0 .. Len(log)]
    BY DEF TypeOK
  <1>2. CASE d # c
    BY <1>1, <1>2, NewestKept
  <1>3. CASE d = c
    <2>1. RunOf(s, d, j)'
      BY DEF Newest, RunOf, Ids
    <2>2. \A m \in Ids : log[m] = [conn |-> d, conv |-> j] => m # adding[c]
      BY <1>3
    <2>3. \A m \in Ids : ~(log[m] = [conn |-> d, conv |-> j] /\ m > s[Len(s)])
      BY <1>3, <2>2 DEF Newest
    <2>4. adding'[d] = 0
      BY <1>1, <1>3
    <2>5. QED
      BY <2>1, <2>3, <2>4 DEF Newest, Ids
  <1>4. QED
    BY <1>2, <1>3

LEMMA AddOrder ==
  ASSUME TypeOK, BufferWillFlush, OrderInv, NEW c \in Conns, Add(c)
  PROVE  OrderInv'
  <1>1. /\ adding[c] # 0
        /\ adding' = [adding EXCEPT ![c] = 0]
        /\ UNCHANGED <<log, queue, running, turns>>
    BY Zenon DEF Add
  <1>2. /\ adding \in [Conns -> 0 .. Len(log)]
        /\ log \in Seq([conn : Conns, conv : Convs])
        /\ buffers \in [Conns -> [Convs -> Buffer]]
        /\ Len(log) \in Nat
    BY DEF TypeOK
  <1>3. PICK a \in Nat : a = adding[c] /\ a \in Ids /\ a # 0
    BY <1>1, <1>2 DEF Ids
  <1>4. log[a] \in [conn : Conns, conv : Convs]
    BY <1>2, <1>3, EntryInSet DEF Ids
  <1>5. PICK k \in Convs : /\ k = log[a].conv
                           /\ AddFirst(c, k) \/ AddMore(c, k) \/ AddFull(c, k)
    <2>1. log[adding[c]].conv \in Convs
      BY <1>3, <1>4
    <2>2. PICK k : /\ k = log[adding[c]].conv
                   /\ AddFirst(c, k) \/ AddMore(c, k) \/ AddFull(c, k)
      BY Zenon DEF Add
    <2>3. QED
      BY <1>3, <2>1, <2>2
  <1>6. /\ log[a] = [conn |-> c, conv |-> k]
        /\ \A m \in Ids : log[m].conn = c => m <= a
    BY <1>3, <1>4, <1>5 DEF OrderInv, AddingInv
  <1>7. /\ adding'[c] = 0
        /\ \A d \in Conns : d # c => adding'[d] = adding[d]
    BY <1>1, <1>2
  <1>8. AddingInv'
    BY <1>1, <1>7 DEF OrderInv, AddingInv, Ids
  <1>9. PICK old \in Seq(Nat) : old = buffers[c][k].msgs
    BY TableEntries DEF Buffer
  <1>10. old # <<>> => Newest(old, c, k)
    BY <1>9 DEF OrderInv, BufferedInv
  <1>11. \A d \in Conns, j \in Convs :
           ~(d = c /\ j = k) => buffers'[d][j] = buffers[d][j]
    BY <1>2, <1>5 DEF AddFirst, AddMore, AddFull
  <1>12. ASSUME NEW d \in Conns, NEW j \in Convs, ~(d = c /\ j = k),
                NEW s, s = buffers'[d][j].msgs, s # <<>>
         PROVE  Newest(s, d, j)'
    <2>1. Newest(s, d, j)
      BY <1>11, <1>12 DEF OrderInv, BufferedInv
    <2>2. QED
      BY <1>1, <1>3, <1>5, <1>12, <2>1, AddLeavesOthers
  <1>13. RunOf(<<a>>, c, k)
    BY <1>3, <1>6 DEF RunOf
  <1>14. old # <<>> => RunOf(Append(old, a), c, k)
    <2> SUFFICES ASSUME old # <<>> PROVE RunOf(Append(old, a), c, k)
      OBVIOUS
    <2>1. old[Len(old)] < a
      <3>1. Len(old) \in DOMAIN old
        BY <1>9
      <3>2. QED
        BY <1>3, <1>10, <3>1 DEF Newest
    <2>2. \A m \in Ids : log[m] = [conn |-> c, conv |-> k] /\ m > old[Len(old)] => m = a
      BY <1>3, <1>10 DEF Newest
    <2>3. QED
      BY <1>2, <1>3, <1>6, <1>10, <2>1, <2>2, RunGrows DEF Newest
  <1>15. ASSUME NEW s, RunOf(s, c, k), s[Len(s)] = a PROVE Newest(s, c, k)'
    <2>1. RunOf(s, c, k)'
      BY <1>1, <1>15 DEF RunOf, Ids
    <2>2. \A m \in Ids : log[m] = [conn |-> c, conv |-> k] => ~(m > s[Len(s)])
      BY <1>3, <1>6, <1>15 DEF Ids
    <2>3. QED
      BY <1>1, <1>7, <2>1, <2>2 DEF Newest, Ids
  <1>16. /\ Append(old, a)[Len(Append(old, a))] = a
         /\ \A i \in DOMAIN Append(old, a) :
              Append(old, a)[i] = a \/ (i \in DOMAIN old /\ Append(old, a)[i] = old[i])
         /\ Len(Append(old, a)) = Len(old) + 1
         /\ <<a>>[Len(<<a>>)] = a
         /\ \A i \in DOMAIN <<a>> : <<a>>[i] = a
    BY <1>3
  <1>17. ASSUME NEW new,
                RunOf(new, c, k), new[Len(new)] = a,
                \A i \in DOMAIN new : new[i] = a \/ \E j \in DOMAIN old : new[i] = old[j],
                buffers'[c][k].msgs = new, inflight' = inflight
         PROVE  OrderInv'
    <2>1. BufferedInv'
      <3> SUFFICES ASSUME NEW d \in Conns, NEW j \in Convs,
                          NEW s, s = buffers'[d][j].msgs, s # <<>>
                   PROVE  Newest(s, d, j)'
        BY DEF BufferedInv
      <3>1. QED
        BY <1>12, <1>15, <1>17
    <2>2. LeftInv'
      <3> SUFFICES ASSUME NEW d \in Conns, NEW j \in Convs, NEW s \in Left(d, j)
                   PROVE  Behind(s, d, j)'
        BY <1>1, <1>17 DEF LeftInv, Left
      <3>1. Behind(s, d, j)
        BY DEF OrderInv, LeftInv
      <3>2. CASE d = c /\ j = k
        <4>1. RunOf(s, c, k)'
          BY <1>1, <3>1, <3>2 DEF Behind, RunOf, Ids
        <4>2. ASSUME NEW i \in DOMAIN s, NEW l \in DOMAIN new PROVE s[i] < new[l]
          BY <1>3, <1>9, <1>17, <3>1, <3>2 DEF Behind
        <4>3. QED
          BY <1>7, <1>17, <3>1, <3>2, <4>1, <4>2 DEF Behind
      <3>3. CASE ~(d = c /\ j = k)
        BY <1>1, <1>7, <1>11, <3>1, <3>3, BehindKept
      <3>4. QED
        BY <3>2, <3>3
    <2>3. QED
      BY <1>8, <2>1, <2>2 DEF OrderInv
  <1>18. CASE AddFirst(c, k)
    <2>1. buffers'[c][k].msgs = <<a>> /\ inflight' = inflight
      BY <1>2, <1>3, <1>18 DEF AddFirst
    <2>2. QED
      BY <1>13, <1>16, <1>17, <2>1
  <1>19. CASE AddMore(c, k)
    <2>1. /\ buffers'[c][k].msgs = Append(old, a) /\ inflight' = inflight
          /\ old # <<>>
      BY <1>2, <1>3, <1>9, <1>19 DEF AddMore
    <2>2. PICK new : new = Append(old, a)
      OBVIOUS
    <2>3. QED
      BY <1>14, <1>16, <1>17, <2>1, <2>2
  <1>20. CASE AddFull(c, k)
    <2>1. /\ old # <<>>
          /\ buffers'[c][k] = NoBuffer
          /\ inflight' = inflight \cup
               {Taken(c, k, [msgs |-> Append(old, a), idle |-> FALSE, hard |-> FALSE], "go")}
      BY <1>2, <1>3, <1>9, <1>20 DEF AddFull
    <2>2. buffers'[c][k].msgs = <<>>
      BY <2>1 DEF NoBuffer
    <2>3. BufferedInv'
      <3> SUFFICES ASSUME NEW d \in Conns, NEW j \in Convs,
                          NEW s, s = buffers'[d][j].msgs, s # <<>>
                   PROVE  Newest(s, d, j)'
        BY DEF BufferedInv
      <3>1. QED
        BY <1>12, <2>2
    <2>4. ASSUME NEW d \in Conns, NEW j \in Convs, NEW s \in Left(d, j)'
          PROVE  s \in Left(d, j) \/ (d = c /\ j = k /\ s = Append(old, a))
      BY <1>1, <2>1, <2>4, LeftMembers, LeftMembersNext DEF Taken
    <2>5. Behind(Append(old, a), c, k)'
      <3>1. PICK new : new = Append(old, a)
        OBVIOUS
      <3>2. RunOf(new, c, k)'
        BY <1>1, <1>14, <2>1, <3>1 DEF RunOf, Ids
      <3>3. Len(new) <= MaxAggregate
        BY <1>9, <1>16, <2>1, <3>1, PipelineAssumption DEF BufferWillFlush
      <3>4. Behind(new, c, k)'
        BY <1>7, <2>2, <3>2, <3>3 DEF Behind
      <3>5. QED
        BY <3>1, <3>4
    <2>6. LeftInv'
      <3> SUFFICES ASSUME NEW d \in Conns, NEW j \in Convs, NEW s \in Left(d, j)'
                   PROVE  Behind(s, d, j)'
        BY DEF LeftInv
      <3>1. CASE s \in Left(d, j)
        <4>1. buffers'[d][j].msgs = buffers[d][j].msgs \/ buffers'[d][j].msgs = <<>>
          BY <1>11, <2>2
        <4>2. Behind(s, d, j)
          BY <3>1 DEF OrderInv, LeftInv
        <4>3. QED
          BY <1>1, <1>7, <4>1, <4>2, BehindKept
      <3>2. QED
        BY <2>4, <2>5, <3>1
    <2>7. QED
      BY <1>8, <2>3, <2>6 DEF OrderInv
  <1>21. QED
    BY <1>5, <1>18, <1>19, <1>20

(* Taking buffers out of the map, by closeAll or by flush.                 *)
LEMMA TakeOrder ==
  ASSUME TypeOK, BufferWillFlush, OrderInv, UNCHANGED <<log, adding, queue, running, turns>>,
         \A c \in Conns, k \in Convs :
            buffers'[c][k].msgs = buffers[c][k].msgs \/ buffers'[c][k].msgs = <<>>,
         \A b \in inflight' :
            \/ b \in inflight
            \/ /\ b.conn \in Conns /\ b.conv \in Convs
               /\ b.msgs = buffers[b.conn][b.conv].msgs /\ b.msgs # <<>>
               /\ buffers'[b.conn][b.conv].msgs = <<>>
  PROVE  OrderInv'
  <1>1. AddingInv'
    BY DEF OrderInv, AddingInv, Ids
  <1>2. BufferedInv'
    BY NewestKept DEF OrderInv, BufferedInv
  <1>3. ASSUME NEW c \in Conns, NEW k \in Convs, NEW s \in Left(c, k)' PROVE Behind(s, c, k)'
    <2>1. CASE s \in Left(c, k)
      BY <2>1, BehindKept DEF OrderInv, LeftInv
    <2>2. CASE s \notin Left(c, k)
      <3>1. PICK b \in inflight' : b.conn = c /\ b.conv = k /\ s = b.msgs
        BY <1>3, <2>2, LeftMembers, LeftMembersNext
      <3>2. b \notin inflight
        BY <2>2, <3>1, LeftMembers
      <3>3. s = buffers[c][k].msgs /\ s # <<>> /\ buffers'[c][k].msgs = <<>>
        BY <3>1, <3>2
      <3>4. Newest(s, c, k)
        BY <3>3 DEF OrderInv, BufferedInv
      <3>5. QED
        BY <3>3, <3>4, TakenIsBehind
    <2>3. QED
      BY <2>1, <2>2
  <1>4. QED
    BY <1>1, <1>2, <1>3 DEF OrderInv, LeftInv

LEMMA NextOrderInv == TypeOK /\ BufferWillFlush /\ OrderInv /\ [Next]_vars => OrderInv'
  <1> SUFFICES ASSUME TypeOK, BufferWillFlush, OrderInv, [Next]_vars PROVE OrderInv'
    OBVIOUS
  <1>t. /\ buffers \in [Conns -> [Convs -> Buffer]]
        /\ inflight \subseteq Flight
        /\ queue \in [Convs -> Seq(Turn)]
        /\ running \in [Convs -> SUBSET Turn]
        /\ turns \in [Convs -> Seq(Outcome)]
    BY DEF TypeOK
  <1>n. NoBuffer.msgs = <<>>
    BY DEF NoBuffer
  <1>1. CASE UNCHANGED vars
    BY <1>1, OrderMoves DEF vars, Left
  <1>2. ASSUME NEW c \in Conns, Connect(c) \/ CloseConn(c) PROVE OrderInv'
    BY <1>2, OrderMoves DEF Connect, CloseConn, Left
  <1>3. ASSUME NEW c \in Conns, NEW k \in Convs, IdleFires(c, k) \/ HardFires(c, k)
        PROVE  OrderInv'
    <2>1. UNCHANGED <<log, adding, inflight, queue, running, turns>>
      BY <1>3 DEF IdleFires, HardFires
    <2>2. \A d \in Conns, j \in Convs : Left(d, j)' = Left(d, j)
      BY <2>1 DEF Left
    <2>3. QED
      BY <1>3, <2>1, <2>2, TimersKeepMessages, OrderMoves
  <1>4. ASSUME NEW c \in Conns, Disconnect(c) PROVE OrderInv'
    <2>1. UNCHANGED <<log, adding, queue, running, turns>>
      BY <1>4 DEF Disconnect
    <2>2. \A d \in Conns, k \in Convs :
            /\ d # c => buffers'[d][k] = buffers[d][k]
            /\ d = c => buffers'[d][k].msgs = <<>>
      BY <1>4, <1>t, <1>n DEF Disconnect
    <2>3. \A b \in inflight' : b \in inflight \/
             \E k \in Convs : /\ b = Taken(c, k, buffers[c][k], "close")
                              /\ buffers[c][k].msgs # <<>>
      BY <1>4 DEF Disconnect
    <2>4. \A b \in inflight' :
            \/ b \in inflight
            \/ /\ b.conn \in Conns /\ b.conv \in Convs
               /\ b.msgs = buffers[b.conn][b.conv].msgs /\ b.msgs # <<>>
               /\ buffers'[b.conn][b.conv].msgs = <<>>
      BY <2>2, <2>3 DEF Taken
    <2>5. QED
      BY <2>1, <2>2, <2>4, TakeOrder
  <1>5. ASSUME NEW c \in Conns, NEW k \in Convs, Flush(c, k) PROVE OrderInv'
    <2>1. UNCHANGED <<log, adding, queue, running, turns>>
      BY <1>5 DEF Flush
    <2>2. CASE buffers[c][k].msgs = <<>>
      BY <1>5, <2>1, <2>2, OrderMoves DEF Flush, Left
    <2>3. CASE buffers[c][k].msgs # <<>>
      <3>1. \A d \in Conns, j \in Convs :
              /\ ~(d = c /\ j = k) => buffers'[d][j] = buffers[d][j]
              /\ d = c /\ j = k => buffers'[d][j].msgs = <<>>
        BY <1>5, <1>t, <1>n, <2>3 DEF Flush
      <3>2. inflight' = inflight \cup {Taken(c, k, buffers[c][k], "go")}
        BY <1>5, <2>3 DEF Flush
      <3>3. \A b \in inflight' :
              \/ b \in inflight
              \/ /\ b.conn \in Conns /\ b.conv \in Convs
                 /\ b.msgs = buffers[b.conn][b.conv].msgs /\ b.msgs # <<>>
                 /\ buffers'[b.conn][b.conv].msgs = <<>>
        BY <2>3, <3>1, <3>2 DEF Taken
      <3>4. QED
        BY <2>1, <3>1, <3>3, TakeOrder
    <2>4. QED
      BY <2>2, <2>3
  <1>6. ASSUME NEW b \in inflight, LateFires(b) \/ BeginEnqueue(b) PROVE OrderInv'
    <2> DEFINE Same(q) == q.conn = b.conn /\ q.conv = b.conv /\ q.msgs = b.msgs
    <2>1. b \in Flight
      BY <1>t
    <2>2. /\ Same([b EXCEPT !.idle = FALSE])
          /\ Same([b EXCEPT !.hard = FALSE])
          /\ Same([b EXCEPT !.stage = "sending", !.idle = FALSE, !.hard = FALSE])
      BY <2>1 DEF Flight
    <2>3. PICK q : Same(q) /\ inflight' = (inflight \ {b}) \cup {q}
      <3> HIDE DEF Same
      <3>1. CASE LateFires(b)
        BY <2>2, <3>1 DEF LateFires
      <3>2. CASE BeginEnqueue(b)
        BY <2>2, <3>2 DEF BeginEnqueue
      <3>3. QED
        BY <1>6, <3>1, <3>2
    <2>4. UNCHANGED <<log, adding, buffers, queue, running, turns>>
      BY <1>6 DEF LateFires, BeginEnqueue
    <2>5. \A c \in Conns, k \in Convs : Left(c, k)' \subseteq Left(c, k)
      BY <2>3, <2>4, LeftMembers, LeftMembersNext
    <2>6. QED
      BY <2>4, <2>5, OrderMoves
  <1>7. ASSUME NEW b \in inflight, Send(b) PROVE OrderInv'
    <2>1. PICK t \in Turn : t = [conn |-> b.conn, msgs |-> b.msgs]
      BY <1>t DEF Flight, Turn
    <2>2. /\ queue' = [queue EXCEPT ![b.conv] = Append(queue[b.conv], t)]
          /\ inflight' = inflight \ {b}
          /\ UNCHANGED <<log, adding, buffers, running, turns>>
      BY <1>7, <2>1 DEF Send
    <2>3. \A k \in Convs, i \in Nat : i \in DOMAIN queue'[k] =>
            \/ i \in DOMAIN queue[k] /\ queue'[k][i] = queue[k][i]
            \/ k = b.conv /\ queue'[k][i] = t
      BY <1>t, <2>1, <2>2
    <2>4. ASSUME NEW c \in Conns, NEW k \in Convs, NEW s \in Left(c, k)'
          PROVE  s \in Left(c, k)
      <3>1. \A i \in DOMAIN queue'[k] : i \in Nat
        <4>1. queue'[k] \in Seq(Turn)
          BY <1>t, <2>1, <2>2
        <4>2. QED
          BY <4>1
      <3>2. QED
        BY <2>1, <2>2, <2>3, <2>4, <3>1, LeftMembers, LeftMembersNext
    <2>5. QED
      BY <2>2, <2>4, OrderMoves
  <1>8. ASSUME NEW k \in Convs, StartTurn(k) PROVE OrderInv'
    <2>1. PICK t \in Turn : t = Head(queue[k])
      BY <1>8, <1>t DEF StartTurn
    <2>2. /\ running' = [running EXCEPT ![k] = running[k] \cup {t}]
          /\ queue' = [queue EXCEPT ![k] = Tail(queue[k])]
          /\ queue[k] # <<>>
          /\ UNCHANGED <<log, adding, buffers, inflight, turns>>
      BY <1>8, <2>1 DEF StartTurn
    <2>3. /\ 1 \in DOMAIN queue[k] /\ queue[k][1] = t
          /\ \A i \in DOMAIN Tail(queue[k]) :
               i + 1 \in DOMAIN queue[k] /\ Tail(queue[k])[i] = queue[k][i + 1]
      BY <1>t, <2>1, <2>2
    <2>4. ASSUME NEW c \in Conns, NEW j \in Convs, NEW s \in Left(c, j)'
          PROVE  s \in Left(c, j)
      <3>1. /\ \A i \in DOMAIN queue'[j] : \E l \in DOMAIN queue[j] :
                 queue'[j][i] = queue[j][l]
            /\ \A u \in running'[j] : u \in running[j] \/
                 (\E l \in DOMAIN queue[j] : u = queue[j][l])
        BY <1>t, <2>2, <2>3
      <3>2. QED
        BY <2>2, <2>4, <3>1, LeftMembers, LeftMembersNext
    <2>5. QED
      BY <2>2, <2>4, OrderMoves
  <1>9. ASSUME NEW k \in Convs, NEW t \in running[k], NEW ok \in BOOLEAN,
               FinishTurn(k, t, ok)
        PROVE  OrderInv'
    <2>0. t \in Turn
      BY <1>t
    <2>1. PICK o \in Outcome : o = [conn |-> t.conn, msgs |-> t.msgs, ok |-> ok]
      BY <2>0 DEF Turn, Outcome
    <2>2. /\ running' = [running EXCEPT ![k] = running[k] \ {t}]
          /\ turns' = [turns EXCEPT ![k] = Append(turns[k], o)]
          /\ UNCHANGED <<log, adding, buffers, inflight, queue>>
      BY <1>9, <2>1 DEF FinishTurn
    <2>3. \A j \in Convs, i \in Nat : i \in DOMAIN turns'[j] =>
            \/ i \in DOMAIN turns[j] /\ turns'[j][i] = turns[j][i]
            \/ j = k /\ turns'[j][i] = o
      BY <1>t, <2>1, <2>2
    <2>4. ASSUME NEW c \in Conns, NEW j \in Convs, NEW s \in Left(c, j)'
          PROVE  s \in Left(c, j)
      <3>1. \A i \in DOMAIN turns'[j] : i \in Nat
        <4>1. turns'[j] \in Seq(Outcome)
          BY <1>t, <2>1, <2>2
        <4>2. QED
          BY <4>1
      <3>2. running'[j] \subseteq running[j] /\ o.conn = t.conn /\ o.msgs = t.msgs
        BY <1>t, <2>1, <2>2
      <3>3. QED
        BY <2>2, <2>3, <2>4, <3>1, <3>2, LeftMembers, LeftMembersNext
    <2>5. QED
      BY <2>2, <2>4, OrderMoves
  <1>10. CASE Crash
    <2>1. /\ \A c \in Conns : adding'[c] = 0
          /\ \A c \in Conns, k \in Convs : buffers'[c][k].msgs = <<>>
          /\ inflight' = {}
          /\ \A k \in Convs : queue'[k] = <<>> /\ running'[k] = {}
          /\ UNCHANGED <<log, turns>>
      BY <1>10, <1>n DEF Crash
    <2>2. AddingInv' /\ BufferedInv'
      BY <2>1 DEF AddingInv, BufferedInv
    <2>3. \A c \in Conns, k \in Convs : Left(c, k)' \subseteq Left(c, k)
      BY <2>1, LeftMembers, LeftMembersNext
    <2>4. LeftInv'
      BY <2>1, <2>3, BehindKept DEF OrderInv, LeftInv
    <2>5. QED
      BY <2>2, <2>4 DEF OrderInv
  <1>11. QED
    BY <1>1, <1>2, <1>3, <1>4, <1>5, <1>6, <1>7, <1>8, <1>9, <1>10,
       SaveOrder, AddOrder
    DEF Next

(* For every number of connections and every limit: what a turn is asked   *)
(* to answer is an unbroken run of one connection's messages, at most      *)
(* MaxAggregate of them, and only a batch between the map and the queue    *)
(* can be overtaken.                                                       *)
THEOREM OrderIsKept == Spec => []OnlyFlushesOvertake
  <1>1. TypeOK /\ BufferWillFlush /\ OrderInv => OnlyFlushesOvertake
    <2> SUFFICES ASSUME TypeOK, BufferWillFlush, OrderInv PROVE OnlyFlushesOvertake
      OBVIOUS
    <2>t. /\ inflight \subseteq Flight
          /\ queue \in [Convs -> Seq(Turn)]
          /\ running \in [Convs -> SUBSET Turn]
          /\ turns \in [Convs -> Seq(Outcome)]
      BY DEF TypeOK
    <2>1. ASSUME NEW k \in Convs, NEW s \in Batches(k)
          PROVE  IsRun(s, k) /\ Len(s) <= MaxAggregate
      <3>1. CASE \E c \in Conns : s = buffers[c][k].msgs /\ s # <<>>
        <4>1. PICK c \in Conns : s = buffers[c][k].msgs /\ s # <<>>
          BY <3>1
        <4>2. RunOf(s, c, k)
          BY <4>1 DEF OrderInv, BufferedInv, Newest
        <4>3. Len(s) < MaxAggregate /\ Len(s) \in Nat
          <5>1. s \in Seq(Nat)
            BY <4>1, TableEntries DEF Buffer
          <5>2. QED
            BY <4>1, <5>1 DEF BufferWillFlush
        <4>4. QED
          BY <4>2, <4>3, PipelineAssumption DEF IsRun, RunOf
      <3>2. CASE \E c \in Conns : s \in Left(c, k)
        <4>1. PICK c \in Conns : s \in Left(c, k)
          BY <3>2
        <4>2. Behind(s, c, k)
          BY <4>1 DEF OrderInv, LeftInv
        <4>3. QED
          BY <4>2 DEF Behind, IsRun, RunOf
      <3>3. (\E c \in Conns : s = buffers[c][k].msgs /\ s # <<>>)
            \/ \E c \in Conns : s \in Left(c, k)
        <4>1. /\ \A b \in inflight : b.conn \in Conns
              /\ \A t \in Range(queue[k]) \cup running[k] \cup Range(turns[k]) : t.conn \in Conns
          <5>1. /\ \A t \in Range(queue[k]) : t \in Turn
                /\ \A t \in Range(turns[k]) : t \in Outcome
            BY <2>t DEF Range
          <5>2. QED
            BY <2>t, <5>1 DEF Flight, Turn, Outcome
        <4>2. QED
          BY <2>1, <4>1 DEF Batches, Left
      <3>4. QED
        BY <3>1, <3>2, <3>3
    <2>2. ASSUME NEW c \in Conns, NEW k \in Convs, NEW s \in Left(c, k),
                 NEW i \in DOMAIN s
          PROVE  /\ adding[c] # 0 => s[i] < adding[c]
                 /\ \A j \in DOMAIN buffers[c][k].msgs : s[i] < buffers[c][k].msgs[j]
      BY DEF OrderInv, LeftInv, Behind
    <2>3. QED
      BY <2>1, <2>2 DEF OnlyFlushesOvertake
  <1>2. QED
    BY <1>1, InitTypeOK, NextTypeOK, InitBufferWillFlush, NextBufferWillFlush,
       InitOrderInv, NextOrderInv, PTL DEF Spec

-----------------------------------------------------------------------------
(* The refinement.  The pipeline's state as TurnDelivery sees it.          *)
Posted == [m \in Ids |-> log[m].conv]

TakenNow == [k \in Convs |-> UNION {Range(t.msgs) : t \in running[k]}]

Settled == {m \in Ids : Processed(m)}

LEMMA InitDelivers == Init => Delivery!DInit
  <1> SUFFICES ASSUME Init PROVE Delivery!DInit
    OBVIOUS
  <1>1. Posted = <<>>
    BY DEF Init, Posted, Ids
  <1>2. TakenNow = [k \in Convs |-> {}]
    BY DEF Init, TakenNow
  <1>3. Settled = {} /\ forgotten = {}
    BY DEF Init, Settled, Ids
  <1>4. QED
    BY <1>1, <1>2, <1>3 DEF Delivery!DInit, Posted, TakenNow, Settled

(* What the proofs above establish of a state, put together.               *)
DeliveryInv == TypeOK /\ BufferWillFlush /\ RunnerInv /\ PlaceInv /\ OrderInv

(* Most steps are invisible: they neither store a message nor begin or end *)
(* a turn.                                                                 *)
LEMMA Invisible ==
  ASSUME UNCHANGED <<log, running, turns, forgotten>>
  PROVE  UNCHANGED Delivery!dvars
  <1>1. /\ Posted' = Posted
        /\ TakenNow' = TakenNow
        /\ Settled' = Settled
        /\ forgotten' = forgotten
    BY DEF Posted, TakenNow, Settled, Ids, Processed
  <1>2. QED
    BY <1>1 DEF Delivery!dvars, Posted, TakenNow, Settled

LEMMA SaveDelivers ==
  ASSUME DeliveryInv, NEW c \in Conns, NEW k \in Convs, SaveMessage(c, k)
  PROVE  Delivery!Post(k)
  <1>1. /\ log \in Seq([conn : Conns, conv : Convs])
        /\ Len(log) < MaxMessages
        /\ log' = Append(log, [conn |-> c, conv |-> k])
        /\ UNCHANGED <<running, turns, forgotten>>
    BY DEF DeliveryInv, TypeOK, SaveMessage
  <1>2. /\ Len(log) \in Nat
        /\ Len(log') = Len(log) + 1
        /\ log'[Len(log) + 1].conv = k
        /\ \A m \in Ids : log'[m] = log[m]
        /\ Ids' = 1 .. Len(log) + 1
        /\ Ids = 1 .. Len(log)
    BY <1>1 DEF Ids
  <1>3. Posted' = Append(Posted, k)
    <2>1. /\ Posted = [m \in 1 .. Len(log) |-> log[m].conv]
          /\ Posted' = [m \in 1 .. Len(log) + 1 |-> log'[m].conv]
      BY <1>2 DEF Posted
    <2>2. Posted \in Seq(Convs) /\ Len(Posted) = Len(log)
      <3>0. \A m \in 1 .. Len(log) : log[m] \in [conn : Conns, conv : Convs]
        BY <1>1, EntryInSet
      <3>1. \A m \in 1 .. Len(log) : log[m].conv \in Convs
        BY <3>0
      <3>2. Posted \in [1 .. Len(log) -> Convs]
        BY <2>1, <3>1
      <3>3. QED
        BY <1>2, <3>2
    <2>3. QED
      BY <1>2, <2>1, <2>2
  <1>4. TakenNow' = TakenNow
    BY <1>1 DEF TakenNow
  <1>5. Settled' = Settled
    <2>1. Processed(Len(log) + 1) = FALSE
      <3>1. Nowhere(Len(log) + 1)
        BY <1>1, <1>2, PipelineAssumption DEF DeliveryInv, PlaceInv
      <3>2. turns \in [Convs -> Seq(Outcome)]
        BY DEF DeliveryInv, TypeOK
      <3>3. QED
        BY <3>1, <3>2 DEF Nowhere, NotInTurns, Processed
    <2>2. \A m : Processed(m)' = Processed(m)
      BY <1>1 DEF Processed
    <2>3. QED
      BY <1>2, <2>1, <2>2 DEF Settled
  <1>6. QED
    BY <1>1, <1>3, <1>4, <1>5 DEF Delivery!Post, Posted, TakenNow, Settled

(* A run of one to MaxAggregate messages is a set of one to MaxAggregate.  *)
LEMMA RunIsSmall ==
  ASSUME NEW s \in Seq(Nat), s # <<>>
  PROVE  /\ Range(s) # {}
         /\ Cardinality(Range(s)) <= Len(s)
         /\ Cardinality(Range(s)) \in Nat
  <1>1. 1 \in DOMAIN s
    OBVIOUS
  <1>2. Range(s) # {}
    BY <1>1 DEF Range
  <1>3. /\ IsFiniteSet(1 .. Len(s))
        /\ Cardinality(1 .. Len(s)) = Len(s)
    BY FS_Interval
  <1>4. s \in Surjection(1 .. Len(s), Range(s))
    BY DEF Surjection, Range
  <1>5. IsFiniteSet(Range(s)) /\ Cardinality(Range(s)) <= Len(s)
    BY <1>3, <1>4, FS_Surjection
  <1>6. QED
    BY <1>2, <1>5, FS_CardinalityType

(* Each message of a turn that is queued or under way is one of the        *)
(* conversation's, and the turn has one to MaxAggregate of them.           *)
LEMMA TurnsAreRuns ==
  ASSUME DeliveryInv, NEW k \in Convs, NEW t,
         t \in running[k] \/ \E i \in DOMAIN queue[k] : t = queue[k][i]
  PROVE  /\ t.msgs \in Seq(Nat) /\ t.msgs # <<>> /\ Len(t.msgs) <= MaxAggregate
         /\ \A m \in Range(t.msgs) : m \in Ids /\ log[m].conv = k
  <1>1. t \in Turn
    BY DEF DeliveryInv, TypeOK
  <1>2. t.conn \in Conns /\ t.msgs \in Left(t.conn, k)
    BY <1>1, LeftMembers DEF Turn
  <1>3. Behind(t.msgs, t.conn, k) /\ t.msgs \in Seq(Nat)
    BY <1>2, LeftType DEF DeliveryInv, OrderInv, LeftInv
  <1>4. QED
    BY <1>3 DEF Behind, RunOf, Range

(* A conversation has no more than one turn under way.                     *)
LEMMA OneRunning ==
  ASSUME DeliveryInv, NEW k \in Convs
  PROVE  /\ \A t, u \in running[k] : t = u
         /\ Cardinality(running[k]) < runners[k] => running[k] = {}
  <1>1. /\ IsFiniteSet(running[k])
        /\ Cardinality(running[k]) <= 1
        /\ Cardinality(running[k]) < runners[k] => Cardinality(running[k]) < 1
        /\ Cardinality(running[k]) \in Nat
    BY FS_CardinalityType DEF DeliveryInv, RunnerInv
  <1>2. Cardinality(running[k]) = 0 => running[k] = {}
    BY <1>1, FS_EmptySet
  <1>3. ASSUME NEW t \in running[k], NEW u \in running[k] PROVE t = u
    <2>1. Cardinality(running[k]) = 1
      BY <1>1, <1>2
    <2>2. PICK x : running[k] = {x}
      BY <1>1, <2>1, FS_Singleton
    <2>3. QED
      BY <2>2
  <1>4. QED
    BY <1>1, <1>2, <1>3

LEMMA StartDelivers ==
  ASSUME DeliveryInv, NEW k \in Convs, StartTurn(k)
  PROVE  Delivery!Begin(k)
  <1>1. /\ queue \in [Convs -> Seq(Turn)]
        /\ running \in [Convs -> SUBSET Turn]
        /\ Len(log) \in Nat
    BY DEF DeliveryInv, TypeOK
  <1>2. PICK t \in Turn : t = Head(queue[k]) /\ 1 \in DOMAIN queue[k] /\ t = queue[k][1]
    BY <1>1 DEF StartTurn
  <1>3. running[k] = {}
    BY OneRunning DEF StartTurn
  <1>4. running' = [running EXCEPT ![k] = {t}] /\ UNCHANGED <<log, turns, forgotten>>
    BY <1>2, <1>3 DEF StartTurn
  <1>5. PICK S : S = Range(t.msgs)
    OBVIOUS
  <1>6. TakenNow[k] = {} /\ TakenNow' = [TakenNow EXCEPT ![k] = S]
    BY <1>1, <1>3, <1>4, <1>5 DEF TakenNow
  <1>7. /\ t.msgs \in Seq(Nat) /\ t.msgs # <<>> /\ Len(t.msgs) <= MaxAggregate
        /\ \A m \in S : m \in Ids /\ log[m].conv = k
    BY <1>2, <1>5, TurnsAreRuns
  <1>8. S # {} /\ Cardinality(S) <= MaxAggregate
    BY <1>5, <1>7, RunIsSmall, PipelineAssumption
  <1>9. ASSUME NEW m \in S
        PROVE  /\ m \in 1 .. Len(Posted) /\ Posted[m] = k
               /\ m \notin Settled /\ m \notin forgotten
               /\ \A j \in Convs : m \notin TakenNow[j]
    <2>1. m \in Ids /\ log[m].conv = k
      BY <1>7
    <2>2. OnlyQueued(m, k, 1)
      <3>1. m \in 1 .. MaxMessages
        BY <2>1, PipelineAssumption DEF DeliveryInv, TypeOK, Ids
      <3>2. OnePlace(m)
        BY <2>1, <3>1 DEF DeliveryInv, PlaceInv
      <3>3. QED
        BY <1>2, <1>5, <3>2, FoundOnly
    <2>3. m \notin Settled
      <3>1. turns \in [Convs -> Seq(Outcome)]
        BY DEF DeliveryInv, TypeOK
      <3>2. QED
        BY <2>2, <3>1 DEF OnlyQueued, NotInTurns, Settled, Processed
    <2>4. \A j \in Convs : m \notin TakenNow[j]
      BY <2>2 DEF OnlyQueued, NotRunning, TakenNow
    <2>5. Len(Posted) = Len(log)
      BY <1>1 DEF Posted, Ids
    <2>6. m \in 1 .. Len(Posted) /\ Posted[m] = k
      BY <2>1, <2>5 DEF Posted, Ids
    <2>7. QED
      BY <2>2, <2>3, <2>4, <2>6 DEF OnlyQueued
  <1>10. Posted' = Posted /\ Settled' = Settled /\ forgotten' = forgotten
    BY <1>4 DEF Posted, Settled, Ids, Processed
  <1>11. S \in SUBSET {m \in Delivery!Waiting : Posted[m] = k}
    BY <1>9 DEF Delivery!Waiting, Posted, TakenNow, Settled
  <1>12. \E T \in SUBSET {m \in Delivery!Waiting : Posted[m] = k} :
            /\ T # {} /\ Delivery!Cardinality(T) <= MaxAggregate
            /\ TakenNow' = [TakenNow EXCEPT ![k] = T]
    <2>1. Delivery!Cardinality(S) = Cardinality(S)
      BY DEF Delivery!Cardinality, Cardinality
    <2>2. QED
      BY <1>6, <1>8, <1>11, <2>1
  <1>13. QED
    BY <1>6, <1>10, <1>12 DEF Delivery!Begin, Posted, TakenNow, Settled

LEMMA FinishDelivers ==
  ASSUME DeliveryInv, NEW k \in Convs, NEW t \in running[k], NEW ok \in BOOLEAN,
         FinishTurn(k, t, ok)
  PROVE  Delivery!End(k)
  <1>1. /\ running \in [Convs -> SUBSET Turn]
        /\ turns \in [Convs -> Seq(Outcome)]
    BY DEF DeliveryInv, TypeOK
  <1>2. running[k] = {t}
    BY OneRunning
  <1>3. PICK o \in Outcome : o = [conn |-> t.conn, msgs |-> t.msgs, ok |-> ok]
    <2>1. t \in Turn
      BY <1>1
    <2>2. QED
      BY <2>1 DEF Turn, Outcome
  <1>4. /\ running' = [running EXCEPT ![k] = {}]
        /\ turns' = [turns EXCEPT ![k] = Append(turns[k], o)]
        /\ UNCHANGED <<log, forgotten>>
    BY <1>2, <1>3 DEF FinishTurn
  <1>5. /\ t.msgs \in Seq(Nat) /\ t.msgs # <<>>
        /\ \A m \in Range(t.msgs) : m \in Ids
    BY TurnsAreRuns
  <1>6. TakenNow[k] = Range(t.msgs) /\ TakenNow' = [TakenNow EXCEPT ![k] = {}]
    BY <1>1, <1>2, <1>4 DEF TakenNow
  <1>7. Range(t.msgs) # {}
    BY <1>5, RunIsSmall
  <1>8. Settled' = Settled \cup Range(t.msgs)
    <2>1. o.msgs = t.msgs
      BY <1>3
    <2>2. PICK n \in Nat : n = Len(turns[k]) + 1
      BY <1>1
    <2>3. /\ \A j \in Convs : j # k => turns'[j] = turns[j]
          /\ 1 .. Len(turns'[k]) = (1 .. Len(turns[k])) \cup {n}
          /\ turns'[k][n] = o
          /\ \A i \in 1 .. Len(turns[k]) : turns'[k][i] = turns[k][i]
      BY <1>1, <1>4, <2>2
    <2>4. \A m : Processed(m)' <=> Processed(m) \/ m \in Range(t.msgs)
      BY <2>1, <2>3 DEF Processed
    <2>5. Ids' = Ids
      BY <1>4 DEF Ids
    <2>6. QED
      BY <1>5, <2>4, <2>5 DEF Settled
  <1>9. Posted' = Posted /\ forgotten' = forgotten
    BY <1>4 DEF Posted, Ids
  <1>10. QED
    BY <1>6, <1>7, <1>8, <1>9 DEF Delivery!End, Posted, TakenNow, Settled

LEMMA CrashDelivers ==
  ASSUME DeliveryInv, Crash
  PROVE  Delivery!GiveUp
  <1>1. /\ \A k \in Convs : running'[k] = {}
        /\ forgotten' = {m \in Ids : ~Processed(m)}
        /\ UNCHANGED <<log, turns>>
    BY DEF Crash
  <1>2. TakenNow' = [k \in Convs |-> {}]
    BY <1>1 DEF TakenNow
  <1>3. Posted' = Posted /\ Settled' = Settled
    BY <1>1 DEF Posted, Settled, Ids, Processed
  <1>4. Len(Posted) = Len(log)
    BY DEF DeliveryInv, TypeOK, Posted, Ids
  <1>5. forgotten' = 1 .. Len(Posted) \ Settled
    BY <1>1, <1>4 DEF Settled, Ids
  <1>6. QED
    BY <1>2, <1>3, <1>5 DEF Delivery!GiveUp, Posted, TakenNow, Settled

LEMMA NextDelivers == DeliveryInv /\ [Next]_vars => [Delivery!DNext]_Delivery!dvars
  <1> SUFFICES ASSUME DeliveryInv, [Next]_vars
               PROVE  Delivery!DNext \/ UNCHANGED Delivery!dvars
    OBVIOUS
  <1>1. CASE UNCHANGED vars
    BY <1>1, Invisible DEF vars
  <1>2. ASSUME NEW c \in Conns, Connect(c) \/ Add(c) \/ Disconnect(c) \/ CloseConn(c)
        PROVE  UNCHANGED Delivery!dvars
    <2>1. Add(c) => UNCHANGED <<log, running, turns, forgotten>>
      BY Zenon DEF Add
    <2>2. QED
      BY <1>2, <2>1, Invisible DEF Connect, Disconnect, CloseConn
  <1>3. ASSUME NEW c \in Conns, NEW k \in Convs,
               IdleFires(c, k) \/ HardFires(c, k) \/ Flush(c, k)
        PROVE  UNCHANGED Delivery!dvars
    BY <1>3, Invisible DEF IdleFires, HardFires, Flush
  <1>4. ASSUME NEW b \in inflight, LateFires(b) \/ BeginEnqueue(b) \/ Send(b)
        PROVE  UNCHANGED Delivery!dvars
    BY <1>4, Invisible DEF LateFires, BeginEnqueue, Send
  <1>5. QED
    BY <1>1, <1>2, <1>3, <1>4, SaveDelivers, StartDelivers, FinishDelivers,
       CrashDelivers
    DEF Next, Delivery!DNext

(* For all values of the constants the pipeline implements TurnDelivery:   *)
(* a message is taken into one turn of its conversation, one turn at a     *)
(* time, and given up only when the process restarts.                      *)
THEOREM PipelineDelivers == Spec => DeliversTurns
  <1>1. Spec => []DeliveryInv
    BY InitTypeOK, NextTypeOK, InitBufferWillFlush, NextBufferWillFlush,
       InitRunnerInv, NextRunnerInv, InitPlaceInv, NextPlaceInv, InitOrderInv,
       NextOrderInv, PTL DEF Spec, DeliveryInv
  <1>2. QED
    BY <1>1, InitDelivers, NextDelivers, PTL DEF Spec, DeliversTurns, Delivery!DSpec
=============================================================================
