---------------------------- MODULE ChatPipeline ----------------------------
(***************************************************************************)
(* From a user's WebSocket messages to the turns the bot processes:        *)
(* handleWSChat's read loops (ws_chat.go), one messageAggregator per       *)
(* connection with its idle and hard timers (ws_chat_aggregate.go), and    *)
(* the conversation queue shared by the connections of a gateway           *)
(* (ws_chat_queue.go).  The model follows one user: queues are keyed by    *)
(* user and conversation, so users do not interact here.                   *)
(*                                                                         *)
(* A mutex-protected region is one action.  A goroutine that has been      *)
(* started but does not hold the mutex yet is state: `firing' counts the   *)
(* timer callbacks waiting to run flush, `inflight' holds the buffers that *)
(* were taken out of a map and are not in the queue yet.                   *)
(***************************************************************************)
EXTENDS Integers, Sequences, FiniteSets, Functions

CONSTANTS
  Conns,        \* WebSocket connections of the user; each is opened once
  Convs,        \* the user's conversations
  MaxMessages,  \* bound on the messages the user sends
  MaxAggregate, \* maxAggregateMessages, 10 in the code
  QueueCap      \* capacity of a runner's channel, 32 in the code

ASSUME PipelineAssumption ==
  /\ MaxMessages \in Nat
  /\ MaxAggregate \in Nat \ {0, 1}
  /\ QueueCap \in Nat \ {0}

VARIABLES
  log,       \* user messages in the order SaveMessage stored them
  phase,     \* where the read loop of each connection is
  adding,    \* saved message a read loop has not passed to add yet, or 0
  buffers,   \* messageAggregator.buffers of each connection
  firing,    \* timer callbacks started and still waiting for ma.mu
  inflight,  \* buffers taken from a map, not yet sent to a runner
  runners,   \* run goroutines started per conversation
  queue,     \* convRunner.queue of each conversation
  running,   \* turns inside processQueuedTurn
  turns,     \* turns processQueuedTurn has returned from
  forgotten  \* messages in memory only when the process crashed

vars == <<log, phase, adding, buffers, firing, inflight, runners, queue,
          running, turns, forgotten>>

Ids == 1 .. Len(log)

NoBuffer == [msgs |-> <<>>, idle |-> FALSE, hard |-> FALSE]

Buffer == [msgs : Seq(Nat), idle : BOOLEAN, hard : BOOLEAN]

(* An aggregateBuffer whose flush is under way: by a goroutine of its own  *)
(* ("go") or by the read loop that is leaving ("close").                   *)
Flight == [conn : Conns, conv : Convs, msgs : Seq(Nat), idle : BOOLEAN,
           hard : BOOLEAN, stage : {"taken", "sending"}, via : {"go", "close"}]

Taken(c, k, buf, via) ==
  [conn |-> c, conv |-> k, msgs |-> buf.msgs, idle |-> buf.idle,
   hard |-> buf.hard, stage |-> "taken", via |-> via]

Turn == [conn : Conns, msgs : Seq(Nat)]

Outcome == [conn : Conns, msgs : Seq(Nat), ok : BOOLEAN]

Init ==
  /\ log = <<>>
  /\ phase = [c \in Conns |-> "new"]
  /\ adding = [c \in Conns |-> 0]
  /\ buffers = [c \in Conns |-> [k \in Convs |-> NoBuffer]]
  /\ firing = [c \in Conns |-> [k \in Convs |-> 0]]
  /\ inflight = {}
  /\ runners = [k \in Convs |-> 0]
  /\ queue = [k \in Convs |-> <<>>]
  /\ running = [k \in Convs |-> {}]
  /\ turns = [k \in Convs |-> <<>>]
  /\ forgotten = {}

-----------------------------------------------------------------------------
(* The read loop.                                                          *)

Connect(c) ==
  /\ phase[c] = "new"
  /\ phase' = [phase EXCEPT ![c] = "open"]
  /\ UNCHANGED <<log, adding, buffers, firing, inflight, runners, queue,
                 running, turns, forgotten>>

(* handleWSChatMessage up to the ack: the message is stored.  Its error    *)
(* returns (unknown conversation or bot, bad content) change nothing here. *)
SaveMessage(c, k) ==
  /\ phase[c] = "open"
  /\ adding[c] = 0
  /\ Len(log) < MaxMessages
  /\ log' = Append(log, [conn |-> c, conv |-> k])
  /\ adding' = [adding EXCEPT ![c] = Len(log) + 1]
  /\ UNCHANGED <<phase, buffers, firing, inflight, runners, queue, running,
                 turns, forgotten>>

(* add, first message of a buffer: both timers are started.                *)
AddFirst(c, k) ==
  /\ buffers[c][k].msgs = <<>>
  /\ buffers' = [buffers EXCEPT ![c][k] =
                   [msgs |-> <<adding[c]>>, idle |-> TRUE, hard |-> TRUE]]
  /\ UNCHANGED inflight

(* Faults a change could introduce, each beside the action it alters; the  *)
(* runs must notice them.  Here: the idle timer is stopped but not reset.  *)
AddMoreStopsIdle(c, k) ==
  /\ buffers[c][k].msgs # <<>>
  /\ Len(buffers[c][k].msgs) + 1 < MaxAggregate
  /\ buffers' = [buffers EXCEPT ![c][k] =
                   [msgs |-> Append(@.msgs, adding[c]), idle |-> FALSE, hard |-> FALSE]]
  /\ UNCHANGED inflight

(* add to a buffer below the limit: Reset re-arms the idle timer, also one *)
(* that has already fired.                                                 *)
AddMore(c, k) ==
  /\ buffers[c][k].msgs # <<>>
  /\ Len(buffers[c][k].msgs) + 1 < MaxAggregate
  /\ buffers' = [buffers EXCEPT ![c][k] =
                   [msgs |-> Append(@.msgs, adding[c]), idle |-> TRUE, hard |-> @.hard]]
  /\ UNCHANGED inflight

(* Fault: the message that reaches the limit is flushed on its own.        *)
AddFullNewestOnly(c, k) ==
  /\ buffers[c][k].msgs # <<>>
  /\ Len(buffers[c][k].msgs) + 1 >= MaxAggregate
  /\ inflight' = inflight \cup
       {Taken(c, k, [msgs |-> <<adding[c]>>, idle |-> FALSE, hard |-> FALSE], "go")}
  /\ UNCHANGED buffers

(* add that reaches the limit: timers stopped, buffer removed, and flushed *)
(* by a new goroutine.                                                     *)
AddFull(c, k) ==
  /\ buffers[c][k].msgs # <<>>
  /\ Len(buffers[c][k].msgs) + 1 >= MaxAggregate
  /\ buffers' = [buffers EXCEPT ![c][k] = NoBuffer]
  /\ inflight' = inflight \cup
       {Taken(c, k, [msgs |-> Append(buffers[c][k].msgs, adding[c]),
                     idle |-> FALSE, hard |-> FALSE], "go")}

Add(c) ==
  /\ adding[c] # 0
  /\ LET k == log[adding[c]].conv
     IN  AddFirst(c, k) \/ AddMore(c, k) \/ AddFull(c, k)
  /\ adding' = [adding EXCEPT ![c] = 0]
  /\ UNCHANGED <<log, phase, firing, runners, queue, running, turns, forgotten>>

(* The read loop returns (close frame, read error, idle timeout, deleted   *)
(* user): the locked part of closeAll takes every buffer of the map.       *)
Disconnect(c) ==
  /\ phase[c] = "open"
  /\ adding[c] = 0
  /\ phase' = [phase EXCEPT ![c] = "closing"]
  /\ inflight' = inflight \cup
       {Taken(c, k, buffers[c][k], "close") :
          k \in {kk \in Convs : buffers[c][kk].msgs # <<>>}}
  /\ buffers' = [buffers EXCEPT ![c] = [k \in Convs |-> NoBuffer]]
  /\ UNCHANGED <<log, adding, firing, runners, queue, running, turns, forgotten>>

(* Fault: the connection is given up without waiting for the flushes.      *)
CloseConnAtOnce(c) ==
  /\ phase[c] = "closing"
  /\ phase' = [phase EXCEPT ![c] = "closed"]
  /\ UNCHANGED <<log, adding, buffers, firing, inflight, runners, queue,
                 running, turns, forgotten>>

(* closeAll has flushed its last buffer: unregister and conn.Close.        *)
CloseConn(c) ==
  /\ phase[c] = "closing"
  /\ ~ \E b \in inflight : b.conn = c /\ b.via = "close"
  /\ phase' = [phase EXCEPT ![c] = "closed"]
  /\ UNCHANGED <<log, adding, buffers, firing, inflight, runners, queue,
                 running, turns, forgotten>>

-----------------------------------------------------------------------------
(* Timers and flushes.                                                     *)

(* time.AfterFunc runs the callback, which knows the conversation only; a  *)
(* timer of a buffer in the map, then one of a buffer already taken.       *)
IdleFires(c, k) ==
  /\ buffers[c][k].idle
  /\ buffers' = [buffers EXCEPT ![c][k].idle = FALSE]
  /\ firing' = [firing EXCEPT ![c][k] = @ + 1]
  /\ UNCHANGED <<log, phase, adding, inflight, runners, queue, running, turns,
                 forgotten>>

HardFires(c, k) ==
  /\ buffers[c][k].hard
  /\ buffers' = [buffers EXCEPT ![c][k].hard = FALSE]
  /\ firing' = [firing EXCEPT ![c][k] = @ + 1]
  /\ UNCHANGED <<log, phase, adding, inflight, runners, queue, running, turns,
                 forgotten>>

LateFires(b) ==
  /\ \E quiet \in {[b EXCEPT !.idle = FALSE], [b EXCEPT !.hard = FALSE]} :
       /\ quiet # b
       /\ inflight' = (inflight \ {b}) \cup {quiet}
  /\ firing' = [firing EXCEPT ![b.conn][b.conv] = @ + 1]
  /\ UNCHANGED <<log, phase, adding, buffers, runners, queue, running, turns,
                 forgotten>>

(* Fault: flush reads the buffer under the lock but does not delete it.    *)
FlushKeepsMap(c, k) ==
  /\ firing[c][k] > 0
  /\ firing' = [firing EXCEPT ![c][k] = @ - 1]
  /\ inflight' = IF buffers[c][k].msgs = <<>> THEN inflight
                 ELSE inflight \cup {Taken(c, k, buffers[c][k], "go")}
  /\ UNCHANGED <<log, phase, adding, buffers, runners, queue, running, turns,
                 forgotten>>

(* flush, the locked part: whatever buffer the map holds for the           *)
(* conversation now is taken; nothing if there is none.                    *)
Flush(c, k) ==
  /\ firing[c][k] > 0
  /\ firing' = [firing EXCEPT ![c][k] = @ - 1]
  /\ IF buffers[c][k].msgs = <<>>
     THEN UNCHANGED <<buffers, inflight>>
     ELSE /\ buffers' = [buffers EXCEPT ![c][k] = NoBuffer]
          /\ inflight' = inflight \cup {Taken(c, k, buffers[c][k], "go")}
  /\ UNCHANGED <<log, phase, adding, runners, queue, running, turns, forgotten>>

(* closeAll flushes its buffers one after the other.                       *)
HasTurn(b) ==
  b.via = "close" =>
    ~ \E o \in inflight : o.conn = b.conn /\ o.via = "close" /\ o.stage = "sending"

(* Fault: enqueue looks the runner up before it takes the lock, and two    *)
(* flushes each start one.                                                 *)
BeginEnqueueNewRunner(b) ==
  /\ b.stage = "taken"
  /\ HasTurn(b)
  /\ inflight' = (inflight \ {b}) \cup
       {[b EXCEPT !.stage = "sending", !.idle = FALSE, !.hard = FALSE]}
  /\ runners' = [runners EXCEPT ![b.conv] = @ + 1]
  /\ UNCHANGED <<log, phase, adding, buffers, firing, queue, running, turns,
                 forgotten>>

(* flushBuffer stops the timers (the formatted prompt is never blank:      *)
(* normalizeMessageContent refuses blank content) and enters enqueue,      *)
(* whose locked part starts the conversation's runner if there is none.    *)
BeginEnqueue(b) ==
  /\ b.stage = "taken"
  /\ HasTurn(b)
  /\ inflight' = (inflight \ {b}) \cup
       {[b EXCEPT !.stage = "sending", !.idle = FALSE, !.hard = FALSE]}
  /\ runners' = [runners EXCEPT ![b.conv] = IF @ = 0 THEN 1 ELSE @]
  /\ UNCHANGED <<log, phase, adding, buffers, firing, queue, running, turns,
                 forgotten>>

(* Faults: the channel has no capacity limit; a turn is dropped when the   *)
(* channel is full.                                                        *)
SendUnbounded(b) ==
  /\ b.stage = "sending"
  /\ queue' = [queue EXCEPT ![b.conv] =
                 Append(@, [conn |-> b.conn, msgs |-> b.msgs])]
  /\ inflight' = inflight \ {b}
  /\ UNCHANGED <<log, phase, adding, buffers, firing, runners, running, turns,
                 forgotten>>

SendOrDrop(b) ==
  /\ b.stage = "sending"
  /\ queue' = IF Len(queue[b.conv]) = QueueCap THEN queue
              ELSE [queue EXCEPT ![b.conv] =
                      Append(@, [conn |-> b.conn, msgs |-> b.msgs])]
  /\ inflight' = inflight \ {b}
  /\ UNCHANGED <<log, phase, adding, buffers, firing, runners, running, turns,
                 forgotten>>

(* The channel send of enqueue, outside the lock; it blocks while full.    *)
Send(b) ==
  /\ b.stage = "sending"
  /\ Len(queue[b.conv]) < QueueCap
  /\ queue' = [queue EXCEPT ![b.conv] =
                 Append(@, [conn |-> b.conn, msgs |-> b.msgs])]
  /\ inflight' = inflight \ {b}
  /\ UNCHANGED <<log, phase, adding, buffers, firing, runners, running, turns,
                 forgotten>>

-----------------------------------------------------------------------------
(* The runners.                                                            *)

(* Faults: run starts a goroutine per turn; run ends with the connections. *)
StartTurnAsync(k) ==
  /\ queue[k] # <<>>
  /\ runners[k] > 0
  /\ running' = [running EXCEPT ![k] = @ \cup {Head(queue[k])}]
  /\ queue' = [queue EXCEPT ![k] = Tail(@)]
  /\ UNCHANGED <<log, phase, adding, buffers, firing, inflight, runners, turns,
                 forgotten>>

StartTurnWhileConnected(k) ==
  /\ queue[k] # <<>>
  /\ Cardinality(running[k]) < runners[k]
  /\ \E c \in Conns : phase[c] = "open"
  /\ running' = [running EXCEPT ![k] = @ \cup {Head(queue[k])}]
  /\ queue' = [queue EXCEPT ![k] = Tail(@)]
  /\ UNCHANGED <<log, phase, adding, buffers, firing, inflight, runners, turns,
                 forgotten>>

(* A run goroutine that is not inside processQueuedTurn receives a turn.   *)
StartTurn(k) ==
  /\ queue[k] # <<>>
  /\ Cardinality(running[k]) < runners[k]
  /\ running' = [running EXCEPT ![k] = @ \cup {Head(queue[k])}]
  /\ queue' = [queue EXCEPT ![k] = Tail(@)]
  /\ UNCHANGED <<log, phase, adding, buffers, firing, inflight, runners, turns,
                 forgotten>>

(* processQueuedTurn returns: replies stored (ok) or error event only.     *)
FinishTurn(k, t, ok) ==
  /\ t \in running[k]
  /\ running' = [running EXCEPT ![k] = @ \ {t}]
  /\ turns' = [turns EXCEPT ![k] =
                 Append(@, [conn |-> t.conn, msgs |-> t.msgs, ok |-> ok])]
  /\ UNCHANGED <<log, phase, adding, buffers, firing, inflight, runners, queue,
                 forgotten>>

Processed(m) == \E k \in Convs : \E i \in 1 .. Len(turns[k]) :
                  m \in Range(turns[k][i].msgs)

(* The gateway process dies: only what is in the store survives.           *)
Crash ==
  /\ phase' = [c \in Conns |-> IF phase[c] = "new" THEN "new" ELSE "closed"]
  /\ adding' = [c \in Conns |-> 0]
  /\ buffers' = [c \in Conns |-> [k \in Convs |-> NoBuffer]]
  /\ firing' = [c \in Conns |-> [k \in Convs |-> 0]]
  /\ inflight' = {}
  /\ runners' = [k \in Convs |-> 0]
  /\ queue' = [k \in Convs |-> <<>>]
  /\ running' = [k \in Convs |-> {}]
  /\ forgotten' = {m \in Ids : ~Processed(m)}
  /\ UNCHANGED <<log, turns>>

Next ==
  \/ \E c \in Conns : Connect(c) \/ Add(c) \/ Disconnect(c) \/ CloseConn(c)
  \/ \E c \in Conns, k \in Convs :
       \/ SaveMessage(c, k)
       \/ IdleFires(c, k)
       \/ HardFires(c, k)
       \/ Flush(c, k)
  \/ \E b \in inflight : LateFires(b) \/ BeginEnqueue(b) \/ Send(b)
  \/ \E k \in Convs : StartTurn(k)
  \/ \E k \in Convs : \E t \in running[k], ok \in BOOLEAN : FinishTurn(k, t, ok)
  \/ Crash

Spec == Init /\ [][Next]_vars

(* The Go runtime runs every goroutine and timer that can run; blocked     *)
(* senders of a channel are served first come first served, hence strong   *)
(* fairness of Send; a turn ends because StreamTurn is cut at 90 s.  The   *)
(* user need not do anything and the process need not crash.               *)
Fairness ==
  /\ \A c \in Conns : WF_vars(Add(c) \/ CloseConn(c))
  /\ \A c \in Conns, k \in Convs :
       WF_vars(IdleFires(c, k) \/ HardFires(c, k)) /\ WF_vars(Flush(c, k))
  /\ \A c \in Conns, k \in Convs :
       /\ WF_vars(\E b \in inflight : b.conn = c /\ b.conv = k /\ BeginEnqueue(b))
       /\ SF_vars(\E b \in inflight : b.conn = c /\ b.conv = k /\ Send(b))
  /\ \A k \in Convs :
       WF_vars(\/ StartTurn(k)
               \/ \E t \in running[k], ok \in BOOLEAN : FinishTurn(k, t, ok))

FairSpec == Spec /\ Fairness

-----------------------------------------------------------------------------
(* Properties.                                                             *)

(* Every variable has the shape the code gives it; message numbers refer   *)
(* to stored messages.                                                     *)
TypeOK ==
  /\ log \in Seq([conn : Conns, conv : Convs]) /\ Len(log) <= MaxMessages
  /\ phase \in [Conns -> {"new", "open", "closing", "closed"}]
  /\ adding \in [Conns -> 0 .. Len(log)]
  /\ buffers \in [Conns -> [Convs -> Buffer]]
  /\ firing \in [Conns -> [Convs -> Nat]]
  /\ inflight \subseteq Flight
  /\ runners \in [Convs -> Nat]
  /\ queue \in [Convs -> Seq(Turn)]
  /\ \A k \in Convs : Len(queue[k]) <= QueueCap
  /\ running \in [Convs -> SUBSET Turn]
  /\ turns \in [Convs -> Seq(Outcome)]
  /\ forgotten \subseteq Ids

(* Where message m is on its way to a reply.                               *)
Holders(m) ==
  {<<"adding", c>> : c \in {cc \in Conns : adding[cc] = m}}
  \cup {<<"buffer", p>> : p \in {q \in Conns \X Convs :
                                    m \in Range(buffers[q[1]][q[2]].msgs)}}
  \cup {<<"inflight", b>> : b \in {bb \in inflight : m \in Range(bb.msgs)}}
  \cup (UNION {{<<"queue", k, i>> : i \in {j \in DOMAIN queue[k] :
                                    m \in Range(queue[k][j].msgs)}} : k \in Convs})
  \cup (UNION {{<<"running", k, t>> : t \in {tt \in running[k] :
                                    m \in Range(tt.msgs)}} : k \in Convs})
  \cup (UNION {{<<"turn", k, i>> : i \in {j \in DOMAIN turns[k] :
                                    m \in Range(turns[k][j].msgs)}} : k \in Convs})
  \cup {<<"forgotten">> : x \in {m} \cap forgotten}

(* Whatever the timers, the ten-message limit and a disconnect do to the   *)
(* same buffer at the same time, a stored message is in exactly one place: *)
(* never lost between add, flush and enqueue, never handed to two turns.   *)
(* Only a crash of the process loses messages.                             *)
ExactlyOnce == \A m \in Ids : Cardinality(Holders(m)) = 1

Batches(k) ==
  ({buffers[c][k].msgs : c \in Conns} \ {<<>>})
  \cup {b.msgs : b \in {bb \in inflight : bb.conv = k}}
  \cup {t.msgs : t \in Range(queue[k]) \cup running[k]}
  \cup {t.msgs : t \in Range(turns[k])}

(* s is an unbroken stretch, in the order they were stored, of what one    *)
(* connection sent to conversation k.                                      *)
IsRun(s, k) ==
  \E c \in Conns :
    /\ s # <<>>
    /\ \A i \in DOMAIN s : s[i] \in Ids /\ log[s[i]] = [conn |-> c, conv |-> k]
    /\ \A i \in 1 .. Len(s) - 1 :
         /\ s[i] < s[i + 1]
         /\ \A m \in s[i] + 1 .. s[i + 1] - 1 : log[m] # [conn |-> c, conv |-> k]

(* A buffer in the map is below the limit and can always still be flushed: *)
(* each of its timers is armed, or a callback for its conversation is      *)
(* waiting for the lock.  Otherwise it would stay until the user leaves.   *)
BufferWillFlush ==
  \A c \in Conns, k \in Convs :
    LET buf == buffers[c][k]
    IN  buf.msgs # <<>> =>
          /\ Len(buf.msgs) < MaxAggregate
          /\ buf.idle \/ firing[c][k] > 0
          /\ buf.hard \/ firing[c][k] > 0

(* A conversation never has two turns in processQueuedTurn at once, though *)
(* several connections and goroutines enqueue and each may find no runner; *)
(* and a queue that holds turns has a runner to read them.                 *)
OneTurnAtATime ==
  \A k \in Convs : /\ Cardinality(running[k]) <= 1
                   /\ queue[k] # <<>> => runners[k] = 1

(* What makes OneTurnAtATime inductive: a runner is started once, before   *)
(* anything is sent to it, and is inside at most one turn.                 *)
RunnerInv ==
  /\ \A k \in Convs : /\ runners[k] \in {0, 1}
                      /\ IsFiniteSet(running[k])
                      /\ Cardinality(running[k]) <= runners[k]
                      /\ queue[k] # <<>> => runners[k] = 1
  /\ \A b \in inflight : b.stage = "sending" => runners[b.conv] = 1

Left(c, k) ==
  {b.msgs : b \in {bb \in inflight : bb.conn = c /\ bb.conv = k}}
  \cup {t.msgs : t \in {u \in Range(queue[k]) \cup running[k] : u.conn = c}}
  \cup {t.msgs : t \in {u \in Range(turns[k]) : u.conn = c}}

(* The prompt of a turn numbers consecutive messages of one connection and *)
(* one conversation, in sending order, at most MaxAggregate of them, even  *)
(* when a late timer of an earlier buffer splits a later one.  Messages    *)
(* still to be buffered or flushed are newer than all that have left the   *)
(* map: a turn can be overtaken only while its buffer is between the map   *)
(* and the queue (see README: the code does not order those).              *)
OnlyFlushesOvertake ==
  /\ \A k \in Convs : \A s \in Batches(k) : IsRun(s, k) /\ Len(s) <= MaxAggregate
  /\ \A c \in Conns, k \in Convs :
       \A s \in Left(c, k) : \A i \in DOMAIN s :
         /\ adding[c] # 0 => s[i] < adding[c]
         /\ \A j \in DOMAIN buffers[c][k].msgs : s[i] < buffers[c][k].msgs[j]

(* A connection is given up (unregister, Close) only after everything it   *)
(* buffered is in a queue or in the hands of a flush goroutine.            *)
ClosedIsDrained ==
  \A c \in Conns :
    phase[c] = "closed" =>
      /\ adding[c] = 0
      /\ \A k \in Convs : buffers[c][k] = NoBuffer
      /\ ~ \E b \in inflight : b.conn = c /\ b.via = "close"

(* Every stored message ends in a finished turn, unless a crash of the     *)
(* process forgets it.                                                     *)
EveryMessageSettled ==
  \A m \in 1 .. MaxMessages : m \in Ids ~> (Processed(m) \/ m \in forgotten)

(* A read loop that leaves gets through closeAll, though its sends wait    *)
(* for room in the queues, and closes its connection.                      *)
ClosingEnds == \A c \in Conns : phase[c] = "closing" ~> phase[c] = "closed"

-----------------------------------------------------------------------------
(* Refinement.                                                             *)

Delivery == INSTANCE TurnDelivery WITH
  posted  <- [m \in Ids |-> log[m].conv],
  taken   <- [k \in Convs |-> UNION {Range(t.msgs) : t \in running[k]}],
  settled <- {m \in Ids : Processed(m)},
  dropped <- forgotten

(* Timers, buffers, several connections and blocking queues add nothing to *)
(* what the pipeline promises: each of its steps posts a message, begins   *)
(* or ends the one turn of a conversation, restarts, or is invisible.      *)
DeliversTurns == Delivery!DSpec
=============================================================================
