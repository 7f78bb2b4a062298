-------------------------- MODULE BackgroundProofs --------------------------
(***************************************************************************)
(* Theorems about what runs beside the turns: the proactive scheduler, the *)
(* changes of a persona and the buffer of the emotion analysis, each for   *)
(* every value of its constants: any intervals, cooldowns and windows, any *)
(* number of manual requests, turns, facts and connections, any length of  *)
(* the log and any threshold.                                              *)
(***************************************************************************)
EXTENDS ProactiveScheduler, PersonaChanges, EmotionBuffer, FiniteSetTheorems,
        SequenceTheorems, TLAPS

-----------------------------------------------------------------------------
(* The proactive scheduler.                                                *)

(* A process that is asking for a message or has sent one has a trigger,   *)
(* a scheduler never the manual one.                                       *)
JobInv ==
  \A p \in Procs :
    /\ pc[p] \in {"asking", "sent"} => job[p] # "none"
    /\ p \in Schedulers => job[p] # "manual"
    /\ p \in Testers => pc[p] # "scan"
    /\ now[p] <= clock

(* The conversation is in the order of time.                               *)
TimeInv ==
  /\ \A i \in DOMAIN conv : conv[i].at <= clock
  /\ \A i, j \in DOMAIN conv : i < j => conv[i].at <= conv[j].at

(* Scheduled messages carry a trigger of the scheduler.                    *)
TriggerInv == \A i \in Scheduled : conv[i].trigger \in Triggers

SchedulerInv == TypeOK /\ JobInv /\ TimeInv /\ TriggerInv

LEMMA MessageTypes ==
  ASSUME TypeOK
  PROVE  /\ Len(conv) \in Nat /\ DOMAIN conv = 1 .. Len(conv)
         /\ \A i \in DOMAIN conv : conv[i] \in Message /\ conv[i].at \in Nat
         /\ Len(logs) \in Nat /\ DOMAIN logs = 1 .. Len(logs)
         /\ \A i \in DOMAIN logs : logs[i] \in Log /\ logs[i].at \in Nat
  <1>1. /\ Len(conv) \in Nat /\ DOMAIN conv = 1 .. Len(conv)
        /\ \A i \in DOMAIN conv : conv[i] \in Message
    <2>1. PICK M : M = Message
      OBVIOUS
    <2>2. conv \in Seq(M)
      BY <2>1 DEF TypeOK
    <2>3. QED
      BY <2>1, <2>2
  <1>2. /\ Len(logs) \in Nat /\ DOMAIN logs = 1 .. Len(logs)
        /\ \A i \in DOMAIN logs : logs[i] \in Log
    <2>1. PICK L : L = Log
      OBVIOUS
    <2>2. logs \in Seq(L)
      BY <2>1 DEF TypeOK
    <2>3. QED
      BY <2>1, <2>2
  <1>3. QED
    BY <1>1, <1>2 DEF Message, Log

(* A message is appended.                                                  *)
LEMMA DeliverStep ==
  ASSUME TypeOK, NEW x \in {"user", "bot"} \cup Procs,
         NEW g \in Triggers \cup {"manual", "starter", "none"}, Deliver(x, g)
  PROVE  /\ conv' \in Seq(Message) /\ Len(conv') <= MaxMsgs
         /\ Len(conv) \in Nat /\ DOMAIN conv = 1 .. Len(conv)
         /\ DOMAIN conv' = DOMAIN conv \cup {Len(conv) + 1}
         /\ \A i \in DOMAIN conv : conv'[i] = conv[i] /\ i < Len(conv) + 1
         /\ conv'[Len(conv) + 1] = [sender |-> x, trigger |-> g, at |-> clock]
  <1>1. PICK msg : msg = [sender |-> x, trigger |-> g, at |-> clock]
    OBVIOUS
  <1>2. msg \in Message
    BY <1>1 DEF TypeOK, Message
  <1>3. conv' = Append(conv, msg) /\ Len(conv) < MaxMsgs
    BY <1>1 DEF Deliver
  <1>4. conv \in Seq(Message) /\ Len(conv) \in Nat /\ MaxMsgs \in Nat
    BY SchedulerAssumption DEF TypeOK
  <1>5. conv' \in Seq(Message) /\ Len(conv') = Len(conv) + 1
    BY <1>2, <1>3, <1>4
  <1>6. QED
    BY <1>1, <1>3, <1>4, <1>5

LEMMA InitSchedulerInv == Init => SchedulerInv
  <1> SUFFICES ASSUME Init PROVE SchedulerInv
    OBVIOUS
  <1>1. PICK msg : msg = [sender |-> "bot", trigger |-> "starter", at |-> 0]
    OBVIOUS
  <1>2. conv = <<>> \/ conv = <<msg>>
    BY <1>1 DEF Init
  <1>3. msg \in Message
    BY <1>1 DEF Message
  <1>4. /\ conv \in Seq(Message) /\ Len(conv) <= 1
        /\ \A i \in DOMAIN conv : i = 1 /\ conv[i] = msg
    <2>1. CASE conv = <<>>
      BY <2>1
    <2>2. CASE conv = <<msg>>
      BY <1>3, <2>2
    <2>3. QED
      BY <1>2, <2>1, <2>2
  <1>5. TypeOK
    BY <1>4, SchedulerAssumption DEF Init, TypeOK
  <1>6. JobInv
    BY DEF Init, JobInv
  <1>7. TimeInv
    BY <1>1, <1>4 DEF Init, TimeInv
  <1>8. TriggerInv
    BY <1>1, <1>4, SchedulerAssumption DEF TriggerInv, Scheduled, Sends
  <1>9. QED
    BY <1>5, <1>6, <1>7, <1>8 DEF SchedulerInv

(* What a step does to the conversation.                                   *)
LEMMA DeliverKeepsOrder ==
  ASSUME SchedulerInv, NEW x \in {"user", "bot"} \cup Procs,
         NEW g \in Triggers \cup {"manual", "starter", "none"}, Deliver(x, g),
         x \in Schedulers => g \in Triggers, clock' = clock
  PROVE  TimeInv' /\ TriggerInv'
  <1>1. /\ Len(conv) \in Nat /\ DOMAIN conv = 1 .. Len(conv)
        /\ DOMAIN conv' = DOMAIN conv \cup {Len(conv) + 1}
        /\ \A i \in DOMAIN conv : conv'[i] = conv[i] /\ i < Len(conv) + 1
        /\ conv'[Len(conv) + 1] = [sender |-> x, trigger |-> g, at |-> clock]
    BY DeliverStep DEF SchedulerInv
  <1>2. clock \in Nat
    BY DEF SchedulerInv, TypeOK
  <1>3. TimeInv'
    BY <1>1, <1>2 DEF SchedulerInv, TimeInv
  <1>4. TriggerInv'
    BY <1>1 DEF SchedulerInv, TriggerInv, Scheduled, Sends
  <1>5. QED
    BY <1>3, <1>4

LEMMA NextSchedulerInv == SchedulerInv /\ [Next]_vars => SchedulerInv'
  <1> SUFFICES ASSUME SchedulerInv, [Next]_vars PROVE SchedulerInv'
    OBVIOUS
  <1> USE SchedulerAssumption
  <1>t. TypeOK /\ JobInv /\ TimeInv /\ TriggerInv
    BY DEF SchedulerInv
  <1>k. /\ clock \in Nat /\ clock <= MaxTime
        /\ \A i \in DOMAIN conv : conv[i].at \in Nat
    BY <1>t, MessageTypes DEF TypeOK
  <1>1. ASSUME UNCHANGED <<conv, clock>> PROVE TimeInv' /\ TriggerInv'
    BY <1>1, <1>t DEF TimeInv, TriggerInv, Scheduled, Sends
  <1>2. CASE UNCHANGED vars
    BY <1>1, <1>2, <1>t DEF vars, SchedulerInv, TypeOK, JobInv
  <1>3. CASE Elapse
    <2>1. TypeOK'
      BY <1>3, <1>t DEF Elapse, TypeOK
    <2>2. TimeInv' /\ TriggerInv'
      BY <1>3, <1>t, <1>k DEF Elapse, TimeInv, TriggerInv, Scheduled, Sends
    <2>3. JobInv'
      BY <1>3, <1>t, <1>k DEF Elapse, JobInv, TypeOK
    <2>4. QED
      BY <2>1, <2>2, <2>3 DEF SchedulerInv
  <1>4. CASE UserWrites \/ BotReplies
    <2>1. PICK x \in {"user", "bot"} : Deliver(x, "none")
      BY <1>4 DEF UserWrites, BotReplies
    <2>2. conv' \in Seq(Message) /\ Len(conv') <= MaxMsgs
      BY <1>t, <2>1, DeliverStep
    <2>3. UNCHANGED <<clock, logs, pc, now, job, crashes>> /\ x \notin Schedulers
      BY <1>4, <2>1 DEF UserWrites, BotReplies, Procs
    <2>4. TypeOK' /\ JobInv'
      BY <1>t, <2>2, <2>3 DEF TypeOK, JobInv
    <2>5. TimeInv' /\ TriggerInv'
      BY <2>1, <2>3, DeliverKeepsOrder
    <2>6. QED
      BY <2>4, <2>5 DEF SchedulerInv
  <1>5. ASSUME NEW s \in Schedulers, Tick(s) \/ Decide(s) \/ Abandon(s) PROVE SchedulerInv'
    <2>1. s \in Procs /\ s \notin Testers /\ clock \in 0 .. MaxTime
      BY <1>t DEF Procs, TypeOK
    <2>2. TypeOK'
      <3>1. CASE Tick(s)
        BY <1>t, <2>1, <3>1 DEF Tick, TypeOK
      <3>2. CASE Decide(s)
        <4>1. PICK g \in Triggers \cup {"manual", "none"} : \E c \in {"idle", "asking"} :
                pc' = [pc EXCEPT ![s] = c] /\ (job' = job \/ job' = [job EXCEPT ![s] = g])
          BY <3>2 DEF Decide
        <4>2. now' = [now EXCEPT ![s] = 0] /\ 0 \in 0 .. MaxTime
              /\ UNCHANGED <<clock, conv, logs, crashes>>
          BY <3>2 DEF Decide
        <4>3. /\ pc' \in [Procs -> {"idle", "scan", "asking", "sent"}]
              /\ job' \in [Procs -> Triggers \cup {"manual", "none"}]
          BY <1>t, <2>1, <4>1 DEF TypeOK
        <4>4. now' \in [Procs -> 0 .. MaxTime]
          BY <1>t, <2>1, <4>2 DEF TypeOK
        <4>5. QED
          BY <1>t, <4>2, <4>3, <4>4 DEF TypeOK
      <3>3. CASE Abandon(s)
        BY <1>t, <2>1, <3>3 DEF Abandon, TypeOK
      <3>4. QED
        BY <1>5, <3>1, <3>2, <3>3
    <2>3. JobInv'
      <3>1. CASE Tick(s)
        BY <1>t, <1>k, <2>1, <3>1 DEF Tick, TypeOK, JobInv
      <3>2. CASE Decide(s)
        BY <1>t, <1>k, <2>1, <3>2 DEF Decide, TypeOK, JobInv
      <3>3. CASE Abandon(s)
        BY <1>t, <1>k, <2>1, <3>3 DEF Abandon, TypeOK, JobInv
      <3>4. QED
        BY <1>5, <3>1, <3>2, <3>3
    <2>4. QED
      BY <1>1, <1>5, <2>2, <2>3 DEF Tick, Decide, Abandon, SchedulerInv
  <1>6. ASSUME NEW p \in Testers, Request(p) PROVE SchedulerInv'
    <2>1. p \in Procs /\ p \notin Schedulers
      BY DEF Procs
    <2>2. TypeOK'
      BY <1>6, <1>t, <2>1 DEF Request, TypeOK
    <2>3. JobInv'
      BY <1>6, <1>t, <2>1 DEF Request, TypeOK, JobInv
    <2>4. QED
      BY <1>1, <1>6, <2>2, <2>3 DEF Request, SchedulerInv
  <1>7. ASSUME NEW p \in Procs, Send(p) PROVE SchedulerInv'
    <2>1. /\ Deliver(p, job[p]) /\ pc' = [pc EXCEPT ![p] = "sent"] /\ pc[p] = "asking"
          /\ UNCHANGED <<clock, logs, now, job, crashes>>
      BY <1>7 DEF Send
    <2>2. /\ job[p] \in Triggers \cup {"manual", "starter", "none"}
          /\ p \in Schedulers => job[p] \in Triggers
      BY <1>t, <2>1 DEF TypeOK, JobInv
    <2>3. conv' \in Seq(Message) /\ Len(conv') <= MaxMsgs
      BY <1>t, <2>1, <2>2, DeliverStep
    <2>4. TypeOK'
      BY <1>t, <2>1, <2>3 DEF TypeOK
    <2>5. JobInv'
      BY <1>t, <2>1 DEF TypeOK, JobInv
    <2>6. TimeInv' /\ TriggerInv'
      BY <2>1, <2>2, DeliverKeepsOrder
    <2>7. QED
      BY <2>4, <2>5, <2>6 DEF SchedulerInv
  <1>8. ASSUME NEW p \in Procs, Record(p) PROVE SchedulerInv'
    <2>1. PICK entry : entry = [trigger |-> job[p], at |-> clock]
      OBVIOUS
    <2>2. entry \in Log
      BY <1>8, <1>t, <1>k, <2>1 DEF Record, Log, TypeOK, JobInv
    <2>3. logs' \in Seq(Log)
      <3>1. logs' = <<entry>> \o logs /\ <<entry>> \in Seq(Log) /\ logs \in Seq(Log)
        BY <1>8, <1>t, <2>1, <2>2 DEF Record, TypeOK
      <3>2. QED
        BY <3>1
    <2>4. TypeOK'
      BY <1>8, <1>t, <2>3 DEF Record, TypeOK
    <2>5. JobInv'
      BY <1>8, <1>t DEF Record, TypeOK, JobInv
    <2>6. QED
      BY <1>1, <1>8, <2>4, <2>5 DEF Record, SchedulerInv
  <1>9. ASSUME NEW p \in Procs, Crash(p) PROVE SchedulerInv'
    <2>1. TypeOK'
      BY <1>9, <1>t DEF Crash, TypeOK
    <2>2. JobInv'
      BY <1>9, <1>t, <1>k DEF Crash, TypeOK, JobInv
    <2>3. QED
      BY <1>1, <1>9, <2>1, <2>2 DEF Crash, SchedulerInv
  <1>10. QED
    BY <1>2, <1>3, <1>4, <1>5, <1>6, <1>7, <1>8, <1>9 DEF Next

(* The types of the scheduler's variables and of what it stores: a log is  *)
(* never without a trigger type.                                           *)
THEOREM SchedulerTypeCorrect == Spec => []TypeOK
  BY InitSchedulerInv, NextSchedulerInv, PTL DEF Spec, SchedulerInv

-----------------------------------------------------------------------------
(* Every message that was sent is logged or will be.                       *)

Unlogged == {p \in Procs : pc[p] = "sent"}

AccountInv == IsFiniteSet(Unlogged) /\ LogsAccountForSends

(* What sending a message does to the set of those sent.                   *)
LEMMA DeliverSends ==
  ASSUME SchedulerInv, NEW x \in {"user", "bot"} \cup Procs,
         NEW g \in Triggers \cup {"manual", "starter", "none"}, Deliver(x, g)
  PROVE  /\ Sends' = IF x \in Procs THEN Sends \cup {Len(conv) + 1} ELSE Sends
         /\ Scheduled' = IF x \in Schedulers THEN Scheduled \cup {Len(conv) + 1} ELSE Scheduled
         /\ \A i \in Sends : i < Len(conv) + 1
  <1>1. /\ Len(conv) \in Nat /\ DOMAIN conv = 1 .. Len(conv)
        /\ DOMAIN conv' = DOMAIN conv \cup {Len(conv) + 1}
        /\ \A i \in DOMAIN conv : conv'[i] = conv[i] /\ i < Len(conv) + 1
        /\ conv'[Len(conv) + 1].sender = x
    <2>1. PICK new : new = conv'[Len(conv) + 1]
      OBVIOUS
    <2>2. new = [sender |-> x, trigger |-> g, at |-> clock]
      BY <2>1, DeliverStep DEF SchedulerInv
    <2>3. new.sender = x
      BY <2>2
    <2>4. QED
      BY <2>1, <2>3, DeliverStep DEF SchedulerInv
  <1>2. /\ Sends' = IF x \in Procs THEN Sends \cup {Len(conv) + 1} ELSE Sends
        /\ \A i \in Sends : i < Len(conv) + 1
    BY <1>1 DEF Sends
  <1>3. Scheduled' = IF x \in Schedulers THEN Scheduled \cup {Len(conv) + 1} ELSE Scheduled
    BY <1>1, <1>2 DEF Scheduled, Procs, Sends
  <1>4. QED
    BY <1>2, <1>3

LEMMA SendsFinite ==
  ASSUME SchedulerInv
  PROVE  IsFiniteSet(Sends) /\ Cardinality(Sends) \in Nat
  <1>1. IsFiniteSet(1 .. Len(conv)) /\ Sends \subseteq 1 .. Len(conv)
    BY MessageTypes, FS_Interval DEF SchedulerInv, Sends
  <1>2. QED
    BY <1>1, FS_Subset, FS_CardinalityType

LEMMA InitAccountInv == Init => AccountInv
  <1> SUFFICES ASSUME Init PROVE AccountInv
    OBVIOUS
  <1>1. Unlogged = {}
    BY DEF Init, Unlogged
  <1>2. Sends = {}
    <2>1. PICK msg : msg = [sender |-> "bot", trigger |-> "starter", at |-> 0]
      OBVIOUS
    <2>2. conv = <<>> \/ conv = <<msg>>
      BY <2>1 DEF Init
    <2>3. \A i \in DOMAIN conv : conv[i].sender = "bot"
      BY <2>1, <2>2
    <2>4. QED
      BY <2>3, SchedulerAssumption DEF Sends
  <1>3. Len(logs) = 0 /\ crashes = 0
    BY DEF Init
  <1>4. QED
    BY <1>1, <1>2, <1>3, FS_EmptySet DEF AccountInv, LogsAccountForSends, Unlogged

LEMMA NextAccountInv == SchedulerInv /\ AccountInv /\ [Next]_vars => AccountInv'
  <1> SUFFICES ASSUME SchedulerInv, AccountInv, [Next]_vars PROVE AccountInv'
    OBVIOUS
  <1>1. PICK U : U = Unlogged
    OBVIOUS
  <1>2. PICK S : S = Sends
    OBVIOUS
  <1>3. /\ IsFiniteSet(U) /\ Cardinality(U) \in Nat
        /\ IsFiniteSet(S) /\ Cardinality(S) \in Nat
        /\ Len(logs) \in Nat /\ crashes \in Nat
        /\ Cardinality(U) <= Cardinality(S) - Len(logs)
        /\ Cardinality(S) - Len(logs) <= Cardinality(U) + crashes
    BY <1>1, <1>2, SendsFinite, FS_CardinalityType, MessageTypes, SchedulerAssumption
       DEF AccountInv, LogsAccountForSends, Unlogged, SchedulerInv, TypeOK
  <1>4. pc \in [Procs -> {"idle", "scan", "asking", "sent"}]
    BY DEF SchedulerInv, TypeOK
  <1>5. ASSUME IsFiniteSet(Unlogged'),
               Cardinality(Unlogged') <= Cardinality(Sends') - Len(logs'),
               Cardinality(Sends') - Len(logs') <= Cardinality(Unlogged') + crashes'
        PROVE  AccountInv'
    BY <1>5 DEF AccountInv, LogsAccountForSends, Unlogged
  <1>6. ASSUME Unlogged' = U, Sends' = S, logs' = logs, crashes' = crashes PROVE AccountInv'
    BY <1>3, <1>5, <1>6
  <1>7. CASE UNCHANGED vars
    BY <1>1, <1>2, <1>6, <1>7 DEF vars, Unlogged, Sends
  <1>8. CASE Elapse
    BY <1>1, <1>2, <1>6, <1>8 DEF Elapse, Unlogged, Sends
  <1>9. CASE UserWrites \/ BotReplies
    <2>1. PICK x \in {"user", "bot"} : Deliver(x, "none")
      BY <1>9 DEF UserWrites, BotReplies
    <2>2. Sends' = S
      BY <1>2, <2>1, DeliverSends, SchedulerAssumption
    <2>3. QED
      BY <1>1, <1>6, <1>9, <2>2 DEF UserWrites, BotReplies, Unlogged
  <1>10. ASSUME NEW s \in Procs, Tick(s) \/ Decide(s) \/ Abandon(s) \/ Request(s) PROVE AccountInv'
    <2>1. pc[s] # "sent" /\ \E c \in {"idle", "scan", "asking"} : pc' = [pc EXCEPT ![s] = c]
      BY <1>10 DEF Tick, Decide, Abandon, Request
    <2>2. Unlogged' = U
      BY <1>1, <1>4, <2>1 DEF Unlogged
    <2>3. QED
      BY <1>2, <1>6, <1>10, <2>2 DEF Tick, Decide, Abandon, Request, Sends
  <1>11. ASSUME NEW p \in Procs, Send(p) PROVE AccountInv'
    <2>1. /\ Deliver(p, job[p]) /\ pc' = [pc EXCEPT ![p] = "sent"] /\ pc[p] = "asking"
          /\ UNCHANGED <<logs, crashes>>
      BY <1>11 DEF Send
    <2>2. job[p] \in Triggers \cup {"manual", "starter", "none"}
      BY DEF SchedulerInv, TypeOK
    <2>3. Sends' = S \cup {Len(conv) + 1} /\ Len(conv) + 1 \notin S
      <3>1. Len(conv) + 1 \in Nat
        BY MessageTypes DEF SchedulerInv
      <3>2. /\ Sends' = S \cup {Len(conv) + 1}
            /\ \A i \in S : i < Len(conv) + 1
        BY <1>2, <2>1, <2>2, DeliverSends
      <3>3. QED
        BY <3>1, <3>2
    <2>4. Unlogged' = U \cup {p} /\ p \notin U
      BY <1>1, <1>4, <2>1 DEF Unlogged
    <2>5. /\ Cardinality(Sends') = Cardinality(S) + 1
          /\ Cardinality(Unlogged') = Cardinality(U) + 1 /\ IsFiniteSet(Unlogged')
      BY <1>3, <2>3, <2>4, FS_AddElement
    <2>6. QED
      BY <1>3, <1>5, <2>1, <2>5
  <1>12. ASSUME NEW p \in Procs, Record(p) PROVE AccountInv'
    <2>1. PICK entry : entry = [trigger |-> job[p], at |-> clock]
      OBVIOUS
    <2>2. /\ logs' = <<entry>> \o logs /\ pc' = [pc EXCEPT ![p] = "idle"] /\ pc[p] = "sent"
          /\ UNCHANGED <<conv, crashes>>
      BY <1>12, <2>1 DEF Record
    <2>3. Len(logs') = Len(logs) + 1
      <3>1. PICK L : L = Log
        OBVIOUS
      <3>2. logs \in Seq(L)
        BY <3>1 DEF SchedulerInv, TypeOK
      <3>3. QED
        BY <2>2, <3>2
    <2>4. Unlogged' = U \ {p} /\ p \in U
      BY <1>1, <1>4, <2>2 DEF Unlogged
    <2>5. Cardinality(Unlogged') = Cardinality(U) - 1 /\ IsFiniteSet(Unlogged')
      BY <1>3, <2>4, FS_RemoveElement
    <2>6. Sends' = S
      BY <1>2, <2>2 DEF Sends
    <2>7. QED
      BY <1>3, <1>5, <2>2, <2>3, <2>5, <2>6
  <1>13. ASSUME NEW p \in Procs, Crash(p) PROVE AccountInv'
    <2>1. /\ pc' = [pc EXCEPT ![p] = "idle"] /\ crashes' = crashes + 1
          /\ UNCHANGED <<conv, logs>>
      BY <1>13 DEF Crash
    <2>2. Sends' = S
      BY <1>2, <2>1 DEF Sends
    <2>3. CASE p \in U
      <3>1. Unlogged' = U \ {p}
        BY <1>1, <1>4, <2>1 DEF Unlogged
      <3>2. Cardinality(Unlogged') = Cardinality(U) - 1 /\ IsFiniteSet(Unlogged')
        BY <1>3, <2>3, <3>1, FS_RemoveElement
      <3>3. QED
        BY <1>3, <1>5, <2>1, <2>2, <3>2
    <2>4. CASE p \notin U
      <3>1. Unlogged' = U
        BY <1>1, <1>4, <2>1, <2>4 DEF Unlogged
      <3>2. QED
        BY <1>3, <1>5, <2>1, <2>2, <3>1
    <2>5. QED
      BY <2>3, <2>4
  <1>14. QED
    BY <1>7, <1>8, <1>9, <1>10, <1>11, <1>12, <1>13 DEF Next, Procs

(* Every message that was sent is in the log, is about to be, or its       *)
(* process crashed in between; nothing is logged twice.                    *)
THEOREM LogsAccount == Spec => []LogsAccountForSends
  BY InitSchedulerInv, NextSchedulerInv, InitAccountInv, NextAccountInv, PTL
     DEF Spec, AccountInv

-----------------------------------------------------------------------------
(* The interval.  The newest log is at least as late as every scheduled    *)
(* message but the one still to be logged, so a decision made now is a     *)
(* whole interval after all of them; and it stays so until the message is  *)
(* sent, since time only advances.                                         *)

Gap(i, j) == conv[j].at - conv[i].at

SpacingInv ==
  crashes = 0 =>
    /\ \A i, j \in Scheduled : i < j => Gap(i, j) >= Cooldown
    /\ \A s \in Schedulers :
         /\ pc[s] = "asking" => \A i \in Scheduled : clock - conv[i].at >= Cooldown
         /\ pc[s] # "sent" => \A i \in Scheduled : logs # <<>> /\ logs[1].at >= conv[i].at
         /\ pc[s] = "sent" =>
              \E l \in Scheduled : /\ conv[l].trigger = job[s]
                                   /\ \A i \in Scheduled : i <= l

OneScheduler == \A r, s \in Schedulers : r = s

(* A shift to the left never makes less of the interval.                   *)
LEMMA PowerPositive ==
  ASSUME NEW n \in Nat
  PROVE  2 ^ n \in Nat /\ 2 ^ n >= 1
  <1>1. PICK S : S = 1 .. n
    OBVIOUS
  <1>2. IsFiniteSet(S) /\ Cardinality(S) = n
    BY <1>1, FS_Interval
  <1>3. IsFiniteSet(SUBSET S) /\ Cardinality(SUBSET S) = 2 ^ n
    BY <1>2, FS_SUBSET
  <1>4. SUBSET S # {}
    OBVIOUS
  <1>5. Cardinality(SUBSET S) \in Nat /\ Cardinality(SUBSET S) # 0
    BY <1>3, <1>4, FS_CardinalityType, FS_EmptySet
  <1>6. QED
    BY <1>3, <1>5

LEMMA UnansweredType ==
  ASSUME TypeOK
  PROVE  Unanswered \in Nat
  <1>1. PICK W : W = Window
    OBVIOUS
  <1>2. IsFiniteSet(DOMAIN W)
    <2>1. PICK k \in Nat : W = SubSeq(conv, k + 1, Len(conv)) /\ Len(conv) \in Nat
      <3>1. Len(conv) \in Nat /\ MsgWindow \in Nat
        BY MessageTypes, SchedulerAssumption
      <3>2. (IF Len(conv) > MsgWindow THEN Len(conv) - MsgWindow ELSE 0) \in Nat
        BY <3>1
      <3>3. QED
        BY <1>1, <3>1, <3>2 DEF Window
    <2>2. PICK m \in Nat : DOMAIN W = 1 .. m
      <3>1. PICK M : M = Message
        OBVIOUS
      <3>2. conv \in Seq(M)
        BY <3>1 DEF TypeOK
      <3>3. W \in Seq(M)
        BY <2>1, <3>2
      <3>4. QED
        BY <3>3
    <2>3. QED
      BY <2>2, FS_Interval
  <1>3. PICK U : U = {i \in DOMAIN W :
                        IsProactive(W[i]) /\ \A j \in 1 .. i : W[j].sender # "user"}
    OBVIOUS
  <1>4. IsFiniteSet(U)
    BY <1>2, <1>3, FS_Subset
  <1>5. Unanswered = Cardinality(U)
    BY <1>1, <1>3 DEF Unanswered
  <1>6. QED
    BY <1>4, <1>5, FS_CardinalityType

LEMMA DoublingType ==
  ASSUME TypeOK
  PROVE  Doubling(Unanswered) \in Nat /\ Doubling(Unanswered) >= Cooldown
  <1>1. PICK u \in Nat : u = Unanswered
    BY UnansweredType
  <1>2. CASE u >= 2
    <2>1. PICK k \in Nat : k = 2 ^ (u - 1) /\ k >= 1
      BY <1>2, PowerPositive
    <2>2. Doubling(u) = Cooldown * k
      BY <1>2, <2>1 DEF Doubling
    <2>3. Cooldown \in Nat /\ Cooldown * k \in Nat /\ Cooldown * k >= Cooldown
      BY <2>1, SchedulerAssumption
    <2>4. QED
      BY <1>1, <2>2, <2>3
  <1>3. CASE ~(u >= 2)
    BY <1>1, <1>3, SchedulerAssumption DEF Doubling
  <1>4. QED
    BY <1>2, <1>3

-----------------------------------------------------------------------------
(* The cooldown of a trigger type.  A log leaves the window when LogWindow *)
(* newer ones are there: those of scheduled messages are an interval apart,*)
(* and those of requests sent before the message are no more than there    *)
(* are testers.                                                            *)

UnloggedTests == {p \in Testers : pc[p] = "sent"}

(* No request was sent since message i.                                    *)
Alone(i) == \A k \in Sends : k >= i => k \in Scheduled

(* Message i is the p-th log, or an earlier one of its type.  Besides those*)
(* of m scheduled messages, only requests made before i come after it.     *)
LoggedAt(i, p, m) ==
  /\ logs[p].trigger = conv[i].trigger /\ logs[p].at >= conv[i].at
  /\ p - 1 + Cardinality(UnloggedTests) <= Cardinality(Testers) + m

(* There are m intervals between i and l, which is logged.                 *)
IntervalsUpTo(i, l, m) ==
  /\ i <= l /\ m * Cooldown <= Gap(i, l)
  /\ \A s \in Schedulers : pc[s] = "sent" => \E k \in Scheduled : l < k

LoggedInv ==
  \A i \in Scheduled : Alone(i) =>
    \/ /\ \E s \in Schedulers : pc[s] = "sent"
       /\ \A k \in Scheduled : k <= i
    \/ \E p \in DOMAIN logs, m \in Nat, l \in Scheduled :
         LoggedAt(i, p, m) /\ IntervalsUpTo(i, l, m)

KindsHold ==
  \A i, j \in Scheduled :
    i < j /\ conv[i].trigger = conv[j].trigger /\ (\A k \in i .. j : k \in Sends => k \in Scheduled)
      => Gap(i, j) >= TriggerCooldown[conv[i].trigger]

WindowInv ==
  crashes = 0 =>
    /\ LoggedInv
    /\ \A s \in Schedulers : pc[s] = "asking" =>
         \A i \in Scheduled : Alone(i) /\ conv[i].trigger = job[s] =>
           clock - conv[i].at >= TriggerCooldown[job[s]]
    /\ KindsHold

(* The LogWindow newest logs reach back over the longest cooldown, even if *)
(* every tester's request is logged among them.                            *)
WindowCovers ==
  /\ IsFiniteSet(Testers)
  /\ \A g \in Triggers :
       TriggerCooldown[g] <= (LogWindow + 1 - Cardinality(Testers)) * Cooldown

-----------------------------------------------------------------------------
(* Steps without a scheduled decision, message or log.                     *)
QuietStep ==
  /\ Scheduled' = Scheduled /\ Sends \subseteq Sends'
  /\ \A i \in Scheduled : conv'[i] = conv[i]
  /\ UNCHANGED <<logs, crashes>>
  /\ clock' \in Nat /\ clock <= clock'
  /\ \A s \in Schedulers :
       /\ pc'[s] = "asking" => pc[s] = "asking"
       /\ pc'[s] = "sent" <=> pc[s] = "sent"
       /\ pc'[s] \in {"asking", "sent"} => job'[s] = job[s]

LEMMA ScheduledTypes ==
  ASSUME SchedulerInv
  PROVE  /\ \A i \in Scheduled : /\ i \in Nat /\ i \in Sends /\ i \in DOMAIN conv
                                 /\ conv[i].at \in Nat /\ conv[i].at <= clock
                                 /\ conv[i].trigger \in Triggers
         /\ clock \in Nat /\ crashes \in Nat
         /\ \A s \in Procs : now[s] \in Nat /\ now[s] <= clock
         /\ Cooldown \in Nat /\ LogWindow \in Nat
         /\ \A g \in Triggers : TriggerCooldown[g] \in Nat
  BY MessageTypes, SchedulerAssumption
     DEF SchedulerInv, TypeOK, TimeInv, TriggerInv, JobInv, Scheduled, Sends

LEMMA QuietKeepsSpacing ==
  ASSUME SchedulerInv, SpacingInv, QuietStep
  PROVE  SpacingInv'
  <1> SUFFICES ASSUME crashes = 0
               PROVE  /\ \A i, j \in Scheduled : i < j => Gap(i, j)' >= Cooldown
                      /\ \A s \in Schedulers :
                           /\ pc'[s] = "asking" => \A i \in Scheduled : clock' - conv'[i].at >= Cooldown
                           /\ pc'[s] # "sent" =>
                                \A i \in Scheduled : logs' # <<>> /\ logs'[1].at >= conv'[i].at
                           /\ pc'[s] = "sent" =>
                                \E l \in Scheduled : /\ conv'[l].trigger = job'[s]
                                                     /\ \A i \in Scheduled : i <= l
    BY DEF SpacingInv, QuietStep
  <1>1. \A i, j \in Scheduled : i < j => Gap(i, j)' >= Cooldown
    BY DEF SpacingInv, QuietStep, Gap
  <1>2. ASSUME NEW s \in Schedulers, pc'[s] = "asking", NEW i \in Scheduled
        PROVE  clock' - conv'[i].at >= Cooldown
    <2>1. clock - conv[i].at >= Cooldown /\ conv'[i].at = conv[i].at
      BY <1>2 DEF SpacingInv, QuietStep
    <2>2. QED
      BY <2>1, ScheduledTypes DEF QuietStep
  <1>3. QED
    BY <1>1, <1>2 DEF SpacingInv, QuietStep

LEMMA QuietKeepsWindow ==
  ASSUME SchedulerInv, WindowInv, QuietStep,
         UnloggedTests' = UnloggedTests \/ \E k \in Sends' : k \notin Scheduled' /\ \A i \in Scheduled : i <= k
  PROVE  WindowInv'
  <1> SUFFICES ASSUME crashes = 0
               PROVE  /\ LoggedInv'
                      /\ \A s \in Schedulers : pc'[s] = "asking" =>
                           \A i \in Scheduled : Alone(i)' /\ conv'[i].trigger = job'[s] =>
                             clock' - conv'[i].at >= TriggerCooldown[job'[s]]
                      /\ KindsHold'
    BY DEF WindowInv, QuietStep
  <1>1. \A i : Alone(i)' => Alone(i)
    BY DEF Alone, QuietStep
  <1>2. ASSUME NEW s \in Schedulers, pc'[s] = "asking", NEW i \in Scheduled,
               Alone(i)', conv'[i].trigger = job'[s]
        PROVE  clock' - conv'[i].at >= TriggerCooldown[job'[s]]
    <2>1. /\ clock - conv[i].at >= TriggerCooldown[job[s]]
          /\ conv'[i].at = conv[i].at /\ job'[s] = job[s] /\ conv[i].trigger = job[s]
      BY <1>1, <1>2 DEF WindowInv, QuietStep
    <2>2. TriggerCooldown[job[s]] \in Nat
      BY <2>1, ScheduledTypes
    <2>3. QED
      BY <2>1, <2>2, ScheduledTypes DEF QuietStep
  <1>3. KindsHold'
    BY DEF WindowInv, KindsHold, QuietStep, Gap
  <1>4. ASSUME NEW i \in Scheduled, Alone(i)'
        PROVE  \/ /\ \E s \in Schedulers : pc'[s] = "sent"
                  /\ \A k \in Scheduled : k <= i
               \/ \E p \in DOMAIN logs, m \in Nat, l \in Scheduled :
                    LoggedAt(i, p, m)' /\ IntervalsUpTo(i, l, m)'
    <2>1. UnloggedTests' = UnloggedTests
      BY <1>4 DEF Alone, QuietStep
    <2>2. CASE \E s \in Schedulers : pc[s] = "sent" /\ \A k \in Scheduled : k <= i
      BY <2>2 DEF QuietStep
    <2>3. CASE \E p \in DOMAIN logs, m \in Nat, l \in Scheduled :
                 LoggedAt(i, p, m) /\ IntervalsUpTo(i, l, m)
      <3>1. PICK p \in DOMAIN logs, m \in Nat, l \in Scheduled :
              LoggedAt(i, p, m) /\ IntervalsUpTo(i, l, m)
        BY <2>3
      <3>2. LoggedAt(i, p, m)' /\ IntervalsUpTo(i, l, m)'
        BY <2>1, <3>1 DEF LoggedAt, IntervalsUpTo, Gap, QuietStep
      <3>3. QED
        BY <3>2
    <2>4. QED
      BY <1>1, <1>4, <2>2, <2>3 DEF WindowInv, LoggedInv
  <1>5. LoggedInv'
    BY <1>4 DEF LoggedInv, QuietStep
  <1>6. QED
    BY <1>2, <1>3, <1>5

LEMMA MoreIntervals ==
  ASSUME NEW m \in Nat, NEW C \in Nat, NEW K \in Int, K <= m + 1
  PROVE  m * C + C = (m + 1) * C /\ K * C <= (m + 1) * C
  <1>1. m * C + C = (m + 1) * C
    OBVIOUS
  <1>2. PICK d \in Nat : m + 1 = K + d
    BY m + 1 - K \in Nat
  <1>3. (K + d) * C = K * C + d * C /\ d * C \in Nat /\ K * C \in Int
    OBVIOUS
  <1>4. QED
    BY <1>1, <1>2, <1>3

(* A decision to send, taken with the time the tick read.                  *)
LEMMA DecideKeepsSpacing ==
  ASSUME SchedulerInv, SpacingInv, NEW s \in Schedulers, OneScheduler, Decide(s), crashes = 0,
         NEW g \in Triggers, MaySend(g, now[s])
  PROVE  \A i \in Scheduled : clock - conv[i].at >= Cooldown /\ now[s] - conv[i].at >= Cooldown
  <1> SUFFICES ASSUME NEW i \in Scheduled
               PROVE  clock - conv[i].at >= Cooldown /\ now[s] - conv[i].at >= Cooldown
    OBVIOUS
  <1>1. logs # <<>> /\ logs[1].at >= conv[i].at
    BY DEF SpacingInv, Decide
  <1>2. now[s] - logs[1].at >= Doubling(Unanswered)
    BY <1>1 DEF MaySend, CoolEnough
  <1>3. PICK d \in Nat : d = Doubling(Unanswered) /\ d >= Cooldown
    BY DoublingType DEF SchedulerInv
  <1>4. logs[1].at \in Nat
    <2>1. 1 \in DOMAIN logs
      BY <1>1, MessageTypes DEF SchedulerInv, TypeOK
    <2>2. QED
      BY <2>1, MessageTypes DEF SchedulerInv
  <1>5. /\ now[s] \in Nat /\ now[s] <= clock /\ conv[i].at \in Nat /\ clock \in Nat
        /\ Cooldown \in Nat
    BY ScheduledTypes DEF Procs
  <1>6. QED
    BY <1>1, <1>2, <1>3, <1>4, <1>5

LEMMA DecideKeepsWindow ==
  ASSUME SchedulerInv, SpacingInv, WindowInv, WindowCovers, NEW s \in Schedulers, OneScheduler,
         Decide(s), crashes = 0, NEW g \in Triggers, MaySend(g, now[s]),
         NEW i \in Scheduled, Alone(i), conv[i].trigger = g
  PROVE  clock - conv[i].at >= TriggerCooldown[g]
  <1>1. \A r \in Schedulers : pc[r] # "sent"
    BY DEF OneScheduler, Decide
  <1>2. PICK p \in DOMAIN logs, m \in Nat, l \in Scheduled :
          LoggedAt(i, p, m) /\ IntervalsUpTo(i, l, m)
    BY <1>1 DEF WindowInv, LoggedInv
  <1>3. /\ logs[p].trigger = g /\ logs[p].at >= conv[i].at
        /\ p - 1 + Cardinality(UnloggedTests) <= Cardinality(Testers) + m
        /\ m * Cooldown <= Gap(i, l)
    BY <1>2 DEF LoggedAt, IntervalsUpTo
  <1>4. /\ p \in Nat /\ logs[p].at \in Nat
        /\ conv[i].at \in Nat /\ conv[l].at \in Nat /\ clock \in Nat
        /\ now[s] \in Nat /\ now[s] <= clock
        /\ Cooldown \in Nat /\ LogWindow \in Nat /\ TriggerCooldown[g] \in Nat
    BY MessageTypes, ScheduledTypes DEF SchedulerInv, Procs
  <1>5. CASE p <= LogWindow
    <2>1. now[s] - logs[p].at >= TriggerCooldown[g]
      BY <1>3, <1>5 DEF MaySend, TriggerCool
    <2>2. QED
      BY <1>3, <1>4, <2>1
  <1>6. CASE p > LogWindow
    <2>1. Cardinality(Testers) \in Nat /\ Cardinality(UnloggedTests) \in Nat
      BY FS_Subset, FS_CardinalityType DEF WindowCovers, UnloggedTests
    <2>2. PICK K \in Int : K = LogWindow + 1 - Cardinality(Testers)
      BY <1>4, <2>1
    <2>3. K <= m + 1
      BY <1>3, <1>4, <1>6, <2>1, <2>2
    <2>4. now[s] - conv[l].at >= Cooldown
      BY DecideKeepsSpacing
    <2>5. TriggerCooldown[g] <= K * Cooldown
      BY <2>2 DEF WindowCovers
    <2>6. PICK x \in Nat, y \in Int : x = m * Cooldown /\ y = K * Cooldown /\ y <= x + Cooldown
      <3>1. m * Cooldown \in Nat /\ K * Cooldown \in Int
        BY <1>4
      <3>2. K * Cooldown <= m * Cooldown + Cooldown
        BY <1>4, <2>3, MoreIntervals
      <3>3. QED
        BY <3>1, <3>2
    <2>7. x <= conv[l].at - conv[i].at
      BY <1>3, <2>6 DEF Gap
    <2>8. QED
      BY <1>4, <2>4, <2>5, <2>6, <2>7
  <1>7. QED
    BY <1>4, <1>5, <1>6

LEMMA DecideStep ==
  ASSUME SchedulerInv, SpacingInv, OneScheduler, NEW s \in Schedulers, Decide(s)
  PROVE  /\ SpacingInv'
         /\ WindowCovers /\ WindowInv => WindowInv'
  <1>1. /\ UNCHANGED <<clock, conv, logs, crashes>> /\ pc[s] = "scan" /\ \A r \in Schedulers : r = s
        /\ \/ pc' = [pc EXCEPT ![s] = "idle"] /\ job' = job
           \/ \E g \in Triggers : /\ MaySend(g, now[s])
                                  /\ pc' = [pc EXCEPT ![s] = "asking"]
                                  /\ job' = [job EXCEPT ![s] = g]
    BY DEF Decide, OneScheduler
  <1>2. /\ s \in Procs /\ pc \in [Procs -> {"idle", "scan", "asking", "sent"}]
        /\ job \in [Procs -> Triggers \cup {"manual", "none"}]
        /\ Testers \subseteq Procs /\ s \notin Testers
    BY SchedulerAssumption DEF SchedulerInv, TypeOK, Procs
  <1>3. /\ Scheduled' = Scheduled /\ Sends' = Sends /\ clock \in Nat
        /\ UnloggedTests' = UnloggedTests
    BY <1>1, <1>2, ScheduledTypes DEF Scheduled, Sends, UnloggedTests
  <1>4. CASE pc' = [pc EXCEPT ![s] = "idle"] /\ job' = job
    <2>1. QuietStep
      BY <1>1, <1>2, <1>3, <1>4 DEF QuietStep
    <2>2. QED
      BY <1>3, <2>1, QuietKeepsSpacing, QuietKeepsWindow
  <1>5. ASSUME NEW g \in Triggers, MaySend(g, now[s]), pc' = [pc EXCEPT ![s] = "asking"],
               job' = [job EXCEPT ![s] = g]
        PROVE  /\ SpacingInv'
               /\ WindowCovers /\ WindowInv => WindowInv'
    <2>1. pc'[s] = "asking" /\ job'[s] = g
      BY <1>2, <1>5
    <2>2. SpacingInv'
      BY <1>1, <1>3, <1>5, <2>1, DecideKeepsSpacing DEF SpacingInv, Gap
    <2>3. ASSUME WindowCovers, WindowInv PROVE WindowInv'
      <3> SUFFICES ASSUME crashes = 0
                   PROVE  /\ LoggedInv'
                          /\ \A r \in Schedulers : pc'[r] = "asking" =>
                               \A i \in Scheduled : Alone(i)' /\ conv[i].trigger = job'[r] =>
                                 clock - conv[i].at >= TriggerCooldown[job'[r]]
                          /\ KindsHold'
        BY <1>1, <1>3 DEF WindowInv
      <3>1. \A i : Alone(i)' => Alone(i)
        BY <1>3 DEF Alone
      <3>2. KindsHold'
        BY <1>1, <1>3, <2>3 DEF WindowInv, KindsHold, Gap
      <3>3. LoggedInv'
        BY <1>1, <1>3, <2>1, <2>3, <3>1 DEF WindowInv, LoggedInv, LoggedAt, IntervalsUpTo, Gap
      <3>4. ASSUME NEW i \in Scheduled, Alone(i), conv[i].trigger = g
            PROVE  clock - conv[i].at >= TriggerCooldown[g]
        BY <1>5, <2>3, <3>4, DecideKeepsWindow
      <3>5. QED
        BY <1>1, <2>1, <3>1, <3>2, <3>3, <3>4
    <2>4. QED
      BY <2>2, <2>3
  <1>6. QED
    BY <1>1, <1>4, <1>5

(* The scheduler's message is the newest.                                  *)
LEMMA SendStep ==
  ASSUME SchedulerInv, SpacingInv, OneScheduler, NEW s \in Schedulers, Send(s)
  PROVE  /\ SpacingInv'
         /\ WindowInv => WindowInv'
  <1>1. PICK j : j = Len(conv) + 1
    OBVIOUS
  <1>2. /\ Deliver(s, job[s]) /\ pc' = [pc EXCEPT ![s] = "sent"] /\ pc[s] = "asking"
        /\ UNCHANGED <<clock, logs, job, crashes>>
        /\ s \in Procs /\ s \notin Testers /\ \A r \in Schedulers : r = s
    BY SchedulerAssumption DEF Send, Procs, OneScheduler
  <1>3. /\ job[s] \in Triggers
        /\ pc \in [Procs -> {"idle", "scan", "asking", "sent"}]
    BY <1>2 DEF SchedulerInv, TypeOK, JobInv
  <1>4. /\ j \in Nat /\ Sends' = Sends \cup {j} /\ Scheduled' = Scheduled \cup {j}
        /\ \A i \in Sends : i < j
        /\ \A i \in Scheduled : conv'[i] = conv[i]
        /\ conv'[j].at = clock /\ conv'[j].trigger = job[s]
    <2>1. \A i \in DOMAIN conv : conv'[i] = conv[i]
      BY <1>2, <1>3, DeliverStep DEF SchedulerInv
    <2>2. conv'[j] = [sender |-> s, trigger |-> job[s], at |-> clock] /\ j \in Nat
      BY <1>1, <1>2, <1>3, DeliverStep DEF SchedulerInv
    <2>3. PICK new : new = conv'[j]
      OBVIOUS
    <2>4. new.at = clock /\ new.trigger = job[s]
      BY <2>2, <2>3
    <2>5. /\ Sends' = Sends \cup {j} /\ Scheduled' = Scheduled \cup {j}
          /\ \A i \in Sends : i < j
      BY <1>1, <1>2, <1>3, DeliverSends
    <2>6. QED
      BY <2>1, <2>2, <2>3, <2>4, <2>5, ScheduledTypes
  <1>5. /\ \A i \in Scheduled : i < j /\ i \in Nat /\ conv[i].at \in Nat /\ i \in Sends /\ i # j
        /\ clock \in Nat /\ Cooldown \in Nat
    BY <1>4, ScheduledTypes
  <1>6. pc'[s] = "sent" /\ UnloggedTests' = UnloggedTests
    BY <1>2, <1>3 DEF UnloggedTests
  <1>7. SpacingInv'
    <2> SUFFICES ASSUME crashes = 0
                 PROVE  /\ \A i, k \in Scheduled' : i < k => conv'[k].at - conv'[i].at >= Cooldown
                        /\ \A r \in Schedulers :
                             \E l \in Scheduled' : /\ conv'[l].trigger = job'[r]
                                                   /\ \A i \in Scheduled' : i <= l
      BY <1>2, <1>6 DEF SpacingInv, Gap
    <2>1. \A i \in Scheduled : clock - conv[i].at >= Cooldown
      BY <1>2 DEF SpacingInv
    <2>2. \A i, k \in Scheduled' : i < k => conv'[k].at - conv'[i].at >= Cooldown
      BY <1>4, <1>5, <2>1 DEF SpacingInv, Gap
    <2>3. conv'[j].trigger = job'[s] /\ \A i \in Scheduled' : i <= j
      BY <1>2, <1>4, <1>5
    <2>4. QED
      BY <1>2, <1>4, <2>2, <2>3
  <1>8. ASSUME WindowInv PROVE WindowInv'
    <2> SUFFICES ASSUME crashes = 0
                 PROVE  LoggedInv' /\ KindsHold'
      BY <1>2, <1>6 DEF WindowInv
    <2>1. \A i \in Scheduled : Alone(i)' => Alone(i)
      BY <1>4, <1>5 DEF Alone, Scheduled
    <2>2. ASSUME NEW i \in Scheduled', Alone(i)'
          PROVE  \/ /\ \E r \in Schedulers : pc'[r] = "sent"
                    /\ \A k \in Scheduled' : k <= i
                 \/ \E p \in DOMAIN logs, m \in Nat, l \in Scheduled' :
                      LoggedAt(i, p, m)' /\ IntervalsUpTo(i, l, m)'
      <3>1. CASE i = j
        BY <1>4, <1>5, <1>6, <3>1
      <3>2. CASE i \in Scheduled
        <4>1. PICK p \in DOMAIN logs, m \in Nat, l \in Scheduled :
                LoggedAt(i, p, m) /\ IntervalsUpTo(i, l, m)
          BY <1>2, <1>8, <2>1, <2>2, <3>2 DEF WindowInv, LoggedInv
        <4>2. LoggedAt(i, p, m)'
          BY <1>2, <1>4, <1>6, <3>2, <4>1 DEF LoggedAt
        <4>3. IntervalsUpTo(i, l, m)'
          BY <1>4, <1>5, <3>2, <4>1 DEF IntervalsUpTo, Gap
        <4>4. QED
          BY <1>4, <4>2, <4>3
      <3>3. QED
        BY <1>4, <3>1, <3>2
    <2>3. LoggedInv'
      BY <1>2, <2>2 DEF LoggedInv
    <2>4. ASSUME NEW i \in Scheduled', NEW k \in Scheduled', i < k,
                 conv'[i].trigger = conv'[k].trigger, \A h \in i .. k : h \in Sends' => h \in Scheduled'
          PROVE  conv'[k].at - conv'[i].at >= TriggerCooldown[conv'[i].trigger]
      <3>1. i \in Scheduled
        BY <1>4, <1>5, <2>4
      <3>2. CASE k \in Scheduled
        <4>1. \A h \in i .. k : h \in Sends => h \in Scheduled
          <5> SUFFICES ASSUME NEW h \in i .. k, h \in Sends PROVE h \in Scheduled
            OBVIOUS
          <5>1. h \in Sends' /\ h < j
            BY <1>4
          <5>2. h \in Scheduled' /\ h # j
            BY <1>4, <1>5, <2>4, <3>2, <5>1
          <5>3. QED
            BY <1>4, <5>2
        <4>2. QED
          BY <1>4, <1>8, <2>4, <3>1, <3>2, <4>1 DEF WindowInv, KindsHold, Gap
      <3>3. CASE k = j
        <4>1. Alone(i)
          <5> SUFFICES ASSUME NEW h \in Sends, h >= i PROVE h \in Scheduled
            BY DEF Alone
          <5>1. h \in Sends' /\ h < j /\ h \in Nat
            BY <1>4, MessageTypes DEF Sends, SchedulerInv
          <5>2. h \in Scheduled'
            BY <1>4, <1>5, <2>4, <3>1, <3>3, <5>1
          <5>3. QED
            BY <1>4, <5>1, <5>2
        <4>2. conv[i].trigger = job[s]
          BY <1>4, <2>4, <3>1, <3>3
        <4>3. clock - conv[i].at >= TriggerCooldown[job[s]]
          BY <1>2, <1>8, <3>1, <4>1, <4>2 DEF WindowInv
        <4>4. QED
          BY <1>4, <3>1, <3>3, <4>2, <4>3
      <3>4. QED
        BY <1>4, <2>4, <3>2, <3>3
    <2>5. KindsHold'
      BY <2>4 DEF KindsHold, Gap
    <2>6. QED
      BY <2>3, <2>5
  <1>9. QED
    BY <1>7, <1>8

(* A log is put before the others.                                         *)
LEMMA RecordLogs ==
  ASSUME SchedulerInv, NEW q \in Procs, Record(q)
  PROVE  /\ logs' # <<>> /\ 1 \in DOMAIN logs'
         /\ logs'[1].at = clock /\ logs'[1].trigger = job[q]
         /\ \A p \in DOMAIN logs : p \in Nat /\ p + 1 \in DOMAIN logs' /\ logs'[p + 1] = logs[p]
         /\ pc[q] = "sent" /\ pc' = [pc EXCEPT ![q] = "idle"]
         /\ job' = [job EXCEPT ![q] = "none"]
         /\ UNCHANGED <<clock, conv, crashes, Sends, Scheduled>>
         /\ pc \in [Procs -> {"idle", "scan", "asking", "sent"}]
         /\ job \in [Procs -> Triggers \cup {"manual", "none"}]
  <1>1. PICK entry : entry = [trigger |-> job[q], at |-> clock]
    OBVIOUS
  <1>2. logs' = <<entry>> \o logs
    BY <1>1 DEF Record
  <1>3. PICK L : L = Log \cup {entry}
    OBVIOUS
  <1>4. logs \in Seq(L) /\ entry \in L
    BY <1>3, MessageTypes DEF SchedulerInv, TypeOK
  <1>5. /\ logs' # <<>> /\ 1 \in DOMAIN logs' /\ logs'[1] = entry
        /\ \A p \in DOMAIN logs : p \in Nat /\ p + 1 \in DOMAIN logs' /\ logs'[p + 1] = logs[p]
    BY <1>2, <1>4
  <1>6. entry.at = clock /\ entry.trigger = job[q]
    BY <1>1
  <1>7. QED
    BY <1>5, <1>6 DEF Record, Sends, Scheduled, SchedulerInv, TypeOK

LEMMA RecordKeepsSpacing ==
  ASSUME SchedulerInv, SpacingInv, OneScheduler, NEW q \in Procs, Record(q)
  PROVE  SpacingInv'
  <1>1. /\ logs' # <<>> /\ logs'[1].at = clock
        /\ pc[q] = "sent" /\ pc' = [pc EXCEPT ![q] = "idle"]
        /\ job' = [job EXCEPT ![q] = "none"]
        /\ UNCHANGED <<clock, conv, crashes, Sends, Scheduled>>
        /\ pc \in [Procs -> {"idle", "scan", "asking", "sent"}]
        /\ job \in [Procs -> Triggers \cup {"manual", "none"}]
    BY RecordLogs
  <1>2. \A s \in Schedulers : s # q => pc'[s] = pc[s] /\ job'[s] = job[s]
    BY <1>1 DEF Procs
  <1>3. pc'[q] = "idle"
    BY <1>1
  <1>4. \A i \in Scheduled : conv[i].at <= clock /\ clock \in Nat /\ conv[i].at \in Nat
    BY ScheduledTypes
  <1>5. QED
    BY <1>1, <1>2, <1>3, <1>4 DEF SpacingInv, Gap

LEMMA RecordKeepsWindow ==
  ASSUME SchedulerInv, SpacingInv, WindowInv, WindowCovers, OneScheduler, NEW q \in Procs, Record(q)
  PROVE  WindowInv'
  <1>1. /\ logs' # <<>> /\ 1 \in DOMAIN logs'
        /\ logs'[1].at = clock /\ logs'[1].trigger = job[q]
        /\ \A p \in DOMAIN logs : p \in Nat /\ p + 1 \in DOMAIN logs' /\ logs'[p + 1] = logs[p]
        /\ pc[q] = "sent" /\ pc' = [pc EXCEPT ![q] = "idle"]
        /\ job' = [job EXCEPT ![q] = "none"]
        /\ UNCHANGED <<clock, conv, crashes, Sends, Scheduled>>
        /\ pc \in [Procs -> {"idle", "scan", "asking", "sent"}]
        /\ job \in [Procs -> Triggers \cup {"manual", "none"}]
    BY RecordLogs
  <1>2. \A p \in Procs : p # q => pc'[p] = pc[p] /\ job'[p] = job[p]
    BY <1>1
  <1>3. pc'[q] = "idle" /\ \A i : Alone(i)' <=> Alone(i)
    BY <1>1 DEF Alone
  <1> SUFFICES ASSUME crashes = 0
               PROVE  /\ LoggedInv'
                      /\ \A s \in Schedulers : pc'[s] = "asking" =>
                           \A i \in Scheduled : Alone(i) /\ conv[i].trigger = job'[s] =>
                             clock - conv[i].at >= TriggerCooldown[job'[s]]
                      /\ KindsHold'
    BY <1>1, <1>3 DEF WindowInv
  <1>4. KindsHold'
    BY <1>1 DEF WindowInv, KindsHold, Gap
  <1>5. \A s \in Schedulers : pc'[s] = "asking" =>
          \A i \in Scheduled : Alone(i) /\ conv[i].trigger = job'[s] =>
            clock - conv[i].at >= TriggerCooldown[job'[s]]
    BY <1>2, <1>3 DEF WindowInv, Procs
  <1>6. /\ Cardinality(Testers) \in Nat
        /\ Cardinality(UnloggedTests) \in Nat /\ IsFiniteSet(UnloggedTests)
        /\ Cardinality(UnloggedTests) <= Cardinality(Testers)
    BY FS_Subset, FS_CardinalityType DEF WindowCovers, UnloggedTests
  <1>7. CASE q \in Schedulers
    <2>1. /\ UnloggedTests' = UnloggedTests
          /\ \A s \in Schedulers : s = q /\ pc'[s] # "sent"
      BY <1>1, <1>2, <1>3, <1>7, SchedulerAssumption DEF UnloggedTests, Procs, OneScheduler
    <2>2. PICK last \in Scheduled : /\ conv[last].trigger = job[q]
                                    /\ \A i \in Scheduled : i <= last
      BY <1>1, <1>7 DEF SpacingInv
    <2>3. ASSUME NEW i \in Scheduled, Alone(i)
          PROVE  \E p \in DOMAIN logs', m \in Nat, l \in Scheduled :
                   LoggedAt(i, p, m)' /\ IntervalsUpTo(i, l, m)'
      <3>1. CASE \A k \in Scheduled : k <= i
        <4>1. i = last
          BY <2>2, <3>1, ScheduledTypes
        <4>2. LoggedAt(i, 1, 0)'
          BY <1>1, <1>6, <2>1, <2>2, <4>1, ScheduledTypes DEF LoggedAt
        <4>3. IntervalsUpTo(i, i, 0)'
          BY <1>1, <2>1, ScheduledTypes DEF IntervalsUpTo, Gap
        <4>4. QED
          BY <1>1, <4>2, <4>3
      <3>2. CASE ~(\A k \in Scheduled : k <= i)
        <4>1. PICK p \in DOMAIN logs, m \in Nat, l \in Scheduled :
                LoggedAt(i, p, m) /\ IntervalsUpTo(i, l, m)
          BY <2>3, <3>2 DEF WindowInv, LoggedInv
        <4>2. PICK k \in Scheduled : l < k
          BY <1>1, <1>7, <4>1 DEF IntervalsUpTo
        <4>3. LoggedAt(i, p + 1, m + 1)'
          BY <1>1, <1>6, <2>1, <4>1 DEF LoggedAt
        <4>4. IntervalsUpTo(i, k, m + 1)'
          <5>1. Gap(l, k) >= Cooldown
            BY <4>2 DEF SpacingInv
          <5>2. (m + 1) * Cooldown = m * Cooldown + Cooldown /\ m * Cooldown \in Nat
            BY ScheduledTypes, MoreIntervals
          <5>3. PICK x \in Nat : x = m * Cooldown
            BY <5>2
          <5>4. x <= Gap(i, l) /\ i <= l
            BY <4>1, <5>3 DEF IntervalsUpTo
          <5>5. x + Cooldown <= Gap(i, k) /\ i <= k
            BY <4>2, <5>1, <5>4, ScheduledTypes DEF Gap
          <5>6. QED
            BY <1>1, <2>1, <5>2, <5>3, <5>5 DEF IntervalsUpTo, Gap
        <4>5. QED
          BY <1>1, <4>3, <4>4
      <3>3. QED
        BY <3>1, <3>2
    <2>4. QED
      BY <1>1, <1>3, <1>4, <1>5, <2>3 DEF LoggedInv
  <1>8. CASE q \notin Schedulers
    <2>1. q \in Testers /\ \A s \in Schedulers : pc'[s] = pc[s] /\ s \in Procs
      BY <1>2, <1>8 DEF Procs
    <2>2. UnloggedTests' = UnloggedTests \ {q} /\ q \in UnloggedTests
      BY <1>1, <1>2, <1>3, <2>1 DEF UnloggedTests, Procs
    <2>3. Cardinality(UnloggedTests') = Cardinality(UnloggedTests) - 1
      BY <1>6, <2>2, FS_RemoveElement
    <2>4. ASSUME NEW i \in Scheduled, NEW p \in DOMAIN logs, NEW m \in Nat, NEW l \in Scheduled,
                 LoggedAt(i, p, m), IntervalsUpTo(i, l, m)
          PROVE  LoggedAt(i, p + 1, m)' /\ IntervalsUpTo(i, l, m)'
      <3>1. LoggedAt(i, p + 1, m)'
        BY <1>1, <1>6, <2>3, <2>4 DEF LoggedAt
      <3>2. IntervalsUpTo(i, l, m)'
        BY <1>1, <2>1, <2>4 DEF IntervalsUpTo, Gap
      <3>3. QED
        BY <3>1, <3>2
    <2>5. ASSUME NEW i \in Scheduled, Alone(i)
          PROVE  \/ /\ \E s \in Schedulers : pc'[s] = "sent"
                    /\ \A k \in Scheduled : k <= i
                 \/ \E p \in DOMAIN logs', m \in Nat, l \in Scheduled :
                      LoggedAt(i, p, m)' /\ IntervalsUpTo(i, l, m)'
      <3>1. CASE \E s \in Schedulers : pc[s] = "sent" /\ \A k \in Scheduled : k <= i
        BY <2>1, <3>1
      <3>2. CASE \E p \in DOMAIN logs, m \in Nat, l \in Scheduled :
                   LoggedAt(i, p, m) /\ IntervalsUpTo(i, l, m)
        BY <1>1, <2>4, <3>2
      <3>3. QED
        BY <2>5, <3>1, <3>2 DEF WindowInv, LoggedInv
    <2>6. QED
      BY <1>1, <1>3, <1>4, <1>5, <2>5 DEF LoggedInv
  <1>9. QED
    BY <1>7, <1>8

LEMMA InitSpacingInv == Init => SpacingInv /\ WindowInv
  <1> SUFFICES ASSUME Init PROVE SpacingInv /\ WindowInv
    OBVIOUS
  <1>1. PICK msg : msg = [sender |-> "bot", trigger |-> "starter", at |-> 0]
    OBVIOUS
  <1>2. conv = <<>> \/ conv = <<msg>>
    BY <1>1 DEF Init
  <1>3. \A i \in DOMAIN conv : conv[i].sender = "bot"
    BY <1>1, <1>2
  <1>4. Scheduled = {}
    BY <1>3, SchedulerAssumption DEF Sends, Scheduled
  <1>5. \A s \in Schedulers : pc[s] = "idle"
    BY DEF Init, Procs
  <1>6. QED
    BY <1>4, <1>5 DEF SpacingInv, WindowInv, LoggedInv, KindsHold

LEMMA NextSpacingInv ==
  ASSUME SchedulerInv, SpacingInv, OneScheduler, [Next]_vars
  PROVE  /\ SpacingInv'
         /\ WindowCovers /\ WindowInv => WindowInv'
  <1> USE SchedulerAssumption
  <1>t. /\ pc \in [Procs -> {"idle", "scan", "asking", "sent"}]
        /\ job \in [Procs -> Triggers \cup {"manual", "none"}]
        /\ Schedulers \subseteq Procs /\ Testers \subseteq Procs
        /\ clock \in Nat
    BY DEF SchedulerInv, TypeOK, Procs
  <1>1. ASSUME QuietStep,
               UnloggedTests' = UnloggedTests
                 \/ \E k \in Sends' : k \notin Scheduled' /\ \A i \in Scheduled : i <= k
        PROVE  /\ SpacingInv'
               /\ WindowCovers /\ WindowInv => WindowInv'
    BY <1>1, QuietKeepsSpacing, QuietKeepsWindow
  <1>2. CASE UNCHANGED vars
    <2>1. QuietStep /\ UnloggedTests' = UnloggedTests
      BY <1>2, <1>t DEF vars, QuietStep, Scheduled, Sends, UnloggedTests
    <2>2. QED
      BY <1>1, <2>1
  <1>3. CASE Elapse
    <2>1. QuietStep /\ UnloggedTests' = UnloggedTests
      BY <1>3, <1>t DEF Elapse, QuietStep, Scheduled, Sends, UnloggedTests
    <2>2. QED
      BY <1>1, <2>1
  <1>4. CASE UserWrites \/ BotReplies
    <2>1. PICK x \in {"user", "bot"} : Deliver(x, "none")
      BY <1>4 DEF UserWrites, BotReplies
    <2>2. Scheduled' = Scheduled /\ Sends' = Sends
      BY <2>1, DeliverSends DEF Procs
    <2>3. \A i \in Scheduled : conv'[i] = conv[i]
      BY <2>1, DeliverStep DEF SchedulerInv, Scheduled, Sends
    <2>4. QuietStep /\ UnloggedTests' = UnloggedTests
      BY <1>4, <1>t, <2>2, <2>3 DEF UserWrites, BotReplies, QuietStep, UnloggedTests
    <2>5. QED
      BY <1>1, <2>4
  <1>5. ASSUME NEW s \in Schedulers, Tick(s) \/ Abandon(s)
        PROVE  /\ SpacingInv'
               /\ WindowCovers /\ WindowInv => WindowInv'
    <2>1. QuietStep /\ UnloggedTests' = UnloggedTests
      BY <1>5, <1>t DEF Tick, Abandon, QuietStep, Scheduled, Sends, UnloggedTests
    <2>2. QED
      BY <1>1, <2>1
  <1>6. ASSUME NEW s \in Schedulers, Decide(s)
        PROVE  /\ SpacingInv'
               /\ WindowCovers /\ WindowInv => WindowInv'
    BY <1>6, DecideStep
  <1>7. ASSUME NEW p \in Testers, Request(p)
        PROVE  /\ SpacingInv'
               /\ WindowCovers /\ WindowInv => WindowInv'
    <2>1. QuietStep /\ UnloggedTests' = UnloggedTests
      <3>1. /\ pc[p] = "idle" /\ pc' = [pc EXCEPT ![p] = "asking"]
            /\ \A s \in Schedulers : s # p
            /\ \E g \in Triggers \cup {"manual"} : job' = [job EXCEPT ![p] = g]
            /\ UNCHANGED <<clock, conv, logs, crashes>>
        BY <1>7 DEF Request
      <3>2. \A s \in Schedulers : pc'[s] = pc[s] /\ job'[s] = job[s]
        BY <1>t, <3>1
      <3>3. UnloggedTests' = UnloggedTests
        BY <1>t, <3>1 DEF UnloggedTests
      <3>4. QED
        BY <1>t, <3>1, <3>2, <3>3 DEF QuietStep, Scheduled, Sends
    <2>2. QED
      BY <1>1, <2>1
  <1>8. ASSUME NEW s \in Schedulers, Send(s)
        PROVE  /\ SpacingInv'
               /\ WindowCovers /\ WindowInv => WindowInv'
    BY <1>8, SendStep
  <1>9. ASSUME NEW p \in Testers, Send(p)
        PROVE  /\ SpacingInv'
               /\ WindowCovers /\ WindowInv => WindowInv'
    <2>1. /\ Deliver(p, job[p]) /\ pc' = [pc EXCEPT ![p] = "sent"]
          /\ UNCHANGED <<clock, logs, now, job, crashes>>
          /\ p \in Procs /\ p \notin Schedulers
          /\ job[p] \in Triggers \cup {"manual", "starter", "none"}
      BY <1>9, <1>t DEF Send
    <2>2. /\ Scheduled' = Scheduled /\ Sends' = Sends \cup {Len(conv) + 1}
          /\ \A i \in Sends : i < Len(conv) + 1
      BY <2>1, DeliverSends
    <2>3. /\ \A i \in Scheduled : conv'[i] = conv[i]
          /\ Len(conv) + 1 \notin Scheduled'
          /\ \A i \in Scheduled : i <= Len(conv) + 1
      <3>1. /\ \A i \in DOMAIN conv : conv'[i] = conv[i]
            /\ Len(conv) \in Nat
        BY <2>1, DeliverStep DEF SchedulerInv
      <3>2. \A i \in Scheduled : i \in Sends /\ i \in Nat /\ i \in DOMAIN conv
        BY ScheduledTypes
      <3>3. QED
        BY <2>2, <3>1, <3>2
    <2>4. QuietStep
      <3>1. \A s \in Schedulers : pc'[s] = pc[s] /\ job'[s] = job[s]
        BY <1>t, <2>1
      <3>2. QED
        BY <1>t, <2>1, <2>2, <2>3, <3>1 DEF QuietStep
    <2>5. QED
      BY <1>1, <2>2, <2>3, <2>4
  <1>10. ASSUME NEW p \in Procs, Record(p)
         PROVE  /\ SpacingInv'
                /\ WindowCovers /\ WindowInv => WindowInv'
    BY <1>10, RecordKeepsSpacing, RecordKeepsWindow
  <1>11. ASSUME NEW p \in Procs, Crash(p)
         PROVE  /\ SpacingInv'
                /\ WindowCovers /\ WindowInv => WindowInv'
    BY <1>11, ScheduledTypes DEF Crash, SpacingInv, WindowInv
  <1>12. QED
    BY <1>2, <1>3, <1>4, <1>5, <1>6, <1>7, <1>8, <1>9, <1>10, <1>11 DEF Next, Procs

(* With one scheduler loop, two scheduled messages are never closer than   *)
(* the user's interval, however long the scan, the model and the log take; *)
(* and as long as the logs a decision reads reach back over the longest    *)
(* cooldown, two of one trigger type keep its cooldown.                    *)
THEOREM CooldownsAreKept ==
  ASSUME OneScheduler, WindowCovers
  PROVE  Spec => []CooldownsHold
  <1>1. Init => SchedulerInv /\ SpacingInv /\ WindowInv
    BY InitSchedulerInv, InitSpacingInv
  <1>2. SchedulerInv /\ SpacingInv /\ WindowInv /\ [Next]_vars
          => SchedulerInv' /\ SpacingInv' /\ WindowInv'
    BY NextSchedulerInv, NextSpacingInv
  <1>3. SpacingInv /\ WindowInv => CooldownsHold
    BY DEF SpacingInv, WindowInv, KindsHold, CooldownsHold, Gap
  <1>4. QED
    BY <1>1, <1>2, <1>3, PTL DEF Spec

(* The interval alone holds whatever the windows are.                      *)
THEOREM IntervalIsKept ==
  ASSUME OneScheduler
  PROVE  Spec => [](crashes = 0 =>
                      \A i, j \in Scheduled : i < j => conv[j].at - conv[i].at >= Cooldown)
  <1>1. Init => SchedulerInv /\ SpacingInv
    BY InitSchedulerInv, InitSpacingInv
  <1>2. SchedulerInv /\ SpacingInv /\ [Next]_vars => SchedulerInv' /\ SpacingInv'
    BY NextSchedulerInv, NextSpacingInv
  <1>3. SpacingInv => (crashes = 0 =>
                         \A i, j \in Scheduled : i < j => conv[j].at - conv[i].at >= Cooldown)
    BY DEF SpacingInv, Gap
  <1>4. QED
    BY <1>1, <1>2, <1>3, PTL DEF Spec

-----------------------------------------------------------------------------
(* The changes of a persona.                                               *)

(* Pruning keeps the log short, and all but the event appended before was  *)
(* in it.                                                                  *)
LEMMA PruneAppend ==
  ASSUME NEW s \in Seq(Events), NEW e \in Events
  PROVE  /\ Append(s, e) \in Seq(Events) /\ Prune(Append(s, e)) \in Seq(Events)
         /\ Len(Prune(Append(s, e))) <= Keep
         /\ \A i \in DOMAIN Append(s, e) :
              Append(s, e)[i] = e \/ \E j \in DOMAIN s : Append(s, e)[i] = s[j]
         /\ \A i \in DOMAIN Prune(Append(s, e)) :
              \/ Prune(Append(s, e))[i] = e
              \/ \E j \in DOMAIN s : Prune(Append(s, e))[i] = s[j]
  <1> DEFINE longer == Append(s, e)
             pruned == Prune(longer)
             n == Len(longer)
  <1> USE PersonaAssumption
  <1>1. /\ longer \in Seq(Events)
        /\ n \in Nat
        /\ \A i \in DOMAIN longer :
             longer[i] = e \/ \E j \in DOMAIN s : longer[i] = s[j]
    OBVIOUS
  <1>2. /\ pruned \in Seq(Events)
        /\ Len(pruned) <= Keep
        /\ \A i \in DOMAIN pruned : \E j \in DOMAIN longer : pruned[i] = longer[j]
    <2> HIDE DEF longer
    <2>1. CASE n <= Keep
      BY <1>1, <2>1 DEF Prune
    <2>2. CASE ~(n <= Keep)
      <3>1. pruned = SubSeq(longer, n - Keep + 1, n)
        BY <1>1, <2>2 DEF Prune
      <3>2. /\ n - Keep + 1 \in Int /\ n - Keep + 1 <= n
            /\ \A i \in n - Keep + 1 .. n : longer[i] \in Events
        BY <1>1, <2>2
      <3>3. /\ SubSeq(longer, n - Keep + 1, n) \in Seq(Events)
            /\ Len(SubSeq(longer, n - Keep + 1, n)) = n - (n - Keep + 1) + 1
            /\ \A i \in 1 .. n - (n - Keep + 1) + 1 :
                 SubSeq(longer, n - Keep + 1, n)[i] = longer[n - Keep + 1 + i - 1]
        BY <1>1, <3>2, SubSeqProperties
      <3>4. n - (n - Keep + 1) + 1 = Keep
        BY <1>1
      <3> HIDE DEF pruned
      <3>5. /\ pruned \in Seq(Events) /\ Len(pruned) = Keep
            /\ \A i \in 1 .. Keep : pruned[i] = longer[n - Keep + 1 + i - 1]
        BY <3>1, <3>3, <3>4
      <3>6. \A i \in 1 .. Keep : n - Keep + 1 + i - 1 \in 1 .. n
        BY <1>1, <2>2
      <3>7. DOMAIN pruned = 1 .. Keep /\ DOMAIN longer = 1 .. n
        BY <1>1, <3>5
      <3>8. ASSUME NEW i \in DOMAIN pruned
            PROVE  \E j \in DOMAIN longer : pruned[i] = longer[j]
        <4>1. i \in 1 .. Keep
          BY <3>7
        <4>2. n - Keep + 1 + i - 1 \in DOMAIN longer /\ pruned[i] = longer[n - Keep + 1 + i - 1]
          BY <4>1, <3>5, <3>6, <3>7
        <4>3. QED
          BY <4>2
      <3>9. QED
        BY <3>5, <3>8
    <2>3. QED
      BY <2>1, <2>2
  <1>3. \A i \in DOMAIN pruned : pruned[i] = e \/ \E j \in DOMAIN s : pruned[i] = s[j]
    BY <1>1, <1>2
  <1>4. QED
    BY <1>1, <1>2, <1>3

(* The same, of a step that logs the fate of a turn's fact.                *)
LEMMA LogPrunes ==
  ASSUME events \in Seq(Events), NEW t \in Turns, NEW f \in Facts,
         NEW status \in {"accepted", "skipped", "failed"}, LogEvent(t, f, status)
  PROVE  /\ events' \in Seq(Events)
         /\ store = "memory" => Len(events') <= Keep
         /\ \A i \in DOMAIN events' :
              \/ events'[i] = [source |-> t, fact |-> f, status |-> status]
              \/ \E j \in DOMAIN events : events'[i] = events[j]
  <1> DEFINE event == [source |-> t, fact |-> f, status |-> status]
  <1>1. event \in Events
    BY DEF Events
  <1>2. \/ events' = Prune(Append(events, event))
        \/ store = "postgres" /\ events' = Append(events, event)
    BY DEF LogEvent
  <1> HIDE DEF event
  <1>3. CASE events' = Prune(Append(events, event))
    BY <1>1, <1>3, PruneAppend DEF event
  <1>4. CASE store = "postgres" /\ events' = Append(events, event)
    BY <1>1, <1>4, PruneAppend DEF event
  <1>5. QED
    BY <1>2, <1>3, <1>4

-----------------------------------------------------------------------------
(* Subtasks that apply or record a change are at an item of their list.    *)
Busy == \A t \in Turns : at[t] \in {"patch", "record"} => todo[t] # <<>>

PersonaInv == PersonaTypeOK /\ Busy

(* What a write starts from is a set of facts.                             *)
LEMMA BaseType ==
  ASSUME PersonaTypeOK, NEW a \in Actors, store = "memory" \/ row[a] # <<>>
  PROVE  Base(a) \in SUBSET Facts
  <1>1. row[a] \in {<<>>} \cup {<<b>> : b \in SUBSET Facts}
    BY DEF PersonaTypeOK
  <1>2. CASE store = "memory"
    BY <1>2 DEF Base, PersonaTypeOK
  <1>3. CASE store # "memory"
    <2>1. PICK b \in SUBSET Facts : row[a] = <<b>>
      BY <1>1, <1>3
    <2>2. QED
      BY <2>1, <1>3 DEF Base
  <1>4. QED
    BY <1>2, <1>3

(* A write of a set of facts leaves bot and row well typed.                *)
LEMMA WriteType ==
  ASSUME PersonaTypeOK, NEW a \in Actors, NEW b \in SUBSET Facts, WriteBot(a, b)
  PROVE  /\ bot' \in SUBSET Facts
         /\ row' \in [Actors -> {<<>>} \cup {<<c>> : c \in SUBSET Facts}]
  BY DEF WriteBot, PersonaTypeOK

LEMMA InitPersonaInv == PersonaInit => PersonaInv
  <1> SUFFICES ASSUME PersonaInit PROVE PersonaInv
    OBVIOUS
  <1> USE PersonaAssumption
  <1>1. events \in Seq(Events) /\ Len(events) <= Keep
    <2>1. CASE events = <<>>
      BY <2>1
    <2>2. ASSUME NEW f \in Facts,
                 events = <<[source |-> Pending, fact |-> f, status |-> "pending"]>>
          PROVE  events \in Seq(Events) /\ Len(events) <= Keep
      <3>1. [source |-> Pending, fact |-> f, status |-> "pending"] \in Events
        BY DEF Events
      <3>2. QED
        BY <2>2, <3>1
    <2>3. QED
      BY <2>1, <2>2 DEF PersonaInit
  <1>2. todo \in [Turns -> Seq(Items)]
    BY DEF PersonaInit
  <1>3. at \in [Actors -> Steps]
    BY DEF PersonaInit, Steps
  <1>4. row \in [Actors -> {<<>>} \cup {<<b>> : b \in SUBSET Facts}]
    BY DEF PersonaInit
  <1>5. PersonaTypeOK
    BY <1>1, <1>2, <1>3, <1>4 DEF PersonaInit, PersonaTypeOK
  <1>6. Busy
    BY DEF PersonaInit, Busy, Actors
  <1>7. QED
    BY <1>5, <1>6 DEF PersonaInv

(* Items, their facts, and what is left after one of them.                 *)
LEMMA NextItem ==
  ASSUME PersonaTypeOK, NEW t \in Turns, todo[t] # <<>>
  PROVE  /\ Head(todo[t]).fact \in Facts
         /\ [todo EXCEPT ![t] = Tail(@)] \in [Turns -> Seq(Items)]
  <1>1. todo[t] \in Seq(Items)
    BY DEF PersonaTypeOK
  <1>2. Head(todo[t]) \in Items /\ Tail(todo[t]) \in Seq(Items)
    BY <1>1
  <1>3. QED
    BY <1>2 DEF Items, PersonaTypeOK

(* What the events of the log are.                                         *)
LEMMA EventTypes ==
  ASSUME events \in Seq(Events)
  PROVE  \A i \in DOMAIN events : events[i] \in Events /\ events[i].fact \in Facts
  <1>1. \A i \in DOMAIN events : events[i] \in Events
    OBVIOUS
  <1>2. QED
    BY <1>1 DEF Events

(* A verdict leaves the log well typed and no longer.                      *)
LEMMA ResolveType ==
  ASSUME PersonaTypeOK, NEW q, Resolve(q)
  PROVE  /\ events' \in Seq(Events)
         /\ store = "memory" => Len(events') <= Keep
  <1> DEFINE n == Len(events)
             verdict == IF want[q] = {} THEN "rejected" ELSE "accepted"
  <1>1. n \in Nat /\ (store = "memory" => n <= Keep) /\ DOMAIN events = 1 .. n
    BY DEF PersonaTypeOK
  <1>2. events' = [i \in 1 .. n |-> IF i \in PendingChange
                                    THEN [events[i] EXCEPT !.status = verdict]
                                    ELSE events[i]]
    BY <1>1 DEF Resolve
  <1>3. \A i \in 1 .. n : events[i] \in Events
    BY <1>1 DEF PersonaTypeOK
  <1>4. \A e \in Events : [e EXCEPT !.status = verdict] \in Events
    BY DEF Events
  <1> HIDE DEF verdict, n
  <1>5. \A i \in 1 .. n : events'[i] \in Events
    BY <1>2, <1>3, <1>4
  <1>6. DOMAIN events' = 1 .. n /\ events' \in [1 .. n -> Events]
    BY <1>2, <1>5
  <1>7. events' \in Seq(Events) /\ Len(events') = n
    BY <1>1, <1>6
  <1>8. QED
    BY <1>1, <1>2, <1>3, <1>4, <1>7, <1>6

LEMMA NextPersonaInv == PersonaInv /\ [PersonaNext]_personaVars => PersonaInv'
  <1> SUFFICES ASSUME PersonaInv, [PersonaNext]_personaVars PROVE PersonaInv'
    OBVIOUS
  <1> USE PersonaAssumption
  <1>a. PersonaTypeOK /\ Busy
    BY DEF PersonaInv
  <1>b. Turns \subseteq Actors /\ Requests \subseteq Actors
    BY DEF Actors
  <1>1. CASE UNCHANGED personaVars
    BY <1>a, <1>1 DEF personaVars, PersonaInv, PersonaTypeOK, Busy
  <1>2. ASSUME NEW t \in Turns, ExtractItems(t) PROVE PersonaInv'
    <2>1. \A n \in 0 .. MaxItems[t] : [1 .. n -> Items] \subseteq Seq(Items)
      OBVIOUS
    <2>2. todo' \in [Turns -> Seq(Items)]
      BY <1>a, <1>2, <2>1 DEF ExtractItems, PersonaTypeOK
    <2>3. at' \in [Actors -> Steps] /\ at'[t] \in {"done", "decide"}
          /\ \A u \in Turns \ {t} : at'[u] = at[u] /\ todo'[u] = todo[u]
      BY <1>a, <1>b, <1>2 DEF ExtractItems, PersonaTypeOK, Go, Steps
    <2>4. QED
      BY <1>a, <1>2, <2>2, <2>3 DEF ExtractItems, PersonaInv, PersonaTypeOK, Busy, history
  <1>3. ASSUME NEW t \in Turns, SkipItem(t) PROVE PersonaInv'
    <2>1. /\ todo' \in [Turns -> Seq(Items)]
          /\ Head(todo[t]).fact \in Facts
          /\ \A u \in Turns \ {t} : todo'[u] = todo[u]
      BY <1>a, <1>3, NextItem DEF SkipItem, PersonaTypeOK
    <2>2. events' \in Seq(Events) /\ (store = "memory" => Len(events') <= Keep)
      BY <1>a, <1>3, <2>1, LogPrunes DEF SkipItem, PersonaTypeOK
    <2>3. QED
      BY <1>a, <1>3, <2>1, <2>2 DEF SkipItem, PersonaInv, PersonaTypeOK, Busy, history
  <1>4. ASSUME NEW t \in Turns, AcceptItem(t) PROVE PersonaInv'
    <2>1. {Head(todo[t]).fact} \in SUBSET Facts
      BY <1>a, <1>4, NextItem DEF AcceptItem
    <2>2. /\ want' \in [Actors -> SUBSET Facts]
          /\ at' \in [Actors -> Steps]
          /\ \A u \in Turns \ {t} : at'[u] = at[u]
      BY <1>a, <1>b, <1>4, <2>1 DEF AcceptItem, PersonaTypeOK, Go, Steps
    <2>3. QED
      BY <1>a, <1>4, <2>2 DEF AcceptItem, PersonaInv, PersonaTypeOK, Busy, history
  <1>5. ASSUME NEW t \in Turns, PatchTurn(t) PROVE PersonaInv'
    <2>1. Patched(t) \in SUBSET Facts
      BY <1>a, <1>b, <1>5, BaseType DEF PatchTurn, WriteBot, Patched, PersonaTypeOK
    <2>2. /\ bot' \in SUBSET Facts
          /\ row' \in [Actors -> {<<>>} \cup {<<c>> : c \in SUBSET Facts}]
      BY <1>a, <1>b, <1>5, <2>1, WriteType DEF PatchTurn
    <2>3. /\ at' \in [Actors -> Steps]
          /\ \A u \in Turns \ {t} : at'[u] = at[u]
      BY <1>a, <1>b, <1>5 DEF PatchTurn, PersonaTypeOK, Go, Steps
    <2>4. QED
      BY <1>a, <1>5, <2>2, <2>3 DEF PatchTurn, PersonaInv, PersonaTypeOK, Busy, history
  <1>6. ASSUME NEW t \in Turns, PatchFails(t) PROVE PersonaInv'
    <2>1. /\ todo' \in [Turns -> Seq(Items)]
          /\ Head(todo[t]).fact \in Facts
          /\ \A u \in Turns \ {t} : todo'[u] = todo[u]
      BY <1>a, <1>6, NextItem DEF PatchFails, PersonaTypeOK, Busy
    <2>2. events' \in Seq(Events) /\ (store = "memory" => Len(events') <= Keep)
      BY <1>a, <1>6, <2>1, LogPrunes DEF PatchFails, PersonaTypeOK
    <2>3. /\ at' \in [Actors -> Steps] /\ at'[t] = "decide"
          /\ \A u \in Turns \ {t} : at'[u] = at[u]
          /\ row' \in [Actors -> {<<>>} \cup {<<c>> : c \in SUBSET Facts}]
      BY <1>a, <1>b, <1>6 DEF PatchFails, PersonaTypeOK, Go, Steps
    <2>4. QED
      BY <1>a, <1>6, <2>1, <2>2, <2>3 DEF PatchFails, PersonaInv, PersonaTypeOK, Busy, history
  <1>7. ASSUME NEW t \in Turns, RecordChange(t) PROVE PersonaInv'
    <2>1. /\ todo' \in [Turns -> Seq(Items)]
          /\ Head(todo[t]).fact \in Facts
          /\ \A u \in Turns \ {t} : todo'[u] = todo[u]
      BY <1>a, <1>7, NextItem DEF RecordChange, PersonaTypeOK, Busy
    <2>2. events' \in Seq(Events) /\ (store = "memory" => Len(events') <= Keep)
      BY <1>a, <1>7, <2>1, LogPrunes DEF RecordChange, PersonaTypeOK
    <2>3. /\ at' \in [Actors -> Steps] /\ at'[t] = "decide"
          /\ \A u \in Turns \ {t} : at'[u] = at[u]
      BY <1>a, <1>b, <1>7 DEF RecordChange, PersonaTypeOK, Go, Steps
    <2>4. /\ accepted' \in [Turns -> SUBSET Facts]
          /\ unrecorded' \in SUBSET Facts
      <3>1. \/ accepted' = accepted /\ unrecorded' = unrecorded \cup {Head(todo[t]).fact}
            \/ /\ accepted' = [accepted EXCEPT ![t] = @ \cup {Head(todo[t]).fact}]
               /\ unrecorded' = unrecorded
        BY <1>7 DEF RecordChange
      <3>2. accepted \in [Turns -> SUBSET Facts] /\ unrecorded \in SUBSET Facts
        BY <1>a DEF PersonaTypeOK
      <3>3. CASE accepted' = accepted /\ unrecorded' = unrecorded \cup {Head(todo[t]).fact}
        BY <2>1, <3>2, <3>3
      <3>4. CASE /\ accepted' = [accepted EXCEPT ![t] = @ \cup {Head(todo[t]).fact}]
                 /\ unrecorded' = unrecorded
        BY <2>1, <3>2, <3>4
      <3>5. QED
        BY <3>1, <3>3, <3>4
    <2>5. QED
      BY <1>a, <1>7, <2>1, <2>2, <2>3, <2>4 DEF RecordChange, PersonaInv, PersonaTypeOK, Busy, history
  <1>8. ASSUME NEW t \in Turns, AllDecided(t) PROVE PersonaInv'
    <2>1. /\ at' \in [Actors -> Steps] /\ at'[t] \in {"done", "cognition"}
          /\ \A u \in Turns \ {t} : at'[u] = at[u]
          /\ want' \in [Actors -> SUBSET Facts]
          /\ seen' \in [Turns -> SUBSET Facts]
          /\ accepted' \in [Turns -> SUBSET Facts]
      BY <1>a, <1>b, <1>8 DEF AllDecided, Return, PersonaTypeOK, Go, Steps
    <2>2. QED
      BY <1>a, <1>8, <2>1 DEF AllDecided, PersonaInv, PersonaTypeOK, Busy, history
  <1>9. ASSUME NEW a \in Actors, ReadRow(a) PROVE PersonaInv'
    BY <1>a, <1>9 DEF ReadRow, PersonaInv, PersonaTypeOK, Busy, history
  <1>10. ASSUME NEW a \in Actors, WriteCognition(a) PROVE PersonaInv'
    <2>1. Base(a) \in SUBSET Facts
      BY <1>a, <1>10, BaseType DEF WriteCognition, WriteBot
    <2>2. /\ bot' \in SUBSET Facts
          /\ row' \in [Actors -> {<<>>} \cup {<<c>> : c \in SUBSET Facts}]
      BY <1>a, <1>10, <2>1, WriteType DEF WriteCognition
    <2>3. QED
      BY <1>a, <1>b, <1>10, <2>2 DEF WriteCognition, Return, Go, Steps, PersonaInv, PersonaTypeOK, Busy, history
  <1>11. ASSUME NEW a \in Actors, StatementFails(a) PROVE PersonaInv'
    <2>1. /\ at' \in [Actors -> Steps]
          /\ want' \in [Actors -> SUBSET Facts]
          /\ row' \in [Actors -> {<<>>} \cup {<<c>> : c \in SUBSET Facts}]
          /\ at'[a] = "done"
          /\ \A u \in Actors \ {a} : at'[u] = at[u]
      BY <1>a, <1>11 DEF StatementFails, Return, Go, Steps, PersonaTypeOK
    <2>2. QED
      BY <1>a, <1>b, <1>11, <2>1 DEF StatementFails, PersonaInv, PersonaTypeOK, Busy, history
  <1>12. ASSUME NEW q \in Requests, Iterate(q) PROVE PersonaInv'
    <2>1. PICK step \in {"iterate", "done"} : at' = [at EXCEPT ![q] = step]
      BY <1>12 DEF Iterate, Go
    <2>2. at' \in [Actors -> Steps] /\ \A t \in Turns : at'[t] = at[t]
      BY <1>a, <1>b, <2>1 DEF Steps, PersonaTypeOK
    <2>3. want' \in [Actors -> SUBSET Facts]
      <3>1. CASE UNCHANGED want
        BY <1>a, <3>1 DEF PersonaTypeOK
      <3>2. CASE \E adds \in SUBSET Facts : want' = [want EXCEPT ![q] = adds]
        BY <1>a, <3>2 DEF PersonaTypeOK
      <3>3. QED
        BY <1>12, <3>1, <3>2 DEF Iterate
    <2>4. QED
      BY <1>a, <1>12, <2>2, <2>3 DEF Iterate, PersonaInv, PersonaTypeOK, Busy, history
  <1>13. ASSUME NEW q \in Requests, PatchIterate(q) PROVE PersonaInv'
    <2>1. Patched(q) \in SUBSET Facts
      BY <1>a, <1>b, <1>13, BaseType DEF PatchIterate, WriteBot, Patched, PersonaTypeOK
    <2>2. /\ bot' \in SUBSET Facts
          /\ row' \in [Actors -> {<<>>} \cup {<<c>> : c \in SUBSET Facts}]
      BY <1>a, <1>b, <1>13, <2>1, WriteType DEF PatchIterate
    <2>3. QED
      BY <1>a, <1>b, <1>13, <2>2
      DEF PatchIterate, Return, Go, Steps, PersonaInv, PersonaTypeOK, Busy, history
  <1>14. ASSUME NEW q \in Requests, SubmitForm(q) PROVE PersonaInv'
    <2>1. /\ at' \in [Actors -> Steps]
          /\ \A t \in Turns : at'[t] = at[t]
      BY <1>a, <1>b, <1>14 DEF SubmitForm, PersonaTypeOK, Go, Steps
    <2>2. want' \in [Actors -> SUBSET Facts]
      <3>1. CASE UNCHANGED want
        BY <1>a, <3>1 DEF PersonaTypeOK
      <3>2. CASE \E facts \in (SUBSET Facts) \ {{}} : want' = [want EXCEPT ![q] = facts]
        BY <1>a, <3>2 DEF PersonaTypeOK
      <3>3. QED
        BY <1>14, <3>1, <3>2 DEF SubmitForm
    <2>3. QED
      BY <1>a, <1>14, <2>1, <2>2 DEF SubmitForm, PersonaInv, PersonaTypeOK, Busy, history
  <1>15. ASSUME NEW q \in Requests, WriteForm(q) PROVE PersonaInv'
    <2>1. /\ bot' \in SUBSET Facts
          /\ row' \in [Actors -> {<<>>} \cup {<<c>> : c \in SUBSET Facts}]
      BY <1>a, <1>b, <1>15, WriteType DEF WriteForm, PersonaTypeOK
    <2>2. QED
      BY <1>a, <1>b, <1>15, <2>1
      DEF WriteForm, Return, Go, Steps, PersonaInv, PersonaTypeOK, Busy, history
  <1>16. ASSUME NEW q \in Requests, CheckPending(q) PROVE PersonaInv'
    <2>1. \A i \in DOMAIN events : events[i].fact \in Facts
      BY <1>a, EventTypes DEF PersonaTypeOK
    <2>2. want' \in [Actors -> SUBSET Facts]
      <3>1. CASE UNCHANGED want
        BY <1>a, <3>1 DEF PersonaTypeOK
      <3>2. CASE \E facts \in SUBSET Facts : want' = [want EXCEPT ![q] = facts]
        BY <1>a, <3>2 DEF PersonaTypeOK
      <3>3. ASSUME NEW i \in PendingChange, want' = [want EXCEPT ![q] = {events[i].fact}]
            PROVE  \E facts \in SUBSET Facts : want' = [want EXCEPT ![q] = facts]
        BY <2>1, <3>3 DEF PendingChange
      <3>4. QED
        BY <1>16, <3>1, <3>2, <3>3 DEF CheckPending
    <2>3. PICK step \in {"accept", "resolve", "done"} : at' = [at EXCEPT ![q] = step]
      BY <1>16 DEF CheckPending, Go
    <2>4. at' \in [Actors -> Steps] /\ \A t \in Turns : at'[t] = at[t]
      BY <1>a, <1>b, <2>3 DEF Steps, PersonaTypeOK
    <2>5. QED
      BY <1>a, <1>16, <2>2, <2>4 DEF CheckPending, PersonaInv, PersonaTypeOK, Busy, history
  <1>17. ASSUME NEW q \in Requests, PatchReview(q) PROVE PersonaInv'
    <2>1. Patched(q) \in SUBSET Facts
      BY <1>a, <1>b, <1>17, BaseType DEF PatchReview, WriteBot, Patched, PersonaTypeOK
    <2>2. /\ bot' \in SUBSET Facts
          /\ row' \in [Actors -> {<<>>} \cup {<<c>> : c \in SUBSET Facts}]
      BY <1>a, <1>b, <1>17, <2>1, WriteType DEF PatchReview
    <2>3. QED
      BY <1>a, <1>b, <1>17, <2>2
      DEF PatchReview, Go, Steps, PersonaInv, PersonaTypeOK, Busy, history
  <1>18. ASSUME NEW q \in Requests, Resolve(q) PROVE PersonaInv'
    <2>1. events' \in Seq(Events) /\ (store = "memory" => Len(events') <= Keep)
      BY <1>a, <1>18, ResolveType
    <2>2. QED
      BY <1>a, <1>b, <1>18, <2>1
      DEF Resolve, Return, Go, Steps, PersonaInv, PersonaTypeOK, Busy, history
  <1>19. QED
    BY <1>1, <1>2, <1>3, <1>4, <1>5, <1>6, <1>7, <1>8, <1>9, <1>10, <1>11, <1>12,
       <1>13, <1>14, <1>15, <1>16, <1>17, <1>18 DEF PersonaNext

(* The persona, the log and every actor's state are well typed, and the    *)
(* log never holds more than Keep events.                                  *)
THEOREM PersonaTypeCorrect == PersonaSpec => []PersonaTypeOK
  <1>1. PersonaInv => PersonaTypeOK
    BY DEF PersonaInv
  <1>2. QED
    BY InitPersonaInv, NextPersonaInv, <1>1, PTL DEF PersonaSpec

-----------------------------------------------------------------------------
(* AcceptedIsApplied is not inductive: a step that records a change as     *)
(* accepted must know that the change was applied before, and no change is *)
(* pending, or under review, over the store that is new with each start.   *)

Known == bot \cup removed

AppliedFirst == \A t \in Turns : at[t] = "record" => Head(todo[t]).fact \in Known

Patching == \A t \in Turns : at[t] = "patch" => want[t] = {Head(todo[t]).fact}

NoReview == /\ PendingChange = {}
            /\ \A q \in Requests : at[q] \notin {"accept", "resolve"}

Locked == /\ AcceptedIsApplied
          /\ AppliedFirst
          /\ Patching
          /\ NoReview

LockedInv == store = "memory" => Locked

(* What a step must do to keep Locked: forget no fact, record only what is *)
(* known, add no pending change, and leave the turns and requests that are *)
(* between two store calls as they were or in order.                       *)
LEMMA LockedStep ==
  ASSUME Locked,
         Known \subseteq Known',
         \A i \in DOMAIN events' :
            events'[i].status = "accepted" => events'[i].fact \in Known',
         PendingChange' = {},
         \A t \in Turns : at'[t] = "record" =>
            \/ at[t] = "record" /\ todo'[t] = todo[t]
            \/ Head(todo'[t]).fact \in Known',
         \A t \in Turns : at'[t] = "patch" =>
            \/ at[t] = "patch" /\ todo'[t] = todo[t] /\ want'[t] = want[t]
            \/ want'[t] = {Head(todo'[t]).fact},
         \A q \in Requests : at'[q] \in {"accept", "resolve"} => at'[q] = at[q]
  PROVE  Locked'
  <1>1. AcceptedIsApplied'
    BY DEF AcceptedIsApplied, Known
  <1>2. AppliedFirst'
    BY DEF Locked, AppliedFirst
  <1>3. Patching'
    BY DEF Locked, Patching
  <1>4. NoReview'
    BY DEF Locked, NoReview
  <1>5. QED
    BY <1>1, <1>2, <1>3, <1>4 DEF Locked

(* Logging a turn's fact adds no pending change, and nothing accepted but  *)
(* that fact.                                                              *)
LEMMA LoggedStep ==
  ASSUME PersonaTypeOK, Locked, Known \subseteq Known',
         NEW t \in Turns, NEW f \in Facts, NEW status \in {"accepted", "skipped", "failed"},
         LogEvent(t, f, status), status = "accepted" => f \in Known'
  PROVE  /\ \A i \in DOMAIN events' :
              events'[i].status = "accepted" => events'[i].fact \in Known'
         /\ PendingChange' = {}
  <1>1. \A i \in DOMAIN events' :
          \/ events'[i] = [source |-> t, fact |-> f, status |-> status]
          \/ \E j \in DOMAIN events : events'[i] = events[j]
    BY LogPrunes DEF PersonaTypeOK
  <1>2. \A j \in DOMAIN events : /\ events[j].status = "accepted" => events[j].fact \in Known
                                 /\ events[j].source # Pending
    BY DEF Locked, AcceptedIsApplied, Known, NoReview, PendingChange
  <1>3. [source |-> t, fact |-> f, status |-> status].source # Pending
    BY PersonaAssumption
  <1>4. QED
    BY <1>1, <1>2, <1>3 DEF PendingChange

(* With the log as it was, what was accepted is still known.               *)
LEMMA UnloggedStep ==
  ASSUME Locked, Known \subseteq Known', UNCHANGED events
  PROVE  /\ \A i \in DOMAIN events' :
              events'[i].status = "accepted" => events'[i].fact \in Known'
         /\ PendingChange' = {}
  BY DEF Locked, AcceptedIsApplied, Known, NoReview, PendingChange

LEMMA InitLocked == PersonaInit => LockedInv
  <1> SUFFICES ASSUME PersonaInit, store = "memory" PROVE Locked
    BY DEF LockedInv
  <1>1. events = <<>> /\ \A a \in Actors : at[a] = "idle"
    BY DEF PersonaInit
  <1>2. QED
    BY <1>1 DEF Locked, AcceptedIsApplied, AppliedFirst, Patching, NoReview,
                PendingChange, Actors

(* The store is chosen once, when the program starts.                      *)
LEMMA StoreFixed == [PersonaNext]_personaVars => store' = store
  <1>1. \A t \in Turns : ExtractItems(t) \/ SkipItem(t) \/ AcceptItem(t) \/ PatchTurn(t)
                        => store' = store
    BY DEF ExtractItems, SkipItem, AcceptItem, PatchTurn
  <1>2. \A t \in Turns : PatchFails(t) \/ RecordChange(t) \/ AllDecided(t) => store' = store
    BY DEF PatchFails, RecordChange, AllDecided
  <1>3. \A a \in Actors : ReadRow(a) \/ WriteCognition(a) \/ StatementFails(a)
                         => store' = store
    BY DEF ReadRow, WriteCognition, StatementFails
  <1>4. \A q \in Requests : Iterate(q) \/ PatchIterate(q) \/ SubmitForm(q) \/ WriteForm(q)
                           => store' = store
    BY DEF Iterate, PatchIterate, SubmitForm, WriteForm
  <1>5. \A q \in Requests : CheckPending(q) \/ PatchReview(q) \/ Resolve(q) => store' = store
    BY DEF CheckPending, PatchReview, Resolve
  <1>6. QED
    BY <1>1, <1>2, <1>3, <1>4, <1>5 DEF PersonaNext, personaVars

LEMMA NextLocked == PersonaInv /\ LockedInv /\ [PersonaNext]_personaVars => LockedInv'
  <1> SUFFICES ASSUME PersonaInv, Locked, store = "memory", [PersonaNext]_personaVars PROVE Locked'
    <2>1. [PersonaNext]_personaVars => store' = store
      BY StoreFixed
    <2>2. QED
      BY <2>1 DEF LockedInv
  <1>a. PersonaTypeOK /\ Busy
    BY DEF PersonaInv
  <1>b. /\ Turns \subseteq Actors /\ Requests \subseteq Actors
        /\ \A t \in Turns, q \in Requests : t # q
    BY PersonaAssumption DEF Actors
  <1>c. at \in [Actors -> Steps] /\ want \in [Actors -> SUBSET Facts]
        /\ todo \in [Turns -> Seq(Items)]
    BY <1>a DEF PersonaTypeOK
  <1>1. CASE UNCHANGED personaVars
    BY <1>1 DEF personaVars, Locked, AcceptedIsApplied, AppliedFirst, Patching, NoReview,
                PendingChange, Known
  <1>2. ASSUME NEW t \in Turns, ExtractItems(t) PROVE Locked'
    <2>1. Known = Known' /\ UNCHANGED events
      BY <1>2 DEF ExtractItems, Known, history
    <2>2. /\ at'[t] \in {"done", "decide"} /\ UNCHANGED want
          /\ \A a \in Actors \ {t} : at'[a] = at[a]
          /\ \A u \in Turns \ {t} : todo'[u] = todo[u]
      BY <1>b, <1>c, <1>2 DEF ExtractItems, Go
    <2>3. QED
      BY <1>b, <2>1, <2>2, UnloggedStep, LockedStep
  <1>3. ASSUME NEW t \in Turns, SkipItem(t) PROVE Locked'
    <2>1. Known = Known' /\ UNCHANGED <<at, want>> /\ at[t] = "decide"
      BY <1>3 DEF SkipItem, Known, history
    <2>2. Head(todo[t]).fact \in Facts /\ LogEvent(t, Head(todo[t]).fact, "skipped")
      BY <1>a, <1>3, NextItem DEF SkipItem
    <2>3. \A u \in Turns \ {t} : todo'[u] = todo[u]
      BY <1>c, <1>3 DEF SkipItem
    <2>4. QED
      BY <1>a, <1>b, <2>1, <2>2, <2>3, LoggedStep, LockedStep
  <1>4. ASSUME NEW t \in Turns, AcceptItem(t) PROVE Locked'
    <2>1. Known = Known' /\ UNCHANGED <<events, todo>>
      BY <1>4 DEF AcceptItem, Known, history
    <2>2. /\ at'[t] = "patch" /\ want'[t] = {Head(todo'[t]).fact}
          /\ \A a \in Actors \ {t} : at'[a] = at[a] /\ want'[a] = want[a]
      BY <1>b, <1>c, <1>4 DEF AcceptItem, Go
    <2>3. QED
      BY <1>b, <2>1, <2>2, UnloggedStep, LockedStep
  <1>5. ASSUME NEW t \in Turns, PatchTurn(t) PROVE Locked'
    <2>1. want[t] = {Head(todo[t]).fact} /\ UNCHANGED <<events, todo, want>>
      BY <1>5 DEF PatchTurn, Locked, Patching
    <2>2. bot' = bot \cup want[t] /\ removed' = removed \ want[t]
      BY <1>5 DEF PatchTurn, WriteBot, Patched, Base
    <2>3. Known \subseteq Known' /\ Head(todo'[t]).fact \in Known'
      BY <2>1, <2>2 DEF Known
    <2>4. at'[t] = "record" /\ \A a \in Actors \ {t} : at'[a] = at[a]
      BY <1>b, <1>c, <1>5 DEF PatchTurn, Go
    <2>5. QED
      BY <1>b, <2>1, <2>3, <2>4, UnloggedStep, LockedStep
  <1>6. ASSUME NEW t \in Turns, PatchFails(t) PROVE Locked'
    BY <1>6 DEF PatchFails
  <1>7. ASSUME NEW t \in Turns, RecordChange(t) PROVE Locked'
    <2>1. Known = Known' /\ UNCHANGED want
      BY <1>7 DEF RecordChange, Known
    <2>2. Head(todo[t]).fact \in Known /\ todo[t] # <<>>
      BY <1>a, <1>7 DEF RecordChange, Locked, AppliedFirst, Busy
    <2>3. Head(todo[t]).fact \in Facts /\ LogEvent(t, Head(todo[t]).fact, "accepted")
      BY <1>a, <1>7, <2>2, NextItem DEF RecordChange
    <2>4. /\ at'[t] = "decide" /\ \A a \in Actors \ {t} : at'[a] = at[a]
          /\ \A u \in Turns \ {t} : todo'[u] = todo[u]
      BY <1>b, <1>c, <1>7 DEF RecordChange, Go
    <2>5. QED
      BY <1>a, <1>b, <2>1, <2>2, <2>3, <2>4, LoggedStep, LockedStep
  <1>8. ASSUME NEW t \in Turns, AllDecided(t) PROVE Locked'
    <2>1. Known = Known' /\ UNCHANGED <<events, todo>>
      BY <1>8 DEF AllDecided, Known, history
    <2>2. /\ at'[t] \in {"done", "cognition"}
          /\ \A a \in Actors \ {t} : at'[a] = at[a] /\ want'[a] = want[a]
      BY <1>b, <1>c, <1>8 DEF AllDecided, Return, Go
    <2>3. QED
      BY <1>b, <2>1, <2>2, UnloggedStep, LockedStep
  <1>9. ASSUME NEW a \in Actors, ReadRow(a) PROVE Locked'
    BY <1>9 DEF ReadRow
  <1>10. ASSUME NEW a \in Actors, WriteCognition(a) PROVE Locked'
    <2>1. Known = Known' /\ UNCHANGED <<events, todo>>
      BY <1>10 DEF WriteCognition, WriteBot, Base, Known, history
    <2>2. /\ at'[a] = "done"
          /\ \A b \in Actors \ {a} : at'[b] = at[b] /\ want'[b] = want[b]
      BY <1>c, <1>10 DEF WriteCognition, Return, Go
    <2>3. QED
      BY <1>b, <2>1, <2>2, UnloggedStep, LockedStep
  <1>11. ASSUME NEW a \in Actors, StatementFails(a) PROVE Locked'
    BY <1>11 DEF StatementFails
  <1>12. ASSUME NEW q \in Requests, Iterate(q) PROVE Locked'
    <2>1. Known = Known' /\ UNCHANGED <<events, todo>>
      BY <1>12 DEF Iterate, Known, history
    <2>2. /\ at'[q] \in {"iterate", "done"}
          /\ \A a \in Actors \ {q} : at'[a] = at[a] /\ want'[a] = want[a]
      BY <1>b, <1>c, <1>12 DEF Iterate, Go
    <2>3. QED
      BY <1>b, <2>1, <2>2, UnloggedStep, LockedStep
  <1>13. ASSUME NEW q \in Requests, PatchIterate(q) PROVE Locked'
    <2>1. bot' = bot \cup want[q] /\ removed' = removed \ want[q] /\ UNCHANGED <<events, todo>>
      BY <1>13 DEF PatchIterate, WriteBot, Patched, Base
    <2>2. Known \subseteq Known'
      BY <2>1 DEF Known
    <2>3. /\ at'[q] = "done"
          /\ \A a \in Actors \ {q} : at'[a] = at[a] /\ want'[a] = want[a]
      BY <1>b, <1>c, <1>13 DEF PatchIterate, Return, Go
    <2>4. QED
      BY <1>b, <2>1, <2>2, <2>3, UnloggedStep, LockedStep
  <1>14. ASSUME NEW q \in Requests, SubmitForm(q) PROVE Locked'
    <2>1. Known = Known' /\ UNCHANGED <<events, todo>>
      BY <1>14 DEF SubmitForm, Known, history
    <2>2. /\ at'[q] \in {"edit", "cognition"}
          /\ \A a \in Actors \ {q} : at'[a] = at[a] /\ want'[a] = want[a]
      BY <1>b, <1>c, <1>14 DEF SubmitForm, Go
    <2>3. QED
      BY <1>b, <2>1, <2>2, UnloggedStep, LockedStep
  <1>15. ASSUME NEW q \in Requests, WriteForm(q) PROVE Locked'
    <2>1. bot' = want[q] /\ removed' = (removed \cup bot) \ want[q] /\ UNCHANGED <<events, todo>>
      BY <1>15 DEF WriteForm, WriteBot
    <2>2. Known \subseteq Known'
      BY <2>1 DEF Known
    <2>3. /\ at'[q] = "done"
          /\ \A a \in Actors \ {q} : at'[a] = at[a] /\ want'[a] = want[a]
      BY <1>b, <1>c, <1>15 DEF WriteForm, Return, Go
    <2>4. QED
      BY <1>b, <2>1, <2>2, <2>3, UnloggedStep, LockedStep
  <1>16. ASSUME NEW q \in Requests, CheckPending(q) PROVE Locked'
    <2>1. Known = Known' /\ UNCHANGED <<events, todo>>
      BY <1>16 DEF CheckPending, Known, history
    <2>2. Go(q, "done") /\ UNCHANGED want
      BY <1>16 DEF CheckPending, Locked, NoReview
    <2>3. /\ at'[q] = "done"
          /\ \A a \in Actors \ {q} : at'[a] = at[a] /\ want'[a] = want[a]
      BY <1>b, <1>c, <2>2 DEF Go
    <2>4. QED
      BY <1>b, <2>1, <2>3, UnloggedStep, LockedStep
  <1>17. ASSUME NEW q \in Requests, PatchReview(q) \/ Resolve(q) PROVE Locked'
    BY <1>17 DEF PatchReview, Resolve, Locked, NoReview
  <1>18. QED
    BY <1>1, <1>2, <1>3, <1>4, <1>5, <1>6, <1>7, <1>8, <1>9, <1>10, <1>11, <1>12,
       <1>13, <1>14, <1>15, <1>16, <1>17 DEF PersonaNext

(* With the in-memory store, what the audit log calls accepted is in the   *)
(* persona unless a user's form replaced it, whatever the turns' subtasks, *)
(* iterations and edits that run at the same time do.                      *)
THEOREM AcceptedChangesHold == PersonaSpec => []AcceptedIsAppliedInMemory
  <1>1. LockedInv => AcceptedIsAppliedInMemory
    BY DEF LockedInv, Locked, AcceptedIsAppliedInMemory
  <1>2. QED
    BY InitPersonaInv, NextPersonaInv, InitLocked, NextLocked, <1>1, PTL DEF PersonaSpec

-----------------------------------------------------------------------------
(* AppliedIsAudited holds over either store.  What accounts for a fact     *)
(* goes on doing so, since users' additions and lost events are never      *)
(* forgotten, the log only grows until it is full, and a turn leaves       *)
(* "record" by logging its fact or losing the event.  It is not inductive: *)
(* a row that was read earlier may bring back what the bot has lost since, *)
(* and a second reviewer may overwrite the verdict of the first.           *)

Accounted(f) ==
  \/ f \in added \cup unrecorded
  \/ \E i \in DOMAIN events : events[i].fact = f /\ events[i].status = "accepted"
  \/ \E t \in Turns : at[t] = "record" /\ f \in want[t]
  \/ Len(events) >= Keep

(* So is every fact of a row from which a write will start.                *)
RowsAccounted == \A a \in Actors : row[a] # <<>> => \A f \in row[a][1] : Accounted(f)

AtItem == \A t \in Turns : at[t] \in {"patch", "record"} => want[t] = {Head(todo[t]).fact}

(* A review adds what it accepts before it writes its verdict, and the     *)
(* change that the log has as pending, or had, is one.                     *)
Reviewing ==
  /\ \A i, j \in PendingChange : events[i].fact = events[j].fact
  /\ \A i \in PendingChange : events[i].status = "accepted" => events[i].fact \in added
  /\ \A q \in Requests : at[q] = "resolve" => want[q] \subseteq added
  /\ \A q \in Requests : at[q] \in {"accept", "resolve"} /\ want[q] # {} =>
       \A i \in PendingChange : want[q] = {events[i].fact}

AuditInv == AppliedIsAudited /\ RowsAccounted /\ AtItem /\ Reviewing

(* What a step must do so that what was accounted for still is.            *)
LEMMA StaysAccounted ==
  ASSUME added \subseteq added', unrecorded \subseteq unrecorded',
         Len(events) >= Keep => Len(events') >= Keep,
         \A i \in DOMAIN events : events[i].status = "accepted" =>
            \/ Len(events') >= Keep
            \/ events[i].fact \in added'
            \/ \E j \in DOMAIN events' : /\ events'[j].fact = events[i].fact
                                         /\ events'[j].status = "accepted",
         \A t \in Turns : at[t] = "record" =>
            \/ at'[t] = "record" /\ want'[t] = want[t]
            \/ \A f \in want[t] : Accounted(f)'
  PROVE  \A f : Accounted(f) => Accounted(f)'
  <1> SUFFICES ASSUME NEW f, Accounted(f) PROVE Accounted(f)'
    OBVIOUS
  <1>1. CASE f \in added \cup unrecorded
    BY <1>1 DEF Accounted
  <1>2. CASE \E i \in DOMAIN events : events[i].fact = f /\ events[i].status = "accepted"
    BY <1>2 DEF Accounted
  <1>3. CASE \E t \in Turns : at[t] = "record" /\ f \in want[t]
    <2>1. PICK t \in Turns : at[t] = "record" /\ f \in want[t]
      BY <1>3
    <2>2. CASE at'[t] = "record" /\ want'[t] = want[t]
      BY <2>1, <2>2 DEF Accounted
    <2>3. CASE \A g \in want[t] : Accounted(g)'
      BY <2>1, <2>3
    <2>4. QED
      BY <2>1, <2>2, <2>3
  <1>4. CASE Len(events) >= Keep
    BY <1>4 DEF Accounted
  <1>5. QED
    BY <1>1, <1>2, <1>3, <1>4 DEF Accounted

(* With the log as it was, it is enough that no turn leaves "record".      *)
LEMMA StaysUnlogged ==
  ASSUME UNCHANGED events, added \subseteq added', UNCHANGED unrecorded,
         \A t \in Turns : at[t] = "record" => at'[t] = "record" /\ want'[t] = want[t]
  PROVE  \A f : Accounted(f) => Accounted(f)'
  BY StaysAccounted

(* Until it is full, the log keeps what it has and takes what is appended. *)
LEMMA LogKeeps ==
  ASSUME events \in Seq(Events), NEW t \in Turns, NEW f \in Facts,
         NEW status \in {"accepted", "skipped", "failed"}, LogEvent(t, f, status)
  PROVE  /\ Len(events) >= Keep => Len(events') >= Keep
         /\ \/ Len(events') >= Keep
            \/ /\ \A i \in DOMAIN events : i \in DOMAIN events' /\ events'[i] = events[i]
               /\ \E i \in DOMAIN events' :
                    events'[i] = [source |-> t, fact |-> f, status |-> status]
         /\ \A i \in PendingChange' : \E j \in PendingChange : events'[i] = events[j]
  <1> DEFINE event == [source |-> t, fact |-> f, status |-> status]
             longer == Append(events, event)
             n == Len(longer)
  <1> USE PersonaAssumption
  <1>1. event \in Events /\ event.source # Pending
    BY DEF Events
  <1>2. events' = Prune(longer) \/ events' = longer
    BY DEF LogEvent
  <1>3. \A i \in DOMAIN events' : events'[i] = event \/ \E j \in DOMAIN events : events'[i] = events[j]
    BY LogPrunes
  <1> HIDE DEF event
  <1>4. /\ longer \in Seq(Events) /\ n = Len(events) + 1 /\ n \in Nat
        /\ \A i \in DOMAIN events : i \in DOMAIN longer /\ longer[i] = events[i]
        /\ n \in DOMAIN longer /\ longer[n] = event
    BY <1>1
  <1> HIDE DEF longer
  <1>5. CASE events' = longer
    <2>1. Len(events) >= Keep => n >= Keep
      BY <1>4
    <2>2. QED
      BY <1>1, <1>3, <1>4, <1>5, <2>1 DEF event, PendingChange
  <1>6. CASE events' = Prune(longer) /\ n > Keep
    <2>1. events' = SubSeq(longer, n - Keep + 1, n)
      BY <1>6, <1>4 DEF Prune
    <2>2. /\ n - Keep + 1 \in Int /\ n - Keep + 1 <= n
          /\ \A i \in n - Keep + 1 .. n : longer[i] \in Events
      BY <1>4, <1>6
    <2>3. Len(events') = n - (n - Keep + 1) + 1
      BY <1>4, <2>1, <2>2, SubSeqProperties
    <2>4. Len(events') = Keep
      BY <1>4, <2>3
    <2>5. QED
      BY <1>1, <1>3, <2>4 DEF PendingChange
  <1>7. CASE events' = Prune(longer) /\ ~(n > Keep)
    <2>1. events' = longer
      BY <1>7, <1>4 DEF Prune
    <2>2. QED
      BY <1>5, <2>1
  <1>8. QED
    BY <1>2, <1>5, <1>6, <1>7

(* What a step must do to keep AuditInv.                                   *)
LEMMA AuditStep ==
  ASSUME AuditInv,
         \A f : Accounted(f) => Accounted(f)',
         \A f \in bot' : Accounted(f)',
         \A a \in Actors : row'[a] = <<>> \/ row'[a] = row[a] \/ row'[a] = <<bot>>,
         \A t \in Turns : at'[t] \in {"patch", "record"} =>
            \/ /\ at[t] \in {"patch", "record"}
               /\ want'[t] = want[t] /\ todo'[t] = todo[t]
            \/ want'[t] = {Head(todo'[t]).fact},
         added \subseteq added',
         \A i \in PendingChange' : \E j \in PendingChange :
            /\ events'[i].fact = events[j].fact
            /\ events'[i].status = "accepted" =>
                 events[j].status = "accepted" \/ events'[i].fact \in added',
         \A q \in Requests : at'[q] = "resolve" =>
            \/ at[q] = "resolve" /\ want'[q] = want[q]
            \/ want'[q] \subseteq added',
         \A q \in Requests : at'[q] \in {"accept", "resolve"} =>
            \/ at[q] \in {"accept", "resolve"} /\ want'[q] = want[q]
            \/ want'[q] = {}
            \/ \E i \in PendingChange : want'[q] = {events[i].fact}
  PROVE  AuditInv'
  <1>1. AppliedIsAudited'
    BY DEF AppliedIsAudited, Accounted
  <1>2. RowsAccounted'
    <2>1. \A f \in bot : Accounted(f)
      BY DEF AuditInv, AppliedIsAudited, Accounted
    <2>2. \A a \in Actors : row[a] # <<>> => \A f \in row[a][1] : Accounted(f)
      BY DEF AuditInv, RowsAccounted
    <2>3. <<bot>>[1] = bot
      OBVIOUS
    <2>4. \A a \in Actors : row'[a] # <<>> => \A f \in row'[a][1] : Accounted(f)
      BY <2>1, <2>2, <2>3
    <2>5. \A a \in Actors : row'[a] # <<>> => \A f \in row'[a][1] : Accounted(f)'
      BY <2>4
    <2>6. QED
      BY <2>5 DEF RowsAccounted
  <1>3. AtItem'
    BY DEF AuditInv, AtItem
  <1>4. Reviewing'
    BY DEF AuditInv, Reviewing
  <1>5. QED
    BY <1>1, <1>2, <1>3, <1>4 DEF AuditInv

(* What a write starts from is accounted for.                              *)
LEMMA BaseAccounted ==
  ASSUME AuditInv, NEW a \in Actors, store = "memory" \/ row[a] # <<>>
  PROVE  \A f \in Base(a) : Accounted(f)
  BY DEF AuditInv, AppliedIsAudited, RowsAccounted, Accounted, Base

LEMMA InitAudit == PersonaInit => AuditInv
  <1> SUFFICES ASSUME PersonaInit PROVE AuditInv
    OBVIOUS
  <1> USE PersonaAssumption
  <1>1. AppliedIsAudited /\ RowsAccounted
    BY DEF PersonaInit, AppliedIsAudited, RowsAccounted
  <1>2. /\ \A a \in Actors : at[a] = "idle"
        /\ Turns \subseteq Actors /\ Requests \subseteq Actors
    BY DEF PersonaInit, Actors
  <1>3. AtItem
    BY <1>2 DEF AtItem
  <1>4. /\ \A i, j \in PendingChange : events[i].fact = events[j].fact
        /\ \A i \in PendingChange : events[i].status # "accepted"
    <2>1. CASE events = <<>>
      BY <2>1 DEF PendingChange
    <2>2. ASSUME NEW f \in Facts,
                 events = <<[source |-> Pending, fact |-> f, status |-> "pending"]>>
          PROVE  \A i \in DOMAIN events : events[i].fact = f /\ events[i].status = "pending"
      BY <2>2
    <2>3. QED
      BY <2>1, <2>2 DEF PersonaInit, PendingChange
  <1>5. Reviewing
    BY <1>2, <1>4 DEF Reviewing
  <1>6. QED
    BY <1>1, <1>3, <1>5 DEF AuditInv

LEMMA NextAudit == PersonaInv /\ AuditInv /\ [PersonaNext]_personaVars => AuditInv'
  <1> SUFFICES ASSUME PersonaInv, AuditInv, [PersonaNext]_personaVars PROVE AuditInv'
    OBVIOUS
  <1>a. PersonaTypeOK /\ Busy
    BY DEF PersonaInv
  <1>b. /\ Turns \subseteq Actors /\ Requests \subseteq Actors
        /\ \A t \in Turns, q \in Requests : t # q
    BY PersonaAssumption DEF Actors
  <1>c. /\ at \in [Actors -> Steps] /\ want \in [Actors -> SUBSET Facts]
        /\ todo \in [Turns -> Seq(Items)] /\ events \in Seq(Events)
        /\ row \in [Actors -> {<<>>} \cup {<<b>> : b \in SUBSET Facts}]
    BY <1>a DEF PersonaTypeOK
  <1>d. \A f \in bot : Accounted(f)
    BY DEF AuditInv, AppliedIsAudited, Accounted
  <1>e. UNCHANGED events => \A i \in PendingChange' : \E j \in PendingChange :
          events'[i].fact = events[j].fact /\ events'[i].status = events[j].status
    BY DEF PendingChange
  <1>1. CASE UNCHANGED personaVars
    <2>1. UNCHANGED <<events, added, unrecorded, at, want, todo, bot, row>>
      BY <1>1 DEF personaVars, history
    <2>2. \A f : Accounted(f) => Accounted(f)'
      BY <2>1, StaysUnlogged
    <2>3. QED
      BY <1>d, <1>e, <2>1, <2>2, AuditStep
  <1>2. ASSUME NEW t \in Turns, ExtractItems(t) PROVE AuditInv'
    <2>1. UNCHANGED <<events, added, unrecorded, want, bot, row>> /\ at[t] = "idle"
      BY <1>2 DEF ExtractItems, history
    <2>2. /\ at'[t] \in {"done", "decide"}
          /\ \A a \in Actors \ {t} : at'[a] = at[a]
          /\ \A u \in Turns \ {t} : todo'[u] = todo[u]
      BY <1>b, <1>c, <1>2 DEF ExtractItems, Go
    <2>3. \A f : Accounted(f) => Accounted(f)'
      BY <1>b, <2>1, <2>2, StaysUnlogged
    <2>4. QED
      BY <1>b, <1>d, <1>e, <2>1, <2>2, <2>3, AuditStep
  <1>3. ASSUME NEW t \in Turns, SkipItem(t) PROVE AuditInv'
    <2>1. UNCHANGED <<added, unrecorded, at, want, bot, row>> /\ at[t] = "decide"
      BY <1>3 DEF SkipItem, history
    <2>2. /\ Head(todo[t]).fact \in Facts
          /\ \A u \in Turns \ {t} : todo'[u] = todo[u]
      BY <1>a, <1>c, <1>3, NextItem DEF SkipItem
    <2>3. /\ \A f : Accounted(f) => Accounted(f)'
          /\ \A i \in PendingChange' : \E j \in PendingChange :
               events'[i].fact = events[j].fact /\ events'[i].status = events[j].status
      <3>1. CASE LogEvent(t, Head(todo[t]).fact, "skipped")
        BY <1>c, <2>1, <2>2, <3>1, LogKeeps, StaysAccounted
      <3>2. CASE UNCHANGED events
        BY <1>e, <2>1, <3>2, StaysUnlogged
      <3>3. QED
        BY <1>3, <3>1, <3>2 DEF SkipItem
    <2>4. QED
      BY <1>d, <2>1, <2>2, <2>3, AuditStep
  <1>4. ASSUME NEW t \in Turns, AcceptItem(t) PROVE AuditInv'
    <2>1. UNCHANGED <<events, added, unrecorded, todo, bot, row>> /\ at[t] = "decide"
      BY <1>4 DEF AcceptItem, history
    <2>2. /\ at'[t] = "patch" /\ want'[t] = {Head(todo'[t]).fact}
          /\ \A a \in Actors \ {t} : at'[a] = at[a] /\ want'[a] = want[a]
      BY <1>b, <1>c, <1>4 DEF AcceptItem, Go
    <2>3. \A f : Accounted(f) => Accounted(f)'
      BY <1>b, <2>1, <2>2, StaysUnlogged
    <2>4. QED
      BY <1>b, <1>d, <1>e, <2>1, <2>2, <2>3, AuditStep
  <1>5. ASSUME NEW t \in Turns, PatchTurn(t) PROVE AuditInv'
    <2>1. UNCHANGED <<events, added, unrecorded, todo, want>> /\ at[t] = "patch"
      BY <1>5 DEF PatchTurn
    <2>2. at'[t] = "record" /\ \A a \in Actors \ {t} : at'[a] = at[a]
      BY <1>b, <1>c, <1>5 DEF PatchTurn, Go
    <2>3. \A f : Accounted(f) => Accounted(f)'
      BY <1>b, <2>1, <2>2, StaysUnlogged
    <2>4. bot' = Base(t) \cup want[t] /\ \A a \in Actors : row'[a] = <<>> \/ row'[a] = row[a]
      BY <1>b, <1>c, <1>5 DEF PatchTurn, WriteBot, Patched
    <2>5. \A f \in want[t] : Accounted(f)'
      BY <2>1, <2>2 DEF Accounted
    <2>6. \A f \in Base(t) : Accounted(f)
      BY <1>b, <1>5, BaseAccounted DEF PatchTurn, WriteBot
    <2>7. \A f \in bot' : Accounted(f)'
      BY <2>3, <2>4, <2>5, <2>6
    <2>8. QED
      BY <1>b, <1>e, <2>1, <2>2, <2>3, <2>4, <2>7, AuditStep
  <1>6. ASSUME NEW t \in Turns, PatchFails(t) PROVE AuditInv'
    <2>1. UNCHANGED <<added, unrecorded, want, bot>> /\ at[t] = "patch"
      BY <1>6 DEF PatchFails, history
    <2>2. /\ Head(todo[t]).fact \in Facts
          /\ \A u \in Turns \ {t} : todo'[u] = todo[u]
      BY <1>a, <1>c, <1>6, NextItem DEF PatchFails, Busy
    <2>3. /\ at'[t] = "decide" /\ \A a \in Actors \ {t} : at'[a] = at[a]
          /\ \A a \in Actors : row'[a] = <<>> \/ row'[a] = row[a]
      BY <1>b, <1>c, <1>6 DEF PatchFails, Go
    <2>4. /\ \A f : Accounted(f) => Accounted(f)'
          /\ \A i \in PendingChange' : \E j \in PendingChange :
               events'[i].fact = events[j].fact /\ events'[i].status = events[j].status
      <3>1. \A u \in Turns : at[u] = "record" => at'[u] = "record" /\ want'[u] = want[u]
        BY <1>b, <2>1, <2>3
      <3>2. CASE LogEvent(t, Head(todo[t]).fact, "failed")
        BY <1>c, <2>1, <2>2, <3>1, <3>2, LogKeeps, StaysAccounted
      <3>3. CASE UNCHANGED events
        BY <1>e, <2>1, <3>1, <3>3, StaysUnlogged
      <3>4. QED
        BY <1>6, <3>2, <3>3 DEF PatchFails
    <2>5. QED
      BY <1>b, <1>d, <2>1, <2>2, <2>3, <2>4, AuditStep
  <1>7. ASSUME NEW t \in Turns, RecordChange(t) PROVE AuditInv'
    <2> DEFINE g == Head(todo[t]).fact
    <2>1. UNCHANGED <<added, want, bot, row>> /\ at[t] = "record" /\ want[t] = {g}
      BY <1>7 DEF RecordChange, AuditInv, AtItem
    <2>2. /\ g \in Facts
          /\ \A u \in Turns \ {t} : todo'[u] = todo[u]
      BY <1>a, <1>c, <1>7, NextItem DEF RecordChange, Busy
    <2>3. at'[t] = "decide" /\ \A a \in Actors \ {t} : at'[a] = at[a]
      BY <1>b, <1>c, <1>7 DEF RecordChange, Go
    <2>4. /\ \A f : Accounted(f) => Accounted(f)'
          /\ \A i \in PendingChange' : \E j \in PendingChange :
               events'[i].fact = events[j].fact /\ events'[i].status = events[j].status
      <3>1. \A u \in Turns \ {t} : at[u] = "record" => at'[u] = "record" /\ want'[u] = want[u]
        BY <1>b, <2>1, <2>3
      <3>2. CASE LogEvent(t, g, "accepted") /\ UNCHANGED unrecorded
        <4> DEFINE event == [source |-> t, fact |-> g, status |-> "accepted"]
        <4>1. event.fact = g /\ event.status = "accepted"
          OBVIOUS
        <4>2. /\ Len(events) >= Keep => Len(events') >= Keep
              /\ \/ Len(events') >= Keep
                 \/ /\ \A i \in DOMAIN events : i \in DOMAIN events' /\ events'[i] = events[i]
                    /\ \E i \in DOMAIN events' : events'[i] = event
              /\ \A i \in PendingChange' : \E j \in PendingChange : events'[i] = events[j]
          BY <1>c, <2>2, <3>2, LogKeeps
        <4>3. \A f \in want[t] : Accounted(f)'
          BY <2>1, <4>1, <4>2 DEF Accounted
        <4>4. QED
          BY <2>1, <3>1, <3>2, <4>2, <4>3, StaysAccounted
      <3>3. CASE UNCHANGED events /\ unrecorded' = unrecorded \cup {g}
        <4>1. \A f \in want[t] : Accounted(f)'
          BY <2>1, <3>3 DEF Accounted
        <4>2. QED
          BY <1>e, <2>1, <3>1, <3>3, <4>1, StaysAccounted
      <3>4. QED
        BY <1>7, <3>2, <3>3 DEF RecordChange
    <2>5. QED
      BY <1>b, <1>d, <2>1, <2>2, <2>3, <2>4, AuditStep
  <1>8. ASSUME NEW t \in Turns, AllDecided(t) PROVE AuditInv'
    <2>1. UNCHANGED <<events, added, unrecorded, todo, bot, row>> /\ at[t] = "decide"
      BY <1>8 DEF AllDecided, history
    <2>2. /\ at'[t] \in {"done", "cognition"}
          /\ \A a \in Actors \ {t} : at'[a] = at[a] /\ want'[a] = want[a]
      BY <1>b, <1>c, <1>8 DEF AllDecided, Return, Go
    <2>3. \A f : Accounted(f) => Accounted(f)'
      BY <1>b, <2>1, <2>2, StaysUnlogged
    <2>4. QED
      BY <1>b, <1>d, <1>e, <2>1, <2>2, <2>3, AuditStep
  <1>9. ASSUME NEW a \in Actors, ReadRow(a) PROVE AuditInv'
    <2>1. UNCHANGED <<events, added, unrecorded, todo, bot, at, want>>
      BY <1>9 DEF ReadRow, history
    <2>2. \A b \in Actors : row'[b] = row[b] \/ row'[b] = <<bot>>
      BY <1>c, <1>9 DEF ReadRow
    <2>3. \A f : Accounted(f) => Accounted(f)'
      BY <2>1, StaysUnlogged
    <2>4. QED
      BY <1>d, <1>e, <2>1, <2>2, <2>3, AuditStep
  <1>10. ASSUME NEW a \in Actors, WriteCognition(a) PROVE AuditInv'
    <2>1. UNCHANGED <<events, added, unrecorded, todo>> /\ at[a] = "cognition"
      BY <1>10 DEF WriteCognition, history
    <2>2. /\ bot' = Base(a) /\ \A b \in Actors : row'[b] = <<>> \/ row'[b] = row[b]
          /\ at'[a] = "done"
          /\ \A b \in Actors \ {a} : at'[b] = at[b] /\ want'[b] = want[b]
      BY <1>c, <1>10 DEF WriteCognition, WriteBot, Return, Go
    <2>3. \A f : Accounted(f) => Accounted(f)'
      BY <1>b, <2>1, <2>2, StaysUnlogged
    <2>4. \A f \in bot' : Accounted(f)'
      BY <1>10, <2>2, <2>3, BaseAccounted DEF WriteCognition, WriteBot
    <2>5. QED
      BY <1>b, <1>e, <2>1, <2>2, <2>3, <2>4, AuditStep
  <1>11. ASSUME NEW a \in Actors, StatementFails(a) PROVE AuditInv'
    <2>1. UNCHANGED <<events, added, unrecorded, todo, bot>> /\ at[a] # "record"
      BY <1>11 DEF StatementFails, history
    <2>2. /\ \A b \in Actors : row'[b] = <<>> \/ row'[b] = row[b]
          /\ at'[a] = "done"
          /\ \A b \in Actors \ {a} : at'[b] = at[b] /\ want'[b] = want[b]
      BY <1>c, <1>11 DEF StatementFails, Return, Go
    <2>3. \A f : Accounted(f) => Accounted(f)'
      BY <1>b, <2>1, <2>2, StaysUnlogged
    <2>4. QED
      BY <1>b, <1>d, <1>e, <2>1, <2>2, <2>3, AuditStep
  <1>12. ASSUME NEW q \in Requests, Iterate(q) \/ SubmitForm(q) PROVE AuditInv'
    <2>1. UNCHANGED <<events, added, unrecorded, todo, bot, row>>
      BY <1>12 DEF Iterate, SubmitForm, history
    <2>2. /\ at'[q] \in {"iterate", "done", "edit", "cognition"}
          /\ \A a \in Actors \ {q} : at'[a] = at[a] /\ want'[a] = want[a]
      BY <1>b, <1>c, <1>12 DEF Iterate, SubmitForm, Go
    <2>3. \A f : Accounted(f) => Accounted(f)'
      BY <1>b, <2>1, <2>2, StaysUnlogged
    <2>4. QED
      BY <1>b, <1>d, <1>e, <2>1, <2>2, <2>3, AuditStep
  <1>13. ASSUME NEW q \in Requests, PatchIterate(q) \/ PatchReview(q) PROVE AuditInv'
    <2>1. /\ UNCHANGED <<events, unrecorded, todo>> /\ added' = added \cup want[q]
          /\ bot' = Base(q) \cup want[q]
          /\ \A a \in Actors : row'[a] = <<>> \/ row'[a] = row[a]
          /\ store = "memory" \/ row[q] # <<>>
      BY <1>c, <1>13 DEF PatchIterate, PatchReview, WriteBot, Patched
    <2>2. /\ \A a \in Actors \ {q} : at'[a] = at[a] /\ want'[a] = want[a]
          /\ \/ at'[q] = "done"
             \/ at[q] = "accept" /\ at'[q] = "resolve" /\ want'[q] = want[q]
      BY <1>b, <1>c, <1>13 DEF PatchIterate, PatchReview, Return, Go
    <2>3. \A f : Accounted(f) => Accounted(f)'
      BY <1>b, <2>1, <2>2, StaysUnlogged
    <2>4. \A f \in Base(q) : Accounted(f)
      BY <1>b, <2>1, BaseAccounted
    <2>5. \A f \in want[q] : Accounted(f)'
      BY <2>1 DEF Accounted
    <2>6. \A f \in bot' : Accounted(f)'
      BY <2>1, <2>3, <2>4, <2>5
    <2>7. QED
      BY <1>b, <1>e, <2>1, <2>2, <2>3, <2>6, AuditStep
  <1>14. ASSUME NEW q \in Requests, WriteForm(q) PROVE AuditInv'
    <2>1. /\ UNCHANGED <<events, unrecorded, todo>> /\ added' = added \cup want[q]
          /\ bot' = want[q]
          /\ \A a \in Actors : row'[a] = <<>> \/ row'[a] = row[a]
      BY <1>c, <1>14 DEF WriteForm, WriteBot
    <2>2. /\ at'[q] = "done"
          /\ \A a \in Actors \ {q} : at'[a] = at[a] /\ want'[a] = want[a]
      BY <1>b, <1>c, <1>14 DEF WriteForm, Return, Go
    <2>3. \A f : Accounted(f) => Accounted(f)'
      BY <1>b, <2>1, <2>2, StaysUnlogged
    <2>4. \A f \in bot' : Accounted(f)'
      BY <2>1 DEF Accounted
    <2>5. QED
      BY <1>b, <1>e, <2>1, <2>2, <2>3, <2>4, AuditStep
  <1>15. ASSUME NEW q \in Requests, CheckPending(q) PROVE AuditInv'
    <2>1. UNCHANGED <<events, added, unrecorded, todo, bot, row>>
      BY <1>15 DEF CheckPending, history
    <2>2. \A a \in Actors \ {q} : at'[a] = at[a] /\ want'[a] = want[a]
      BY <1>b, <1>c, <1>15 DEF CheckPending, Go
    <2>3. \/ at'[q] = "accept" /\ \E i \in PendingChange : want'[q] = {events[i].fact}
          \/ at'[q] = "resolve" /\ want'[q] = {}
          \/ at'[q] = "done"
      BY <1>b, <1>c, <1>15 DEF CheckPending, Go
    <2>4. \A f : Accounted(f) => Accounted(f)'
      BY <1>b, <2>1, <2>2, StaysUnlogged
    <2>5. QED
      BY <1>b, <1>d, <1>e, <2>1, <2>2, <2>3, <2>4, AuditStep
  <1>16. ASSUME NEW q \in Requests, Resolve(q) PROVE AuditInv'
    <2> DEFINE verdict == IF want[q] = {} THEN "rejected" ELSE "accepted"
    <2>1. UNCHANGED <<added, unrecorded, todo, bot, row>> /\ at[q] = "resolve"
      BY <1>16 DEF Resolve, history
    <2>2. /\ at'[q] \in {"done", "cognition"}
          /\ \A a \in Actors \ {q} : at'[a] = at[a] /\ want'[a] = want[a]
      BY <1>b, <1>c, <1>16 DEF Resolve, Return, Go
    <2>3. /\ DOMAIN events' = DOMAIN events
          /\ \A i \in DOMAIN events \ PendingChange : events'[i] = events[i]
          /\ \A i \in PendingChange : events'[i] = [events[i] EXCEPT !.status = verdict]
      BY <1>16 DEF Resolve, PendingChange
    <2>4. \A i \in DOMAIN events : events[i] \in Events
      BY <1>c
    <2>5. \A i \in PendingChange : /\ events'[i].fact = events[i].fact
                                   /\ events'[i].status = verdict
      BY <2>3, <2>4 DEF PendingChange, Events
    <2>6. Len(events') = Len(events)
      BY <1>c, <1>a, <2>3, ResolveType
    <2>7. \A i \in PendingChange : /\ events[i].status = "accepted" => events[i].fact \in added
                                   /\ verdict = "accepted" => events[i].fact \in added
      BY <2>1 DEF AuditInv, Reviewing
    <2>8. PendingChange' \subseteq PendingChange
      BY <2>3 DEF PendingChange
    <2>9. \A i \in DOMAIN events : events[i].status = "accepted" =>
            \/ events[i].fact \in added'
            \/ \E j \in DOMAIN events' : /\ events'[j].fact = events[i].fact
                                         /\ events'[j].status = "accepted"
      BY <2>1, <2>3, <2>7
    <2>10. \A t \in Turns : at[t] = "record" => at'[t] = "record" /\ want'[t] = want[t]
      BY <1>b, <2>2
    <2>11. \A f : Accounted(f) => Accounted(f)'
      BY <2>1, <2>6, <2>9, <2>10, StaysAccounted
    <2>12. \A i \in PendingChange' : \E j \in PendingChange :
             /\ events'[i].fact = events[j].fact
             /\ events'[i].status = "accepted" => events'[i].fact \in added'
      BY <2>1, <2>5, <2>7, <2>8
    <2>13. QED
      BY <1>b, <1>d, <2>1, <2>2, <2>11, <2>12, AuditStep
  <1>17. QED
    BY <1>1, <1>2, <1>3, <1>4, <1>5, <1>6, <1>7, <1>8, <1>9, <1>10, <1>11, <1>12,
       <1>13, <1>14, <1>15, <1>16 DEF PersonaNext

(* Over either store, whatever turns, iterations, edits and reviews run at *)
(* the same time, every fact of the persona is a user's, or in the log as  *)
(* accepted, or about to be, or its event was lost to a failed insert, or  *)
(* the log has been full and may have pruned it.                           *)
THEOREM AppliedChangesAreAudited == PersonaSpec => []AppliedIsAudited
  <1>1. AuditInv => AppliedIsAudited
    BY DEF AuditInv
  <1>2. QED
    BY InitPersonaInv, NextPersonaInv, InitAudit, NextAudit, <1>1, PTL DEF PersonaSpec

-----------------------------------------------------------------------------
(* The buffer of the emotion analysis.                                     *)

(* The handlers between Append and Clear are finitely many.                *)
LEMMA TakingFinite == IsFiniteSet(Taking) /\ Cardinality(Taking) \in Nat
  <1>1. Taking \subseteq Handlers
    BY DEF Taking
  <1>2. IsFiniteSet(Taking)
    BY <1>1, EmotionAssumption, FS_Subset
  <1>3. QED
    BY <1>2, FS_CardinalityType

(* A handler that meets the threshold joins those that will clear.         *)
LEMMA TakingGrows ==
  ASSUME NEW h \in Handlers, reading \in [Handlers -> {"idle", "full", "grabbed"}],
         reading[h] = "idle", reading' = [reading EXCEPT ![h] = "full"]
  PROVE  /\ Taking' # {}
         /\ Cardinality(Taking') = Cardinality(Taking) + 1
  <1>1. h \notin Taking /\ Taking' = Taking \cup {h}
    BY DEF Taking
  <1>2. Cardinality(Taking \cup {h}) = Cardinality(Taking) + 1
    BY <1>1, TakingFinite, FS_AddElement
  <1>3. QED
    BY <1>1, <1>2

(* More messages make no sequence of messages ill typed.                   *)
LEMMA MessagesStay ==
  ASSUME NEW a \in Nat, NEW s \in Seq(1 .. a)
  PROVE  s \in Seq(1 .. (a + 1))
  <1>1. \A i \in DOMAIN s : s[i] \in 1 .. (a + 1)
    <2> SUFFICES ASSUME NEW i \in DOMAIN s PROVE s[i] \in 1 .. (a + 1)
      OBVIOUS
    <2>1. s[i] \in 1 .. a
      OBVIOUS
    <2>2. QED
      BY <2>1
  <1>2. QED
    BY <1>1

(* The start of the buffer.                                                *)
LEMMA InitEmotion == EmotionInit => EmotionTypeOK
  <1> SUFFICES ASSUME EmotionInit PROVE EmotionTypeOK
    OBVIOUS
  <1>1. Len(buffer) = 0 /\ Len(started) = 0
    BY DEF EmotionInit
  <1>2. /\ ~(Len(buffer) >= Threshold)
        /\ Len(buffer) <= Threshold - 1 + Cardinality(Taking)
    BY <1>1, EmotionAssumption, TakingFinite
  <1>3. QED
    BY <1>1, <1>2, EmotionAssumption DEF EmotionInit, EmotionTypeOK

(* Append: the message that meets the threshold brings its own taker, so   *)
(* the buffer is never at the threshold with nobody to clear it.           *)
LEMMA AppendEmotion ==
  ASSUME EmotionTypeOK, NEW h \in Handlers, AppendBuffer(h)
  PROVE  EmotionTypeOK'
  <1> USE EmotionAssumption DEF EmotionTypeOK
  <1>1. appended' = appended + 1 /\ appended' \in 0 .. MaxMessages
    BY DEF AppendBuffer
  <1>2. buffer \in Seq(1 .. appended') /\ appended' \in 1 .. appended'
    BY <1>1, MessagesStay
  <1>3. buffer' \in Seq(1 .. appended') /\ Len(buffer') = Len(buffer) + 1
    BY <1>1, <1>2 DEF AppendBuffer
  <1>4. batch' \in [Handlers -> Seq(1 .. appended')]
    BY <1>1, MessagesStay DEF AppendBuffer
  <1>5. started' \in Seq(Seq(1 .. appended')) /\ started' = started
    <2>1. Seq(1 .. appended) \subseteq Seq(1 .. appended')
      BY <1>1, MessagesStay
    <2>2. PICK S : S = Seq(1 .. appended)
      OBVIOUS
    <2>3. PICK T : T = Seq(1 .. appended')
      OBVIOUS
    <2>4. started \in Seq(S) /\ S \subseteq T
      BY <2>1, <2>2, <2>3
    <2>5. started \in Seq(T)
      BY <2>4
    <2>6. QED
      BY <2>3, <2>5 DEF AppendBuffer
  <1>6. running' \subseteq 1 .. Len(started') /\ context' \in 0 .. Len(started')
    BY DEF AppendBuffer
  <1>7. /\ reading' \in [Handlers -> {"idle", "full", "grabbed"}]
        /\ Len(buffer') >= Threshold => Taking' # {}
        /\ Len(buffer') <= Threshold - 1 + Cardinality(Taking')
    <2>1. Len(buffer) \in Nat /\ Cardinality(Taking) \in Nat
      BY TakingFinite
    <2>2. CASE Len(buffer) + 1 < Threshold
      <3>1. reading' = reading
        BY <2>2 DEF AppendBuffer
      <3>2. Taking' = Taking
        BY <3>1 DEF Taking
      <3>3. QED
        BY <1>3, <2>1, <2>2, <3>1, <3>2
    <2>3. CASE ~(Len(buffer) + 1 < Threshold)
      <3>1. reading' = [reading EXCEPT ![h] = "full"] /\ reading[h] = "idle"
        BY <2>3 DEF AppendBuffer
      <3>2. Taking' # {} /\ Cardinality(Taking') = Cardinality(Taking) + 1
        BY <3>1, TakingGrows
      <3>3. QED
        BY <1>3, <2>1, <3>1, <3>2
    <2>4. QED
      BY <2>2, <2>3
  <1>8. QED
    BY <1>1, <1>3, <1>4, <1>5, <1>6, <1>7

(* Get: the taker stays one.                                               *)
LEMMA GetEmotion ==
  ASSUME EmotionTypeOK, NEW h \in Handlers, GetBuffer(h)
  PROVE  EmotionTypeOK'
  <1>1. Taking' = Taking
    BY DEF EmotionTypeOK, GetBuffer, Taking
  <1>2. QED
    BY <1>1 DEF EmotionTypeOK, GetBuffer

(* Clear: the buffer is empty again, whoever else meant to take it.        *)
LEMMA ClearEmotion ==
  ASSUME EmotionTypeOK, NEW h \in Handlers, ClearBuffer(h)
  PROVE  EmotionTypeOK'
  <1> USE EmotionAssumption DEF EmotionTypeOK
  <1>1. Len(buffer') = 0 /\ buffer' \in Seq(1 .. appended') /\ appended' = appended
    BY DEF ClearBuffer
  <1>2. Cardinality(Taking') \in Nat
    <2>1. Taking' \subseteq Handlers
      BY DEF Taking
    <2>2. IsFiniteSet(Taking')
      BY <2>1, FS_Subset
    <2>3. QED
      BY <2>2, FS_CardinalityType
  <1>3. /\ ~(Len(buffer') >= Threshold)
        /\ Len(buffer') <= Threshold - 1 + Cardinality(Taking')
    BY <1>1, <1>2
  <1>4. /\ started' \in Seq(Seq(1 .. appended'))
        /\ Len(started') = Len(started) + 1 /\ Len(started) \in Nat
    <2>1. PICK S : S = Seq(1 .. appended)
      OBVIOUS
    <2>2. started \in Seq(S) /\ batch[h] \in S
      BY <2>1
    <2>3. started' = Append(started, batch[h]) /\ appended' = appended
      BY DEF ClearBuffer
    <2>4. started' \in Seq(S) /\ Len(started') = Len(started) + 1 /\ Len(started) \in Nat
      BY <2>2, <2>3
    <2>5. QED
      BY <2>1, <2>3, <2>4
  <1>5. running' \subseteq 1 .. Len(started') /\ context' \in 0 .. Len(started')
    <2>1. PICK n \in Nat : n = Len(started) /\ Len(started') = n + 1
      BY <1>4
    <2>2. /\ running \subseteq 1 .. n /\ running' = running \cup {n + 1}
          /\ context \in 0 .. n /\ context' = context
      BY <2>1 DEF ClearBuffer
    <2>3. running' \subseteq 1 .. (n + 1) /\ context' \in 0 .. (n + 1)
      <3> HIDE DEF EmotionTypeOK
      <3>1. \A m \in running' : m \in 1 .. n \/ m = n + 1
        BY <2>2
      <3>2. QED
        BY <2>2, <3>1
    <2>4. QED
      BY <2>1, <2>3
  <1>6. /\ appended' \in 0 .. MaxMessages
        /\ batch' \in [Handlers -> Seq(1 .. appended')]
        /\ reading' \in [Handlers -> {"idle", "full", "grabbed"}]
    BY <1>1 DEF ClearBuffer
  <1>7. QED
    BY <1>1, <1>3, <1>4, <1>5, <1>6

(* Every step.                                                             *)
LEMMA NextEmotion == EmotionTypeOK /\ [EmotionNext]_emotionVars => EmotionTypeOK'
  <1> SUFFICES ASSUME EmotionTypeOK, [EmotionNext]_emotionVars PROVE EmotionTypeOK'
    OBVIOUS
  <1>1. CASE UNCHANGED emotionVars
    BY <1>1 DEF emotionVars, EmotionTypeOK, Taking
  <1>2. CASE \E h \in Handlers : AppendBuffer(h) \/ GetBuffer(h) \/ ClearBuffer(h)
    BY <1>2, AppendEmotion, GetEmotion, ClearEmotion
  <1>3. CASE \E n \in running : Analyze(n)
    BY <1>3 DEF Analyze, EmotionTypeOK, Taking
  <1>4. QED
    BY <1>1, <1>2, <1>3 DEF EmotionNext

(* The emotion buffer is well typed, is never at the threshold without a   *)
(* handler that will clear it, and grows past the threshold by at most one *)
(* message of each handler between Append and Clear: for any number of     *)
(* connections whose read loops race over Append, Get and Clear            *)
(* (bufferAndAnalyzeEmotion).                                              *)
THEOREM EmotionBufferBounded == EmotionSpec => []EmotionTypeOK
  BY InitEmotion, NextEmotion, PTL DEF EmotionSpec
=============================================================================
