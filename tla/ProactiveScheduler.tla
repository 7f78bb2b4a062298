------------------------- MODULE ProactiveScheduler -------------------------
(***************************************************************************)
(* Proactive messages to one user: the scheduler loops that scan the user  *)
(* (scheduler.go), the manual trigger API (handleGatewayTestProactive in   *)
(* server.go), the user, and the store they share: the conversation and    *)
(* the proactive log the cooldowns are computed from.                      *)
(*                                                                         *)
(* A loop reads the clock once per tick, before the users that precede     *)
(* this one in the scan; the LLM call has no deadline.  So time may pass   *)
(* between reading the clock, deciding, sending and logging: these are     *)
(* four steps.  The reads of one decision are one step.  The user has one  *)
(* conversation, which both paths address.                                 *)
(***************************************************************************)
EXTENDS Integers, Sequences, FiniteSets

CONSTANTS
  Schedulers,  \* processes with a running scheduler loop
  Testers,     \* callers of the manual trigger API
  Nudges, Others, \* trigger types: those after a silence, those by time of day
  Cooldown,    \* the user's proactive interval
  TriggerCooldown, \* perTriggerCooldown
  Inactivity,  \* inactivityThreshold
  Quiet,       \* the instants inside the user's do-not-disturb window
  LogWindow, MsgWindow, \* log entries and messages a decision looks at, 10
  MaxTime, MaxMsgs, MaxCrashes \* bounds

Triggers == Nudges \cup Others
Procs == Schedulers \cup Testers

ASSUME SchedulerAssumption ==
  /\ Cooldown \in Nat /\ Inactivity \in Nat
  /\ TriggerCooldown \in [Triggers -> Nat]
  /\ LogWindow \in Nat \ {0} /\ MsgWindow \in Nat \ {0}
  /\ MaxTime \in Nat /\ MaxMsgs \in Nat \ {0} /\ MaxCrashes \in Nat
  /\ Schedulers \cap Testers = {}
  /\ "user" \notin Procs /\ "bot" \notin Procs
  /\ "manual" \notin Triggers /\ "starter" \notin Triggers /\ "none" \notin Triggers

VARIABLES
  clock,
  conv,    \* messages of the conversation, oldest first
  logs,    \* proactive logs, newest first
  pc, now, job, \* per process: where it is, the time it read, its trigger
  crashes

vars == <<clock, conv, logs, pc, now, job, crashes>>

Message == [sender : {"user", "bot"} \cup Procs, trigger : Triggers \cup {"manual", "starter", "none"},
            at : Nat]
Log == [trigger : Triggers \cup {"manual"}, at : Nat]

IsProactive(m) == m.trigger # "none"

(* A bot may greet the user when it is created, before any scheduling.     *)
Init ==
  /\ clock = 0
  /\ conv \in {<<>>, <<[sender |-> "bot", trigger |-> "starter", at |-> 0]>>}
  /\ logs = <<>>
  /\ pc = [p \in Procs |-> "idle"]
  /\ now = [p \in Procs |-> 0]
  /\ job = [p \in Procs |-> "none"]
  /\ crashes = 0

-----------------------------------------------------------------------------
(* The environment.                                                        *)

Elapse ==
  /\ clock < MaxTime
  /\ clock' = clock + 1
  /\ UNCHANGED <<conv, logs, pc, now, job, crashes>>

Deliver(sender, trigger) ==
  /\ Len(conv) < MaxMsgs
  /\ conv' = Append(conv, [sender |-> sender, trigger |-> trigger, at |-> clock])

UserWrites ==
  /\ Deliver("user", "none")
  /\ UNCHANGED <<clock, logs, pc, now, job, crashes>>

BotReplies ==
  /\ conv # <<>> /\ conv[Len(conv)].sender = "user"
  /\ Deliver("bot", "none")
  /\ UNCHANGED <<clock, logs, pc, now, job, crashes>>

-----------------------------------------------------------------------------
(* What a decision reads.                                                  *)

(* The newest n entries of ListMessages, which lists oldest first.         *)
Window == LET skip == IF Len(conv) > MsgWindow THEN Len(conv) - MsgWindow ELSE 0
          IN  SubSeq(conv, skip + 1, Len(conv))

(* The loop over the window stops at the first user message it meets.      *)
Unanswered ==
  Cardinality({i \in DOMAIN Window :
    IsProactive(Window[i]) /\ \A j \in 1 .. i : Window[j].sender # "user"})

Doubling(u) == IF u >= 2 THEN Cooldown * 2 ^ (u - 1) ELSE Cooldown

(* Cooldown against the newest log, then the back-off.                     *)
CoolEnough(t) ==
  logs # <<>> => t - logs[1].at >= Doubling(Unanswered)

(* detectTrigger: by time of day and chance, and for nudges by silence.    *)
Detected(t) ==
  Others \cup {g \in Nudges : conv # <<>> /\ t - conv[Len(conv)].at >= Inactivity}

(* Fault: the one log already read for the cooldown is looked at again.    *)
TriggerCoolNewest(g, t) ==
  logs # <<>> /\ logs[1].trigger = g => t - logs[1].at >= TriggerCooldown[g]

TriggerCool(g, t) ==
  \A i \in DOMAIN logs :
    i <= LogWindow /\ logs[i].trigger = g => t - logs[i].at >= TriggerCooldown[g]

(* The user's switch (settings.ProactiveEnabled) may be on at any decision *)
(* and the user may be offline, when presence blocks no trigger: neither   *)
(* takes a choice away.                                                    *)
MaySend(g, t) ==
  /\ t \notin Quiet
  /\ CoolEnough(t)
  /\ g \in Detected(t)
  /\ TriggerCool(g, t)

-----------------------------------------------------------------------------
(* A scheduler loop.                                                       *)

(* tick: the ticker fires and the clock is read for the whole scan.        *)
Tick(s) ==
  /\ pc[s] = "idle"
  /\ pc' = [pc EXCEPT ![s] = "scan"]
  /\ now' = [now EXCEPT ![s] = clock]
  /\ UNCHANGED <<clock, conv, logs, job, crashes>>

(* processUser reaches this user: some gate returns, or a trigger is       *)
(* chosen and the LLM is asked for a message.                              *)
Decide(s) ==
  /\ pc[s] = "scan"
  /\ now' = [now EXCEPT ![s] = 0]
  /\ \/ /\ pc' = [pc EXCEPT ![s] = "idle"]
        /\ UNCHANGED job
     \/ \E g \in Triggers :
          /\ MaySend(g, now[s])
          /\ pc' = [pc EXCEPT ![s] = "asking"]
          /\ job' = [job EXCEPT ![s] = g]
  /\ UNCHANGED <<clock, conv, logs, crashes>>

(* Fault: a request without a trigger type is not given one.               *)
RequestUntyped(p) ==
  /\ pc[p] = "idle"
  /\ clock \notin Quiet
  /\ pc' = [pc EXCEPT ![p] = "asking"]
  /\ \E g \in Triggers \cup {"none"} : job' = [job EXCEPT ![p] = g]
  /\ UNCHANGED <<clock, conv, logs, now, crashes>>

(* The manual trigger API: the switch and DND are the only gates.          *)
Request(p) ==
  /\ pc[p] = "idle"
  /\ clock \notin Quiet
  /\ pc' = [pc EXCEPT ![p] = "asking"]
  /\ \E g \in Triggers \cup {"manual"} : job' = [job EXCEPT ![p] = g]
  /\ UNCHANGED <<clock, conv, logs, now, crashes>>

(* sendProactiveMessage gives up: the model's text is blank, or the        *)
(* conversation is gone.                                                   *)
Abandon(s) ==
  /\ pc[s] = "asking"
  /\ pc' = [pc EXCEPT ![s] = "idle"]
  /\ job' = [job EXCEPT ![s] = "none"]
  /\ UNCHANGED <<clock, conv, logs, now, crashes>>

(* SaveMessage, then the WebSocket event or the push.                      *)
Send(p) ==
  /\ pc[p] = "asking"
  /\ Deliver(p, job[p])
  /\ pc' = [pc EXCEPT ![p] = "sent"]
  /\ UNCHANGED <<clock, logs, now, job, crashes>>

(* Fault: only messages sent by push are logged.                           *)
RecordPushed(p) ==
  /\ pc[p] = "sent"
  /\ \/ UNCHANGED logs
     \/ logs' = <<[trigger |-> job[p], at |-> clock]>> \o logs
  /\ pc' = [pc EXCEPT ![p] = "idle"]
  /\ job' = [job EXCEPT ![p] = "none"]
  /\ UNCHANGED <<clock, conv, now, crashes>>

(* AddProactiveLog.                                                        *)
Record(p) ==
  /\ pc[p] = "sent"
  /\ logs' = <<[trigger |-> job[p], at |-> clock]>> \o logs
  /\ pc' = [pc EXCEPT ![p] = "idle"]
  /\ job' = [job EXCEPT ![p] = "none"]
  /\ UNCHANGED <<clock, conv, now, crashes>>

(* The process of p dies and is restarted.                                 *)
Crash(p) ==
  /\ crashes < MaxCrashes
  /\ pc[p] # "idle"
  /\ crashes' = crashes + 1
  /\ pc' = [pc EXCEPT ![p] = "idle"]
  /\ now' = [now EXCEPT ![p] = 0]
  /\ job' = [job EXCEPT ![p] = "none"]
  /\ UNCHANGED <<clock, conv, logs>>

Next ==
  \/ Elapse \/ UserWrites \/ BotReplies
  \/ \E s \in Schedulers : Tick(s) \/ Decide(s) \/ Abandon(s)
  \/ \E p \in Testers : Request(p)
  \/ \E p \in Procs : Send(p) \/ Record(p) \/ Crash(p)

Spec == Init /\ [][Next]_vars

-----------------------------------------------------------------------------
(* Properties.                                                             *)

TypeOK ==
  /\ clock \in 0 .. MaxTime
  /\ conv \in Seq(Message) /\ Len(conv) <= MaxMsgs
  /\ logs \in Seq(Log)
  /\ pc \in [Procs -> {"idle", "scan", "asking", "sent"}]
  /\ now \in [Procs -> 0 .. MaxTime]
  /\ job \in [Procs -> Triggers \cup {"manual", "none"}]
  /\ crashes \in 0 .. MaxCrashes

Sends == {i \in DOMAIN conv : conv[i].sender \in Procs}
Scheduled == {i \in Sends : conv[i].sender \in Schedulers}

(* "frequency = minimum gap between proactive sends": with one scheduler   *)
(* loop, whose process has not died before logging what it sent, two       *)
(* scheduled messages are never closer than the user's interval, although  *)
(* the loop works with the time at which its tick began, logs a message    *)
(* only after it was sent, and shares the log with manual requests.  The   *)
(* same trigger type keeps its own, longer cooldown, although only the     *)
(* last LogWindow logs are looked at; there, requests, which check no      *)
(* cooldown and could fill the window, are left aside.                     *)
CooldownsHold ==
  crashes = 0 =>
    \A i, j \in Scheduled : i < j =>
      /\ conv[j].at - conv[i].at >= Cooldown
      /\ conv[i].trigger = conv[j].trigger /\ (\A k \in i .. j : k \in Sends => k \in Scheduled)
           => conv[j].at - conv[i].at >= TriggerCooldown[conv[i].trigger]

(* Every message sent is in the log, except those whose process is between *)
(* sending and logging, or crashed there; nothing is logged twice.  The    *)
(* cooldowns see only logged messages.                                     *)
LogsAccountForSends ==
  LET pending == Cardinality({p \in Procs : pc[p] = "sent"})
      missing == Cardinality(Sends) - Len(logs)
  IN  pending <= missing /\ missing <= pending + crashes
=============================================================================
