--------------------------- MODULE PersonaChanges ---------------------------
(***************************************************************************)
(* Who changes a bot's persona, and the audit log of the changes: the      *)
(* subtasks of finished turns, each in a goroutine of its own (runner.go), *)
(* and the handlers with which a user iterates, edits, or reviews a change *)
(* that an earlier version of the program left pending.                    *)
(*                                                                         *)
(* The in-memory store changes the bot under its lock.  The Postgres store *)
(* reads the row, computes, and updates all of it, in two statements with  *)
(* no transaction.  The facts are the phrases of one persona field, which  *)
(* stands for them all.  Bots are never deleted, so an operation fails     *)
(* only when a statement does.  Left out: persona_prompt and               *)
(* persona_version, written and never read by the program, and the legacy  *)
(* copies of the fields.                                                   *)
(***************************************************************************)
EXTENDS Naturals, Sequences

CONSTANTS
  Turns,     \* turns of one bot whose subtasks run
  Requests,  \* HTTP requests about the bot, each to iterate, edit or review
  Facts,
  MaxItems,  \* bound on the memory items each turn yields
  Keep,      \* persona change events kept per bot, 20
  Pending    \* the source of the change left pending

Actors == Turns \cup Requests
Items == [fact : Facts, fit : BOOLEAN]
Events == [source : Turns \cup {Pending}, fact : Facts,
           status : {"pending", "accepted", "rejected", "skipped", "failed"}]

ASSUME PersonaAssumption ==
  /\ Keep \in Nat \ {0}
  /\ MaxItems \in [Turns -> Nat]
  /\ Pending \notin Turns
  /\ Turns \cap Requests = {}

VARIABLES
  store,      \* which store the deployment runs on
  bot,        \* the facts of the persona
  events,     \* persona_change_events, oldest first
  at,         \* where each actor is
  todo,       \* a turn's memory items not yet decided
  want,       \* the facts the actor's next write carries
  seen,       \* the copy of the bot a turn's subtasks decide on
  row,        \* the row the Postgres store read for the actor, if any
  accepted,   \* acceptedChanges of a turn
  added,      \* history: facts users put into the persona
  removed,    \* history: facts a user's form left out, until added again
  unrecorded  \* history: facts applied whose event could not be inserted

personaVars == <<store, bot, events, at, todo, want, seen, row, accepted, added,
                 removed, unrecorded>>
history == <<added, removed, unrecorded>>

Steps == {"idle", "decide", "patch", "record", "resolve", "cognition",
          "iterate", "edit", "accept", "done"}

(* The in-memory store is new with each start and has no pending change.   *)
PersonaInit ==
  /\ store \in {"memory", "postgres"}
  /\ bot = {}
  /\ \/ events = <<>>
     \/ \E f \in Facts :
          /\ store = "postgres"
          /\ events = <<[source |-> Pending, fact |-> f, status |-> "pending"]>>
  /\ at = [a \in Actors |-> "idle"]
  /\ todo = [t \in Turns |-> <<>>]
  /\ want = [a \in Actors |-> {}]
  /\ seen = [t \in Turns |-> {}]
  /\ row = [a \in Actors |-> <<>>]
  /\ accepted = [t \in Turns |-> {}]
  /\ added = {}
  /\ removed = {}
  /\ unrecorded = {}

Go(a, step) == at' = [at EXCEPT ![a] = step]

(* The actor returns, and its local variables are gone.                    *)
Return(a) == Go(a, "done") /\ want' = [want EXCEPT ![a] = {}]

-----------------------------------------------------------------------------
(* The store.                                                              *)

(* GetBot inside the Postgres store's ApplyBotPersonaPatch and UpdateBot.  *)
ReadRow(a) ==
  /\ store = "postgres"
  /\ at[a] \in {"patch", "cognition", "iterate", "edit", "accept"}
  /\ row[a] = <<>>
  /\ row' = [row EXCEPT ![a] = <<bot>>]
  /\ UNCHANGED <<store, bot, events, at, todo, want, seen, accepted, history>>

(* The bot a write starts from: the row as read, or, under the in-memory   *)
(* store's lock, the bot itself.                                           *)
Base(a) == IF store = "memory" THEN bot ELSE row[a][1]

(* The whole bot is replaced.                                              *)
WriteBot(a, b) ==
  /\ store = "memory" \/ row[a] # <<>>
  /\ bot' = b
  /\ row' = [row EXCEPT ![a] = <<>>]

(* ApplyBotPersonaPatch appends what is new.                               *)
Patched(a) == Base(a) \cup want[a]

(* Fault: one event too many is kept.                                      *)
PruneLate(log) == IF Len(log) > Keep + 1 THEN SubSeq(log, Len(log) - Keep, Len(log))
                  ELSE log

(* CreatePersonaChangeEvent.  Postgres prunes in a statement of its own,   *)
(* which may fail.                                                         *)
Prune(log) == IF Len(log) > Keep THEN SubSeq(log, Len(log) - Keep + 1, Len(log))
              ELSE log
LogEvent(t, f, status) ==
  LET longer == Append(events, [source |-> t, fact |-> f, status |-> status]) IN
  \/ events' = Prune(longer)
  \/ store = "postgres" /\ events' = longer

-----------------------------------------------------------------------------
(* A turn's subtasks, from the memory items the extractor saved that       *)
(* concern a field of the persona; the others leave no trace here.         *)

(* An extractor or a save that fails yields no items; the bot is read once *)
(* for all of them.                                                        *)
ExtractItems(t) ==
  /\ at[t] = "idle"
  /\ \E n \in 0 .. MaxItems[t] : \E items \in [1 .. n -> Items] :
       /\ todo' = [todo EXCEPT ![t] = items]
       /\ Go(t, IF n = 0 THEN "done" ELSE "decide")
  /\ seen' = [seen EXCEPT ![t] = bot]
  /\ UNCHANGED <<store, bot, events, want, row, accepted, history>>

Covered(t) == Head(todo[t]).fact \in seen[t]

(* An item that is not a stable fact about the bot, or whose fact the copy *)
(* of the bot has, is only logged.  The insert may fail.                   *)
SkipItem(t) ==
  /\ at[t] = "decide" /\ todo[t] # <<>>
  /\ ~Head(todo[t]).fit \/ Covered(t)
  /\ \/ LogEvent(t, Head(todo[t]).fact, "skipped")
     \/ store = "postgres" /\ UNCHANGED events
  /\ todo' = [todo EXCEPT ![t] = Tail(@)]
  /\ UNCHANGED <<store, bot, at, want, seen, row, accepted, history>>

AcceptItem(t) ==
  /\ at[t] = "decide" /\ todo[t] # <<>>
  /\ Head(todo[t]).fit /\ ~Covered(t)
  /\ want' = [want EXCEPT ![t] = {Head(todo[t]).fact}]
  /\ Go(t, "patch")
  /\ UNCHANGED <<store, bot, events, todo, seen, row, accepted, history>>

(* Fault: the subtasks write back their own copy of the bot.               *)
PatchTurnStale(t) ==
  /\ at[t] = "patch"
  /\ WriteBot(t, seen[t] \cup want[t])
  /\ seen' = [seen EXCEPT ![t] = bot']
  /\ removed' = removed \ want[t]
  /\ Go(t, "record")
  /\ UNCHANGED <<store, events, todo, want, accepted, added, unrecorded>>

PatchTurn(t) ==
  /\ at[t] = "patch"
  /\ WriteBot(t, Patched(t))
  /\ seen' = [seen EXCEPT ![t] = bot']
  /\ removed' = removed \ want[t]
  /\ Go(t, "record")
  /\ UNCHANGED <<store, events, todo, want, accepted, added, unrecorded>>

(* The patch finds no bot: its statement failed, and the in-memory store   *)
(* under the Postgres store does not know the bot.  So may the insert.     *)
PatchFails(t) ==
  /\ at[t] = "patch"
  /\ store = "postgres"
  /\ LogEvent(t, Head(todo[t]).fact, "failed") \/ UNCHANGED events
  /\ todo' = [todo EXCEPT ![t] = Tail(@)]
  /\ row' = [row EXCEPT ![t] = <<>>]
  /\ Go(t, "decide")
  /\ UNCHANGED <<store, bot, want, seen, accepted, history>>

(* Fault: one event per turn.                                              *)
RecordChangeOnce(t) ==
  /\ at[t] = "record"
  /\ LET f == Head(todo[t]).fact IN
     /\ IF accepted[t] = {} THEN LogEvent(t, f, "accepted") ELSE UNCHANGED events
     /\ accepted' = [accepted EXCEPT ![t] = @ \cup {f}]
  /\ todo' = [todo EXCEPT ![t] = Tail(@)]
  /\ Go(t, "decide")
  /\ UNCHANGED <<store, bot, want, seen, row, history>>

RecordChange(t) ==
  /\ at[t] = "record"
  /\ LET f == Head(todo[t]).fact IN
     \/ /\ LogEvent(t, f, "accepted")
        /\ accepted' = [accepted EXCEPT ![t] = @ \cup {f}]
        /\ UNCHANGED unrecorded
     \/ /\ store = "postgres"
        /\ unrecorded' = unrecorded \cup {f}
        /\ UNCHANGED <<events, accepted>>
  /\ todo' = [todo EXCEPT ![t] = Tail(@)]
  /\ Go(t, "decide")
  /\ UNCHANGED <<store, bot, want, seen, row, added, removed>>

(* With accepted changes the LLM is asked for a new self_cognition, which  *)
(* may fail.                                                               *)
AllDecided(t) ==
  /\ at[t] = "decide" /\ todo[t] = <<>>
  /\ \/ Return(t)
     \/ accepted[t] # {} /\ Go(t, "cognition") /\ UNCHANGED want
  /\ seen' = [seen EXCEPT ![t] = {}]
  /\ accepted' = [accepted EXCEPT ![t] = {}]
  /\ UNCHANGED <<store, bot, events, todo, row, history>>

(* UpdateBot with nothing for the field: refreshBotSelfCognition, or a     *)
(* form that leaves the field empty.                                       *)
WriteCognition(a) ==
  /\ at[a] = "cognition"
  /\ WriteBot(a, Base(a))
  /\ Return(a)
  /\ UNCHANGED <<store, events, todo, seen, accepted, history>>

(* A statement fails: the subtasks keep quiet, a handler answers 404.      *)
StatementFails(a) ==
  /\ store = "postgres"
  /\ at[a] \in {"cognition", "iterate", "edit", "accept", "resolve"}
  /\ Return(a)
  /\ row' = [row EXCEPT ![a] = <<>>]
  /\ UNCHANGED <<store, bot, events, todo, seen, accepted, history>>

-----------------------------------------------------------------------------
(* The handlers.                                                           *)

(* handleBotIterate: the LLM proposes any number of additions.  The PATCH  *)
(* of a bot appends the user's own in the same way (AppendBotPersona).     *)
Iterate(q) ==
  /\ at[q] = "idle"
  /\ \/ \E adds \in SUBSET Facts : want' = [want EXCEPT ![q] = adds] /\ Go(q, "iterate")
     \/ Go(q, "done") /\ UNCHANGED want
  /\ UNCHANGED <<store, bot, events, todo, seen, row, accepted, history>>

PatchIterate(q) ==
  /\ at[q] = "iterate"
  /\ WriteBot(q, Patched(q))
  /\ added' = added \cup want[q]
  /\ removed' = removed \ want[q]
  /\ Return(q)
  /\ UNCHANGED <<store, events, todo, seen, accepted, unrecorded>>

(* The bot form: what it carries for the field replaces the field.         *)
SubmitForm(q) ==
  /\ at[q] = "idle"
  /\ \/ \E facts \in (SUBSET Facts) \ {{}} :
          want' = [want EXCEPT ![q] = facts] /\ Go(q, "edit")
     \/ Go(q, "cognition") /\ UNCHANGED want
  /\ UNCHANGED <<store, bot, events, todo, seen, row, accepted, history>>

WriteForm(q) ==
  /\ at[q] = "edit"
  /\ WriteBot(q, want[q])
  /\ added' = added \cup want[q]
  /\ removed' = (removed \cup bot) \ want[q]
  /\ Return(q)
  /\ UNCHANGED <<store, events, todo, seen, accepted, unrecorded>>

(* handleBotPersonaChangeAction: a change that is not pending is refused.  *)
PendingChange == {i \in DOMAIN events : events[i].source = Pending}

CheckPending(q) ==
  /\ at[q] = "idle"
  /\ \/ \E i \in PendingChange :
          /\ events[i].status = "pending"
          /\ \/ want' = [want EXCEPT ![q] = {events[i].fact}] /\ Go(q, "accept")
             \/ want' = [want EXCEPT ![q] = {}] /\ Go(q, "resolve")
     \/ /\ \A i \in PendingChange : events[i].status # "pending"
        /\ Go(q, "done")
        /\ UNCHANGED want
  /\ UNCHANGED <<store, bot, events, todo, seen, row, accepted, history>>

PatchReview(q) ==
  /\ at[q] = "accept"
  /\ WriteBot(q, Patched(q))
  /\ added' = added \cup want[q]
  /\ removed' = removed \ want[q]
  /\ Go(q, "resolve")
  /\ UNCHANGED <<store, events, todo, want, seen, accepted, unrecorded>>

(* The status is overwritten whatever it is; a pruned change is not found. *)
Resolve(q) ==
  /\ at[q] = "resolve"
  /\ LET verdict == IF want[q] = {} THEN "rejected" ELSE "accepted" IN
     events' = [i \in DOMAIN events |->
                  IF i \in PendingChange THEN [events[i] EXCEPT !.status = verdict]
                  ELSE events[i]]
  /\ \/ Return(q)
     \/ want[q] # {} /\ PendingChange # {} /\ Go(q, "cognition") /\ UNCHANGED want
  /\ UNCHANGED <<store, bot, todo, seen, row, accepted, history>>

PersonaNext ==
  \/ \E t \in Turns : ExtractItems(t) \/ SkipItem(t) \/ AcceptItem(t) \/ PatchTurn(t)
                      \/ PatchFails(t) \/ RecordChange(t) \/ AllDecided(t)
  \/ \E a \in Actors : ReadRow(a) \/ WriteCognition(a) \/ StatementFails(a)
  \/ \E q \in Requests : Iterate(q) \/ PatchIterate(q) \/ SubmitForm(q) \/ WriteForm(q)
                         \/ CheckPending(q) \/ PatchReview(q) \/ Resolve(q)

PersonaSpec == PersonaInit /\ [][PersonaNext]_personaVars

-----------------------------------------------------------------------------
PersonaTypeOK ==
  /\ store \in {"memory", "postgres"}
  /\ bot \in SUBSET Facts
  /\ events \in Seq(Events)
  /\ store = "memory" => Len(events) <= Keep
  /\ at \in [Actors -> Steps]
  /\ todo \in [Turns -> Seq(Items)]
  /\ want \in [Actors -> SUBSET Facts]
  /\ seen \in [Turns -> SUBSET Facts]
  /\ row \in [Actors -> {<<>>} \cup {<<b>> : b \in SUBSET Facts}]
  /\ accepted \in [Turns -> SUBSET Facts]
  /\ added \in SUBSET Facts
  /\ removed \in SUBSET Facts
  /\ unrecorded \in SUBSET Facts

(* What the log calls accepted is in the persona, unless a user's form has *)
(* replaced it: a change is recorded after it is applied, and no other     *)
(* writer undoes it.                                                       *)
AcceptedIsApplied ==
  \A i \in DOMAIN events : events[i].status = "accepted" =>
     events[i].fact \in bot \cup removed

(* The same, of the store that writes under a lock.                        *)
AcceptedIsAppliedInMemory == store = "memory" => AcceptedIsApplied

(* No fact gets into the persona silently: it is a user's, or the log has  *)
(* it as accepted or soon will, or its insert failed, or the log has been  *)
(* full and may have pruned it.                                            *)
AppliedIsAudited ==
  \A f \in bot :
     \/ f \in added \cup unrecorded
     \/ \E i \in DOMAIN events : events[i].fact = f /\ events[i].status = "accepted"
     \/ \E t \in Turns : at[t] = "record" /\ f \in want[t]
     \/ Len(events) >= Keep
=============================================================================
