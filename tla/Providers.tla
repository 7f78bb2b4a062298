----------------------------- MODULE Providers -----------------------------
(* The model providers of a deployment with Postgres: the admin handlers   *)
(* that create, change, delete, switch and assign them, statement by       *)
(* statement, and the router (internal/agentx/provider/router.go) that     *)
(* reads their rows and settings one by one to find the route of a call.   *)
(*                                                                         *)
(* Names, URLs and keys are left out.  A provider is its place in the      *)
(* order of the ids; a model is named after the provider that offers it.   *)
(* Overrides per bot exist in the table, but nothing outside tests writes  *)
(* them.                                                                   *)
EXTENDS Naturals, FiniteSets, Functions

CONSTANTS
  NProviders,   \* ids 1 .. NProviders; 1 is seeded by the schema
  Users,        \* users a provider can be assigned to
  Uses,         \* "post_turn", "summary", "embedding": calls with a setting
  Admins,       \* admin requests served at the same time
  MaxPriority,
  MaxOps        \* bound: requests, routes resolved, statements that fail
                \* and starts of a service, together

ASSUME ProvidersAssumption ==
  /\ NProviders \in Nat \ {0} /\ MaxPriority \in Nat \ {0}
  /\ MaxOps \in Nat
  /\ Uses \subseteq {"post_turn", "summary", "embedding"}

None == 0
Ids == 1 .. NProviders
Seed == 1
Models(id) == {None, id}

(* A provider and a model of a setting, either of which may be empty.      *)
Pair == [id : Ids \cup {None}, model : Ids \cup {None}]
NoPair == [id |-> None, model |-> None]

VARIABLES
  rows,      \* id -> [active, priority, born, model]: the table providers
  default,   \* default_chat_provider_id and default_chat_model
  setting,   \* the pair of each use
  custom,    \* embedding_base_url is set
  assigned,  \* user -> pair: user_provider_settings
  admin,     \* the handlers
  route,     \* the resolution under way, and what it has read
  ops,       \* what MaxOps bounds
  faulty,    \* a statement of a handler has failed
  booted,    \* the schema has been run again and brought the seed back
  serial     \* no two handlers have worked at once

config == <<rows, default, setting, custom, assigned>>
vars == <<config, admin, route, ops, faulty, booted, serial>>

-----------------------------------------------------------------------------
(* The order of the admin's list and of the router's.                      *)

ListedBefore(p, q, list) ==
  \/ list[p].priority < list[q].priority
  \/ list[p].priority = list[q].priority /\ list[p].born > list[q].born
First(list) == CHOOSE p \in DOMAIN list : \A q \in DOMAIN list \ {p} : ListedBefore(p, q, list)

SortedBefore(p, q, list) ==
  \/ list[p].priority < list[q].priority
  \/ list[p].priority = list[q].priority /\ p < q
FirstOf(S, list) == CHOOSE p \in S : \A q \in S \ {p} : SortedBefore(p, q, list)

NextPriority == 1 + (IF DOMAIN rows = {} THEN 0
                     ELSE CHOOSE n \in {rows[p].priority : p \in DOMAIN rows} :
                            \A q \in DOMAIN rows : rows[q].priority <= n)
Born == IF DOMAIN rows = {} THEN 1
        ELSE 1 + CHOOSE n \in {rows[p].born : p \in DOMAIN rows} :
                   \A q \in DOMAIN rows : rows[q].born <= n

-----------------------------------------------------------------------------
(* Admin handlers.  Each step is one statement; a step that leaves "idle"  *)
(* is the start of a request.                                              *)

Idle == [at |-> "idle", id |-> None, model |-> None, active |-> FALSE, user |-> None, priority |-> 0]

Starts(a) ==
  /\ admin[a] = Idle /\ ops < MaxOps
  /\ ops' = ops + 1
  /\ serial' = (serial /\ \A b \in Admins : admin[b] = Idle)
  /\ UNCHANGED <<faulty, booted>>
Continues == UNCHANGED <<ops, faulty, booted, serial>>
Goes(a, next) == admin' = [admin EXCEPT ![a] = next]

(* What a resolution must know of the changes around it.                   *)
Watched ==
  route' = IF route.at \in {"idle", "done"} THEN route
           ELSE [route EXCEPT
             !.calm = @ /\ <<DOMAIN rows', assigned', setting', custom'>> = <<DOMAIN rows, assigned, setting, custom>>,
             !.defaults = @ \cup {default'}]

(* createProvider: a priority is given, or read.                           *)
Create(a, id, model, active, priority) ==
  /\ Starts(a)
  /\ Goes(a, [Idle EXCEPT !.at = "insert", !.id = id, !.model = model, !.active = active,
                          !.priority = IF priority = 0 THEN NextPriority ELSE priority])
  /\ UNCHANGED <<config, route>>

Insert(a) ==
  /\ admin[a].at = "insert"
  /\ LET t == admin[a]
     IN  IF t.id \in DOMAIN rows THEN Goes(a, Idle) /\ UNCHANGED rows
         ELSE /\ rows' = [p \in DOMAIN rows \cup {t.id} |->
                            IF p \in DOMAIN rows THEN rows[p]
                            ELSE [active |-> t.active, priority |-> t.priority, born |-> Born, model |-> t.model]]
              /\ Goes(a, [t EXCEPT !.at = IF t.active THEN "sync" ELSE "ensure"])
  /\ UNCHANGED <<default, setting, custom, assigned>>
  /\ Continues /\ Watched

(* updateProvider: reads the row, writes all its columns, and makes it the *)
(* active one on request.                                                  *)
Update(a, id, model, active, priority) ==
  /\ Starts(a)
  /\ id \in DOMAIN rows
  /\ Goes(a, [Idle EXCEPT !.at = IF active THEN "rewrite and sync" ELSE "rewrite",
                          !.id = id, !.model = model, !.active = active \/ rows[id].active,
                          !.priority = IF priority = 0 THEN rows[id].priority ELSE priority])
  /\ UNCHANGED <<config, route>>

Rewrite(a) ==
  /\ admin[a].at \in {"rewrite", "rewrite and sync"}
  /\ LET t == admin[a]
     IN  /\ rows' = IF t.id \in DOMAIN rows
                    THEN [rows EXCEPT ![t.id].active = t.active, ![t.id].model = t.model,
                                      ![t.id].priority = t.priority]
                    ELSE rows
         /\ Goes(a, IF t.at = "rewrite" THEN Idle ELSE [t EXCEPT !.at = "sync"])
  /\ UNCHANGED <<default, setting, custom, assigned>>
  /\ Continues /\ Watched

(* deleteProvider: whether it was active, the deletion, which a reference  *)
(* by a user forbids, then the default, and a new one if it is gone.       *)
Delete(a, id) ==
  /\ Starts(a)
  /\ id \in DOMAIN rows
  /\ Goes(a, [Idle EXCEPT !.at = "delete", !.id = id, !.active = rows[id].active])
  /\ UNCHANGED <<config, route>>

(* Fault: the reference does not hold the row.                             *)
DeleteRowAnyway(a) ==
  /\ admin[a].at = "delete"
  /\ rows' = Restrict(rows, DOMAIN rows \ {admin[a].id})
  /\ Goes(a, [admin[a] EXCEPT !.at = "reelect"])
  /\ UNCHANGED <<default, setting, custom, assigned>>
  /\ Continues /\ Watched

DeleteRow(a) ==
  /\ admin[a].at = "delete"
  /\ IF \E u \in DOMAIN assigned : assigned[u].id = admin[a].id
     THEN Goes(a, Idle) /\ UNCHANGED rows
     ELSE /\ rows' = Restrict(rows, DOMAIN rows \ {admin[a].id})
          /\ Goes(a, [admin[a] EXCEPT !.at = "reelect"])
  /\ UNCHANGED <<default, setting, custom, assigned>>
  /\ Continues /\ Watched

Reelect(a) ==
  /\ admin[a].at = "reelect"
  /\ Goes(a, IF admin[a].active \/ default.id = admin[a].id
             THEN [admin[a] EXCEPT !.at = "ensure"] ELSE Idle)
  /\ UNCHANGED <<config, route>>
  /\ Continues

(* ensureDefaultProviderReady: the default, whether it exists, the list.   *)
Ensure(a) ==
  /\ admin[a].at = "ensure"
  /\ Goes(a, [admin[a] EXCEPT !.at = "exists", !.id = default.id])
  /\ UNCHANGED <<config, route>>
  /\ Continues

Exists(a) ==
  /\ admin[a].at = "exists"
  /\ Goes(a, IF admin[a].id \in DOMAIN rows THEN Idle ELSE [admin[a] EXCEPT !.at = "elect"])
  /\ UNCHANGED <<config, route>>
  /\ Continues

Elect(a) ==
  /\ admin[a].at = "elect"
  /\ Goes(a, IF DOMAIN rows = {} THEN Idle
             ELSE [admin[a] EXCEPT !.at = "sync", !.id = First(rows), !.model = rows[First(rows)].model])
  /\ UNCHANGED <<config, route>>
  /\ Continues

(* switchProvider: the model asked for, or the first of the provider.      *)
Switch(a, id, model) ==
  /\ Starts(a)
  /\ id \in DOMAIN rows
  /\ Goes(a, [Idle EXCEPT !.at = "sync", !.id = id, !.model = IF model = None THEN rows[id].model ELSE model])
  /\ UNCHANGED <<config, route>>

(* Fault: the others stay active.                                          *)
SyncAlso(a) ==
  /\ admin[a].at = "sync"
  /\ LET t == admin[a]
     IN  /\ rows' = [p \in DOMAIN rows |-> [rows[p] EXCEPT !.active = @ \/ p = t.id]]
         /\ default' = [id |-> t.id, model |-> IF t.model = None THEN default.model ELSE t.model]
  /\ Goes(a, Idle)
  /\ UNCHANGED <<setting, custom, assigned>>
  /\ Continues /\ Watched

(* syncActiveProviderToDB, one transaction: nobody looks whether the       *)
(* provider is still there, and an empty model leaves the default model.   *)
Sync(a) ==
  /\ admin[a].at = "sync"
  /\ LET t == admin[a]
     IN  /\ rows' = [p \in DOMAIN rows |-> [rows[p] EXCEPT !.active = p = t.id]]
         /\ default' = [id |-> t.id, model |-> IF t.model = None THEN default.model ELSE t.model]
  /\ Goes(a, Idle)
  /\ UNCHANGED <<setting, custom, assigned>>
  /\ Continues /\ Watched

(* putUserProviderSetting: the provider is looked up, then referred to.    *)
Choose(a, u, id, model) ==
  /\ Starts(a)
  /\ id \in DOMAIN rows
  /\ Goes(a, [Idle EXCEPT !.at = "assign", !.id = id, !.model = model, !.user = u])
  /\ UNCHANGED <<config, route>>

Assign(a) ==
  /\ admin[a].at = "assign"
  /\ LET t == admin[a]
     IN  assigned' = IF t.id \in DOMAIN rows
                     THEN [assigned EXCEPT ![t.user] = [id |-> t.id, model |-> t.model]]
                     ELSE assigned
  /\ Goes(a, Idle)
  /\ UNCHANGED <<rows, default, setting, custom>>
  /\ Continues /\ Watched

(* deleteUserProviderSetting.                                              *)
Unassign(a, u) ==
  /\ Starts(a)
  /\ assigned[u] # NoPair
  /\ assigned' = [assigned EXCEPT ![u] = NoPair]
  /\ UNCHANGED <<rows, default, setting, custom, admin>>
  /\ Watched

(* The handlers of the three other settings: the provider is looked up,    *)
(* unless it is none, and the keys written in one transaction; nothing     *)
(* keeps the provider from being deleted.                                  *)
Choice(a, use, id, model, base) ==
  /\ Starts(a)
  /\ id \in DOMAIN rows \cup {None}
  /\ Goes(a, [Idle EXCEPT !.at = "configure", !.id = id, !.model = model, !.user = use, !.active = base])
  /\ UNCHANGED <<config, route>>

Configure(a) ==
  /\ admin[a].at = "configure"
  /\ LET t == admin[a]
     IN  /\ setting' = [setting EXCEPT ![t.user] = [id |-> t.id, model |-> t.model]]
         /\ custom' = IF t.user = "embedding" THEN t.active ELSE custom
  /\ Goes(a, Idle)
  /\ UNCHANGED <<rows, default, assigned>>
  /\ Continues /\ Watched

(* A statement fails: the handler answers 500 and leaves what it has done. *)
Fail(a) ==
  /\ admin[a] # Idle /\ ops < MaxOps
  /\ ops' = ops + 1 /\ faulty' = TRUE
  /\ Goes(a, Idle)
  /\ UNCHANGED <<config, route, booted, serial>>

(* A service starts: the schema's INSERT ... ON CONFLICT DO NOTHING brings *)
(* a deleted seed back, active; the settings are there already.            *)
Boot ==
  /\ Seed \notin DOMAIN rows /\ ops < MaxOps
  /\ ops' = ops + 1 /\ booted' = TRUE
  /\ rows' = [p \in DOMAIN rows \cup {Seed} |->
                IF p = Seed THEN [active |-> TRUE, priority |-> 1, born |-> Born, model |-> Seed] ELSE rows[p]]
  /\ UNCHANGED <<default, setting, custom, assigned, admin, faulty, serial>>
  /\ Watched

-----------------------------------------------------------------------------
(* The router.                                                             *)

NotAsked == [at |-> "idle", use |-> "chat", again |-> FALSE, custom |-> FALSE, user |-> None, list |-> <<>>, mine |-> NoPair,
             default |-> NoPair, result |-> NoPair, calm |-> TRUE, lapsed |-> FALSE,
             wanted |-> [id |-> None, model |-> None, own |-> FALSE], defaults |-> {}]

FirstNonEmpty(m, n) == IF m # None THEN m ELSE n

(* loadDefaultRoutingSettings and the items of the admin's user list: the  *)
(* provider and model in effect for a user.                                *)
Effective(u) ==
  IF assigned[u].id # None
  THEN [id |-> assigned[u].id, model |-> FirstNonEmpty(assigned[u].model, default.model)]
  ELSE default

(* What settles a call at one moment: the setting of its use, then what is *)
(* in effect for the user, or, for embeddings, which have none, for all.   *)
Wanted(use, u) ==
  LET own == IF use = "chat" THEN NoPair ELSE setting[use]
      model == FirstNonEmpty(own.model, default.model)
  IN  IF own.id \in DOMAIN rows THEN [id |-> own.id, model |-> model, own |-> TRUE]
      ELSE IF use = "embedding" THEN [id |-> default.id, model |-> model, own |-> FALSE]
      ELSE [id |-> Effective(u).id, model |-> Effective(u).model, own |-> assigned[u].id # None]

(* A setting whose SELECT fails is looked up in the embedded store, where  *)
(* nothing has put one.                                                    *)
Answers(value, none) ==
  {[value |-> value, lapsed |-> FALSE]} \cup
  (IF ops < MaxOps THEN {[value |-> none, lapsed |-> TRUE]} ELSE {})

Read(answer, next) ==
  /\ route' = [next EXCEPT !.lapsed = @ \/ answer.lapsed]
  /\ ops' = IF answer.lapsed THEN ops + 1 ELSE ops

Resolve(use, u) ==
  /\ route.at \in {"idle", "done"} /\ ops < MaxOps
  /\ ops' = ops + 1
  /\ route' = [NotAsked EXCEPT !.at = "list", !.use = use, !.user = u,
                               !.wanted = Wanted(use, u), !.defaults = {default}]
  /\ UNCHANGED <<config, admin, faulty, booted, serial>>

(* sortedProviders; without a provider there is no route.                  *)
List ==
  /\ route.at = "list"
  /\ route' = IF DOMAIN rows = {} THEN [route EXCEPT !.at = "done"]
              ELSE [route EXCEPT !.list = rows, 
                               !.at = IF route.use = "chat" \/ route.again THEN "default id" ELSE "my id"]
  /\ UNCHANGED <<config, admin, ops, faulty, booted, serial>>

Unread == UNCHANGED <<config, admin, faulty, booted, serial>>

(* With the id of embeddings goes their base URL.                          *)
ReadMyId ==
  /\ route.at = "my id"
  /\ \E answer \in Answers(setting[route.use].id, None) :
       Read(answer, [route EXCEPT !.mine.id = answer.value, !.at = "my model",
                                  !.custom = route.use = "embedding" /\ custom])
  /\ Unread

ReadMyModel ==
  /\ route.at = "my model"
  /\ \E answer \in Answers(setting[route.use].model, None) :
       Read(answer, [route EXCEPT !.mine.model = answer.value,
                                  !.at = IF route.use = "embedding" THEN "default id" ELSE "default model"])
  /\ Unread

ReadDefaultId ==
  /\ route.at = "default id"
  /\ \E answer \in Answers(default.id, None) :
       Read(answer, [route EXCEPT !.default.id = answer.value, !.at = "default model"])
  /\ Unread

ReadDefaultModel ==
  /\ route.at = "default model"
  /\ \E answer \in Answers(default.model, None) :
       Read(answer, [route EXCEPT !.default.model = answer.value,
                                  !.at = IF route.use = "chat" \/ route.again THEN "user" ELSE "build"])
  /\ Unread

(* buildRoute.                                                             *)
Build(id, model) == [id |-> id, model |-> FirstNonEmpty(model, route.list[id].model)]

(* Fault: the provider is looked for among the active ones only.           *)
FoundActive(id) == id \in DOMAIN route.list /\ route.list[id].active

(* findProvider.                                                           *)
Found(id) == id \in DOMAIN route.list

(* The end of ResolveChatRoute and ResolveEmbeddingRoute: the default, the *)
(* first active, the first.                                                *)
FallBack(model) ==
  LET active == {p \in DOMAIN route.list : route.list[p].active}
      pick == IF Found(route.default.id) THEN route.default.id
              ELSE IF active # {} THEN FirstOf(active, route.list)
              ELSE FirstOf(DOMAIN route.list, route.list)
  IN  Build(pick, model)

Done(result) == route' = [route EXCEPT !.at = "done", !.result = result]

(* ResolveChatRoute: the user's provider, with its model or the default.   *)
ChatRoute ==
  /\ route.at = "user"
  /\ \E answer \in Answers(assigned[route.user], NoPair) :
       LET mine == answer.value
           pick == IF Found(mine.id) THEN Build(mine.id, FirstNonEmpty(mine.model, route.default.model))
                   ELSE FallBack(route.default.model)
       IN  Read(answer, [route EXCEPT !.at = "done", !.result = pick])
  /\ Unread

(* ResolveSubtaskRoute and ResolveSelfCognitionSummaryRoute begin again as *)
(* a chat route when their own provider is not there.                      *)
UseRoute ==
  /\ route.at = "build" /\ route.use # "embedding"
  /\ IF Found(route.mine.id)
     THEN Done(Build(route.mine.id, FirstNonEmpty(route.mine.model, route.default.model)))
     ELSE route' = [route EXCEPT !.at = "list", !.again = TRUE]
  /\ UNCHANGED ops /\ Unread

(* ResolveEmbeddingRoute: a base URL of its own wants no provider.         *)
EmbeddingRoute ==
  /\ route.at = "build" /\ route.use = "embedding"
  /\ LET model == FirstNonEmpty(route.mine.model, route.default.model)
     IN  Done(IF route.custom THEN [id |-> None, model |-> model]
              ELSE IF Found(route.mine.id) THEN Build(route.mine.id, model)
              ELSE FallBack(model))
  /\ UNCHANGED ops /\ Unread

-----------------------------------------------------------------------------
Init ==
  /\ rows = [p \in {Seed} |-> [active |-> TRUE, priority |-> 1, born |-> 1, model |-> Seed]]
  /\ default = [id |-> Seed, model |-> Seed]
  /\ setting = [use \in Uses |-> IF use = "embedding" THEN default ELSE NoPair]
  /\ custom = FALSE
  /\ assigned = [u \in Users |-> NoPair]
  /\ admin = [a \in Admins |-> Idle]
  /\ route = NotAsked
  /\ ops = 0 /\ serial = TRUE /\ faulty = FALSE /\ booted = FALSE

Next ==
  \/ \E a \in Admins :
       \/ \E id \in Ids, active \in BOOLEAN : \E model \in Models(id) :
            \E priority \in 0 .. MaxPriority : \/ Create(a, id, model, active, priority)
                                              \/ Update(a, id, model, active, priority)
       \/ \E id \in Ids : Delete(a, id) \/ \E model \in Models(id) : Switch(a, id, model)
       \/ \E u \in Users : Unassign(a, u) \/ \E id \in Ids : \E model \in Models(id) : Choose(a, u, id, model)
       \/ \E use \in Uses, id \in Ids \cup {None}, base \in BOOLEAN : \E model \in Models(id) :
            /\ base => use = "embedding"
            /\ Choice(a, use, id, model, base)
       \/ Insert(a) \/ Rewrite(a) \/ DeleteRow(a) \/ Reelect(a) \/ Ensure(a) \/ Exists(a) \/ Elect(a)
       \/ Sync(a) \/ Assign(a) \/ Configure(a) \/ Fail(a)
  \/ Boot
  \/ \E use \in {"chat"} \cup Uses, u \in Users : Resolve(use, u)
  \/ List \/ ReadMyId \/ ReadMyModel \/ ReadDefaultId \/ ReadDefaultModel
  \/ ChatRoute \/ UseRoute \/ EmbeddingRoute

Spec == Init /\ [][Next]_vars

-----------------------------------------------------------------------------
(* Properties.                                                             *)

Quiet == \A a \in Admins : admin[a] = Idle
Active == {p \in DOMAIN rows : rows[p].active}

(* The tables and settings have their types; a user's provider exists,     *)
(* however an assignment and a deletion meet; providers have an order.     *)
TypeOK ==
  /\ DOMAIN rows \subseteq Ids
  /\ \A p \in DOMAIN rows :
       /\ rows[p] \in [active : BOOLEAN, priority : Nat \ {0}, born : Nat \ {0}, model : Models(p)]
       /\ \A q \in DOMAIN rows \ {p} : rows[p].born # rows[q].born
  /\ default \in Pair /\ setting \in [Uses -> Pair] /\ custom \in BOOLEAN
  /\ assigned \in [Users -> Pair]
  /\ \A u \in Users : assigned[u].id \in DOMAIN rows \cup {None}
  /\ route.default \in Pair /\ route.mine \in Pair /\ route.result \in Pair
  /\ ops \in 0 .. MaxOps /\ {serial, faulty, booted} \subseteq BOOLEAN

(* As long as requests come one after the other and no statement fails,    *)
(* whatever is created, changed, switched and deleted in whatever order,   *)
(* there is a default while there is a provider, and no other is active;   *)
(* after a restart brought the seed back, at least an active one.          *)
DefaultIsActive ==
  serial /\ ~faulty /\ Quiet /\ DOMAIN rows # {} =>
    /\ default.id \in DOMAIN rows \/ (booted /\ Active # {})
    /\ ~booted => Active \subseteq {default.id}

(* A resolution that reads the list and every setting apart is as good as  *)
(* one that read them at once, if nothing but the default changed while it *)
(* read: it follows the setting of the use, then that of the user, then a  *)
(* default of that time; and if not even the default changed, it has the   *)
(* provider and the model that the admin's page shows as effective.        *)
AssignedIsRouted ==
  route.at = "done" /\ route.calm /\ ~route.lapsed /\ route.list # <<>> /\ route.result.id # None =>
    LET defaults == {d.id : d \in route.defaults}
    IN  /\ route.result.id \in DOMAIN route.list
        /\ IF route.wanted.own THEN route.result.id = route.wanted.id
           ELSE route.result.id \in defaults \/ ~ defaults \subseteq DOMAIN route.list
        /\ Cardinality(route.defaults) = 1 /\ route.wanted.id \in DOMAIN route.list /\ route.wanted.model # None
             => route.result = [id |-> route.wanted.id, model |-> route.wanted.model]
=============================================================================
