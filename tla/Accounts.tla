------------------------------ MODULE Accounts ------------------------------
(* Signing in by a mailed code: the gateway's handlers for sending a code, *)
(* logging in, registering and opening a test session, over either store,  *)
(* each statement and the SMTP exchange a step of its own.                 *)
(*                                                                         *)
(* One e-mail address; the clock counts minutes and validities are whole   *)
(* minutes, which the text of the mail names as they are.  A code is the   *)
(* number of its mail: two random codes are taken to differ.  Signatures   *)
(* and expiry of tokens are left out: a token is the account it names.     *)
EXTENDS Naturals, Sequences, FiniteSets

CONSTANTS
  Clients,     \* requests served at the same time
  Cooldown,    \* emailSendCooldown
  TTLs,        \* email_code_ttl_seconds, as an admin may set it
  DefaultTTL,  \* when the setting is empty or cannot be read
  MaxClock,
  MaxOps       \* bound: requests, failures and restarts, together

ASSUME AccountsAssumption ==
  /\ Cooldown \in Nat /\ MaxClock \in Nat /\ MaxOps \in Nat
  /\ TTLs \subseteq Nat \ {0} /\ DefaultTTL \in TTLs

VARIABLES
  kind,      \* "memory" or "postgres": the store of the deployment
  clock,
  ttl,       \* the setting
  req,       \* the handlers
  mailed,    \* every mail with a code, in the order of sending
  codes,     \* email_codes; those of a purpose in the order of created_at
  table,     \* ids in the table users
  embedded,  \* ids in the in-memory store
  tokens,    \* ids that sessions were issued for
  ops,       \* what MaxOps bounds
  faulty     \* a statement failed or the process was restarted

accounts == <<table, embedded, tokens>>
vars == <<kind, clock, ttl, req, mailed, codes, accounts, ops, faulty>>

Purposes == {"login", "register"}
Idle == [at |-> "idle", kind |-> "none", purpose |-> "none", ttl |-> 0, code |-> 0, blind |-> FALSE]
Goes(c, next) == req' = [req EXCEPT ![c] = next]
Responds(c) == Goes(c, Idle)

Starts(c) == req[c] = Idle /\ ops < MaxOps /\ ops' = ops + 1 /\ UNCHANGED faulty
Works == UNCHANGED <<ops, faulty>>
Fails == ops < MaxOps /\ ops' = ops + 1 /\ faulty' = TRUE
QueryFails == kind = "postgres" /\ Fails

-----------------------------------------------------------------------------
(* The codes of the store.                                                 *)

(* Fault: ORDER BY created_at without DESC.                                *)
Earliest(key) ==
  LET open == {r \in DOMAIN codes : codes[r].purpose = key /\ ~codes[r].used}
  IN  IF open = {} THEN 0 ELSE CHOOSE r \in open : \A q \in open : r <= q

(* The row ValidateEmailCode and GetLatestEmailCode look at; 0 if none.    *)
Latest(key) ==
  LET open == {r \in DOMAIN codes : codes[r].purpose = key /\ ~codes[r].used}
  IN  IF open = {} THEN 0 ELSE CHOOSE r \in open : \A q \in open : q <= r

Validates(key, code) ==
  LET r == Latest(key) IN r # 0 /\ codes[r].code = code /\ clock <= codes[r].expires

Cooling(key) ==
  LET r == Latest(key)
  IN  r # 0 /\ codes[r].expires > clock /\ clock - codes[r].created < Cooldown

(* SaveEmailCode: a row more in Postgres; in memory the key has one entry, *)
(* which is overwritten.                                                   *)
Entry(key) == {r \in DOMAIN codes : kind = "memory" /\ codes[r].purpose = key}

SaveEmailCode(key, code, validity) ==
  LET row == [purpose |-> key, code |-> code, created |-> clock,
              expires |-> clock + validity, used |-> FALSE]
  IN  codes' = IF Entry(key) = {} THEN Append(codes, row)
               ELSE [r \in DOMAIN codes |-> IF r \in Entry(key) THEN row ELSE codes[r]]

-----------------------------------------------------------------------------
(* handleEmailSend.  The validity is read before the lock is waited for.   *)

Ask(c, purpose) ==
  /\ Starts(c)
  /\ Goes(c, [Idle EXCEPT !.at = "wait", !.purpose = purpose, !.ttl = ttl])
  /\ UNCHANGED <<kind, clock, ttl, mailed, codes, accounts>>

ForgetSetting(c) ==
  /\ req[c].at = "wait" /\ req[c].ttl # DefaultTTL
  /\ QueryFails
  /\ Goes(c, [req[c] EXCEPT !.ttl = DefaultTTL])
  /\ UNCHANGED <<kind, clock, ttl, mailed, codes, accounts>>

Locked == \E c \in Clients : req[c].at \in {"mail", "save"}

(* Under the lock: a code younger than the cooldown answers for this one.  *)
(* A query that fails finds none.                                          *)
Proceed(c) ==
  /\ req[c].at = "wait"
  /\ \/ Cooling(req[c].purpose) /\ Responds(c) /\ Works
     \/ ~Cooling(req[c].purpose) /\ Goes(c, [req[c] EXCEPT !.at = "mail"]) /\ Works
     \/ Cooling(req[c].purpose) /\ QueryFails /\ Goes(c, [req[c] EXCEPT !.at = "mail", !.blind = TRUE])
  /\ UNCHANGED <<kind, clock, ttl, mailed, codes, accounts>>

(* Fault: no emailSendMu.                                                  *)
EnterAlongside(c) == Proceed(c)

Enter(c) == ~Locked /\ Proceed(c)

(* SendVerificationCode.  An error may come before the server has taken    *)
(* the mail or, on closing, after.                                         *)
Post(c) ==
  mailed' = Append(mailed, [purpose |-> req[c].purpose, at |-> clock, ttl |-> req[c].ttl,
                            kept |-> FALSE, blind |-> req[c].blind])

Mail(c) ==
  /\ req[c].at = "mail"
  /\ \/ Post(c) /\ Goes(c, [req[c] EXCEPT !.at = "save", !.code = Len(mailed) + 1]) /\ Works
     \/ Post(c) /\ Responds(c) /\ Fails
     \/ UNCHANGED mailed /\ Responds(c) /\ Fails
  /\ UNCHANGED <<kind, clock, ttl, codes, accounts>>

(* An INSERT that fails is logged and the caller told of success.          *)
Save(c) ==
  /\ req[c].at = "save"
  /\ \/ /\ SaveEmailCode(req[c].purpose, req[c].code, req[c].ttl)
        /\ mailed' = [mailed EXCEPT ![req[c].code].kept = TRUE]
        /\ Works
     \/ QueryFails /\ UNCHANGED <<mailed, codes>>
  /\ Responds(c)
  /\ UNCHANGED <<kind, clock, ttl, accounts>>

-----------------------------------------------------------------------------
(* handleLogin, handleRegister and handleGatewayTestSession.               *)

Present(c, handler, code) ==
  /\ Starts(c)
  /\ Goes(c, [Idle EXCEPT !.at = "check", !.kind = handler, !.purpose = handler, !.code = code])
  /\ UNCHANGED <<kind, clock, ttl, mailed, codes, accounts>>

Login(c, code) == Present(c, "login", code)
Register(c, code) == Present(c, "register", code)

Rejects(c) ==
  IF req[c].kind = "login" /\ req[c].purpose = "login"
  THEN Goes(c, [req[c] EXCEPT !.purpose = "register"])
  ELSE Responds(c)

(* ValidateEmailCode: the SELECT, and in Postgres an UPDATE after it whose *)
(* failure nobody looks at.                                                *)
Check(c) ==
  /\ req[c].at = "check"
  /\ \/ /\ Validates(req[c].purpose, req[c].code)
        /\ Goes(c, [req[c] EXCEPT !.at = IF kind = "postgres" THEN "use" ELSE "account"])
        /\ Works
     \/ ~Validates(req[c].purpose, req[c].code) /\ Rejects(c) /\ Works
     \/ Validates(req[c].purpose, req[c].code) /\ QueryFails /\ Rejects(c)
  /\ UNCHANGED <<kind, clock, ttl, mailed, codes, accounts>>

Use(c) ==
  /\ req[c].at = "use"
  /\ \/ codes' = [r \in DOMAIN codes |->
                    IF codes[r].code = req[c].code THEN [codes[r] EXCEPT !.used = TRUE] ELSE codes[r]] /\ Works
     \/ UNCHANGED codes /\ Fails
  /\ Goes(c, [req[c] EXCEPT !.at = "account"])
  /\ UNCHANGED <<kind, clock, ttl, mailed, accounts>>

Issue(ids) == tokens' = tokens \cup ids

TestSession(c) ==
  /\ Starts(c)
  /\ Goes(c, [Idle EXCEPT !.at = "account", !.kind = "test"])
  /\ UNCHANGED <<kind, clock, ttl, mailed, codes, accounts>>

(* FindUserByEmail asks the embedded store when the query fails, and only  *)
(* then.                                                                   *)
Primary == IF kind = "postgres" THEN table ELSE embedded

Find(c) ==
  /\ req[c].at = "account" /\ req[c].kind # "register"
  /\ \E found \in {Primary, embedded} :
       /\ IF found = Primary THEN Works ELSE QueryFails
       /\ IF found # {} THEN Issue(found) /\ Responds(c)
          ELSE /\ IF req[c].kind = "test" THEN Goes(c, [req[c] EXCEPT !.at = "create"]) ELSE Responds(c)
               /\ UNCHANGED tokens
  /\ UNCHANGED <<kind, clock, ttl, mailed, codes, table, embedded>>

NewId == 1 + Cardinality(table \cup embedded \cup tokens)

(* The in-memory CreateUser refuses an address it knows.                   *)
CreateEmbedded ==
  /\ IF embedded # {} THEN UNCHANGED <<embedded, tokens>>
     ELSE embedded' = {NewId} /\ Issue({NewId})
  /\ UNCHANGED table

(* Fault: an address is not unique in the table.                           *)
CreateAnother ==
  table' = table \cup {NewId} /\ Issue({NewId}) /\ UNCHANGED embedded

(* The row, or the error of UNIQUE (email).                                *)
CreateRow ==
  /\ IF table # {} THEN UNCHANGED <<table, tokens>>
     ELSE table' = {NewId} /\ Issue({NewId})
  /\ UNCHANGED embedded

Create(c) ==
  /\ \/ req[c].at = "account" /\ req[c].kind = "register"
     \/ req[c].at = "create"
  /\ \/ kind = "memory" /\ CreateEmbedded /\ Works
     \/ kind = "postgres" /\ CreateRow /\ Works
     \/ QueryFails /\ CreateEmbedded
  /\ Responds(c)
  /\ UNCHANGED <<kind, clock, ttl, mailed, codes>>

(* authUserID: the account a token names is looked up on every request.    *)
SessionStands(id) == id \in Primary

-----------------------------------------------------------------------------
(* updateEmailAuthSettings, one transaction.                               *)
Configure(t) ==
  /\ ops < MaxOps /\ ops' = ops + 1
  /\ ttl # t /\ ttl' = t
  /\ UNCHANGED <<kind, clock, req, mailed, codes, accounts, faulty>>

(* The process starts anew: requests are cut off, memory is empty.         *)
Restart ==
  /\ Fails
  /\ req' = [c \in Clients |-> Idle]
  /\ embedded' = {}
  /\ IF kind = "postgres" THEN UNCHANGED <<codes, mailed>>
     ELSE /\ codes' = <<>>
          /\ mailed' = [i \in DOMAIN mailed |-> [mailed[i] EXCEPT !.kept = FALSE]]
  /\ UNCHANGED <<kind, clock, ttl, table, tokens>>

Tick ==
  /\ clock < MaxClock /\ clock' = clock + 1
  /\ UNCHANGED <<kind, ttl, req, mailed, codes, accounts, ops, faulty>>

Init ==
  /\ kind \in {"memory", "postgres"}
  /\ clock = 0 /\ ttl = DefaultTTL
  /\ req = [c \in Clients |-> Idle]
  /\ mailed = <<>> /\ codes = <<>>
  /\ table = {} /\ embedded = {} /\ tokens = {}
  /\ ops = 0 /\ faulty = FALSE

Handle(c) ==
  \/ \E purpose \in Purposes : Ask(c, purpose)
  \/ ForgetSetting(c) \/ Enter(c) \/ Mail(c) \/ Save(c)
  \/ \E code \in DOMAIN mailed : Login(c, code) \/ Register(c, code)
  \/ Check(c) \/ Use(c)
  \/ TestSession(c) \/ Find(c) \/ Create(c)

Next ==
  \/ \E c \in Clients : Handle(c)
  \/ \E t \in TTLs : Configure(t)
  \/ Restart
  \/ Tick

Spec == Init /\ [][Next]_vars

-----------------------------------------------------------------------------
Request ==
  [at : {"idle", "wait", "mail", "save", "check", "use", "account", "create"},
   kind : Purposes \cup {"none", "test"}, purpose : Purposes \cup {"none"},
   ttl : TTLs \cup {0}, code : Nat, blind : BOOLEAN]

(* The types; and what the stores and the handlers make of an address      *)
(* together: neither store has two accounts for it, the memory has one     *)
(* code per purpose, and as long as nothing fails every session that was   *)
(* issued names the one account there is, whoever registers, logs in or    *)
(* opens a test session at once (FindUserByEmail before CreateUser).       *)
TypeOK ==
  /\ kind \in {"memory", "postgres"} /\ clock \in 0 .. MaxClock /\ ttl \in TTLs
  /\ req \in [Clients -> Request]
  /\ mailed \in Seq([purpose : Purposes, at : 0 .. MaxClock, ttl : TTLs, kept : BOOLEAN, blind : BOOLEAN])
  /\ codes \in Seq([purpose : Purposes, code : DOMAIN mailed, created : 0 .. MaxClock,
                    expires : Nat, used : BOOLEAN])
  /\ Cardinality(table) <= 1 /\ Cardinality(embedded) <= 1
  /\ kind = "memory" => /\ table = {}
                        /\ \A q, r \in DOMAIN codes : q # r => codes[q].purpose # codes[r].purpose
  /\ ~faulty => /\ Cardinality(tokens) <= 1
                /\ \A id \in tokens : SessionStands(id)
  /\ ops \in 0 .. MaxOps /\ faulty \in BOOLEAN

Used(code) == \E r \in DOMAIN codes : codes[r].code = code /\ codes[r].used

(* Only the newest code of a purpose is asked for: one that was mailed     *)
(* because the query failed and that lives shorter than the cooldown hides *)
(* the one before it.                                                      *)
Hidden(i, j) ==
  \E k \in DOMAIN mailed : /\ i < k /\ k < j /\ mailed[k].purpose = mailed[i].purpose
                           /\ mailed[k].blind /\ mailed[k].ttl < Cooldown

(* Whatever clients ask for at once, two mails of one purpose are a        *)
(* cooldown apart, when the first one's code was saved, lives as long as   *)
(* the cooldown, is still unused and not hidden, and the query for it      *)
(* worked: the lock is held from the question to the save                  *)
(* (api/server.go:216).                                                    *)
CooldownHolds ==
  \A i, j \in DOMAIN mailed :
    /\ i < j /\ mailed[i].purpose = mailed[j].purpose
    /\ mailed[i].kept /\ mailed[i].ttl >= Cooldown /\ ~Used(i) /\ ~Hidden(i, j) /\ ~mailed[j].blind
    => mailed[j].at - mailed[i].at >= Cooldown

(* The code of the newest saved mail of a purpose is the one that lets its *)
(* reader in, for as long as the mail says, whatever was mailed, used,     *)
(* refused or configured before and since.                                 *)
LatestCodeWorks ==
  \A i \in DOMAIN mailed :
    /\ mailed[i].kept /\ ~Used(i) /\ clock <= mailed[i].at + mailed[i].ttl
    /\ \A j \in DOMAIN mailed : j > i /\ mailed[j].kept => mailed[j].purpose # mailed[i].purpose
    => Validates(mailed[i].purpose, i)
=============================================================================
