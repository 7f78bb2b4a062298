--------------------------- MODULE AccountsProofs ---------------------------
(***************************************************************************)
(* Theorems about Accounts, for every number of clients, every cooldown    *)
(* and all validities an admin may set, over either store.                 *)
(***************************************************************************)
EXTENDS Accounts, FiniteSetTheorems, TLAPS

-----------------------------------------------------------------------------
(* Requests: what the sending of a mail carries from step to step, and the *)
(* mutex.                                                                  *)

Sending(c) == req[c].at \in {"mail", "save"}

SendInv ==
  \A c \in Clients :
    /\ req[c].at \in {"wait", "mail", "save"} => req[c].purpose \in Purposes /\ req[c].ttl \in TTLs
    /\ req[c].at = "use" => kind = "postgres"
    /\ req[c].at = "save" =>
         /\ req[c].code = Len(mailed) /\ req[c].code \in DOMAIN mailed
         /\ mailed[req[c].code].purpose = req[c].purpose
         /\ mailed[req[c].code].ttl = req[c].ttl
         /\ ~mailed[req[c].code].kept

MutexInv == \A b, c \in Clients : Sending(b) /\ Sending(c) => b = c

(* Mails are in the order of time, rows belong to the saved mails of their    *)
(* purpose and lie in their order.                                         *)
RowOf(r) ==
  /\ mailed[codes[r].code].kept
  /\ mailed[codes[r].code].purpose = codes[r].purpose
  /\ mailed[codes[r].code].at <= codes[r].created
  /\ codes[r].created <= clock
  /\ codes[r].expires = codes[r].created + mailed[codes[r].code].ttl
  /\ codes[r].used => kind = "postgres"

(* Every saved mail has its row; in memory a newer one of its purpose may  *)
(* have taken its place.                                                   *)
RowFor(i) ==
  \E r \in DOMAIN codes : /\ codes[r].purpose = mailed[i].purpose
                          /\ i <= codes[r].code
                          /\ kind = "postgres" => codes[r].code = i

RowInv ==
  /\ \A i \in DOMAIN mailed : mailed[i].at <= clock
  /\ \A i, j \in DOMAIN mailed : i < j => mailed[i].at <= mailed[j].at
  /\ \A r \in DOMAIN codes : RowOf(r)
  /\ \A q, r \in DOMAIN codes :
       q < r /\ codes[q].purpose = codes[r].purpose =>
         codes[q].code < codes[r].code /\ codes[q].created <= codes[r].created
  /\ \A i \in DOMAIN mailed : mailed[i].kept => RowFor(i)

(* Who is about to mail, and could ask for the newest code, is a cooldown  *)
(* later than each mail that would hold it back.                           *)
Holds(i, j) ==
  mailed[i].kept /\ mailed[i].ttl >= Cooldown /\ ~Used(i) /\ ~Hidden(i, j)

LateInv ==
  \A c \in Clients :
    req[c].at = "mail" /\ ~req[c].blind =>
      \A i \in DOMAIN mailed :
        mailed[i].purpose = req[c].purpose /\ Holds(i, Len(mailed) + 1) =>
          clock - mailed[i].at >= Cooldown

(* One account in each store, and no session but for the account there is, *)
(* as long as nothing failed.                                              *)
AtMostOne(S) == \A x \in S : S = {x}

SessionInv ==
  /\ AtMostOne(table) /\ AtMostOne(embedded)
  /\ kind = "memory" => table = {}
  /\ ~faulty => tokens \subseteq Primary /\ (kind = "postgres" => embedded = {})

AccountInv == TypeOK /\ SendInv /\ MutexInv /\ SessionInv
CodeInv == RowInv /\ LateInv /\ CooldownHolds

-----------------------------------------------------------------------------
(* Sets and sequences.                                                     *)

(* A finite set of numbers that is not empty has a greatest element.       *)
LEMMA GreatestElement ==
  ASSUME NEW S \in SUBSET Nat, IsFiniteSet(S), S # {}
  PROVE  \E m \in S : \A x \in S : x <= m
  <1> DEFINE Above(m) == {x \in S : m < x}
             All == {Above(m) : m \in S}
  <1>1. All \subseteq FiniteSubsetsOf(S) /\ All # {}
    <2>1. FiniteSubsetsOf(S) = SUBSET S
      BY FS_FiniteSubsetsOfFinite
    <2>2. All \subseteq SUBSET S /\ All # {}
      OBVIOUS
    <2>3. QED
      BY <2>1, <2>2
  <1>2. IsWellFoundedOn(StrictSubsetOrdering(S), FiniteSubsetsOf(S))
    BY FS_StrictSubsetOrderingWellFounded
  <1>3. PICK T \in All : \A U \in All : <<U, T>> \notin StrictSubsetOrdering(S)
    <2> HIDE DEF All
    <2>1. QED
      BY <1>1, <1>2, WFMin
  <1>4. PICK m \in S : T = Above(m)
    BY <1>3
  <1>5. ASSUME NEW x \in S, ~(x <= m) PROVE FALSE
    <2>1. m \in Nat /\ x \in Nat /\ m < x /\ \A y \in S : y \in Nat
      BY <1>5
    <2>2. Above(x) \subseteq Above(m) /\ x \in Above(m) /\ x \notin Above(x)
      <3>1. \A y \in S : x < y => m < y
        BY <2>1
      <3>2. ~(x < x) /\ x \in S
        BY <2>1
      <3>3. QED
        BY <2>1, <3>1, <3>2
    <2>3. <<Above(x), Above(m)>> \in StrictSubsetOrdering(S)
      BY <2>2 DEF StrictSubsetOrdering
    <2>4. QED
      BY <1>3, <1>4, <2>3
  <1>6. QED
    BY <1>5

LEMMA AtMostOneCounts ==
  ASSUME NEW S, AtMostOne(S)
  PROVE  IsFiniteSet(S) /\ Cardinality(S) <= 1
  <1>1. CASE S = {}
    BY <1>1, FS_EmptySet
  <1>2. CASE S # {}
    <2>1. PICK x : S = {x}
      BY <1>2 DEF AtMostOne
    <2>2. IsFiniteSet({x}) /\ Cardinality({x}) = 1
      BY FS_Singleton
    <2>3. QED
      BY <2>1, <2>2
  <1>3. QED
    BY <1>1, <1>2

LEMMA AtMostOneOfSubset ==
  ASSUME NEW S, AtMostOne(S), NEW T \in SUBSET S
  PROVE  AtMostOne(T)
  BY DEF AtMostOne

(* The bounds and elements of the two lists.                               *)
MailRecord == [purpose : Purposes, at : 0 .. MaxClock, ttl : TTLs, kept : BOOLEAN, blind : BOOLEAN]
RowRecord == [purpose : Purposes, code : DOMAIN mailed, created : 0 .. MaxClock,
              expires : Nat, used : BOOLEAN]

LEMMA ListTypes ==
  ASSUME TypeOK
  PROVE  /\ Len(mailed) \in Nat /\ DOMAIN mailed = 1 .. Len(mailed)
         /\ \A i \in DOMAIN mailed :
              /\ mailed[i] \in MailRecord
              /\ mailed[i].purpose \in Purposes /\ mailed[i].at \in Nat /\ mailed[i].ttl \in Nat
         /\ Len(codes) \in Nat /\ DOMAIN codes = 1 .. Len(codes)
         /\ \A r \in DOMAIN codes :
              /\ codes[r] \in RowRecord
              /\ codes[r].purpose \in Purposes /\ codes[r].code \in DOMAIN mailed
              /\ codes[r].created \in Nat /\ codes[r].expires \in Nat /\ codes[r].used \in BOOLEAN
         /\ clock \in Nat /\ Cooldown \in Nat
  <1>1. /\ Len(mailed) \in Nat /\ DOMAIN mailed = 1 .. Len(mailed)
        /\ \A i \in DOMAIN mailed : mailed[i] \in MailRecord
    <2>1. PICK M : M = MailRecord
      OBVIOUS
    <2>2. mailed \in Seq(M)
      BY <2>1 DEF TypeOK, MailRecord
    <2>3. QED
      BY <2>1, <2>2
  <1>2. /\ Len(codes) \in Nat /\ DOMAIN codes = 1 .. Len(codes)
        /\ \A r \in DOMAIN codes : codes[r] \in RowRecord
    <2>1. PICK R : R = RowRecord
      OBVIOUS
    <2>2. codes \in Seq(R)
      BY <2>1 DEF TypeOK, RowRecord
    <2>3. QED
      BY <2>1, <2>2
  <1>3. \A i \in DOMAIN mailed :
          mailed[i].purpose \in Purposes /\ mailed[i].at \in Nat /\ mailed[i].ttl \in Nat
    <2>1. TTLs \subseteq Nat /\ 0 .. MaxClock \subseteq Nat
      BY AccountsAssumption
    <2>2. ASSUME NEW x \in MailRecord PROVE x.purpose \in Purposes /\ x.at \in Nat /\ x.ttl \in Nat
      BY <2>1 DEF MailRecord
    <2>3. QED
      BY <1>1, <2>2
  <1>4. \A r \in DOMAIN codes :
          /\ codes[r].purpose \in Purposes /\ codes[r].code \in DOMAIN mailed
          /\ codes[r].created \in Nat /\ codes[r].expires \in Nat /\ codes[r].used \in BOOLEAN
    BY <1>2 DEF RowRecord
  <1>5. clock \in Nat /\ Cooldown \in Nat
    BY AccountsAssumption DEF TypeOK
  <1>6. QED
    BY <1>1, <1>2, <1>3, <1>4, <1>5

(* The row asked for is the last unused one of its purpose.                *)
Open(key) == {r \in DOMAIN codes : codes[r].purpose = key /\ ~codes[r].used}

LEMMA LatestIsLast ==
  ASSUME TypeOK, NEW key
  PROVE  IF Open(key) = {} THEN Latest(key) = 0
         ELSE Latest(key) \in Open(key) /\ \A q \in Open(key) : q <= Latest(key)
  <1>1. CASE Open(key) = {}
    BY <1>1 DEF Open, Latest
  <1>2. CASE Open(key) # {}
    <2>1. Open(key) \in SUBSET (1 .. Len(codes)) /\ Len(codes) \in Nat
      BY ListTypes DEF Open
    <2>2. IsFiniteSet(Open(key))
      <3>1. IsFiniteSet(1 .. Len(codes))
        BY <2>1, FS_Interval
      <3>2. QED
        BY <2>1, <3>1, FS_Subset
    <2>3. Open(key) \in SUBSET Nat
      BY <2>1
    <2>4. \E m \in Open(key) : \A x \in Open(key) : x <= m
      BY <1>2, <2>2, <2>3, GreatestElement
    <2>5. Latest(key) = CHOOSE r \in Open(key) : \A q \in Open(key) : q <= r
      BY <1>2 DEF Open, Latest
    <2>6. QED
      BY <1>2, <2>4, <2>5
  <1>3. QED
    BY <1>1, <1>2

-----------------------------------------------------------------------------
(* What the steps have in common.                                          *)

LEMMA IdleType == Idle \in Request
  BY DEF Idle, Request, Purposes

LEMMA RequestTypes ==
  ASSUME TypeOK, NEW c \in Clients
  PROVE  /\ req[c] \in Request
         /\ req[c].at \in {"idle", "wait", "mail", "save", "check", "use", "account", "create"}
         /\ req[c].kind \in Purposes \cup {"none", "test"}
         /\ req[c].purpose \in Purposes \cup {"none"} /\ req[c].ttl \in TTLs \cup {0}
         /\ req[c].code \in Nat /\ req[c].blind \in BOOLEAN
  <1>1. req[c] \in Request
    BY DEF TypeOK
  <1>2. QED
    BY <1>1 DEF Request

LEMMA GoesStep ==
  ASSUME TypeOK, NEW c \in Clients, NEW next \in Request, Goes(c, next)
  PROVE  /\ req' \in [Clients -> Request]
         /\ req'[c] = next
         /\ \A d \in Clients \ {c} : req'[d] = req[d]
  BY DEF Goes, TypeOK

LEMMA OpsStep ==
  ASSUME TypeOK, NEW c \in Clients, Works \/ Fails \/ Starts(c)
  PROVE  ops' \in 0 .. MaxOps /\ faulty' \in BOOLEAN /\ (faulty => faulty')
  <1>1. ops \in 0 .. MaxOps /\ faulty \in BOOLEAN /\ MaxOps \in Nat
    BY AccountsAssumption DEF TypeOK
  <1>2. CASE Works
    BY <1>1, <1>2 DEF Works
  <1>3. CASE Fails
    BY <1>1, <1>3 DEF Fails
  <1>4. CASE Starts(c)
    BY <1>1, <1>4 DEF Starts
  <1>5. QED
    BY <1>2, <1>3, <1>4

(* A step of a request that mails nothing: it may take the mutex only when *)
(* it is free.                                                             *)
LEMMA RequestStep ==
  ASSUME AccountInv, NEW c \in Clients, NEW next \in Request, Goes(c, next),
         UNCHANGED <<kind, mailed>>,
         next.at \in {"wait", "mail"} => next.purpose \in Purposes /\ next.ttl \in TTLs,
         next.at = "use" => kind = "postgres",
         next.at = "mail" => ~Locked,
         next.at # "save"
  PROVE  req' \in [Clients -> Request] /\ SendInv' /\ MutexInv'
  <1>1. /\ req' \in [Clients -> Request]
        /\ req'[c] = next
        /\ \A d \in Clients \ {c} : req'[d] = req[d]
    BY GoesStep DEF AccountInv
  <1>2. SendInv'
    BY <1>1 DEF AccountInv, SendInv
  <1>3. MutexInv'
    BY <1>1 DEF AccountInv, MutexInv, Sending, Locked
  <1>4. QED
    BY <1>1, <1>2, <1>3

(* A step of the request that has the mutex.                               *)
LEMMA SenderStep ==
  ASSUME AccountInv, NEW c \in Clients, NEW next \in Request, Goes(c, next),
         UNCHANGED kind, Sending(c), next.at \in {"idle", "save"},
         next.at = "save" =>
           /\ next.purpose \in Purposes /\ next.ttl \in TTLs
           /\ next.code = Len(mailed') /\ next.code \in DOMAIN mailed'
           /\ mailed'[next.code].purpose = next.purpose
           /\ mailed'[next.code].ttl = next.ttl
           /\ ~mailed'[next.code].kept
  PROVE  req' \in [Clients -> Request] /\ SendInv' /\ MutexInv'
  <1>1. /\ req' \in [Clients -> Request]
        /\ req'[c] = next
        /\ \A d \in Clients \ {c} : req'[d] = req[d]
    BY GoesStep DEF AccountInv
  <1>2. \A d \in Clients \ {c} : req[d].at # "save" /\ req[d].at # "mail"
    BY DEF AccountInv, MutexInv, Sending
  <1>3. SendInv'
    BY <1>1, <1>2 DEF AccountInv, SendInv
  <1>4. MutexInv'
    BY <1>1, <1>2 DEF AccountInv, MutexInv, Sending
  <1>5. QED
    BY <1>1, <1>3, <1>4

LEMMA SessionStep ==
  ASSUME SessionInv, UNCHANGED <<kind, accounts>>, faulty => faulty'
  PROVE  SessionInv'
  BY DEF SessionInv, accounts, AtMostOne, Primary

(* The part of TypeOK that SessionInv implies.                             *)
LEMMA SessionsCount ==
  ASSUME SessionInv'
  PROVE  /\ Cardinality(table') <= 1 /\ Cardinality(embedded') <= 1
         /\ kind' = "memory" => table' = {}
         /\ ~faulty' => /\ Cardinality(tokens') <= 1
                        /\ \A id \in tokens' : SessionStands(id)'
  <1>1. AtMostOne(table') /\ AtMostOne(embedded') /\ (kind' = "memory" => table' = {})
    BY DEF SessionInv, AtMostOne
  <1>2. Cardinality(table') <= 1 /\ Cardinality(embedded') <= 1
    BY <1>1, AtMostOneCounts
  <1>3. ASSUME ~faulty'
        PROVE  Cardinality(tokens') <= 1 /\ \A id \in tokens' : SessionStands(id)'
    <2>1. tokens' \subseteq Primary'
      BY <1>3 DEF SessionInv
    <2>2. AtMostOne(Primary')
      BY <1>1 DEF Primary
    <2>3. AtMostOne(tokens')
      BY <2>1, <2>2, AtMostOneOfSubset
    <2>4. QED
      BY <2>1, <2>3, AtMostOneCounts DEF SessionStands
  <1>4. QED
    BY <1>1, <1>2, <1>3

(* TypeOK after a step that changes neither codes nor mails.               *)
LEMMA TypeStep ==
  ASSUME TypeOK, SessionInv', UNCHANGED <<kind, mailed, codes>>,
         clock' \in 0 .. MaxClock, ttl' \in TTLs, req' \in [Clients -> Request],
         ops' \in 0 .. MaxOps, faulty' \in BOOLEAN
  PROVE  TypeOK'
  BY SessionsCount DEF TypeOK

(* A step of a request that leaves codes, mails and accounts alone.        *)
LEMMA PlainStep ==
  ASSUME AccountInv, NEW c \in Clients, NEW next \in Request, Goes(c, next),
         UNCHANGED <<kind, clock, ttl, mailed, codes, accounts>>,
         Works \/ Fails \/ Starts(c),
         next.at \in {"wait", "mail"} => next.purpose \in Purposes /\ next.ttl \in TTLs,
         next.at = "use" => kind = "postgres",
         next.at = "mail" => ~Locked,
         next.at # "save"
  PROVE  AccountInv'
  <1>1. req' \in [Clients -> Request] /\ SendInv' /\ MutexInv'
    BY RequestStep
  <1>2. ops' \in 0 .. MaxOps /\ faulty' \in BOOLEAN /\ (faulty => faulty')
    BY OpsStep DEF AccountInv
  <1>3. SessionInv'
    BY <1>2, SessionStep DEF AccountInv
  <1>4. clock' \in 0 .. MaxClock /\ ttl' \in TTLs
    BY DEF AccountInv, TypeOK
  <1>5. TypeOK'
    BY <1>1, <1>2, <1>3, <1>4, TypeStep DEF AccountInv
  <1>6. QED
    BY <1>1, <1>3, <1>5 DEF AccountInv

-----------------------------------------------------------------------------
(* The steps that mail, save and use a code.                               *)

LEMMA ListOf ==
  ASSUME NEW R, NEW n \in Nat, NEW f \in [1 .. n -> R]
  PROVE  f \in Seq(R)
  OBVIOUS

NewMail(c) == [purpose |-> req[c].purpose, at |-> clock, ttl |-> req[c].ttl,
               kept |-> FALSE, blind |-> req[c].blind]

LEMMA PostStep ==
  ASSUME TypeOK, NEW c \in Clients, Post(c), req[c].purpose \in Purposes, req[c].ttl \in TTLs
  PROVE  /\ mailed' \in Seq(MailRecord)
         /\ Len(mailed') = Len(mailed) + 1 /\ DOMAIN mailed' = 1 .. (Len(mailed) + 1)
         /\ mailed'[Len(mailed) + 1] = NewMail(c)
         /\ \A i \in DOMAIN mailed : mailed'[i] = mailed[i]
  <1>1. PICK mail : mail = NewMail(c)
    OBVIOUS
  <1>2. mail \in MailRecord
    BY <1>1, RequestTypes DEF NewMail, MailRecord, TypeOK
  <1>3. mailed' = Append(mailed, mail)
    BY <1>1 DEF Post, NewMail
  <1>4. PICK M : M = MailRecord
    OBVIOUS
  <1>5. mailed \in Seq(M) /\ mail \in M
    BY <1>2, <1>4 DEF TypeOK, MailRecord
  <1>6. QED
    BY <1>1, <1>3, <1>4, <1>5

NewRow(key, code, validity) ==
  [purpose |-> key, code |-> code, created |-> clock, expires |-> clock + validity, used |-> FALSE]

LEMMA SaveStep ==
  ASSUME TypeOK, NEW key \in Purposes, NEW code \in DOMAIN mailed, NEW validity \in Nat,
         SaveEmailCode(key, code, validity)
  PROVE  /\ codes' \in Seq(RowRecord)
         /\ \/ /\ Entry(key) = {}
               /\ DOMAIN codes' = 1 .. (Len(codes) + 1)
               /\ codes'[Len(codes) + 1] = NewRow(key, code, validity)
               /\ \A r \in DOMAIN codes : codes'[r] = codes[r]
            \/ /\ kind = "memory"
               /\ DOMAIN codes' = DOMAIN codes
               /\ \E r \in Entry(key) :
                    /\ codes'[r] = NewRow(key, code, validity)
                    /\ \A q \in DOMAIN codes \ {r} : codes'[q] = codes[q]
  <1>1. PICK row : row = NewRow(key, code, validity)
    OBVIOUS
  <1>2. PICK R : R = RowRecord
    OBVIOUS
  <1>3. clock + validity \in Nat
    BY ListTypes
  <1>4. row \in R
    BY <1>1, <1>2, <1>3 DEF NewRow, RowRecord, TypeOK
  <1>5. codes \in Seq(R)
    BY <1>2 DEF TypeOK, RowRecord
  <1>6. CASE Entry(key) = {}
    <2>1. codes' = Append(codes, row)
      BY <1>1, <1>6 DEF SaveEmailCode, NewRow
    <2>2. QED
      BY <1>1, <1>2, <1>4, <1>5, <1>6, <2>1
  <1>7. CASE Entry(key) # {}
    <2>1. codes' = [r \in DOMAIN codes |-> IF r \in Entry(key) THEN row ELSE codes[r]]
      BY <1>1, <1>7 DEF SaveEmailCode, NewRow
    <2>2. PICK r \in Entry(key) : TRUE
      BY <1>7
    <2>3. kind = "memory" /\ r \in DOMAIN codes /\ codes[r].purpose = key
      BY <2>2 DEF Entry
    <2>4. \A q \in Entry(key) : q = r
      BY <2>3 DEF Entry, TypeOK
    <2>5. codes' \in [1 .. Len(codes) -> R] /\ Len(codes) \in Nat
      BY <1>4, <1>5, <2>1
    <2>6. codes' \in Seq(R)
      BY <2>5, ListOf
    <2>7. codes'[r] = row /\ \A q \in DOMAIN codes \ {r} : codes'[q] = codes[q]
      BY <2>1, <2>2, <2>3, <2>4
    <2>8. QED
      BY <1>1, <1>2, <2>1, <2>2, <2>3, <2>6, <2>7
  <1>8. QED
    BY <1>6, <1>7

(* The new row comes after the others of its purpose, or replaces the one  *)
(* of its purpose.                                                         *)
LEMMA SavedRow ==
  ASSUME TypeOK, NEW key \in Purposes, NEW code \in DOMAIN mailed, NEW validity \in Nat,
         SaveEmailCode(key, code, validity)
  PROVE  \E e \in DOMAIN codes' :
           /\ e \in Nat /\ codes'[e] = NewRow(key, code, validity)
           /\ \A r \in DOMAIN codes' \ {e} : r \in DOMAIN codes /\ codes'[r] = codes[r]
           /\ \A r \in DOMAIN codes \ {e} : r \in DOMAIN codes'
           /\ e \in DOMAIN codes => kind = "memory" /\ codes[e].purpose = key
           /\ \A r \in DOMAIN codes \ {e} : codes[r].purpose = key => r < e
  <1>1. Len(codes) \in Nat /\ DOMAIN codes = 1 .. Len(codes)
    BY ListTypes
  <1>2. CASE /\ DOMAIN codes' = 1 .. (Len(codes) + 1)
             /\ codes'[Len(codes) + 1] = NewRow(key, code, validity)
             /\ \A r \in DOMAIN codes : codes'[r] = codes[r]
    <2>1. Len(codes) + 1 \in DOMAIN codes' /\ Len(codes) + 1 \in Nat /\ Len(codes) + 1 \notin DOMAIN codes
      BY <1>1, <1>2
    <2>2. \A r \in DOMAIN codes : r < Len(codes) + 1 /\ r \in DOMAIN codes'
      BY <1>1, <1>2
    <2>3. \A r \in DOMAIN codes' \ {Len(codes) + 1} : r \in DOMAIN codes /\ codes'[r] = codes[r]
      BY <1>1, <1>2
    <2>4. QED
      BY <1>2, <2>1, <2>2, <2>3
  <1>3. ASSUME kind = "memory", DOMAIN codes' = DOMAIN codes, NEW e \in Entry(key),
               codes'[e] = NewRow(key, code, validity),
               \A q \in DOMAIN codes \ {e} : codes'[q] = codes[q]
        PROVE  /\ e \in DOMAIN codes' /\ e \in Nat /\ codes[e].purpose = key
               /\ \A r \in DOMAIN codes \ {e} : codes[r].purpose # key
    <2>1. e \in DOMAIN codes /\ codes[e].purpose = key
      BY DEF Entry
    <2>2. \A r \in DOMAIN codes \ {e} : codes[r].purpose # key
      BY <1>3, <2>1 DEF TypeOK
    <2>3. QED
      BY <1>1, <1>3, <2>1, <2>2
  <1>4. QED
    BY <1>2, <1>3, SaveStep

LEMMA UseStep ==
  ASSUME TypeOK, NEW c \in Clients, Use(c)
  PROVE  /\ codes' \in Seq(RowRecord)
         /\ DOMAIN codes' = DOMAIN codes
         /\ \A r \in DOMAIN codes :
              \/ codes'[r] = codes[r]
              \/ codes'[r] = [codes[r] EXCEPT !.used = TRUE]
  <1>1. PICK R : R = RowRecord
    OBVIOUS
  <1>2. codes \in Seq(R)
    BY <1>1 DEF TypeOK, RowRecord
  <1>3. CASE UNCHANGED codes
    BY <1>1, <1>2, <1>3
  <1>4. CASE codes' = [r \in DOMAIN codes |->
                         IF codes[r].code = req[c].code THEN [codes[r] EXCEPT !.used = TRUE]
                         ELSE codes[r]]
    <2>1. \A x \in R : [x EXCEPT !.used = TRUE] \in R
      BY <1>1 DEF RowRecord
    <2>2. codes' \in [1 .. Len(codes) -> R] /\ Len(codes) \in Nat
      BY <1>2, <1>4, <2>1
    <2>3. codes' \in Seq(R)
      BY <2>2, ListOf
    <2>4. QED
      BY <1>1, <1>4, <2>3
  <1>5. QED
    BY <1>3, <1>4 DEF Use

-----------------------------------------------------------------------------
(* TypeOK, with what its accounts and its mutex rest on, is inductive.     *)

LEMMA InitAccount == Init => AccountInv
  <1> SUFFICES ASSUME Init PROVE AccountInv
    OBVIOUS
  <1>1. \A c \in Clients : req[c] = Idle
    BY DEF Init
  <1>2. SendInv /\ MutexInv
    BY <1>1 DEF SendInv, MutexInv, Sending, Idle
  <1>3. SessionInv
    BY DEF Init, SessionInv, AtMostOne, Primary
  <1>4. req \in [Clients -> Request] /\ 0 \in 0 .. MaxClock /\ 0 \in 0 .. MaxOps
    BY IdleType, AccountsAssumption DEF Init
  <1>5. Cardinality({}) = 0
    BY FS_EmptySet
  <1>6. mailed \in Seq(MailRecord) /\ codes \in Seq(RowRecord) /\ DOMAIN codes = {}
    BY DEF Init
  <1>7. TypeOK
    <2>1. /\ kind \in {"memory", "postgres"} /\ clock \in 0 .. MaxClock /\ ttl \in TTLs
          /\ ops \in 0 .. MaxOps /\ faulty \in BOOLEAN
      BY <1>4, AccountsAssumption DEF Init
    <2>2. Cardinality(table) <= 1 /\ Cardinality(embedded) <= 1 /\ Cardinality(tokens) <= 1
      BY <1>5 DEF Init
    <2>3. table = {} /\ tokens = {}
      BY DEF Init
    <2>4. QED
      BY <1>4, <1>6, <2>1, <2>2, <2>3 DEF TypeOK, MailRecord, RowRecord
  <1>8. QED
    BY <1>2, <1>3, <1>7 DEF AccountInv

LEMMA MailAccount ==
  ASSUME AccountInv, NEW c \in Clients, Mail(c)
  PROVE  AccountInv'
  <1>1. /\ req[c].at = "mail" /\ Sending(c)
        /\ req[c].purpose \in Purposes /\ req[c].ttl \in TTLs
    BY DEF Mail, AccountInv, SendInv, Sending
  <1>2. Works \/ Fails
    BY DEF Mail
  <1>3. ops' \in 0 .. MaxOps /\ faulty' \in BOOLEAN /\ (faulty => faulty')
    BY <1>2, OpsStep DEF AccountInv
  <1>4. SessionInv'
    BY <1>3, SessionStep DEF AccountInv, Mail
  <1>5. CASE Post(c)
    <2>1. /\ mailed' \in Seq(MailRecord)
          /\ Len(mailed') = Len(mailed) + 1 /\ DOMAIN mailed' = 1 .. (Len(mailed) + 1)
          /\ mailed'[Len(mailed) + 1] = NewMail(c)
          /\ \A i \in DOMAIN mailed : mailed'[i] = mailed[i]
      BY <1>1, <1>5, PostStep DEF AccountInv
    <2>2. Len(mailed) \in Nat /\ DOMAIN mailed = 1 .. Len(mailed)
      BY ListTypes DEF AccountInv
    <2>3. \E next \in Request :
            /\ Goes(c, next)
            /\ \/ next = Idle
               \/ /\ next.at = "save" /\ next.code = Len(mailed) + 1
                  /\ next.purpose = req[c].purpose /\ next.ttl = req[c].ttl
      <3>1. req[c] \in Request
        BY RequestTypes DEF AccountInv
      <3>2. [req[c] EXCEPT !.at = "save", !.code = Len(mailed) + 1] \in Request
        <4>1. ASSUME NEW x \in Request, NEW n \in Nat
              PROVE  [x EXCEPT !.at = "save", !.code = n] \in Request
          BY DEF Request
        <4>2. Len(mailed) + 1 \in Nat
          BY <2>2
        <4>3. QED
          BY <3>1, <4>1, <4>2
      <3>3. [req[c] EXCEPT !.at = "save", !.code = Len(mailed) + 1].at = "save"
        BY <3>1 DEF Request
      <3>4. /\ [req[c] EXCEPT !.at = "save", !.code = Len(mailed) + 1].code = Len(mailed) + 1
            /\ [req[c] EXCEPT !.at = "save", !.code = Len(mailed) + 1].purpose = req[c].purpose
            /\ [req[c] EXCEPT !.at = "save", !.code = Len(mailed) + 1].ttl = req[c].ttl
        BY <3>1 DEF Request
      <3>5. \/ Goes(c, [req[c] EXCEPT !.at = "save", !.code = Len(mailed) + 1])
            \/ Goes(c, Idle)
        BY <1>5 DEF Mail, Responds
      <3>6. QED
        BY <3>2, <3>3, <3>4, <3>5, IdleType
    <2>4. req' \in [Clients -> Request] /\ SendInv' /\ MutexInv'
      <3>1. PICK next \in Request :
              /\ Goes(c, next)
              /\ \/ next = Idle
                 \/ /\ next.at = "save" /\ next.code = Len(mailed) + 1
                    /\ next.purpose = req[c].purpose /\ next.ttl = req[c].ttl
        BY <2>3
      <3>2. /\ mailed'[Len(mailed) + 1].purpose = req[c].purpose
            /\ mailed'[Len(mailed) + 1].ttl = req[c].ttl
            /\ ~mailed'[Len(mailed) + 1].kept
        BY <2>1 DEF NewMail
      <3>3. next.at \in {"idle", "save"} /\ UNCHANGED kind
        BY <3>1 DEF Idle, Mail
      <3>4. next.at = "save" =>
              /\ next.purpose \in Purposes /\ next.ttl \in TTLs
              /\ next.code = Len(mailed') /\ next.code \in DOMAIN mailed'
              /\ mailed'[next.code].purpose = next.purpose
              /\ mailed'[next.code].ttl = next.ttl
              /\ ~mailed'[next.code].kept
        BY <1>1, <2>1, <2>2, <3>1, <3>2 DEF Idle
      <3>5. QED
        BY <1>1, <3>1, <3>3, <3>4, SenderStep
    <2>5. codes' \in Seq(RowRecord')
      <3>1. codes' = codes /\ Len(codes) \in Nat /\ DOMAIN codes = 1 .. Len(codes)
        BY ListTypes DEF Mail, AccountInv
      <3>2. DOMAIN mailed \subseteq DOMAIN mailed'
        BY <2>1, <2>2
      <3>3. \A r \in DOMAIN codes : codes[r] \in RowRecord'
        <4>1. \A r \in DOMAIN codes : codes[r] \in RowRecord
          BY ListTypes DEF AccountInv
        <4>2. QED
          BY <3>2, <4>1 DEF RowRecord
      <3>4. codes = [r \in 1 .. Len(codes) |-> codes[r]]
        BY DEF AccountInv, TypeOK
      <3>5. PICK R : R = RowRecord'
        OBVIOUS
      <3>6. codes \in [1 .. Len(codes) -> R]
        BY <3>1, <3>3, <3>4, <3>5
      <3>7. QED
        BY <3>1, <3>5, <3>6, ListOf
    <2>6. TypeOK'
      BY <1>3, <1>4, <2>1, <2>4, <2>5, SessionsCount
      DEF AccountInv, TypeOK, Mail, MailRecord, RowRecord
    <2>7. QED
      BY <1>4, <2>4, <2>6 DEF AccountInv
  <1>6. CASE ~Post(c)
    <2>1. Goes(c, Idle) /\ UNCHANGED <<kind, clock, ttl, mailed, codes, accounts>>
      BY <1>6 DEF Mail, Responds
    <2>2. Idle.at = "idle"
      BY DEF Idle
    <2>3. QED
      BY <1>2, <2>1, <2>2, IdleType, PlainStep
  <1>7. QED
    BY <1>5, <1>6

LEMMA SaveAccount ==
  ASSUME AccountInv, NEW c \in Clients, Save(c)
  PROVE  AccountInv'
  <1>1. /\ req[c].at = "save" /\ Sending(c)
        /\ req[c].purpose \in Purposes /\ req[c].ttl \in TTLs
        /\ req[c].code \in DOMAIN mailed
    BY DEF Save, AccountInv, SendInv, Sending
  <1>2. Works \/ Fails
    BY DEF Save, QueryFails
  <1>3. ops' \in 0 .. MaxOps /\ faulty' \in BOOLEAN /\ (faulty => faulty')
    BY <1>2, OpsStep DEF AccountInv
  <1>4. SessionInv'
    BY <1>3, SessionStep DEF AccountInv, Save
  <1>5. Goes(c, Idle) /\ Idle.at = "idle" /\ UNCHANGED <<kind, clock, ttl, accounts>>
    BY DEF Save, Responds, Idle
  <1>6. CASE SaveEmailCode(req[c].purpose, req[c].code, req[c].ttl)
             /\ mailed' = [mailed EXCEPT ![req[c].code].kept = TRUE]
    <2>1. req' \in [Clients -> Request] /\ SendInv' /\ MutexInv'
      BY <1>1, <1>5, IdleType, SenderStep
    <2>2. req[c].ttl \in Nat
      BY <1>1, AccountsAssumption
    <2>3. /\ codes' \in Seq(RowRecord)
          /\ \/ /\ Entry(req[c].purpose) = {}
                /\ DOMAIN codes' = 1 .. (Len(codes) + 1)
                /\ codes'[Len(codes) + 1] = NewRow(req[c].purpose, req[c].code, req[c].ttl)
                /\ \A r \in DOMAIN codes : codes'[r] = codes[r]
             \/ /\ kind = "memory"
                /\ DOMAIN codes' = DOMAIN codes
                /\ \E r \in Entry(req[c].purpose) :
                     /\ codes'[r] = NewRow(req[c].purpose, req[c].code, req[c].ttl)
                     /\ \A q \in DOMAIN codes \ {r} : codes'[q] = codes[q]
      BY <1>1, <1>6, <2>2, SaveStep DEF AccountInv
    <2>4. mailed' \in Seq(MailRecord) /\ DOMAIN mailed' = DOMAIN mailed
      <3>1. PICK M : M = MailRecord
        OBVIOUS
      <3>2. mailed \in Seq(M)
        BY <3>1 DEF AccountInv, TypeOK, MailRecord
      <3>3. \A x \in M : [x EXCEPT !.kept = TRUE] \in M
        BY <3>1 DEF MailRecord
      <3>4. QED
        BY <1>1, <1>6, <3>1, <3>2, <3>3
    <2>5. codes' \in Seq(RowRecord')
      <3>1. RowRecord' = RowRecord
        BY <2>4 DEF RowRecord
      <3>2. QED
        BY <2>3, <3>1
    <2>6. kind = "memory" =>
            \A q, r \in DOMAIN codes' : q # r => codes'[q].purpose # codes'[r].purpose
      <3> SUFFICES ASSUME kind = "memory", NEW q \in DOMAIN codes', NEW r \in DOMAIN codes', q # r
                   PROVE  codes'[q].purpose # codes'[r].purpose
        OBVIOUS
      <3>1. /\ \A p, t \in DOMAIN codes : p # t => codes[p].purpose # codes[t].purpose
            /\ Len(codes) \in Nat /\ DOMAIN codes = 1 .. Len(codes)
        BY ListTypes DEF AccountInv, TypeOK
      <3>2. NewRow(req[c].purpose, req[c].code, req[c].ttl).purpose = req[c].purpose
        BY DEF NewRow
      <3>3. CASE /\ Entry(req[c].purpose) = {}
                 /\ DOMAIN codes' = 1 .. (Len(codes) + 1)
                 /\ codes'[Len(codes) + 1] = NewRow(req[c].purpose, req[c].code, req[c].ttl)
                 /\ \A p \in DOMAIN codes : codes'[p] = codes[p]
        <4>1. \A p \in DOMAIN codes : codes[p].purpose # req[c].purpose
          BY <3>3 DEF Entry
        <4>2. QED
          BY <3>1, <3>2, <3>3, <4>1
      <3>4. ASSUME DOMAIN codes' = DOMAIN codes, NEW e \in Entry(req[c].purpose),
                   codes'[e] = NewRow(req[c].purpose, req[c].code, req[c].ttl),
                   \A p \in DOMAIN codes \ {e} : codes'[p] = codes[p]
            PROVE  codes'[q].purpose # codes'[r].purpose
        <4>1. e \in DOMAIN codes /\ codes'[e].purpose = codes[e].purpose
          BY <3>2, <3>4 DEF Entry
        <4>2. \A p \in DOMAIN codes : codes'[p].purpose = codes[p].purpose
          BY <3>4, <4>1
        <4>3. QED
          BY <3>1, <3>4, <4>2
      <3>5. QED
        BY <2>3, <3>3, <3>4
    <2>7. TypeOK'
      BY <1>3, <1>4, <1>5, <2>1, <2>4, <2>5, <2>6, SessionsCount
      DEF AccountInv, TypeOK, MailRecord, RowRecord
    <2>8. QED
      BY <1>4, <2>1, <2>7 DEF AccountInv
  <1>7. CASE UNCHANGED <<mailed, codes>>
    BY <1>2, <1>5, <1>7, IdleType, PlainStep
  <1>8. QED
    BY <1>6, <1>7 DEF Save

LEMMA UseAccount ==
  ASSUME AccountInv, NEW c \in Clients, Use(c)
  PROVE  AccountInv'
  <1>1. /\ codes' \in Seq(RowRecord)
        /\ DOMAIN codes' = DOMAIN codes
        /\ \A r \in DOMAIN codes :
             \/ codes'[r] = codes[r]
             \/ codes'[r] = [codes[r] EXCEPT !.used = TRUE]
    BY UseStep DEF AccountInv
  <1>2. PICK next : next = [req[c] EXCEPT !.at = "account"]
    OBVIOUS
  <1>3. next \in Request /\ next.at = "account"
    <2>1. req[c] \in Request
      BY RequestTypes DEF AccountInv
    <2>2. QED
      BY <1>2, <2>1 DEF Request
  <1>4. Goes(c, next) /\ UNCHANGED <<kind, clock, ttl, mailed, accounts>> /\ (Works \/ Fails)
    BY <1>2 DEF Use
  <1>5. ops' \in 0 .. MaxOps /\ faulty' \in BOOLEAN /\ (faulty => faulty')
    BY <1>4, OpsStep DEF AccountInv
  <1>6. SessionInv'
    BY <1>4, <1>5, SessionStep DEF AccountInv
  <1>7. req' \in [Clients -> Request] /\ SendInv' /\ MutexInv'
    BY <1>3, <1>4, RequestStep
  <1>8. \A r \in DOMAIN codes : codes'[r].purpose = codes[r].purpose
    <2>1. \A r \in DOMAIN codes : codes[r] \in RowRecord
      BY ListTypes DEF AccountInv
    <2>2. \A x \in RowRecord : [x EXCEPT !.used = TRUE].purpose = x.purpose
      BY DEF RowRecord
    <2>3. QED
      BY <1>1, <2>1, <2>2
  <1>9. codes' \in Seq(RowRecord') /\ mailed' \in Seq(MailRecord)
    BY <1>1, <1>4 DEF RowRecord, AccountInv, TypeOK, MailRecord
  <1>10. TypeOK'
    BY <1>1, <1>4, <1>5, <1>6, <1>7, <1>8, <1>9, SessionsCount
    DEF AccountInv, TypeOK, MailRecord, RowRecord
  <1>11. QED
    BY <1>6, <1>7, <1>10 DEF AccountInv

(* The session names the account that was found; only a failing statement  *)
(* makes the in-memory store answer for the table.                         *)
LEMMA FindAccount ==
  ASSUME AccountInv, NEW c \in Clients, Find(c)
  PROVE  AccountInv'
  <1>1. PICK found \in {Primary, embedded} :
          /\ IF found = Primary THEN Works ELSE QueryFails
          /\ IF found # {} THEN Issue(found) /\ Responds(c)
             ELSE /\ IF req[c].kind = "test" THEN Goes(c, [req[c] EXCEPT !.at = "create"]) ELSE Responds(c)
                  /\ UNCHANGED tokens
    BY DEF Find
  <1>2. UNCHANGED <<kind, clock, ttl, mailed, codes, table, embedded>> /\ (Works \/ Fails)
    BY <1>1 DEF Find, QueryFails
  <1>3. ops' \in 0 .. MaxOps /\ faulty' \in BOOLEAN /\ (faulty => faulty')
    BY <1>2, OpsStep DEF AccountInv
  <1>4. CASE found # {}
    <2>1. req' \in [Clients -> Request] /\ SendInv' /\ MutexInv'
      BY <1>1, <1>2, <1>4, IdleType, RequestStep DEF Responds, Idle
    <2>2. SessionInv'
      <3>1. ASSUME ~faulty' PROVE tokens' \subseteq Primary /\ (kind = "postgres" => embedded = {})
        <4>1. ~faulty /\ found = Primary
          BY <1>1, <1>3, <3>1 DEF QueryFails, Fails
        <4>2. QED
          BY <1>1, <1>4, <4>1 DEF Issue, AccountInv, SessionInv
      <3>2. Primary' = Primary
        BY <1>2 DEF Primary
      <3>3. QED
        BY <1>2, <3>1, <3>2 DEF AccountInv, SessionInv, AtMostOne
    <2>3. clock' \in 0 .. MaxClock /\ ttl' \in TTLs
      BY <1>2 DEF AccountInv, TypeOK
    <2>4. TypeOK'
      BY <1>2, <1>3, <2>1, <2>2, <2>3, TypeStep DEF AccountInv
    <2>5. QED
      BY <2>1, <2>2, <2>4 DEF AccountInv
  <1>5. CASE found = {}
    <2>1. \/ Goes(c, [req[c] EXCEPT !.at = "create"])
          \/ Goes(c, Idle)
      BY <1>1, <1>5 DEF Responds
    <2>2. req[c] \in Request
      BY RequestTypes DEF AccountInv
    <2>3. [req[c] EXCEPT !.at = "create"] \in Request /\ [req[c] EXCEPT !.at = "create"].at = "create"
      BY <2>2 DEF Request
    <2>4. PICK next \in Request : Goes(c, next) /\ next.at \in {"create", "idle"}
      BY <2>1, <2>3, IdleType DEF Idle
    <2>5. UNCHANGED <<kind, clock, ttl, mailed, codes, accounts>>
      BY <1>1, <1>2, <1>5 DEF accounts
    <2>6. QED
      BY <1>2, <2>4, <2>5, PlainStep
  <1>6. QED
    BY <1>4, <1>5

LEMMA CreateAccount ==
  ASSUME AccountInv, NEW c \in Clients, Create(c)
  PROVE  AccountInv'
  <1>1. /\ Goes(c, Idle) /\ UNCHANGED <<kind, clock, ttl, mailed, codes>>
        /\ (Works \/ Fails)
    BY DEF Create, Responds, QueryFails
  <1>2. ops' \in 0 .. MaxOps /\ faulty' \in BOOLEAN /\ (faulty => faulty')
    BY <1>1, OpsStep DEF AccountInv
  <1>3. req' \in [Clients -> Request] /\ SendInv' /\ MutexInv'
    BY <1>1, IdleType, RequestStep DEF Idle
  <1>4. /\ AtMostOne(table) /\ AtMostOne(embedded) /\ (kind = "memory" => table = {})
        /\ ~faulty => tokens \subseteq Primary /\ (kind = "postgres" => embedded = {})
    BY DEF AccountInv, SessionInv
  <1>5. PICK id : id = NewId
    OBVIOUS
  <1>6. CASE kind = "memory" /\ CreateEmbedded /\ Works
    <2>1. CASE embedded = {}
      <3>1. embedded' = {id} /\ tokens' = tokens \cup {id} /\ table' = {}
        BY <1>4, <1>5, <1>6, <2>1 DEF CreateEmbedded, Issue
      <3>2. ~faulty' => tokens = {}
        BY <1>4, <1>6, <2>1 DEF Primary, Works
      <3>3. kind' = "memory"
        BY <1>1, <1>6
      <3>4. SessionInv'
        BY <3>1, <3>2, <3>3 DEF SessionInv, AtMostOne, Primary
      <3>5. QED
        BY <1>1, <1>2, <1>3, <3>4, TypeStep DEF AccountInv, TypeOK
    <2>2. CASE embedded # {}
      <3>1. UNCHANGED accounts
        BY <1>6, <2>2 DEF CreateEmbedded, accounts
      <3>2. QED
        BY <1>1, <3>1, IdleType, PlainStep DEF Idle
    <2>3. QED
      BY <2>1, <2>2
  <1>7. CASE kind = "postgres" /\ CreateRow /\ Works
    <2>1. CASE table = {}
      <3>1. table' = {id} /\ tokens' = tokens \cup {id} /\ embedded' = embedded
        BY <1>5, <1>7, <2>1 DEF CreateRow, Issue
      <3>2. ~faulty' => tokens = {} /\ embedded = {}
        BY <1>4, <1>7, <2>1 DEF Primary, Works
      <3>3. kind' = "postgres"
        BY <1>1, <1>7
      <3>4. SessionInv'
        BY <1>4, <3>1, <3>2, <3>3 DEF SessionInv, AtMostOne, Primary
      <3>5. QED
        BY <1>1, <1>2, <1>3, <3>4, TypeStep DEF AccountInv, TypeOK
    <2>2. CASE table # {}
      <3>1. UNCHANGED accounts
        BY <1>7, <2>2 DEF CreateRow, accounts
      <3>2. QED
        BY <1>1, <3>1, IdleType, PlainStep DEF Idle
    <2>3. QED
      BY <2>1, <2>2
  <1>8. CASE QueryFails /\ CreateEmbedded
    <2>1. /\ AtMostOne(embedded') /\ table' = table /\ faulty' /\ kind' = "postgres"
      <3>1. embedded' = embedded \/ embedded' = {id}
        BY <1>5, <1>8 DEF CreateEmbedded
      <3>2. AtMostOne(embedded')
        BY <1>4, <3>1 DEF AtMostOne
      <3>3. QED
        BY <1>1, <1>8, <3>2 DEF QueryFails, Fails, CreateEmbedded
    <2>2. SessionInv'
      BY <1>4, <2>1 DEF SessionInv, AtMostOne
    <2>3. QED
      BY <1>1, <1>2, <1>3, <2>2, TypeStep DEF AccountInv, TypeOK
  <1>9. QED
    BY <1>6, <1>7, <1>8 DEF Create

LEMMA RestartAccount ==
  ASSUME AccountInv, Restart
  PROVE  AccountInv'
  <1>1. /\ req' = [c \in Clients |-> Idle] /\ embedded' = {}
        /\ UNCHANGED <<kind, clock, ttl, table, tokens>>
        /\ ops < MaxOps /\ ops' = ops + 1 /\ faulty' = TRUE
    BY DEF Restart, Fails
  <1>2. SendInv' /\ MutexInv'
    <2>1. \A c \in Clients : req'[c].at = "idle"
      BY <1>1 DEF Idle
    <2>2. QED
      BY <2>1 DEF SendInv, MutexInv, Sending
  <1>3. SessionInv'
    BY <1>1 DEF AccountInv, SessionInv, AtMostOne
  <1>4. req' \in [Clients -> Request] /\ ops' \in 0 .. MaxOps
    <2>1. ops \in 0 .. MaxOps /\ MaxOps \in Nat
      BY AccountsAssumption DEF AccountInv, TypeOK
    <2>2. QED
      BY <1>1, <2>1, IdleType
  <1>5. CASE kind = "postgres"
    <2>1. UNCHANGED <<codes, mailed>>
      BY <1>5 DEF Restart
    <2>2. clock' \in 0 .. MaxClock /\ ttl' \in TTLs /\ faulty' \in BOOLEAN
      BY <1>1 DEF AccountInv, TypeOK
    <2>3. TypeOK'
      BY <1>1, <1>3, <1>4, <2>1, <2>2, TypeStep DEF AccountInv
    <2>4. QED
      BY <1>2, <1>3, <2>3 DEF AccountInv
  <1>6. CASE kind # "postgres"
    <2>1. codes' = <<>> /\ mailed' = [i \in DOMAIN mailed |-> [mailed[i] EXCEPT !.kept = FALSE]]
      BY <1>6 DEF Restart
    <2>2. mailed' \in Seq(MailRecord)
      <3>1. PICK M : M = MailRecord
        OBVIOUS
      <3>2. mailed \in Seq(M)
        BY <3>1 DEF AccountInv, TypeOK, MailRecord
      <3>3. \A x \in M : [x EXCEPT !.kept = FALSE] \in M
        BY <3>1 DEF MailRecord
      <3>4. mailed' \in [1 .. Len(mailed) -> M] /\ Len(mailed) \in Nat
        BY <2>1, <3>2, <3>3
      <3>5. QED
        BY <3>1, <3>4, ListOf
    <2>3. codes' \in Seq(RowRecord') /\ DOMAIN codes' = {}
      BY <2>1
    <2>4. TypeOK'
      BY <1>1, <1>3, <1>4, <2>2, <2>3, SessionsCount DEF AccountInv, TypeOK, MailRecord, RowRecord
    <2>5. QED
      BY <1>2, <1>3, <2>4 DEF AccountInv
  <1>7. QED
    BY <1>5, <1>6

(* A code is asked for, the mutex is entered, a code is presented or       *)
(* checked, a test session is opened.                                      *)
LEMMA PlainAccount ==
  ASSUME AccountInv, NEW c \in Clients,
         \/ \E purpose \in Purposes : Ask(c, purpose)
         \/ ForgetSetting(c) \/ Enter(c)
         \/ \E code \in DOMAIN mailed : Login(c, code) \/ Register(c, code)
         \/ Check(c) \/ TestSession(c)
  PROVE  AccountInv'
  <1>a. req[c] \in Request
    BY RequestTypes DEF AccountInv
  <1>b. /\ ttl \in TTLs /\ DefaultTTL \in TTLs /\ TTLs \subseteq Nat
        /\ Len(mailed) \in Nat /\ DOMAIN mailed = 1 .. Len(mailed)
    BY AccountsAssumption, ListTypes DEF AccountInv, TypeOK
  <1>c. /\ kind \in {"memory", "postgres"}
        /\ req[c].at = "wait" => req[c].purpose \in Purposes /\ req[c].ttl \in TTLs
    BY DEF AccountInv, TypeOK, SendInv
  <1>1. ASSUME NEW purpose \in Purposes, Ask(c, purpose) PROVE AccountInv'
    <2>1. PICK next : next = [Idle EXCEPT !.at = "wait", !.purpose = purpose, !.ttl = ttl]
      OBVIOUS
    <2>2. next \in Request /\ next.at = "wait" /\ next.purpose = purpose /\ next.ttl = ttl
      BY <1>b, <2>1 DEF Idle, Request, Purposes
    <2>3. QED
      BY <1>1, <1>b, <2>1, <2>2, PlainStep DEF Ask
  <1>2. ASSUME ForgetSetting(c) PROVE AccountInv'
    <2>1. PICK next : next = [req[c] EXCEPT !.ttl = DefaultTTL]
      OBVIOUS
    <2>2. /\ next \in Request /\ next.at = req[c].at
          /\ next.purpose = req[c].purpose /\ next.ttl = DefaultTTL
      BY <1>a, <1>b, <2>1 DEF Request
    <2>3. Goes(c, next) /\ UNCHANGED <<kind, clock, ttl, mailed, codes, accounts>> /\ Fails
          /\ next.at = "wait"
      BY <1>2, <2>1, <2>2 DEF ForgetSetting, QueryFails
    <2>4. QED
      BY <1>2, <1>b, <1>c, <2>2, <2>3, PlainStep DEF ForgetSetting
  <1>3. ASSUME Enter(c) PROVE AccountInv'
    <2>1. [req[c] EXCEPT !.at = "mail"] \in Request
          /\ [req[c] EXCEPT !.at = "mail", !.blind = TRUE] \in Request
      BY <1>a DEF Request
    <2>2. /\ [req[c] EXCEPT !.at = "mail"].purpose = req[c].purpose
          /\ [req[c] EXCEPT !.at = "mail"].ttl = req[c].ttl
          /\ [req[c] EXCEPT !.at = "mail"].at = "mail"
          /\ [req[c] EXCEPT !.at = "mail", !.blind = TRUE].purpose = req[c].purpose
          /\ [req[c] EXCEPT !.at = "mail", !.blind = TRUE].ttl = req[c].ttl
          /\ [req[c] EXCEPT !.at = "mail", !.blind = TRUE].at = "mail"
      BY <1>a DEF Request
    <2>3. Idle.at = "idle"
      BY DEF Idle
    <2>4. PICK next \in {Idle, [req[c] EXCEPT !.at = "mail"], [req[c] EXCEPT !.at = "mail", !.blind = TRUE]} :
            Goes(c, next)
      BY <1>3 DEF Enter, Proceed, Responds
    <2>5. /\ next \in Request /\ next.at \in {"idle", "mail"}
          /\ next.at = "mail" => next.purpose = req[c].purpose /\ next.ttl = req[c].ttl
      BY <2>1, <2>2, <2>3, IdleType
    <2>6. /\ ~Locked /\ req[c].at = "wait" /\ (Works \/ Fails)
          /\ UNCHANGED <<kind, clock, ttl, mailed, codes, accounts>>
      BY <1>3 DEF Enter, Proceed, QueryFails
    <2>7. QED
      BY <1>c, <2>4, <2>5, <2>6, PlainStep
  <1>4. ASSUME NEW code \in DOMAIN mailed, Login(c, code) \/ Register(c, code) PROVE AccountInv'
    <2>1. PICK handler \in Purposes : Present(c, handler, code)
      BY <1>4 DEF Login, Register, Purposes
    <2>2. PICK next : next = [Idle EXCEPT !.at = "check", !.kind = handler, !.purpose = handler, !.code = code]
      OBVIOUS
    <2>3. next \in Request /\ next.at = "check"
      <3>1. code \in Nat
        BY <1>b
      <3>2. QED
        BY <2>2, <3>1 DEF Idle, Request, Purposes
    <2>4. QED
      BY <2>1, <2>2, <2>3, PlainStep DEF Present
  <1>5. ASSUME Check(c) PROVE AccountInv'
    <2>1. /\ [req[c] EXCEPT !.purpose = "register"] \in Request
          /\ [req[c] EXCEPT !.purpose = "register"].at = req[c].at
      BY <1>a DEF Request, Purposes
    <2>2. PICK step : step = IF kind = "postgres" THEN "use" ELSE "account"
      OBVIOUS
    <2>3. step \in {"use", "account"} /\ (step = "use" => kind = "postgres")
      BY <2>2
    <2>4. /\ [req[c] EXCEPT !.at = step] \in Request
          /\ [req[c] EXCEPT !.at = step].at = step
      BY <1>a, <2>3 DEF Request
    <2>5. Idle.at = "idle"
      BY DEF Idle
    <2>6. req[c].at = "check" /\ (Works \/ Fails)
          /\ UNCHANGED <<kind, clock, ttl, mailed, codes, accounts>>
      BY <1>5 DEF Check, QueryFails
    <2>7. PICK next \in {Idle, [req[c] EXCEPT !.purpose = "register"], [req[c] EXCEPT !.at = step]} :
            Goes(c, next)
      BY <1>5, <2>2 DEF Check, Rejects, Responds
    <2>8. /\ next \in Request /\ next.at \in {"idle", "check", "use", "account"}
          /\ next.at = "use" => kind = "postgres"
      BY <2>1, <2>3, <2>4, <2>5, <2>6, IdleType
    <2>9. QED
      BY <2>6, <2>7, <2>8, PlainStep
  <1>6. ASSUME TestSession(c) PROVE AccountInv'
    <2>1. PICK next : next = [Idle EXCEPT !.at = "account", !.kind = "test"]
      OBVIOUS
    <2>2. next \in Request /\ next.at = "account"
      BY <2>1 DEF Idle, Request, Purposes
    <2>3. QED
      BY <1>6, <2>1, <2>2, PlainStep DEF TestSession
  <1>7. QED
    BY <1>1, <1>2, <1>3, <1>4, <1>5, <1>6

LEMMA NextAccount == AccountInv /\ [Next]_vars => AccountInv'
  <1> SUFFICES ASSUME AccountInv, [Next]_vars PROVE AccountInv'
    OBVIOUS
  <1>1. CASE UNCHANGED vars
    BY <1>1 DEF vars, accounts, AccountInv, TypeOK, SessionStands, Primary, SendInv, MutexInv, Sending,
                SessionInv, AtMostOne
  <1>2. ASSUME NEW c \in Clients, Handle(c) PROVE AccountInv'
    BY <1>2, PlainAccount, MailAccount, SaveAccount, UseAccount, FindAccount, CreateAccount
    DEF Handle
  <1>3. ASSUME NEW t \in TTLs, Configure(t) PROVE AccountInv'
    <2>1. /\ UNCHANGED <<kind, clock, req, mailed, codes, accounts, faulty>> /\ ttl' \in TTLs
          /\ ops < MaxOps /\ ops' = ops + 1
      BY <1>3 DEF Configure
    <2>2. SessionInv'
      BY <2>1, SessionStep DEF AccountInv
    <2>3. SendInv' /\ MutexInv'
      BY <2>1 DEF AccountInv, SendInv, MutexInv, Sending
    <2>4. ops' \in 0 .. MaxOps /\ clock' \in 0 .. MaxClock /\ faulty' \in BOOLEAN /\ req' \in [Clients -> Request]
      BY <2>1, AccountsAssumption DEF AccountInv, TypeOK
    <2>5. QED
      BY <2>1, <2>2, <2>3, <2>4, TypeStep DEF AccountInv
  <1>4. ASSUME Tick PROVE AccountInv'
    <2>1. /\ UNCHANGED <<kind, ttl, req, mailed, codes, accounts, ops, faulty>>
          /\ clock < MaxClock /\ clock' = clock + 1
      BY <1>4 DEF Tick
    <2>2. SessionInv'
      BY <2>1, SessionStep DEF AccountInv
    <2>3. SendInv' /\ MutexInv'
      BY <2>1 DEF AccountInv, SendInv, MutexInv, Sending
    <2>4. /\ ops' \in 0 .. MaxOps /\ clock' \in 0 .. MaxClock /\ faulty' \in BOOLEAN /\ ttl' \in TTLs
          /\ req' \in [Clients -> Request]
      BY <2>1, AccountsAssumption DEF AccountInv, TypeOK
    <2>5. QED
      BY <2>1, <2>2, <2>3, <2>4, TypeStep DEF AccountInv
  <1>5. QED
    BY <1>1, <1>2, <1>3, <1>4, RestartAccount DEF Next

(* The types; and no store has two accounts for the address, in memory a   *)
(* purpose has one code, and every session names the one account there is  *)
(* as long as nothing failed.                                              *)
THEOREM AccountTypeCorrect == Spec => []TypeOK
  <1>1. AccountInv => TypeOK
    BY DEF AccountInv
  <1>2. QED
    BY InitAccount, NextAccount, <1>1, PTL DEF Spec

-----------------------------------------------------------------------------
(* The cooldown is not inductive: a mail is sent a step after the question *)
(* for the newest code, and the answer rests on the rows of the saved      *)
(* mails.                                                                  *)

(* The row of a mail that could hold another back is still open.           *)
LEMMA OpenRow ==
  ASSUME TypeOK, RowInv, NEW i \in DOMAIN mailed, mailed[i].kept, ~Used(i)
  PROVE  /\ Latest(mailed[i].purpose) \in Open(mailed[i].purpose)
         /\ i <= codes[Latest(mailed[i].purpose)].code
         /\ codes[Latest(mailed[i].purpose)].code \in DOMAIN mailed
  <1>1. PICK r \in DOMAIN codes :
          /\ codes[r].purpose = mailed[i].purpose /\ i <= codes[r].code
          /\ kind = "postgres" => codes[r].code = i
    BY DEF RowInv, RowFor
  <1>2. r \in Open(mailed[i].purpose)
    <2>1. ~codes[r].used
      BY <1>1 DEF RowInv, RowOf, Used
    <2>2. QED
      BY <1>1, <2>1 DEF Open
  <1>3. PICK l : l = Latest(mailed[i].purpose)
    OBVIOUS
  <1>4. l \in Open(mailed[i].purpose) /\ r <= l
    BY <1>2, <1>3, LatestIsLast
  <1>5. l \in DOMAIN codes /\ codes[l].purpose = codes[r].purpose
    BY <1>1, <1>4 DEF Open
  <1>6. codes[r].code <= codes[l].code /\ codes[l].code \in DOMAIN mailed
    <2>1. r \in Nat /\ l \in Nat /\ codes[r].code \in Nat /\ codes[l].code \in Nat
          /\ codes[l].code \in DOMAIN mailed
      BY <1>1, <1>5, ListTypes
    <2>2. CASE r = l
      BY <2>1, <2>2
    <2>3. CASE r < l
      BY <1>1, <1>5, <2>1, <2>3 DEF RowInv
    <2>4. QED
      BY <1>4, <2>1, <2>2, <2>3
  <1>7. i \in Nat /\ codes[r].code \in Nat /\ codes[l].code \in Nat
    BY <1>1, <1>5, ListTypes
  <1>8. QED
    BY <1>1, <1>3, <1>4, <1>6, <1>7

(* Who asks and is not held back comes a cooldown after each mail that     *)
(* should hold it back.                                                    *)
LEMMA NotCooling ==
  ASSUME TypeOK, RowInv, CooldownHolds, NEW i \in DOMAIN mailed,
         Holds(i, Len(mailed) + 1), ~Cooling(mailed[i].purpose)
  PROVE  clock - mailed[i].at >= Cooldown
  <1>1. PICK l : l = Latest(mailed[i].purpose)
    OBVIOUS
  <1>2. PICK k : k = codes[l].code
    OBVIOUS
  <1>3. /\ l \in DOMAIN codes /\ codes[l].purpose = mailed[i].purpose
        /\ k \in DOMAIN mailed /\ i <= k
    BY <1>1, <1>2, OpenRow DEF Holds, Open
  <1>4. /\ i \in Nat /\ k \in Nat /\ Len(mailed) \in Nat /\ k <= Len(mailed) /\ l # 0
        /\ mailed[i].at \in Nat /\ mailed[k].at \in Nat /\ mailed[i].ttl \in Nat /\ mailed[k].ttl \in Nat
        /\ codes[l].created \in Nat /\ codes[l].expires \in Nat /\ clock \in Nat /\ Cooldown \in Nat
    BY <1>3, ListTypes
  <1>5. /\ mailed[k].kept /\ mailed[k].purpose = mailed[i].purpose
        /\ mailed[k].at <= codes[l].created /\ codes[l].created <= clock
        /\ codes[l].expires = codes[l].created + mailed[k].ttl
    BY <1>2, <1>3 DEF RowInv, RowOf
  <1>6. mailed[i].at <= mailed[k].at
    <2>1. CASE i = k
      BY <1>4, <2>1
    <2>2. CASE i < k
      BY <1>3, <2>2 DEF RowInv
    <2>3. QED
      BY <1>3, <1>4, <2>1, <2>2
  <1>7. codes[l].expires <= clock \/ clock - codes[l].created >= Cooldown
    <2>1. ~(/\ l # 0 /\ codes[l].expires > clock /\ clock - codes[l].created < Cooldown)
      BY <1>1 DEF Cooling
    <2>2. QED
      BY <1>4, <2>1
  <1>8. CASE clock - codes[l].created >= Cooldown
    BY <1>4, <1>5, <1>6, <1>8
  <1>9. CASE codes[l].expires <= clock
    <2>1. CASE mailed[k].ttl >= Cooldown
      BY <1>4, <1>5, <1>6, <1>9, <2>1
    <2>2. CASE ~(mailed[k].ttl >= Cooldown)
      <3>1. i # k /\ i < k /\ mailed[k].ttl < Cooldown
        BY <1>3, <1>4, <2>2 DEF Holds
      <3>2. ~mailed[k].blind /\ ~Hidden(i, k)
        <4>1. k < Len(mailed) + 1 /\ ~Hidden(i, Len(mailed) + 1)
          BY <1>4 DEF Holds
        <4>2. ~mailed[k].blind
          BY <1>3, <1>5, <3>1, <4>1 DEF Hidden
        <4>3. \A m \in DOMAIN mailed : m < k => m < Len(mailed) + 1
          BY <1>4, ListTypes
        <4>4. QED
          BY <4>1, <4>2, <4>3 DEF Hidden
      <3>3. mailed[k].at - mailed[i].at >= Cooldown
        BY <1>3, <1>5, <3>1, <3>2 DEF Holds, CooldownHolds
      <3>4. QED
        BY <1>4, <1>5, <3>3
    <2>3. QED
      BY <2>1, <2>2
  <1>10. QED
    BY <1>7, <1>8, <1>9

(* Steps that leave codes and mails alone, and let nobody mail who could   *)
(* not before.                                                             *)
LEMMA QuietStep ==
  ASSUME TypeOK, CodeInv, UNCHANGED <<kind, mailed, codes>>,
         clock' \in Nat, clock <= clock',
         \A c \in Clients : req'[c].at = "mail" /\ ~req'[c].blind =>
           /\ req[c].at = "mail" /\ ~req[c].blind /\ req'[c].purpose = req[c].purpose
  PROVE  CodeInv'
  <1>1. clock \in Nat /\ Cooldown \in Nat /\ \A i \in DOMAIN mailed : mailed[i].at \in Nat
    BY ListTypes
  <1>2. \A r \in DOMAIN codes : codes[r].created \in Nat
    BY ListTypes
  <1>3. CooldownHolds'
    BY DEF CodeInv, CooldownHolds, Used, Hidden
  <1>4. RowInv'
    <2>1. \A i \in DOMAIN mailed : mailed[i].at <= clock'
      BY <1>1 DEF CodeInv, RowInv
    <2>2. \A r \in DOMAIN codes : codes[r].created <= clock'
      BY <1>1, <1>2 DEF CodeInv, RowInv, RowOf
    <2>3. \A r \in DOMAIN codes : RowOf(r)'
      BY <2>2 DEF CodeInv, RowInv, RowOf
    <2>4. \A i \in DOMAIN mailed : mailed[i].kept => RowFor(i)'
      BY DEF CodeInv, RowInv, RowFor
    <2>5. QED
      BY <2>1, <2>3, <2>4 DEF CodeInv, RowInv
  <1>5. LateInv'
    <2> SUFFICES ASSUME NEW c \in Clients, req'[c].at = "mail", ~req'[c].blind,
                        NEW i \in DOMAIN mailed, mailed[i].purpose = req'[c].purpose,
                        Holds(i, Len(mailed) + 1)'
                 PROVE  clock' - mailed[i].at >= Cooldown
      BY DEF LateInv
    <2>1. req[c].at = "mail" /\ ~req[c].blind /\ mailed[i].purpose = req[c].purpose
      OBVIOUS
    <2>2. Holds(i, Len(mailed) + 1)
      BY DEF Holds, Used, Hidden
    <2>3. clock - mailed[i].at >= Cooldown
      BY <2>1, <2>2 DEF CodeInv, LateInv
    <2>4. QED
      BY <1>1, <2>3
  <1>6. QED
    BY <1>3, <1>4, <1>5 DEF CodeInv

(* The mutex is entered.                                                   *)
LEMMA EnterLate ==
  ASSUME TypeOK, SendInv, CodeInv, NEW c \in Clients, Enter(c)
  PROVE  CodeInv'
  <1>1. UNCHANGED <<kind, clock, mailed, codes>> /\ clock \in Nat /\ clock <= clock'
    BY ListTypes DEF Enter, Proceed
  <1>2. req[c] \in Request
    BY RequestTypes
  <1>3. \A d \in Clients \ {c} : req'[d] = req[d]
    BY DEF Enter, Proceed, Responds, Goes, TypeOK
  <1>4. CASE ~Cooling(req[c].purpose) /\ Goes(c, [req[c] EXCEPT !.at = "mail"])
    <2>1. /\ req'[c].purpose = req[c].purpose /\ req'[c].blind = req[c].blind
      BY <1>2, <1>4 DEF Goes, Request, TypeOK
    <2>2. RowInv' /\ CooldownHolds'
      BY <1>1 DEF CodeInv, RowInv, RowOf, RowFor, CooldownHolds, Used, Hidden
    <2>3. LateInv'
      <3> SUFFICES ASSUME NEW d \in Clients, req'[d].at = "mail", ~req'[d].blind,
                          NEW i \in DOMAIN mailed, mailed[i].purpose = req'[d].purpose,
                          Holds(i, Len(mailed) + 1)'
                   PROVE  clock - mailed[i].at >= Cooldown
        BY <1>1 DEF LateInv
      <3>1. Holds(i, Len(mailed) + 1)
        BY <1>1 DEF Holds, Used, Hidden
      <3>2. CASE d = c
        BY <1>4, <2>1, <3>1, <3>2, NotCooling DEF CodeInv
      <3>3. CASE d # c
        BY <1>3, <3>1, <3>3 DEF CodeInv, LateInv
      <3>4. QED
        BY <3>2, <3>3
    <2>4. QED
      BY <2>2, <2>3 DEF CodeInv
  <1>5. CASE Goes(c, Idle) \/ Goes(c, [req[c] EXCEPT !.at = "mail", !.blind = TRUE])
    <2>1. ~(req'[c].at = "mail" /\ ~req'[c].blind)
      <3>1. \A next : Goes(c, next) => req'[c] = next
        BY DEF Goes, TypeOK
      <3>2. Idle.at # "mail"
        BY DEF Idle
      <3>3. [req[c] EXCEPT !.at = "mail", !.blind = TRUE].blind
        BY <1>2 DEF Request
      <3>4. QED
        BY <1>5, <3>1, <3>2, <3>3
    <2>2. clock' \in Nat
      BY <1>1
    <2>3. QED
      BY <1>1, <1>3, <2>1, <2>2, QuietStep
  <1>6. QED
    BY <1>4, <1>5 DEF Enter, Proceed, Responds

(* The mail is sent.                                                       *)
LEMMA MailLate ==
  ASSUME TypeOK, SendInv, MutexInv, CodeInv, NEW c \in Clients, Mail(c)
  PROVE  CodeInv'
  <1>1. /\ req[c].at = "mail" /\ Sending(c)
        /\ req[c].purpose \in Purposes /\ req[c].ttl \in TTLs
        /\ UNCHANGED <<kind, clock, codes>>
    BY DEF Mail, SendInv, Sending
  <1>2. \A d \in Clients : req'[d].at # "mail"
    <2>1. req'[c].at # "mail"
      <3>1. \A next : Goes(c, next) => req'[c] = next
        BY DEF Goes, TypeOK
      <3>2. Idle.at # "mail" /\ req[c] \in Request
        BY RequestTypes DEF Idle
      <3>3. [req[c] EXCEPT !.at = "save", !.code = Len(mailed) + 1].at # "mail"
        BY <3>2 DEF Request
      <3>4. QED
        BY <3>1, <3>2, <3>3 DEF Mail, Responds
    <2>2. \A d \in Clients \ {c} : req'[d] = req[d] /\ req[d].at # "mail"
      BY <1>1 DEF Mail, Responds, Goes, TypeOK, MutexInv, Sending
    <2>3. QED
      BY <2>1, <2>2
  <1>3. LateInv'
    BY <1>2 DEF LateInv
  <1>4. CASE UNCHANGED mailed
    BY <1>1, <1>2, <1>4, QuietStep, ListTypes
  <1>5. CASE Post(c)
    <2>1. PICK n : n = Len(mailed) + 1
      OBVIOUS
    <2>2. /\ DOMAIN mailed' = DOMAIN mailed \cup {n}
          /\ mailed'[n] = NewMail(c)
          /\ \A i \in DOMAIN mailed : mailed'[i] = mailed[i] /\ i < n /\ i \in Nat
          /\ n \in Nat
      <3>1. Len(mailed) \in Nat /\ DOMAIN mailed = 1 .. Len(mailed)
        BY ListTypes
      <3>2. /\ DOMAIN mailed' = 1 .. (Len(mailed) + 1)
            /\ mailed'[Len(mailed) + 1] = NewMail(c)
            /\ \A i \in DOMAIN mailed : mailed'[i] = mailed[i]
        BY <1>1, <1>5, PostStep
      <3>3. QED
        BY <2>1, <3>1, <3>2
    <2>3. /\ mailed'[n].at = clock /\ mailed'[n].purpose = req[c].purpose
          /\ ~mailed'[n].kept /\ mailed'[n].blind = req[c].blind
      BY <2>2 DEF NewMail
    <2>4. \A r \in DOMAIN codes : codes[r].code \in DOMAIN mailed
      BY ListTypes
    <2>5. clock \in Nat /\ \A i \in DOMAIN mailed : mailed[i].at <= clock
      BY ListTypes DEF CodeInv, RowInv
    <2>6. RowInv'
      <3>1. \A r \in DOMAIN codes : RowOf(r)'
        BY <1>1, <2>2, <2>4 DEF CodeInv, RowInv, RowOf
      <3>2. \A i \in DOMAIN mailed' : mailed'[i].kept => RowFor(i)'
        BY <1>1, <2>2, <2>3 DEF CodeInv, RowInv, RowFor
      <3>3. /\ \A i \in DOMAIN mailed' : mailed'[i].at <= clock
            /\ \A i, j \in DOMAIN mailed' : i < j => mailed'[i].at <= mailed'[j].at
        <4>1. \A i \in DOMAIN mailed : ~(n < i)
          BY <2>2
        <4>2. QED
          BY <2>2, <2>3, <2>5, <4>1 DEF CodeInv, RowInv
      <3>4. QED
        BY <1>1, <3>1, <3>2, <3>3 DEF CodeInv, RowInv
    <2>7. CooldownHolds'
      <3> SUFFICES ASSUME NEW i \in DOMAIN mailed', NEW j \in DOMAIN mailed',
                          i < j, mailed'[i].purpose = mailed'[j].purpose,
                          mailed'[i].kept, mailed'[i].ttl >= Cooldown, ~Used(i)', ~Hidden(i, j)',
                          ~mailed'[j].blind
                   PROVE  mailed'[j].at - mailed'[i].at >= Cooldown
        BY DEF CooldownHolds
      <3>1. i \in DOMAIN mailed /\ mailed'[i] = mailed[i]
        BY <2>2, <2>3
      <3>2. ~Used(i)
        BY <1>1 DEF Used
      <3>3. ~Hidden(i, j)
        BY <2>2, <3>1 DEF Hidden
      <3>4. CASE j \in DOMAIN mailed
        <4>1. mailed'[j] = mailed[j]
          BY <2>2, <3>4
        <4>2. QED
          BY <3>1, <3>2, <3>3, <3>4, <4>1 DEF CodeInv, CooldownHolds
      <3>5. CASE j = n
        <4>1. Holds(i, Len(mailed) + 1)
          BY <2>1, <3>1, <3>2, <3>3, <3>5 DEF Holds
        <4>2. clock - mailed[i].at >= Cooldown
          BY <1>1, <2>3, <3>1, <3>5, <4>1 DEF CodeInv, LateInv
        <4>3. QED
          BY <2>3, <3>1, <3>5, <4>2
      <3>6. QED
        BY <2>2, <3>4, <3>5
    <2>8. QED
      BY <1>3, <2>6, <2>7 DEF CodeInv
  <1>6. QED
    BY <1>4, <1>5 DEF Mail

(* The code is saved: it is newer than all others.                         *)
LEMMA SaveLate ==
  ASSUME TypeOK, SendInv, MutexInv, CodeInv, NEW c \in Clients, Save(c)
  PROVE  CodeInv'
  <1>1. /\ req[c].at = "save" /\ Sending(c)
        /\ req[c].purpose \in Purposes /\ req[c].ttl \in TTLs
        /\ UNCHANGED <<kind, clock>>
    BY DEF Save, SendInv, Sending
  <1>2. \A d \in Clients : req'[d].at # "mail"
    <2>1. req'[c].at # "mail"
      BY DEF Save, Responds, Goes, TypeOK, Idle
    <2>2. \A d \in Clients \ {c} : req'[d] = req[d] /\ req[d].at # "mail"
      BY <1>1 DEF Save, Responds, Goes, TypeOK, MutexInv, Sending
    <2>3. QED
      BY <2>1, <2>2
  <1>3. LateInv'
    BY <1>2 DEF LateInv
  <1>4. CASE UNCHANGED <<mailed, codes>>
    BY <1>1, <1>2, <1>4, QuietStep, ListTypes
  <1>5. CASE SaveEmailCode(req[c].purpose, req[c].code, req[c].ttl)
             /\ mailed' = [mailed EXCEPT ![req[c].code].kept = TRUE]
    <2>1. PICK n : n = req[c].code
      OBVIOUS
    <2>2. PICK key : key = req[c].purpose
      OBVIOUS
    <2>3. PICK row : row = NewRow(key, n, req[c].ttl)
      OBVIOUS
    <2>4. /\ n = Len(mailed) /\ n \in DOMAIN mailed /\ key \in Purposes
          /\ mailed[n].purpose = key /\ mailed[n].ttl = req[c].ttl /\ ~mailed[n].kept
      BY <1>1, <2>1, <2>2 DEF SendInv
    <2>5. /\ DOMAIN mailed' = DOMAIN mailed
          /\ \A i \in DOMAIN mailed : /\ mailed'[i].purpose = mailed[i].purpose
                                      /\ mailed'[i].at = mailed[i].at
                                      /\ mailed'[i].ttl = mailed[i].ttl
                                      /\ mailed'[i].blind = mailed[i].blind
                                      /\ mailed'[i].kept <=> (mailed[i].kept \/ i = n)
      <3>1. \A i \in DOMAIN mailed : mailed[i] \in MailRecord
        BY ListTypes
      <3>2. mailed' = [mailed EXCEPT ![n].kept = TRUE]
        BY <1>5, <2>1
      <3>3. DOMAIN mailed' = DOMAIN mailed
        BY <3>2
      <3>4. \A i \in DOMAIN mailed \ {n} : mailed'[i] = mailed[i]
        BY <3>2
      <3>5. mailed'[n] = [mailed[n] EXCEPT !.kept = TRUE]
        BY <2>4, <3>2
      <3>6. /\ mailed'[n].purpose = mailed[n].purpose /\ mailed'[n].at = mailed[n].at
            /\ mailed'[n].ttl = mailed[n].ttl /\ mailed'[n].blind = mailed[n].blind
            /\ mailed'[n].kept
        BY <2>4, <3>1, <3>5 DEF MailRecord
      <3>7. QED
        BY <3>3, <3>4, <3>6
    <2>6. /\ row.purpose = key /\ row.code = n /\ row.created = clock
          /\ row.expires = clock + req[c].ttl /\ ~row.used
      BY <2>3 DEF NewRow
    <2>7. PICK e \in DOMAIN codes' :
            /\ e \in Nat /\ codes'[e] = row
            /\ \A r \in DOMAIN codes' \ {e} : r \in DOMAIN codes /\ codes'[r] = codes[r]
            /\ \A r \in DOMAIN codes \ {e} : r \in DOMAIN codes'
            /\ e \in DOMAIN codes => kind = "memory" /\ codes[e].purpose = key
            /\ \A r \in DOMAIN codes \ {e} : codes[r].purpose = key => r < e
      <3>1. req[c].ttl \in Nat
        BY <1>1, AccountsAssumption
      <3>2. QED
        BY <1>5, <2>1, <2>2, <2>3, <2>4, <3>1, SavedRow
    <2>8. /\ clock \in Nat /\ kind' = kind /\ clock' = clock
          /\ \A i \in DOMAIN mailed : i \in Nat /\ i <= n
          /\ \A r \in DOMAIN codes : codes[r].code \in DOMAIN mailed /\ codes[r].code # n
                                     /\ codes[r].created \in Nat /\ codes[r].created <= clock
      BY <1>1, <2>4, ListTypes DEF CodeInv, RowInv, RowOf
    <2>9. RowInv'
      <3>1. ASSUME NEW r \in DOMAIN codes' PROVE RowOf(r)'
        <4>1. CASE r = e
          BY <2>4, <2>5, <2>6, <2>7, <2>8, <4>1 DEF RowOf, CodeInv, RowInv
        <4>2. CASE r # e
          <5>1. r \in DOMAIN codes /\ codes'[r] = codes[r] /\ codes[r].code \in DOMAIN mailed
            BY <2>7, <2>8, <4>2
          <5>2. RowOf(r)
            BY <5>1 DEF CodeInv, RowInv
          <5>3. QED
            BY <2>5, <2>8, <5>1, <5>2 DEF RowOf
        <4>3. QED
          BY <4>1, <4>2
      <3>2. ASSUME NEW q \in DOMAIN codes', NEW r \in DOMAIN codes', q < r,
                   codes'[q].purpose = codes'[r].purpose
            PROVE  codes'[q].code < codes'[r].code /\ codes'[q].created <= codes'[r].created
        <4>1. CASE q # e /\ r # e
          BY <2>7, <3>2, <4>1 DEF CodeInv, RowInv
        <4>2. CASE r = e /\ q # e
          <5>1. q \in DOMAIN codes /\ codes'[q] = codes[q]
            BY <2>7, <4>2
          <5>2. codes[q].code \in Nat /\ codes[q].code < n
            BY <2>4, <2>8, <5>1
          <5>3. QED
            BY <2>6, <2>7, <2>8, <4>2, <5>1, <5>2
        <4>3. CASE q = e /\ r # e
          <5>1. r \in DOMAIN codes /\ codes'[r] = codes[r] /\ codes[r].purpose = key
            BY <2>6, <2>7, <3>2, <4>3
          <5>2. r < e /\ r \in Nat
            BY <2>7, <4>3, <5>1, ListTypes
          <5>3. QED
            BY <2>7, <3>2, <4>3, <5>2
        <4>4. CASE q = e /\ r = e
          BY <2>7, <3>2, <4>4
        <4>5. QED
          BY <4>1, <4>2, <4>3, <4>4
      <3>3. ASSUME NEW i \in DOMAIN mailed', mailed'[i].kept PROVE RowFor(i)'
        <4>1. i \in DOMAIN mailed /\ (mailed[i].kept \/ i = n) /\ i <= n
          BY <2>5, <2>8, <3>3
        <4>2. CASE i = n
          BY <2>4, <2>5, <2>6, <2>7, <2>8, <4>1, <4>2 DEF RowFor
        <4>3. CASE mailed[i].kept
          <5>1. PICK r \in DOMAIN codes :
                  /\ codes[r].purpose = mailed[i].purpose /\ i <= codes[r].code
                  /\ kind = "postgres" => codes[r].code = i
            BY <4>1, <4>3 DEF CodeInv, RowInv, RowFor
          <5>2. CASE r # e
            BY <2>5, <2>7, <2>8, <4>1, <5>1, <5>2 DEF RowFor
          <5>3. CASE r = e
            <6>1. kind = "memory" /\ codes[e].purpose = key
              BY <2>7, <5>1, <5>3
            <6>2. mailed'[i].purpose = key
              BY <2>5, <4>1, <5>1, <5>3, <6>1
            <6>3. QED
              BY <2>6, <2>7, <2>8, <4>1, <6>1, <6>2 DEF RowFor
          <5>4. QED
            BY <5>2, <5>3
        <4>4. QED
          BY <4>1, <4>2, <4>3
      <3>4. /\ \A i \in DOMAIN mailed' : mailed'[i].at <= clock'
            /\ \A i, j \in DOMAIN mailed' : i < j => mailed'[i].at <= mailed'[j].at
        BY <2>5, <2>8 DEF CodeInv, RowInv
      <3>5. QED
        BY <3>1, <3>2, <3>3, <3>4 DEF RowInv
    <2>10. CooldownHolds'
      <3> SUFFICES ASSUME NEW i \in DOMAIN mailed', NEW j \in DOMAIN mailed',
                          i < j, mailed'[i].purpose = mailed'[j].purpose,
                          mailed'[i].kept, mailed'[i].ttl >= Cooldown, ~Used(i)', ~Hidden(i, j)',
                          ~mailed'[j].blind
                   PROVE  mailed'[j].at - mailed'[i].at >= Cooldown
        BY DEF CooldownHolds
      <3>1. i \in DOMAIN mailed /\ j \in DOMAIN mailed /\ i # n /\ mailed[i].kept
        BY <2>4, <2>5, <2>8
      <3>2. ~Used(i)
        <4> SUFFICES ASSUME NEW r \in DOMAIN codes, codes[r].code = i, codes[r].used
                     PROVE  FALSE
          BY DEF Used
        <4>1. kind = "postgres"
          BY DEF CodeInv, RowInv, RowOf
        <4>2. r # e
          BY <2>7, <4>1
        <4>3. r \in DOMAIN codes' /\ codes'[r] = codes[r]
          BY <2>7, <4>2
        <4>4. QED
          BY <4>3 DEF Used
      <3>3. ~Hidden(i, j)
        BY <2>5, <3>1 DEF Hidden
      <3>4. QED
        BY <2>5, <3>1, <3>2, <3>3 DEF CodeInv, CooldownHolds
    <2>11. QED
      BY <1>3, <2>9, <2>10 DEF CodeInv
  <1>6. QED
    BY <1>4, <1>5 DEF Save

(* A used code is no longer open, which takes mails away that hold others  *)
(* back.                                                                   *)
LEMMA UseLate ==
  ASSUME TypeOK, SendInv, CodeInv, NEW c \in Clients, Use(c)
  PROVE  CodeInv'
  <1>1. /\ kind = "postgres" /\ UNCHANGED <<kind, clock, mailed>>
        /\ DOMAIN codes' = DOMAIN codes
    BY UseStep DEF Use, SendInv
  <1>2. \A r \in DOMAIN codes :
          /\ codes'[r].purpose = codes[r].purpose /\ codes'[r].code = codes[r].code
          /\ codes'[r].created = codes[r].created /\ codes'[r].expires = codes[r].expires
          /\ codes[r].used => codes'[r].used
    <2>1. \A r \in DOMAIN codes :
            /\ codes[r] \in RowRecord
            /\ codes'[r] = codes[r] \/ codes'[r] = [codes[r] EXCEPT !.used = TRUE]
      BY UseStep, ListTypes
    <2>2. ASSUME NEW x \in RowRecord, NEW y, y = x \/ y = [x EXCEPT !.used = TRUE]
          PROVE  /\ y.purpose = x.purpose /\ y.code = x.code /\ y.created = x.created
                 /\ y.expires = x.expires /\ (x.used => y.used)
      BY <2>2 DEF RowRecord
    <2>3. QED
      BY <2>1, <2>2
  <1>3. RowInv'
    <2>1. \A r \in DOMAIN codes' : RowOf(r)'
      BY <1>1, <1>2 DEF CodeInv, RowInv, RowOf
    <2>2. \A i \in DOMAIN mailed : mailed[i].kept => RowFor(i)'
      BY <1>1, <1>2 DEF CodeInv, RowInv, RowFor
    <2>3. QED
      BY <1>1, <1>2, <2>1, <2>2 DEF CodeInv, RowInv
  <1>4. \A i : Used(i) => Used(i)'
    BY <1>1, <1>2 DEF Used
  <1>5. CooldownHolds'
    BY <1>1, <1>4 DEF CodeInv, CooldownHolds, Hidden
  <1>6. LateInv'
    <2>1. \A d \in Clients : req'[d].at = "mail" => req'[d] = req[d]
      <3>1. \A d \in Clients \ {c} : req'[d] = req[d]
        BY DEF Use, Goes, TypeOK
      <3>2. req'[c].at = "account"
        <4>1. req[c] \in Request
          BY RequestTypes
        <4>2. req'[c] = [req[c] EXCEPT !.at = "account"]
          BY DEF Use, Goes, TypeOK
        <4>3. QED
          BY <4>1, <4>2 DEF Request
      <3>3. QED
        BY <3>1, <3>2
    <2>2. \A i, j : Holds(i, j)' => Holds(i, j)
      BY <1>1, <1>4 DEF Holds, Hidden
    <2>3. QED
      BY <1>1, <2>1, <2>2 DEF CodeInv, LateInv
  <1>7. QED
    BY <1>3, <1>5, <1>6 DEF CodeInv

LEMMA RestartLate ==
  ASSUME TypeOK, CodeInv, Restart
  PROVE  CodeInv'
  <1>1. /\ UNCHANGED <<kind, clock>>
        /\ \A c \in Clients : req'[c].at = "idle"
    BY DEF Restart, Idle
  <1>2. CASE UNCHANGED <<codes, mailed>>
    BY <1>1, <1>2, QuietStep, ListTypes
  <1>3. CASE /\ codes' = <<>>
             /\ mailed' = [i \in DOMAIN mailed |-> [mailed[i] EXCEPT !.kept = FALSE]]
    <2>1. DOMAIN mailed' = DOMAIN mailed /\ DOMAIN codes' = {}
      BY <1>3
    <2>2. \A i \in DOMAIN mailed : mailed'[i].at = mailed[i].at /\ ~mailed'[i].kept
      <3>1. \A i \in DOMAIN mailed : mailed[i] \in MailRecord
        BY ListTypes
      <3>2. \A x \in MailRecord : [x EXCEPT !.kept = FALSE].at = x.at /\ ~[x EXCEPT !.kept = FALSE].kept
        BY DEF MailRecord
      <3>3. QED
        BY <1>3, <3>1, <3>2
    <2>3. RowInv'
      BY <1>1, <2>1, <2>2 DEF CodeInv, RowInv
    <2>4. CooldownHolds' /\ LateInv'
      BY <1>1, <2>1, <2>2 DEF CooldownHolds, LateInv
    <2>5. QED
      BY <2>3, <2>4 DEF CodeInv
  <1>4. QED
    BY <1>2, <1>3 DEF Restart

LEMMA InitLate == Init => CodeInv
  <1> SUFFICES ASSUME Init PROVE CodeInv
    OBVIOUS
  <1>1. DOMAIN mailed = {} /\ DOMAIN codes = {}
    BY DEF Init
  <1>2. QED
    BY <1>1 DEF CodeInv, RowInv, LateInv, CooldownHolds

(* A request goes to where it mails nothing.                               *)
LEMMA AwayStep ==
  ASSUME TypeOK, CodeInv, NEW c \in Clients, NEW next, Goes(c, next), next.at # "mail",
         UNCHANGED <<kind, clock, mailed, codes>>
  PROVE  CodeInv'
  <1>1. req'[c] = next /\ \A d \in Clients \ {c} : req'[d] = req[d]
    BY DEF Goes, TypeOK
  <1>2. clock' \in Nat /\ clock <= clock'
    BY ListTypes
  <1>3. QED
    BY <1>1, <1>2, QuietStep

LEMMA AwayLate ==
  ASSUME TypeOK, CodeInv, NEW c \in Clients,
         \/ \E purpose \in Purposes : Ask(c, purpose)
         \/ ForgetSetting(c)
         \/ \E code \in DOMAIN mailed : Login(c, code) \/ Register(c, code)
         \/ Check(c) \/ TestSession(c) \/ Find(c) \/ Create(c)
  PROVE  CodeInv'
  <1>1. req[c] \in Request
    BY RequestTypes
  <1>2. UNCHANGED <<kind, clock, mailed, codes>>
    BY DEF Ask, ForgetSetting, Login, Register, Present, Check, TestSession, Find, Create
  <1>3. Idle.at # "mail"
    BY DEF Idle
  <1>4. \A purpose \in Purposes : Ask(c, purpose) => \E next : Goes(c, next) /\ next.at # "mail"
    <2>1. \A purpose, t : [Idle EXCEPT !.at = "wait", !.purpose = purpose, !.ttl = t].at # "mail"
      BY DEF Idle
    <2>2. QED
      BY <2>1 DEF Ask
  <1>5. ForgetSetting(c) => \E next : Goes(c, next) /\ next.at # "mail"
    <2>1. req[c].at = "wait" => [req[c] EXCEPT !.ttl = DefaultTTL].at # "mail"
      BY <1>1 DEF Request
    <2>2. QED
      BY <2>1 DEF ForgetSetting
  <1>6. \A handler, code : Present(c, handler, code) => \E next : Goes(c, next) /\ next.at # "mail"
    <2>1. \A handler, code :
            [Idle EXCEPT !.at = "check", !.kind = handler, !.purpose = handler, !.code = code].at # "mail"
      BY DEF Idle
    <2>2. QED
      BY <2>1 DEF Present
  <1>7. Check(c) => \E next : Goes(c, next) /\ next.at # "mail"
    <2>1. /\ req[c].at = "check" => [req[c] EXCEPT !.purpose = "register"].at # "mail"
          /\ \A step : step # "mail" => [req[c] EXCEPT !.at = step].at # "mail"
      BY <1>1 DEF Request
    <2>2. (IF kind = "postgres" THEN "use" ELSE "account") # "mail"
      OBVIOUS
    <2>3. QED
      BY <1>3, <2>1, <2>2 DEF Check, Rejects, Responds
  <1>8. TestSession(c) => \E next : Goes(c, next) /\ next.at # "mail"
    <2>1. [Idle EXCEPT !.at = "account", !.kind = "test"].at # "mail"
      BY DEF Idle
    <2>2. QED
      BY <2>1 DEF TestSession
  <1>9. Find(c) \/ Create(c) => \E next : Goes(c, next) /\ next.at # "mail"
    <2>1. [req[c] EXCEPT !.at = "create"].at # "mail"
      BY <1>1 DEF Request
    <2>2. QED
      BY <1>3, <2>1 DEF Find, Create, Responds
  <1>10. PICK next : Goes(c, next) /\ next.at # "mail"
    BY <1>4, <1>5, <1>6, <1>7, <1>8, <1>9 DEF Login, Register
  <1>11. QED
    BY <1>2, <1>10, AwayStep

LEMMA NextLate == AccountInv /\ CodeInv /\ [Next]_vars => CodeInv'
  <1> SUFFICES ASSUME AccountInv, CodeInv, [Next]_vars PROVE CodeInv'
    OBVIOUS
  <1>a. TypeOK /\ SendInv /\ MutexInv /\ clock \in Nat
    BY ListTypes DEF AccountInv
  <1>1. CASE UNCHANGED vars
    BY <1>a, <1>1, QuietStep DEF vars
  <1>2. ASSUME NEW c \in Clients, Handle(c) PROVE CodeInv'
    BY <1>a, <1>2, AwayLate, EnterLate, MailLate, SaveLate, UseLate DEF Handle
  <1>3. ASSUME NEW t \in TTLs, Configure(t) PROVE CodeInv'
    BY <1>a, <1>3, QuietStep DEF Configure
  <1>4. ASSUME Tick PROVE CodeInv'
    <2>1. clock' \in Nat /\ clock <= clock' /\ UNCHANGED <<kind, req, mailed, codes>>
      BY <1>a, <1>4 DEF Tick
    <2>2. QED
      BY <1>a, <2>1, QuietStep
  <1>5. QED
    BY <1>a, <1>1, <1>2, <1>3, <1>4, RestartLate DEF Next

(* Whatever is asked for at once, presented, configured or restarted: two  *)
(* mails of one purpose are a cooldown apart while the first one's code    *)
(* holds the second back (handleEmailSend asks, mails and saves under one  *)
(* mutex).                                                                 *)
THEOREM MailsKeepTheCooldown == Spec => []CooldownHolds
  <1>1. CodeInv => CooldownHolds
    BY DEF CodeInv
  <1>2. QED
    BY InitAccount, NextAccount, InitLate, NextLate, <1>1, PTL DEF Spec

(* Until it is used or runs out, the newest saved code of a purpose is the *)
(* one ValidateEmailCode accepts.                                          *)
THEOREM NewestCodeWorks == Spec => []LatestCodeWorks
  <1>1. TypeOK /\ RowInv => LatestCodeWorks
    <2> SUFFICES ASSUME TypeOK, RowInv, NEW i \in DOMAIN mailed,
                        mailed[i].kept, ~Used(i), clock <= mailed[i].at + mailed[i].ttl,
                        \A j \in DOMAIN mailed : j > i /\ mailed[j].kept => mailed[j].purpose # mailed[i].purpose
                 PROVE  Validates(mailed[i].purpose, i)
      BY DEF LatestCodeWorks
    <2>1. PICK l : l = Latest(mailed[i].purpose)
      OBVIOUS
    <2>2. /\ l \in DOMAIN codes /\ codes[l].purpose = mailed[i].purpose
          /\ codes[l].code \in DOMAIN mailed /\ i <= codes[l].code
      BY <2>1, OpenRow DEF Open
    <2>3. RowOf(l)
      BY <2>2 DEF RowInv
    <2>4. i \in Nat /\ codes[l].code \in Nat /\ l # 0
      BY <2>2, ListTypes
    <2>5. codes[l].code = i
      BY <2>2, <2>3, <2>4 DEF RowOf
    <2>6. clock <= codes[l].expires
      <3>1. /\ mailed[i].at \in Nat /\ mailed[i].ttl \in Nat /\ clock \in Nat
            /\ codes[l].created \in Nat /\ codes[l].expires \in Nat
        BY <2>2, ListTypes
      <3>2. QED
        BY <2>3, <2>5, <3>1 DEF RowOf
    <2>7. QED
      BY <2>1, <2>4, <2>5, <2>6 DEF Validates
  <1>2. AccountInv /\ CodeInv => LatestCodeWorks
    BY <1>1 DEF AccountInv, CodeInv
  <1>3. QED
    BY InitAccount, NextAccount, InitLate, NextLate, <1>2, PTL DEF Spec
=============================================================================
