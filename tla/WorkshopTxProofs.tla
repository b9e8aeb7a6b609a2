-------------------------- MODULE WorkshopTxProofs --------------------------
(***************************************************************************)
(* Two theorems about the transactions of the services, for any number of  *)
(* requests, users, lines and incidents, and whatever was changed between  *)
(* what a service read before its locks and what it reads under them, when *)
(* each user has one request served at a time.                             *)
(*                                                                         *)
(* Their locks never close a circle (LocksNeverCircle).  Their order is    *)
(* not enough: the event of a service locks its actor after the incident,  *)
(* and the forced archiving of a line locks its incidents in any order.    *)
(* That nobody waits there in a circle rests on who may own these rows,    *)
(* and so on where the incidents stand (ActiveOnLines).                    *)
(*                                                                         *)
(* Each of them is one step of Workshop (ServicesAreOneStep): what a       *)
(* service decided under its locks is still true of the tables when it     *)
(* commits, since no other commit changes a row that it rested on.         *)
(***************************************************************************)
EXTENDS WorkshopTx, FiniteSetTheorems, TLAPS

-----------------------------------------------------------------------------
(* The tables                                                              *)

IncidentColumns ==
  {"status", "user_id", "fields", "lineNumber", "takenBy", "waiting", "note", "priority",
   "comment", "editRequest", "cancelRequest"}

Live(inc) == inc.status \in {"OPEN", "PENDING"}

\* A declared incident stands on a line and may be asked to move to another.
Stands(inc) ==
  /\ DOMAIN inc = IncidentColumns
  /\ inc.status # "ABSENT" => inc.fields.lineId \in Lines
  /\ inc.editRequest # Null => inc.editRequest.lineId \in Lines \cup {Keep}

\* An active incident is on a line in service.
Tables(d) ==
  /\ DOMAIN d = {"incident", "case", "line", "user"}
  /\ DOMAIN d.incident = Incidents /\ DOMAIN d.line = Lines
  /\ \A l \in Lines : DOMAIN d.line[l] = {"status", "number", "machines"}
  /\ \A i \in Incidents :
       /\ Stands(d.incident[i])
       /\ Live(d.incident[i]) => d.line[d.incident[i].fields.lineId].status = "ACTIVE"

-----------------------------------------------------------------------------
(* One request                                                             *)

RequestFields ==
  {"op", "user", "role", "i", "l", "arg", "step", "context", "stale", "todo", "own", "share",
   "seen", "found", "write"}

LineOps == {"DISABLE_LINE", "FORCE_ARCHIVE"}
UserOps == {"DISABLE_USER", "CHANGE_ROLE"}
Movers == {"EDIT", "APPROVE_EDIT"}
Writers == {"CREATE"} \cup Movers

LineKeys == {OnLine(l) : l \in Lines}
IncidentKeys == {OnIncident(i) : i \in Incidents}

\* The rows that each service locks.
Plan(r) ==
  LET keys == r.todo \cup r.own
  IN /\ r.op = "CREATE" => r.l \in Lines /\ keys \subseteq {OnLine(r.l)}
     /\ r.op \in LineOps => r.l \in Lines /\ keys = {OnLine(r.l)}
     /\ r.op \in UserOps => r.l \in Users /\ keys \subseteq {OnUser(r.l)}
     /\ r.op = "TAKE" => keys \subseteq {OnUser(r.user), OnIncident(r.i)}
     /\ r.op \in {"CLOSE", "REQUEST_EDIT", "REJECT_EDIT"} => keys \subseteq {OnIncident(r.i)}
     /\ r.op \in Movers => keys \subseteq LineKeys \cup {OnIncident(r.i)}
     /\ r.op \in WorkshopOps \ {"CREATE"} => OnIncident(r.i) \in keys
     /\ r.op = "CANCEL_ALL" =>
          /\ r.l \in Lines /\ OnLine(r.l) \in r.own
          /\ r.todo \subseteq IncidentKeys /\ r.own \subseteq {OnLine(r.l)} \cup IncidentKeys

\* Lines ascending, the incident of a service last.
Ordered(r) ==
  /\ r.todo \cap r.own = {}
  /\ r.op \in WorkshopOps /\ OnIncident(r.i) \in r.own => r.todo = {}
  /\ \A j, k \in Lines : OnLine(j) \in r.own /\ OnLine(k) \in r.todo => j < k

\* Who asks for what, and how far the service has come.
Stage(r) ==
  /\ DOMAIN r = RequestFields
  /\ r.op \in WorkshopOps \cup LineOps \cup UserOps \cup {"CANCEL_ALL", "NONE"}
  /\ r.step \in {"idle", "context", "lock", "event", "commit"}
  /\ r.op = "NONE" => r = Idle
  /\ r.op \in WorkshopOps => r.user \in Users /\ r.i \in Incidents
  /\ r.op \notin WorkshopOps => r.user = Null /\ r.i = Null /\ r.step \notin {"context", "event"}
  /\ r.op = "FORCE_ARCHIVE" => r.step = "lock"
  /\ r.step = "context" => r.op \in Movers /\ r.own = {} /\ r.seen = {}
  /\ r.share # Null => r.step = "commit"
  /\ r.op # "CANCEL_ALL" => r.found = {}
  /\ r.op = "CREATE" => r.arg \in Places /\ r.l = r.arg.lineId
  /\ r.op \in {"EDIT", "REQUEST_EDIT"} => r.arg \in Corrections
  /\ \A s \in r.seen : s.key \in r.own
  /\ \A k \in r.own : \E s \in r.seen : s.key = k

\* What the service may rely on while it owns its rows.
Current(r, d) ==
  /\ \A s \in r.seen, i \in Incidents : s.key = OnIncident(i) => s.row = d.incident[i]
  /\ \A i \in Incidents : OnIncident(i) \in r.todo \cup r.own => d.incident[i].status # "ABSENT"
  /\ r.op = "CREATE" => d.incident[r.i].status = "ABSENT"
  /\ r.op \in Writers => \A l \in Lines : OnLine(l) \in r.own => d.line[l].status = "ACTIVE"
  /\ r.op \in Movers /\ r.step = "lock" =>
       /\ r.context \in Lines
       /\ OnLine(r.context) \in r.todo \cup r.own \/ d.line[r.context].status # "ACTIVE"

\* What a workshop service is about to write.
Writes(r, d) ==
  r.op \in WorkshopOps /\ r.step \in {"event", "commit"} =>
    /\ Stands(r.write) /\ r.write.status # "ABSENT"
    /\ r.op # "CREATE" => OnIncident(r.i) \in r.own
    /\ r.op \in Writers => OnLine(r.write.fields.lineId) \in r.own
    /\ r.op \in Movers => OnLine(d.incident[r.i].fields.lineId) \in r.own
    /\ r.op \in WorkshopOps \ Writers =>
         /\ r.write.fields = d.incident[r.i].fields
         /\ Live(r.write) => Live(d.incident[r.i])

\* What the services of a line counted.
Counted(r, d) ==
  LET on(i) == Live(d.incident[i]) /\ d.incident[i].fields.lineId = r.l
  IN /\ r.op = "DISABLE_LINE" /\ r.step = "commit" =>
          OnLine(r.l) \in r.own /\ \A i \in Incidents : ~on(i)
     /\ r.op = "CANCEL_ALL" =>
          /\ \A i \in Incidents :
               OnIncident(i) \in r.todo \cup r.own => d.incident[i].fields.lineId = r.l
          /\ r.step = "lock" => \A i \in Incidents : on(i) => OnIncident(i) \in r.todo \cup r.own
          /\ r.step = "commit" =>
               /\ \A i \in Incidents : on(i) => i \in r.found
               /\ \A i \in r.found : i \in Incidents /\ OnIncident(i) \in r.own

Fits(r, d) ==
  Stage(r) /\ Plan(r) /\ Ordered(r) /\ Current(r, d) /\ Writes(r, d) /\ Counted(r, d)

\* Two requests own no row in common, and are of different users; the identity of
\* a new incident is known to its request alone.
Apart(q, r) ==
  /\ q.own \cap r.own = {}
  /\ q.op \in WorkshopOps /\ r.op \in WorkshopOps => q.user # r.user
  /\ q.op = "CREATE" \/ r.op = "CREATE" => q.i # r.i

TxInv ==
  /\ Tables(db)
  /\ DOMAIN tx = Txs
  /\ \A t \in Txs : Fits(tx[t], db)
  /\ \A t, o \in Txs : t # o => Apart(tx[t], tx[o])

-----------------------------------------------------------------------------
(* A step of one request                                                   *)

LEMMA LinesAreNumbers == Lines \subseteq Nat
BY RequestsOK

LEMMA RequestsNameLines ==
  /\ \A d \in Places : d.lineId \in Lines
  /\ \A p \in Corrections : p.lineId \in Lines \cup {Keep}
BY RequestsOK DEF W!Description, W!EditPayload

LEMMA IdleFits ==
  ASSUME NEW d
  PROVE  Fits(Idle, d)
<1>1. Stage(Idle) /\ Plan(Idle) /\ Ordered(Idle)
  BY DEF Stage, Plan, Ordered, Idle, RequestFields, WorkshopOps, LineOps, UserOps, Movers
<1>2. Current(Idle, d) /\ Writes(Idle, d) /\ Counted(Idle, d)
  BY DEF Current, Writes, Counted, Idle, Writers, Movers, WorkshopOps
<1> QED
  BY <1>1, <1>2 DEF Fits

LEMMA StepKept ==
  ASSUME TxInv, NEW t \in Txs, NEW r, tx' = [tx EXCEPT ![t] = r], db' = db, Fits(r, db),
         \A o \in Txs \ {t} : Apart(r, tx[o])
  PROVE  TxInv'
<1>1. DOMAIN tx' = Txs /\ tx'[t] = r /\ \A o \in Txs \ {t} : tx'[o] = tx[o]
  BY DEF TxInv
<1>2. \A o \in Txs : Fits(tx'[o], db')
  BY <1>1 DEF TxInv
<1>3. \A p, o \in Txs : p # o => Apart(tx'[p], tx'[o])
  <2>1. \A o \in Txs \ {t} : Apart(tx[o], r)
    BY DEF Apart
  <2> QED
    BY <1>1, <2>1 DEF TxInv
<1>4. Tables(db')
  BY DEF TxInv
<1> QED
  BY <1>1, <1>2, <1>3, <1>4 DEF TxInv

\* A request that goes on with no more rows than it owns stays apart from the others.
LEMMA GoesOnApart ==
  ASSUME TxInv, NEW t \in Txs, NEW r, r.own \subseteq tx[t].own,
         r.op \in WorkshopOps => tx[t].op \in WorkshopOps,
         r.op = "CREATE" => tx[t].op = "CREATE",
         r.user = tx[t].user, r.i = tx[t].i
  PROVE  \A o \in Txs \ {t} : Apart(r, tx[o])
<1> SUFFICES ASSUME NEW o \in Txs, o # t PROVE Apart(r, tx[o])
  OBVIOUS
<1>1. Apart(tx[t], tx[o])
  BY DEF TxInv
<1> QED
  BY <1>1 DEF Apart

LEMMA EndKept ==
  ASSUME TxInv, NEW t \in Txs, End(t), UNCHANGED db
  PROVE  TxInv'
<1>1. Idle.own = {} /\ Idle.op = "NONE" /\ Idle.i = Null
  BY DEF Idle
<1>2. \A o \in Txs : Stage(tx[o]) /\ Null \notin Incidents
  BY RequestsOK DEF TxInv, Fits
<1>3. \A o \in Txs \ {t} : Apart(Idle, tx[o])
  BY <1>1, <1>2 DEF Apart, Stage, WorkshopOps
<1> QED
  BY <1>3, IdleFits, StepKept DEF End

-----------------------------------------------------------------------------
(* A request begins                                                        *)

LEMMA OneRequestPerUser ==
  ASSUME MaxPerUser = 1, NEW u \in Users, Cardinality(Owner(u)) < MaxPerUser
  PROVE  \A t \in Txs : Active(t) => tx[t].user # u
<1>1. IsFiniteSet(Owner(u)) /\ Cardinality(Owner(u)) \in Nat
  BY RequestsOK, FS_Subset, FS_CardinalityType DEF Owner
<1>2. Owner(u) = {}
  BY <1>1, FS_EmptySet
<1> QED
  BY <1>2 DEF Owner

LEMMA AdmitKept ==
  ASSUME TxInv, MaxPerUser = 1, NEW t \in Txs, NEW u \in Users, NEW op, NEW i \in Incidents,
         NEW l, NEW arg, Admit(t, u, op, i, l, arg),
         \/ /\ op = "CREATE" /\ arg \in Places /\ l = arg.lineId
            /\ db.incident[i].status = "ABSENT" /\ \A o \in Txs : tx[o].i # i
         \/ /\ op \in {"TAKE", "CLOSE", "APPROVE_EDIT", "REJECT_EDIT"}
            /\ db.incident[i].status # "ABSENT"
         \/ /\ op \in {"EDIT", "REQUEST_EDIT"} /\ arg \in Corrections
            /\ db.incident[i].status # "ABSENT"
  PROVE  TxInv'
<1> DEFINE r == [Idle EXCEPT
       !.op = op, !.user = u, !.role = db.user[u].role, !.i = i, !.l = l, !.arg = arg,
       !.step = IF op \in {"EDIT", "APPROVE_EDIT"} THEN "context" ELSE "lock",
       !.todo = CASE op = "CREATE" -> {OnLine(l)}
                  [] op = "TAKE" -> {OnUser(u), OnIncident(i)}
                  [] OTHER -> {OnIncident(i)}]
<1>1. tx[t] = Idle /\ tx' = [tx EXCEPT ![t] = r] /\ db' = db
  BY Zenon DEF Admit, Begin
<1>2. op \in WorkshopOps
  BY DEF WorkshopOps
<1>3. /\ DOMAIN r = RequestFields /\ r.op = op /\ r.user = u /\ r.i = i /\ r.l = l /\ r.arg = arg
      /\ r.step = (IF op \in Movers THEN "context" ELSE "lock")
      /\ r.own = {} /\ r.seen = {} /\ r.share = Null /\ r.found = {}
  BY DEF Idle, RequestFields, Movers
<1>4. /\ op = "CREATE" => r.todo = {OnLine(l)}
      /\ op = "TAKE" => r.todo = {OnUser(u), OnIncident(i)}
      /\ op \in WorkshopOps \ {"CREATE", "TAKE"} => r.todo = {OnIncident(i)}
  BY DEF Idle, WorkshopOps
<1> HIDE DEF r
<1>5. Stage(r)
  BY <1>2, <1>3 DEF Stage, WorkshopOps, Movers
<1>6. Plan(r)
  BY <1>2, <1>3, <1>4, RequestsOK, RequestsNameLines DEF Plan, WorkshopOps, Movers, LineOps, UserOps
<1>7. Ordered(r)
  BY <1>3 DEF Ordered
<1>8. Current(r, db)
  <2>1. \A j \in Incidents : OnIncident(j) \in r.todo => db.incident[j].status # "ABSENT"
    BY <1>2, <1>4 DEF WorkshopOps, OnIncident, OnLine, OnUser
  <2> QED
    BY <2>1, <1>3 DEF Current, Movers
<1>9. Writes(r, db) /\ Counted(r, db)
  BY <1>2, <1>3 DEF Writes, Counted, WorkshopOps
<1>10. \A o \in Txs \ {t} : Apart(r, tx[o])
  <2> SUFFICES ASSUME NEW o \in Txs, o # t PROVE Apart(r, tx[o])
    OBVIOUS
  <2>1. tx[o].op \in WorkshopOps => tx[o].user # u
    BY OneRequestPerUser DEF Admit, Active, WorkshopOps
  <2>2. op = "CREATE" \/ tx[o].op = "CREATE" => tx[o].i # i
    <3>1. Current(tx[o], db)
      BY DEF TxInv, Fits
    <3> QED
      BY <3>1 DEF Current
  <2> QED
    BY <2>1, <2>2, <1>3 DEF Apart
<1> QED
  BY <1>1, <1>5, <1>6, <1>7, <1>8, <1>9, <1>10, StepKept DEF Fits

LEMMA AdminRequestKept ==
  ASSUME TxInv, NEW t \in Txs, AdminRequest(t)
  PROVE  TxInv'
<1>1. ASSUME NEW r, Begin(t, r), DOMAIN r = RequestFields, r.op \in LineOps \cup UserOps,
             r.op \in LineOps => r.l \in Lines /\ r.todo = {OnLine(r.l)},
             r.op \in UserOps => r.l \in Users /\ r.todo = {OnUser(r.l)},
             r.user = Null, r.i = Null, r.step = "lock", r.own = {}, r.seen = {}, r.share = Null,
             r.found = {}
      PROVE  TxInv'
  <2>1. Stage(r) /\ Plan(r) /\ Ordered(r)
    BY <1>1 DEF Stage, Plan, Ordered, WorkshopOps, LineOps, UserOps, Movers
  <2>2. Current(r, db)
    BY <1>1 DEF Current, LineOps, UserOps, Writers, Movers, OnIncident, OnLine, OnUser
  <2>3. Writes(r, db) /\ Counted(r, db)
    BY <1>1 DEF Writes, Counted, WorkshopOps, LineOps, UserOps
  <2>4. \A o \in Txs \ {t} : Apart(r, tx[o])
    <3>1. \A o \in Txs : Stage(tx[o]) /\ Null \notin Incidents
      BY RequestsOK DEF TxInv, Fits
    <3> QED
      BY <1>1, <3>1 DEF Apart, Stage, WorkshopOps, LineOps, UserOps
  <2> QED
    BY <1>1, <2>1, <2>2, <2>3, <2>4, StepKept DEF Begin, Fits
<1>2. ASSUME NEW l \in Lines, NEW op \in {"DISABLE_LINE", "FORCE_ARCHIVE"},
             Begin(t, [Idle EXCEPT !.op = op, !.l = l, !.step = "lock", !.todo = {OnLine(l)}])
      PROVE  TxInv'
  <2> DEFINE r == [Idle EXCEPT !.op = op, !.l = l, !.step = "lock", !.todo = {OnLine(l)}]
  <2>1. /\ DOMAIN r = RequestFields /\ r.op \in LineOps /\ r.l = l /\ r.todo = {OnLine(l)}
        /\ r.user = Null /\ r.i = Null /\ r.step = "lock" /\ r.own = {} /\ r.seen = {}
        /\ r.share = Null /\ r.found = {} /\ Begin(t, r) /\ r.op \notin UserOps
    BY <1>2 DEF Idle, RequestFields, LineOps, UserOps
  <2> HIDE DEF r
  <2> QED
    BY <1>1, <2>1
<1>3. ASSUME NEW u \in Users, NEW role,
             Begin(t, [Idle EXCEPT !.op = IF role = Null THEN "DISABLE_USER" ELSE "CHANGE_ROLE",
                                   !.l = u, !.arg = role, !.step = "lock",
                                   !.todo = {OnUser(u)}])
      PROVE  TxInv'
  <2> DEFINE r == [Idle EXCEPT !.op = IF role = Null THEN "DISABLE_USER" ELSE "CHANGE_ROLE",
                               !.l = u, !.arg = role, !.step = "lock", !.todo = {OnUser(u)}]
  <2>1. /\ DOMAIN r = RequestFields /\ r.op \in UserOps /\ r.l = u /\ r.todo = {OnUser(u)}
        /\ r.user = Null /\ r.i = Null /\ r.step = "lock" /\ r.own = {} /\ r.seen = {}
        /\ r.share = Null /\ r.found = {} /\ Begin(t, r) /\ r.op \notin LineOps
    BY <1>3 DEF Idle, RequestFields, LineOps, UserOps
  <2> HIDE DEF r
  <2> QED
    BY <1>1, <2>1
<1> QED
  BY <1>2, <1>3, Zenon DEF AdminRequest

LEMMA RequestKept ==
  ASSUME TxInv, MaxPerUser = 1, NEW t \in Txs, WorkshopRequest(t)
  PROVE  TxInv'
<1> PICK u \in Users, i \in Incidents :
      IF db.incident[i].status = "ABSENT"
      THEN /\ \A o \in Txs : tx[o].i # i
           /\ \E d \in Places : Admit(t, u, "CREATE", i, d.lineId, d)
      ELSE \/ \E op \in {"TAKE", "CLOSE", "APPROVE_EDIT", "REJECT_EDIT"} :
                Admit(t, u, op, i, Null, Null)
           \/ \E op \in {"EDIT", "REQUEST_EDIT"}, p \in Corrections :
                Admit(t, u, op, i, Null, p)
  BY Zenon DEF WorkshopRequest
<1>1. CASE db.incident[i].status = "ABSENT"
  BY <1>1, AdmitKept, Zenon
<1>2. CASE db.incident[i].status # "ABSENT"
  BY <1>2, AdmitKept, Zenon
<1> QED
  BY <1>1, <1>2

-----------------------------------------------------------------------------
(* Reads and locks                                                         *)

\* What a service read of a row that it owns.
LEMMA SeenIsCurrent ==
  ASSUME TxInv, NEW t \in Txs, NEW i \in Incidents, OnIncident(i) \in tx[t].own
  PROVE  Seen(t, OnIncident(i)) = db.incident[i]
<1>1. Stage(tx[t]) /\ Current(tx[t], db)
  BY DEF TxInv, Fits
<1>2. PICK s \in tx[t].seen : s.key = OnIncident(i)
  BY <1>1 DEF Stage
<1>3. LET s2 == CHOOSE s3 \in tx[t].seen : s3.key = OnIncident(i)
      IN s2 \in tx[t].seen /\ s2.key = OnIncident(i)
  BY <1>2
<1> QED
  BY <1>1, <1>3 DEF Current, Seen

LEMMA ContextKept ==
  ASSUME TxInv, NEW t \in Txs, Context(t)
  PROVE  TxInv'
<1> DEFINE inc == db.incident[tx[t].i]
           p == IF tx[t].op = "EDIT" THEN tx[t].arg ELSE inc.editRequest
           to == IF p = Null \/ p.lineId = Keep THEN inc.fields.lineId ELSE p.lineId
           r == [tx[t] EXCEPT !.step = "lock", !.context = inc.fields.lineId,
                   !.todo = {OnLine(inc.fields.lineId), OnLine(to), OnIncident(tx[t].i)}]
<1>0. Fits(tx[t], db)
  BY DEF TxInv
<1>1. tx[t].step = "context" /\ tx' = [tx EXCEPT ![t] = r] /\ db' = db
  <2>1. DOMAIN tx = Txs
    BY DEF TxInv
  <2> QED
    BY <2>1 DEF Context
<1>2. /\ DOMAIN tx[t] = RequestFields /\ tx[t].op \in Movers /\ tx[t].own = {} /\ tx[t].seen = {}
      /\ tx[t].i \in Incidents /\ tx[t].user \in Users /\ tx[t].share = Null
      /\ tx[t].found = {}
      /\ tx[t].op = "EDIT" => tx[t].arg \in Corrections
  BY <1>0, <1>1 DEF Fits, Stage, Movers, WorkshopOps
<1>3. inc.status # "ABSENT" /\ Stands(inc)
  BY <1>0, <1>2 DEF Fits, Plan, Current, TxInv, Tables, Movers, WorkshopOps
<1>4. inc.fields.lineId \in Lines /\ to \in Lines
  BY <1>2, <1>3, RequestsNameLines DEF Stands, Movers
<1>5. /\ DOMAIN r = RequestFields /\ r.op = tx[t].op /\ r.user = tx[t].user /\ r.i = tx[t].i
      /\ r.arg = tx[t].arg /\ r.step = "lock" /\ r.context = inc.fields.lineId
      /\ r.todo = {OnLine(inc.fields.lineId), OnLine(to), OnIncident(tx[t].i)}
      /\ r.own = {} /\ r.seen = {} /\ r.share = Null /\ r.found = {}
  BY <1>2 DEF RequestFields
<1> HIDE DEF r, to, p
<1>6. Stage(r) /\ Ordered(r)
  BY <1>2, <1>5 DEF Stage, Ordered, WorkshopOps, Movers, LineOps, UserOps
<1>7. Plan(r)
  BY <1>2, <1>4, <1>5 DEF Plan, WorkshopOps, Movers, LineOps, UserOps, LineKeys
<1>8. Current(r, db)
  BY <1>2, <1>3, <1>4, <1>5 DEF Current, Movers, OnIncident, OnLine
<1>9. Writes(r, db) /\ Counted(r, db)
  BY <1>2, <1>5 DEF Writes, Counted, Movers
<1>10. \A o \in Txs \ {t} : Apart(r, tx[o])
  BY <1>2, <1>5, GoesOnApart
<1> QED
  BY <1>1, <1>6, <1>7, <1>8, <1>9, <1>10, StepKept DEF Fits

\* The rows that a request may still lock.
LEMMA KeysToLock ==
  ASSUME NEW r, NEW d, Fits(r, d), NEW k \in r.todo
  PROVE  \/ \E l \in Lines : k = OnLine(l)
         \/ \E u \in Users : k = OnUser(u)
         \/ \E i \in Incidents : k = OnIncident(i)
<1>1. CASE r.op \in WorkshopOps
  BY <1>1, RequestsOK DEF Fits, Plan, Stage, WorkshopOps, LineKeys, Movers
<1>2. CASE r.op \in LineOps \cup UserOps
  BY <1>2 DEF Fits, Plan
<1>3. CASE r.op = "CANCEL_ALL"
  BY <1>3 DEF Fits, Plan, IncidentKeys
<1>4. CASE r.op = "NONE"
  BY <1>4 DEF Fits, Stage, Idle
<1> QED
  BY <1>1, <1>2, <1>3, <1>4 DEF Fits, Stage

LEMMA LineSkipped ==
  ASSUME TxInv, NEW t \in Txs, NEW k \in Firsts(tx[t].todo), tx[t].step = "lock",
         Skipped(t, k), tx' = [tx EXCEPT ![t].todo = @ \ {k}], UNCHANGED db
  PROVE  TxInv'
<1> DEFINE q == tx[t]
           r == [q EXCEPT !.todo = @ \ {k}]
<1>0. Fits(q, db) /\ k \in q.todo
  BY DEF TxInv, Firsts
<1>1. tx' = [tx EXCEPT ![t] = r]
  BY DEF TxInv
<1>2. PICK l \in Lines : k = OnLine(l) /\ db.line[l].status # "ACTIVE"
  BY <1>0, KeysToLock DEF Skipped, OnLine, OnUser, OnIncident
<1>3. q.op \in Writers /\ q.op \in WorkshopOps
  BY DEF Skipped, Writers, Movers, WorkshopOps
<1>4. /\ DOMAIN r = RequestFields /\ r.todo = q.todo \ {k} /\ r.own = q.own
      /\ r.op = q.op /\ r.user = q.user /\ r.i = q.i /\ r.l = q.l /\ r.arg = q.arg
      /\ r.step = q.step /\ r.context = q.context /\ r.share = q.share /\ r.seen = q.seen
      /\ r.found = q.found
  BY <1>0 DEF Fits, Stage, RequestFields
<1> HIDE DEF r
<1>5. Stage(r)
  BY <1>0, <1>3, <1>4 DEF Fits, Stage, WorkshopOps
<1>6. Plan(r)
  BY <1>0, <1>2, <1>3, <1>4 DEF Fits, Plan, Writers, Movers, WorkshopOps, LineOps, UserOps, OnLine,
     OnIncident
<1>7. Ordered(r)
  BY <1>0, <1>4 DEF Fits, Ordered
<1>8. Current(r, db)
  BY <1>0, <1>2, <1>4 DEF Fits, Current, OnLine
<1>9. Writes(r, db) /\ Counted(r, db)
  BY <1>0, <1>3, <1>4 DEF Writes, Counted, WorkshopOps
<1>10. \A o \in Txs \ {t} : Apart(r, tx[o])
  BY <1>3, <1>4, GoesOnApart
<1> QED
  BY <1>1, <1>5, <1>6, <1>7, <1>8, <1>9, <1>10, StepKept DEF Fits

LEMMA RowLocked ==
  ASSUME TxInv, NEW t \in Txs, NEW k \in Firsts(tx[t].todo), tx[t].step = "lock",
         ~Skipped(t, k), Free(t, k, "UPDATE"),
         tx' = [tx EXCEPT ![t].todo = @ \ {k}, ![t].own = @ \cup {k},
                          ![t].seen = @ \cup {[key |-> k, row |-> Row(k)]}],
         UNCHANGED db
  PROVE  TxInv'
<1> DEFINE q == tx[t]
           s == [key |-> k, row |-> Row(k)]
           r == [q EXCEPT !.todo = @ \ {k}, !.own = @ \cup {k}, !.seen = @ \cup {s}]
<1>0. Fits(q, db) /\ k \in q.todo
  BY DEF TxInv, Firsts
<1>1. tx' = [tx EXCEPT ![t] = r]
  BY DEF TxInv
<1>2. \/ \E l \in Lines : k = OnLine(l)
      \/ \E u \in Users : k = OnUser(u)
      \/ \E i \in Incidents : k = OnIncident(i)
  BY <1>0, KeysToLock
<1>3. \A i \in Incidents : k = OnIncident(i) => s.row = db.incident[i]
  BY DEF Row, OnIncident
<1>4. s.key = k
  OBVIOUS
<1>5. /\ DOMAIN r = RequestFields /\ r.todo = q.todo \ {k} /\ r.own = q.own \cup {k}
      /\ r.op = q.op /\ r.user = q.user /\ r.i = q.i /\ r.l = q.l /\ r.arg = q.arg
      /\ r.step = q.step /\ r.context = q.context /\ r.share = q.share
      /\ r.seen = q.seen \cup {s} /\ r.found = q.found
  BY <1>0 DEF Fits, Stage, RequestFields
<1>6. q.step = "lock" /\ r.todo \cup r.own = q.todo \cup q.own
  BY <1>0, <1>5
<1> HIDE DEF r, s
<1>7. Stage(r)
  BY <1>0, <1>4, <1>5, <1>6 DEF Fits, Stage, Idle
<1>8. Plan(r)
  <2>1. r.op = "CANCEL_ALL" => k \in IncidentKeys
    BY <1>0, <1>5 DEF Fits, Plan
  <2> QED
    BY <1>0, <1>5, <1>6, <2>1 DEF Fits, Plan
<1>9. Ordered(r)
  <2>1. k \notin q.own
    BY <1>0 DEF Fits, Ordered
  <2>2. r.op \in WorkshopOps /\ k = OnIncident(r.i) => r.todo = {}
    <3> SUFFICES ASSUME r.op \in WorkshopOps, k = OnIncident(r.i), NEW j \in r.todo PROVE FALSE
      OBVIOUS
    <3>1. j \in q.todo /\ j # k /\ ~Precedes(j, k)
      BY <1>5 DEF Firsts
    <3>2. \/ \E l \in Lines : j = OnLine(l)
          \/ \E u \in Users : j = OnUser(u)
          \/ j = OnIncident(r.i)
      BY <1>0, <1>5, <3>1 DEF Fits, Plan, Stage, WorkshopOps, LineKeys, Movers
    <3> QED
      BY <3>1, <3>2 DEF Precedes, OnLine, OnUser, OnIncident
  <2>3. \A a \in Lines, b \in Lines : k = OnLine(a) /\ OnLine(b) \in r.todo => a < b
    <3> SUFFICES ASSUME NEW a \in Lines, NEW b \in Lines, k = OnLine(a), OnLine(b) \in r.todo
                 PROVE  a < b
      OBVIOUS
    <3>1. OnLine(b) # OnLine(a) /\ ~Precedes(OnLine(b), OnLine(a))
      BY <1>5 DEF Firsts
    <3>2. a # b /\ ~(b < a)
      BY <3>1 DEF Precedes, OnLine
    <3> QED
      BY <3>2, LinesAreNumbers
  <2> QED
    BY <1>0, <1>5, <2>1, <2>2, <2>3 DEF Fits, Ordered
<1>10. Current(r, db)
  <2>1. r.op \in Writers => \A l \in Lines : k = OnLine(l) => db.line[l].status = "ACTIVE"
    BY <1>5 DEF Skipped, Writers, Movers, OnLine
  <2>2. \A x \in r.seen, i \in Incidents : x.key = OnIncident(i) => x.row = db.incident[i]
    BY <1>0, <1>3, <1>4, <1>5 DEF Fits, Current
  <2> QED
    BY <1>0, <1>5, <1>6, <2>1, <2>2 DEF Fits, Current
<1>11. Writes(r, db) /\ Counted(r, db)
  BY <1>0, <1>5, <1>6 DEF Fits, Writes, Counted
<1>12. \A o \in Txs \ {t} : Apart(r, tx[o])
  <2> SUFFICES ASSUME NEW o \in Txs, o # t PROVE Apart(r, tx[o])
    OBVIOUS
  <2>1. Apart(q, tx[o]) /\ k \notin tx[o].own
    BY DEF TxInv, Free, Conflicts
  <2> QED
    BY <1>5, <2>1 DEF Apart
<1> QED
  BY <1>1, <1>7, <1>8, <1>9, <1>10, <1>11, <1>12, StepKept DEF Fits

LEMMA LockKept ==
  ASSUME TxInv, NEW t \in Txs, Lock(t)
  PROVE  TxInv'
BY LineSkipped, RowLocked, Zenon DEF Lock

-----------------------------------------------------------------------------
(* What the services decide                                                *)

\* A request that goes on as it is, but for its step and what it will write.
LEMMA GoesOn ==
  ASSUME TxInv, NEW t \in Txs, NEW r, tx' = [tx EXCEPT ![t] = r], UNCHANGED db,
         DOMAIN r = RequestFields, tx[t].step # "context", tx[t].op # "NONE",
         \A f \in RequestFields \ {"step", "write", "share", "found"} : r[f] = tx[t][f],
         r.step \in {"event", "commit"},
         r.step = "event" => r.op \in WorkshopOps,
         r.op # "FORCE_ARCHIVE",
         r.share # Null => r.step = "commit",
         r.op # "CANCEL_ALL" => r.found = {},
         Writes(r, db), Counted(r, db)
  PROVE  TxInv'
<1>0. Fits(tx[t], db)
  BY DEF TxInv
<1>1. /\ r.op = tx[t].op /\ r.user = tx[t].user /\ r.i = tx[t].i /\ r.l = tx[t].l
      /\ r.arg = tx[t].arg /\ r.context = tx[t].context /\ r.todo = tx[t].todo
      /\ r.own = tx[t].own /\ r.seen = tx[t].seen
  BY DEF RequestFields
<1>2. Stage(r)
  BY <1>0, <1>1 DEF Fits, Stage
<1>3. Plan(r) /\ Ordered(r)
  BY <1>0, <1>1 DEF Fits, Plan, Ordered
<1>4. Current(r, db)
  BY <1>0, <1>1 DEF Fits, Current
<1>5. \A o \in Txs \ {t} : Apart(r, tx[o])
  BY <1>1, GoesOnApart
<1> QED
  BY <1>2, <1>3, <1>4, <1>5, StepKept DEF Fits

\* What each service writes, when it is allowed to.
LEMMA AllowedWrites ==
  ASSUME TxInv, NEW t \in Txs, Locked(t, WorkshopOps), Allowed(t),
         NEW r, r.op = tx[t].op, r.i = tx[t].i, r.own = tx[t].own, r.write = Written(t)
  PROVE  Writes(r, db)
<1> DEFINE q == tx[t]
           inc == db.incident[q.i]
<1>0. Fits(q, db) /\ q.todo = {} /\ q.step = "lock" /\ q.op \in WorkshopOps
  BY DEF TxInv, Locked
<1>1. q.i \in Incidents /\ q.user \in Users /\ Stands(inc) /\ Null \notin Incidents
  BY <1>0, RequestsOK DEF Fits, Stage, TxInv, Tables
<1>2. Stands(inc) /\ (Live(inc) => db.line[inc.fields.lineId].status = "ACTIVE")
  BY <1>1 DEF TxInv, Tables
<1>3. ASSUME NEW d, Selects(t, d), q.op \in Writers
      PROVE  OnLine(d.lineId) \in q.own /\ d.lineId \in Lines
  <2>1. OnLine(d.lineId) \in q.own
    BY <1>3 DEF Selects, Holds
  <2>2. \/ OnLine(d.lineId) \in LineKeys \cup {OnIncident(q.i)}
        \/ q.l \in Lines /\ OnLine(d.lineId) = OnLine(q.l)
    BY <1>0, <1>3, <2>1 DEF Fits, Plan, Writers, Movers
  <2> QED
    BY <2>1, <2>2 DEF LineKeys, OnLine, OnIncident
<1>4. CASE q.op = "CREATE"
  <2>1. Selects(t, q.arg)
    BY <1>4 DEF Allowed
  <2>2. OnLine(q.arg.lineId) \in q.own /\ q.arg.lineId \in Lines
    BY <1>3, <1>4, <2>1 DEF Writers
  <2>3. r.write = Numbered(t, [W!NoIncident EXCEPT !.status = "OPEN", !.user_id = q.user], q.arg)
    BY <1>4 DEF Written
  <2>4. /\ DOMAIN r.write = IncidentColumns /\ r.write.status = "OPEN" /\ r.write.fields = q.arg
        /\ r.write.editRequest = Null
    BY <2>3 DEF Numbered, W!NoIncident, IncidentColumns
  <2> QED
    BY <1>4, <2>2, <2>4 DEF Writes, Stands, Writers, Movers
<1>5. CASE q.op # "CREATE"
  <2>1. OnIncident(q.i) \in q.own /\ Seen(t, OnIncident(q.i)) = inc
    <3>1. OnIncident(q.i) \in q.own
      BY <1>0, <1>5 DEF Fits, Plan
    <3> QED
      BY <1>1, <3>1, SeenIsCurrent
  <2>2. inc.status # "ABSENT" /\ inc.fields.lineId \in Lines
    BY <1>0, <1>1, <2>1 DEF Fits, Current, Stands
  <2>3. CASE q.op \in WorkshopOps \ Writers
    <3>1. /\ DOMAIN r.write = IncidentColumns /\ r.write.fields = inc.fields
          /\ r.write.status \in {inc.status, "CLOSED"}
          /\ \/ r.write.editRequest \in {inc.editRequest, Null}
             \/ q.op = "REQUEST_EDIT" /\ r.write.editRequest = W!Changed(q.arg, inc.fields)
      <4>1. CASE q.op = "TAKE"
        BY <1>2, <2>1, <4>1 DEF Written, Stands, IncidentColumns
      <4>2. CASE q.op = "CLOSE"
        <5>1. PICK n : r.write = [inc EXCEPT !.status = "CLOSED", !.note = n]
          BY <2>1, <4>2, Zenon DEF Written
        <5> QED
          BY <1>2, <5>1 DEF Stands, IncidentColumns
      <4>3. CASE q.op = "REQUEST_EDIT"
        BY <1>2, <2>1, <4>3 DEF Written, Stands, IncidentColumns
      <4>4. CASE q.op = "REJECT_EDIT"
        BY <1>2, <2>1, <4>4 DEF Written, Stands, IncidentColumns
      <4> QED
        BY <1>0, <2>3, <4>1, <4>2, <4>3, <4>4 DEF WorkshopOps, Writers, Movers
    <3>2. q.op = "REQUEST_EDIT" => W!Changed(q.arg, inc.fields).lineId \in Lines \cup {Keep}
      <4>1. q.op = "REQUEST_EDIT" => q.arg \in Corrections
        BY <1>0 DEF Fits, Stage
      <4> QED
        BY <4>1, RequestsNameLines DEF W!Changed, W!EditFields
    <3>3. Stands(r.write) /\ r.write.status # "ABSENT"
      BY <1>2, <2>2, <3>1, <3>2 DEF Stands
    <3>4. Live(r.write) => Live(inc)
      BY <3>1 DEF Live
    <3> QED
      BY <2>1, <2>3, <3>1, <3>3, <3>4 DEF Writes, Writers
  <2>4. CASE q.op \in Movers
    <3> DEFINE p == IF q.op = "EDIT" THEN q.arg ELSE inc.editRequest
               d == W!Merge(p, inc.fields)
    <3>1. Live(inc) /\ q.context = inc.fields.lineId /\ Selects(t, d)
      <4>1. CASE q.op = "EDIT"
        BY <2>1, <4>1 DEF Allowed, W!CanEdit, W!IsActiveIncident, W!ActiveStatuses, Live
      <4>2. CASE q.op = "APPROVE_EDIT"
        BY <2>1, <4>2 DEF Allowed, W!CanDecideEdit, W!IsActiveIncident, W!ActiveStatuses, Live
      <4> QED
        BY <2>4, <4>1, <4>2 DEF Movers
    <3>2. OnLine(d.lineId) \in q.own /\ d.lineId \in Lines
      <4> HIDE DEF d
      <4> QED
        BY <1>3, <2>4, <3>1 DEF Writers
    <3>3. OnLine(inc.fields.lineId) \in q.own
      BY <1>0, <1>2, <2>4, <3>1 DEF Fits, Current
    <3> HIDE DEF d, p
    <3>4. /\ DOMAIN r.write = IncidentColumns /\ r.write.fields = d
          /\ r.write.status = inc.status /\ r.write.editRequest \in {inc.editRequest, Null}
      <4>0. PICK n : Numbered(t, inc, d) = [inc EXCEPT !.fields = d, !.lineNumber = n]
        BY Zenon DEF Numbered
      <4>1. CASE q.op = "EDIT"
        <5>1. r.write = Numbered(t, inc, d)
          BY <2>1, <4>1 DEF Written, d, p
        <5> QED
          BY <1>2, <4>0, <5>1 DEF Stands, IncidentColumns
      <4>2. CASE q.op = "APPROVE_EDIT"
        <5>1. r.write = [Numbered(t, inc, d) EXCEPT !.editRequest = Null]
          BY <2>1, <4>2 DEF Written, d, p
        <5> QED
          BY <1>2, <4>0, <5>1 DEF Stands, IncidentColumns
      <4> QED
        BY <2>4, <4>1, <4>2 DEF Movers
    <3>5. Stands(r.write) /\ r.write.status # "ABSENT"
      BY <1>2, <2>2, <3>2, <3>4 DEF Stands
    <3> QED
      BY <2>1, <2>4, <3>2, <3>3, <3>4, <3>5 DEF Writes, Writers, Movers
  <2> QED
    BY <1>0, <1>5, <2>3, <2>4 DEF Writers
<1> QED
  BY <1>4, <1>5

LEMMA DecideKept ==
  ASSUME TxInv, NEW t \in Txs, Decide(t)
  PROVE  TxInv'
<1>1. CASE End(t)
  BY <1>1, EndKept DEF Decide
<1>2. CASE Allowed(t) /\ tx' = [tx EXCEPT ![t].step = "event", ![t].write = Written(t)]
  <2> DEFINE r == [tx[t] EXCEPT !.step = "event", !.write = Written(t)]
  <2>1. tx' = [tx EXCEPT ![t] = r] /\ Fits(tx[t], db) /\ Locked(t, WorkshopOps)
    BY <1>2 DEF TxInv, Decide
  <2>2. tx[t].step = "lock" /\ tx[t].op \in WorkshopOps /\ DOMAIN tx[t] = RequestFields
    BY <2>1 DEF Locked, Fits, Stage
  <2>3. /\ DOMAIN r = RequestFields /\ r.step = "event" /\ r.write = Written(t)
        /\ \A f \in RequestFields \ {"step", "write"} : r[f] = tx[t][f]
    BY <2>2 DEF RequestFields
  <2> HIDE DEF r
  <2>4. /\ r.op = tx[t].op /\ r.i = tx[t].i /\ r.own = tx[t].own /\ r.share = tx[t].share
        /\ r.found = tx[t].found
    BY <2>3 DEF RequestFields
  <2>5. Writes(r, db)
    BY <1>2, <2>1, <2>3, <2>4, AllowedWrites
  <2>6. Counted(r, db)
    BY <2>2, <2>4 DEF Counted, WorkshopOps
  <2>7. r.share = Null /\ r.found = {}
    BY <2>1, <2>2, <2>4 DEF Fits, Stage, WorkshopOps
  <2>8. r.op \in WorkshopOps /\ r.op # "FORCE_ARCHIVE" /\ tx[t].op # "NONE"
    BY <2>2, <2>4 DEF WorkshopOps
  <2> QED
    BY <2>1, <2>2, <2>3, <2>5, <2>6, <2>7, <2>8, GoesOn DEF Decide
<1> QED
  BY <1>1, <1>2, Zenon DEF Decide

LEMMA EventKept ==
  ASSUME TxInv, NEW t \in Txs, Event(t)
  PROVE  TxInv'
<1> DEFINE r == [tx[t] EXCEPT !.step = "commit", !.share = OnUser(tx[t].user)]
<1>1. tx' = [tx EXCEPT ![t] = r] /\ Fits(tx[t], db) /\ tx[t].step = "event"
  BY DEF TxInv, Event
<1>2. tx[t].op \in WorkshopOps /\ DOMAIN tx[t] = RequestFields /\ tx[t].found = {}
  BY <1>1 DEF Fits, Stage, WorkshopOps
<1>3. /\ DOMAIN r = RequestFields /\ r.step = "commit"
      /\ \A f \in RequestFields \ {"step", "share"} : r[f] = tx[t][f]
  BY <1>2 DEF RequestFields
<1> HIDE DEF r
<1>4. /\ r.op = tx[t].op /\ r.i = tx[t].i /\ r.own = tx[t].own /\ r.write = tx[t].write
      /\ r.found = tx[t].found
  BY <1>3 DEF RequestFields
<1>5. Writes(r, db)
  BY <1>1, <1>2, <1>4 DEF Fits, Writes
<1>6. Counted(r, db) /\ r.op # "FORCE_ARCHIVE" /\ tx[t].op # "NONE"
  BY <1>2, <1>4 DEF Counted, WorkshopOps
<1> QED
  BY <1>1, <1>2, <1>3, <1>4, <1>5, <1>6, GoesOn DEF Event

-----------------------------------------------------------------------------
(* What the administrators' services count                                 *)

LEMMA CountIncidentsKept ==
  ASSUME TxInv, NEW t \in Txs, CountIncidents(t)
  PROVE  TxInv'
<1> DEFINE q == tx[t]
           active == W!ActiveOn(q.l)
           r == [q EXCEPT !.op = IF @ = "FORCE_ARCHIVE" THEN "CANCEL_ALL" ELSE @,
                          !.step = IF active = {} THEN "commit" ELSE "lock",
                          !.todo = {OnIncident(i) : i \in active}]
<1>0. /\ Fits(q, db) /\ q.step = "lock" /\ q.todo = {} /\ q.op \in LineOps
      /\ DOMAIN q = RequestFields /\ Null \notin Incidents
  BY RequestsOK DEF TxInv, CountIncidents, Locked, LineOps, Fits, Stage
<1>1. active = {i \in Incidents : Live(db.incident[i]) /\ db.incident[i].fields.lineId = q.l}
  BY DEF W!ActiveOn, W!ActiveStatuses, Live
<1>2. CASE End(t)
  BY <1>2, EndKept DEF CountIncidents
<1>3. ASSUME ~(q.op # "FORCE_ARCHIVE" /\ active # {}), tx' = [tx EXCEPT ![t] = r]
      PROVE  TxInv'
  <2>1. /\ DOMAIN r = RequestFields
        /\ r.op = IF q.op = "FORCE_ARCHIVE" THEN "CANCEL_ALL" ELSE q.op
        /\ r.step = IF active = {} THEN "commit" ELSE "lock"
        /\ r.todo = {OnIncident(i) : i \in active}
        /\ r.own = q.own /\ r.seen = q.seen /\ r.user = q.user /\ r.i = q.i /\ r.l = q.l
        /\ r.share = q.share /\ r.found = q.found
    BY <1>0 DEF RequestFields
  <2> HIDE DEF r, active
  <2>2. \/ q.op = "DISABLE_LINE" /\ r.op = "DISABLE_LINE" /\ active = {} /\ r.step = "commit"
        \/ q.op = "FORCE_ARCHIVE" /\ r.op = "CANCEL_ALL"
    BY <1>0, <1>3, <2>1 DEF LineOps
  <2>3. q.l \in Lines /\ q.own = {OnLine(q.l)} /\ q.user = Null /\ q.i = Null
        /\ q.share = Null /\ q.found = {}
    BY <1>0 DEF Fits, Plan, Stage, LineOps, WorkshopOps
  <2>4. /\ active \subseteq Incidents /\ r.todo \subseteq IncidentKeys
        /\ active = {} => r.todo = {}
        /\ \A i \in Incidents : OnIncident(i) \in r.todo => i \in active
        /\ \A i \in active : OnIncident(i) \in r.todo
    BY <1>1, <2>1 DEF IncidentKeys, OnIncident
  <2>5. Stage(r)
    BY <1>0, <2>1, <2>2, <2>3 DEF Fits, Stage, WorkshopOps, LineOps, UserOps, Movers
  <2>6. Plan(r)
    BY <2>1, <2>2, <2>3, <2>4 DEF Plan, WorkshopOps, LineOps, UserOps, Movers
  <2>7. Ordered(r)
    <3>1. r.op \notin WorkshopOps
      BY <2>2 DEF WorkshopOps
    <3>2. \A l \in Lines : OnLine(l) \notin r.todo
      BY <2>4 DEF OnLine, OnIncident, IncidentKeys
    <3> QED
      BY <2>1, <2>3, <3>1, <3>2 DEF Ordered
  <2>8. Current(r, db)
    <3>1. r.op \notin Writers /\ r.op \notin Movers /\ r.op # "CREATE"
      BY <2>2 DEF Writers, Movers
    <3>2. \A i \in Incidents : OnIncident(i) \notin r.own
      BY <2>1, <2>3 DEF OnIncident, OnLine
    <3>3. \A i \in active : db.incident[i].status # "ABSENT"
      BY <1>1 DEF Live
    <3> QED
      BY <1>0, <2>1, <2>4, <3>1, <3>2, <3>3 DEF Fits, Current
  <2>9. Writes(r, db)
    BY <2>2 DEF Writes, WorkshopOps
  <2>10. Counted(r, db)
    <3>1. \A i \in Incidents : OnIncident(i) \notin r.own
      BY <2>1, <2>3 DEF OnIncident, OnLine
    <3> QED
      BY <1>1, <2>1, <2>2, <2>3, <2>4, <3>1 DEF Counted
  <2>11. r.op \notin WorkshopOps
    BY <2>2 DEF WorkshopOps
  <2> QED
    BY <1>3, <2>1, <2>5, <2>6, <2>7, <2>8, <2>9, <2>10, <2>11, GoesOnApart, StepKept
       DEF Fits, CountIncidents, WorkshopOps
<1>4. DOMAIN tx = Txs
  BY DEF TxInv
<1> QED
  BY <1>2, <1>3, <1>4 DEF CountIncidents

LEMMA CountTakenKept ==
  ASSUME TxInv, NEW t \in Txs, CountTaken(t)
  PROVE  TxInv'
<1> DEFINE r == [tx[t] EXCEPT !.step = "commit"]
<1>0. /\ Fits(tx[t], db) /\ tx[t].op \in UserOps /\ tx[t].step = "lock"
      /\ DOMAIN tx[t] = RequestFields /\ tx[t].found = {} /\ DOMAIN tx = Txs
  BY DEF TxInv, CountTaken, Locked, UserOps, Fits, Stage
<1>1. CASE End(t)
  BY <1>1, EndKept DEF CountTaken
<1>2. CASE tx' = [tx EXCEPT ![t].step = "commit"]
  <2>1. tx' = [tx EXCEPT ![t] = r]
    BY <1>0, <1>2
  <2>2. /\ DOMAIN r = RequestFields /\ r.step = "commit"
        /\ \A f \in RequestFields \ {"step"} : r[f] = tx[t][f]
    BY <1>0 DEF RequestFields
  <2> HIDE DEF r
  <2>3. r.op = tx[t].op /\ r.found = tx[t].found
    BY <2>2 DEF RequestFields
  <2>4. Writes(r, db) /\ Counted(r, db) /\ r.op # "FORCE_ARCHIVE" /\ tx[t].op # "NONE"
    BY <1>0, <2>3 DEF Writes, Counted, WorkshopOps, UserOps
  <2> QED
    BY <1>0, <2>1, <2>2, <2>3, <2>4, GoesOn DEF CountTaken
<1> QED
  BY <1>1, <1>2, Zenon DEF CountTaken

LEMMA CancelingKept ==
  ASSUME TxInv, NEW t \in Txs, Canceling(t)
  PROVE  TxInv'
<1> DEFINE q == tx[t]
           found == {i \in Incidents :
                       /\ Holds(t, OnIncident(i))
                       /\ Seen(t, OnIncident(i)).status \in W!ActiveStatuses
                       /\ Seen(t, OnIncident(i)).fields.lineId = q.l}
           r == [q EXCEPT !.step = "commit", !.found = found]
<1>0. /\ Fits(q, db) /\ q.op = "CANCEL_ALL" /\ q.step = "lock" /\ q.todo = {}
      /\ DOMAIN q = RequestFields /\ DOMAIN tx = Txs
  BY DEF TxInv, Canceling, Locked, Fits, Stage
<1>1. tx' = [tx EXCEPT ![t] = r]
  BY <1>0 DEF Canceling
<1>2. /\ DOMAIN r = RequestFields /\ r.step = "commit" /\ r.found = found
      /\ \A f \in RequestFields \ {"step", "found"} : r[f] = q[f]
  BY <1>0 DEF RequestFields
<1>3. \A i \in Incidents : i \in found <=>
        OnIncident(i) \in q.own /\ Live(db.incident[i]) /\ db.incident[i].fields.lineId = q.l
  BY SeenIsCurrent DEF Holds, Live, W!ActiveStatuses
<1>4. found \subseteq Incidents
  OBVIOUS
<1> HIDE DEF r, found
<1>5. r.op = q.op /\ r.l = q.l /\ r.own = q.own /\ r.todo = q.todo /\ r.share = q.share
  BY <1>2 DEF RequestFields
<1>6. Counted(r, db)
  BY <1>0, <1>2, <1>3, <1>4, <1>5 DEF Fits, Counted
<1>7. Writes(r, db)
  BY <1>0, <1>5 DEF Writes, WorkshopOps
<1> QED
  BY <1>0, <1>1, <1>2, <1>5, <1>6, <1>7, GoesOn DEF Canceling

-----------------------------------------------------------------------------
(* A commit, seen by the others                                            *)

\* What request r may publish over tables d.
Publishes(r, d, d2) ==
  /\ Tables(d2)
  /\ \A i \in Incidents : d2.incident[i] # d.incident[i] =>
       /\ OnIncident(i) \in r.own \/ (r.op = "CREATE" /\ i = r.i)
       /\ d2.incident[i].status # "ABSENT"
       /\ \/ d.incident[i].status = "ABSENT"
          \/ d2.incident[i].fields.lineId = d.incident[i].fields.lineId
          \/ OnLine(d.incident[i].fields.lineId) \in r.own
       /\ Live(d2.incident[i]) =>
            \/ OnLine(d2.incident[i].fields.lineId) \in r.own
            \/ /\ Live(d.incident[i])
               /\ d2.incident[i].fields.lineId = d.incident[i].fields.lineId
  /\ \A l \in Lines : d2.line[l] # d.line[l] =>
       OnLine(l) \in r.own /\ d2.line[l].status # "ACTIVE"

LEMMA OthersKept ==
  ASSUME NEW r, NEW q, NEW d, NEW d2,
         Fits(r, d), Fits(q, d), Apart(r, q), Publishes(r, d, d2)
  PROVE  Fits(q, d2)
<1>1. \A i \in Incidents : OnIncident(i) \in q.own => d2.incident[i] = d.incident[i]
  BY DEF Fits, Current, Apart, Publishes
<1>2. \A l \in Lines : OnLine(l) \in q.own => d2.line[l] = d.line[l] /\ OnLine(l) \notin r.own
  BY DEF Apart, Publishes
<1>3. Current(q, d2)
  <2>1. \A s \in q.seen, i \in Incidents : s.key = OnIncident(i) => s.row = d2.incident[i]
    BY <1>1 DEF Fits, Current, Stage
  <2>2. \A i \in Incidents : OnIncident(i) \in q.todo \cup q.own => d2.incident[i].status # "ABSENT"
    BY DEF Fits, Current, Publishes
  <2>3. q.op = "CREATE" => d2.incident[q.i].status = "ABSENT"
    BY DEF Fits, Current, Apart, Publishes, Stage, WorkshopOps
  <2>4. q.op \in Writers => \A l \in Lines : OnLine(l) \in q.own => d2.line[l].status = "ACTIVE"
    BY <1>2 DEF Fits, Current
  <2>5. q.op \in Movers /\ q.step = "lock" =>
          /\ q.context \in Lines
          /\ OnLine(q.context) \in q.todo \cup q.own \/ d2.line[q.context].status # "ACTIVE"
    BY DEF Fits, Current, Publishes
  <2> QED
    BY <2>1, <2>2, <2>3, <2>4, <2>5 DEF Current
<1>4. Writes(q, d2)
  <2>1. q.op \in WorkshopOps /\ q.step \in {"event", "commit"} /\ q.op # "CREATE" =>
          d2.incident[q.i] = d.incident[q.i]
    BY <1>1 DEF Fits, Writes, Stage
  <2> QED
    BY <2>1 DEF Fits, Writes, Writers, Movers
<1>5. Counted(q, d2)
  <2>1. \A i \in Incidents :
          Live(d2.incident[i]) /\ d2.incident[i].fields.lineId = q.l /\ OnLine(q.l) \notin r.own
            => Live(d.incident[i]) /\ d.incident[i].fields.lineId = q.l
    BY DEF Publishes
  <2>2. CASE q.op = "DISABLE_LINE"
    <3>1. OnLine(q.l) \in q.own => OnLine(q.l) \notin r.own
      BY DEF Apart
    <3> QED
      BY <2>1, <2>2, <3>1 DEF Fits, Counted
  <2>3. CASE q.op = "CANCEL_ALL"
    <3>1. OnLine(q.l) \in q.own /\ OnLine(q.l) \notin r.own
      BY <2>3 DEF Fits, Plan, Apart
    <3>2. \A i \in Incidents :
            OnIncident(i) \in q.todo \cup q.own => d2.incident[i].fields.lineId = q.l
      <4> SUFFICES ASSUME NEW i \in Incidents, OnIncident(i) \in q.todo \cup q.own
                   PROVE  d2.incident[i].fields.lineId = q.l
        OBVIOUS
      <4>1. d.incident[i].fields.lineId = q.l /\ d.incident[i].status # "ABSENT"
        BY <2>3 DEF Fits, Counted, Current
      <4> QED
        BY <4>1, <3>1 DEF Publishes
    <3> QED
      BY <2>1, <2>3, <3>1, <3>2 DEF Fits, Counted
  <2> QED
    BY <2>2, <2>3 DEF Counted
<1> QED
  BY <1>3, <1>4, <1>5 DEF Fits

\* To know that an incident changed is nothing that the invariant tells apart.
LEMMA StaleFits ==
  ASSUME NEW q, NEW d, Fits(q, d), q.op # "NONE"
  PROVE  LET q2 == [q EXCEPT !.stale = TRUE]
         IN Fits(q2, d) /\ q2.own = q.own /\ q2.op = q.op /\ q2.user = q.user /\ q2.i = q.i
<1> DEFINE q2 == [q EXCEPT !.stale = TRUE]
<1>1. /\ DOMAIN q2 = RequestFields
      /\ q2.op = q.op /\ q2.user = q.user /\ q2.i = q.i /\ q2.l = q.l /\ q2.arg = q.arg
      /\ q2.step = q.step /\ q2.context = q.context /\ q2.todo = q.todo /\ q2.own = q.own
      /\ q2.share = q.share /\ q2.seen = q.seen /\ q2.found = q.found /\ q2.write = q.write
  BY DEF Fits, Stage, RequestFields
<1> HIDE DEF q2
<1>2. Stage(q2) /\ Plan(q2) /\ Ordered(q2)
  BY <1>1 DEF Fits, Stage, Plan, Ordered
<1>3. Current(q2, d) /\ Writes(q2, d) /\ Counted(q2, d)
  BY <1>1 DEF Fits, Current, Writes, Counted
<1> QED
  BY <1>1, <1>2, <1>3 DEF Fits, q2

LEMMA PublishKept ==
  ASSUME TxInv, NEW t \in Txs, NEW d2, Publish(t, d2), Publishes(tx[t], db, d2)
  PROVE  TxInv'
<1>1. db' = d2 /\ DOMAIN tx' = Txs /\ tx'[t] = Idle
      /\ \A o \in Txs \ {t} : tx'[o] = tx[o] \/ /\ tx'[o] = [tx[o] EXCEPT !.stale = TRUE]
                                                /\ tx[o].context # Null
  BY DEF Publish
<1>2. \A o \in Txs \ {t} : Fits(tx[o], d2)
  BY OthersKept DEF TxInv
<1>3. ASSUME NEW o \in Txs \ {t}
      PROVE  /\ Fits(tx'[o], d2) /\ tx'[o].own = tx[o].own /\ tx'[o].op = tx[o].op
             /\ tx'[o].user = tx[o].user /\ tx'[o].i = tx[o].i
  <2>1. CASE tx'[o] = tx[o]
    BY <1>2, <2>1
  <2>2. CASE tx'[o] = [tx[o] EXCEPT !.stale = TRUE] /\ tx[o].context # Null
    <3>1. tx[o].op # "NONE"
      BY <1>2, <2>2 DEF Fits, Stage, Idle
    <3> QED
      BY <1>2, <2>2, <3>1, StaleFits
  <2> QED
    BY <1>1, <2>1, <2>2
<1>4. \A p, o \in Txs : p # o => Apart(tx'[p], tx'[o])
  <2>1. \A p, o \in Txs \ {t} : p # o => Apart(tx'[p], tx'[o])
    BY <1>3 DEF TxInv, Apart
  <2>2. \A o \in Txs \ {t} : Apart(Idle, tx'[o]) /\ Apart(tx'[o], Idle)
    <3>1. Null \notin Incidents /\ \A o \in Txs \ {t} : Stage(tx'[o])
      BY <1>3, RequestsOK DEF Fits
    <3>2. Idle.own = {} /\ Idle.op = "NONE" /\ Idle.i = Null
      BY DEF Idle
    <3> QED
      BY <3>1, <3>2 DEF Apart, Stage, WorkshopOps
  <2> QED
    BY <1>1, <2>1, <2>2
<1>5. \A o \in Txs : Fits(tx'[o], d2)
  BY <1>1, <1>3, IdleFits
<1> QED
  BY <1>1, <1>4, <1>5 DEF TxInv, Publishes

\* What a service writes under its locks may be published.
LEMMA WritePublishes ==
  ASSUME TxInv, NEW t \in Txs, tx[t].step = "commit", tx[t].op \in WorkshopOps, NEW d2,
         DOMAIN d2 = DOMAIN db, d2.line = db.line,
         d2.incident = [db.incident EXCEPT ![tx[t].i] = tx[t].write]
  PROVE  Publishes(tx[t], db, d2)
<1> DEFINE r == tx[t]
           inc == db.incident[r.i]
<1>0. Fits(r, db) /\ Tables(db)
  BY DEF TxInv
<1>1. /\ r.i \in Incidents
      /\ Stands(r.write) /\ r.write.status # "ABSENT"
      /\ r.op # "CREATE" => OnIncident(r.i) \in r.own
      /\ r.op \in Writers => OnLine(r.write.fields.lineId) \in r.own
      /\ r.op \in Movers => OnLine(inc.fields.lineId) \in r.own
      /\ r.op \in WorkshopOps \ Writers =>
           /\ r.write.fields = inc.fields
           /\ Live(r.write) => Live(inc)
  BY <1>0 DEF Fits, Stage, Writes
<1>2. d2.incident[r.i] = r.write /\ DOMAIN d2.incident = Incidents
      /\ \A i \in Incidents : i # r.i => d2.incident[i] = db.incident[i]
  BY <1>0, <1>1 DEF Tables
<1>3. r.op = "CREATE" => inc.status = "ABSENT"
  BY <1>0 DEF Fits, Current
<1>4. Live(r.write) => d2.line[r.write.fields.lineId].status = "ACTIVE"
  <2>1. CASE r.op \in Writers
    BY <1>0, <1>1, <2>1 DEF Fits, Current, Stands
  <2>2. CASE r.op \notin Writers
    BY <1>0, <1>1, <2>2 DEF Tables
  <2> QED
    BY <2>1, <2>2
<1>5. Tables(d2)
  BY <1>0, <1>1, <1>2, <1>4 DEF Tables
<1>6. \A i \in Incidents : d2.incident[i] # db.incident[i] => i = r.i
  BY <1>2
<1>7. r.op \in {"CREATE"} \cup Movers \cup (WorkshopOps \ Writers)
  BY DEF Writers
<1>8. /\ inc.status = "ABSENT" \/ r.write.fields.lineId = inc.fields.lineId
         \/ OnLine(inc.fields.lineId) \in r.own
      /\ Live(r.write) =>
            \/ OnLine(r.write.fields.lineId) \in r.own
            \/ Live(inc) /\ r.write.fields.lineId = inc.fields.lineId
  BY <1>1, <1>3, <1>7 DEF Writers
<1> QED
  BY <1>1, <1>2, <1>5, <1>6, <1>8 DEF Publishes

LEMMA CommitServiceKept ==
  ASSUME TxInv, NEW t \in Txs, CommitIncident(t) \/ CommitRequest(t)
  PROVE  TxInv'
<1>0. DOMAIN db = {"incident", "case", "line", "user"} /\ DOMAIN db.incident = Incidents
  BY DEF TxInv, Tables
<1>1. ASSUME NEW d2, Publish(t, d2), tx[t].step = "commit", tx[t].op \in WorkshopOps,
             DOMAIN d2 = DOMAIN db, d2.line = db.line,
             d2.incident = [db.incident EXCEPT ![tx[t].i] = tx[t].write]
      PROVE  TxInv'
  BY <1>1, WritePublishes, PublishKept
<1>2. CASE CommitIncident(t)
  <2>1. PICK cases : Publish(t, [db EXCEPT !.incident[tx[t].i] = tx[t].write, !.case = cases])
    BY <1>2, Zenon DEF CommitIncident
  <2> DEFINE d2 == [db EXCEPT !.incident[tx[t].i] = tx[t].write, !.case = cases]
  <2>2. DOMAIN d2 = DOMAIN db /\ d2.line = db.line
        /\ d2.incident = [db.incident EXCEPT ![tx[t].i] = tx[t].write]
    BY <1>0
  <2> HIDE DEF d2
  <2> QED
    BY <1>1, <1>2, <2>1, <2>2 DEF CommitIncident, d2
<1>3. CASE CommitRequest(t)
  <2>1. PICK c, row : Publish(t, [db EXCEPT !.incident[tx[t].i] = tx[t].write, !.case[c] = row])
    BY <1>3, Zenon DEF CommitRequest
  <2> DEFINE d2 == [db EXCEPT !.incident[tx[t].i] = tx[t].write, !.case[c] = row]
  <2>2. DOMAIN d2 = DOMAIN db /\ d2.line = db.line
        /\ d2.incident = [db.incident EXCEPT ![tx[t].i] = tx[t].write]
    BY <1>0
  <2> HIDE DEF d2
  <2>3. tx[t].step = "commit" /\ tx[t].op \in WorkshopOps
    BY <1>3 DEF CommitRequest, WorkshopOps
  <2> QED
    BY <1>1, <2>1, <2>2, <2>3 DEF d2
<1> QED
  BY <1>2, <1>3

LEMMA CommitLinePublishes ==
  ASSUME TxInv, NEW t \in Txs, CommitLine(t)
  PROVE  \E d2 : Publish(t, d2) /\ Publishes(tx[t], db, d2)
<1> DEFINE r == tx[t]
           status == IF r.op = "DISABLE_LINE" THEN "INACTIVE" ELSE "DELETED"
           rows == [i \in Incidents |-> IF i \in r.found THEN W!Canceled(Seen(t, OnIncident(i)))
                                        ELSE db.incident[i]]
<1>0. Fits(r, db) /\ Tables(db) /\ r.step = "commit" /\ r.op \in {"DISABLE_LINE", "CANCEL_ALL"}
  BY DEF TxInv, CommitLine
<1>1. PICK cases : Publish(t, [db EXCEPT !.line[r.l].status = status, !.incident = rows,
                                         !.case = cases])
  BY Zenon DEF CommitLine
<1> DEFINE d2 == [db EXCEPT !.line[r.l].status = status, !.incident = rows, !.case = cases]
<1>2. OnLine(r.l) \in r.own /\ r.l \in Lines
  BY <1>0 DEF Fits, Plan, Counted, LineOps
<1>3. DOMAIN d2 = {"incident", "case", "line", "user"} /\ d2.incident = rows
      /\ d2.line = [db.line EXCEPT ![r.l].status = status]
  BY <1>0 DEF Tables
<1>4. /\ DOMAIN d2.line = Lines /\ d2.line[r.l].status = status /\ status # "ACTIVE"
      /\ \A l \in Lines : DOMAIN d2.line[l] = {"status", "number", "machines"}
      /\ \A l \in Lines : l # r.l => d2.line[l] = db.line[l]
  BY <1>0, <1>2, <1>3 DEF Tables
<1> HIDE DEF d2
<1>5. \A i \in r.found : i \in Incidents /\ OnIncident(i) \in r.own
  BY <1>0 DEF Fits, Counted, Stage
<1>6. ASSUME NEW i \in r.found
      PROVE  /\ Stands(d2.incident[i]) /\ d2.incident[i].status = "CANCELED"
             /\ d2.incident[i].fields = db.incident[i].fields
  <2>1. d2.incident[i] = W!Canceled(db.incident[i]) /\ Stands(db.incident[i])
        /\ db.incident[i].status # "ABSENT"
    BY <1>0, <1>3, <1>5, SeenIsCurrent DEF Tables, Fits, Current
  <2> QED
    BY <2>1 DEF W!Canceled, Stands, IncidentColumns
<1>7. \A i \in Incidents \ r.found : d2.incident[i] = db.incident[i]
  BY <1>3
<1>8. \A i \in Incidents \ r.found :
        Live(db.incident[i]) => db.incident[i].fields.lineId # r.l
  BY <1>0 DEF Fits, Counted
<1>9. Tables(d2)
  <2>1. DOMAIN d2.incident = Incidents
    BY <1>3
  <2>2. ASSUME NEW i \in Incidents
        PROVE  /\ Stands(d2.incident[i])
               /\ Live(d2.incident[i]) =>
                    d2.line[d2.incident[i].fields.lineId].status = "ACTIVE"
    <3>1. CASE i \in r.found
      BY <1>6, <3>1 DEF Live
    <3>2. CASE i \notin r.found
      <4>1. d2.incident[i] = db.incident[i] /\ Stands(db.incident[i])
            /\ (Live(db.incident[i]) => db.incident[i].fields.lineId \in Lines \ {r.l})
        BY <1>0, <1>7, <1>8, <3>2 DEF Tables, Stands, Live
      <4> QED
        BY <1>0, <1>4, <4>1 DEF Tables
    <3> QED
      BY <3>1, <3>2
  <2> QED
    BY <1>3, <1>4, <2>1, <2>2 DEF Tables
<1>10. Publishes(r, db, d2)
  <2>1. \A i \in Incidents : d2.incident[i] # db.incident[i] => i \in r.found
    BY <1>7
  <2>2. \A i \in r.found : ~Live(d2.incident[i]) /\ d2.incident[i].status # "ABSENT"
    BY <1>6 DEF Live
  <2>3. \A i \in Incidents : d2.incident[i] # db.incident[i] =>
          /\ OnIncident(i) \in r.own
          /\ d2.incident[i].status # "ABSENT"
          /\ d2.incident[i].fields.lineId = db.incident[i].fields.lineId
          /\ ~Live(d2.incident[i])
    BY <1>5, <1>6, <2>1, <2>2
  <2>4. \A l \in Lines : d2.line[l] # db.line[l] =>
          OnLine(l) \in r.own /\ d2.line[l].status # "ACTIVE"
    BY <1>2, <1>4
  <2> QED
    BY <1>9, <2>3, <2>4 DEF Publishes
<1> QED
  BY <1>1, <1>10, Zenon DEF d2

LEMMA CommitAccountPublishes ==
  ASSUME TxInv, NEW t \in Txs, CommitAccount(t)
  PROVE  \E d2 : Publish(t, d2) /\ Publishes(tx[t], db, d2)
<1>1. PICK row : Publish(t, [db EXCEPT !.user[tx[t].l] = row])
  BY Zenon DEF CommitAccount
<1> DEFINE d2 == [db EXCEPT !.user[tx[t].l] = row]
<1>2. DOMAIN d2 = DOMAIN db /\ d2.incident = db.incident /\ d2.line = db.line
  BY DEF TxInv, Tables
<1> HIDE DEF d2
<1>3. Publishes(tx[t], db, d2)
  BY <1>2 DEF Publishes, TxInv, Tables
<1> QED
  BY <1>1, <1>3, Zenon DEF d2

LEMMA CommitAdminKept ==
  ASSUME TxInv, NEW t \in Txs, CommitLine(t) \/ CommitAccount(t)
  PROVE  TxInv'
BY CommitLinePublishes, CommitAccountPublishes, PublishKept

-----------------------------------------------------------------------------
(* Every step                                                              *)

LEMMA InstallKept ==
  ASSUME TxInv, (\E l \in Lines : InstallLine(l)) \/ (\E u \in Users : InstallAccount(u))
  PROVE  TxInv'
<1>1. tx' = tx /\ \A t \in Txs : tx[t] = Idle
  BY DEF InstallLine, InstallAccount, Unused, Active, TxInv, Fits, Stage
<1>2. Tables(db')
  <2>0. Tables(db)
    BY DEF TxInv
  <2>1. ASSUME NEW l \in Lines, InstallLine(l) PROVE Tables(db')
    <3>1. /\ DOMAIN db' = DOMAIN db /\ db'.incident = db.incident
          /\ DOMAIN db'.line = Lines
          /\ \A k \in Lines : DOMAIN db'.line[k] = {"status", "number", "machines"}
      BY <2>0, <2>1 DEF InstallLine, Tables
    <3>2. \A i \in Incidents : ~Live(db.incident[i])
      BY <2>1 DEF InstallLine, Unused, Live
    <3> QED
      BY <2>0, <3>1, <3>2 DEF Tables
  <2>2. ASSUME NEW u \in Users, InstallAccount(u) PROVE Tables(db')
    <3>1. DOMAIN db' = DOMAIN db /\ db'.incident = db.incident /\ db'.line = db.line
      BY <2>0, <2>2 DEF InstallAccount, Tables
    <3> QED
      BY <2>0, <3>1 DEF Tables
  <2> QED
    BY <2>1, <2>2
<1> QED
  BY <1>1, <1>2, IdleFits DEF TxInv

LEMMA TxInitially == Init => TxInv
<1> SUFFICES ASSUME Init PROVE TxInv
  OBVIOUS
<1>1. tx = [t \in Txs |-> Idle]
  BY DEF Init
<1>2. Tables(db)
  BY DEF Init, Tables, Stands, Live, W!NoIncident, IncidentColumns
<1>3. Apart(Idle, Idle)
  BY DEF Apart, Idle, WorkshopOps
<1> QED
  BY <1>1, <1>2, <1>3, IdleFits DEF TxInv

LEMMA TxKept ==
  ASSUME MaxPerUser = 1, TxInv, [Next]_vars
  PROVE  TxInv'
<1>1. CASE UNCHANGED vars
  BY <1>1 DEF vars, TxInv
<1>2. CASE \E l \in Lines : InstallLine(l)
  BY <1>2, InstallKept
<1>3. CASE \E u \in Users : InstallAccount(u)
  BY <1>3, InstallKept
<1>4. ASSUME NEW t \in Txs,
             \/ WorkshopRequest(t) \/ AdminRequest(t)
             \/ Context(t) \/ Lock(t) \/ Decide(t) \/ Event(t)
             \/ CountIncidents(t) \/ CountTaken(t) \/ Canceling(t)
             \/ CommitIncident(t) \/ CommitRequest(t) \/ CommitLine(t) \/ CommitAccount(t)
             \/ Rollback(t)
      PROVE  TxInv'
  BY <1>4, RequestKept, AdminRequestKept, ContextKept, LockKept, DecideKept, EventKept,
     CountIncidentsKept, CountTakenKept, CancelingKept, CommitServiceKept, CommitAdminKept,
     EndKept DEF Rollback
<1> QED
  BY <1>1, <1>2, <1>3, <1>4, Zenon DEF Next

-----------------------------------------------------------------------------
(* No circle                                                               *)

\* A request waits for the owner of a row, at its locks or at its event.
LEMMA WaitsForAnOwner ==
  ASSUME TxInv, NEW t \in Txs, NEW o \in Txs, WaitsFor(t, o),
         NEW p, WaitsFor(o, p)
  PROVE  /\ t # o
         /\ \/ tx[t].step = "event" /\ OnUser(tx[t].user) \in tx[o].own
            \/ tx[t].step = "lock" /\ \E k \in tx[t].todo : k \in tx[o].own
         /\ tx[o].step \in {"lock", "event"}
         /\ tx[o].step = "lock" => tx[o].todo # {}
<1>1. PICK n \in Needed(t) : Conflicts(o, n[1], n[2])
  BY DEF WaitsFor
<1>2. PICK m \in Needed(o) : TRUE
  BY DEF WaitsFor
<1>3. tx[o].step \in {"lock", "event"} /\ (tx[o].step = "lock" => tx[o].todo # {})
  BY <1>2 DEF Needed, Firsts
<1>4. Fits(tx[t], db) /\ Fits(tx[o], db) /\ tx[o].share = Null
  BY <1>3 DEF TxInv, Fits, Stage
<1>5. CASE tx[t].step = "lock"
  <2>1. n[1] \in tx[t].todo
    BY <1>1, <1>5 DEF Needed, Firsts
  <2>2. n[1] # Null
    BY <1>4, <2>1, KeysToLock, RequestsOK
  <2> QED
    BY <1>1, <1>3, <1>4, <1>5, <2>1, <2>2 DEF Conflicts, WaitsFor
<1>6. CASE tx[t].step = "event"
  <2>1. n[1] = OnUser(tx[t].user) /\ n[2] = "SHARE"
    BY <1>1, <1>6 DEF Needed
  <2> QED
    BY <1>1, <1>3, <1>6, <2>1 DEF Conflicts, WaitsFor
<1>7. tx[t].step \in {"lock", "event"}
  BY <1>1 DEF Needed
<1> QED
  BY <1>5, <1>6, <1>7

\* Only the technician who takes an incident, and the administrator of an account,
\* own the row of a user.
LEMMA OwnersOfUsers ==
  ASSUME TxInv, NEW o \in Txs, NEW u \in Users, OnUser(u) \in tx[o].own
  PROVE  \/ tx[o].op = "TAKE" /\ tx[o].user = u
         \/ tx[o].op \in UserOps /\ (tx[o].step = "lock" => tx[o].todo = {})
<1>1. Fits(tx[o], db)
  BY DEF TxInv
<1>2. CASE tx[o].op \in WorkshopOps
  BY <1>1, <1>2 DEF Fits, Plan, WorkshopOps, Movers, LineKeys, OnUser, OnLine, OnIncident
<1>3. CASE tx[o].op \in LineOps \cup {"CANCEL_ALL", "NONE"}
  BY <1>1, <1>3 DEF Fits, Plan, Stage, Idle, IncidentKeys, OnUser, OnLine, OnIncident
<1>4. CASE tx[o].op \in UserOps
  BY <1>1, <1>4 DEF Fits, Plan, Ordered
<1> QED
  BY <1>1, <1>2, <1>3, <1>4 DEF Fits, Stage

\* Who owns an incident and still has rows to lock archives a line.
LEMMA OwnersOfIncidents ==
  ASSUME TxInv, NEW o \in Txs, NEW i \in Incidents, OnIncident(i) \in tx[o].own,
         tx[o].todo # {}
  PROVE  tx[o].op = "CANCEL_ALL"
<1>1. Fits(tx[o], db)
  BY DEF TxInv
<1>2. CASE tx[o].op \in WorkshopOps
  BY <1>1, <1>2 DEF Fits, Plan, Ordered, WorkshopOps, Movers, LineKeys, OnUser, OnLine, OnIncident
<1>3. CASE tx[o].op \in LineOps \cup UserOps \cup {"NONE"}
  BY <1>1, <1>3 DEF Fits, Plan, Stage, Idle, OnUser, OnLine, OnIncident
<1> QED
  BY <1>1, <1>2, <1>3 DEF Fits, Stage

\* Two lines are archived by two requests, whose incidents are others.
LEMMA ArchivingsShareNothing ==
  ASSUME TxInv, NEW t \in Txs, NEW o \in Txs, t # o,
         tx[t].op = "CANCEL_ALL", tx[o].op = "CANCEL_ALL",
         NEW i \in Incidents, OnIncident(i) \in tx[t].todo
  PROVE  OnIncident(i) \notin tx[o].own
<1>1. Fits(tx[t], db) /\ Fits(tx[o], db) /\ Apart(tx[t], tx[o])
  BY DEF TxInv
<1>2. tx[t].l # tx[o].l
  BY <1>1 DEF Fits, Plan, Apart
<1> QED
  BY <1>1, <1>2 DEF Fits, Counted

\* Who owns a line and waits for another one waits for a greater one.
LEMMA OwnersOfLines ==
  ASSUME TxInv, NEW o \in Txs, NEW j \in Lines, NEW k \in Lines,
         OnLine(j) \in tx[o].own, OnLine(k) \in tx[o].todo
  PROVE  j < k
BY DEF TxInv, Fits, Ordered

LEMMA NoCircle == TxInv => NoCircularWait
<1> SUFFICES ASSUME TxInv, NEW ts \in (SUBSET Txs) \ {{}},
                    ~ \E t \in ts : \A o \in ts : ~WaitsFor(t, o)
             PROVE  FALSE
  BY Zenon DEF NoCircularWait
<1>a. /\ ts # {} /\ ts \subseteq Txs
      /\ \A t \in ts : \E o \in ts : WaitsFor(t, o)
  BY Zenon
<1>0. \A t \in ts : Fits(tx[t], db) /\ t \in Txs
  BY <1>a DEF TxInv
\* Every one of the circle has rows to lock, and one of them is another's.
<1>1. ASSUME NEW t \in ts
      PROVE  tx[t].step = "lock" /\ tx[t].todo # {}
  <2>1. PICK o \in ts : WaitsFor(t, o)
    BY <1>a
  <2>2. PICK p \in ts : WaitsFor(o, p)
    BY <1>a
  <2>3. /\ t # o
        /\ tx[o].step = "lock" => tx[o].todo # {}
    BY <2>1, <2>2, WaitsForAnOwner
  <2>4. \/ tx[t].step = "event" /\ OnUser(tx[t].user) \in tx[o].own
        \/ tx[t].step = "lock" /\ \E k \in tx[t].todo : k \in tx[o].own
    BY <2>1, <2>2, WaitsForAnOwner
  <2>5. CASE tx[t].step = "event" /\ OnUser(tx[t].user) \in tx[o].own
    <3>1. tx[t].op \in WorkshopOps /\ tx[t].user \in Users
      BY <1>0, <2>5 DEF Fits, Stage
    <3>2. ~(tx[o].op = "TAKE" /\ tx[o].user = tx[t].user)
      BY <2>3, <3>1 DEF TxInv, Apart, WorkshopOps
    <3>3. tx[o].op \in UserOps /\ (tx[o].step = "lock" => tx[o].todo = {})
      BY <2>5, <3>1, <3>2, OwnersOfUsers
    <3>4. tx[o].step \in {"lock", "event"}
      BY <2>1, <2>2, WaitsForAnOwner
    <3> QED
      BY <1>0, <2>3, <3>3, <3>4 DEF Fits, Stage, UserOps, WorkshopOps
  <2> QED
    BY <2>4, <2>5
<1>2. ASSUME NEW t \in ts
      PROVE  \E o \in ts : t # o /\ \E k \in tx[t].todo : k \in tx[o].own
  <2>1. PICK o \in ts : WaitsFor(t, o)
    BY <1>a
  <2>2. PICK p \in ts : WaitsFor(o, p)
    BY <1>a
  <2>3. /\ t # o
        /\ \/ tx[t].step = "event"
           \/ \E k \in tx[t].todo : k \in tx[o].own
    BY <1>a, <2>1, <2>2, WaitsForAnOwner
  <2>4. tx[t].step = "lock"
    BY <1>1
  <2> QED
    BY <2>3, <2>4
\* Nobody waits for an incident.
<1>3. ASSUME NEW t \in ts, NEW o \in ts, t # o, NEW i \in Incidents,
             OnIncident(i) \in tx[t].todo, OnIncident(i) \in tx[o].own
      PROVE  FALSE
  <2>1. tx[o].op = "CANCEL_ALL"
    BY <1>1, <1>3, OwnersOfIncidents
  <2>2. PICK p \in ts, k \in tx[o].todo : o # p /\ k \in tx[p].own
    BY <1>2
  <2>3. PICK j \in Incidents : k = OnIncident(j)
    BY <1>0, <2>1 DEF Fits, Plan, IncidentKeys
  <2>4. tx[p].op = "CANCEL_ALL"
    BY <1>1, <2>2, <2>3, OwnersOfIncidents
  <2> QED
    BY <2>1, <2>2, <2>3, <2>4, ArchivingsShareNothing
\* Nobody waits for a user.
<1>4. ASSUME NEW t \in ts, NEW o \in ts, t # o, NEW u \in Users,
             OnUser(u) \in tx[t].todo, OnUser(u) \in tx[o].own
      PROVE  FALSE
  <2>1. tx[o].op = "TAKE" /\ tx[o].user = u
    BY <1>1, <1>4, OwnersOfUsers
  <2>2. PICK p \in ts, k \in tx[o].todo : o # p /\ k \in tx[p].own
    BY <1>2
  <2>3. k = OnIncident(tx[o].i) /\ tx[o].i \in Incidents
    BY <1>0, <1>4, <2>1, <2>2 DEF Fits, Plan, Ordered, Stage, WorkshopOps
  <2> QED
    BY <1>3, <2>2, <2>3
\* So everyone waits for a line, and the owner of the greatest for none.
<1>5. ASSUME NEW t \in ts
      PROVE  \E o \in ts, l \in Lines : OnLine(l) \in tx[t].todo /\ OnLine(l) \in tx[o].own
  <2>1. PICK o \in ts, k \in tx[t].todo : t # o /\ k \in tx[o].own
    BY <1>2
  <2>2. \/ \E l \in Lines : k = OnLine(l)
        \/ \E u \in Users : k = OnUser(u)
        \/ \E i \in Incidents : k = OnIncident(i)
    BY <1>0, <2>1, KeysToLock
  <2> QED
    BY <1>3, <1>4, <2>1, <2>2
<1> DEFINE S == {l \in Lines : \E t, o \in ts : OnLine(l) \in tx[t].todo /\ OnLine(l) \in tx[o].own}
<1>6. S # {}
  BY <1>a, <1>5
<1>7. PICK g \in S : \A k \in S : k <= g
  BY <1>6, RequestsOK
<1>8. PICK o \in ts : OnLine(g) \in tx[o].own
  OBVIOUS
<1>9. PICK p \in ts, l \in Lines : OnLine(l) \in tx[o].todo /\ OnLine(l) \in tx[p].own
  BY <1>5
<1>10. l \in S /\ g < l
  BY <1>8, <1>9, OwnersOfLines
<1> QED
  BY <1>7, <1>10, LinesAreNumbers

\* No circle of services each waiting for a row that the next one holds, for any
\* number of requests, when each user has one at a time.
THEOREM LocksNeverCircle ==
  ASSUME MaxPerUser = 1
  PROVE  Spec => []NoCircularWait
<1>1. TxInv /\ [Next]_vars => TxInv'
  BY TxKept
<1> QED
  BY <1>1, TxInitially, NoCircle, PTL DEF Spec

\* Whatever the interleaving, an active incident is on a line in service.
THEOREM ActiveOnLines ==
  ASSUME MaxPerUser = 1
  PROVE  Spec => [](\A i \in Incidents : Live(db.incident[i]) =>
                       db.line[db.incident[i].fields.lineId].status = "ACTIVE")
<1>1. TxInv /\ [Next]_vars => TxInv'
  BY TxKept
<1>2. TxInv => \A i \in Incidents : Live(db.incident[i]) =>
                 db.line[db.incident[i].fields.lineId].status = "ACTIVE"
  BY DEF TxInv, Tables
<1> QED
  BY <1>1, <1>2, TxInitially, PTL DEF Spec
-----------------------------------------------------------------------------
(* What a service decided still holds when it commits                      *)

OpenOf(d, i) ==
  {c \in CaseIds : d.case[c].incident = i /\ d.case[c].status \in {"ACTIVE", "CONSULTED"}}

\* Lines as they were installed, cases of corrections only.
Records(d) ==
  /\ DOMAIN d.case = CaseIds /\ DOMAIN d.user = Users
  /\ \A c \in CaseIds :
       /\ DOMAIN d.case[c] = {"status", "incident", "type", "before"}
       /\ d.case[c].status # "NONE" => d.case[c].type = "EDIT"
  /\ \A l \in Lines : d.line[l].status # "ABSENT" =>
       d.line[l].number = Plants[l].number /\ d.line[l].machines = Plants[l].machines
  /\ \A u \in Users : DOMAIN d.user[u] = {"status", "role"} /\ d.user[u].role \in W!Roles

\* What r read of the lines and users that it owns is what they are.
Fresh(r, d) ==
  \A s \in r.seen :
    /\ \A l \in Lines : s.key = OnLine(l) => s.row = d.line[l]
    /\ \A u \in Users : s.key = OnUser(u) => s.row = d.user[u]

Asked(r, d) ==
  /\ r.op \in WorkshopOps => r.role \in W!Roles
  /\ r.op = "TAKE" => OnUser(r.user) \in r.todo \cup r.own
  /\ r.op = "CHANGE_ROLE" => r.arg \in W!Roles
  /\ r.op \in UserOps =>
       /\ d.user[r.l].status \in {"ACTIVE", "INACTIVE"}
       /\ OnUser(r.l) \in r.todo \cup r.own

\* The line of p is in service and offers its machine and head; nobody else is there.
Offered(d, p) ==
  /\ d.line[p.lineId].status = "ACTIVE"
  /\ <<p.machineId, p.headNumber>> \in d.line[p.lineId].machines

PlaceFree(d, p, i) ==
  \A j \in Incidents \ {i} : Live(d.incident[j]) => W!Place(d.incident[j].fields) # W!Place(p)

Quiet(d, i) == OpenOf(d, i) = {} /\ ~W!HasPendingArbitration(d.incident[i])

\* The guard of each service, on the tables as they are, and what it writes.
Served(r, d) ==
  LET inc == d.incident[r.i]
      moved(p) == [inc EXCEPT !.fields = p, !.lineNumber = d.line[p.lineId].number]
  IN /\ r.op = "CREATE" =>
          /\ Offered(d, r.arg) /\ PlaceFree(d, r.arg, r.i)
          /\ r.write = [W!NoIncident EXCEPT !.status = "OPEN", !.user_id = r.user,
                          !.fields = r.arg, !.lineNumber = d.line[r.arg.lineId].number]
     /\ r.op = "TAKE" =>
          /\ d.user[r.user].status = "ACTIVE" /\ d.user[r.user].role = "MAINTENANCE"
          /\ r.role = "MAINTENANCE"
          /\ Quiet(d, r.i) /\ W!CanTake("MAINTENANCE", inc, r.user)
          /\ r.write = [inc EXCEPT !.takenBy = r.user]
     /\ r.op = "CLOSE" =>
          /\ Quiet(d, r.i) /\ W!CanSuspendOrClose(r.role, inc)
          /\ \E n \in Texts : r.write = [inc EXCEPT !.status = "CLOSED", !.note = n]
     /\ r.op = "REQUEST_EDIT" =>
          /\ Quiet(d, r.i) /\ W!CanRequestEdit(r.role, inc, r.user)
          /\ W!Changed(r.arg, inc.fields) # W!NoChange
          /\ r.write = [inc EXCEPT !.editRequest = W!Changed(r.arg, inc.fields)]
     /\ r.op = "REJECT_EDIT" =>
          /\ OpenOf(d, r.i) # {} /\ W!CanDecideEdit(r.role, inc)
          /\ r.write = [inc EXCEPT !.editRequest = Null]
     /\ r.op = "EDIT" =>
          LET p == W!Merge(r.arg, inc.fields)
          IN /\ Quiet(d, r.i) /\ W!CanEdit(r.role, inc, r.user)
             /\ W!Changed(r.arg, inc.fields) # W!NoChange
             /\ Offered(d, p) /\ PlaceFree(d, p, r.i)
             /\ r.write = moved(p)
     /\ r.op = "APPROVE_EDIT" =>
          LET p == W!Merge(inc.editRequest, inc.fields)
          IN /\ OpenOf(d, r.i) # {} /\ W!CanDecideEdit(r.role, inc)
             /\ Offered(d, p) /\ PlaceFree(d, p, r.i)
             /\ r.write = [moved(p) EXCEPT !.editRequest = Null]

\* What an administrator's service counted under the lock of its line or account.
Administers(r, d) ==
  /\ r.op = "DISABLE_LINE" /\ r.step = "commit" => d.line[r.l].status = "ACTIVE"
  /\ r.op = "CANCEL_ALL" =>
       /\ d.line[r.l].status \in {"ACTIVE", "INACTIVE"}
       /\ \A i \in r.found : Live(d.incident[i]) /\ d.incident[i].fields.lineId = r.l
       /\ r.step # "commit" => r.found = {}
  /\ r.op \in UserOps /\ r.step = "commit" =>
       /\ OnUser(r.l) \in r.own
       /\ \A i \in Incidents : Live(d.incident[i]) => d.incident[i].takenBy # r.l
       /\ r.op = "DISABLE_USER" => d.user[r.l].status = "ACTIVE"
       /\ r.op = "CHANGE_ROLE" => d.user[r.l].role # r.arg

Ready(r, d) ==
  /\ Fresh(r, d) /\ Asked(r, d) /\ Administers(r, d)
  /\ r.op \in WorkshopOps /\ r.step \in {"event", "commit"} => Served(r, d)

AtomicInv ==
  TxInv /\ Records(db) /\ \A t \in Txs : Ready(tx[t], db)
-----------------------------------------------------------------------------
(* The role that a request carries                                         *)

LEMMA RolesCarried ==
  ASSUME TxInv, NEW t \in Txs, tx[t].op \in WorkshopOps
  PROVE  tx[t].user \in Users /\ Owner(tx[t].user) = {t} /\ Carried(tx[t].user) = tx[t].role
<1> DEFINE u == tx[t].user
<1>1. u \in Users /\ Null \notin Users
  BY RequestsOK DEF TxInv, Fits, Stage
<1>2. \A o \in Txs : o # t /\ tx[o].user = u => tx[o].op \notin WorkshopOps
  BY DEF TxInv, Apart
<1>3. \A o \in Txs : tx[o].op \notin WorkshopOps => tx[o].user = Null
  BY DEF TxInv, Fits, Stage
<1>4. Active(t)
  BY DEF Active, WorkshopOps
<1>5. Owner(u) = {t}
  BY <1>1, <1>2, <1>3, <1>4 DEF Owner
<1>6. (CHOOSE o \in {t} : TRUE) = t
  OBVIOUS
<1> QED
  BY <1>1, <1>5, <1>6 DEF Carried

\* The requests go on, of the same users in the same roles.
LEMMA RolesKept ==
  ASSUME TxInv,
         \A o \in Txs : \/ /\ tx'[o].user = tx[o].user /\ tx'[o].role = tx[o].role
                           /\ tx'[o].op # "NONE" <=> tx[o].op # "NONE"
                        \/ tx[o].user \notin Users /\ tx'[o].user \notin Users
  PROVE  \A u \in Users : Carried(u)' = Carried(u)
<1> SUFFICES ASSUME NEW u \in Users PROVE Carried(u)' = Carried(u)
  OBVIOUS
<1>1. Owner(u)' = Owner(u)
  BY DEF Owner, Active
<1>2. \A o \in Owner(u) : tx'[o].role = tx[o].role
  BY DEF Owner
<1>3. CASE Owner(u) = {}
  BY <1>1, <1>3 DEF Carried
<1>4. CASE Owner(u) # {}
  <2> DEFINE c == CHOOSE o \in Owner(u) : TRUE
  <2>1. c \in Owner(u)
    BY <1>4
  <2>2. Carried(u) = tx[c].role
    BY <1>4 DEF Carried
  <2>3. Carried(u)' = tx'[c].role
    BY <1>1, <1>4 DEF Carried
  <2> QED
    BY <1>2, <2>1, <2>2, <2>3
<1> QED
  BY <1>3, <1>4

\* One request begins or ends.
LEMMA OtherRolesKept ==
  ASSUME TxInv, NEW t \in Txs, NEW u \in Users,
         tx[t].user \in {u, Null}, tx'[t].user \in {u, Null},
         \A o \in Txs \ {t} : /\ tx'[o].user = tx[o].user /\ tx'[o].role = tx[o].role
                              /\ tx'[o].op # "NONE" <=> tx[o].op # "NONE"
  PROVE  \A v \in Users \ {u} : Carried(v)' = Carried(v)
<1> SUFFICES ASSUME NEW v \in Users, v # u PROVE Carried(v)' = Carried(v)
  OBVIOUS
<1>0. Null \notin Users
  BY RequestsOK
<1>1. Owner(v)' = Owner(v) /\ t \notin Owner(v)
  BY <1>0 DEF Owner, Active
<1>2. \A o \in Owner(v) : tx'[o].role = tx[o].role
  BY <1>1 DEF Owner
<1>3. CASE Owner(v) = {}
  BY <1>1, <1>3 DEF Carried
<1>4. CASE Owner(v) # {}
  <2> DEFINE c == CHOOSE o \in Owner(v) : TRUE
  <2>1. c \in Owner(v)
    BY <1>4
  <2>2. Carried(v) = tx[c].role
    BY <1>4 DEF Carried
  <2>3. Carried(v)' = tx'[c].role
    BY <1>1, <1>4 DEF Carried
  <2> QED
    BY <1>2, <2>1, <2>2, <2>3
<1> QED
  BY <1>3, <1>4

\* The request of a user is answered: nothing is in flight for this user any more.
LEMMA RequestAnswered ==
  ASSUME TxInv, NEW t \in Txs, tx[t].op \in WorkshopOps, NEW u, u = tx[t].user,
         tx'[t] = Idle,
         \A o \in Txs \ {t} : /\ tx'[o].user = tx[o].user /\ tx'[o].role = tx[o].role
                              /\ tx'[o].op # "NONE" <=> tx[o].op # "NONE"
  PROVE  W!Answered(u)
<1>1. u \in Users /\ Owner(u) = {t} /\ Null \notin Users
  BY RolesCarried, RequestsOK
<1>2. Idle.user = Null /\ Idle.op = "NONE"
  BY DEF Idle
<1>3. \A v \in Users \ {u} : Carried(v)' = Carried(v)
  BY <1>1, <1>2, OtherRolesKept
<1>4. Carried(u)' = Null
  <2>1. \A o \in Txs \ {t} : ~(tx[o].op # "NONE" /\ tx[o].user = u)
    BY <1>1 DEF Owner, Active
  <2>2. Owner(u)' = {}
    BY <1>1, <1>2, <2>1 DEF Owner, Active
  <2> QED
    BY <2>2 DEF Carried
<1>5. [v \in Users |-> Carried(v)]' = [[v \in Users |-> Carried(v)] EXCEPT ![u] = Null]
  BY <1>1, <1>3, <1>4
<1> QED
  BY <1>5 DEF W!Answered
-----------------------------------------------------------------------------
(* The steps that publish nothing                                          *)

Step == UNCHANGED W!vars \/ W!Next

LEMMA Stutters ==
  ASSUME TxInv, UNCHANGED db,
         \A o \in Txs : \/ /\ tx'[o].user = tx[o].user /\ tx'[o].role = tx[o].role
                           /\ tx'[o].op # "NONE" <=> tx[o].op # "NONE"
                        \/ tx[o].user \notin Users /\ tx'[o].user \notin Users
  PROVE  Step
<1>1. [u \in Users |-> Carried(u)]' = [u \in Users |-> Carried(u)]
  BY RolesKept
<1> QED
  BY <1>1 DEF Step, W!vars

\* A request that goes on as the same service, or as that of an administrator.
LEMMA GoesOnStutters ==
  ASSUME TxInv, UNCHANGED db, NEW t \in Txs, NEW r, tx' = [tx EXCEPT ![t] = r],
         r.user = tx[t].user, r.role = tx[t].role, r.op # "NONE", tx[t].op # "NONE"
  PROVE  Step
<1>1. \A o \in Txs : tx'[o] = IF o = t THEN r ELSE tx[o]
  BY DEF TxInv
<1> QED
  BY <1>1, Stutters

\* A request that only reads, is refused or is rolled back.
LEMMA EndsWithoutWrite ==
  ASSUME TxInv, NEW t \in Txs, Ready(tx[t], db), End(t), UNCHANGED db
  PROVE  Step
<1>1. tx'[t] = Idle /\ \A o \in Txs \ {t} : tx'[o] = tx[o]
  BY DEF End, TxInv
<1>2. CASE tx[t].op \in WorkshopOps
  <2>1. PICK u \in Users : u = tx[t].user
    BY <1>2, RolesCarried
  <2>2. W!Answered(u)
    BY <1>1, <1>2, <2>1, RequestAnswered
  <2>3. [v \in Users |-> Carried(v)][u] # Null
    BY <1>2, <2>1, RolesCarried, RequestsOK DEF Ready, Asked
  <2>4. W!EndWithoutWrite(u)
    BY <2>2, <2>3 DEF W!Answered, W!EndWithoutWrite
  <2> QED
    BY <2>1, <2>4 DEF Step, W!Next, W!WorkshopStep
<1>3. CASE tx[t].op \notin WorkshopOps
  <2>1. tx[t].user \notin Users /\ Idle.user \notin Users
    BY <1>3, RequestsOK DEF TxInv, Fits, Stage, Idle
  <2> QED
    BY <1>1, <2>1, Stutters
<1> QED
  BY <1>2, <1>3

\* One request at a time and user: the users served are fewer than the requests.
LEMMA RoomForOneMore ==
  ASSUME TxInv, NEW t \in Txs, tx[t] = Idle
  PROVE  Cardinality({v \in Users : Carried(v) # Null}) < Cardinality(Txs)
<1> DEFINE S == {v \in Users : Carried(v) # Null}
           T == Txs \ {t}
           f == [v \in S |-> CHOOSE o \in Owner(v) : TRUE]
<1>1. \A v \in S : f[v] \in Owner(v)
  BY DEF Carried
<1>2. \A v \in S : f[v] \in T /\ tx[f[v]].user = v
  BY <1>1 DEF Owner, Active, Idle
<1>3. f \in Injection(S, T)
  BY <1>2 DEF Injection, IsInjective
<1>4. IsFiniteSet(T) /\ Cardinality(T) = Cardinality(Txs) - 1 /\ Cardinality(T) \in Nat
      /\ Cardinality(Txs) \in Nat
  BY RequestsOK, FS_RemoveElement, FS_CardinalityType
<1> HIDE DEF f, T
<1>5. IsFiniteSet(S) /\ Cardinality(S) <= Cardinality(T)
  BY <1>3, <1>4, FS_Injection
<1>6. Cardinality(S) \in Nat
  BY <1>5, FS_CardinalityType
<1> QED
  BY <1>4, <1>5, <1>6

\* Module Workshop counts as this one does.
LEMMA SameCardinality ==
  ASSUME NEW S
  PROVE  W!Cardinality(S) = Cardinality(S)
BY Zenon DEF W!Cardinality, Cardinality

LEMMA AdmitAuthenticates ==
  ASSUME TxInv, MaxPerUser = 1, NEW t \in Txs, NEW u \in Users, NEW op \in WorkshopOps, NEW i,
         NEW l, NEW arg, Admit(t, u, op, i, l, arg)
  PROVE  Step
<1>1. PICK r : tx[t] = Idle /\ tx' = [tx EXCEPT ![t] = r] /\ db' = db
               /\ r.op = op /\ r.user = u /\ r.role = db.user[u].role
  <2> DEFINE q(todo, step) == [Idle EXCEPT !.op = op, !.user = u, !.role = db.user[u].role,
                                 !.i = i, !.l = l, !.arg = arg, !.step = step, !.todo = todo]
  <2>1. PICK todo, step : tx[t] = Idle /\ tx' = [tx EXCEPT ![t] = q(todo, step)] /\ db' = db
    BY Zenon DEF Admit, Begin
  <2>2. q(todo, step).op = op /\ q(todo, step).user = u /\ q(todo, step).role = db.user[u].role
    BY DEF Idle
  <2> HIDE DEF q
  <2> QED
    BY <2>1, <2>2
<1>2. tx'[t] = r /\ \A o \in Txs \ {t} : tx'[o] = tx[o]
  BY <1>1 DEF TxInv
<1>3. \A v \in Users \ {u} : Carried(v)' = Carried(v)
  <2>1. tx[t].user \in {u, Null} /\ tx'[t].user \in {u, Null}
    BY <1>1, <1>2 DEF Idle
  <2> QED
    BY <1>2, <2>1, OtherRolesKept
<1>4. Owner(u) = {}
  BY OneRequestPerUser DEF Admit, Owner
<1>5. Carried(u) = Null
  BY <1>4 DEF Carried
<1>6. Owner(u)' = {t} /\ (CHOOSE o \in {t} : TRUE) = t
  <2>1. op # "NONE"
    BY DEF WorkshopOps
  <2> QED
    BY <1>1, <1>2, <1>4, <2>1 DEF Owner, Active
<1>7. Carried(u)' = db.user[u].role
  BY <1>1, <1>2, <1>6 DEF Carried
<1>8. [v \in Users |-> Carried(v)]' = [[v \in Users |-> Carried(v)] EXCEPT ![u] = db.user[u].role]
  BY <1>3, <1>7
<1>9. W!Cardinality({v \in Users : [w \in Users |-> Carried(w)][v] # Null}) < Cardinality(Txs)
  <2>1. {v \in Users : [w \in Users |-> Carried(w)][v] # Null} = {v \in Users : Carried(v) # Null}
    OBVIOUS
  <2> QED
    BY <1>1, <2>1, RoomForOneMore, SameCardinality
<1>10. W!Authenticate(u)
  <2>1. [v \in Users |-> Carried(v)][u] = Null
    BY <1>5
  <2>2. db.user[u].status = "ACTIVE"
    BY DEF Admit
  <2>3. UNCHANGED <<db.incident, db.case, db.line, db.user>>
    BY <1>1
  <2> QED
    BY <1>8, <1>9, <2>1, <2>2, <2>3, Zenon DEF W!Authenticate
<1> QED
  BY <1>10 DEF Step, W!Next, W!WorkshopStep

LEMMA RequestsAuthenticate ==
  ASSUME TxInv, MaxPerUser = 1, NEW t \in Txs, WorkshopRequest(t)
  PROVE  Step
<1> PICK u \in Users, i \in Incidents, op \in WorkshopOps :
      \E l, arg : Admit(t, u, op, i, l, arg)
  BY Zenon DEF WorkshopRequest, WorkshopOps
<1> QED
  BY AdmitAuthenticates

LEMMA AdminRequestStutters ==
  ASSUME TxInv, NEW t \in Txs, AdminRequest(t)
  PROVE  Step
<1>1. PICK r : tx[t] = Idle /\ tx' = [tx EXCEPT ![t] = r] /\ db' = db /\ r.user = Null
  <2> DEFINE q(op, l, arg, todo) == [Idle EXCEPT !.op = op, !.l = l, !.arg = arg,
                                                 !.step = "lock", !.todo = todo]
             p(op, l, todo) == [Idle EXCEPT !.op = op, !.l = l, !.step = "lock", !.todo = todo]
  <2>1. \/ \E op, l, arg, todo : Begin(t, q(op, l, arg, todo))
        \/ \E op, l, todo : Begin(t, p(op, l, todo))
    BY Zenon DEF AdminRequest
  <2>2. /\ \A op, l, arg, todo : q(op, l, arg, todo).user = Null
        /\ \A op, l, todo : p(op, l, todo).user = Null
    BY DEF Idle
  <2> HIDE DEF p, q
  <2> QED
    BY <2>1, <2>2 DEF Begin
<1>2. \A o \in Txs : tx'[o] = IF o = t THEN r ELSE tx[o]
  BY <1>1 DEF TxInv
<1>3. Idle.user \notin Users /\ Null \notin Users
  BY RequestsOK DEF Idle
<1> QED
  BY <1>1, <1>2, <1>3, Stutters
-----------------------------------------------------------------------------
(* The steps of one request                                                *)

\* A step of the services, after which everyone is ready.
Refines == Step /\ Records(db') /\ \A o \in Txs : Ready(tx'[o], db')

LEMMA IdleReady ==
  ASSUME NEW d
  PROVE  Ready(Idle, d)
BY DEF Ready, Fresh, Asked, Administers, Idle, WorkshopOps, UserOps

LEMMA EndRefines ==
  ASSUME AtomicInv, NEW t \in Txs, End(t), UNCHANGED db
  PROVE  Refines
<1>1. Step
  BY EndsWithoutWrite DEF AtomicInv
<1>2. \A o \in Txs : tx'[o] \in {tx[o], Idle}
  BY DEF End, AtomicInv, TxInv
<1> QED
  BY <1>1, <1>2, IdleReady DEF Refines, AtomicInv

LEMMA GoesOnRefines ==
  ASSUME AtomicInv, UNCHANGED db, NEW t \in Txs, NEW r, tx' = [tx EXCEPT ![t] = r],
         r.user = tx[t].user, r.role = tx[t].role, r.op # "NONE", tx[t].op # "NONE",
         Ready(r, db)
  PROVE  Refines
<1>1. Step
  BY GoesOnStutters DEF AtomicInv
<1>2. \A o \in Txs : tx'[o] \in {tx[o], r}
  BY DEF AtomicInv, TxInv
<1> QED
  BY <1>1, <1>2 DEF Refines, AtomicInv

LEMMA RequestRefines ==
  ASSUME AtomicInv, MaxPerUser = 1, NEW t \in Txs, WorkshopRequest(t)
  PROVE  Refines
<1>1. Step
  BY RequestsAuthenticate DEF AtomicInv
<1> PICK u \in Users, op \in WorkshopOps :
      \E i, l, arg : Admit(t, u, op, i, l, arg)
  BY Zenon DEF WorkshopRequest, WorkshopOps
<1> PICK i, l, arg : Admit(t, u, op, i, l, arg)
  OBVIOUS
<1> DEFINE r == [Idle EXCEPT
       !.op = op, !.user = u, !.role = db.user[u].role, !.i = i, !.l = l, !.arg = arg,
       !.step = IF op \in {"EDIT", "APPROVE_EDIT"} THEN "context" ELSE "lock",
       !.todo = CASE op = "CREATE" -> {OnLine(l)}
                  [] op = "TAKE" -> {OnUser(u), OnIncident(i)}
                  [] OTHER -> {OnIncident(i)}]
<1>2. tx' = [tx EXCEPT ![t] = r] /\ db' = db
  BY Zenon DEF Admit, Begin
<1>3. /\ r.op = op /\ r.user = u /\ r.role = db.user[u].role
      /\ r.step \in {"context", "lock"} /\ r.seen = {}
      /\ op = "TAKE" => r.todo = {OnUser(u), OnIncident(i)}
  BY DEF Idle
<1> HIDE DEF r
<1>4. Ready(r, db)
  BY <1>3 DEF Ready, Fresh, Asked, Administers, AtomicInv, Records, WorkshopOps, UserOps
<1>5. \A o \in Txs : tx'[o] \in {tx[o], r}
  BY <1>2 DEF AtomicInv, TxInv
<1> QED
  BY <1>1, <1>2, <1>4, <1>5 DEF Refines, AtomicInv

LEMMA AdminRequestRefines ==
  ASSUME AtomicInv, NEW t \in Txs, AdminRequest(t)
  PROVE  Refines
<1>1. Step
  BY AdminRequestStutters DEF AtomicInv
<1>2. ASSUME NEW r, Begin(t, r), r.op \in LineOps \cup UserOps, r.seen = {}, r.step = "lock",
             r.op \in UserOps => /\ r.l \in Users /\ r.todo = {OnUser(r.l)}
                                 /\ db.user[r.l].status = "ACTIVE",
             r.op = "CHANGE_ROLE" => r.arg \in W!Roles
      PROVE  Refines
  <2>1. Ready(r, db)
    BY <1>2 DEF Ready, Fresh, Asked, Administers, WorkshopOps, UserOps, LineOps
  <2>2. \A o \in Txs : tx'[o] \in {tx[o], r}
    BY <1>2 DEF Begin, AtomicInv, TxInv
  <2> QED
    BY <1>1, <1>2, <2>1, <2>2 DEF Refines, AtomicInv, Begin
<1>3. ASSUME NEW l \in Lines, NEW op \in {"DISABLE_LINE", "FORCE_ARCHIVE"},
             Begin(t, [Idle EXCEPT !.op = op, !.l = l, !.step = "lock", !.todo = {OnLine(l)}])
      PROVE  Refines
  <2> DEFINE r == [Idle EXCEPT !.op = op, !.l = l, !.step = "lock", !.todo = {OnLine(l)}]
  <2>1. /\ r.op \in LineOps /\ r.op \notin UserOps /\ r.op # "CHANGE_ROLE" /\ r.step = "lock"
        /\ r.seen = {} /\ Begin(t, r)
    BY <1>3 DEF Idle, LineOps, UserOps
  <2> HIDE DEF r
  <2> QED
    BY <1>2, <2>1
<1>4. ASSUME NEW u \in Users, NEW role \in W!Roles \cup {Null}, InService,
             Begin(t, [Idle EXCEPT !.op = IF role = Null THEN "DISABLE_USER" ELSE "CHANGE_ROLE",
                                   !.l = u, !.arg = role, !.step = "lock",
                                   !.todo = {OnUser(u)}])
      PROVE  Refines
  <2> DEFINE r == [Idle EXCEPT !.op = IF role = Null THEN "DISABLE_USER" ELSE "CHANGE_ROLE",
                               !.l = u, !.arg = role, !.step = "lock", !.todo = {OnUser(u)}]
  <2>1. /\ r.op \in UserOps /\ r.l = u /\ r.todo = {OnUser(u)} /\ r.step = "lock"
        /\ r.seen = {} /\ Begin(t, r) /\ r.arg = role
        /\ r.op = "CHANGE_ROLE" => role # Null
    BY <1>4 DEF Idle, UserOps
  <2>2. db.user[u].status = "ACTIVE"
    <3>1. db.user[u] = [status |-> "ACTIVE", role |-> Staff[u]]
      BY <1>4, Zenon DEF InService
    <3> QED
      BY <3>1
  <2> HIDE DEF r
  <2> QED
    BY <1>2, <1>4, <2>1, <2>2
<1> QED
  BY <1>3, <1>4, Zenon DEF AdminRequest

LEMMA ContextRefines ==
  ASSUME AtomicInv, NEW t \in Txs, Context(t)
  PROVE  Refines
<1>0. Fits(tx[t], db) /\ Ready(tx[t], db) /\ DOMAIN tx = Txs
  BY DEF AtomicInv, TxInv
<1>1. PICK context, todo :
        /\ tx[t].step = "context" /\ db' = db
        /\ tx' = [tx EXCEPT ![t].step = "lock", ![t].context = context, ![t].todo = todo]
  BY Zenon DEF Context
<1> DEFINE r == [tx[t] EXCEPT !.step = "lock", !.context = context, !.todo = todo]
<1>2. tx' = [tx EXCEPT ![t] = r]
  BY <1>0, <1>1
<1>3. DOMAIN tx[t] = RequestFields /\ tx[t].op \in Movers
  BY <1>0, <1>1 DEF Fits, Stage
<1>4. /\ r.op = tx[t].op /\ r.user = tx[t].user /\ r.role = tx[t].role /\ r.l = tx[t].l
      /\ r.arg = tx[t].arg /\ r.step = "lock" /\ r.seen = tx[t].seen
  BY <1>3 DEF RequestFields
<1> HIDE DEF r
<1>5. Ready(r, db) /\ r.op # "NONE" /\ tx[t].op # "NONE"
  BY <1>0, <1>3, <1>4 DEF Ready, Fresh, Asked, Administers, Movers, WorkshopOps, UserOps
<1> QED
  BY <1>1, <1>2, <1>4, <1>5, GoesOnRefines

LEMMA LockRefines ==
  ASSUME AtomicInv, NEW t \in Txs, Lock(t)
  PROVE  Refines
<1> DEFINE q == tx[t]
<1>0. Fits(q, db) /\ Ready(q, db) /\ DOMAIN tx = Txs /\ q.step = "lock" /\ db' = db
  BY DEF AtomicInv, TxInv, Lock
<1>1. DOMAIN q = RequestFields /\ q.op # "NONE"
  BY <1>0 DEF Fits, Stage, Idle
<1>2. PICK k \in Firsts(q.todo) :
        \/ /\ Skipped(t, k)
           /\ tx' = [tx EXCEPT ![t].todo = @ \ {k}]
        \/ /\ ~Skipped(t, k)
           /\ tx' = [tx EXCEPT ![t].todo = @ \ {k}, ![t].own = @ \cup {k},
                               ![t].seen = @ \cup {[key |-> k, row |-> Row(k)]}]
  BY Zenon DEF Lock
<1>3. k \in q.todo
  BY DEF Firsts
<1>4. CASE Skipped(t, k) /\ tx' = [tx EXCEPT ![t].todo = @ \ {k}]
  <2> DEFINE r == [q EXCEPT !.todo = @ \ {k}]
  <2>1. tx' = [tx EXCEPT ![t] = r]
    BY <1>0, <1>4
  <2>2. /\ r.op = q.op /\ r.user = q.user /\ r.role = q.role /\ r.l = q.l
        /\ r.arg = q.arg /\ r.step = "lock" /\ r.seen = q.seen
    BY <1>0, <1>1 DEF RequestFields
  <2> HIDE DEF r
  <2>3. q.op \in {"CREATE", "EDIT", "APPROVE_EDIT"}
    BY <1>4 DEF Skipped
  <2>4. Ready(r, db)
    BY <1>0, <2>2, <2>3 DEF Ready, Fresh, Asked, Administers, WorkshopOps, UserOps
  <2> QED
    BY <1>0, <1>1, <2>1, <2>2, <2>4, GoesOnRefines
<1>5. CASE tx' = [tx EXCEPT ![t].todo = @ \ {k}, ![t].own = @ \cup {k},
                            ![t].seen = @ \cup {[key |-> k, row |-> Row(k)]}]
  <2> DEFINE s == [key |-> k, row |-> Row(k)]
             r == [q EXCEPT !.todo = @ \ {k}, !.own = @ \cup {k}, !.seen = @ \cup {s}]
  <2>1. tx' = [tx EXCEPT ![t] = r]
    BY <1>0, <1>5
  <2>2. /\ r.op = q.op /\ r.user = q.user /\ r.role = q.role /\ r.l = q.l /\ r.found = q.found
        /\ r.arg = q.arg /\ r.step = "lock" /\ r.seen = q.seen \cup {s}
        /\ r.todo \cup r.own = q.todo \cup q.own
    BY <1>0, <1>1, <1>3 DEF RequestFields
  <2>3. /\ s.key = k
        /\ \A l \in Lines : k = OnLine(l) => s.row = db.line[l]
        /\ \A u \in Users : k = OnUser(u) => s.row = db.user[u]
    BY DEF Row, OnLine, OnUser
  <2> HIDE DEF r, s
  <2>4. Fresh(r, db)
    BY <1>0, <2>2, <2>3 DEF Ready, Fresh
  <2>5. Ready(r, db)
    BY <1>0, <2>2, <2>4 DEF Ready, Asked, Administers
  <2> QED
    BY <1>0, <1>1, <2>1, <2>2, <2>5, GoesOnRefines
<1> QED
  BY <1>2, <1>4, <1>5
-----------------------------------------------------------------------------
(* What the services decide, on the tables as they are                     *)

LEMMA LineSeenIsCurrent ==
  ASSUME AtomicInv, NEW t \in Txs, NEW l \in Lines, OnLine(l) \in tx[t].own
  PROVE  Seen(t, OnLine(l)) = db.line[l]
<1>1. Stage(tx[t]) /\ Fresh(tx[t], db)
  BY DEF AtomicInv, TxInv, Fits, Ready
<1>2. PICK s \in tx[t].seen : s.key = OnLine(l)
  BY <1>1 DEF Stage
<1>3. LET s2 == CHOOSE s3 \in tx[t].seen : s3.key = OnLine(l)
      IN s2 \in tx[t].seen /\ s2.key = OnLine(l)
  BY <1>2
<1> QED
  BY <1>1, <1>3 DEF Fresh, Seen

LEMMA UserSeenIsCurrent ==
  ASSUME AtomicInv, NEW t \in Txs, NEW u \in Users, OnUser(u) \in tx[t].own
  PROVE  Seen(t, OnUser(u)) = db.user[u]
<1>1. Stage(tx[t]) /\ Fresh(tx[t], db)
  BY DEF AtomicInv, TxInv, Fits, Ready
<1>2. PICK s \in tx[t].seen : s.key = OnUser(u)
  BY <1>1 DEF Stage
<1>3. LET s2 == CHOOSE s3 \in tx[t].seen : s3.key = OnUser(u)
      IN s2 \in tx[t].seen /\ s2.key = OnUser(u)
  BY <1>2
<1> QED
  BY <1>1, <1>3 DEF Fresh, Seen

\* The open cases and the places, as module Workshop reads them.
LEMMA SameTables ==
  /\ \A i : W!OpenCases(i) = OpenOf(db, i)
  /\ \A i, p : W!PlaceIsFree(p, i) <=> PlaceFree(db, p, i)
  /\ \A i : W!HasOpenCase(i, "EDIT") => OpenOf(db, i) # {}
BY DEF W!OpenCases, OpenOf, W!OpenStatuses, W!PlaceIsFree, PlaceFree, Live, W!ActiveStatuses,
   W!HasOpenCase

\* What a place selected under its lock is worth.
LEMMA SelectsOffered ==
  ASSUME AtomicInv, NEW t \in Txs, tx[t].op \in Writers, tx[t].todo = {}, NEW p, Selects(t, p)
  PROVE  /\ p.lineId \in Lines /\ OnLine(p.lineId) \in tx[t].own
         /\ Seen(t, OnLine(p.lineId)) = db.line[p.lineId]
         /\ Offered(db, p)
<1>0. Fits(tx[t], db)
  BY DEF AtomicInv, TxInv
<1>1. OnLine(p.lineId) \in tx[t].own
  BY DEF Selects, Holds
<1>2. \/ OnLine(p.lineId) \in LineKeys \cup {OnIncident(tx[t].i)}
      \/ tx[t].l \in Lines /\ OnLine(p.lineId) = OnLine(tx[t].l)
  BY <1>0, <1>1 DEF Fits, Plan, Writers, Movers
<1>3. p.lineId \in Lines
  BY <1>2 DEF LineKeys, OnLine, OnIncident
<1>4. Seen(t, OnLine(p.lineId)) = db.line[p.lineId]
  BY <1>1, <1>3, LineSeenIsCurrent
<1>5. db.line[p.lineId].status = "ACTIVE"
  BY <1>0, <1>1, <1>3 DEF Fits, Current
<1> QED
  BY <1>1, <1>3, <1>4, <1>5 DEF Selects, Offered

LEMMA AllowedServes ==
  ASSUME AtomicInv, NEW t \in Txs, Locked(t, WorkshopOps), Allowed(t),
         tx[t].op \in {"CREATE", "EDIT", "APPROVE_EDIT"} =>
           W!PlaceIsFree(Written(t).fields, tx[t].i),
         NEW r, r.op = tx[t].op, r.i = tx[t].i, r.user = tx[t].user, r.role = tx[t].role,
         r.arg = tx[t].arg, r.write = Written(t)
  PROVE  Served(r, db)
<1> DEFINE q == tx[t]
           inc == db.incident[q.i]
<1>0. /\ Fits(q, db) /\ Ready(q, db) /\ q.todo = {} /\ q.step = "lock" /\ q.op \in WorkshopOps
      /\ TxInv
  BY DEF AtomicInv, TxInv, Locked
<1>1. q.i \in Incidents /\ q.user \in Users /\ Stands(inc)
  BY <1>0 DEF Fits, Stage, TxInv, Tables
<1>2. q.op # "CREATE" => Seen(t, OnIncident(q.i)) = inc
  <2>1. q.op # "CREATE" => OnIncident(q.i) \in q.own
    BY <1>0 DEF Fits, Plan
  <2> QED
    BY <1>0, <1>1, <2>1, SeenIsCurrent
<1>3. CASE q.op = "CREATE"
  <2>1. Selects(t, q.arg)
    BY <1>3 DEF Allowed
  <2>2. Offered(db, q.arg) /\ Seen(t, OnLine(q.arg.lineId)) = db.line[q.arg.lineId]
    BY <1>0, <1>3, <2>1, SelectsOffered DEF Writers
  <2>3. Written(t) = Numbered(t, [W!NoIncident EXCEPT !.status = "OPEN", !.user_id = q.user], q.arg)
    BY <1>3 DEF Written
  <2>4. Written(t) = [W!NoIncident EXCEPT !.status = "OPEN", !.user_id = q.user, !.fields = q.arg,
                                          !.lineNumber = db.line[q.arg.lineId].number]
    BY <2>2, <2>3 DEF Numbered
  <2>5. Written(t).fields = q.arg
    BY <2>4 DEF W!NoIncident
  <2>6. PlaceFree(db, q.arg, q.i)
    BY <1>3, <2>5, SameTables
  <2> QED
    BY <1>3, <2>2, <2>4, <2>6 DEF Served
<1>4. CASE q.op = "TAKE"
  <2>1. OnUser(q.user) \in q.own
    BY <1>0, <1>4 DEF Ready, Asked
  <2>2. Seen(t, OnUser(q.user)) = db.user[q.user]
    BY <1>1, <2>1, UserSeenIsCurrent
  <2>3. /\ db.user[q.user].status = "ACTIVE" /\ db.user[q.user].role = "MAINTENANCE"
        /\ q.role = "MAINTENANCE"
        /\ W!OpenCases(q.i) = {} /\ ~W!HasPendingArbitration(inc)
        /\ W!CanTake("MAINTENANCE", inc, q.user)
    BY <1>2, <1>4, <2>2 DEF Allowed
  <2>4. Written(t) = [inc EXCEPT !.takenBy = q.user]
    BY <1>2, <1>4 DEF Written
  <2>5. Quiet(db, q.i)
    BY <2>3, SameTables DEF Quiet
  <2> QED
    BY <1>4, <2>3, <2>4, <2>5 DEF Served
<1>5. CASE q.op = "CLOSE"
  <2>1. /\ W!OpenCases(q.i) = {} /\ ~W!HasPendingArbitration(inc)
        /\ W!CanSuspendOrClose(q.role, inc)
    BY <1>2, <1>5 DEF Allowed
  <2>2. Written(t) = [inc EXCEPT !.status = "CLOSED", !.note = CHOOSE n \in Texts : TRUE]
    BY <1>2, <1>5 DEF Written
  <2>3. (CHOOSE n \in Texts : TRUE) \in Texts
    BY RequestsOK
  <2>4. Quiet(db, q.i)
    BY <2>1, SameTables DEF Quiet
  <2> QED
    BY <1>5, <2>1, <2>2, <2>3, <2>4 DEF Served
<1>6. CASE q.op = "REQUEST_EDIT"
  <2>1. /\ W!OpenCases(q.i) = {} /\ ~W!HasPendingArbitration(inc)
        /\ W!CanRequestEdit(q.role, inc, q.user)
        /\ W!Changed(q.arg, inc.fields) # W!NoChange
    BY <1>2, <1>6 DEF Allowed
  <2>2. Written(t) = [inc EXCEPT !.editRequest = W!Changed(q.arg, inc.fields)]
    BY <1>2, <1>6 DEF Written
  <2>3. Quiet(db, q.i)
    BY <2>1, SameTables DEF Quiet
  <2> QED
    BY <1>6, <2>1, <2>2, <2>3 DEF Served
<1>7. CASE q.op = "REJECT_EDIT"
  <2>1. W!HasOpenCase(q.i, "EDIT") /\ W!CanDecideEdit(q.role, inc)
    BY <1>2, <1>7 DEF Allowed
  <2>2. Written(t) = [inc EXCEPT !.editRequest = Null]
    BY <1>2, <1>7 DEF Written
  <2> QED
    BY <1>7, <2>1, <2>2, SameTables DEF Served
\* The correction of an incident, asked for or approved, puts it on place p.
<1>8. ASSUME NEW p, q.op \in Movers, Selects(t, p)
      PROVE  /\ Offered(db, p)
             /\ Numbered(t, inc, p) =
                  [inc EXCEPT !.fields = p, !.lineNumber = db.line[p.lineId].number]
             /\ Numbered(t, inc, p).fields = p
             /\ [Numbered(t, inc, p) EXCEPT !.editRequest = Null].fields = p
  <2>1. Offered(db, p) /\ Seen(t, OnLine(p.lineId)) = db.line[p.lineId]
    BY <1>0, <1>8, SelectsOffered DEF Writers
  <2>2. Numbered(t, inc, p) = [inc EXCEPT !.fields = p, !.lineNumber = db.line[p.lineId].number]
    BY <2>1 DEF Numbered
  <2> QED
    BY <1>1, <2>1, <2>2 DEF Stands, IncidentColumns
<1>9. CASE q.op = "EDIT"
  <2> DEFINE p == W!Merge(q.arg, inc.fields)
  <2>1. /\ W!OpenCases(q.i) = {} /\ ~W!HasPendingArbitration(inc)
        /\ W!CanEdit(q.role, inc, q.user)
        /\ W!Changed(q.arg, inc.fields) # W!NoChange
        /\ Selects(t, p)
    BY <1>2, <1>9 DEF Allowed
  <2>2. Written(t) = Numbered(t, inc, p)
    BY <1>2, <1>9 DEF Written
  <2>3. W!PlaceIsFree(Written(t).fields, q.i) /\ q.op \in Movers
    BY <1>9 DEF Movers
  <2>4. Quiet(db, q.i)
    BY <2>1, SameTables DEF Quiet
  <2> HIDE DEF p
  <2>5. /\ Offered(db, p)
        /\ Written(t) = [inc EXCEPT !.fields = p, !.lineNumber = db.line[p.lineId].number]
        /\ Written(t).fields = p
    BY <1>8, <2>1, <2>2, <2>3
  <2>6. PlaceFree(db, p, q.i)
    BY <2>3, <2>5, SameTables
  <2> QED
    BY <1>9, <2>1, <2>4, <2>5, <2>6 DEF Served, p
<1>10. CASE q.op = "APPROVE_EDIT"
  <2> DEFINE p == W!Merge(inc.editRequest, inc.fields)
  <2>1. W!HasOpenCase(q.i, "EDIT") /\ W!CanDecideEdit(q.role, inc) /\ Selects(t, p)
    BY <1>2, <1>10 DEF Allowed
  <2>2. Written(t) = [Numbered(t, inc, p) EXCEPT !.editRequest = Null]
    BY <1>2, <1>10 DEF Written
  <2>3. W!PlaceIsFree(Written(t).fields, q.i) /\ q.op \in Movers
    BY <1>10 DEF Movers
  <2> HIDE DEF p
  <2>4. /\ Offered(db, p)
        /\ Numbered(t, inc, p) =
             [inc EXCEPT !.fields = p, !.lineNumber = db.line[p.lineId].number]
        /\ Written(t).fields = p
    BY <1>8, <2>1, <2>2, <2>3
  <2>5. PlaceFree(db, p, q.i)
    BY <2>3, <2>4, SameTables
  <2> QED
    BY <1>10, <2>1, <2>2, <2>4, <2>5, SameTables DEF Served, p
<1> QED
  BY <1>0, <1>3, <1>4, <1>5, <1>6, <1>7, <1>9, <1>10 DEF WorkshopOps

LEMMA SameService ==
  ASSUME NEW q, NEW r, NEW d, Served(q, d),
         r.op = q.op, r.i = q.i, r.user = q.user, r.role = q.role, r.arg = q.arg,
         r.write = q.write
  PROVE  Served(r, d)
BY DEF Served

LEMMA DecideRefines ==
  ASSUME AtomicInv, NEW t \in Txs, Decide(t)
  PROVE  Refines
<1> DEFINE q == tx[t]
<1>0. /\ Fits(q, db) /\ Ready(q, db) /\ Locked(t, WorkshopOps) /\ DOMAIN tx = Txs
      /\ DOMAIN q = RequestFields /\ q.op \in WorkshopOps /\ q.step = "lock" /\ db' = db
  BY DEF AtomicInv, TxInv, Decide, Locked, Fits, Stage
<1>1. CASE End(t)
  BY <1>0, <1>1, EndRefines
<1>2. CASE /\ Allowed(t)
           /\ q.op \in {"CREATE", "EDIT", "APPROVE_EDIT"} =>
                W!PlaceIsFree(Written(t).fields, q.i)
           /\ tx' = [tx EXCEPT ![t].step = "event", ![t].write = Written(t)]
  <2> DEFINE r == [q EXCEPT !.step = "event", !.write = Written(t)]
  <2>1. tx' = [tx EXCEPT ![t] = r]
    BY <1>0, <1>2
  <2>2. /\ r.op = q.op /\ r.i = q.i /\ r.user = q.user /\ r.role = q.role /\ r.arg = q.arg
        /\ r.l = q.l /\ r.step = "event" /\ r.write = Written(t) /\ r.seen = q.seen
        /\ r.todo = q.todo /\ r.own = q.own
    BY <1>0 DEF RequestFields
  <2> HIDE DEF r
  <2>3. Served(r, db)
    BY <1>0, <1>2, <2>2, AllowedServes
  <2>4. Fresh(r, db) /\ Asked(r, db)
    BY <1>0, <2>2 DEF Ready, Fresh, Asked
  <2>5. Administers(r, db) /\ r.op # "NONE" /\ q.op # "NONE"
    BY <1>0, <2>2 DEF Administers, WorkshopOps, UserOps
  <2> QED
    BY <1>0, <2>1, <2>2, <2>3, <2>4, <2>5, GoesOnRefines DEF Ready
<1> QED
  BY <1>1, <1>2, Zenon DEF Decide

LEMMA EventRefines ==
  ASSUME AtomicInv, NEW t \in Txs, Event(t)
  PROVE  Refines
<1> DEFINE q == tx[t]
           r == [q EXCEPT !.step = "commit", !.share = OnUser(q.user)]
<1>0. /\ Fits(q, db) /\ Ready(q, db) /\ DOMAIN tx = Txs /\ q.step = "event" /\ db' = db
      /\ DOMAIN q = RequestFields /\ q.op \in WorkshopOps
  BY DEF AtomicInv, TxInv, Event, Fits, Stage
<1>1. tx' = [tx EXCEPT ![t] = r]
  BY <1>0 DEF Event
<1>2. /\ r.op = q.op /\ r.i = q.i /\ r.user = q.user /\ r.role = q.role /\ r.arg = q.arg
      /\ r.l = q.l /\ r.write = q.write /\ r.seen = q.seen
      /\ r.todo = q.todo /\ r.own = q.own
  BY <1>0 DEF RequestFields
<1> HIDE DEF r
<1>3. Served(r, db)
  <2>1. Served(q, db)
    BY <1>0 DEF Ready
  <2> QED
    BY <1>2, <2>1, SameService
<1>4. Fresh(r, db) /\ Asked(r, db)
  BY <1>0, <1>2 DEF Ready, Fresh, Asked
<1>5. Administers(r, db) /\ r.op # "NONE" /\ q.op # "NONE"
  BY <1>0, <1>2 DEF Administers, WorkshopOps, UserOps
<1> QED
  BY <1>0, <1>1, <1>2, <1>3, <1>4, <1>5, GoesOnRefines DEF Ready

LEMMA CountIncidentsRefines ==
  ASSUME AtomicInv, NEW t \in Txs, CountIncidents(t)
  PROVE  Refines
<1> DEFINE q == tx[t]
           active == W!ActiveOn(q.l)
           r == [q EXCEPT !.op = IF @ = "FORCE_ARCHIVE" THEN "CANCEL_ALL" ELSE @,
                          !.step = IF active = {} THEN "commit" ELSE "lock",
                          !.todo = {OnIncident(i) : i \in active}]
<1>0. /\ Fits(q, db) /\ Ready(q, db) /\ DOMAIN tx = Txs /\ db' = db
      /\ DOMAIN q = RequestFields /\ q.op \in LineOps /\ q.step = "lock" /\ q.todo = {}
  BY DEF AtomicInv, TxInv, CountIncidents, Locked, Fits, Stage, LineOps
<1>1. CASE End(t)
  BY <1>0, <1>1, EndRefines
<1>2. ASSUME Seen(t, OnLine(q.l)).status \in
               IF q.op = "DISABLE_LINE" THEN {"ACTIVE"} ELSE {"ACTIVE", "INACTIVE"},
             tx' = [tx EXCEPT ![t] = r]
      PROVE  Refines
  <2>1. /\ r.op = IF q.op = "FORCE_ARCHIVE" THEN "CANCEL_ALL" ELSE q.op
        /\ r.user = q.user /\ r.role = q.role /\ r.l = q.l /\ r.seen = q.seen
        /\ r.found = q.found
    BY <1>0 DEF RequestFields
  <2> HIDE DEF r, active
  <2>2. q.l \in Lines /\ OnLine(q.l) \in q.own /\ q.found = {}
    BY <1>0 DEF Fits, Plan, Stage, LineOps
  <2>3. Seen(t, OnLine(q.l)) = db.line[q.l]
    BY <2>2, LineSeenIsCurrent
  <2>4. /\ r.op \in {"DISABLE_LINE", "CANCEL_ALL"}
        /\ r.op = "DISABLE_LINE" => db.line[q.l].status = "ACTIVE"
        /\ db.line[q.l].status \in {"ACTIVE", "INACTIVE"}
    BY <1>0, <1>2, <2>1, <2>3 DEF LineOps
  <2>5. Ready(r, db) /\ r.op # "NONE" /\ q.op # "NONE"
    BY <1>0, <2>1, <2>2, <2>4 DEF Ready, Fresh, Asked, Administers, WorkshopOps, UserOps, LineOps
  <2> QED
    BY <1>0, <1>2, <2>1, <2>5, GoesOnRefines
<1> QED
  BY <1>0, <1>1, <1>2 DEF CountIncidents

LEMMA CountTakenRefines ==
  ASSUME AtomicInv, NEW t \in Txs, CountTaken(t)
  PROVE  Refines
<1> DEFINE q == tx[t]
           r == [q EXCEPT !.step = "commit"]
<1>0. /\ Fits(q, db) /\ Ready(q, db) /\ DOMAIN tx = Txs /\ db' = db
      /\ DOMAIN q = RequestFields /\ q.op \in UserOps /\ q.step = "lock" /\ q.todo = {}
  BY DEF AtomicInv, TxInv, CountTaken, Locked, Fits, Stage, UserOps
<1>1. CASE End(t)
  BY <1>0, <1>1, EndRefines
<1>2. CASE /\ W!ActiveTakenBy(q.l) = {}
           /\ ~(q.op = "DISABLE_USER" /\ Seen(t, OnUser(q.l)).status # "ACTIVE")
           /\ ~(/\ q.op = "CHANGE_ROLE"
                /\ \/ Seen(t, OnUser(q.l)).role = q.arg
                   \/ Seen(t, OnUser(q.l)).status = "DELETED")
           /\ tx' = [tx EXCEPT ![t].step = "commit"]
  <2>1. tx' = [tx EXCEPT ![t] = r]
    BY <1>0, <1>2
  <2>2. /\ r.op = q.op /\ r.user = q.user /\ r.role = q.role /\ r.l = q.l /\ r.arg = q.arg
        /\ r.seen = q.seen /\ r.step = "commit" /\ r.todo = q.todo /\ r.own = q.own
    BY <1>0 DEF RequestFields
  <2> HIDE DEF r
  <2>3. q.l \in Users /\ OnUser(q.l) \in q.own
    BY <1>0 DEF Fits, Plan, Ready, Asked
  <2>4. Seen(t, OnUser(q.l)) = db.user[q.l]
    BY <2>3, UserSeenIsCurrent
  <2>5. \A i \in Incidents : Live(db.incident[i]) => db.incident[i].takenBy # q.l
    BY <1>2 DEF W!ActiveTakenBy, W!ActiveStatuses, Live
  <2>6. Administers(r, db)
    BY <1>0, <1>2, <2>2, <2>3, <2>4, <2>5 DEF Administers, UserOps
  <2>7. Fresh(r, db) /\ Asked(r, db)
    BY <1>0, <2>2 DEF Ready, Fresh, Asked
  <2>8. r.op \notin WorkshopOps /\ r.op # "NONE" /\ q.op # "NONE"
    BY <1>0, <2>2 DEF WorkshopOps, UserOps
  <2> QED
    BY <1>0, <2>1, <2>2, <2>6, <2>7, <2>8, GoesOnRefines DEF Ready
<1> QED
  BY <1>1, <1>2, Zenon DEF CountTaken

LEMMA CancelingRefines ==
  ASSUME AtomicInv, NEW t \in Txs, Canceling(t)
  PROVE  Refines
<1> DEFINE q == tx[t]
           found == {i \in Incidents :
                       /\ Holds(t, OnIncident(i))
                       /\ Seen(t, OnIncident(i)).status \in W!ActiveStatuses
                       /\ Seen(t, OnIncident(i)).fields.lineId = q.l}
           r == [q EXCEPT !.step = "commit", !.found = found]
<1>0. /\ Fits(q, db) /\ Ready(q, db) /\ DOMAIN tx = Txs /\ db' = db /\ TxInv
      /\ DOMAIN q = RequestFields /\ q.op = "CANCEL_ALL" /\ q.step = "lock"
  BY DEF AtomicInv, TxInv, Canceling, Locked, Fits, Stage
<1>1. tx' = [tx EXCEPT ![t] = r]
  BY <1>0 DEF Canceling
<1>2. /\ r.op = q.op /\ r.user = q.user /\ r.role = q.role /\ r.l = q.l
      /\ r.seen = q.seen /\ r.found = found /\ r.step = "commit"
  BY <1>0 DEF RequestFields
<1>3. \A i \in found : Live(db.incident[i]) /\ db.incident[i].fields.lineId = q.l
  BY <1>0, SeenIsCurrent DEF Holds, Live, W!ActiveStatuses
<1> HIDE DEF r, found
<1>4. Ready(r, db) /\ r.op # "NONE" /\ q.op # "NONE"
  BY <1>0, <1>2, <1>3 DEF Ready, Fresh, Asked, Administers, WorkshopOps, UserOps
<1> QED
  BY <1>0, <1>1, <1>2, <1>4, GoesOnRefines
-----------------------------------------------------------------------------
(* A commit leaves the others ready                                        *)

\* What else the commit of r leaves alone, when r owns no row of it.
Spares(r, d, d2) ==
  /\ Records(d2)
  /\ \A i \in Incidents : OpenOf(d2, i) # OpenOf(d, i) => OnIncident(i) \in r.own
  /\ \A u \in Users : d2.user[u] # d.user[u] =>
       OnUser(u) \in r.own /\ d2.user[u].status \in {"ACTIVE", "INACTIVE"}
  /\ \A i \in Incidents : Live(d2.incident[i]) =>
       /\ \/ Live(d.incident[i]) /\ d2.incident[i].fields = d.incident[i].fields
          \/ OnLine(d2.incident[i].fields.lineId) \in r.own
       /\ \/ Live(d.incident[i]) /\ d2.incident[i].takenBy = d.incident[i].takenBy
          \/ d2.incident[i].takenBy = Null
          \/ OnUser(d2.incident[i].takenBy) \in r.own

\* A place that q found free under the lock of its line stays free.
LEMMA PlaceStaysFree ==
  ASSUME NEW r, NEW q, NEW d, NEW d2, Apart(r, q), Spares(r, d, d2), NEW p, NEW i,
         OnLine(p.lineId) \in q.own, PlaceFree(d, p, i)
  PROVE  PlaceFree(d2, p, i)
<1> SUFFICES ASSUME NEW j \in Incidents \ {i}, Live(d2.incident[j])
             PROVE  W!Place(d2.incident[j].fields) # W!Place(p)
  BY DEF PlaceFree
<1>1. CASE Live(d.incident[j]) /\ d2.incident[j].fields = d.incident[j].fields
  BY <1>1 DEF PlaceFree
<1>2. CASE OnLine(d2.incident[j].fields.lineId) \in r.own
  <2>1. d2.incident[j].fields.lineId # p.lineId
    BY <1>2 DEF Apart
  <2> QED
    BY <2>1 DEF W!Place
<1> QED
  BY <1>1, <1>2 DEF Spares

LEMMA OthersServed ==
  ASSUME NEW r, NEW q, NEW d, NEW d2, Tables(d), Fits(q, d), Apart(r, q),
         Publishes(r, d, d2), Spares(r, d, d2), Fits(r, d), Asked(q, d),
         q.op \in WorkshopOps, q.step \in {"event", "commit"}, Served(q, d)
  PROVE  Served(q, d2)
<1> DEFINE inc == d.incident[q.i]
<1>0. q.i \in Incidents /\ q.user \in Users /\ Stands(inc)
  BY DEF Fits, Stage, Tables
<1>1. q.op # "CREATE" => OnIncident(q.i) \in q.own /\ OnIncident(q.i) \notin r.own
  BY DEF Fits, Writes, Apart
<1>2. q.op # "CREATE" => d2.incident[q.i] = inc
  BY <1>0, <1>1 DEF Publishes, Apart
<1>3. q.op # "CREATE" => OpenOf(d2, q.i) = OpenOf(d, q.i)
  BY <1>0, <1>1 DEF Spares
<1>4. q.op # "CREATE" /\ Quiet(d, q.i) => Quiet(d2, q.i)
  BY <1>2, <1>3 DEF Quiet
<1>5. ASSUME NEW p, q.write.fields = p, q.op \in Writers, Offered(d, p), PlaceFree(d, p, q.i)
      PROVE  /\ Offered(d2, p) /\ PlaceFree(d2, p, q.i)
             /\ d2.line[p.lineId] = d.line[p.lineId]
  <2>1. OnLine(p.lineId) \in q.own
    BY <1>5 DEF Fits, Writes
  <2>2. p.lineId \in Lines
    BY <1>5 DEF Fits, Writes, Stands
  <2>3. d2.line[p.lineId] = d.line[p.lineId]
    BY <2>1, <2>2 DEF Publishes, Apart
  <2> QED
    BY <1>5, <2>1, <2>3, PlaceStaysFree DEF Offered
<1>6. CASE q.op = "CREATE"
  <2>1. /\ Offered(d, q.arg) /\ PlaceFree(d, q.arg, q.i)
        /\ q.write = [W!NoIncident EXCEPT !.status = "OPEN", !.user_id = q.user,
                        !.fields = q.arg, !.lineNumber = d.line[q.arg.lineId].number]
    BY <1>6 DEF Served
  <2>2. q.write.fields = q.arg
    BY <2>1 DEF W!NoIncident
  <2>3. /\ Offered(d2, q.arg) /\ PlaceFree(d2, q.arg, q.i)
        /\ d2.line[q.arg.lineId] = d.line[q.arg.lineId]
    BY <1>5, <1>6, <2>1, <2>2 DEF Writers
  <2> QED
    BY <1>6, <2>1, <2>3 DEF Served
<1>7. CASE q.op = "TAKE"
  <2>1. OnUser(q.user) \in q.own
    BY <1>7 DEF Asked, Fits, Ordered, Writes, WorkshopOps
  <2>2. d2.user[q.user] = d.user[q.user]
    BY <1>0, <2>1 DEF Spares, Apart
  <2> QED
    BY <1>2, <1>4, <1>7, <2>2 DEF Served
<1>8. CASE q.op \in {"CLOSE", "REQUEST_EDIT", "REJECT_EDIT"}
  BY <1>2, <1>3, <1>4, <1>8 DEF Served
<1>9. CASE q.op = "EDIT"
  <2> DEFINE p == W!Merge(q.arg, inc.fields)
  <2>1. /\ Quiet(d, q.i) /\ W!CanEdit(q.role, inc, q.user)
        /\ W!Changed(q.arg, inc.fields) # W!NoChange
        /\ Offered(d, p) /\ PlaceFree(d, p, q.i)
        /\ q.write = [inc EXCEPT !.fields = p, !.lineNumber = d.line[p.lineId].number]
    BY <1>9 DEF Served
  <2> HIDE DEF p
  <2>2. q.write.fields = p
    BY <1>0, <2>1 DEF Stands, IncidentColumns
  <2>3. /\ Offered(d2, p) /\ PlaceFree(d2, p, q.i) /\ d2.line[p.lineId] = d.line[p.lineId]
    BY <1>5, <1>9, <2>1, <2>2 DEF Writers, Movers
  <2>4. q.write = [inc EXCEPT !.fields = p, !.lineNumber = d2.line[p.lineId].number]
    BY <2>1, <2>3
  <2>5. d2.incident[q.i] = inc /\ Quiet(d2, q.i)
    BY <1>2, <1>4, <1>9, <2>1
  <2> QED
    BY <1>9, <2>1, <2>3, <2>4, <2>5 DEF Served, p
<1>10. CASE q.op = "APPROVE_EDIT"
  <2> DEFINE p == W!Merge(inc.editRequest, inc.fields)
  <2>1. /\ OpenOf(d, q.i) # {} /\ W!CanDecideEdit(q.role, inc)
        /\ Offered(d, p) /\ PlaceFree(d, p, q.i)
        /\ q.write = [[inc EXCEPT !.fields = p, !.lineNumber = d.line[p.lineId].number]
                        EXCEPT !.editRequest = Null]
    BY <1>10 DEF Served
  <2> HIDE DEF p
  <2>2. q.write.fields = p
    BY <1>0, <2>1 DEF Stands, IncidentColumns
  <2>3. /\ Offered(d2, p) /\ PlaceFree(d2, p, q.i) /\ d2.line[p.lineId] = d.line[p.lineId]
    BY <1>5, <1>10, <2>1, <2>2 DEF Writers, Movers
  <2>4. q.write = [[inc EXCEPT !.fields = p, !.lineNumber = d2.line[p.lineId].number]
                     EXCEPT !.editRequest = Null]
    BY <2>1, <2>3
  <2>5. d2.incident[q.i] = inc /\ OpenOf(d2, q.i) # {}
    BY <1>2, <1>3, <1>10, <2>1
  <2> QED
    BY <1>10, <2>1, <2>3, <2>4, <2>5 DEF Served, p
<1> QED
  BY <1>6, <1>7, <1>8, <1>9, <1>10 DEF WorkshopOps

LEMMA OthersReady ==
  ASSUME NEW r, NEW q, NEW d, NEW d2, Tables(d), Fits(r, d), Fits(q, d), Apart(r, q),
         Ready(q, d), Publishes(r, d, d2), Spares(r, d, d2)
  PROVE  Ready(q, d2)
<1>1. \A l \in Lines : OnLine(l) \in q.own => d2.line[l] = d.line[l]
  BY DEF Publishes, Apart
<1>2. \A u \in Users : OnUser(u) \in q.own => d2.user[u] = d.user[u]
  BY DEF Spares, Apart
<1>3. \A i \in Incidents : OnIncident(i) \in q.own => d2.incident[i] = d.incident[i]
  BY DEF Fits, Current, Apart, Publishes
<1>4. Fresh(q, d2)
  BY <1>1, <1>2 DEF Ready, Fresh, Fits, Stage
<1>5. Asked(q, d2)
  <2>1. q.op \in UserOps => d2.user[q.l].status \in {"ACTIVE", "INACTIVE"}
    <3>1. q.op \in UserOps => q.l \in Users /\ d.user[q.l].status \in {"ACTIVE", "INACTIVE"}
      BY DEF Ready, Asked, Fits, Plan
    <3> QED
      BY <3>1 DEF Spares
  <2> QED
    BY <2>1 DEF Ready, Asked
<1>6. Administers(q, d2)
  <2>1. CASE q.op = "DISABLE_LINE"
    BY <1>1, <2>1 DEF Ready, Administers, Fits, Plan, Counted, LineOps, UserOps
  <2>2. CASE q.op = "CANCEL_ALL"
    <3>1. q.l \in Lines /\ OnLine(q.l) \in q.own
      BY <2>2 DEF Fits, Plan
    <3>2. \A i \in q.found : i \in Incidents /\ OnIncident(i) \in q.own
      BY <2>2 DEF Ready, Administers, Fits, Counted
    <3> QED
      BY <1>1, <1>3, <2>2, <3>1, <3>2 DEF Ready, Administers, UserOps
  <2>3. CASE q.op \in UserOps /\ q.step = "commit"
    <3>1. q.l \in Users /\ OnUser(q.l) \in q.own /\ OnUser(q.l) \notin r.own /\ Null \notin Users
      BY <2>3, RequestsOK DEF Ready, Administers, Fits, Plan, Apart
    <3>2. \A i \in Incidents : Live(d2.incident[i]) => d2.incident[i].takenBy # q.l
      BY <2>3, <3>1 DEF Ready, Administers, Spares
    <3> QED
      BY <1>2, <2>3, <3>1, <3>2 DEF Ready, Administers, UserOps
  <2> QED
    BY <2>1, <2>2, <2>3 DEF Administers
<1>7. q.op \in WorkshopOps /\ q.step \in {"event", "commit"} => Served(q, d2)
  BY OthersServed DEF Ready
<1> QED
  BY <1>4, <1>5, <1>6, <1>7 DEF Ready

LEMMA StaleReady ==
  ASSUME NEW q, NEW d, Ready(q, d), DOMAIN q = RequestFields
  PROVE  Ready([q EXCEPT !.stale = TRUE], d)
<1> DEFINE q2 == [q EXCEPT !.stale = TRUE]
<1>1. /\ q2.op = q.op /\ q2.user = q.user /\ q2.role = q.role /\ q2.i = q.i /\ q2.l = q.l
      /\ q2.arg = q.arg /\ q2.step = q.step /\ q2.todo = q.todo /\ q2.own = q.own
      /\ q2.seen = q.seen /\ q2.found = q.found /\ q2.write = q.write
  BY DEF RequestFields
<1> HIDE DEF q2
<1>2. Fresh(q2, d) /\ Asked(q2, d) /\ Administers(q2, d)
  BY <1>1 DEF Ready, Fresh, Asked, Administers
<1>3. Served(q, d) => Served(q2, d)
  BY <1>1, SameService
<1> QED
  BY <1>1, <1>2, <1>3 DEF Ready, q2

\* A commit is the step of a service, or of an administrator, and leaves the others ready.
LEMMA PublishRefines ==
  ASSUME AtomicInv, NEW t \in Txs, NEW d2, Publish(t, d2),
         Publishes(tx[t], db, d2), Spares(tx[t], db, d2), Step
  PROVE  Refines
<1>1. db' = d2 /\ tx'[t] = Idle
      /\ \A o \in Txs \ {t} : tx'[o] = tx[o] \/ tx'[o] = [tx[o] EXCEPT !.stale = TRUE]
  BY DEF Publish
<1>2. ASSUME NEW o \in Txs \ {t} PROVE Ready(tx'[o], d2)
  <2>1. Ready(tx[o], d2)
    BY OthersReady DEF AtomicInv, TxInv
  <2>2. CASE tx'[o] = tx[o]
    BY <2>1, <2>2
  <2>3. CASE tx'[o] = [tx[o] EXCEPT !.stale = TRUE]
    <3>1. DOMAIN tx[o] = RequestFields
      BY DEF AtomicInv, TxInv, Fits, Stage
    <3> QED
      BY <2>1, <2>3, <3>1, StaleReady
  <2> QED
    BY <1>1, <2>2, <2>3
<1> QED
  BY <1>1, <1>2, IdleReady DEF Refines, Spares
-----------------------------------------------------------------------------
(* Each commit is the step of its service                                  *)

\* What really changes, applied, is the correction applied.
LEMMA MergeChanged ==
  ASSUME NEW p, NEW d
  PROVE  W!Merge(W!Changed(p, d), d) = W!Merge(p, d)
BY DEF W!Merge, W!Changed, W!EditFields

LEMMA ResolvedIsResolveCase ==
  ASSUME AtomicInv, NEW i, NEW resolution, db'.case = Resolved(i, resolution)
  PROVE  W!ResolveCase(i, "EDIT", resolution)
<1>1. \A c \in CaseIds : c \in W!OpenCases(i) => db.case[c].type = "EDIT"
  BY DEF W!OpenCases, W!OpenStatuses, AtomicInv, Records
<1> QED
  BY <1>1 DEF W!ResolveCase, Resolved

LEMMA ServiceStep ==
  ASSUME AtomicInv, NEW t \in Txs, tx[t].step = "commit", tx[t].op \in WorkshopOps,
         NEW u, u = tx[t].user, NEW i, i = tx[t].i, W!Answered(u),
         db'.line = db.line, db'.user = db.user,
         db'.incident = [db.incident EXCEPT ![i] = tx[t].write],
         tx[t].op \notin {"REJECT_EDIT", "APPROVE_EDIT", "REQUEST_EDIT"} => db'.case = db.case,
         tx[t].op = "REJECT_EDIT" => db'.case = Resolved(i, "REJECTED"),
         tx[t].op = "APPROVE_EDIT" => db'.case = Resolved(i, "APPROVED"),
         tx[t].op = "REQUEST_EDIT" =>
           W!FileCase(i, "EDIT", W!Replaced(tx[t].write.editRequest, db.incident[i].fields))
  PROVE  Step
<1> DEFINE q == tx[t]
           inc == db.incident[i]
           role == [v \in Users |-> Carried(v)][u]
<1>0. /\ Fits(q, db) /\ Served(q, db) /\ TxInv /\ Tables(db)
      /\ u \in Users /\ i \in Incidents /\ Stands(inc)
  BY DEF AtomicInv, TxInv, Fits, Stage, Ready, Tables
<1>1. role = q.role /\ role # Null
  BY <1>0, RolesCarried, RequestsOK DEF AtomicInv, Ready, Asked
<1>2. q.op # "CREATE" => inc.status # "ABSENT"
  <2>1. q.op # "CREATE" => OnIncident(i) \in q.own
    BY <1>0 DEF Fits, Writes
  <2> QED
    BY <1>0, <2>1 DEF Fits, Current
<1>3. q.op # "CREATE" => W!Serves(u, i)
  BY <1>1, <1>2 DEF W!Serves
<1>4. Quiet(db, i) => W!NoArbitration(i)
  BY SameTables DEF Quiet, W!NoArbitration
<1>5. OpenOf(db, i) # {} => W!HasOpenCase(i, "EDIT")
  <2> SUFFICES ASSUME NEW c \in OpenOf(db, i) PROVE W!HasOpenCase(i, "EDIT")
    OBVIOUS
  <2>1. c \in W!OpenCases(i)
    BY SameTables
  <2>2. db.case[c].type = "EDIT"
    BY DEF OpenOf, AtomicInv, Records
  <2> QED
    BY <2>1, <2>2 DEF W!HasOpenCase
<1>6. \A p : Offered(db, p) => W!ValidSelection(p)
  BY DEF Offered, W!ValidSelection
<1>7. \A p : PlaceFree(db, p, i) => W!PlaceIsFree(p, i)
  BY SameTables
<1>8. W!SetIncident(i, q.write)
  BY DEF W!SetIncident
<1>9. UNCHANGED <<db.line, db.user>>
  OBVIOUS
<1>10. q.op \in {"EDIT", "REQUEST_EDIT"} => q.arg \in W!EditPayload
  BY <1>0, RequestsOK DEF Fits, Stage
<1> HIDE DEF role
<1>11. CASE q.op = "CREATE"
  <2>1. q.arg \in W!Description /\ inc.status = "ABSENT"
    BY <1>0, <1>11, RequestsOK DEF Fits, Stage, Current
  <2>2. W!Create(u, i, q.arg)
    <3>1. /\ W!ValidSelection(q.arg) /\ W!PlaceIsFree(q.arg, i)
          /\ q.write = [W!NoIncident EXCEPT !.status = "OPEN", !.user_id = u,
                          !.fields = q.arg, !.lineNumber = db.line[q.arg.lineId].number]
          /\ UNCHANGED db.case
      BY <1>0, <1>6, <1>7, <1>11 DEF Served
    <3> QED
      BY <1>1, <1>8, <1>9, <2>1, <3>1 DEF W!Create, role
  <2> QED
    BY <1>0, <2>1, <2>2, Zenon DEF Step, W!Next, W!WorkshopStep
<1>12. CASE q.op = "TAKE"
  <2>1. W!Take(u, i)
    <3>1. /\ db.user[u].status = "ACTIVE" /\ db.user[u].role = "MAINTENANCE"
          /\ role = "MAINTENANCE"
          /\ W!NoArbitration(i) /\ W!CanTake("MAINTENANCE", inc, u)
          /\ q.write = [inc EXCEPT !.takenBy = u]
          /\ UNCHANGED db.case
      BY <1>0, <1>1, <1>4, <1>12 DEF Served
    <3> QED
      BY <1>3, <1>8, <1>9, <1>12, <3>1 DEF W!Take, role
  <2> QED
    BY <1>0, <2>1, Zenon DEF Step, W!Next, W!WorkshopStep, W!DispatchStep
<1>13. CASE q.op = "CLOSE"
  <2>1. PICK n \in Texts : q.write = [inc EXCEPT !.status = "CLOSED", !.note = n]
    BY <1>0, <1>13 DEF Served
  <2>2. W!Close(u, i, n)
    <3>1. /\ W!NoArbitration(i) /\ W!CanSuspendOrClose(role, inc)
          /\ UNCHANGED db.case
      BY <1>0, <1>1, <1>4, <1>13 DEF Served
    <3>2. q.write = [inc EXCEPT !.status = "CLOSED", !.note = IF n = Null THEN @ ELSE n]
      <4>1. n # Null
        BY RequestsOK
      <4> QED
        BY <2>1, <4>1
    <3> QED
      BY <1>3, <1>8, <1>9, <1>13, <2>1, <3>1, <3>2 DEF W!Close, role
  <2>3. n \in W!AnyText
    BY DEF W!AnyText
  <2> QED
    BY <1>0, <2>2, <2>3, Zenon DEF Step, W!Next, W!WorkshopStep, W!DispatchStep
<1>14. CASE q.op = "REQUEST_EDIT"
  <2> DEFINE changes == W!Changed(q.arg, inc.fields)
  <2>1. /\ W!NoArbitration(i) /\ W!CanRequestEdit(role, inc, u)
        /\ changes # W!NoChange
        /\ q.write = [inc EXCEPT !.editRequest = changes]
    BY <1>0, <1>1, <1>4, <1>14 DEF Served
  <2>2. q.write.editRequest = changes
    <3> HIDE DEF changes
    <3> QED
      BY <1>0, <2>1 DEF Stands, IncidentColumns
  <2>3. W!FileCase(i, "EDIT", W!Replaced(changes, inc.fields))
    BY <1>14, <2>2
  <2>4. W!RequestEdit(u, i, q.arg)
    BY <1>3, <1>8, <1>9, <1>14, <2>1, <2>3, Zenon DEF W!RequestEdit, role
  <2> QED
    BY <1>0, <1>10, <1>14, <2>4, Zenon DEF Step, W!Next, W!WorkshopStep, W!ArbitrationStep
<1>15. CASE q.op = "REJECT_EDIT"
  <2>1. W!RejectEdit(u, i)
    <3>1. /\ W!HasOpenCase(i, "EDIT") /\ W!CanDecideEdit(role, inc)
          /\ q.write = [inc EXCEPT !.editRequest = Null]
      BY <1>0, <1>1, <1>5, <1>15 DEF Served
    <3>2. W!ResolveCase(i, "EDIT", "REJECTED")
      BY <1>15, ResolvedIsResolveCase
    <3> QED
      BY <1>3, <1>8, <1>9, <1>15, <3>1, <3>2 DEF W!RejectEdit, role
  <2> QED
    BY <1>0, <2>1, Zenon DEF Step, W!Next, W!WorkshopStep, W!ArbitrationStep
<1>16. CASE q.op = "EDIT"
  <2> DEFINE p == W!Merge(q.arg, inc.fields)
  <2>1. /\ W!NoArbitration(i) /\ W!CanEdit(role, inc, u)
        /\ W!Changed(q.arg, inc.fields) # W!NoChange
        /\ W!ValidSelection(p) /\ W!PlaceIsFree(p, i)
        /\ q.write = [inc EXCEPT !.fields = p, !.lineNumber = db.line[p.lineId].number]
        /\ UNCHANGED db.case
    BY <1>0, <1>1, <1>4, <1>6, <1>7, <1>16 DEF Served
  <2>2. W!Merge(W!Changed(q.arg, inc.fields), inc.fields) = p
    BY MergeChanged
  <2> HIDE DEF p
  <2>3. W!Edit(u, i, q.arg)
    BY <1>3, <1>8, <1>9, <1>16, <2>1, <2>2 DEF W!Edit, role
  <2> QED
    BY <1>0, <1>10, <1>16, <2>3, Zenon DEF Step, W!Next, W!WorkshopStep
<1>17. CASE q.op = "APPROVE_EDIT"
  <2> DEFINE p == W!Merge(inc.editRequest, inc.fields)
  <2>1. /\ W!HasOpenCase(i, "EDIT") /\ W!CanDecideEdit(role, inc)
        /\ W!ValidSelection(p) /\ W!PlaceIsFree(p, i)
        /\ q.write = [[inc EXCEPT !.fields = p, !.lineNumber = db.line[p.lineId].number]
                        EXCEPT !.editRequest = Null]
    BY <1>0, <1>1, <1>5, <1>6, <1>7, <1>17 DEF Served
  <2>2. W!ResolveCase(i, "EDIT", "APPROVED")
    BY <1>17, ResolvedIsResolveCase
  <2>3. W!ApproveEdit(u, i)
    BY <1>3, <1>8, <1>9, <1>17, <2>1, <2>2 DEF W!ApproveEdit, role
  <2> QED
    BY <1>0, <2>3, Zenon DEF Step, W!Next, W!WorkshopStep, W!ArbitrationStep
<1> QED
  BY <1>11, <1>12, <1>13, <1>14, <1>15, <1>16, <1>17 DEF WorkshopOps

LEMMA PublishAnswers ==
  ASSUME TxInv, NEW t \in Txs, NEW d2, Publish(t, d2), tx[t].op \in WorkshopOps,
         NEW u, u = tx[t].user
  PROVE  W!Answered(u)
<1>1. tx'[t] = Idle
      /\ \A o \in Txs \ {t} : tx'[o] = tx[o] \/ tx'[o] = [tx[o] EXCEPT !.stale = TRUE]
  BY DEF Publish
<1>2. \A o \in Txs : DOMAIN tx[o] = RequestFields
  BY DEF TxInv, Fits, Stage
<1>3. ASSUME NEW o \in Txs \ {t}
      PROVE  /\ tx'[o].user = tx[o].user /\ tx'[o].role = tx[o].role
             /\ tx'[o].op # "NONE" <=> tx[o].op # "NONE"
  <2>1. CASE tx'[o] = tx[o]
    BY <2>1
  <2>2. CASE tx'[o] = [tx[o] EXCEPT !.stale = TRUE]
    BY <1>2, <2>2 DEF RequestFields
  <2> QED
    BY <1>1, <2>1, <2>2
<1> QED
  BY <1>1, <1>3, RequestAnswered

\* A commit of an administrator's service answers no request of the workshop.
LEMMA AdminPublishKeepsRoles ==
  ASSUME TxInv, NEW t \in Txs, NEW d2, Publish(t, d2), tx[t].op \notin WorkshopOps
  PROVE  [u \in Users |-> Carried(u)]' = [u \in Users |-> Carried(u)]
<1>1. tx'[t] = Idle
      /\ \A o \in Txs \ {t} : tx'[o] = tx[o] \/ tx'[o] = [tx[o] EXCEPT !.stale = TRUE]
  BY DEF Publish
<1>2. /\ \A o \in Txs : DOMAIN tx[o] = RequestFields
      /\ tx[t].user \notin Users /\ Idle.user \notin Users
  BY RequestsOK DEF TxInv, Fits, Stage, Idle
<1>3. ASSUME NEW o \in Txs \ {t}
      PROVE  /\ tx'[o].user = tx[o].user /\ tx'[o].role = tx[o].role
             /\ tx'[o].op # "NONE" <=> tx[o].op # "NONE"
  <2>1. CASE tx'[o] = tx[o]
    BY <2>1
  <2>2. CASE tx'[o] = [tx[o] EXCEPT !.stale = TRUE]
    BY <1>2, <2>2 DEF RequestFields
  <2> QED
    BY <1>1, <2>1, <2>2
<1> QED
  BY <1>1, <1>2, <1>3, RolesKept

LEMMA ServiceSpares ==
  ASSUME AtomicInv, NEW t \in Txs, tx[t].step = "commit", tx[t].op \in WorkshopOps, NEW d2,
         d2.line = db.line, d2.user = db.user,
         d2.incident = [db.incident EXCEPT ![tx[t].i] = tx[t].write],
         DOMAIN d2.case = CaseIds,
         \A c \in CaseIds : /\ DOMAIN d2.case[c] = {"status", "incident", "type", "before"}
                            /\ d2.case[c].status # "NONE" => d2.case[c].type = "EDIT",
         \A i \in Incidents : OpenOf(d2, i) # OpenOf(db, i) => OnIncident(i) \in tx[t].own
  PROVE  Spares(tx[t], db, d2)
<1> DEFINE q == tx[t]
           inc == db.incident[q.i]
<1>0. /\ Fits(q, db) /\ Served(q, db) /\ Ready(q, db) /\ Tables(db) /\ Records(db)
      /\ q.i \in Incidents /\ q.user \in Users /\ Stands(inc)
  BY DEF AtomicInv, TxInv, Fits, Stage, Ready, Tables
<1>1. Records(d2)
  BY <1>0 DEF Records
<1>2. d2.incident[q.i] = q.write /\ \A i \in Incidents : i # q.i => d2.incident[i] = db.incident[i]
  BY <1>0 DEF Tables
<1>3. Live(q.write) => \/ Live(inc) /\ q.write.fields = inc.fields
                       \/ OnLine(q.write.fields.lineId) \in q.own
  BY <1>0 DEF Fits, Writes
<1>4. Live(q.write) => \/ Live(inc) /\ q.write.takenBy = inc.takenBy
                       \/ q.write.takenBy = Null
                       \/ OnUser(q.write.takenBy) \in q.own
  <2>1. CASE q.op = "CREATE"
    <3>1. q.write = [W!NoIncident EXCEPT !.status = "OPEN", !.user_id = q.user, !.fields = q.arg,
                                         !.lineNumber = db.line[q.arg.lineId].number]
      BY <1>0, <2>1 DEF Served
    <3> QED
      BY <3>1 DEF W!NoIncident
  <2>2. CASE q.op = "TAKE"
    <3>1. q.write = [inc EXCEPT !.takenBy = q.user]
      BY <1>0, <2>2 DEF Served
    <3>2. OnUser(q.user) \in q.own
      BY <1>0, <2>2 DEF Ready, Asked, Fits, Ordered, Writes, WorkshopOps
    <3> QED
      BY <1>0, <3>1, <3>2 DEF Stands, IncidentColumns
  <2>3. CASE q.op = "CLOSE"
    <3>1. PICK n \in Texts : q.write = [inc EXCEPT !.status = "CLOSED", !.note = n]
      BY <1>0, <2>3 DEF Served
    <3> QED
      BY <1>0, <3>1 DEF Stands, IncidentColumns, Live
  <2>4. CASE q.op \in {"REQUEST_EDIT", "REJECT_EDIT"}
    <3>1. PICK e : q.write = [inc EXCEPT !.editRequest = e]
      BY <1>0, <2>4 DEF Served
    <3> QED
      BY <1>0, <3>1 DEF Stands, IncidentColumns, Live
  <2>5. CASE q.op \in Movers
    <3>1. q.write.takenBy = inc.takenBy
      <4>1. CASE q.op = "EDIT"
        <5> DEFINE p == W!Merge(q.arg, inc.fields)
        <5>1. q.write = [inc EXCEPT !.fields = p, !.lineNumber = db.line[p.lineId].number]
          BY <1>0, <4>1 DEF Served
        <5> HIDE DEF p
        <5> QED
          BY <1>0, <5>1 DEF Stands, IncidentColumns
      <4>2. CASE q.op = "APPROVE_EDIT"
        <5> DEFINE p == W!Merge(inc.editRequest, inc.fields)
        <5>1. q.write = [[inc EXCEPT !.fields = p, !.lineNumber = db.line[p.lineId].number]
                           EXCEPT !.editRequest = Null]
          BY <1>0, <4>2 DEF Served
        <5> HIDE DEF p
        <5> QED
          BY <1>0, <5>1 DEF Stands, IncidentColumns
      <4> QED
        BY <2>5, <4>1, <4>2 DEF Movers
    <3>2. Live(inc)
      BY <1>0, <2>5 DEF Served, Movers, W!CanEdit, W!CanDecideEdit, W!IsActiveIncident,
         W!ActiveStatuses, Live
    <3> QED
      BY <3>1, <3>2
  <2> QED
    BY <1>0, <2>1, <2>2, <2>3, <2>4, <2>5 DEF WorkshopOps, Movers
<1>5. \A i \in Incidents : Live(d2.incident[i]) =>
        /\ \/ Live(db.incident[i]) /\ d2.incident[i].fields = db.incident[i].fields
           \/ OnLine(d2.incident[i].fields.lineId) \in q.own
        /\ \/ Live(db.incident[i]) /\ d2.incident[i].takenBy = db.incident[i].takenBy
           \/ d2.incident[i].takenBy = Null
           \/ OnUser(d2.incident[i].takenBy) \in q.own
  BY <1>2, <1>3, <1>4
<1> QED
  BY <1>1, <1>5 DEF Spares

\* The cases of incident i are resolved, the others stay.
LEMMA ResolvedCases ==
  ASSUME AtomicInv, NEW i, NEW resolution \in {"APPROVED", "REJECTED"}, NEW d2,
         d2.case = Resolved(i, resolution)
  PROVE  /\ DOMAIN d2.case = CaseIds
         /\ \A c \in CaseIds : /\ DOMAIN d2.case[c] = {"status", "incident", "type", "before"}
                               /\ d2.case[c].status # "NONE" => d2.case[c].type = "EDIT"
         /\ \A j : j # i => OpenOf(d2, j) = OpenOf(db, j)
<1>0. Records(db)
  BY DEF AtomicInv
<1>1. DOMAIN d2.case = CaseIds
  BY DEF Resolved
<1>2. ASSUME NEW c \in CaseIds, c \in OpenOf(db, i)
      PROVE  /\ DOMAIN d2.case[c] = {"status", "incident", "type", "before"}
             /\ d2.case[c].type = "EDIT" /\ d2.case[c].incident = i
  <2>1. d2.case[c] = [db.case[c] EXCEPT !.status = resolution]
    BY <1>2, SameTables DEF Resolved
  <2>2. /\ DOMAIN db.case[c] = {"status", "incident", "type", "before"}
        /\ db.case[c].type = "EDIT" /\ db.case[c].incident = i
    BY <1>0, <1>2 DEF Records, OpenOf
  <2> QED
    BY <2>1, <2>2
<1>3. \A c \in CaseIds \ OpenOf(db, i) : d2.case[c] = db.case[c]
  BY SameTables DEF Resolved
<1>4. \A c \in CaseIds : c \in OpenOf(db, i) => db.case[c].incident = i
  BY DEF OpenOf
<1>5. ASSUME NEW j, j # i PROVE OpenOf(d2, j) = OpenOf(db, j)
  BY <1>2, <1>3, <1>4, <1>5 DEF OpenOf
<1> QED
  BY <1>0, <1>1, <1>2, <1>3, <1>5 DEF Records

LEMMA CommitIncidentRefines ==
  ASSUME AtomicInv, NEW t \in Txs, CommitIncident(t)
  PROVE  Refines
<1> DEFINE q == tx[t]
           cases == CASE q.op = "REJECT_EDIT" -> Resolved(q.i, "REJECTED")
                      [] q.op = "APPROVE_EDIT" -> Resolved(q.i, "APPROVED")
                      [] OTHER -> db.case
           d2 == [db EXCEPT !.incident[q.i] = q.write, !.case = cases]
<1>0. /\ TxInv /\ Tables(db) /\ Records(db) /\ Fits(q, db)
      /\ q.step = "commit" /\ q.op \in WorkshopOps \ {"REQUEST_EDIT"}
  BY DEF AtomicInv, TxInv, CommitIncident
<1>1. Publish(t, d2)
  BY <1>0 DEF CommitIncident, Tables
<1>2. /\ DOMAIN d2 = DOMAIN db /\ d2.line = db.line /\ d2.user = db.user
      /\ d2.incident = [db.incident EXCEPT ![q.i] = q.write] /\ d2.case = cases
  BY <1>0 DEF Tables
<1>3. /\ q.op = "REJECT_EDIT" => cases = Resolved(q.i, "REJECTED")
      /\ q.op = "APPROVE_EDIT" => cases = Resolved(q.i, "APPROVED")
      /\ q.op \notin {"REJECT_EDIT", "APPROVE_EDIT"} => cases = db.case
  OBVIOUS
<1> HIDE DEF d2, cases
<1>4. PICK u, i : u = q.user /\ i = q.i
  OBVIOUS
<1>5. db' = d2
  BY <1>1 DEF Publish
<1>6. Step
  <2>1. W!Answered(u)
    BY <1>0, <1>1, <1>4, PublishAnswers
  <2> QED
    BY <1>0, <1>2, <1>3, <1>4, <1>5, <2>1, ServiceStep
<1>7. Publishes(q, db, d2)
  BY <1>0, <1>2, WritePublishes
<1>8. /\ DOMAIN d2.case = CaseIds
      /\ \A c \in CaseIds : /\ DOMAIN d2.case[c] = {"status", "incident", "type", "before"}
                            /\ d2.case[c].status # "NONE" => d2.case[c].type = "EDIT"
      /\ \A j \in Incidents : OpenOf(d2, j) # OpenOf(db, j) => OnIncident(j) \in q.own
  <2>1. CASE q.op \in {"REJECT_EDIT", "APPROVE_EDIT"}
    <3>1. OnIncident(i) \in q.own
      BY <1>0, <1>4, <2>1 DEF Fits, Writes
    <3>2. PICK resolution \in {"APPROVED", "REJECTED"} : d2.case = Resolved(i, resolution)
      BY <1>2, <1>3, <1>4, <2>1
    <3> QED
      BY <3>1, <3>2, ResolvedCases
  <2>2. CASE q.op \notin {"REJECT_EDIT", "APPROVE_EDIT"}
    <3>1. d2.case = db.case
      BY <1>2, <1>3, <2>2
    <3> QED
      BY <1>0, <3>1 DEF Records, OpenOf
  <2> QED
    BY <2>1, <2>2
<1>9. Spares(q, db, d2)
  BY <1>0, <1>2, <1>8, ServiceSpares
<1> QED
  BY <1>1, <1>6, <1>7, <1>9, PublishRefines

LEMMA CommitRequestRefines ==
  ASSUME AtomicInv, NEW t \in Txs, CommitRequest(t)
  PROVE  Refines
<1> DEFINE q == tx[t]
<1>0. /\ TxInv /\ Tables(db) /\ Records(db) /\ Fits(q, db)
      /\ q.step = "commit" /\ q.op = "REQUEST_EDIT" /\ q.op \in WorkshopOps /\ q.i \in Incidents
  BY DEF AtomicInv, TxInv, CommitRequest, WorkshopOps, Fits, Stage
<1>1. OnIncident(q.i) \in q.own /\ Seen(t, OnIncident(q.i)) = db.incident[q.i]
  <2>1. OnIncident(q.i) \in q.own
    BY <1>0 DEF Fits, Writes
  <2> QED
    BY <1>0, <2>1, SeenIsCurrent
<1> DEFINE row == [status |-> "ACTIVE", incident |-> q.i, type |-> "EDIT",
                   before |-> W!Replaced(q.write.editRequest, db.incident[q.i].fields)]
<1>2. PICK c \in CaseIds :
        /\ db.case[c].status = "NONE"
        /\ Publish(t, [db EXCEPT !.incident[q.i] = q.write, !.case[c] = row])
  BY <1>1 DEF CommitRequest
<1> DEFINE d2 == [db EXCEPT !.incident[q.i] = q.write, !.case[c] = row]
<1>3. /\ DOMAIN d2 = DOMAIN db /\ d2.line = db.line /\ d2.user = db.user
      /\ d2.incident = [db.incident EXCEPT ![q.i] = q.write]
      /\ d2.case = [db.case EXCEPT ![c] = row]
  BY <1>0 DEF Tables
<1>4. Publish(t, d2) /\ db' = d2
  BY <1>2 DEF Publish
<1> HIDE DEF d2
<1>5. PICK u, i : u = q.user /\ i = q.i
  OBVIOUS
<1>6. Step
  <2>1. W!Answered(u)
    BY <1>0, <1>4, <1>5, PublishAnswers
  <2>2. W!FileCase(i, "EDIT", W!Replaced(q.write.editRequest, db.incident[i].fields))
    BY <1>2, <1>3, <1>4, <1>5 DEF W!FileCase
  <2> QED
    BY <1>0, <1>3, <1>4, <1>5, <2>1, <2>2, ServiceStep
<1>7. Publishes(q, db, d2)
  BY <1>0, <1>3, WritePublishes
<1>8. /\ DOMAIN d2.case = CaseIds
      /\ \A k \in CaseIds : /\ DOMAIN d2.case[k] = {"status", "incident", "type", "before"}
                            /\ d2.case[k].status # "NONE" => d2.case[k].type = "EDIT"
      /\ \A j \in Incidents : OpenOf(d2, j) # OpenOf(db, j) => OnIncident(j) \in q.own
  <2>1. /\ DOMAIN row = {"status", "incident", "type", "before"} /\ row.type = "EDIT"
        /\ row.incident = q.i
    OBVIOUS
  <2> HIDE DEF row
  <2>2. /\ DOMAIN d2.case = CaseIds /\ d2.case[c] = row
        /\ \A k \in CaseIds \ {c} : d2.case[k] = db.case[k]
    BY <1>0, <1>3 DEF Records
  <2>3. \A j \in Incidents : j # q.i => OpenOf(d2, j) = OpenOf(db, j)
    BY <1>2, <2>1, <2>2 DEF OpenOf
  <2> QED
    BY <1>0, <1>1, <2>1, <2>2, <2>3 DEF Records
<1>9. Spares(q, db, d2)
  BY <1>0, <1>3, <1>8, ServiceSpares
<1> QED
  BY <1>4, <1>6, <1>7, <1>9, PublishRefines
-----------------------------------------------------------------------------
(* The tables are functions of their keys: two states with the same rows of *)
(* incidents are the same.                                                  *)

Indexed(d) ==
  /\ d.incident = [i \in Incidents |-> d.incident[i]]
  /\ d.case = [c \in CaseIds |-> d.case[c]]

LEMMA IndexedKept ==
  ASSUME Tables(db), Indexed(db), [Next]_vars
  PROVE  Indexed(db')
<1>1. CASE UNCHANGED db
  BY <1>1 DEF Indexed
<1>2. ASSUME NEW l \in Lines, InstallLine(l) PROVE Indexed(db')
  <2>1. db'.incident = db.incident /\ db'.case = db.case
    BY <1>2 DEF InstallLine, Tables
  <2> QED
    BY <2>1 DEF Indexed
<1>3. ASSUME NEW u \in Users, InstallAccount(u) PROVE Indexed(db')
  <2>1. db'.incident = db.incident /\ db'.case = db.case
    BY <1>3 DEF InstallAccount, Tables
  <2> QED
    BY <2>1 DEF Indexed
<1>4. ASSUME NEW t \in Txs, CommitIncident(t) PROVE Indexed(db')
  <2> DEFINE cases == CASE tx[t].op = "REJECT_EDIT" -> Resolved(tx[t].i, "REJECTED")
                        [] tx[t].op = "APPROVE_EDIT" -> Resolved(tx[t].i, "APPROVED")
                        [] OTHER -> db.case
  <2>1. \/ cases = Resolved(tx[t].i, "REJECTED")
        \/ cases = Resolved(tx[t].i, "APPROVED")
        \/ cases = db.case
    OBVIOUS
  <2> HIDE DEF cases
  <2>2. db' = [db EXCEPT !.incident[tx[t].i] = tx[t].write, !.case = cases]
    BY <1>4 DEF CommitIncident, Publish, cases
  <2>3. db'.incident = [db.incident EXCEPT ![tx[t].i] = tx[t].write] /\ db'.case = cases
    BY <2>2 DEF Tables
  <2>4. cases = [c \in CaseIds |-> cases[c]]
    BY <2>1 DEF Indexed, Resolved
  <2> QED
    BY <2>3, <2>4 DEF Indexed
<1>5. ASSUME NEW t \in Txs, CommitRequest(t) PROVE Indexed(db')
  <2>1. PICK c, row :
          db' = [db EXCEPT !.incident[tx[t].i] = tx[t].write, !.case[c] = row]
    <3> DEFINE filed == [status |-> "ACTIVE", incident |-> tx[t].i, type |-> "EDIT",
                         before |-> W!Replaced(tx[t].write.editRequest,
                                               Seen(t, OnIncident(tx[t].i)).fields)]
    <3>1. \E c \in CaseIds :
            db' = [db EXCEPT !.incident[tx[t].i] = tx[t].write, !.case[c] = filed]
      BY <1>5 DEF CommitRequest, Publish
    <3> HIDE DEF filed
    <3> QED
      BY <3>1
  <2>2. /\ db'.incident = [db.incident EXCEPT ![tx[t].i] = tx[t].write]
        /\ db'.case = [db.case EXCEPT ![c] = row]
    BY <2>1 DEF Tables
  <2> QED
    BY <2>2 DEF Indexed
<1>6. ASSUME NEW t \in Txs, CommitLine(t) PROVE Indexed(db')
  <2>1. PICK status, incidents, cases :
          /\ db' = [db EXCEPT !.line[tx[t].l].status = status, !.incident = incidents,
                              !.case = cases]
          /\ incidents = [i \in Incidents |-> incidents[i]]
          /\ cases = [c \in CaseIds |-> cases[c]]
    <3> DEFINE status == IF tx[t].op = "DISABLE_LINE" THEN "INACTIVE" ELSE "DELETED"
               incidents == [i \in Incidents |-> IF i \in tx[t].found
                                                 THEN W!Canceled(Seen(t, OnIncident(i)))
                                                 ELSE db.incident[i]]
               cases == [c \in CaseIds |->
                           IF \E i \in tx[t].found : c \in W!OpenCases(i)
                           THEN [db.case[c] EXCEPT !.status = "SUPERSEDED"] ELSE db.case[c]]
    <3>1. db' = [db EXCEPT !.line[tx[t].l].status = status, !.incident = incidents,
                           !.case = cases]
      BY <1>6 DEF CommitLine, Publish, Tables
    <3>2. incidents = [i \in Incidents |-> incidents[i]] /\ cases = [c \in CaseIds |-> cases[c]]
      OBVIOUS
    <3> QED
      BY <3>1, <3>2
  <2>2. db'.incident = incidents /\ db'.case = cases
    BY <2>1 DEF Tables
  <2> QED
    BY <2>1, <2>2 DEF Indexed
<1>7. ASSUME NEW t \in Txs, CommitAccount(t) PROVE Indexed(db')
  <2>1. PICK row : db' = [db EXCEPT !.user[tx[t].l] = row]
    BY <1>7 DEF CommitAccount, Publish
  <2>2. db'.incident = db.incident /\ db'.case = db.case
    BY <2>1 DEF Tables
  <2> QED
    BY <2>2 DEF Indexed
<1>8. ASSUME NEW t \in Txs,
             \/ WorkshopRequest(t) \/ AdminRequest(t)
             \/ Context(t) \/ Lock(t) \/ Decide(t) \/ Event(t)
             \/ CountIncidents(t) \/ CountTaken(t) \/ Canceling(t) \/ Rollback(t)
      PROVE  UNCHANGED db
  <2>1. CASE WorkshopRequest(t)
    <3>1. \E u, i, op, l, arg : Admit(t, u, op, i, l, arg)
      BY <2>1, Zenon DEF WorkshopRequest
    <3> QED
      BY <3>1, Zenon DEF Admit, Begin
  <2>2. CASE AdminRequest(t)
    BY <2>2, Zenon DEF AdminRequest, Begin
  <2>3. CASE Context(t) \/ Lock(t) \/ Decide(t) \/ Event(t)
    BY <2>3, Zenon DEF Context, Lock, Decide, Event
  <2>4. CASE CountIncidents(t) \/ CountTaken(t) \/ Canceling(t) \/ Rollback(t)
    BY <2>4, Zenon DEF CountIncidents, CountTaken, Canceling, Rollback
  <2> QED
    BY <1>8, <2>1, <2>2, <2>3, <2>4
<1>9. CASE Next
  BY <1>1, <1>2, <1>3, <1>4, <1>5, <1>6, <1>7, <1>8, <1>9, Zenon DEF Next
<1> QED
  BY <1>1, <1>9 DEF vars
-----------------------------------------------------------------------------
(* The commits of the administrators' services                             *)

LEMMA CommitLineRefines ==
  ASSUME AtomicInv, Indexed(db), NEW t \in Txs, CommitLine(t)
  PROVE  Refines
<1> DEFINE q == tx[t]
           status == IF q.op = "DISABLE_LINE" THEN "INACTIVE" ELSE "DELETED"
<1>0. /\ TxInv /\ Tables(db) /\ Records(db) /\ Fits(q, db) /\ Administers(q, db)
      /\ q.step = "commit" /\ q.op \in {"DISABLE_LINE", "CANCEL_ALL"} /\ q.op \notin WorkshopOps
  BY DEF AtomicInv, TxInv, CommitLine, Ready, WorkshopOps
<1>1. PICK d2 : Publish(t, d2) /\ Publishes(q, db, d2)
  BY <1>0, CommitLinePublishes
<1>2. db' = d2
  BY <1>1 DEF Publish
<1>3. PICK l \in Lines : l = q.l /\ OnLine(l) \in q.own
  BY <1>0 DEF Fits, Plan, Counted, LineOps
<1>4. \A i \in q.found : i \in Incidents /\ OnIncident(i) \in q.own
                         /\ Seen(t, OnIncident(i)) = db.incident[i]
  BY <1>0, SeenIsCurrent DEF Fits, Stage, Counted
<1>5. /\ d2.line = [db.line EXCEPT ![l].status = status]
      /\ d2.user = db.user
      /\ d2.incident = [i \in Incidents |-> IF i \in q.found THEN W!Canceled(db.incident[i])
                                                            ELSE db.incident[i]]
      /\ d2.case = [c \in CaseIds |-> IF \E i \in q.found : c \in W!OpenCases(i)
                                      THEN [db.case[c] EXCEPT !.status = "SUPERSEDED"]
                                      ELSE db.case[c]]
  <2>1. d2 = [db EXCEPT
          !.line[q.l].status = status,
          !.incident = [i \in Incidents |-> IF i \in q.found
                                            THEN W!Canceled(Seen(t, OnIncident(i)))
                                            ELSE @[i]],
          !.case = [c \in CaseIds |->
                      IF \E i \in q.found : c \in W!OpenCases(i)
                      THEN [@[c] EXCEPT !.status = "SUPERSEDED"] ELSE @[c]]]
    BY <1>2 DEF CommitLine, Publish
  <2> QED
    BY <1>0, <1>3, <1>4, <2>1 DEF Tables
<1>6. d2.line[l] = [db.line[l] EXCEPT !.status = status]
      /\ \A k \in Lines \ {l} : d2.line[k] = db.line[k]
  BY <1>0, <1>5 DEF Tables
<1>7. [u \in Users |-> Carried(u)]' = [u \in Users |-> Carried(u)]
  BY <1>0, <1>1, AdminPublishKeepsRoles
<1>8. Step
  <2>1. CASE q.op = "DISABLE_LINE"
    <3> DEFINE n == db.line[l].number
               layout == db.line[l].machines
    <3>1. db.line[l].status = "ACTIVE" /\ q.found = {} /\ status = "INACTIVE"
      BY <1>0, <1>3, <2>1 DEF Administers, Fits, Stage
    <3>2. n \in Numbers /\ layout \in Layouts
      BY <1>0, <3>1, RequestsOK DEF Records
    <3>3. W!ActiveOn(l) = {}
      BY <1>0, <1>3, <2>1 DEF Fits, Counted, W!ActiveOn, W!ActiveStatuses, Live
    <3>4. d2.incident = db.incident /\ d2.case = db.case
      <4>1. d2.incident = [i \in Incidents |-> db.incident[i]]
            /\ d2.case = [c \in CaseIds |-> db.case[c]]
        BY <1>5, <3>1
      <4> QED
        BY <4>1 DEF Indexed
    <3>5. d2.line = [db.line EXCEPT ![l] = [status |-> "INACTIVE", number |-> n,
                                            machines |-> layout]]
      <4>1. DOMAIN db.line[l] = {"status", "number", "machines"}
        BY <1>0 DEF Tables
      <4>2. [db.line[l] EXCEPT !.status = "INACTIVE"] =
              [status |-> "INACTIVE", number |-> n, machines |-> layout]
        BY <4>1
      <4> QED
        BY <1>5, <3>1, <4>2
    <3>6. W!UpdateLine(l, n, layout, FALSE)
      <4>1. W!Live(l)
        BY <3>1 DEF W!Live
      <4>2. db.line[l] # [status |-> "INACTIVE", number |-> n, machines |-> layout]
        BY <3>1
      <4>3. UNCHANGED <<db.incident, db.case, db.user, [u \in Users |-> Carried(u)]>>
        BY <1>2, <1>5, <1>7, <3>4
      <4> QED
        BY <1>2, <3>3, <3>5, <4>1, <4>2, <4>3 DEF W!UpdateLine
    <3> QED
      BY <3>2, <3>6, Zenon DEF Step, W!Next, W!LineStep
  <2>2. CASE q.op = "CANCEL_ALL"
    <3>1. db.line[l].status \in {"ACTIVE", "INACTIVE"} /\ status = "DELETED"
      BY <1>0, <1>3, <2>2 DEF Administers
    <3>2. q.found = W!ActiveOn(l)
      <4>1. \A i \in q.found : i \in W!ActiveOn(l)
        BY <1>0, <1>3, <1>4, <2>2 DEF Administers, W!ActiveOn, W!ActiveStatuses, Live
      <4>2. \A i \in W!ActiveOn(l) : i \in q.found
        BY <1>0, <1>3, <2>2 DEF Fits, Counted, W!ActiveOn, W!ActiveStatuses, Live
      <4> QED
        BY <4>1, <4>2
    <3>3. UNCHANGED <<db.user, [u \in Users |-> Carried(u)]>>
      BY <1>2, <1>5, <1>7
    <3>4. W!ArchiveLine(l, TRUE)
      BY <1>2, <1>5, <3>1, <3>2, <3>3 DEF W!ArchiveLine, W!Live
    <3> QED
      BY <3>4, Zenon DEF Step, W!Next, W!LineStep
  <2> QED
    BY <1>0, <2>1, <2>2
<1>9. Spares(q, db, d2)
  <2>1. ASSUME NEW c \in CaseIds
        PROVE  /\ DOMAIN d2.case[c] = {"status", "incident", "type", "before"}
               /\ d2.case[c].status # "NONE" => d2.case[c].type = "EDIT"
               /\ d2.case[c].incident = db.case[c].incident
               /\ \/ d2.case[c] = db.case[c]
                  \/ db.case[c].incident \in q.found
    <3>1. DOMAIN db.case[c] = {"status", "incident", "type", "before"}
          /\ (db.case[c].status # "NONE" => db.case[c].type = "EDIT")
      BY <1>0 DEF Records
    <3>2. CASE \E i \in q.found : c \in W!OpenCases(i)
      <4>1. d2.case[c] = [db.case[c] EXCEPT !.status = "SUPERSEDED"]
        BY <1>5, <3>2
      <4>2. db.case[c].incident \in q.found /\ db.case[c].status # "NONE"
        BY <3>2, SameTables DEF OpenOf
      <4> QED
        BY <3>1, <4>1, <4>2
    <3>3. CASE ~ \E i \in q.found : c \in W!OpenCases(i)
      BY <1>5, <3>1, <3>3
    <3> QED
      BY <3>2, <3>3
  <2>2. \A i \in Incidents : OpenOf(d2, i) # OpenOf(db, i) => OnIncident(i) \in q.own
    <3>1. \A i \in Incidents : i \notin q.found => OpenOf(d2, i) = OpenOf(db, i)
      BY <2>1 DEF OpenOf
    <3> QED
      BY <1>4, <3>1
  <2>3. Records(d2)
    <3>1. d2.line[l].number = db.line[l].number /\ d2.line[l].machines = db.line[l].machines
          /\ db.line[l].status # "ABSENT"
      <4>1. DOMAIN db.line[l] = {"status", "number", "machines"}
        BY <1>0 DEF Tables
      <4> QED
        BY <1>0, <1>3, <1>6, <4>1 DEF Administers
    <3>2. \A k \in Lines : d2.line[k].status # "ABSENT" =>
            d2.line[k].number = Plants[k].number /\ d2.line[k].machines = Plants[k].machines
      <4>1. ASSUME NEW k \in Lines \ {l}, d2.line[k].status # "ABSENT"
            PROVE  d2.line[k].number = Plants[k].number /\ d2.line[k].machines = Plants[k].machines
        BY <1>0, <1>6, <4>1 DEF Records
      <4>2. db.line[l].number = Plants[l].number /\ db.line[l].machines = Plants[l].machines
        BY <1>0, <3>1 DEF Records
      <4> QED
        BY <3>1, <4>1, <4>2
    <3>3. DOMAIN d2.case = CaseIds
      BY <1>5
    <3> QED
      BY <1>0, <1>5, <2>1, <3>2, <3>3 DEF Records
  <2>4. \A i \in Incidents : Live(d2.incident[i]) => d2.incident[i] = db.incident[i]
    <3> SUFFICES ASSUME NEW i \in Incidents, Live(d2.incident[i]), i \in q.found PROVE FALSE
      BY <1>5
    <3>1. d2.incident[i] = W!Canceled(db.incident[i]) /\ Stands(db.incident[i])
      BY <1>0, <1>5 DEF Tables
    <3> QED
      BY <3>1 DEF W!Canceled, Live, Stands, IncidentColumns
  <2> QED
    BY <1>5, <2>2, <2>3, <2>4 DEF Spares
<1> QED
  BY <1>1, <1>8, <1>9, PublishRefines

LEMMA CommitAccountRefines ==
  ASSUME AtomicInv, NEW t \in Txs, CommitAccount(t)
  PROVE  Refines
<1> DEFINE q == tx[t]
<1>0. /\ TxInv /\ Tables(db) /\ Records(db) /\ Fits(q, db) /\ Administers(q, db) /\ Asked(q, db)
      /\ q.step = "commit" /\ q.op \in UserOps /\ q.op \notin WorkshopOps
  BY DEF AtomicInv, TxInv, CommitAccount, Ready, WorkshopOps, UserOps
<1>1. PICK d2 : Publish(t, d2) /\ Publishes(q, db, d2)
  BY <1>0, CommitAccountPublishes
<1>2. db' = d2
  BY <1>1 DEF Publish
<1>3. PICK u \in Users : u = q.l /\ OnUser(u) \in q.own
  BY <1>0 DEF Fits, Plan, Administers
<1> DEFINE me == db.user[u]
           row == IF q.op = "CHANGE_ROLE" THEN [me EXCEPT !.role = q.arg]
                                          ELSE [me EXCEPT !.status = "INACTIVE"]
<1>4. Seen(t, OnUser(u)) = me
  BY <1>3, UserSeenIsCurrent
<1>5. d2.incident = db.incident /\ d2.case = db.case /\ d2.line = db.line
      /\ d2.user = [db.user EXCEPT ![u] = row]
  <2>1. d2 = [db EXCEPT !.user[u] = row]
    BY <1>2, <1>3, <1>4 DEF CommitAccount, Publish
  <2> HIDE DEF row
  <2> QED
    BY <1>0, <2>1 DEF Tables
<1>6. DOMAIN me = {"status", "role"} /\ me.role \in W!Roles /\ me.status \in {"ACTIVE", "INACTIVE"}
  BY <1>0, <1>3 DEF Records, Asked
<1>7. /\ q.op = "CHANGE_ROLE" => row = [status |-> me.status, role |-> q.arg]
      /\ q.op # "CHANGE_ROLE" => row = [status |-> "INACTIVE", role |-> me.role]
  BY <1>6
<1>8. [v \in Users |-> Carried(v)]' = [v \in Users |-> Carried(v)]
  BY <1>0, <1>1, AdminPublishKeepsRoles
<1>9. W!ActiveTakenBy(u) = {}
  BY <1>0, <1>3 DEF Administers, W!ActiveTakenBy, W!ActiveStatuses, Live
<1>10. UNCHANGED <<db.incident, db.case, db.line, [v \in Users |-> Carried(v)]>>
  BY <1>2, <1>5, <1>8
<1> HIDE DEF row
<1>11. Step
  <2>1. CASE q.op = "CHANGE_ROLE"
    <3>1. q.arg \in W!Roles /\ me.role # q.arg
      BY <1>0, <1>3, <2>1 DEF Asked, Administers
    <3>2. W!ChangeRole(u, q.arg)
      BY <1>2, <1>5, <1>6, <1>7, <1>9, <1>10, <2>1, <3>1 DEF W!ChangeRole, W!Known, W!SetUser
    <3> QED
      BY <3>1, <3>2, Zenon DEF Step, W!Next, W!AccountStep
  <2>2. CASE q.op # "CHANGE_ROLE"
    <3>1. me.status = "ACTIVE"
      BY <1>0, <1>3, <2>2 DEF Administers, UserOps
    <3>2. W!DeactivateAccount(u)
      BY <1>2, <1>5, <1>7, <1>9, <1>10, <2>2, <3>1 DEF W!DeactivateAccount, W!SetUser
    <3> QED
      BY <3>2, Zenon DEF Step, W!Next, W!AccountStep
  <2> QED
    BY <2>1, <2>2
<1>12. Spares(q, db, d2)
  <2>1. /\ DOMAIN row = {"status", "role"} /\ row.role \in W!Roles
        /\ row.status \in {"ACTIVE", "INACTIVE"}
    BY <1>0, <1>6, <1>7 DEF Asked
  <2>2. DOMAIN d2.user = Users /\ d2.user[u] = row /\ \A v \in Users \ {u} : d2.user[v] = db.user[v]
    BY <1>0, <1>5 DEF Records
  <2>3. Records(d2)
    BY <1>0, <1>5, <2>1, <2>2 DEF Records
  <2>4. \A v \in Users : d2.user[v] # db.user[v] =>
          OnUser(v) \in q.own /\ d2.user[v].status \in {"ACTIVE", "INACTIVE"}
    BY <1>3, <2>1, <2>2
  <2>5. \A i : OpenOf(d2, i) = OpenOf(db, i)
    BY <1>5 DEF OpenOf
  <2> QED
    BY <1>5, <2>3, <2>4, <2>5 DEF Spares
<1> QED
  BY <1>1, <1>11, <1>12, PublishRefines
-----------------------------------------------------------------------------
(* Every step                                                              *)

LEMMA InstallRefines ==
  ASSUME AtomicInv, (\E l \in Lines : InstallLine(l)) \/ (\E u \in Users : InstallAccount(u))
  PROVE  Refines
<1>0. TxInv /\ Tables(db) /\ Records(db)
  BY DEF AtomicInv, TxInv
<1>1. tx' = tx /\ \A t \in Txs : tx[t] = Idle
  BY <1>0 DEF InstallLine, InstallAccount, Unused, Active, TxInv, Fits, Stage
<1>2. [v \in Users |-> Carried(v)]' = [v \in Users |-> Carried(v)]
  BY <1>0, <1>1, RolesKept
<1>3. \A o \in Txs : Ready(tx'[o], db')
  BY <1>1, IdleReady
<1>4. ASSUME NEW l \in Lines, InstallLine(l) PROVE Refines
  <2> DEFINE n == Plants[l].number
             layout == Plants[l].machines
             row == [status |-> "ACTIVE", number |-> n, machines |-> layout]
  <2>1. /\ db'.line = [db.line EXCEPT ![l] = row] /\ db.line[l].status = "ABSENT"
        /\ db'.incident = db.incident /\ db'.case = db.case /\ db'.user = db.user
    BY <1>0, <1>4 DEF InstallLine, Tables
  <2>2. n \in Numbers /\ layout \in Layouts
    BY RequestsOK
  <2>3. W!NumberIsFree(n, l) /\ W!MachinesAreFree(layout, l)
    <3>1. \A k \in Lines : W!Live(k) =>
            db.line[k].number = Plants[k].number /\ db.line[k].machines = Plants[k].machines
      BY <1>0 DEF W!Live, Records
    <3>2. \A k \in Lines \ {l} :
            /\ Plants[k].number # n
            /\ W!MachineIds(layout) \cap W!MachineIds(Plants[k].machines) = {}
      BY RequestsOK
    <3> QED
      BY <3>1, <3>2 DEF W!NumberIsFree, W!MachinesAreFree
  <2>4. UNCHANGED <<db.incident, db.case, db.user, [v \in Users |-> Carried(v)]>>
    BY <1>2, <2>1
  <2>5. W!CreateLine(l, n, layout, TRUE)
    BY <2>1, <2>3, <2>4 DEF W!CreateLine
  <2>6. Step
    BY <2>2, <2>5, Zenon DEF Step, W!Next, W!LineStep
  <2>7. Records(db')
    <3>1. db'.line[l] = row /\ \A k \in Lines \ {l} : db'.line[k] = db.line[k]
      BY <1>0, <2>1 DEF Tables
    <3> QED
      BY <1>0, <2>1, <3>1 DEF Records
  <2> QED
    BY <1>3, <2>6, <2>7 DEF Refines
<1>5. ASSUME NEW u \in Users, InstallAccount(u) PROVE Refines
  <2> DEFINE row == [status |-> "ACTIVE", role |-> Staff[u]]
  <2>1. /\ db'.user = [db.user EXCEPT ![u] = row] /\ db.user[u].status = "ABSENT"
        /\ db'.incident = db.incident /\ db'.case = db.case /\ db'.line = db.line
    BY <1>0, <1>5 DEF InstallAccount, Tables
  <2>2. Staff[u] \in W!Roles
    BY RequestsOK
  <2>3. UNCHANGED <<db.incident, db.case, db.line, [v \in Users |-> Carried(v)]>>
    BY <1>2, <2>1
  <2>4. W!CreateAccount(u, Staff[u])
    BY <2>1, <2>3 DEF W!CreateAccount, W!SetUser
  <2>5. Step
    BY <2>2, <2>4, Zenon DEF Step, W!Next, W!AccountStep
  <2>6. Records(db')
    <3>1. DOMAIN db'.user = Users /\ db'.user[u] = row
          /\ \A v \in Users \ {u} : db'.user[v] = db.user[v]
      BY <1>0, <2>1 DEF Records
    <3> QED
      BY <1>0, <2>1, <2>2, <3>1 DEF Records
  <2> QED
    BY <1>3, <2>5, <2>6 DEF Refines
<1> QED
  BY <1>4, <1>5

LEMMA StepRefines ==
  ASSUME MaxPerUser = 1, AtomicInv, Indexed(db), Next
  PROVE  Refines
<1>1. CASE \E l \in Lines : InstallLine(l)
  BY <1>1, InstallRefines
<1>2. CASE \E u \in Users : InstallAccount(u)
  BY <1>2, InstallRefines
<1>3. ASSUME NEW t \in Txs,
             \/ WorkshopRequest(t) \/ AdminRequest(t)
             \/ Context(t) \/ Lock(t) \/ Decide(t) \/ Event(t)
             \/ CountIncidents(t) \/ CountTaken(t) \/ Canceling(t)
             \/ CommitIncident(t) \/ CommitRequest(t) \/ CommitLine(t) \/ CommitAccount(t)
             \/ Rollback(t)
      PROVE  Refines
  BY <1>3, RequestRefines, AdminRequestRefines, ContextRefines, LockRefines, DecideRefines,
     EventRefines, CountIncidentsRefines, CountTakenRefines, CancelingRefines,
     CommitIncidentRefines, CommitRequestRefines, CommitLineRefines, CommitAccountRefines,
     EndRefines DEF Rollback
<1> QED
  BY <1>1, <1>2, <1>3, Zenon DEF Next

LEMMA AtomicInitially == Init => AtomicInv /\ W!Init
<1> SUFFICES ASSUME Init PROVE AtomicInv /\ W!Init
  OBVIOUS
<1>1. tx = [t \in Txs |-> Idle] /\ TxInv
  BY TxInitially DEF Init
<1>2. Records(db)
  <2>1. "OPERATOR" \in W!Roles
    BY DEF W!Roles
  <2> QED
    BY <2>1 DEF Init, Records, W!NoCase
<1>3. [u \in Users |-> Carried(u)] = [u \in Users |-> Null]
  <2>1. \A u \in Users : Owner(u) = {}
    BY <1>1 DEF Owner, Active, Idle
  <2> QED
    BY <2>1 DEF Carried
<1>4. W!Init
  BY <1>3 DEF Init, W!Init
<1> QED
  BY <1>1, <1>2, <1>4, IdleReady DEF AtomicInv

\* Every interleaving of the transactions is a behaviour of Workshop, where each
\* service is one step, for any number of requests, users, lines and incidents,
\* when each user has one request at a time.
THEOREM ServicesAreOneStep ==
  ASSUME MaxPerUser = 1
  PROVE  Spec => ServicesAreAtomic
<1> DEFINE Inv == AtomicInv /\ Indexed(db)
<1>1. Inv /\ [Next]_vars => Inv' /\ [UNCHANGED W!vars \/ W!Next]_W!vars
  <2> SUFFICES ASSUME AtomicInv, Indexed(db), [Next]_vars
               PROVE  AtomicInv' /\ Indexed(db)' /\ [UNCHANGED W!vars \/ W!Next]_W!vars
    OBVIOUS
  <2>0. Indexed(db)'
    BY IndexedKept DEF AtomicInv, TxInv
  <2>1. CASE UNCHANGED vars
    <3>1. UNCHANGED db /\ UNCHANGED tx
      BY <2>1 DEF vars
    <3>2. Step
      BY <3>1, Stutters DEF AtomicInv
    <3>3. AtomicInv'
      BY <3>1, TxKept DEF AtomicInv
    <3> QED
      BY <2>0, <3>2, <3>3 DEF Step
  <2>2. CASE Next
    <3>1. Refines
      BY <2>2, StepRefines
    <3>2. TxInv'
      BY TxKept DEF AtomicInv
    <3> QED
      BY <2>0, <3>1, <3>2 DEF Refines, Step, AtomicInv
  <2> QED
    BY <2>1, <2>2
<1>2. Init => Inv /\ W!Init
  BY AtomicInitially DEF Init, Indexed
<1> QED
  BY <1>1, <1>2, PTL DEF Spec, ServicesAreAtomic
=============================================================================
