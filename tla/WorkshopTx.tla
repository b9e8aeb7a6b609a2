----------------------------- MODULE WorkshopTx -----------------------------
(***************************************************************************)
(* The transactions under module Workshop: the row locks each service      *)
(* takes, in the order it takes them, what it reads before and under them, *)
(* and the commit that publishes what it wrote.  PostgreSQL runs them at   *)
(* READ COMMITTED: a statement sees the committed rows and waits for the   *)
(* row locks of others (FOR UPDATE, and the key shares that the foreign    *)
(* keys of an inserted row take).  Every transaction may roll back.        *)
(*                                                                         *)
(* One service stands for those that take the same locks: CLOSE for the    *)
(* other steps of dispatch, REJECT_EDIT for the other withdrawals and      *)
(* decisions, DISABLE_LINE for the other updates of a line and its         *)
(* archiving when it is not forced.  A row of workshop_arbitration_cases is only locked under    *)
(* its incident's lock, so its own lock never makes anyone wait.           *)
(***************************************************************************)
EXTENDS Naturals, FiniteSets

CONSTANTS
  Incidents, CaseIds, Lines, Numbers, Machines, Heads, Layouts, States, Users,
  Texts, Null, Keep, Blank,   \* as in Workshop; Lines are numbers, as in SQL
  Places,       \* bound: descriptions a declaration may carry
  Corrections,  \* bound: corrections a request may carry
  Plants,       \* bound: number and layout each line is created with
  Staff,        \* bound: role each account is created with
  Txs,          \* bound: requests served at a time
  MaxPerUser    \* bound: requests of one user served at a time

VARIABLES
  db,  \* the committed tables: incident, case, line and user
  tx   \* [Txs -> the request and what its transaction holds, read and wrote]

vars == <<db, tx>>

Active(t) == tx[t].op # "NONE"
Owner(u) == {t \in Txs : Active(t) /\ tx[t].user = u}
Carried(u) == IF Owner(u) = {} THEN Null ELSE tx[CHOOSE t \in Owner(u) : TRUE].role

\* The workshop as its services see it: the committed tables and, for the
\* request of a user in flight, the role its authentication read.
W == INSTANCE Workshop WITH
       incident <- db.incident, case <- db.case, line <- db.line, user <- db.user,
       actorRole <- [u \in Users |-> Carried(u)],
       MaxInFlight <- Cardinality(Txs)

-----------------------------------------------------------------------------
(* Rows and their locks *)

OnLine(l) == [table |-> "line", id |-> l]
OnUser(u) == [table |-> "user", id |-> u]
OnIncident(i) == [table |-> "incident", id |-> i]

ASSUME RequestsOK ==
  /\ IsFiniteSet(Txs)
  \* ids are numbers, and of those in the table one is the greatest
  /\ Lines \subseteq Nat
  /\ \A ls \in SUBSET Lines : ls # {} => \E g \in ls : \A l \in ls : l <= g
  /\ Null \notin Users \cup Incidents \cup {OnLine(l) : l \in Lines}
                  \cup {OnUser(u) : u \in Users} \cup {OnIncident(i) : i \in Incidents}
  /\ Places \subseteq W!Description
  /\ Corrections \subseteq W!EditPayload
  /\ Texts # {}
  /\ Null \notin W!Roles \cup Texts
  /\ \A u \in Users : Staff[u] \in W!Roles
  \* the unique indexes let no two lines share a number or a machine
  /\ \A l \in Lines : Plants[l].number \in Numbers /\ Plants[l].machines \in Layouts
  /\ \A k, l \in Lines :
       k # l => /\ Plants[k].number # Plants[l].number
                /\ W!MachineIds(Plants[k].machines) \cap W!MachineIds(Plants[l].machines) = {}

Row(k) == CASE k.table = "line" -> db.line[k.id]
            [] k.table = "user" -> db.user[k.id]
            [] OTHER -> db.incident[k.id]

\* Mutant of Precedes: two lines are locked in any order.
PrecedesByTable(j, k) ==
  <<j.table, k.table>> \in
    {<<"line", "user">>, <<"line", "incident">>, <<"user", "incident">>}

\* The order in which one service takes its locks: lines ascending, user,
\* incident.
Precedes(j, k) ==
  \/ j.table = "line" /\ k.table = "line" /\ j.id < k.id
  \/ <<j.table, k.table>> \in
       {<<"line", "user">>, <<"line", "incident">>, <<"user", "incident">>}

Firsts(ks) == {k \in ks : \A j \in ks : ~Precedes(j, k)}

\* Mutant of Conflicts: the locks of lines are forgotten, as with a plain SELECT.
ConflictsButLines(o, k, mode) ==
  /\ k.table # "line"
  /\ \/ k \in tx[o].own
     \/ mode = "UPDATE" /\ k = tx[o].share

\* Request o holds row k in a way that excludes a lock of this mode.
Conflicts(o, k, mode) ==
  \/ k \in tx[o].own
  \/ mode = "UPDATE" /\ k = tx[o].share

Free(t, k, mode) == \A o \in Txs \ {t} : ~Conflicts(o, k, mode)

(* lockActiveWorkshopLines leaves out a line that is not in service *)
Skipped(t, k) ==
  /\ k.table = "line"
  /\ tx[t].op \in {"CREATE", "EDIT", "APPROVE_EDIT"}
  /\ db.line[k.id].status # "ACTIVE"

\* What the next statement of t must lock.
Needed(t) ==
  CASE tx[t].step = "lock" ->
         {<<k, "UPDATE">> : k \in {j \in Firsts(tx[t].todo) : ~Skipped(t, j)}}
    [] tx[t].step = "event" -> {<<OnUser(tx[t].user), "SHARE">>}
    [] OTHER -> {}

WaitsFor(t, o) == t # o /\ \E n \in Needed(t) : Conflicts(o, n[1], n[2])

Idle ==
  [op |-> "NONE", user |-> Null, role |-> Null, i |-> Null, l |-> Null,
   arg |-> Null, step |-> "idle", context |-> Null, stale |-> FALSE,
   todo |-> {}, own |-> {}, share |-> Null, seen |-> {}, found |-> {},
   write |-> Null]

\* The row k that t read when it locked it, among those it found.
Holds(t, k) == k \in tx[t].own
Seen(t, k) == (CHOOSE s \in tx[t].seen : s.key = k).row

End(t) == tx' = [tx EXCEPT ![t] = Idle]

Init ==
  /\ db = [incident |-> [i \in Incidents |-> W!NoIncident],
           case |-> [c \in CaseIds |-> W!NoCase],
           line |-> [l \in Lines |-> [status |-> "ABSENT", number |-> Null, machines |-> {}]],
           user |-> [u \in Users |-> [status |-> "ABSENT", role |-> "OPERATOR"]]]
  /\ tx = [t \in Txs |-> Idle]

-----------------------------------------------------------------------------
(* Requests *)

\* An insertion waits for nobody; the bound keeps them to an unused system.
Unused == /\ \A t \in Txs : ~Active(t)
          /\ \A i \in Incidents : db.incident[i].status = "ABSENT"

InstallLine(l) ==
  /\ Unused
  /\ db.line[l].status = "ABSENT"
  /\ db' = [db EXCEPT !.line[l] = [status |-> "ACTIVE", number |-> Plants[l].number,
                                   machines |-> Plants[l].machines]]
  /\ UNCHANGED tx

InstallAccount(u) ==
  /\ Unused
  /\ db.user[u].status = "ABSENT"
  /\ db' = [db EXCEPT !.user[u] = [status |-> "ACTIVE", role |-> Staff[u]]]
  /\ UNCHANGED tx

Begin(t, request) ==
  /\ tx[t] = Idle
  /\ tx' = [tx EXCEPT ![t] = request]
  /\ UNCHANGED db

\* Bound: requests are made to a system in its first state of service, no line
\* or account changed, no case decided, no incident finished.  Those that
\* overlap the change meet it; those that follow it would meet one more state.
InService ==
  /\ \A l \in Lines : db.line[l].status = "ACTIVE"
  /\ \A u \in Users : db.user[u] = [status |-> "ACTIVE", role |-> Staff[u]]
  /\ \A c \in CaseIds : db.case[c].status \in {"NONE", "ACTIVE"}
  /\ \A i \in Incidents : db.incident[i].status \notin W!TerminalStatuses

\* Bound: a request that its role never allows is refused by Decide whatever
\* happens meanwhile, and is not made.
Trade(role) ==
  CASE role = "OPERATOR" -> {"CREATE", "REQUEST_EDIT"}
    [] role = "MAINTENANCE" -> {"TAKE", "CLOSE", "EDIT"}
    [] role = "RESPONSABLE" -> {"EDIT", "APPROVE_EDIT", "REJECT_EDIT"}

\* The middleware admits the request of user u; the service starts by an
\* unlocked read (an edit, an approval) or by its locks.
Admit(t, u, op, i, l, arg) ==
  /\ InService
  /\ db.user[u].status = "ACTIVE"
  /\ op \in Trade(db.user[u].role)
  /\ Cardinality(Owner(u)) < MaxPerUser
  /\ Begin(t, [Idle EXCEPT
       !.op = op, !.user = u, !.role = db.user[u].role, !.i = i, !.l = l, !.arg = arg,
       !.step = IF op \in {"EDIT", "APPROVE_EDIT"} THEN "context" ELSE "lock",
       !.todo = CASE op = "CREATE" -> {OnLine(l)}
                  [] op = "TAKE" -> {OnUser(u), OnIncident(i)}
                  [] OTHER -> {OnIncident(i)}])

WorkshopRequest(t) ==
  \E u \in Users, i \in Incidents :
    IF db.incident[i].status = "ABSENT"
    THEN /\ \A o \in Txs : tx[o].i # i   \* ids come from a sequence
         /\ \E d \in Places : Admit(t, u, "CREATE", i, d.lineId, d)
    ELSE \/ \E op \in {"TAKE", "CLOSE", "APPROVE_EDIT", "REJECT_EDIT"} :
              Admit(t, u, op, i, Null, Null)
         \/ \E op \in {"EDIT", "REQUEST_EDIT"}, p \in Corrections :
              Admit(t, u, op, i, Null, p)

AdminRequest(t) ==
  \/ \E l \in Lines, op \in {"DISABLE_LINE", "FORCE_ARCHIVE"} :
       /\ InService
       /\ Begin(t, [Idle EXCEPT !.op = op, !.l = l, !.step = "lock", !.todo = {OnLine(l)}])
  \/ \E u \in Users, role \in W!Roles \cup {Null} :
       /\ InService
       /\ Begin(t, [Idle EXCEPT !.op = IF role = Null THEN "DISABLE_USER" ELSE "CHANGE_ROLE",
                                !.l = u, !.arg = role, !.step = "lock",
                                !.todo = {OnUser(u)}])

-----------------------------------------------------------------------------
(* Reads and locks *)

\* getIncidentLineLockContext, before the transaction: the lines to lock are
\* those the incident stands on and is asked to move to.
Context(t) ==
  LET inc == db.incident[tx[t].i]
      p == IF tx[t].op = "EDIT" THEN tx[t].arg ELSE inc.editRequest
      to == IF p = Null \/ p.lineId = Keep THEN inc.fields.lineId ELSE p.lineId
  IN /\ tx[t].step = "context"
     /\ tx' = [tx EXCEPT ![t].step = "lock", ![t].context = inc.fields.lineId,
                         ![t].todo = {OnLine(inc.fields.lineId), OnLine(to),
                                      OnIncident(tx[t].i)}]
     /\ UNCHANGED db

\* SELECT ... FOR UPDATE: the row as it is once nobody else holds it.
Lock(t) ==
  \E k \in Firsts(tx[t].todo) :
    /\ tx[t].step = "lock"
    /\ \/ /\ Skipped(t, k)
          /\ tx' = [tx EXCEPT ![t].todo = @ \ {k}]
       \/ /\ ~Skipped(t, k)
          /\ Free(t, k, "UPDATE")
          /\ tx' = [tx EXCEPT ![t].todo = @ \ {k}, ![t].own = @ \cup {k},
                              ![t].seen = @ \cup {[key |-> k, row |-> Row(k)]}]
    /\ UNCHANGED db

Locked(t, ops) == tx[t].step = "lock" /\ tx[t].todo = {} /\ tx[t].op \in ops

-----------------------------------------------------------------------------
(* What the services decide under their locks *)

\* d selects a machine and a head of one of the lines that t locked.
Selects(t, d) ==
  /\ Holds(t, OnLine(d.lineId))
  /\ <<d.machineId, d.headNumber>> \in Seen(t, OnLine(d.lineId)).machines

Numbered(t, inc, d) ==
  [inc EXCEPT !.fields = d, !.lineNumber = Seen(t, OnLine(d.lineId)).number]

Allowed(t) ==
  LET r == tx[t]
      inc == Seen(t, OnIncident(r.i))
      me == Seen(t, OnUser(r.user))
      quiet == W!OpenCases(r.i) = {} /\ ~W!HasPendingArbitration(inc)
  IN CASE r.op = "CREATE" -> Selects(t, r.arg)
       [] r.op = "TAKE" -> /\ me.status = "ACTIVE" /\ me.role = "MAINTENANCE"
                           /\ me.role = r.role
                           /\ quiet /\ W!CanTake(me.role, inc, r.user)
       [] r.op = "CLOSE" -> quiet /\ W!CanSuspendOrClose(r.role, inc)
       [] r.op = "REQUEST_EDIT" -> /\ quiet /\ W!CanRequestEdit(r.role, inc, r.user)
                                   /\ W!Changed(r.arg, inc.fields) # W!NoChange
       [] r.op = "REJECT_EDIT" -> W!HasOpenCase(r.i, "EDIT") /\ W!CanDecideEdit(r.role, inc)
       [] r.op = "EDIT" ->
            /\ ~r.stale /\ r.context = inc.fields.lineId
            /\ quiet /\ W!CanEdit(r.role, inc, r.user)
            /\ W!Changed(r.arg, inc.fields) # W!NoChange
            /\ Selects(t, W!Merge(r.arg, inc.fields))
       [] r.op = "APPROVE_EDIT" ->
            /\ ~r.stale /\ r.context = inc.fields.lineId
            /\ W!HasOpenCase(r.i, "EDIT") /\ W!CanDecideEdit(r.role, inc)
            /\ Selects(t, W!Merge(inc.editRequest, inc.fields))

\* The row the service writes.
Written(t) ==
  LET r == tx[t]
      inc == Seen(t, OnIncident(r.i))
  IN CASE r.op = "CREATE" ->
            Numbered(t, [W!NoIncident EXCEPT !.status = "OPEN", !.user_id = r.user], r.arg)
       [] r.op = "TAKE" -> [inc EXCEPT !.takenBy = r.user]
       [] r.op = "CLOSE" -> [inc EXCEPT !.status = "CLOSED", !.note = CHOOSE n \in Texts : TRUE]
       [] r.op = "REQUEST_EDIT" -> [inc EXCEPT !.editRequest = W!Changed(r.arg, inc.fields)]
       [] r.op = "REJECT_EDIT" -> [inc EXCEPT !.editRequest = Null]
       [] r.op = "EDIT" -> Numbered(t, inc, W!Merge(r.arg, inc.fields))
       [] r.op = "APPROVE_EDIT" ->
            [Numbered(t, inc, W!Merge(inc.editRequest, inc.fields)) EXCEPT !.editRequest = Null]

WorkshopOps ==
  {"CREATE", "TAKE", "CLOSE", "REQUEST_EDIT", "REJECT_EDIT", "EDIT", "APPROVE_EDIT"}

\* The service refuses, or writes the incident (a place that is taken breaks
\* the unique index and rolls the transaction back).
Decide(t) ==
  /\ Locked(t, WorkshopOps)
  /\ IF Allowed(t) /\ (tx[t].op \in {"CREATE", "EDIT", "APPROVE_EDIT"} =>
                         W!PlaceIsFree(Written(t).fields, tx[t].i))
     THEN tx' = [tx EXCEPT ![t].step = "event", ![t].write = Written(t)]
     ELSE End(t)
  /\ UNCHANGED db

\* logIncidentEvent names the actor: a key share of the account.
Event(t) ==
  /\ tx[t].step = "event"
  /\ Free(t, OnUser(tx[t].user), "SHARE")
  /\ tx' = [tx EXCEPT ![t].step = "commit", ![t].share = OnUser(tx[t].user)]
  /\ UNCHANGED db

\* updateLineService and archiveLineService count the active incidents of the
\* line under its lock; the forced archiving goes on with each of them.
CountIncidents(t) ==
  LET r == tx[t]
      active == W!ActiveOn(r.l)
  IN /\ Locked(t, {"DISABLE_LINE", "FORCE_ARCHIVE"})
     /\ IF \/ Seen(t, OnLine(r.l)).status \notin
                IF r.op = "DISABLE_LINE" THEN {"ACTIVE"} ELSE {"ACTIVE", "INACTIVE"}
           \/ r.op # "FORCE_ARCHIVE" /\ active # {}
        THEN End(t)
        ELSE tx' = [tx EXCEPT ![t].op = IF @ = "FORCE_ARCHIVE" THEN "CANCEL_ALL" ELSE @,
                              ![t].step = IF active = {} THEN "commit" ELSE "lock",
                              ![t].todo = {OnIncident(i) : i \in active}]
     /\ UNCHANGED db

\* guardNoActiveTakenIncidents under the lock of the account.
CountTaken(t) ==
  LET r == tx[t]
      me == Seen(t, OnUser(r.l))
  IN /\ Locked(t, {"DISABLE_USER", "CHANGE_ROLE"})
     /\ IF \/ W!ActiveTakenBy(r.l) # {}
           \/ r.op = "DISABLE_USER" /\ me.status # "ACTIVE"
           \/ r.op = "CHANGE_ROLE" /\ (me.role = r.arg \/ me.status = "DELETED")
        THEN End(t)
        ELSE tx' = [tx EXCEPT ![t].step = "commit"]
     /\ UNCHANGED db

\* cancelActiveIncidentsByLine: an UPDATE looks again at the rows it waited for.
Canceling(t) ==
  /\ Locked(t, {"CANCEL_ALL"})
  /\ tx' = [tx EXCEPT ![t].step = "commit",
              ![t].found = {i \in Incidents :
                 /\ Holds(t, OnIncident(i))
                 /\ Seen(t, OnIncident(i)).status \in W!ActiveStatuses
                 /\ Seen(t, OnIncident(i)).fields.lineId = tx[t].l}]
  /\ UNCHANGED db

-----------------------------------------------------------------------------
(* Commit and rollback *)

\* The transaction of t publishes d and releases its locks; what others read
\* of the incidents it wrote before their locks is stale (xmin).
Publish(t, d) ==
  /\ db' = d
  /\ tx' = [o \in Txs |->
              IF o = t THEN Idle
              ELSE IF /\ tx[o].context # Null
                      /\ d.incident[tx[o].i] # db.incident[tx[o].i]
                   THEN [tx[o] EXCEPT !.stale = TRUE]
                   ELSE tx[o]]

Resolved(i, resolution) ==
  [c \in CaseIds |-> IF c \in W!OpenCases(i) THEN [db.case[c] EXCEPT !.status = resolution]
                                             ELSE db.case[c]]

\* Every service but the request of a correction, which files a case.
CommitIncident(t) ==
  LET r == tx[t]
  IN /\ r.step = "commit"
     /\ r.op \in WorkshopOps \ {"REQUEST_EDIT"}
     /\ Publish(t, [db EXCEPT
          !.incident[r.i] = r.write,
          !.case = CASE r.op = "REJECT_EDIT" -> Resolved(r.i, "REJECTED")
                     [] r.op = "APPROVE_EDIT" -> Resolved(r.i, "APPROVED")
                     [] OTHER -> @])

CommitRequest(t) ==
  LET r == tx[t]
      inc == Seen(t, OnIncident(r.i))
  IN /\ r.step = "commit"
     /\ r.op = "REQUEST_EDIT"
     /\ \E c \in CaseIds :
          /\ db.case[c].status = "NONE"
          /\ Publish(t, [db EXCEPT
               !.incident[r.i] = r.write,
               !.case[c] = [status |-> "ACTIVE", incident |-> r.i, type |-> "EDIT",
                            before |-> W!Replaced(r.write.editRequest, inc.fields)]])

CommitLine(t) ==
  LET r == tx[t]
  IN /\ r.step = "commit"
     /\ r.op \in {"DISABLE_LINE", "CANCEL_ALL"}
     /\ Publish(t, [db EXCEPT
          !.line[r.l].status = IF r.op = "DISABLE_LINE" THEN "INACTIVE" ELSE "DELETED",
          !.incident = [i \in Incidents |-> IF i \in r.found
                                            THEN W!Canceled(Seen(t, OnIncident(i)))
                                            ELSE @[i]],
          !.case = [c \in CaseIds |->
                      IF \E i \in r.found : c \in W!OpenCases(i)
                      THEN [@[c] EXCEPT !.status = "SUPERSEDED"] ELSE @[c]]])

CommitAccount(t) ==
  LET r == tx[t]
      me == Seen(t, OnUser(r.l))
  IN /\ r.step = "commit"
     /\ r.op \in {"DISABLE_USER", "CHANGE_ROLE"}
     /\ Publish(t, [db EXCEPT
          !.user[r.l] = IF r.op = "CHANGE_ROLE" THEN [me EXCEPT !.role = r.arg]
                                                ELSE [me EXCEPT !.status = "INACTIVE"]])

\* A statement fails, or PostgreSQL breaks a deadlock: withTransaction rolls back.
Rollback(t) ==
  /\ Active(t)
  /\ End(t)
  /\ UNCHANGED db

Next ==
  \/ \E l \in Lines : InstallLine(l)
  \/ \E u \in Users : InstallAccount(u)
  \/ \E t \in Txs :
       \/ WorkshopRequest(t) \/ AdminRequest(t)
       \/ Context(t) \/ Lock(t) \/ Decide(t) \/ Event(t)
       \/ CountIncidents(t) \/ CountTaken(t) \/ Canceling(t)
       \/ CommitIncident(t) \/ CommitRequest(t) \/ CommitLine(t) \/ CommitAccount(t)
       \/ Rollback(t)

Spec == Init /\ [][Next]_vars
-----------------------------------------------------------------------------
(* Properties *)

\* Every interleaving of these transactions is a behaviour of Workshop, where
\* each service is one step: nothing is decided on what another transaction
\* changed meanwhile, be it the line, the owner, the incident or the case.
ServicesAreAtomic == W!Init /\ [][UNCHANGED W!vars \/ W!Next]_W!vars

\* "Global lock order: line(s), user, incident" (workshop.service.mutations.ts):
\* no circle of transactions each waiting for a row that the next one holds.
NoCircularWait ==
  \A ts \in (SUBSET Txs) \ {{}} : \E t \in ts : \A o \in ts : ~WaitsFor(t, o)
=============================================================================
