---------------------------- MODULE ResetRequests --------------------------
(***************************************************************************)
(* Requests to reset a password (modules/passwordReset): a user who forgot *)
(* it asks from the login page, without a session; the administrators read *)
(* the pending requests and mark them handled (modules/admin).  PostgreSQL *)
(* runs the statements of concurrent transactions between each other.      *)
(***************************************************************************)
EXTENDS Naturals, FiniteSets

CONSTANTS
  Users, Requests, None,
  Ids  \* bound: rows of password_reset_requests

NoRow == [user |-> None, handled |-> FALSE]
NoRequest == [step |-> "idle", user |-> None, superseded |-> {}]

VARIABLES
  able,     \* users with an active account and a password
  row,      \* password_reset_requests, or NoRow
  mailed,   \* ids whose notification was enqueued
  marked,   \* history: ids an administrator marked as handled
  latest,   \* history: the last request of each user to commit
  holder,   \* the transaction that holds each user's row
  request   \* what each HTTP request does

vars == <<able, row, mailed, marked, latest, holder, request>>

Init ==
  /\ able \in SUBSET Users
  /\ row = [i \in Ids |-> NoRow]
  /\ mailed = {} /\ marked = {}
  /\ latest = [u \in Users |-> None] /\ holder = [u \in Users |-> None]
  /\ request = [r \in Requests |-> NoRequest]

Pending(u) == {i \in Ids : row[i].user = u /\ ~row[i].handled}
At(r, step) == request[r].step = step

Ask(r, u) ==
  /\ At(r, "idle")
  /\ request' = [request EXCEPT ![r] = [step |-> "asked", user |-> u, superseded |-> {}]]
  /\ UNCHANGED <<able, row, mailed, marked, latest, holder>>

\* Mutant of LockUser: without FOR UPDATE.
FindUser(r) ==
  LET u == request[r].user
  IN /\ At(r, "asked")
     /\ request' = [request EXCEPT ![r] = IF u \in able THEN [@ EXCEPT !.step = "locked"]
                                          ELSE NoRequest]
     /\ UNCHANGED <<able, row, mailed, marked, latest, holder>>

\* findActiveUserByBadge(..., forUpdate): whether there is such a user or not,
\* the answer is the same.
LockUser(r) ==
  LET u == request[r].user
  IN /\ At(r, "asked") /\ holder[u] = None
     /\ IF u \in able
        THEN /\ holder' = [holder EXCEPT ![u] = r]
             /\ request' = [request EXCEPT ![r].step = "locked"]
        ELSE /\ request' = [request EXCEPT ![r] = NoRequest]
             /\ UNCHANGED holder
     /\ UNCHANGED <<able, row, mailed, marked, latest>>

Superseded == UNION {request[r].superseded : r \in Requests}

\* UPDATE ... SET handled_at: the pending rows are locked until the commit.
Supersede(r) ==
  LET u == request[r].user
  IN /\ At(r, "locked")
     /\ Pending(u) \cap Superseded = {}
     /\ request' = [request EXCEPT ![r].step = "superseded", ![r].superseded = Pending(u)]
     /\ UNCHANGED <<able, row, mailed, marked, latest, holder>>

Unlock(r) == holder' = [u \in Users |-> IF holder[u] = r THEN None ELSE holder[u]]

\* INSERT, the notification of the request, and the commit.
Insert(r, i) ==
  LET q == request[r]
  IN /\ At(r, "superseded")
     /\ row[i] = NoRow /\ \A j \in Ids : j < i => row[j] # NoRow
     /\ row' = [j \in Ids |->
                  CASE j = i -> [user |-> q.user, handled |-> FALSE]
                    [] j \in q.superseded -> [row[j] EXCEPT !.handled = TRUE]
                    [] OTHER -> row[j]]
     /\ mailed' = mailed \cup {i}
     /\ latest' = [latest EXCEPT ![q.user] = i]
     /\ Unlock(r)
     /\ request' = [request EXCEPT ![r] = NoRequest]
     /\ UNCHANGED <<able, marked>>

RollBack(r) ==
  /\ request[r].step \in {"locked", "superseded"}
  /\ Unlock(r)
  /\ request' = [request EXCEPT ![r] = NoRequest]
  /\ UNCHANGED <<able, row, mailed, marked, latest>>

\* markPasswordResetRequestHandledService: a row someone else handled is not found.
MarkHandled(i) ==
  /\ row[i] # NoRow /\ ~row[i].handled /\ i \notin Superseded
  /\ row' = [row EXCEPT ![i].handled = TRUE]
  /\ marked' = marked \cup {i}
  /\ UNCHANGED <<able, mailed, latest, holder, request>>

\* The administrator deactivates an account, deletes it, or gives it its password
\* back; each locks the row of the user.
ChangeAccount(u) ==
  /\ holder[u] = None
  /\ able' = IF u \in able THEN able \ {u} ELSE able \cup {u}
  /\ UNCHANGED <<row, mailed, marked, latest, holder, request>>

Next ==
  \/ \E r \in Requests :
       \/ \E u \in Users : Ask(r, u)
       \/ LockUser(r) \/ Supersede(r) \/ RollBack(r)
       \/ \E i \in Ids : Insert(r, i)
  \/ \E i \in Ids : MarkHandled(i)
  \/ \E u \in Users : ChangeAccount(u)

Spec == Init /\ [][Next]_vars
-----------------------------------------------------------------------------
(* Properties *)

\* However the requests of one user race, the administrators see one of them at
\* most, the last; it stays until one of them handles it, and each was notified.
LastRequestPends ==
  \A u \in Users :
    /\ Pending(u) = IF latest[u] = None \/ latest[u] \in marked THEN {} ELSE {latest[u]}
    /\ \A i \in Ids : row[i].user = u => i \in mailed
=============================================================================
