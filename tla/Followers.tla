------------------------------ MODULE Followers ----------------------------
(***************************************************************************)
(* Following one incident (followIncidentService, unfollowIncidentService, *)
(* workshop.service.mutations.ts) while it is processed and ended: each    *)
(* service is a transaction that locks the incident, changes the active    *)
(* row of the follower if it must, and logs an event if it did.            *)
(***************************************************************************)
EXTENDS Naturals, Sequences

CONSTANTS
  Users, Requests, None,
  MaxEvents  \* bound: events of the incident

Kinds == {"FOLLOW", "UNFOLLOW", "END"}

VARIABLES
  ended,      \* the incident is CLOSED, CANCELED or INVALIDATED
  following,  \* users with an active row (deleted_at IS NULL)
  events,     \* [user, kind] of the incident, in order
  holder,     \* the transaction that holds the incident
  request     \* what each request does

vars == <<ended, following, events, holder, request>>

NoRequest == [step |-> "idle", kind |-> "END", user |-> None]

Init ==
  /\ ended = FALSE /\ following = {} /\ events = << >>
  /\ holder = None
  /\ request = [r \in Requests |-> NoRequest]

At(r, step) == request[r].step = step
Ends(r) == request' = [request EXCEPT ![r] = NoRequest]

\* A request of a user; END stands for the operations that end the incident.
\* An account changes role or goes without its rows: only the role carried by
\* the request is looked at.
Begin(r, u, kind) ==
  /\ At(r, "idle")
  /\ request' = [request EXCEPT ![r] = [step |-> "locking", kind |-> kind, user |-> u]]
  /\ UNCHANGED <<ended, following, events, holder>>

\* Mutant of LockIncident: the incident is read and not locked.
ReadIncident(r) ==
  /\ At(r, "locking")
  /\ IF ended /\ request[r].kind # "UNFOLLOW"
     THEN Ends(r)
     ELSE request' = [request EXCEPT ![r].step = "locked"]
  /\ UNCHANGED <<ended, following, events, holder>>

\* getIncidentById, FOR UPDATE; a terminal incident is neither followed nor ended.
LockIncident(r) ==
  /\ At(r, "locking") /\ holder = None
  /\ IF ended /\ request[r].kind # "UNFOLLOW"
     THEN Ends(r) /\ UNCHANGED holder
     ELSE holder' = r /\ request' = [request EXCEPT ![r].step = "locked"]
  /\ UNCHANGED <<ended, following, events>>

Unlock(r) == holder' = IF holder = r THEN None ELSE holder

\* INSERT ... ON CONFLICT DO NOTHING or UPDATE ... WHERE deleted_at IS NULL, the
\* event if a row changed, and the commit.
Change(r) ==
  /\ At(r, "locked")
  /\ Len(events) < MaxEvents
  /\ LET q == request[r]
         changed == \/ q.kind = "FOLLOW" /\ q.user \notin following
                    \/ q.kind = "UNFOLLOW" /\ q.user \in following
                    \/ q.kind = "END"
     IN /\ following' = CASE q.kind = "FOLLOW" -> following \cup {q.user}
                          [] q.kind = "UNFOLLOW" -> following \ {q.user}
                          [] q.kind = "END" -> following
        /\ ended' = (ended \/ q.kind = "END")
        /\ events' = IF changed THEN Append(events, [user |-> q.user, kind |-> q.kind])
                     ELSE events
  /\ Unlock(r)
  /\ Ends(r)

\* A failure rolls the transaction back.
RollBack(r) ==
  /\ At(r, "locked")
  /\ Unlock(r)
  /\ Ends(r)
  /\ UNCHANGED <<ended, following, events>>

Next ==
  \E r \in Requests :
    \/ \E u \in Users, kind \in Kinds : Begin(r, u, kind)
    \/ LockIncident(r) \/ Change(r) \/ RollBack(r)

Spec == Init /\ [][Next]_vars
-----------------------------------------------------------------------------
(* Properties *)

Logged(n, u, kind) == events[n].user = u /\ events[n].kind = kind

\* The first n events tell that u follows.
FollowedAt(u, n) ==
  \E p \in 1..n : Logged(p, u, "FOLLOW") /\ \A q \in (p + 1)..n : ~Logged(q, u, "UNFOLLOW")

\* The Journal tells who follows: a user who follows already is not logged to
\* start, nor one who does not to stop, and the last of their events agrees with
\* the active row.  Nobody starts to follow after the event that ended the
\* incident, and that event is alone of its kind.
FollowingIsLogged ==
  /\ \A u \in Users : u \in following <=> FollowedAt(u, Len(events))
  /\ \A n \in 1..Len(events), u \in Users :
       /\ Logged(n, u, "FOLLOW") => ~FollowedAt(u, n - 1)
       /\ Logged(n, u, "UNFOLLOW") => FollowedAt(u, n - 1)
  /\ \A n, p \in 1..Len(events) : events[n].kind = "END" /\ n < p => events[p].kind = "UNFOLLOW"
=============================================================================
