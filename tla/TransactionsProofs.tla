------------------------- MODULE TransactionsProofs -------------------------
(***************************************************************************)
(* What the parts of MCTransactions guarantee for any number of users,     *)
(* requests, releases, servers, backups and restores: each theorem is about *)
(* the specification of one part, whose behaviours those of PartsSpec are. *)
(***************************************************************************)
EXTENDS MCTransactions, Sequences, WellFoundedInduction, TLAPS

-----------------------------------------------------------------------------
(* Followers: what the Journal tells, as a function of the sequence of      *)
(* events.                                                                 *)

FollowEvents == [user : Watchers, kind : F!Kinds]

Tells(ev, u, n) ==
  \E p \in 1..n : /\ ev[p].user = u /\ ev[p].kind = "FOLLOW"
                  /\ \A q \in (p + 1)..n : ~(ev[q].user = u /\ ev[q].kind = "UNFOLLOW")

Agrees(ev, fol) == \A u \in Watchers : u \in fol <=> Tells(ev, u, Len(ev))
Alternates(ev) ==
  \A n \in 1..Len(ev), u \in Watchers :
    /\ ev[n].user = u /\ ev[n].kind = "FOLLOW" => ~Tells(ev, u, n - 1)
    /\ ev[n].user = u /\ ev[n].kind = "UNFOLLOW" => Tells(ev, u, n - 1)
EndsOnce(ev) ==
  \A n, p \in 1..Len(ev) : ev[n].kind = "END" /\ n < p => ev[p].kind = "UNFOLLOW"

\* A request that holds the incident is alone to, and knows whether it ended.
FollowersInv ==
  /\ followRequest \in [Requests -> [step : {"idle", "locking", "locked"}, kind : F!Kinds,
                                     user : Watchers \cup {Null}]]
  /\ events \in Seq(FollowEvents) /\ following \subseteq Watchers
  /\ \A r \in Requests :
       /\ followRequest[r].step # "idle" => followRequest[r].user \in Watchers
       /\ followRequest[r].step = "locked" =>
            incidentHolder = r /\ (ended => followRequest[r].kind = "UNFOLLOW")
  /\ \A n \in 1..Len(events) : events[n].kind = "END" => ended
  /\ Agrees(events, following) /\ Alternates(events) /\ EndsOnce(events)

\* An event says nothing of the moments before it.
LEMMA TellsBefore ==
  ASSUME NEW ev \in Seq(FollowEvents), NEW e \in FollowEvents, NEW u \in Watchers,
         NEW n \in 0..Len(ev)
  PROVE  Tells(Append(ev, e), u, n) <=> Tells(ev, u, n)
<1>1. \A p \in 1..n : Append(ev, e)[p] = ev[p]
  OBVIOUS
<1>2. \A p \in 1..n : \A q \in (p + 1)..n : Append(ev, e)[q] = ev[q]
  OBVIOUS
<1> QED
  BY <1>1, <1>2, Zenon DEF Tells

\* It makes a user follow, or stop, or leaves them as they were.
LEMMA TellsAfter ==
  ASSUME NEW ev \in Seq(FollowEvents), NEW e \in FollowEvents, NEW u \in Watchers
  PROVE  Tells(Append(ev, e), u, Len(ev) + 1) <=>
           \/ e.user = u /\ e.kind = "FOLLOW"
           \/ Tells(ev, u, Len(ev)) /\ ~(e.user = u /\ e.kind = "UNFOLLOW")
<1> DEFINE n == Len(ev)
           ap == Append(ev, e)
<1>1. n \in Nat /\ ap[n + 1] = e /\ \A p \in 1..n : ap[p] = ev[p]
  OBVIOUS
<1> HIDE DEF ap, n
<1>2. ASSUME Tells(ap, u, n + 1)
      PROVE  \/ e.user = u /\ e.kind = "FOLLOW"
             \/ Tells(ev, u, n) /\ ~(e.user = u /\ e.kind = "UNFOLLOW")
  <2>1. PICK p \in 1..(n + 1) :
          /\ ap[p].user = u /\ ap[p].kind = "FOLLOW"
          /\ \A q \in (p + 1)..(n + 1) : ~(ap[q].user = u /\ ap[q].kind = "UNFOLLOW")
    BY <1>2, Zenon DEF Tells
  <2>2. CASE p = n + 1
    BY <2>1, <2>2, <1>1
  <2>3. CASE p \in 1..n
    <3>1. n + 1 \in (p + 1)..(n + 1) /\ \A q \in (p + 1)..n : q \in (p + 1)..(n + 1) /\ q \in 1..n
      BY <2>3, <1>1
    <3>2. \A q \in (p + 1)..n : ~(ev[q].user = u /\ ev[q].kind = "UNFOLLOW")
      BY <3>1, <2>1, <1>1, Zenon
    <3>3. ev[p].user = u /\ ev[p].kind = "FOLLOW"
      BY <2>1, <2>3, <1>1, Zenon
    <3>4. Tells(ev, u, n)
      BY <2>3, <3>2, <3>3, Zenon DEF Tells
    <3> QED
      BY <3>4, <3>1, <2>1, <1>1, Zenon
  <2> QED
    BY <2>2, <2>3, <1>1
<1>3. ASSUME e.user = u, e.kind = "FOLLOW"
      PROVE  Tells(ap, u, n + 1)
  <2>1. n + 1 \in 1..(n + 1) /\ \A q \in ((n + 1) + 1)..(n + 1) : FALSE
    BY <1>1
  <2> QED
    BY <2>1, <1>3, <1>1, Zenon DEF Tells
<1>4. ASSUME Tells(ev, u, n), ~(e.user = u /\ e.kind = "UNFOLLOW")
      PROVE  Tells(ap, u, n + 1)
  <2>1. PICK p \in 1..n :
          /\ ev[p].user = u /\ ev[p].kind = "FOLLOW"
          /\ \A q \in (p + 1)..n : ~(ev[q].user = u /\ ev[q].kind = "UNFOLLOW")
    BY <1>4, Zenon DEF Tells
  <2>2. p \in 1..(n + 1) /\ \A q \in (p + 1)..(n + 1) : q = n + 1 \/ (q \in (p + 1)..n /\ q \in 1..n)
    BY <1>1
  <2>3. \A q \in (p + 1)..(n + 1) : ~(ap[q].user = u /\ ap[q].kind = "UNFOLLOW")
    BY <2>1, <2>2, <1>1, <1>4, Zenon
  <2>4. ap[p].user = u /\ ap[p].kind = "FOLLOW"
    BY <2>1, <1>1, Zenon
  <2> QED
    BY <2>2, <2>3, <2>4, Zenon DEF Tells
<1>5. Tells(ap, u, n + 1) <=>
           \/ e.user = u /\ e.kind = "FOLLOW"
           \/ Tells(ev, u, n) /\ ~(e.user = u /\ e.kind = "UNFOLLOW")
  BY <1>2, <1>3, <1>4, Zenon
<1> QED
  BY <1>5 DEF ap, n

\* An event that changes what the Journal tells of its user, logged with the
\* change, keeps the Journal true.
LEMMA JournalGrows ==
  ASSUME NEW ev \in Seq(FollowEvents), NEW fol, NEW fol2, NEW e \in FollowEvents,
         Agrees(ev, fol), Alternates(ev), EndsOnce(ev),
         \A n \in 1..Len(ev) : ev[n].kind = "END" => e.kind = "UNFOLLOW",
         \/ e.kind = "FOLLOW" /\ e.user \notin fol /\ fol2 = fol \cup {e.user}
         \/ e.kind = "UNFOLLOW" /\ e.user \in fol /\ fol2 = fol \ {e.user}
         \/ e.kind = "END" /\ fol2 = fol
  PROVE  Agrees(Append(ev, e), fol2) /\ Alternates(Append(ev, e)) /\ EndsOnce(Append(ev, e))
<1> DEFINE n == Len(ev)
           ap == Append(ev, e)
<1>1. n \in Nat /\ Len(ap) = n + 1 /\ ap[n + 1] = e /\ \A p \in 1..n : ap[p] = ev[p]
  OBVIOUS
<1>2. \A u \in Watchers, m \in 0..n : Tells(ap, u, m) <=> Tells(ev, u, m)
  BY TellsBefore, Zenon
<1>3. \A u \in Watchers : Tells(ap, u, n + 1) <=>
           \/ e.user = u /\ e.kind = "FOLLOW"
           \/ Tells(ev, u, n) /\ ~(e.user = u /\ e.kind = "UNFOLLOW")
  BY TellsAfter, Zenon
<1>4. \A u \in Watchers : u \in fol <=> Tells(ev, u, n)
  BY Zenon DEF Agrees
<1>5. (\A p \in 1..n : ev[p].kind = "END" => e.kind = "UNFOLLOW") /\ e.user \in Watchers
  BY DEF FollowEvents
<1> HIDE DEF ap, n
<1>6. Agrees(ap, fol2)
  BY <1>1, <1>3, <1>4 DEF Agrees
<1>7. Alternates(ap)
  <2> SUFFICES ASSUME NEW m \in 1..(n + 1), NEW u \in Watchers
               PROVE  /\ ap[m].user = u /\ ap[m].kind = "FOLLOW" => ~Tells(ap, u, m - 1)
                      /\ ap[m].user = u /\ ap[m].kind = "UNFOLLOW" => Tells(ap, u, m - 1)
    BY <1>1, Zenon DEF Alternates
  <2>0. m - 1 \in 0..n /\ (m = n + 1 \/ m \in 1..n) /\ (m = n + 1 => m - 1 = n)
    BY <1>1
  <2>1. Tells(ap, u, m - 1) <=> Tells(ev, u, m - 1)
    BY <2>0, <1>2, Zenon
  <2>2. CASE m = n + 1
    <3>1. ap[m] = e /\ m - 1 = n
      BY <2>2, <2>0, <1>1
    <3> QED
      BY <3>1, <2>1, <1>4
  <2>3. CASE m \in 1..n
    <3>1. ap[m] = ev[m]
      BY <2>3, <1>1, Zenon
    <3>2. /\ ev[m].user = u /\ ev[m].kind = "FOLLOW" => ~Tells(ev, u, m - 1)
          /\ ev[m].user = u /\ ev[m].kind = "UNFOLLOW" => Tells(ev, u, m - 1)
      BY <2>3, Zenon DEF Alternates, n
    <3> QED
      BY <3>1, <3>2, <2>1, Zenon
  <2> QED
    BY <2>0, <2>2, <2>3, Zenon
<1>8. EndsOnce(ap)
  <2> SUFFICES ASSUME NEW m \in 1..(n + 1), NEW p \in 1..(n + 1), ap[m].kind = "END", m < p
               PROVE  ap[p].kind = "UNFOLLOW"
    BY <1>1, Zenon DEF EndsOnce
  <2>1. m \in 1..n /\ (p = n + 1 \/ p \in 1..n)
    BY <1>1
  <2>2. ev[m].kind = "END"
    BY <2>1, <1>1
  <2>3. CASE p = n + 1
    BY <2>1, <2>2, <2>3, <1>1, <1>5
  <2>4. CASE p \in 1..n
    BY <2>1, <2>2, <2>4, <1>1, Zenon DEF EndsOnce, n
  <2> QED
    BY <2>1, <2>3, <2>4
<1> QED
  BY <1>6, <1>7, <1>8 DEF ap

LEMMA FollowersInitially == F!Init => FollowersInv
<1> SUFFICES ASSUME F!Init PROVE FollowersInv
  OBVIOUS
<1>1. followRequest \in [Requests -> [step : {"idle", "locking", "locked"}, kind : F!Kinds,
                                     user : Watchers \cup {Null}]]
  BY DEF F!Init, F!NoRequest, F!Kinds
<1>2. events = << >> /\ events \in Seq(FollowEvents) /\ following = {} /\ Len(events) = 0
  BY DEF F!Init
<1>3. \A r \in Requests : followRequest[r].step = "idle"
  BY DEF F!Init, F!NoRequest
<1>4. Agrees(events, following) /\ Alternates(events) /\ EndsOnce(events)
  BY <1>2 DEF Agrees, Alternates, EndsOnce, Tells
<1> QED
  BY <1>1, <1>2, <1>3, <1>4 DEF FollowersInv

LEMMA FollowersKept ==
  FollowersInv /\ [F!Next]_(F!vars) => FollowersInv'
<1> SUFFICES ASSUME FollowersInv, [F!Next]_(F!vars) PROVE FollowersInv'
  OBVIOUS
<1>0. Null \notin Requests
  BY PartsOK
<1> USE <1>0 DEF FollowersInv
<1>1. CASE UNCHANGED F!vars
  BY <1>1 DEF F!vars
<1>2. ASSUME NEW r \in Requests, NEW u \in Watchers, NEW kind \in F!Kinds, F!Begin(r, u, kind)
      PROVE  FollowersInv'
  BY <1>2 DEF F!Begin, F!At
<1>3. ASSUME NEW r \in Requests, F!LockIncident(r)
      PROVE  FollowersInv'
  <2>1. CASE ended /\ followRequest[r].kind # "UNFOLLOW"
    <3>1. /\ followRequest' = [followRequest EXCEPT ![r] = F!NoRequest]
          /\ UNCHANGED <<ended, following, events, incidentHolder>>
      BY <1>3, <2>1 DEF F!LockIncident, F!Ends
    <3>2. /\ followRequest' \in [Requests -> [step : {"idle", "locking", "locked"}, kind : F!Kinds,
                                              user : Watchers \cup {Null}]]
          /\ \A q \in Requests :
               /\ followRequest'[q].step # "idle" => followRequest'[q].user \in Watchers
               /\ followRequest'[q].step = "locked" => followRequest'[q] = followRequest[q]
      BY <3>1 DEF F!NoRequest, F!Kinds
    <3> QED
      BY <3>1, <3>2
  <2>2. CASE ~(ended /\ followRequest[r].kind # "UNFOLLOW")
    BY <1>3, <2>2 DEF F!LockIncident, F!At
  <2> QED
    BY <2>1, <2>2
<1>4. ASSUME NEW r \in Requests, F!Change(r)
      PROVE  FollowersInv'
  <2> DEFINE e == [user |-> followRequest[r].user, kind |-> followRequest[r].kind]
  <2>1. followRequest[r].step = "locked" /\ followRequest[r].kind \in F!Kinds
        /\ incidentHolder = r /\ (ended => followRequest[r].kind = "UNFOLLOW")
        /\ e \in FollowEvents
    BY <1>4 DEF F!Change, F!At, FollowEvents
  <2>2. /\ followRequest' = [followRequest EXCEPT ![r] = F!NoRequest]
        /\ \/ /\ events' = Append(events, e)
              /\ \/ e.kind = "FOLLOW" /\ e.user \notin following /\ following' = following \cup {e.user}
                 \/ e.kind = "UNFOLLOW" /\ e.user \in following /\ following' = following \ {e.user}
                 \/ e.kind = "END" /\ following' = following
           \/ events' = events /\ following' = following /\ e.kind # "END"
        /\ ended' = (ended \/ e.kind = "END")
    BY <1>4, <2>1 DEF F!Change, F!Ends, F!Kinds
  <2>3. /\ followRequest' \in [Requests -> [step : {"idle", "locking", "locked"}, kind : F!Kinds,
                                             user : Watchers \cup {Null}]]
        /\ \A q \in Requests :
             /\ followRequest'[q].step # "idle" => followRequest'[q].user \in Watchers
             /\ followRequest'[q].step # "locked"
    BY <2>1, <2>2 DEF F!NoRequest, F!Kinds
  <2>4. CASE events' = events /\ following' = following /\ e.kind # "END"
    BY <2>2, <2>3, <2>4
  <2>5. CASE /\ events' = Append(events, e)
             /\ \/ e.kind = "FOLLOW" /\ e.user \notin following /\ following' = following \cup {e.user}
                \/ e.kind = "UNFOLLOW" /\ e.user \in following /\ following' = following \ {e.user}
                \/ e.kind = "END" /\ following' = following
    <3>1. \A n \in 1..Len(events) : events[n].kind = "END" => e.kind = "UNFOLLOW"
      BY <2>1
    <3>2. e \in FollowEvents /\ events \in Seq(FollowEvents)
      BY <2>1
    <3> HIDE DEF e
    <3>3. Agrees(events', following') /\ Alternates(events') /\ EndsOnce(events')
      BY <3>1, <3>2, <2>5, JournalGrows
    <3>4. events' \in Seq(FollowEvents) /\ following' \subseteq Watchers
      BY <2>5, <3>2 DEF FollowEvents
    <3>5. \A n \in 1..Len(events') : events'[n].kind = "END" => ended'
      <4> SUFFICES ASSUME NEW n \in 1..Len(events'), events'[n].kind = "END"
                   PROVE  ended'
        OBVIOUS
      <4>1. (n \in 1..Len(events) /\ events'[n] = events[n]) \/ events'[n] = e
        BY <2>5, <3>2
      <4>2. (ended \/ e.kind = "END") => ended'
        BY <2>2, Zenon
      <4>3. CASE n \in 1..Len(events) /\ events'[n] = events[n]
        <5>1. events[n].kind = "END"
          BY <4>3, Zenon
        <5> QED
          BY <5>1, <4>2, <4>3, Zenon
      <4> QED
        BY <4>1, <4>2, <4>3, Zenon
    <3>6. \A q \in Requests : followRequest'[q].step = "locked" => FALSE
      BY <2>3
    <3> QED
      BY <2>3, <3>3, <3>4, <3>5, <3>6
  <2> QED
    BY <2>2, <2>4, <2>5
<1>5. ASSUME NEW r \in Requests, F!RollBack(r)
      PROVE  FollowersInv'
  BY <1>5 DEF F!RollBack, F!At, F!Ends, F!Unlock, F!NoRequest, F!Kinds
<1> QED
  BY <1>1, <1>2, <1>3, <1>4, <1>5 DEF F!Next

\* The Journal of an incident tells exactly who follows it, for any number of
\* users and of concurrent requests to follow, to stop and to end it.
THEOREM FollowingLogged == F!Spec => []FollowingIsLogged
<1>1. FollowersInv => FollowingIsLogged
  BY DEF FollowersInv, FollowingIsLogged, F!FollowingIsLogged, F!FollowedAt, F!Logged,
         Agrees, Alternates, EndsOnce, Tells
<1> QED
  BY <1>1, FollowersInitially, FollowersKept, PTL DEF F!Spec

-----------------------------------------------------------------------------
(* Requests to reset a password.                                            *)

PendingOf(rows, u) == {i \in Ids : rows[i].user = u /\ ~rows[i].handled}

LastPends(rows, last1, handled) ==
  \A u \in Watchers :
    PendingOf(rows, u) = IF last1[u] = Null \/ last1[u] \in handled THEN {} ELSE {last1[u]}

ResetSteps == {"idle", "asked", "locked", "superseded"}

\* A request whose user is locked is alone to be, and those it supersedes are
\* all that pend for its user, until it commits.
ResetInv ==
  /\ resetRequest \in [Requests -> [step : ResetSteps, user : Watchers \cup {Null},
                                    superseded : SUBSET Ids]]
  /\ row \in [Ids -> [user : Watchers \cup {Null}, handled : BOOLEAN]]
  /\ latest \in [Watchers -> Ids \cup {Null}]
  /\ userHolder \in [Watchers -> Requests \cup {Null}]
  /\ marked \subseteq Ids
  /\ \A r \in Requests :
       /\ resetRequest[r].step # "idle" => resetRequest[r].user \in Watchers
       /\ resetRequest[r].step \in {"locked", "superseded"} =>
            userHolder[resetRequest[r].user] = r
       /\ resetRequest[r].step = "superseded" =>
            resetRequest[r].superseded = PendingOf(row, resetRequest[r].user)
  /\ \A i \in Ids : row[i].user = Null => ~row[i].handled /\ i \notin marked
  /\ \A i \in Ids : row[i].user # Null => i \in mailed
  /\ LastPends(row, latest, marked)

LEMMA ResetInitially == P!Init => ResetInv
<1> SUFFICES ASSUME P!Init PROVE ResetInv
  OBVIOUS
<1>0. Null \notin Watchers
  BY PartsOK
<1>1. resetRequest \in [Requests -> [step : ResetSteps, user : Watchers \cup {Null},
                                     superseded : SUBSET Ids]]
  BY DEF P!Init, P!NoRequest, ResetSteps
<1>2. \A r \in Requests : resetRequest[r].step = "idle"
  BY DEF P!Init, P!NoRequest
<1>3. /\ row \in [Ids -> [user : Watchers \cup {Null}, handled : BOOLEAN]]
      /\ \A i \in Ids : row[i].user = Null /\ ~row[i].handled
  BY DEF P!Init, P!NoRow
<1>4. LastPends(row, latest, marked)
  BY <1>0, <1>3 DEF LastPends, PendingOf, P!Init
<1> QED
  BY <1>1, <1>2, <1>3, <1>4 DEF ResetInv, P!Init

\* The commit of a request: it pends alone for its user, nothing changes for the
\* others.
LEMMA InsertKept ==
  ASSUME ResetInv, NEW r \in Requests, NEW i \in Ids, P!Insert(r, i)
  PROVE  ResetInv'
<1> DEFINE q == resetRequest[r]
<1>0. Null \notin Watchers
  BY PartsOK
<1>1. /\ q \in [step : ResetSteps, user : Watchers \cup {Null}, superseded : SUBSET Ids]
      /\ q.step = "superseded" /\ q.user \in Watchers /\ userHolder[q.user] = r
      /\ q.superseded = PendingOf(row, q.user)
  BY DEF P!Insert, P!At, ResetInv
<1>2. /\ row[i].user = Null /\ ~row[i].handled /\ i \notin marked
      /\ \A j \in Ids : row[j] \in [user : Watchers \cup {Null}, handled : BOOLEAN]
  BY DEF P!Insert, P!NoRow, ResetInv
<1> HIDE DEF q
<1>3. /\ row' = [j \in Ids |->
                  CASE j = i -> [user |-> q.user, handled |-> FALSE]
                    [] j \in q.superseded -> [row[j] EXCEPT !.handled = TRUE]
                    [] OTHER -> row[j]]
      /\ mailed' = mailed \cup {i} /\ marked' = marked
      /\ latest' = [latest EXCEPT ![q.user] = i]
      /\ userHolder' = [u \in Watchers |-> IF userHolder[u] = r THEN Null ELSE userHolder[u]]
      /\ resetRequest' = [resetRequest EXCEPT ![r] = P!NoRequest]
  BY Zenon DEF P!Insert, P!Unlock, q
<1>4. i \notin q.superseded
  BY <1>0, <1>1, <1>2 DEF PendingOf
<1>5. \A j \in Ids : /\ row'[j] \in [user : Watchers \cup {Null}, handled : BOOLEAN]
                     /\ j = i => row'[j].user = q.user /\ ~row'[j].handled
                     /\ j \in q.superseded => row'[j].user = row[j].user /\ row'[j].handled
                     /\ j # i /\ j \notin q.superseded => row'[j] = row[j]
  <2> SUFFICES ASSUME NEW j \in Ids
               PROVE  /\ row'[j] \in [user : Watchers \cup {Null}, handled : BOOLEAN]
                      /\ j = i => row'[j].user = q.user /\ ~row'[j].handled
                      /\ j \in q.superseded => row'[j].user = row[j].user /\ row'[j].handled
                      /\ j # i /\ j \notin q.superseded => row'[j] = row[j]
    OBVIOUS
  <2>1. CASE j = i
    BY <1>1, <1>3, <1>4, <2>1
  <2>2. CASE j \in q.superseded
    <3>1. row'[j] = [row[j] EXCEPT !.handled = TRUE]
      BY <1>3, <1>4, <2>2
    <3> QED
      BY <3>1, <1>2, <1>4, <2>2
  <2>3. CASE j # i /\ j \notin q.superseded
    BY <1>2, <1>3, <2>3
  <2> QED
    BY <2>1, <2>2, <2>3
<1>6. PendingOf(row', q.user) = {i}
  BY <1>1, <1>2, <1>5 DEF PendingOf
<1>7. \A u \in Watchers \ {q.user} : PendingOf(row', u) = PendingOf(row, u)
  BY <1>0, <1>1, <1>2, <1>5 DEF PendingOf
<1>8. LastPends(row', latest', marked')
  <2> SUFFICES ASSUME NEW u \in Watchers
               PROVE  PendingOf(row', u) = IF latest'[u] = Null \/ latest'[u] \in marked
                                           THEN {} ELSE {latest'[u]}
    BY <1>3 DEF LastPends
  <2>1. PendingOf(row, u) = IF latest[u] = Null \/ latest[u] \in marked THEN {} ELSE {latest[u]}
    BY Zenon DEF ResetInv, LastPends
  <2>2. latest'[u] = IF u = q.user THEN i ELSE latest[u]
    BY <1>3 DEF ResetInv
  <2>3. i # Null
    BY PartsOK
  <2>4. CASE u = q.user
    BY <2>2, <2>3, <2>4, <1>2, <1>6
  <2>5. CASE u # q.user
    BY <2>1, <2>2, <2>5, <1>7
  <2> QED
    BY <2>4, <2>5
<1>9. /\ resetRequest' \in [Requests -> [step : ResetSteps, user : Watchers \cup {Null},
                                         superseded : SUBSET Ids]]
      /\ resetRequest'[r].step = "idle"
      /\ \A p \in Requests \ {r} : resetRequest'[p] = resetRequest[p]
  BY <1>3 DEF P!NoRequest, ResetSteps, ResetInv
<1>10. \A p \in Requests :
         /\ resetRequest'[p].step # "idle" => resetRequest'[p].user \in Watchers
         /\ resetRequest'[p].step \in {"locked", "superseded"} =>
              userHolder'[resetRequest'[p].user] = p
         /\ resetRequest'[p].step = "superseded" =>
              resetRequest'[p].superseded = PendingOf(row', resetRequest'[p].user)
  <2> SUFFICES ASSUME NEW p \in Requests, p # r
               PROVE  /\ resetRequest[p].step # "idle" => resetRequest[p].user \in Watchers
                      /\ resetRequest[p].step \in {"locked", "superseded"} =>
                           userHolder'[resetRequest[p].user] = p
                      /\ resetRequest[p].step = "superseded" =>
                           resetRequest[p].superseded = PendingOf(row', resetRequest[p].user)
    BY <1>9
  <2>1. resetRequest[p].step # "idle" => resetRequest[p].user \in Watchers
    BY Zenon DEF ResetInv
  <2>2. resetRequest[p].step \in {"locked", "superseded"} =>
          resetRequest[p].user \in Watchers /\ userHolder[resetRequest[p].user] = p
    BY DEF ResetInv
  <2>3. resetRequest[p].step \in {"locked", "superseded"} => resetRequest[p].user # q.user
    BY <2>2, <1>1
  <2>4. resetRequest[p].step = "superseded" =>
          resetRequest[p].superseded = PendingOf(row, resetRequest[p].user)
    BY Zenon DEF ResetInv
  <2>5. resetRequest[p].step = "superseded" =>
          PendingOf(row', resetRequest[p].user) = PendingOf(row, resetRequest[p].user)
    BY <2>2, <2>3, <1>7
  <2> QED
    BY <2>1, <2>2, <2>3, <2>4, <2>5, <1>3
<1>11. /\ userHolder' \in [Watchers -> Requests \cup {Null}]
       /\ latest' \in [Watchers -> Ids \cup {Null}] /\ marked' \subseteq Ids
  BY <1>1, <1>3 DEF ResetInv
<1>12. row' \in [Ids -> [user : Watchers \cup {Null}, handled : BOOLEAN]]
  BY <1>3, <1>5
<1>13. /\ \A j \in Ids : row'[j].user = Null => ~row'[j].handled /\ j \notin marked'
       /\ \A j \in Ids : row'[j].user # Null => j \in mailed'
  BY <1>0, <1>1, <1>3, <1>5 DEF PendingOf, ResetInv
<1> QED
  BY <1>8, <1>9, <1>10, <1>11, <1>12, <1>13 DEF ResetInv

\* An administrator marks the request that pends for its user, which none of the
\* requests in progress supersedes.
LEMMA MarkKept ==
  ASSUME ResetInv, NEW i \in Ids, P!MarkHandled(i)
  PROVE  ResetInv'
<1>0. Null \notin Watchers
  BY PartsOK
<1>1. /\ row[i] # P!NoRow /\ ~row[i].handled /\ i \notin P!Superseded
      /\ row' = [row EXCEPT ![i].handled = TRUE] /\ marked' = marked \cup {i}
      /\ UNCHANGED <<mailed, latest, userHolder, resetRequest>>
  BY Zenon DEF P!MarkHandled
<1>2. \A j \in Ids : row[j] \in [user : Watchers \cup {Null}, handled : BOOLEAN]
  BY DEF ResetInv
<1>3. row[i].user \in Watchers
  <2>1. row[i].user # Null
    BY <1>1, <1>2 DEF P!NoRow
  <2> QED
    BY <2>1, <1>2
<1>4. \A j \in Ids : /\ row'[j].user = row[j].user
                     /\ row'[j].handled = (row[j].handled \/ j = i)
                     /\ row'[j] \in [user : Watchers \cup {Null}, handled : BOOLEAN]
  BY <1>1, <1>2 DEF ResetInv
<1>5. \A u : PendingOf(row', u) = PendingOf(row, u) \ {i}
  BY <1>2, <1>4 DEF PendingOf
<1>6. i \in PendingOf(row, row[i].user)
  BY <1>1 DEF PendingOf
<1>7. \A u \in Watchers \ {row[i].user} : i \notin PendingOf(row, u)
  BY DEF PendingOf
<1>8. LastPends(row', latest', marked')
  <2> SUFFICES ASSUME NEW u \in Watchers
               PROVE  PendingOf(row', u) = IF latest[u] = Null \/ latest[u] \in marked \cup {i}
                                           THEN {} ELSE {latest[u]}
    BY <1>1 DEF LastPends
  <2>1. PendingOf(row, u) = IF latest[u] = Null \/ latest[u] \in marked THEN {} ELSE {latest[u]}
    BY Zenon DEF ResetInv, LastPends
  <2> QED
    BY <2>1, <1>5, <1>6, <1>7
<1>9. \A r \in Requests : resetRequest[r].step = "superseded" =>
        resetRequest[r].superseded = PendingOf(row', resetRequest[r].user)
  <2> SUFFICES ASSUME NEW r \in Requests, resetRequest[r].step = "superseded"
               PROVE  resetRequest[r].superseded = PendingOf(row', resetRequest[r].user)
    OBVIOUS
  <2>1. resetRequest[r].superseded = PendingOf(row, resetRequest[r].user)
    BY Zenon DEF ResetInv
  <2>2. i \notin resetRequest[r].superseded
    BY <1>1, Zenon DEF P!Superseded
  <2> QED
    BY <2>1, <2>2, <1>5
<1>10. /\ row' \in [Ids -> [user : Watchers \cup {Null}, handled : BOOLEAN]]
       /\ \A j \in Ids : row'[j].user = Null => ~row'[j].handled /\ j \notin marked'
       /\ \A j \in Ids : row'[j].user # Null => j \in mailed'
       /\ marked' \subseteq Ids
  BY <1>0, <1>1, <1>3, <1>4 DEF ResetInv
<1> QED
  BY <1>1, <1>8, <1>9, <1>10 DEF ResetInv

LEMMA ResetKept ==
  ResetInv /\ [P!Next]_(P!vars) => ResetInv'
<1> SUFFICES ASSUME ResetInv, [P!Next]_(P!vars) PROVE ResetInv'
  OBVIOUS
<1>0. Null \notin Watchers /\ Null \notin Requests
  BY PartsOK
<1>1. CASE UNCHANGED P!vars
  BY <1>1 DEF P!vars, ResetInv
<1>2. ASSUME NEW r \in Requests, NEW u \in Watchers, P!Ask(r, u)
      PROVE  ResetInv'
  BY <1>2 DEF P!Ask, P!At, ResetInv, ResetSteps
<1>3. ASSUME NEW r \in Requests, P!LockUser(r)
      PROVE  ResetInv'
  <2> DEFINE u == resetRequest[r].user
  <2>1. /\ resetRequest[r].step = "asked" /\ u \in Watchers /\ userHolder[u] = Null
        /\ UNCHANGED <<able, row, mailed, marked, latest>>
    BY <1>3 DEF P!LockUser, P!At, ResetInv
  <2>2. CASE u \in able
    <3>1. userHolder' = [userHolder EXCEPT ![u] = r]
          /\ resetRequest' = [resetRequest EXCEPT ![r].step = "locked"]
      BY <1>3, <2>2, Zenon DEF P!LockUser
    <3>2. \A p \in Requests :
            /\ resetRequest'[p].user = resetRequest[p].user
            /\ resetRequest'[p].superseded = resetRequest[p].superseded
            /\ p # r => resetRequest'[p].step = resetRequest[p].step
            /\ p = r => resetRequest'[p].step = "locked"
      BY <3>1 DEF ResetInv
    <3>3. resetRequest' \in [Requests -> [step : ResetSteps, user : Watchers \cup {Null},
                                         superseded : SUBSET Ids]]
          /\ userHolder' \in [Watchers -> Requests \cup {Null}]
      BY <3>1, <2>1 DEF ResetInv, ResetSteps
    <3>4. \A p \in Requests :
            resetRequest[p].step \in {"locked", "superseded"} => resetRequest[p].user # u
      BY <2>1, <1>0 DEF ResetInv
    <3> HIDE DEF u
    <3>5. \A p \in Requests :
            /\ resetRequest'[p].step # "idle" => resetRequest'[p].user \in Watchers
            /\ resetRequest'[p].step = "superseded" =>
                 resetRequest'[p].superseded = PendingOf(row', resetRequest'[p].user)
      BY <2>1, <3>2 DEF ResetInv, u
    <3>6. \A p \in Requests : resetRequest'[p].step \in {"locked", "superseded"} =>
                                userHolder'[resetRequest'[p].user] = p
      BY <2>1, <3>1, <3>2, <3>4 DEF ResetInv, u
    <3> QED
      BY <2>1, <3>3, <3>5, <3>6 DEF ResetInv
  <2>3. CASE u \notin able
    BY <1>3, <2>1, <2>3 DEF P!LockUser, P!NoRequest, ResetInv, ResetSteps
  <2> QED
    BY <2>2, <2>3
<1>4. ASSUME NEW r \in Requests, P!Supersede(r)
      PROVE  ResetInv'
  <2> DEFINE u == resetRequest[r].user
             mine == PendingOf(row, u)
  <2>1. resetRequest[r].step = "locked" /\ u \in Watchers /\ userHolder[u] = r
    BY <1>4 DEF P!Supersede, P!At, ResetInv
  <2>2. /\ resetRequest' = [resetRequest EXCEPT ![r].step = "superseded", ![r].superseded = mine]
        /\ UNCHANGED <<able, row, mailed, marked, latest, userHolder>>
    BY <1>4 DEF P!Supersede, P!Pending, PendingOf
  <2>3. mine \subseteq Ids
    BY DEF PendingOf
  <2> HIDE DEF mine
  <2>4. \A p \in Requests :
          /\ resetRequest'[p].user = resetRequest[p].user
          /\ p # r => resetRequest'[p] = resetRequest[p]
          /\ p = r => resetRequest'[p].step = "superseded" /\ resetRequest'[p].superseded = mine
    BY <2>2 DEF ResetInv
  <2>5. resetRequest' \in [Requests -> [step : ResetSteps, user : Watchers \cup {Null},
                                       superseded : SUBSET Ids]]
    <3> DEFINE T == [step : ResetSteps, user : Watchers \cup {Null}, superseded : SUBSET Ids]
               m == [resetRequest[r] EXCEPT !.step = "superseded", !.superseded = mine]
    <3>1. resetRequest \in [Requests -> T]
      BY Zenon DEF ResetInv
    <3>2. m \in T
      BY <3>1, <2>3 DEF ResetSteps
    <3>3. resetRequest' = [resetRequest EXCEPT ![r] = m]
      BY <2>2
    <3> HIDE DEF T, m
    <3>4. resetRequest' \in [Requests -> T]
      BY <3>1, <3>2, <3>3
    <3> QED
      BY <3>4 DEF T
  <2>6. \A p \in Requests :
          /\ resetRequest'[p].step # "idle" => resetRequest'[p].user \in Watchers
          /\ resetRequest'[p].step \in {"locked", "superseded"} =>
               userHolder[resetRequest'[p].user] = p
    BY <2>1, <2>4 DEF ResetInv
  <2>7. \A p \in Requests : resetRequest'[p].step = "superseded" =>
          resetRequest'[p].superseded = PendingOf(row, resetRequest'[p].user)
    <3> SUFFICES ASSUME NEW p \in Requests, resetRequest'[p].step = "superseded"
                 PROVE  resetRequest'[p].superseded = PendingOf(row, resetRequest'[p].user)
      OBVIOUS
    <3>1. CASE p = r
      <4>1. resetRequest'[p].superseded = mine /\ resetRequest'[p].user = u
        BY <2>4, <3>1
      <4> QED
        BY <4>1, Zenon DEF mine
    <3>2. CASE p # r
      <4>1. resetRequest'[p] = resetRequest[p]
        BY <2>4, <3>2, Zenon
      <4> QED
        BY <4>1, Zenon DEF ResetInv
    <3> QED
      BY <3>1, <3>2
  <2> QED
    BY <2>2, <2>5, <2>6, <2>7 DEF ResetInv
<1>5. ASSUME NEW r \in Requests, P!RollBack(r)
      PROVE  ResetInv'
  <2>1. /\ userHolder' = [u \in Watchers |-> IF userHolder[u] = r THEN Null ELSE userHolder[u]]
        /\ resetRequest' = [resetRequest EXCEPT ![r] = P!NoRequest]
        /\ UNCHANGED <<able, row, mailed, marked, latest>>
    BY <1>5, Zenon DEF P!RollBack, P!Unlock
  <2>2. /\ resetRequest' \in [Requests -> [step : ResetSteps, user : Watchers \cup {Null},
                                         superseded : SUBSET Ids]]
        /\ resetRequest'[r].step = "idle"
        /\ \A p \in Requests \ {r} : resetRequest'[p] = resetRequest[p]
    BY <2>1 DEF P!NoRequest, ResetSteps, ResetInv
  <2> QED
    BY <2>1, <2>2 DEF ResetInv
<1>6. ASSUME NEW u \in Watchers, P!ChangeAccount(u)
      PROVE  ResetInv'
  BY <1>6 DEF P!ChangeAccount, ResetInv
<1> QED
  BY <1>1, <1>2, <1>3, <1>4, <1>5, <1>6, InsertKept, MarkKept, Zenon DEF P!Next

\* However many requests of a user race with each other and with the
\* administrators, his last one pends until it is handled, alone, and was
\* notified.
THEOREM LastPending == P!Spec => []LastRequestPends
<1>1. ResetInv => LastRequestPends
  <2>0. Null \notin Watchers
    BY PartsOK
  <2> QED
    BY <2>0 DEF ResetInv, LastPends, PendingOf, LastRequestPends, P!LastRequestPends, P!Pending
<1> QED
  BY <1>1, ResetInitially, ResetKept, PTL DEF P!Spec

-----------------------------------------------------------------------------
(* The stop of a server.                                                    *)

\* From the signal on no run of the worker is to come; a handler at work has its
\* connection, or outlived the deadline or its client.
LifecycleInv ==
  /\ phase \in {"up", "stopping", "ending", "exited"}
  /\ handler \in [Handlers -> L!HandlerStates]
  /\ stopped \in BOOLEAN
  /\ phase # "up" => stopped /\ ~timer
  /\ phase \in {"ending", "exited"} => worker = "idle" /\ socket = {}
  /\ \A h \in Handlers : handler[h] # "idle" => h \in socket \/ forced \/ h \in gone
  /\ phase = "exited" => \A h \in Handlers : handler[h] # "transaction"

LEMMA LifecycleInitially == L!Init => LifecycleInv
  BY DEF L!Init, LifecycleInv, L!HandlerStates

LEMMA LifecycleKept ==
  LifecycleInv /\ [L!Next]_(L!vars) => LifecycleInv'
<1> SUFFICES ASSUME LifecycleInv, [L!Next]_(L!vars) PROVE LifecycleInv'
  OBVIOUS
<1> USE DEF LifecycleInv, L!HandlerStates, L!Alive, L!PoolOpen
<1>1. CASE UNCHANGED L!vars
  BY <1>1 DEF L!vars
<1>2. ASSUME NEW h \in Handlers, L!Accept(h)
      PROVE  LifecycleInv'
  BY <1>2 DEF L!Accept
<1>3. ASSUME NEW h \in Handlers, L!BeginTransaction(h)
      PROVE  LifecycleInv'
  BY <1>3 DEF L!BeginTransaction
<1>4. ASSUME NEW h \in Handlers, L!EndTransaction(h)
      PROVE  LifecycleInv'
  BY <1>4 DEF L!EndTransaction
<1>5. ASSUME NEW h \in Handlers, L!Answer(h)
      PROVE  LifecycleInv'
  BY <1>5 DEF L!Answer
<1>6. ASSUME NEW h \in Handlers, L!Disconnect(h)
      PROVE  LifecycleInv'
  BY <1>6 DEF L!Disconnect
<1>7. CASE L!WakeUp \/ L!ClaimItems \/ L!EndRun
  <2>1. /\ UNCHANGED <<phase, forced, handler, socket, gone, stopped>>
        /\ phase # "exited"
        /\ timer \/ worker # "idle"
        /\ timer' => timer \/ ~stopped
    <3>1. timer \/ worker \in {"running", "claimed"}
      BY <1>7, Zenon DEF L!WakeUp, L!ClaimItems, L!EndRun
    <3>2. worker \in {"running", "claimed"} => worker # "idle"
      OBVIOUS
    <3>3. UNCHANGED <<phase, forced, handler, socket, gone, stopped>> /\ phase # "exited"
      BY <1>7 DEF L!WakeUp, L!ClaimItems, L!EndRun
    <3>4. timer' = timer \/ timer' = FALSE \/ timer' = ~stopped
      BY <1>7 DEF L!WakeUp, L!ClaimItems, L!EndRun
    <3>5. timer' => timer \/ ~stopped
      BY <3>4, Zenon
    <3>6. timer \/ worker # "idle"
      BY <3>1, <3>2, Zenon
    <3> QED
      BY <3>3, <3>5, <3>6
  <2>2. phase \notin {"ending", "exited"}
    <3>1. ASSUME phase = "ending" PROVE FALSE
      <4>1. phase # "up" /\ phase \in {"ending", "exited"}
        BY <3>1
      <4>2. worker = "idle" /\ ~timer
        BY <4>1, Zenon
      <4> QED
        BY <4>2, <2>1, Zenon
    <3>2. phase # "exited"
      BY <2>1, Zenon
    <3> QED
      BY <3>1, <3>2
  <2>3. phase' # "up" => stopped' /\ ~timer'
    BY <2>1, Zenon
  <2> QED
    BY <2>1, <2>2, <2>3
<1>8. CASE L!Signal
  <2>1. /\ phase' = "stopping" /\ stopped' /\ stopped' \in BOOLEAN /\ ~timer'
        /\ UNCHANGED <<forced, handler, socket, gone, worker>>
    BY <1>8 DEF L!Signal
  <2> QED
    BY <2>1
<1>9. CASE L!ForceClose
  BY <1>9 DEF L!ForceClose
<1>10. CASE L!EndPool \/ L!Exit
  BY <1>10 DEF L!EndPool, L!Exit
<1> QED
  BY <1>1, <1>2, <1>3, <1>4, <1>5, <1>6, <1>7, <1>8, <1>9, <1>10, Zenon DEF L!Next

\* A server that exits gracefully leaves nothing half done, whatever the number
\* of requests it serves at the signal.
THEOREM GracefullyExits == L!Spec => []GracefulExit
<1>1. LifecycleInv => GracefulExit
  BY DEF LifecycleInv, L!HandlerStates, GracefulExit, L!GracefulExit
<1> QED
  BY <1>1, LifecycleInitially, LifecycleKept, PTL DEF L!Spec

-----------------------------------------------------------------------------
(* Migrations: what a server knows of ledger lg.                            *)

MigrationSteps == {"down", "waiting", "alias", "look", "apply", "failed", "serving"}

Files(st) == Releases[st.release]
Rest(st) == {f \in DOMAIN Files(st) : f > st.file}
Smallest(fs) == CHOOSE f \in fs : \A g \in fs : f <= g

\* A server that looks up its files has removed the former name for good, and
\* has found or put those before as it ships them.
Knows(lg, st) ==
  /\ st.at # "down" => st.release \in DOMAIN Releases
  /\ st.at \in {"look", "apply"} =>
       /\ lg[Legacy] = "absent" /\ Canonical \in DOMAIN Files(st)
       /\ \A f \in DOMAIN Files(st) : f <= st.file => lg[f] = Files(st)[f]
  /\ st.at = "apply" => Rest(st) # {} /\ lg[Smallest(Rest(st))] = "absent"
  /\ st.at = "serving" => \A f \in DOMAIN Files(st) : lg[f] = Files(st)[f]

Done(lg, f) == lg[f] # "absent" \/ (f = Canonical /\ lg[Legacy] # "absent")
Exact(lg, eff) == \A f \in Ranks : eff[f] = IF Done(lg, f) THEN 1 ELSE 0
Complete(lg) == \A n \in Ranks \cup {Legacy} : lg[n] # Null

IsServer(st) ==
  /\ DOMAIN st = {"release", "at", "file"}
  /\ st.at \in MigrationSteps /\ st.file \in Nat

MigrationsInv ==
  /\ ledger \in G!Ledger
  /\ effect \in [Ranks -> Nat] /\ Exact(ledger, effect)
  /\ DOMAIN server = Servers
  /\ \A s \in Servers :
       /\ IsServer(server[s]) /\ Knows(ledger, server[s])
       /\ server[s].at \in {"alias", "look", "apply"} => advisoryLock = s
  /\ notNull => Complete(ledger)

LEMMA MigrationsConstants ==
  /\ Ranks \subseteq Nat \ {0} /\ Canonical \in Ranks /\ Legacy \notin Ranks
  /\ "absent" \notin Sums /\ "absent" # Null /\ Null \notin Sums /\ Null \notin Servers
  /\ Ledgers \subseteq G!Ledger
  /\ G!Ledger = [Ranks \cup {Legacy} -> Sums \cup {Null, "absent"}]
  /\ \A q \in DOMAIN Releases : /\ DOMAIN Releases[q] \subseteq Ranks
                                /\ \A f \in DOMAIN Releases[q] : Releases[q][f] \in Sums
<1>1. G!ConstantsOK
  BY PartsOK
<1>2. ASSUME NEW q \in DOMAIN Releases
      PROVE  /\ DOMAIN Releases[q] \subseteq Ranks
             /\ \A f \in DOMAIN Releases[q] : Releases[q][f] \in Sums
  <2>1. PICK fs \in SUBSET Ranks : Releases[q] \in [fs -> Sums]
    BY <1>1, Zenon DEF G!ConstantsOK
  <2> QED
    BY <2>1
<1> QED
  BY <1>1, <1>2 DEF G!ConstantsOK, G!Absent, G!Ledger, G!Names

LEMMA SmallestRank ==
  ASSUME NEW fs \in SUBSET Nat, fs # {}
  PROVE  Smallest(fs) \in fs /\ \A g \in fs : Smallest(fs) <= g
<1> DEFINE Less == {ss \in Nat \X Nat : ss[1] < ss[2]}
<1>1. IsWellFoundedOn(Less, Nat)
  BY NatLessThanWellFounded, Zenon DEF OpToRel
<1>a. \A x, y \in Nat : x < y => <<x, y>> \in Less
  OBVIOUS
<1> HIDE DEF Less
<1>2. PICK f \in fs : \A g \in fs : <<g, f>> \notin Less
  BY <1>1, WFMin
<1>3. ASSUME NEW g \in fs PROVE f <= g
  <2>1. f \in Nat /\ g \in Nat
    OBVIOUS
  <2>2. ~ (g < f)
    BY <1>a, <1>2, <2>1
  <2> QED
    BY <2>1, <2>2
<1> QED
  BY <1>3 DEF Smallest

\* The next file of a server: the smallest of those that remain, those before are
\* handled.
LEMMA NextRank ==
  ASSUME NEW st, IsServer(st), st.release \in DOMAIN Releases, Rest(st) # {}
  PROVE  LET f == Smallest(Rest(st))
         IN /\ f \in DOMAIN Files(st) /\ f \in Ranks /\ f \in Nat /\ Files(st)[f] \in Sums
            /\ \A g \in DOMAIN Files(st) : g <= f => g <= st.file \/ g = f
<1> USE MigrationsConstants
<1>1. Rest(st) \in SUBSET Nat /\ DOMAIN Files(st) \subseteq Nat /\ st.file \in Nat
  BY DEF Rest, Files, IsServer
<1>2. Smallest(Rest(st)) \in Rest(st) /\ \A g \in Rest(st) : Smallest(Rest(st)) <= g
  BY <1>1, SmallestRank
<1> DEFINE f == Smallest(Rest(st))
<1>3. f \in DOMAIN Files(st) /\ f \in Ranks /\ f \in Nat /\ Files(st)[f] \in Sums
  BY <1>2 DEF Rest, Files
<1>4. ASSUME NEW g \in DOMAIN Files(st), g <= f, ~(g <= st.file) PROVE g = f
  <2>1. g \in Rest(st)
    BY <1>1, <1>4 DEF Rest
  <2>2. g \in Nat /\ f \in Nat /\ f <= g
    BY <1>1, <1>2, <1>3, <2>1
  <2> QED
    BY <2>2, <1>4
<1> QED
  BY <1>3, <1>4

LEMMA MigrationsInitially == G!Init => MigrationsInv
<1> SUFFICES ASSUME G!Init PROVE MigrationsInv
  OBVIOUS
<1> USE MigrationsConstants
<1>1. ledger \in G!Ledger /\ notNull = FALSE /\ DOMAIN server = Servers
  BY DEF G!Init
<1>2. effect \in [Ranks -> Nat] /\ Exact(ledger, effect)
  BY DEF G!Init, G!KnownAsDone, G!Recorded, G!Absent, Exact, Done
<1>3. \A s \in Servers : IsServer(server[s]) /\ server[s].at = "down"
  BY DEF G!Init, G!Down, IsServer, MigrationSteps
<1> QED
  BY <1>1, <1>2, <1>3 DEF MigrationsInv, Knows

\* What a server knows of the ledger stays true of one where no checksum changes,
\* when it is in service.
LEMMA KnowsStill ==
  ASSUME NEW lg, NEW lg2, NEW st, Knows(lg, st), st.at \notin {"look", "apply"},
         \A f \in Ranks : lg[f] \in Sums => lg2[f] = lg[f]
  PROVE  Knows(lg2, st)
<1>1. st.at = "serving" => \A f \in DOMAIN Files(st) : f \in Ranks /\ Files(st)[f] \in Sums
  BY MigrationsConstants DEF Knows, Files
<1> QED
  BY <1>1 DEF Knows

\* A step of server s to st, which writes under the lock only.
LEMMA ServerKept ==
  ASSUME MigrationsInv, NEW s \in Servers, NEW st, IsServer(st),
         server' = [server EXCEPT ![s] = st],
         ledger' \in G!Ledger, effect' \in [Ranks -> Nat], Exact(ledger', effect'),
         notNull' => Complete(ledger'),
         \A f \in Ranks : ledger[f] \in Sums => ledger'[f] = ledger[f],
         \/ advisoryLock = s
         \/ ledger' = ledger /\ advisoryLock' = advisoryLock
         \/ ledger' = ledger /\ advisoryLock = Null,
         Knows(ledger', st),
         st.at \in {"alias", "look", "apply"} => advisoryLock' = s
  PROVE  MigrationsInv'
<1> USE MigrationsConstants
<1>1. /\ DOMAIN server' = Servers /\ server'[s] = st
      /\ \A q \in Servers \ {s} : server'[q] = server[q]
  BY DEF MigrationsInv
<1>2. ASSUME NEW q \in Servers \ {s}
      PROVE  /\ IsServer(server[q]) /\ Knows(ledger', server[q])
             /\ server[q].at \in {"alias", "look", "apply"} => advisoryLock' = q
  <2>1. /\ IsServer(server[q]) /\ Knows(ledger, server[q])
        /\ server[q].at \in {"alias", "look", "apply"} => advisoryLock = q
    BY Zenon DEF MigrationsInv
  <2>2. CASE server[q].at \in {"alias", "look", "apply"}
    <3>1. ledger' = ledger /\ advisoryLock' = advisoryLock
      BY <2>1, <2>2
    <3> QED
      BY <2>1, <3>1
  <2>3. CASE server[q].at \notin {"alias", "look", "apply"}
    <3>1. Knows(ledger', server[q])
      BY <2>1, <2>3, KnowsStill
    <3> QED
      BY <2>1, <2>3, <3>1
  <2> QED
    BY <2>2, <2>3
<1>3. \A q \in Servers :
        /\ IsServer(server'[q]) /\ Knows(ledger', server'[q])
        /\ server'[q].at \in {"alias", "look", "apply"} => advisoryLock' = q
  BY <1>1, <1>2
<1> QED
  BY <1>1, <1>3, Zenon DEF MigrationsInv

LEMMA MigrationsKept ==
  MigrationsInv /\ [G!Next]_(G!vars) => MigrationsInv'
<1> SUFFICES ASSUME MigrationsInv, [G!Next]_(G!vars) PROVE MigrationsInv'
  OBVIOUS
<1>1. CASE UNCHANGED G!vars
  BY <1>1 DEF G!vars, MigrationsInv
<1>2. ASSUME NEW s \in Servers,
             \/ \E q \in DOMAIN Releases : G!Start(s, q)
             \/ G!Dies(s) \/ G!Migrates(s)
      PROVE  MigrationsInv'
  <2> DEFINE q == server[s]
             ship == Files(q)
             next == Smallest(Rest(q))
             to(x, f) == [q EXCEPT !.at = x, !.file = f]
  <2> USE MigrationsConstants
  <2>0. /\ IsServer(q) /\ Knows(ledger, q)
        /\ q.at \in {"alias", "look", "apply"} => advisoryLock = s
        /\ ledger \in G!Ledger /\ effect \in [Ranks -> Nat] /\ Exact(ledger, effect)
        /\ notNull => Complete(ledger)
    BY Zenon DEF MigrationsInv
  <2>n. ledger \in [Ranks \cup {Legacy} -> Sums \cup {Null, "absent"}]
    BY <2>0
  <2>a. \A x \in MigrationSteps, f \in Nat :
          /\ IsServer(to(x, f)) /\ to(x, f).at = x /\ to(x, f).file = f
          /\ to(x, f).release = q.release /\ Files(to(x, f)) = ship
    BY <2>0 DEF IsServer, Files
  <2>b. ASSUME NEW x, NEW f, G!Goes(s, x, f)
        PROVE  server' = [server EXCEPT ![s] = to(x, f)]
    BY <2>b DEF G!Goes
  <2>c. q.at # "down" => /\ q.release \in DOMAIN Releases /\ DOMAIN ship \subseteq Ranks
                         /\ \A f \in DOMAIN ship : ship[f] \in Sums
    BY <2>0 DEF Knows, Files
  <2>d. G!Shipped(s) = ship /\ G!Remaining(s) = Rest(q) /\ G!NextFile(s) = next
    BY DEF G!Shipped, G!Remaining, G!NextFile, Files, Rest, Smallest
  <2>e. \A n : G!Recorded(n) <=> ledger[n] # "absent"
    BY DEF G!Recorded, G!Absent
  <2> HIDE DEF q, ship, next, to
  <2>f. \A x \in {"failed", "alias"} : q.at # "down" => Knows(ledger, to(x, 0))
    <3> TAKE x \in {"failed", "alias"}
    <3> DEFINE st == to(x, 0)
    <3>1. st.at = x /\ st.release = q.release
      BY <2>a DEF MigrationSteps
    <3> HIDE DEF st
    <3>2. q.at # "down" => Knows(ledger, st)
      BY <2>c, <3>1 DEF Knows
    <3> QED
      BY <3>2 DEF st
  <2>fails. ASSUME q.at \in {"alias", "look", "apply"}, G!Fails(s)
            PROVE  MigrationsInv'
    <3>1. /\ server' = [server EXCEPT ![s] = to("failed", 0)]
          /\ ledger' = ledger /\ effect' = effect /\ notNull' = notNull
      BY <2>fails, <2>b DEF G!Fails
    <3>2. IsServer(to("failed", 0)) /\ to("failed", 0).at = "failed" /\ Knows(ledger, to("failed", 0))
      BY <2>a, <2>f, <2>fails DEF MigrationSteps
    <3> DEFINE st == to("failed", 0)
    <3> HIDE DEF st
    <3> QED
      BY <2>0, <2>fails, <3>1, <3>2, ServerKept DEF st
  <2>1. ASSUME NEW r \in DOMAIN Releases, G!Start(s, r) PROVE MigrationsInv'
    <3> DEFINE st == [release |-> r, at |-> "waiting", file |-> 0]
    <3>1. server' = [server EXCEPT ![s] = st] /\ UNCHANGED <<ledger, effect, notNull, advisoryLock>>
      BY <2>1 DEF G!Start
    <3>2. IsServer(st) /\ st.at = "waiting" /\ Knows(ledger, st)
      BY DEF IsServer, Knows, MigrationSteps
    <3> HIDE DEF st
    <3> QED
      BY <2>0, <3>1, <3>2, ServerKept
  <2>2. CASE G!Dies(s)
    <3>1. /\ server' = [server EXCEPT ![s] = G!Down] /\ UNCHANGED <<ledger, effect, notNull>>
          /\ advisoryLock' = IF advisoryLock = s THEN Null ELSE advisoryLock
      BY <2>2 DEF G!Dies
    <3>2. IsServer(G!Down) /\ G!Down.at = "down" /\ Knows(ledger, G!Down)
      BY DEF G!Down, IsServer, Knows, MigrationSteps
    <3> QED
      BY <2>0, <3>1, <3>2, ServerKept
  <2>3. CASE G!AcquireLock(s)
    <3> DEFINE st == to("alias", 0)
    <3>1. /\ q.at = "waiting" /\ advisoryLock = Null /\ advisoryLock' = s
          /\ server' = [server EXCEPT ![s] = st] /\ UNCHANGED <<ledger, effect, notNull>>
      BY <2>3, <2>b DEF G!AcquireLock, G!At, q
    <3>2. IsServer(st) /\ st.at = "alias" /\ Knows(ledger, st)
      BY <2>a, <2>f, <3>1 DEF MigrationSteps
    <3> HIDE DEF st
    <3> QED
      BY <2>0, <3>1, <3>2, ServerKept
  <2>4. CASE G!NormalizeAlias(s)
    <3>1. q.at = "alias"
      BY <2>4 DEF G!NormalizeAlias, G!At, q
    <3>2. CASE G!Fails(s)
      BY <2>fails, <3>1, <3>2
    <3>3. CASE ~G!Fails(s)
      <4> DEFINE st == to("look", 0)
      <4>1. /\ Canonical \in DOMAIN ship
            /\ ledger' = IF ledger[Legacy] = "absent" THEN ledger
                         ELSE [ledger EXCEPT
                                ![Legacy] = "absent",
                                ![Canonical] = IF ledger[Canonical] # "absent" THEN @
                                               ELSE ship[Canonical]]
            /\ server' = [server EXCEPT ![s] = st]
            /\ UNCHANGED <<effect, notNull, advisoryLock>>
        BY <2>4, <2>b, <2>d, <3>3 DEF G!NormalizeAlias, G!Recorded, G!Absent
      <4>2. /\ ledger' \in [Ranks \cup {Legacy} -> Sums \cup {Null, "absent"}]
            /\ ledger'[Legacy] = "absent"
            /\ \A f \in Ranks \ {Canonical} : ledger'[f] = ledger[f]
            /\ ledger[Canonical] # "absent" => ledger'[Canonical] = ledger[Canonical]
            /\ ledger[Canonical] = "absent" =>
                 IF ledger[Legacy] = "absent" THEN ledger'[Canonical] = "absent"
                 ELSE ledger'[Canonical] = ship[Canonical]
        BY <4>1, <2>n, <2>c, <3>1
      <4>3. \A f \in Ranks : Done(ledger', f) <=> Done(ledger, f)
        BY <4>1, <4>2, <2>c, <3>1 DEF Done
      <4>4. \A f \in Ranks : ledger[f] \in Sums => ledger'[f] = ledger[f]
        BY <4>2
      <4>5. Exact(ledger', effect')
        BY <2>0, <4>1, <4>3 DEF Exact
      <4>6. notNull' => Complete(ledger')
        BY <2>0, <2>c, <3>1, <4>1, <4>2 DEF Complete
      <4>7. IsServer(st) /\ st.at = "look" /\ st.release \in DOMAIN Releases /\ st.file = 0
            /\ Files(st) = ship
        BY <2>a, <2>c, <3>1 DEF MigrationSteps
      <4> HIDE DEF st
      <4>8. Knows(ledger', st)
        <5>1. \A f \in DOMAIN ship : ~(f <= 0)
          <6>1. DOMAIN ship \subseteq Ranks /\ Ranks \subseteq Nat \ {0}
            BY <2>c, <3>1, MigrationsConstants
          <6>2. \A f \in Nat \ {0} : ~(f <= 0)
            OBVIOUS
          <6> QED
            BY <6>1, <6>2, Zenon
        <5>2. \A f \in DOMAIN Files(st) : ~(f <= st.file)
          BY <5>1, <4>7
        <5>3. ledger'[Legacy] = "absent" /\ Canonical \in DOMAIN Files(st)
          BY <4>1, <4>2, <4>7
        <5> QED
          BY <4>7, <5>2, <5>3 DEF Knows
      <4>9. ledger' \in G!Ledger /\ effect' \in [Ranks -> Nat] /\ advisoryLock = s /\ advisoryLock' = s
        BY <2>0, <3>1, <4>1, <4>2
      <4> QED
        BY <4>1, <4>4, <4>5, <4>6, <4>7, <4>8, <4>9, ServerKept
    <3> QED
      BY <3>2, <3>3
  <2>5. CASE G!LookUp(s)
    <3>1. q.at = "look" /\ Rest(q) # {} /\ q.release \in DOMAIN Releases
      BY <2>5, <2>c, <2>d DEF G!LookUp, G!At, q
    <3>2. /\ next \in DOMAIN ship /\ next \in Ranks /\ next \in Nat /\ ship[next] \in Sums
          /\ \A g \in DOMAIN ship : g <= next => g <= q.file \/ g = next
      BY <2>0, <3>1, NextRank DEF next, ship
    <3>3. CASE ledger[next] = "absent"
      <4> DEFINE st == to("apply", q.file)
      <4>1. server' = [server EXCEPT ![s] = st] /\ UNCHANGED <<ledger, effect, notNull, advisoryLock>>
        <5>1. G!Goes(s, "apply", server[s].file) /\ UNCHANGED <<ledger, effect, notNull, advisoryLock>>
          BY <2>5, <2>d, <2>e, <3>3, Zenon DEF G!LookUp
        <5> QED
          BY <5>1, <2>b DEF q
      <4>2. /\ IsServer(st) /\ st.at = "apply" /\ st.release = q.release /\ Files(st) = ship
            /\ st.file = q.file
        BY <2>0, <2>a DEF MigrationSteps, IsServer
      <4>3. Rest(st) = Rest(q)
        BY <4>2 DEF Rest, ship
      <4>4. Knows(ledger, st)
        BY <2>0, <3>1, <3>3, <4>2, <4>3 DEF Knows, ship, next
      <4> HIDE DEF st
      <4> QED
        BY <2>0, <3>1, <4>1, <4>2, <4>4, ServerKept
    <3>4. CASE ledger[next] # "absent" /\ ledger[next] \notin {Null, ship[next]}
      BY <2>5, <2>d, <2>e, <2>fails, <3>1, <3>4 DEF G!LookUp
    <3>5. CASE ledger[next] \in {Null, ship[next]}
      <4> DEFINE st == to("look", next)
      <4>1. /\ server' = [server EXCEPT ![s] = st] /\ UNCHANGED <<effect, notNull, advisoryLock>>
            /\ ledger' = [ledger EXCEPT ![next] = ship[next]]
        BY <2>5, <2>b, <2>d, <2>e, <3>2, <3>5 DEF G!LookUp
      <4>2. /\ IsServer(st) /\ st.at = "look" /\ st.release = q.release /\ Files(st) = ship
            /\ st.file = next
        BY <3>2, <2>a DEF MigrationSteps
      <4>3. /\ ledger' \in [Ranks \cup {Legacy} -> Sums \cup {Null, "absent"}]
            /\ ledger'[next] = ship[next] /\ \A n \in (Ranks \cup {Legacy}) \ {next} : ledger'[n] = ledger[n]
        BY <2>n, <3>2, <4>1
      <4>4. Exact(ledger', effect')
        BY <2>0, <3>2, <3>5, <4>1, <4>3 DEF Exact, Done
      <4>5. Knows(ledger', st)
        BY <2>0, <2>c, <3>1, <3>2, <4>2, <4>3 DEF Knows, ship
      <4>6. notNull' => Complete(ledger')
        BY <2>0, <3>2, <4>1, <4>3 DEF Complete
      <4>7. \A f \in Ranks : ledger[f] \in Sums => ledger'[f] = ledger[f]
        BY <3>5, <4>3
      <4> HIDE DEF st
      <4>8. ledger' \in G!Ledger /\ effect' \in [Ranks -> Nat] /\ advisoryLock = s /\ advisoryLock' = s
        BY <2>0, <3>1, <4>1, <4>3
      <4> QED
        BY <4>1, <4>2, <4>4, <4>5, <4>6, <4>7, <4>8, ServerKept
    <3> QED
      BY <3>3, <3>4, <3>5
  <2>6. CASE G!Apply(s)
    <3>1. q.at = "apply" /\ Rest(q) # {} /\ q.release \in DOMAIN Releases
          /\ ledger[next] = "absent" /\ ledger[Legacy] = "absent"
      BY <2>0, <2>6, <2>c DEF G!Apply, G!At, q, Knows, next
    <3>2. /\ next \in DOMAIN ship /\ next \in Ranks /\ next \in Nat /\ ship[next] \in Sums
          /\ \A g \in DOMAIN ship : g <= next => g <= q.file \/ g = next
      BY <2>0, <3>1, NextRank DEF next, ship
    <3>3. CASE G!Fails(s)
      BY <2>fails, <3>1, <3>3
    <3>4. CASE ~G!Fails(s)
      <4> DEFINE st == to("look", next)
      <4>1. /\ server' = [server EXCEPT ![s] = st] /\ UNCHANGED <<notNull, advisoryLock>>
            /\ ledger' = [ledger EXCEPT ![next] = ship[next]]
            /\ effect' = [effect EXCEPT ![next] = @ + 1]
        BY <2>6, <2>b, <2>d, <3>2, <3>4 DEF G!Apply
      <4>2. /\ IsServer(st) /\ st.at = "look" /\ st.release = q.release /\ Files(st) = ship
            /\ st.file = next
        BY <3>2, <2>a DEF MigrationSteps
      <4>3. /\ ledger' \in [Ranks \cup {Legacy} -> Sums \cup {Null, "absent"}]
            /\ ledger'[next] = ship[next] /\ \A n \in (Ranks \cup {Legacy}) \ {next} : ledger'[n] = ledger[n]
        BY <2>n, <3>2, <4>1
      <4>4. effect[next] = 0
        BY <2>0, <3>1, <3>2 DEF Exact, Done
      <4>5. Exact(ledger', effect') /\ effect' \in [Ranks -> Nat]
        BY <2>0, <3>1, <3>2, <4>1, <4>3, <4>4 DEF Exact, Done
      <4>6. Knows(ledger', st)
        BY <2>0, <2>c, <3>1, <3>2, <4>2, <4>3 DEF Knows, ship
      <4>7. notNull' => Complete(ledger')
        BY <2>0, <3>2, <4>1, <4>3 DEF Complete
      <4>8. \A f \in Ranks : ledger[f] \in Sums => ledger'[f] = ledger[f]
        BY <3>1, <4>3
      <4> HIDE DEF st
      <4>9. ledger' \in G!Ledger /\ advisoryLock = s /\ advisoryLock' = s
        BY <2>0, <3>1, <4>1, <4>3
      <4> QED
        BY <4>1, <4>2, <4>5, <4>6, <4>7, <4>8, <4>9, ServerKept
    <3> QED
      BY <3>3, <3>4
  <2>7. CASE G!Finish(s)
    <3>1. q.at = "look" /\ Rest(q) = {} /\ q.release \in DOMAIN Releases
      BY <2>7, <2>c, <2>d DEF G!Finish, G!At, q
    <3>2. CASE G!Fails(s)
      BY <2>fails, <3>1, <3>2
    <3>3. CASE ~G!Fails(s)
      <4> DEFINE st == to("serving", 0)
      <4>1. /\ server' = [server EXCEPT ![s] = st] /\ UNCHANGED <<ledger, effect>>
            /\ \A n \in Ranks \cup {Legacy} : ledger[n] # "absent" => ledger[n] # Null
        BY <2>7, <2>b, <2>e, <3>3 DEF G!Finish, G!Names
      <4>2. IsServer(st) /\ st.at = "serving" /\ st.release = q.release /\ Files(st) = ship
        BY <2>a DEF MigrationSteps
      <4>3. \A f \in DOMAIN ship : f \in Nat /\ ~(f > q.file) /\ q.file \in Nat
        BY <2>0, <2>c, <3>1 DEF Rest, ship, IsServer
      <4>4. \A f \in DOMAIN ship : ledger[f] = ship[f]
        BY <2>0, <3>1, <4>3 DEF Knows, ship
      <4>5. Knows(ledger, st)
        BY <3>1, <4>2, <4>4 DEF Knows
      <4>6. Complete(ledger)
        BY <4>1 DEF Complete
      <4> HIDE DEF st
      <4> QED
        BY <2>0, <3>1, <4>1, <4>2, <4>5, <4>6, ServerKept
    <3> QED
      BY <3>2, <3>3
  <2> QED
    BY <1>2, <2>1, <2>2, <2>3, <2>4, <2>5, <2>6, <2>7, Zenon DEF G!Migrates
<1> QED
  BY <1>1, <1>2, Zenon DEF G!Next

\* The ledger tells exactly which migrations took effect, once each, for any
\* releases, crashes and races of servers.
THEOREM LedgerExact == G!Spec => []LedgerIsExact
<1>1. MigrationsInv => LedgerIsExact
  BY DEF MigrationsInv, Exact, Done, LedgerIsExact, G!LedgerIsExact, G!KnownAsDone, G!Recorded,
         G!Absent
<1> QED
  BY <1>1, MigrationsInitially, MigrationsKept, PTL DEF G!Spec

\* The ledger that lets a server in is exact, and names what it ships and no other.
LEMMA EntersOnItsFiles ==
  ASSUME MigrationsInv, [G!Next]_(G!vars), NEW s \in Servers,
         ~G!At(s, "serving"), G!At(s, "serving")'
  PROVE  \A f \in Ranks : effect[f] = IF f \in DOMAIN G!Shipped(s) THEN 1 ELSE 0
<1> USE MigrationsConstants
<1> DEFINE st == server[s]
<1>1. IsServer(st) /\ Knows(ledger, st) /\ Exact(ledger, effect) /\ DOMAIN server = Servers
  BY DEF MigrationsInv
<1>2. st.at # "serving" /\ server'[s].at = "serving"
  BY DEF G!At
<1>3. ASSUME NEW q \in Servers, NEW new, server' = [server EXCEPT ![q] = new],
             new.at # "serving"
      PROVE  FALSE
  BY <1>1, <1>2, <1>3
<1>4. ASSUME NEW q \in Servers, NEW x, NEW f, G!Goes(q, x, f), x # "serving"
      PROVE  FALSE
  <2> DEFINE new == [server[q] EXCEPT !.at = x, !.file = f]
  <2>1. server' = [server EXCEPT ![q] = new]
    BY <1>4 DEF G!Goes
  <2>2. new.at = x
    BY DEF MigrationsInv, IsServer
  <2> HIDE DEF new
  <2> QED
    BY <1>3, <1>4, <2>1, <2>2
<1>5. ASSUME NEW q \in Servers PROVE ~G!Fails(q)
  BY <1>4 DEF G!Fails
<1>6. G!Finish(s) /\ ~G!Fails(s)
  <2>1. G!vars' # G!vars
    BY <1>2, Zenon DEF G!vars
  <2>2. PICK q \in Servers : \/ \E r \in DOMAIN Releases : G!Start(q, r)
                            \/ G!Dies(q) \/ G!Migrates(q)
    BY <2>1, Zenon DEF G!Next
  <2>3. ASSUME NEW r \in DOMAIN Releases, G!Start(q, r) PROVE FALSE
    <3> DEFINE new == [release |-> r, at |-> "waiting", file |-> 0]
    <3>1. server' = [server EXCEPT ![q] = new] /\ new.at = "waiting"
      BY <2>3 DEF G!Start
    <3> HIDE DEF new
    <3> QED
      BY <1>3, <3>1
  <2>4. ASSUME G!Dies(q) PROVE FALSE
    <3>1. server' = [server EXCEPT ![q] = G!Down] /\ G!Down.at = "down"
      BY <2>4 DEF G!Dies, G!Down
    <3> QED
      BY <1>3, <3>1
  <2>5. ~G!AcquireLock(q) /\ ~G!NormalizeAlias(q) /\ ~G!LookUp(q) /\ ~G!Apply(q)
    BY <1>4, <1>5 DEF G!AcquireLock, G!NormalizeAlias, G!LookUp, G!Apply
  <2>6. G!Finish(q)
    BY <2>2, <2>3, <2>4, <2>5, Zenon DEF G!Migrates
  <2>7. q = s
    <3>1. server' = [server EXCEPT ![q] = [server[q] EXCEPT !.at = "serving", !.file = 0]]
      BY <1>5, <2>6 DEF G!Finish, G!Goes
    <3> QED
      BY <1>1, <1>2, <3>1
  <2> QED
    BY <1>5, <2>6, <2>7
<1>7. /\ st.at = "look" /\ G!Remaining(s) = {}
      /\ \A n \in Ranks \cup {Legacy} : ledger[n] # "absent" => n \in DOMAIN G!Shipped(s)
  BY <1>6 DEF G!Finish, G!At, G!Names, G!Recorded, G!Absent
<1>8. DOMAIN G!Shipped(s) \subseteq Ranks /\ G!Shipped(s) = Files(st)
  BY <1>1, <1>7 DEF Knows, G!Shipped, Files
<1>9. ASSUME NEW f \in DOMAIN Files(st) PROVE ledger[f] = Files(st)[f] /\ Files(st)[f] \in Sums
  <2>1. f \in Nat /\ st.file \in Nat /\ f \notin G!Remaining(s)
    BY <1>1, <1>7, <1>8, <1>9 DEF IsServer
  <2>2. f <= st.file
    BY <1>8, <1>9, <2>1 DEF G!Remaining
  <2>3. Files(st)[f] \in Sums
    BY <1>1, <1>7, <1>9 DEF Knows, Files
  <2> HIDE DEF st
  <2> QED
    BY <1>1, <1>7, <1>9, <2>2, <2>3 DEF Knows
<1>10. ASSUME NEW f \in Ranks
       PROVE  Done(ledger, f) <=> f \in DOMAIN G!Shipped(s)
  <2>1. ledger[Legacy] = "absent"
    BY <1>7, <1>8
  <2>2. ledger[f] # "absent" <=> f \in DOMAIN G!Shipped(s)
    BY <1>7, <1>8, <1>9
  <2> QED
    BY <2>1, <2>2 DEF Done
<1> QED
  BY <1>1, <1>10 DEF Exact

\* A server enters service on the migrations it ships and on no other, and serves
\* on their contents.
THEOREM SchemaServed == G!Spec => ServesItsSchema
<1>1. MigrationsInv /\ [G!Next]_(G!vars) =>
        [\A s \in Servers : ~G!At(s, "serving") /\ G!At(s, "serving")' =>
           \A f \in Ranks : effect[f] = IF f \in DOMAIN G!Shipped(s) THEN 1 ELSE 0]_(G!vars)
  BY EntersOnItsFiles
<1>2. MigrationsInv => \A s \in Servers : G!At(s, "serving") =>
                         \A f \in DOMAIN G!Shipped(s) : ledger[f] = G!Shipped(s)[f]
  BY DEF MigrationsInv, Knows, Files, G!At, G!Shipped
<1>3. MigrationsInv => (notNull => \A n \in G!Names : ledger[n] # Null)
  BY DEF MigrationsInv, Complete, G!Names
<1> QED
  BY <1>1, <1>2, <1>3, MigrationsInitially, MigrationsKept, PTL
  DEF G!Spec, ServesItsSchema, G!ServesItsSchema

-----------------------------------------------------------------------------
(* Backup and restore.                                                      *)

RestoreSteps ==
  {"idle", "verified", "refused", "done", "failed", "stranded"} \cup B!UnderTrap

BackupSteps == {"none", "temporary", "published", "sealed", "done"}

IsRestore(st) ==
  /\ DOMAIN st = {"at", "file", "restart", "started", "completed"}
  /\ st.at \in RestoreSteps /\ st.started \in BOOLEAN /\ st.completed \in BOOLEAN

\* Where a restore is tells where the database is: under its name, with its last
\* contents, except between the two renames of the one restore under way.
BackupsInv ==
  /\ live \in B!Contents \cup {Null} /\ last \in B!Contents
  /\ live # Null => live = last
  /\ live = Null => \E r \in Restores : aside[r] = last
  /\ DOMAIN temp = Restores /\ DOMAIN aside = Restores
  /\ DOMAIN restore = Restores
  /\ \A r \in Restores :
       /\ IsRestore(restore[r])
       /\ restore[r].at \in B!UnderTrap => flock = r
       /\ restore[r].at \in {"idle", "verified", "create", "import", "validate", "swap"} =>
            aside[r] = Null /\ ~restore[r].completed
       /\ restore[r].at \in {"swap", "install"} => temp[r] \in B!Contents
       /\ restore[r].at = "install" =>
            restore[r].started /\ ~restore[r].completed /\ live = Null /\ aside[r] = last
       /\ restore[r].at \in {"installed", "drop", "restart"} => live # Null
  /\ DOMAIN file = BackupFiles
  /\ \A f \in BackupFiles :
       /\ DOMAIN file[f] = {"at", "content", "sealed", "age"}
       /\ file[f].at \in {"none", "temporary", "published"} => ~file[f].sealed
       /\ file[f].at = "sealed" => file[f].sealed
       /\ file[f].sealed \in BOOLEAN

LEMMA BackupsConstants ==
  /\ Null \notin Restores /\ Null \notin B!Contents /\ Null \notin BackupFiles
  /\ BackupFiles \cap Restores = {}
  /\ MaxVersion \in Nat
  BY PartsOK DEF B!ConstantsOK, B!Contents

LEMMA BackupsInitially == B!Init => BackupsInv
<1> SUFFICES ASSUME B!Init PROVE BackupsInv
  OBVIOUS
<1> USE BackupsConstants
<1>1. live = 0 /\ last = 0 /\ 0 \in B!Contents /\ live # Null
  BY DEF B!Init, B!Contents
<1>2. /\ DOMAIN restore = Restores
      /\ \A r \in Restores :
           IsRestore(restore[r]) /\ restore[r].at = "idle" /\ ~restore[r].completed
  BY DEF B!Init, B!Idle, IsRestore, RestoreSteps
<1>3. /\ DOMAIN temp = Restores /\ DOMAIN aside = Restores
      /\ \A r \in Restores : aside[r] = Null
  BY DEF B!Init
<1>4. /\ DOMAIN file = BackupFiles
      /\ \A f \in BackupFiles : /\ DOMAIN file[f] = {"at", "content", "sealed", "age"}
                                /\ file[f].sealed = FALSE /\ file[f].at # "sealed"
  <2>1. \A f \in BackupFiles :
          file[f] \in {B!NoFile, [B!NoFile EXCEPT !.at = "done", !.content = Foreign]}
    BY DEF B!Init
  <2>2. DOMAIN file = BackupFiles
    BY DEF B!Init
  <2>3. /\ DOMAIN B!NoFile = {"at", "content", "sealed", "age"}
        /\ B!NoFile.at = "none" /\ B!NoFile.sealed = FALSE
    BY DEF B!NoFile
  <2>4. LET done == [B!NoFile EXCEPT !.at = "done", !.content = Foreign]
        IN /\ DOMAIN done = {"at", "content", "sealed", "age"}
           /\ done.at = "done" /\ done.sealed = FALSE
    BY DEF B!NoFile
  <2> QED
    BY <2>1, <2>2, <2>3, <2>4
<1> QED
  BY <1>1, <1>2, <1>3, <1>4 DEF BackupsInv, B!UnderTrap

\* What the invariant says of a restore when it alone takes a step: it keeps the
\* lock or leaves the section of the trap, and nobody else is in it.
LEMMA OneRestore ==
  ASSUME BackupsInv, NEW r \in Restores, restore[r].at \in B!UnderTrap
  PROVE  \A q \in Restores \ {r} : restore[q].at \notin B!UnderTrap
  BY DEF BackupsInv

\* A step of backup.sh, or a day: no restore, no database is touched.
LEMMA FilesKept ==
  ASSUME BackupsInv, UNCHANGED <<live, last, temp, aside, restore>>,
         \A r \in Restores : restore[r].at \in B!UnderTrap => flock' = r,
         DOMAIN file' = BackupFiles,
         \A f \in BackupFiles :
           /\ DOMAIN file'[f] = {"at", "content", "sealed", "age"}
           /\ file'[f].at \in {"none", "temporary", "published"} => ~file'[f].sealed
           /\ file'[f].at = "sealed" => file'[f].sealed
           /\ file'[f].sealed \in BOOLEAN
  PROVE  BackupsInv'
  BY DEF BackupsInv, B!UnderTrap

LEMMA BackupKept ==
  ASSUME BackupsInv,
         \/ B!Day
         \/ \E f \in BackupFiles : B!Dump(f) \/ B!Publish(f) \/ B!Seal(f) \/ B!Retain(f)
                                   \/ B!StopBackup(f)
  PROVE  BackupsInv'
<1> USE BackupsConstants
<1>0. /\ \A r \in Restores : restore[r].at \in B!UnderTrap => flock = r
      /\ DOMAIN file = BackupFiles
      /\ \A f \in BackupFiles :
           /\ DOMAIN file[f] = {"at", "content", "sealed", "age"}
           /\ file[f].at \in {"none", "temporary", "published"} => ~file[f].sealed
           /\ file[f].at = "sealed" => file[f].sealed
           /\ file[f].sealed \in BOOLEAN
  BY Zenon DEF BackupsInv
<1>none. /\ DOMAIN B!NoFile = {"at", "content", "sealed", "age"}
      /\ B!NoFile.at = "none" /\ B!NoFile.sealed = FALSE
  BY DEF B!NoFile
<1>1. CASE B!Day
  <2>1. /\ UNCHANGED <<live, last, temp, aside, restore, flock>>
        /\ file' = [f \in BackupFiles |->
                      IF file[f].at = "none" \/ file[f].age > KeepDays THEN file[f]
                      ELSE [file[f] EXCEPT !.age = @ + 1]]
    BY <1>1 DEF B!Day
  <2>2. \A f \in BackupFiles :
          /\ DOMAIN file'[f] = DOMAIN file[f]
          /\ file'[f].at = file[f].at /\ file'[f].sealed = file[f].sealed
    BY <1>0, <2>1
  <2>3. DOMAIN file' = BackupFiles
    BY <2>1
  <2> QED
    BY <1>0, <2>1, <2>2, <2>3, FilesKept
<1>2. ASSUME NEW f \in BackupFiles, B!Dump(f) PROVE BackupsInv'
  <2>1. /\ UNCHANGED <<live, last, temp, aside, restore>> /\ flock = Null
        /\ file' = [file EXCEPT ![f] = [B!NoFile EXCEPT !.at = "temporary", !.content = live]]
    BY <1>2 DEF B!Dump
  <2>2. \A r \in Restores : restore[r].at \notin B!UnderTrap
    BY <1>0, <2>1
  <2>3. DOMAIN file' = BackupFiles
    BY <1>0, <2>1
  <2>4. \A g \in BackupFiles :
          /\ g # f => file'[g] = file[g]
          /\ g = f => /\ DOMAIN file'[g] = {"at", "content", "sealed", "age"}
                      /\ file'[g].at = "temporary" /\ file'[g].sealed = FALSE
    BY <1>0, <2>1 DEF B!NoFile
  <2>5. \A g \in BackupFiles :
           /\ DOMAIN file'[g] = {"at", "content", "sealed", "age"}
           /\ file'[g].at \in {"none", "temporary", "published"} => ~file'[g].sealed
           /\ file'[g].at = "sealed" => file'[g].sealed
           /\ file'[g].sealed \in BOOLEAN
    BY <1>0, <2>4
  <2> QED
    BY <2>1, <2>2, <2>3, <2>5, FilesKept
<1>3. ASSUME NEW f \in BackupFiles, B!Publish(f) PROVE BackupsInv'
  <2>1. /\ UNCHANGED <<live, last, temp, aside, restore, flock>> /\ file[f].at = "temporary"
        /\ file' = [file EXCEPT ![f].at = "published"]
    BY <1>3 DEF B!Publish, B!Step
  <2>2. /\ DOMAIN file' = BackupFiles
        /\ \A g \in BackupFiles :
             /\ g # f => file'[g] = file[g]
             /\ g = f => /\ DOMAIN file'[g] = {"at", "content", "sealed", "age"}
                         /\ file'[g].at = "published" /\ file'[g].sealed = file[g].sealed
    BY <1>0, <2>1
  <2>3. \A g \in BackupFiles :
           /\ DOMAIN file'[g] = {"at", "content", "sealed", "age"}
           /\ file'[g].at \in {"none", "temporary", "published"} => ~file'[g].sealed
           /\ file'[g].at = "sealed" => file'[g].sealed
           /\ file'[g].sealed \in BOOLEAN
    BY <1>0, <2>1, <2>2
  <2> QED
    BY <1>0, <2>1, <2>2, <2>3, FilesKept
<1>4. ASSUME NEW f \in BackupFiles, B!Seal(f) PROVE BackupsInv'
  <2>1. /\ UNCHANGED <<live, last, temp, aside, restore, flock>>
        /\ file' = [file EXCEPT ![f].at = "sealed", ![f].sealed = TRUE]
    BY <1>4 DEF B!Seal
  <2>2. /\ DOMAIN file' = BackupFiles
        /\ \A g \in BackupFiles :
             /\ g # f => file'[g] = file[g]
             /\ g = f => /\ DOMAIN file'[g] = {"at", "content", "sealed", "age"}
                         /\ file'[g].at = "sealed" /\ file'[g].sealed = TRUE
    BY <1>0, <2>1
  <2>3. \A g \in BackupFiles :
           /\ DOMAIN file'[g] = {"at", "content", "sealed", "age"}
           /\ file'[g].at \in {"none", "temporary", "published"} => ~file'[g].sealed
           /\ file'[g].at = "sealed" => file'[g].sealed
           /\ file'[g].sealed \in BOOLEAN
    BY <1>0, <2>2
  <2> QED
    BY <1>0, <2>1, <2>2, <2>3, FilesKept
<1>5. ASSUME NEW f \in BackupFiles, B!Retain(f) PROVE BackupsInv'
  <2>1. /\ UNCHANGED <<live, last, temp, aside, restore>> /\ flock = f
        /\ file' = [g \in BackupFiles |->
                      IF g = f THEN [file[g] EXCEPT !.at = "done"]
                      ELSE IF file[g].age > KeepDays THEN B!NoFile ELSE file[g]]
    BY <1>5 DEF B!Retain
  <2>2. \A r \in Restores : restore[r].at \notin B!UnderTrap
    BY <1>0, <2>1
  <2>3. /\ DOMAIN file' = BackupFiles
        /\ \A g \in BackupFiles :
             /\ g # f => file'[g] \in {B!NoFile, file[g]}
             /\ g = f => /\ DOMAIN file'[g] = {"at", "content", "sealed", "age"}
                         /\ file'[g].at = "done" /\ file'[g].sealed = file[g].sealed
    BY <1>0, <2>1
  <2>4. \A g \in BackupFiles :
           /\ DOMAIN file'[g] = {"at", "content", "sealed", "age"}
           /\ file'[g].at \in {"none", "temporary", "published"} => ~file'[g].sealed
           /\ file'[g].at = "sealed" => file'[g].sealed
           /\ file'[g].sealed \in BOOLEAN
    BY <1>0, <1>none, <2>3
  <2> QED
    BY <2>1, <2>2, <2>3, <2>4, FilesKept
<1>6. ASSUME NEW f \in BackupFiles, B!StopBackup(f) PROVE BackupsInv'
  <2>1. /\ UNCHANGED <<live, last, temp, aside, restore>> /\ flock = f
        /\ file' = [file EXCEPT ![f] = IF @.at = "temporary" THEN B!NoFile
                                       ELSE [@ EXCEPT !.at = "done"]]
    BY <1>6 DEF B!StopBackup
  <2>2. \A r \in Restores : restore[r].at \notin B!UnderTrap
    BY <1>0, <2>1
  <2>3. /\ DOMAIN file' = BackupFiles
        /\ \A g \in BackupFiles :
             /\ g # f => file'[g] = file[g]
             /\ g = f => \/ file'[g] = B!NoFile
                         \/ /\ DOMAIN file'[g] = {"at", "content", "sealed", "age"}
                            /\ file'[g].at = "done" /\ file'[g].sealed = file[g].sealed
    BY <1>0, <2>1
  <2>4. \A g \in BackupFiles :
           /\ DOMAIN file'[g] = {"at", "content", "sealed", "age"}
           /\ file'[g].at \in {"none", "temporary", "published"} => ~file'[g].sealed
           /\ file'[g].at = "sealed" => file'[g].sealed
           /\ file'[g].sealed \in BOOLEAN
    BY <1>0, <1>none, <2>3
  <2> QED
    BY <2>1, <2>2, <2>3, <2>4, FilesKept
<1> QED
  BY <1>1, <1>2, <1>3, <1>4, <1>5, <1>6, Zenon

\* A step of restore r to st: the others are outside the section of the trap, or
\* see nothing of it.
LEMMA RestoreKept ==
  ASSUME BackupsInv, NEW r \in Restores, NEW st, IsRestore(st),
         restore' = [restore EXCEPT ![r] = st], UNCHANGED file,
         live' \in B!Contents \cup {Null}, last' \in B!Contents,
         live' # Null => live' = last',
         live' = Null => \E q \in Restores : aside'[q] = last',
         DOMAIN temp' = Restores, DOMAIN aside' = Restores,
         \A q \in Restores \ {r} : temp'[q] = temp[q] /\ aside'[q] = aside[q],
         \/ \A q \in Restores \ {r} : restore[q].at \notin B!UnderTrap
         \/ UNCHANGED <<live, last, flock>>,
         st.at \in B!UnderTrap => flock' = r,
         st.at \in {"idle", "verified", "create", "import", "validate", "swap"} =>
           aside'[r] = Null /\ ~st.completed,
         st.at \in {"swap", "install"} => temp'[r] \in B!Contents,
         st.at = "install" =>
           st.started /\ ~st.completed /\ live' = Null /\ aside'[r] = last',
         st.at \in {"installed", "drop", "restart"} => live' # Null
  PROVE  BackupsInv'
<1>1. /\ DOMAIN restore' = Restores /\ restore'[r] = st
      /\ \A q \in Restores \ {r} : restore'[q] = restore[q]
  BY DEF BackupsInv
<1>2. \A q \in Restores \ {r} :
        /\ IsRestore(restore[q])
        /\ restore[q].at \in B!UnderTrap => flock' = q
        /\ restore[q].at \in {"idle", "verified", "create", "import", "validate", "swap"} =>
             aside'[q] = Null /\ ~restore[q].completed
        /\ restore[q].at \in {"swap", "install"} => temp'[q] \in B!Contents
        /\ restore[q].at = "install" =>
             restore[q].started /\ ~restore[q].completed /\ live' = Null /\ aside'[q] = last'
        /\ restore[q].at \in {"installed", "drop", "restart"} => live' # Null
  <2>1. CASE \A q \in Restores \ {r} : restore[q].at \notin B!UnderTrap
    BY <2>1 DEF BackupsInv, B!UnderTrap
  <2>2. CASE UNCHANGED <<live, last, flock>>
    BY <2>2 DEF BackupsInv
  <2> QED
    BY <2>1, <2>2
<1>3. \A q \in Restores :
        /\ IsRestore(restore'[q])
        /\ restore'[q].at \in B!UnderTrap => flock' = q
        /\ restore'[q].at \in {"idle", "verified", "create", "import", "validate", "swap"} =>
             aside'[q] = Null /\ ~restore'[q].completed
        /\ restore'[q].at \in {"swap", "install"} => temp'[q] \in B!Contents
        /\ restore'[q].at = "install" =>
             restore'[q].started /\ ~restore'[q].completed /\ live' = Null /\ aside'[q] = last'
        /\ restore'[q].at \in {"installed", "drop", "restart"} => live' # Null
  BY <1>1, <1>2
<1> QED
  BY <1>1, <1>3 DEF BackupsInv

LEMMA RestoreStepKept ==
  ASSUME BackupsInv, NEW r \in Restores, B!RestoreStep(r)
  PROVE  BackupsInv'
<1> DEFINE q == restore[r]
<1> USE BackupsConstants
<1>0. /\ live \in B!Contents \cup {Null} /\ last \in B!Contents
      /\ live # Null => live = last
      /\ live = Null => \E p \in Restores : aside[p] = last
      /\ DOMAIN temp = Restores /\ DOMAIN aside = Restores
      /\ IsRestore(q)
      /\ q.at \in B!UnderTrap => flock = r
      /\ q.at \in {"idle", "verified", "create", "import", "validate", "swap"} =>
            aside[r] = Null /\ ~q.completed
      /\ q.at \in {"swap", "install"} => temp[r] \in B!Contents
      /\ q.at = "install" =>
            q.started /\ ~q.completed /\ live = Null /\ aside[r] = last
      /\ q.at \in {"installed", "drop", "restart"} => live # Null
  BY DEF BackupsInv
<1>a. q.at \in B!UnderTrap => \A p \in Restores \ {r} : restore[p].at \notin B!UnderTrap
  BY OneRestore
<1>b. \A x \in RestoreSteps : IsRestore([q EXCEPT !.at = x])
  BY <1>0 DEF IsRestore
<1>c. ASSUME NEW x, B!Goes(r, x)
      PROVE  restore' = [restore EXCEPT ![r] = [q EXCEPT !.at = x]]
  BY <1>c DEF B!Goes
<1> HIDE DEF q
<1>d. \A x : [q EXCEPT !.at = x].at = x /\ [q EXCEPT !.at = x].started = q.started
             /\ [q EXCEPT !.at = x].completed = q.completed
  BY <1>0 DEF IsRestore
<1>1. ASSUME NEW f \in BackupFiles, NEW insists \in BOOLEAN, B!Verify(r, f, insists)
      PROVE  BackupsInv'
  <2> DEFINE st == [q EXCEPT !.file = f,
                             !.at = IF file[f].sealed \/ insists THEN "verified" ELSE "refused"]
  <2>1. /\ q.at = "idle" /\ restore' = [restore EXCEPT ![r] = st]
        /\ UNCHANGED <<live, last, temp, aside, file, flock, backend>>
    BY <1>1 DEF B!Verify, B!At, q
  <2>2. IsRestore(st) /\ st.at \in {"verified", "refused"} /\ st.completed = q.completed
    BY <1>0 DEF IsRestore, RestoreSteps
  <2> HIDE DEF st
  <2> QED
    BY <1>0, <1>a, <2>1, <2>2, RestoreKept DEF B!UnderTrap
<1>2. ASSUME B!TakeLock(r) PROVE BackupsInv'
  <2>1. q.at = "verified" /\ UNCHANGED <<live, last, temp, aside, file, backend>>
    BY <1>2 DEF B!TakeLock, B!At, q
  <2>2. CASE flock = Null /\ flock' = r /\ B!Goes(r, "create")
    <3> DEFINE st == [q EXCEPT !.at = "create"]
    <3>1. restore' = [restore EXCEPT ![r] = st]
      BY <2>2, <1>c
    <3>2. IsRestore(st) /\ st.at = "create" /\ st.completed = q.completed
      BY <1>b, <1>d DEF RestoreSteps, B!UnderTrap
    <3>3. \A p \in Restores \ {r} : restore[p].at \notin B!UnderTrap
      BY <2>2 DEF BackupsInv
    <3> HIDE DEF st
    <3> QED
      BY <1>0, <2>1, <2>2, <3>1, <3>2, <3>3, RestoreKept
  <2>3. CASE flock' = flock /\ B!Goes(r, "refused")
    <3> DEFINE st == [q EXCEPT !.at = "refused"]
    <3>1. restore' = [restore EXCEPT ![r] = st]
      BY <2>3, <1>c
    <3>2. IsRestore(st) /\ st.at = "refused" /\ st.completed = q.completed
      BY <1>b, <1>d DEF RestoreSteps, B!UnderTrap
    <3> HIDE DEF st
    <3> QED
      BY <1>0, <2>1, <2>3, <3>1, <3>2, RestoreKept DEF B!UnderTrap
  <2> QED
    BY <1>2, <2>2, <2>3 DEF B!TakeLock
<1>3. ASSUME B!CreateTemp(r) PROVE BackupsInv'
  <2> DEFINE st == [q EXCEPT !.at = "import"]
  <2>1. /\ q.at = "create" /\ UNCHANGED <<live, last, aside, file, flock, backend>>
        /\ restore' = [restore EXCEPT ![r] = st] /\ temp' = [temp EXCEPT ![r] = Empty]
    BY <1>3, <1>c DEF B!CreateTemp, B!At, q
  <2>2. IsRestore(st) /\ st.at = "import" /\ st.completed = q.completed
    BY <1>b, <1>d DEF RestoreSteps, B!UnderTrap
  <2> HIDE DEF st
  <2> QED
    BY <1>0, <1>a, <2>1, <2>2, RestoreKept DEF B!UnderTrap
<1>4. ASSUME B!Import(r) PROVE BackupsInv'
  <2> DEFINE st == [q EXCEPT !.at = "validate"]
             v == file[q.file].content
  <2>1. /\ q.at = "import" /\ UNCHANGED <<live, last, aside, file, flock, backend>>
        /\ restore' = [restore EXCEPT ![r] = st] /\ temp' = [temp EXCEPT ![r] = v]
    BY <1>4, <1>c DEF B!Import, B!At, q
  <2>2. IsRestore(st) /\ st.at = "validate" /\ st.completed = q.completed
    BY <1>b, <1>d DEF RestoreSteps, B!UnderTrap
  <2> HIDE DEF st, v
  <2> QED
    BY <1>0, <1>a, <2>1, <2>2, RestoreKept DEF B!UnderTrap
<1>5. ASSUME B!ValidateAndStop(r) PROVE BackupsInv'
  <2> DEFINE st == [q EXCEPT !.at = "swap", !.restart = backend]
  <2>1. /\ q.at = "validate" /\ temp[r] \in B!Contents
        /\ UNCHANGED <<live, last, temp, aside, file, flock>>
        /\ restore' = [restore EXCEPT ![r] = st]
    BY <1>5 DEF B!ValidateAndStop, B!At, q
  <2>2. IsRestore(st) /\ st.at = "swap" /\ st.completed = q.completed
    BY <1>0 DEF IsRestore, RestoreSteps, B!UnderTrap
  <2> HIDE DEF st
  <2> QED
    BY <1>0, <1>a, <2>1, <2>2, RestoreKept DEF B!UnderTrap
<1>6. ASSUME B!StartSwap(r) PROVE BackupsInv'
  <2> DEFINE st == [q EXCEPT !.started = TRUE]
  <2>1. /\ q.at = "swap" /\ UNCHANGED <<live, last, temp, aside, file, flock>>
        /\ restore' = [restore EXCEPT ![r] = st]
    BY <1>6 DEF B!StartSwap, B!At, q
  <2>2. IsRestore(st) /\ st.at = "swap" /\ st.completed = q.completed
    BY <1>0, <2>1 DEF IsRestore
  <2> HIDE DEF st
  <2> QED
    BY <1>0, <1>a, <2>1, <2>2, RestoreKept DEF B!UnderTrap
<1>7. ASSUME B!SetAside(r) PROVE BackupsInv'
  <2> DEFINE st == [q EXCEPT !.at = "install"]
  <2>1. /\ q.at = "swap" /\ q.started /\ live # Null
        /\ UNCHANGED <<last, temp, file, flock>>
        /\ restore' = [restore EXCEPT ![r] = st]
        /\ aside' = [aside EXCEPT ![r] = live] /\ live' = Null
    BY <1>7, <1>c DEF B!SetAside, B!At, q
  <2>2. IsRestore(st) /\ st.at = "install" /\ st.started = q.started
        /\ st.completed = q.completed
    BY <1>b, <1>d DEF RestoreSteps, B!UnderTrap
  <2>3. ~q.completed
    BY <1>0, <2>1
  <2> HIDE DEF st
  <2> QED
    BY <1>0, <1>a, <2>1, <2>2, <2>3, RestoreKept DEF B!UnderTrap
<1>8. ASSUME B!Install(r) PROVE BackupsInv'
  <2> DEFINE st == [q EXCEPT !.at = "installed"]
  <2>1. /\ q.at = "install" /\ UNCHANGED <<aside, file, flock>>
        /\ restore' = [restore EXCEPT ![r] = st]
        /\ live' = temp[r] /\ last' = temp[r] /\ temp' = [temp EXCEPT ![r] = Null]
    BY <1>8, <1>c DEF B!Install, B!At, q
  <2>2. IsRestore(st) /\ st.at = "installed" /\ st.completed = q.completed
    BY <1>b, <1>d DEF RestoreSteps, B!UnderTrap
  <2> HIDE DEF st
  <2> QED
    BY <1>0, <1>a, <2>1, <2>2, RestoreKept DEF B!UnderTrap
<1>9. ASSUME B!CompleteSwap(r) PROVE BackupsInv'
  <2> DEFINE st == [q EXCEPT !.at = "drop", !.completed = TRUE]
  <2>1. /\ q.at = "installed" /\ UNCHANGED <<live, last, temp, aside, file, flock>>
        /\ restore' = [restore EXCEPT ![r] = st]
    BY <1>9 DEF B!CompleteSwap, B!At, q
  <2>2. IsRestore(st) /\ st.at = "drop"
    BY <1>0 DEF IsRestore, RestoreSteps, B!UnderTrap
  <2> HIDE DEF st
  <2> QED
    BY <1>0, <1>a, <2>1, <2>2, RestoreKept DEF B!UnderTrap
<1>10. ASSUME B!DropAside(r) PROVE BackupsInv'
  <2> DEFINE st == [q EXCEPT !.at = "restart"]
  <2>1. /\ q.at = "drop" /\ UNCHANGED <<live, last, temp, file, flock>>
        /\ restore' = [restore EXCEPT ![r] = st] /\ aside' = [aside EXCEPT ![r] = Null]
    BY <1>10, <1>c DEF B!DropAside, B!At, q
  <2>2. IsRestore(st) /\ st.at = "restart" /\ st.completed = q.completed
    BY <1>b, <1>d DEF RestoreSteps, B!UnderTrap
  <2> HIDE DEF st
  <2> QED
    BY <1>0, <1>a, <2>1, <2>2, RestoreKept DEF B!UnderTrap
<1>11. ASSUME B!Finish(r) PROVE BackupsInv'
  <2> DEFINE st == [q EXCEPT !.at = "done"]
  <2>1. /\ q.at = "restart" /\ UNCHANGED <<live, last, temp, aside, file>>
        /\ restore' = [restore EXCEPT ![r] = st]
    BY <1>11, <1>c DEF B!Finish, B!Ends, B!At, q
  <2>2. IsRestore(st) /\ st.at = "done" /\ st.completed = q.completed
    BY <1>b, <1>d DEF RestoreSteps, B!UnderTrap
  <2> HIDE DEF st
  <2> QED
    BY <1>0, <1>a, <2>1, <2>2, RestoreKept DEF B!UnderTrap
<1>12. ASSUME B!Kill(r) PROVE BackupsInv'
  <2> DEFINE st == [q EXCEPT !.at = "stranded"]
  <2>1. /\ q.at \in B!UnderTrap /\ UNCHANGED <<live, last, temp, aside, file>>
        /\ restore' = [restore EXCEPT ![r] = st]
    BY <1>12, <1>c DEF B!Kill, B!Ends, q
  <2>2. IsRestore(st) /\ st.at = "stranded" /\ st.completed = q.completed
    BY <1>b, <1>d DEF RestoreSteps, B!UnderTrap
  <2>3. \A p \in Restores \ {r} : restore[p].at \notin B!UnderTrap
    BY <1>a, <2>1
  <2> HIDE DEF st
  <2> QED
    BY <1>0, <2>1, <2>2, <2>3, RestoreKept DEF B!UnderTrap
<1>13. ASSUME NEW postgres \in BOOLEAN, NEW docker \in BOOLEAN, B!Cleanup(r, postgres, docker)
       PROVE  BackupsInv'
  <2> DEFINE x == IF postgres THEN "failed" ELSE "stranded"
             st == [q EXCEPT !.at = x]
  <2>1. /\ q.at \in B!UnderTrap /\ UNCHANGED <<last, file>>
        /\ restore' = [restore EXCEPT ![r] = st]
        /\ temp' = IF postgres THEN [temp EXCEPT ![r] = Null] ELSE temp
    BY <1>13, <1>c DEF B!Cleanup, B!Ends, q
  <2>2. IsRestore(st) /\ st.at \in {"failed", "stranded"} /\ st.completed = q.completed
    BY <1>b, <1>d DEF RestoreSteps, B!UnderTrap
  <2>3. \A p \in Restores \ {r} : restore[p].at \notin B!UnderTrap
    BY <1>a, <2>1
  <2>4. \/ live' = live /\ aside' = aside
        \/ /\ live = Null /\ aside[r] # Null
           /\ live' = aside[r] /\ aside' = [aside EXCEPT ![r] = Null]
    BY <1>13 DEF B!Cleanup
  <2>5. live = Null /\ aside[r] # Null => aside[r] = last
    BY <1>0, <2>1 DEF B!UnderTrap
  <2>6. /\ DOMAIN temp' = Restores /\ DOMAIN aside' = Restores
        /\ \A p \in Restores \ {r} : temp'[p] = temp[p] /\ aside'[p] = aside[p]
    BY <1>0, <2>1, <2>4
  <2>7. /\ live' \in B!Contents \cup {Null}
        /\ live' # Null => live' = last'
        /\ live' = Null => \E p \in Restores : aside'[p] = last'
    BY <1>0, <2>1, <2>4, <2>5
  <2> HIDE DEF st
  <2> QED
    BY <1>0, <2>1, <2>2, <2>3, <2>6, <2>7, RestoreKept DEF B!UnderTrap
<1> QED
  BY <1>1, <1>2, <1>3, <1>4, <1>5, <1>6, <1>7, <1>8, <1>9, <1>10, <1>11, <1>12, <1>13, Zenon
     DEF B!RestoreStep

LEMMA BackupsKept ==
  BackupsInv /\ [B!Next]_(B!vars) => BackupsInv'
<1> SUFFICES ASSUME BackupsInv, [B!Next]_(B!vars) PROVE BackupsInv'
  OBVIOUS
<1>1. CASE UNCHANGED B!vars
  BY <1>1 DEF B!vars, BackupsInv
<1>2. CASE B!Write
  <2>1. /\ live \in B!Contents /\ live < MaxVersion /\ live' = live + 1 /\ last' = live + 1
        /\ UNCHANGED <<temp, aside, file, restore, flock>>
    BY <1>2 DEF B!Write
  <2>2. live' \in B!Contents /\ live # Null /\ live' # Null /\ last' = live'
    BY <2>1, BackupsConstants DEF B!Contents
  <2> QED
    BY <2>1, <2>2 DEF BackupsInv
<1> QED
  BY <1>1, <1>2, BackupKept, RestoreStepKept, Zenon DEF B!Next

\* A restore that is killed, wherever, leaves the database that was live, under
\* its name or set aside.
THEOREM DataNeverLost == B!Spec => []DataIsNeverLost
<1>1. BackupsInv => DataIsNeverLost
  BY DEF BackupsInv, DataIsNeverLost, B!DataIsNeverLost
<1> QED
  BY <1>1, BackupsInitially, BackupsKept, PTL DEF B!Spec

\* A restore that fails before the exchange of the databases, and reaches
\* PostgreSQL, leaves the live one as it was.
THEOREM FailedRestoreHarmless == B!Spec => FailedRestoreChangesNothing
<1> DEFINE Harmless ==
      \A r \in Restores : B!At(r, "failed")' /\ ~B!At(r, "failed") =>
        /\ temp'[r] = Null
        /\ live' = last \/ \E q \in Restores \ {r} : live = Null /\ aside[q] = last
        /\ ~restore[r].started => live' = live
<1>1. ASSUME BackupsInv, B!Next PROVE Harmless
  <2> SUFFICES ASSUME NEW r \in Restores, restore'[r].at = "failed", restore[r].at # "failed"
               PROVE  /\ temp'[r] = Null
                      /\ live' = last
                         \/ \E p \in Restores \ {r} : live = Null /\ aside[p] = last
                      /\ ~restore[r].started => live' = live
    BY DEF B!At
  <2>0. DOMAIN restore = Restores /\ DOMAIN temp = Restores /\ \A p \in Restores : IsRestore(restore[p])
    BY <1>1 DEF BackupsInv
  <2>1. PICK p \in Restores : B!RestoreStep(p)
    <3>1. restore' # restore
      OBVIOUS
    <3> QED
      BY <1>1, <3>1 DEF B!Next, B!Write, B!Day, B!Dump, B!Publish, B!Seal, B!Retain, B!StopBackup
  <2>2. \E postgres, docker \in BOOLEAN : p = r /\ postgres /\ B!Cleanup(r, postgres, docker)
    <3>1. ASSUME NEW x, x # "failed", B!Goes(p, x) PROVE FALSE
      BY <2>0, <3>1 DEF B!Goes
    <3>2. ASSUME NEW f \in BackupFiles, NEW insists \in BOOLEAN, B!Verify(p, f, insists)
          PROVE  FALSE
      BY <2>0, <3>2 DEF B!Verify
    <3>3. CASE B!TakeLock(p)
      BY <3>1, <3>3 DEF B!TakeLock
    <3>4. CASE B!CreateTemp(p) \/ B!Import(p) \/ B!SetAside(p) \/ B!Install(p) \/ B!DropAside(p)
      BY <3>1, <3>4 DEF B!CreateTemp, B!Import, B!SetAside, B!Install, B!DropAside
    <3>5. CASE B!ValidateAndStop(p) \/ B!StartSwap(p) \/ B!CompleteSwap(p)
      <4>1. PICK st : /\ restore' = [restore EXCEPT ![p] = st]
                      /\ st.at \in {"swap", "drop", restore[p].at}
        <5>1. CASE B!ValidateAndStop(p)
          <6> DEFINE st == [restore[p] EXCEPT !.at = "swap", !.restart = backend]
          <6>1. restore' = [restore EXCEPT ![p] = st]
            BY <5>1 DEF B!ValidateAndStop
          <6>2. st.at = "swap"
            BY <2>0 DEF IsRestore
          <6> QED
            BY <6>1, <6>2
        <5>2. CASE B!StartSwap(p)
          <6> DEFINE st == [restore[p] EXCEPT !.started = TRUE]
          <6>1. restore' = [restore EXCEPT ![p] = st]
            BY <5>2 DEF B!StartSwap
          <6>2. st.at = restore[p].at
            BY <2>0 DEF IsRestore
          <6> QED
            BY <6>1, <6>2
        <5>3. CASE B!CompleteSwap(p)
          <6> DEFINE st == [restore[p] EXCEPT !.at = "drop", !.completed = TRUE]
          <6>1. restore' = [restore EXCEPT ![p] = st]
            BY <5>3 DEF B!CompleteSwap
          <6>2. st.at = "drop"
            BY <2>0 DEF IsRestore
          <6> QED
            BY <6>1, <6>2
        <5> QED
          BY <3>5, <5>1, <5>2, <5>3
      <4> QED
        BY <2>0, <4>1
    <3>6. CASE B!Finish(p) \/ B!Kill(p)
      BY <3>1, <3>6 DEF B!Finish, B!Kill, B!Ends
    <3>7. ASSUME NEW postgres \in BOOLEAN, NEW docker \in BOOLEAN, B!Cleanup(p, postgres, docker)
          PROVE  p = r /\ postgres
      <4>1. B!Goes(p, IF postgres THEN "failed" ELSE "stranded")
        BY <3>7 DEF B!Cleanup, B!Ends
      <4> QED
        BY <2>0, <4>1 DEF B!Goes
    <3> QED
      BY <2>1, <3>2, <3>3, <3>4, <3>5, <3>6, <3>7, Zenon DEF B!RestoreStep
  <2>3. PICK postgres \in BOOLEAN, docker \in BOOLEAN :
          postgres /\ B!Cleanup(r, postgres, docker)
    BY <2>2, Zenon
  <2>4. restore[r].at \in B!UnderTrap /\ temp'[r] = Null
    BY <2>0, <2>3 DEF B!Cleanup
  <2>5. \/ /\ restore[r].started /\ ~restore[r].completed
           /\ live = Null /\ aside[r] # Null /\ live' = aside[r]
        \/ /\ ~(/\ restore[r].started /\ ~restore[r].completed
                /\ live = Null /\ aside[r] # Null)
           /\ live' = live
    BY <2>3 DEF B!Cleanup
  <2>6. aside[r] # Null /\ live = Null =>
          aside[r] = last /\ restore[r].started /\ ~restore[r].completed
    BY <1>1, <2>4 DEF BackupsInv, B!UnderTrap
  <2>7. /\ live # Null => live = last
        /\ live = Null => \E q \in Restores : aside[q] = last
        /\ last # Null
    BY <1>1, BackupsConstants DEF BackupsInv
  <2> QED
    BY <2>4, <2>5, <2>6, <2>7
<1>2. BackupsInv /\ [B!Next]_(B!vars) => [Harmless]_(B!vars)
  BY <1>1
<1> HIDE DEF Harmless
<1>3. B!Spec => [][Harmless]_(B!vars)
  BY <1>2, BackupsInitially, BackupsKept, PTL DEF B!Spec
<1>4. [Harmless]_(B!vars) <=> [\A r \in Restores :
       B!At(r, "failed")' /\ ~B!At(r, "failed") =>
       /\ temp'[r] = Null
       /\ live' = last \/ \E q \in Restores \ {r} : live = Null /\ aside[q] = last
       /\ ~restore[r].started => live' = live]_(B!vars)
  BY DEF Harmless
<1> QED
  BY <1>3, <1>4, PTL DEF FailedRestoreChangesNothing, B!FailedRestoreChangesNothing

\* Once a backup can be restored with its digest, one always can, whatever
\* retention, failure or interruption follows.
THEOREM BackupsKeptVerified == B!Spec => VerifiedBackupKept
<1> DEFINE Kept == B!Restorable # {} => B!Restorable' # {}
<1>1. ASSUME BackupsInv, B!Next PROVE Kept
  <2> SUFFICES ASSUME NEW g \in B!Restorable
               PROVE  \E f \in BackupFiles : file'[f].at # "none" /\ file'[f].sealed
    BY Zenon DEF B!Restorable
  <2>0. g \in BackupFiles /\ file[g].at # "none" /\ file[g].sealed
    BY DEF B!Restorable
  <2>1. /\ DOMAIN file = BackupFiles
        /\ \A f \in BackupFiles :
             /\ DOMAIN file[f] = {"at", "content", "sealed", "age"}
             /\ file[f].at \in {"none", "temporary", "published"} => ~file[f].sealed
             /\ file[f].at = "sealed" => file[f].sealed
    BY <1>1, Zenon DEF BackupsInv
  <2>2. CASE UNCHANGED file
    BY <2>0, <2>2
  <2>3. CASE B!Day
    <3>1. file'[g] \in {file[g], [file[g] EXCEPT !.age = @ + 1]}
      BY <2>0, <2>3 DEF B!Day
    <3> QED
      BY <2>0, <2>1, <3>1
  <2>4. ASSUME NEW f \in BackupFiles, B!Dump(f)
        PROVE  \E h \in BackupFiles : file'[h].at # "none" /\ file'[h].sealed
    BY <2>0, <2>1, <2>4 DEF B!Dump
  <2>5. ASSUME NEW f \in BackupFiles, B!Publish(f) \/ B!Seal(f)
        PROVE  \E h \in BackupFiles : file'[h].at # "none" /\ file'[h].sealed
    BY <2>0, <2>1, <2>5 DEF B!Publish, B!Step, B!Seal
  <2>6. ASSUME NEW f \in BackupFiles, B!Retain(f)
        PROVE  \E h \in BackupFiles : file'[h].at # "none" /\ file'[h].sealed
    <3>1. file'[f] = [file[f] EXCEPT !.at = "done"] /\ file[f].sealed
      BY <2>1, <2>6 DEF B!Retain
    <3> QED
      BY <2>1, <3>1
  <2>7. ASSUME NEW f \in BackupFiles, B!StopBackup(f)
        PROVE  \E h \in BackupFiles : file'[h].at # "none" /\ file'[h].sealed
    <3>1. file'[g] \in {file[g], [file[g] EXCEPT !.at = "done"]}
      BY <2>0, <2>1, <2>7 DEF B!StopBackup
    <3> QED
      BY <2>0, <2>1, <3>1
  <2>8. ASSUME NEW r \in Restores, B!RestoreStep(r) PROVE UNCHANGED file
    BY <2>8 DEF B!RestoreStep, B!Verify, B!TakeLock, B!CreateTemp, B!Import, B!ValidateAndStop,
         B!StartSwap, B!SetAside, B!Install, B!CompleteSwap, B!DropAside, B!Finish, B!Kill,
         B!Cleanup
  <2>9. CASE B!Write
    BY <2>2, <2>9 DEF B!Write
  <2> QED
    BY <1>1, <2>2, <2>3, <2>4, <2>5, <2>6, <2>7, <2>8, <2>9, Zenon DEF B!Next
<1>2. BackupsInv /\ [B!Next]_(B!vars) => [Kept]_(B!vars)
  BY <1>1
<1> QED
  BY <1>2, BackupsInitially, BackupsKept, PTL
     DEF B!Spec, VerifiedBackupKept, B!VerifiedBackupKept

-----------------------------------------------------------------------------
(* The form that corrects an incident.                                      *)

IsForm(x) ==
  /\ DOMAIN x = {"fields", "typed", "origin", "preview", "overtaken"}
  /\ x.origin \in FormIncidents

\* A field that the operator left alone is that of the incident he looked at in
\* rec, or was emptied, unless somebody changed it.
Faithful(rec, x) ==
  \A f \in C!Fields \ (x.typed \cup x.overtaken) :
    x.fields[f] = rec[x.origin].fields[f] \/ x.fields[f] = Null

Filled(x) == \A f \in C!Fields : x.fields[f] # Null

PanelInv ==
  /\ DOMAIN record = FormIncidents
  /\ \A i \in FormIncidents : DOMAIN record[i] = {"fields", "request", "active"}
  /\ entry \in FormIncidents \cup {Null} /\ past \in FormIncidents \cup {Null}
  /\ form # Null =>
       /\ entry # Null /\ IsForm(form) /\ Faithful(record, form)
       /\ form.preview => Filled(form)
  /\ sending # Null =>
       /\ DOMAIN sending = {"to", "form", "row", "live", "status", "requestOnly"}
       /\ sending.to \in FormIncidents
       /\ sending.status = "sent" =>
            IsForm(sending.form) /\ Faithful(record, sending.form) /\ Filled(sending.form)

LEMMA PanelInitially == C!Init => PanelInv
<1> SUFFICES ASSUME C!Init PROVE PanelInv
  OBVIOUS
<1>1. record \in [FormIncidents -> [fields : C!Descriptions, request : {Null}, active : {TRUE}]]
  BY DEF C!Init
<1>2. entry = Null /\ past = Null /\ form = Null /\ sending = Null
  BY DEF C!Init
<1>3. \A i \in FormIncidents : DOMAIN record[i] = {"fields", "request", "active"}
  BY <1>1
<1> QED
  BY <1>1, <1>2, <1>3 DEF PanelInv

\* Where the incidents keep their fields, a form stays faithful.
LEMMA FaithfulStill ==
  ASSUME NEW x, Faithful(record, x), x.origin \in FormIncidents,
         \A i \in FormIncidents : record'[i].fields = record[i].fields
  PROVE  Faithful(record', x)
  BY DEF Faithful

\* What somebody else changes on an incident is remembered with a form that was
\* opened on it.
LEMMA OvertakenFaithful ==
  ASSUME NEW x, NEW i \in FormIncidents, IsForm(x), Faithful(record, x),
         \A j \in FormIncidents \ {i} : record'[j] = record[j]
  PROVE  /\ IsForm(C!Overtaken(x, i)) /\ Faithful(record', C!Overtaken(x, i))
         /\ C!Overtaken(x, i).fields = x.fields
         /\ C!Overtaken(x, i).preview = x.preview
<1>1. CASE x.origin = i
  <2> DEFINE y == [x EXCEPT !.overtaken = @ \cup C!Altered(i)]
  <2>1. C!Overtaken(x, i) = y
    BY <1>1 DEF C!Overtaken
  <2>2. /\ DOMAIN y = DOMAIN x /\ y.fields = x.fields /\ y.preview = x.preview
        /\ y.origin = x.origin /\ y.typed = x.typed
        /\ y.overtaken = x.overtaken \cup C!Altered(i)
    BY DEF IsForm
  <2> HIDE DEF y
  <2>3. \A f \in C!Fields \ (y.typed \cup y.overtaken) :
          record'[i].fields[f] = record[i].fields[f]
    BY <2>2 DEF C!Altered
  <2>4. Faithful(record', y)
    BY <1>1, <2>2, <2>3 DEF Faithful
  <2> QED
    BY <2>1, <2>2, <2>4 DEF IsForm
<1>2. CASE x.origin # i
  <2>1. C!Overtaken(x, i) = x /\ record'[x.origin] = record[x.origin]
    BY <1>2 DEF C!Overtaken, IsForm
  <2> QED
    BY <2>1 DEF Faithful
<1> QED
  BY <1>1, <1>2

\* The form that opens now is faithful: what the list is behind of is overtaken.
LEMMA OpeningFaithful ==
  ASSUME NEW i \in FormIncidents
  PROVE  LET x == C!Opening(i)
         IN IsForm(x) /\ Faithful(record, x) /\ x.preview = FALSE
<1> DEFINE x == C!Opening(i)
<1>1. /\ DOMAIN x = {"fields", "typed", "origin", "preview", "overtaken"}
      /\ x.fields = copy'[i].fields /\ x.typed = {} /\ x.origin = i /\ x.preview = FALSE
      /\ x.overtaken = {f \in C!Fields : copy'[i].fields[f] # record[i].fields[f]}
  BY DEF C!Opening
<1> HIDE DEF x
<1>2. Faithful(record, x)
  BY <1>1 DEF Faithful
<1>3. IsForm(x)
  BY <1>1 DEF IsForm
<1> QED
  BY <1>1, <1>2, <1>3 DEF x

\* What React renders after a step of the viewer alone.
LEMMA RerenderKept ==
  ASSUME PanelInv, C!Rerender, UNCHANGED record,
         entry' \in FormIncidents \cup {Null}, past' \in FormIncidents \cup {Null}
  PROVE  PanelInv'
<1>1. form' # Null =>
        /\ entry' # Null /\ IsForm(form') /\ Faithful(record', form')
        /\ form'.preview => Filled(form')
  <2>1. CASE form' = Null
    BY <2>1
  <2>2. CASE form' = form
    BY <2>2 DEF PanelInv, C!Rerender, C!Rendered
  <2>3. CASE form' = C!Opening(entry') /\ entry' # Null
    BY <2>3, OpeningFaithful
  <2> QED
    BY <2>1, <2>2, <2>3 DEF C!Rerender, C!Rendered
<1>2. sending' \in {sending, Null, [sending EXCEPT !.live = FALSE]}
  BY DEF C!Rerender
<1>3. sending' # Null =>
        /\ DOMAIN sending' = {"to", "form", "row", "live", "status", "requestOnly"}
        /\ sending'.to \in FormIncidents
        /\ sending'.status = "sent" =>
             IsForm(sending'.form) /\ Faithful(record', sending'.form) /\ Filled(sending'.form)
  <2>1. CASE sending' = sending
    BY <2>1 DEF PanelInv
  <2>2. CASE sending' = [sending EXCEPT !.live = FALSE] /\ sending # Null
    <3>1. /\ DOMAIN sending' = DOMAIN sending /\ sending'.to = sending.to
          /\ sending'.status = sending.status /\ sending'.form = sending.form
      BY <2>2 DEF PanelInv
    <3> QED
      BY <2>2, <3>1 DEF PanelInv
  <2> QED
    BY <1>2, <2>1, <2>2 DEF C!Rerender
<1> QED
  BY <1>1, <1>3 DEF PanelInv

LEMMA ElsewhereKept ==
  ASSUME PanelInv, NEW i \in FormIncidents, C!Elsewhere(i)
  PROVE  PanelInv'
<1>1. /\ DOMAIN record' = FormIncidents
      /\ \A j \in FormIncidents \ {i} : record'[j] = record[j]
      /\ DOMAIN record'[i] = {"fields", "request", "active"}
  BY DEF PanelInv, C!Elsewhere
<1>2. /\ UNCHANGED <<entry, past>>
      /\ form' = IF form = Null THEN Null ELSE C!Overtaken(form, i)
      /\ sending' = IF sending = Null \/ sending.status # "sent" THEN sending
                    ELSE [sending EXCEPT !.form = C!Overtaken(@, i)]
  BY DEF C!Elsewhere
<1>3. form' # Null =>
        /\ entry' # Null /\ IsForm(form') /\ Faithful(record', form')
        /\ form'.preview => Filled(form')
  BY <1>1, <1>2, OvertakenFaithful DEF PanelInv, Filled
<1>4. CASE sending = Null \/ sending.status # "sent"
  BY <1>1, <1>2, <1>3, <1>4 DEF PanelInv
<1>5. CASE sending # Null /\ sending.status = "sent"
  <2>1. /\ DOMAIN sending' = DOMAIN sending /\ sending'.to = sending.to
        /\ sending'.form = C!Overtaken(sending.form, i)
    BY <1>2, <1>5 DEF PanelInv
  <2>2. IsForm(sending.form) /\ Faithful(record, sending.form) /\ Filled(sending.form)
    BY <1>5 DEF PanelInv
  <2>3. IsForm(sending'.form) /\ Faithful(record', sending'.form) /\ Filled(sending'.form)
    BY <1>1, <2>1, <2>2, OvertakenFaithful DEF Filled
  <2> QED
    BY <1>1, <1>2, <1>3, <1>5, <2>1, <2>3 DEF PanelInv
<1> QED
  BY <1>4, <1>5

LEMMA ServeKept ==
  ASSUME PanelInv, C!Serve
  PROVE  PanelInv'
<1>1. /\ UNCHANGED <<entry, past, form>> /\ sending # Null
      /\ \/ record' = record
         \/ \E v : record' = [record EXCEPT ![sending.to].request = v]
      /\ \/ sending' = Null
         \/ \E v : \E status \in {"accepted", "refused"} :
              sending' = [sending EXCEPT !.status = status, !.form = Null, !.row = v]
  BY DEF C!Serve, C!Answered
<1>2. /\ DOMAIN record' = FormIncidents
      /\ \A i \in FormIncidents : /\ DOMAIN record'[i] = {"fields", "request", "active"}
                              /\ record'[i].fields = record[i].fields
  <2>1. CASE record' = record
    BY <2>1 DEF PanelInv
  <2>2. ASSUME NEW v, record' = [record EXCEPT ![sending.to].request = v]
        PROVE  /\ DOMAIN record' = FormIncidents
               /\ \A i \in FormIncidents : /\ DOMAIN record'[i] = {"fields", "request", "active"}
                                       /\ record'[i].fields = record[i].fields
    BY <2>2 DEF PanelInv
  <2> QED
    BY <1>1, <2>1, <2>2
<1>3. form' # Null =>
        /\ entry' # Null /\ IsForm(form') /\ Faithful(record', form')
        /\ form'.preview => Filled(form')
  BY <1>1, <1>2, FaithfulStill DEF PanelInv, IsForm
<1>4. sending' # Null =>
        /\ DOMAIN sending' = {"to", "form", "row", "live", "status", "requestOnly"}
        /\ sending'.to \in FormIncidents /\ sending'.status # "sent"
  <2>1. ASSUME NEW status \in {"accepted", "refused"}, NEW v,
               sending' = [sending EXCEPT !.status = status, !.form = Null, !.row = v]
        PROVE  /\ DOMAIN sending' = {"to", "form", "row", "live", "status", "requestOnly"}
               /\ sending'.to \in FormIncidents /\ sending'.status # "sent"
    BY <1>1, <2>1 DEF PanelInv
  <2> QED
    BY <1>1, <2>1
<1> QED
  BY <1>1, <1>2, <1>3, <1>4 DEF PanelInv

LEMMA PanelKept ==
  PanelInv /\ [C!Next]_(C!vars) => PanelInv'
<1> SUFFICES ASSUME PanelInv, [C!Next]_(C!vars) PROVE PanelInv'
  OBVIOUS
<1>1. CASE UNCHANGED C!vars
  BY <1>1 DEF C!vars, PanelInv
<1>2. ASSUME NEW i \in FormIncidents, C!Select(i) PROVE PanelInv'
  BY <1>2, RerenderKept DEF C!Select, PanelInv
<1>3. CASE C!Poll \/ C!Leave \/ C!Back \/ C!Open \/ C!Close
  <2>1. C!Rerender /\ UNCHANGED record
    BY <1>3, Zenon DEF C!Poll, C!Leave, C!Back, C!Open, C!Close
  <2>2. entry' \in FormIncidents \cup {Null} /\ past' \in FormIncidents \cup {Null}
    BY <1>3 DEF C!Poll, C!Leave, C!Back, C!Open, C!Close, PanelInv
  <2> QED
    BY <2>1, <2>2, RerenderKept
<1>4. ASSUME NEW f \in C!Fields, C!Type(f) PROVE PanelInv'
  <2>1. PICK v : form' = [form EXCEPT !.typed = (@ \ C!Below[f]) \cup {f},
                            !.fields = [g \in C!Fields |-> IF g = f THEN v
                                          ELSE IF g \in C!Below[f] THEN Null ELSE @[g]]]
    BY <1>4, Zenon DEF C!Type
  <2>2. form # Null /\ ~form.preview /\ UNCHANGED <<record, entry, past, sending>>
    BY <1>4 DEF C!Type
  <2>3. /\ DOMAIN form' = DOMAIN form /\ form'.origin = form.origin
        /\ form'.preview = form.preview /\ form'.overtaken = form.overtaken
        /\ form'.typed = (form.typed \ C!Below[f]) \cup {f}
        /\ form'.fields = [g \in C!Fields |-> IF g = f THEN v
                             ELSE IF g \in C!Below[f] THEN Null ELSE form.fields[g]]
    BY <2>1, <2>2 DEF PanelInv, IsForm
  <2>4. Faithful(record, form')
    BY <2>2, <2>3 DEF PanelInv, Faithful
  <2> QED
    BY <2>2, <2>3, <2>4 DEF PanelInv, IsForm
<1>5. CASE C!Preview \/ C!Return
  <2>1. /\ form # Null /\ UNCHANGED <<record, entry, past, sending>>
        /\ \/ form' = [form EXCEPT !.preview = TRUE] /\ Filled(form)
           \/ form' = [form EXCEPT !.preview = FALSE]
    BY <1>5 DEF C!Preview, C!Return, Filled
  <2>2. /\ DOMAIN form' = DOMAIN form /\ form'.origin = form.origin
        /\ form'.overtaken = form.overtaken /\ form'.typed = form.typed
        /\ form'.fields = form.fields
        /\ form'.preview => Filled(form)
    BY <2>1 DEF PanelInv, IsForm
  <2>3. Faithful(record, form') /\ Filled(form') = Filled(form)
    BY <2>1, <2>2 DEF PanelInv, Faithful, Filled
  <2> QED
    BY <2>1, <2>2, <2>3 DEF PanelInv, IsForm
<1>6. CASE C!Submit
  BY <1>6 DEF C!Submit, PanelInv
<1>7. CASE C!Fail
  BY <1>7 DEF C!Fail, PanelInv
<1>8. CASE C!Answer
  BY <1>8 DEF C!Answer, PanelInv
<1> QED
  BY <1>1, <1>2, <1>3, <1>4, <1>5, <1>6, <1>7, <1>8, ElsewhereKept, ServeKept, Zenon DEF C!Next

\* A correction asks for nothing that the operator left alone on the incident he
\* was looking at, whatever the browser's Back, the polling and the changes of
\* the others did to his form, unless somebody changed it meanwhile.
THEOREM UntypedOvertaken == C!Spec => UntypedOnlyIfOvertaken
<1> DEFINE Asked ==
      \A i \in FormIncidents :
        C!Corrects(i) /\ sending.form.origin = i =>
          DOMAIN record'[i].request \subseteq sending.form.typed \cup sending.form.overtaken
<1>1. ASSUME PanelInv, C!Next PROVE Asked
  <2> SUFFICES ASSUME NEW i \in FormIncidents, C!Corrects(i), sending.form.origin = i
               PROVE  DOMAIN record'[i].request
                        \subseteq sending.form.typed \cup sending.form.overtaken
    OBVIOUS
  <2>1. /\ sending # Null /\ sending.status = "sent" /\ sending.to = i
        /\ record[i].request = Null /\ record'[i].request # Null
    BY DEF C!Corrects
  <2>2. C!Serve
    <3>1. ASSUME NEW j \in FormIncidents, C!Elsewhere(j) PROVE FALSE
      BY <1>1, <2>1, <3>1 DEF C!Elsewhere, PanelInv
    <3>2. record' # record
      BY <2>1
    <3> QED
      BY <1>1, <3>1, <3>2 DEF C!Next, C!Select, C!Poll, C!Leave, C!Back, C!Open, C!Close, C!Type,
         C!Preview, C!Return, C!Submit, C!Fail, C!Answer
  <2>3. record'[i].request = C!Changed(sending.form.fields, record[i].fields)
    BY <1>1, <2>1, <2>2 DEF C!Serve, PanelInv
  <2>4. DOMAIN record'[i].request =
          {f \in C!Fields : sending.form.fields[f] # record[i].fields[f]}
    BY <2>3 DEF C!Changed
  <2>5. Faithful(record, sending.form) /\ Filled(sending.form)
    BY <1>1, <2>1 DEF PanelInv
  <2> QED
    BY <2>4, <2>5 DEF Faithful, Filled
<1>2. PanelInv /\ [C!Next]_(C!vars) => [Asked]_(C!vars)
  BY <1>1
<1> QED
  BY <1>2, PanelInitially, PanelKept, PTL
     DEF C!Spec, UntypedOnlyIfOvertaken, C!UntypedOnlyIfOvertaken

=============================================================================
