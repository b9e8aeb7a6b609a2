---------------------------- MODULE AccessProofs ----------------------------
(***************************************************************************)
(* What the parts of MCAccess guarantee for any number of requests, tokens *)
(* and browsers: each theorem is about the specification of one part,      *)
(* whose behaviours those of AccessSpec are.  The sessions of the workshop *)
(* have a module of their own, SessionsProofs.                             *)
(***************************************************************************)
EXTENDS MCAccess, FiniteSetTheorems, TLAPS

-----------------------------------------------------------------------------
(* The administrator and the board.                                        *)

AdminRow(row) ==
  /\ DOMAIN row = {"password", "version", "enabled", "code", "legacy", "boardVersion"}
  /\ row.version \in Nat /\ row.boardVersion \in Nat
  /\ row.enabled \in BOOLEAN /\ row.legacy \in BOOLEAN
  /\ row.code \in Codes \cup {Null}

ActiveIn(row) == IF row.code # Null THEN row.code ELSE EnvCode

\* What a screen was told, or its token says: a version of the board that was in
\* force, passed since if the board is disabled; and, if it is in force, the code
\* that is, unless the code of an old release came back.
Stands(row, old, s) ==
  /\ s.version \in Nat /\ s.version <= row.boardVersion
  /\ ~row.enabled => s.version # row.boardVersion
  /\ s.version = row.boardVersion => s.code = ActiveIn(row) \/ ActiveIn(row) \in old

\* The code of the old release is in force or was replaced, and only its hash is
\* ever upgraded.
CodesOK(row, old) ==
  /\ row.legacy => row.code = LegacyCode
  /\ LegacyCode # Null => row.code = LegacyCode \/ LegacyCode \in old
  /\ ActiveIn(row) \in old => row.code = LegacyCode

BoardRequest(row, old, q) ==
  /\ DOMAIN q = {"type", "phase", "seen"}
  /\ Stands(row, old, q.seen)
  /\ q.seen.upgrade => LegacyCode # Null /\ q.seen.code = LegacyCode

AdminInv ==
  /\ AdminRow(admin)
  /\ CodesOK(admin, replaced)
  /\ DOMAIN request = Requests
  /\ \A r \in Requests :
       /\ request[r].type = "ORDER" => request[r].order \in Orders
       /\ request[r].type = "BOARD" => BoardRequest(admin, replaced, request[r])
  /\ \A t \in adminTokens : t.version \in Nat /\ t.version <= admin.version
  /\ \A t \in boardTokens : Stands(admin, replaced, t)

\* A change of the row that keeps the code in force, and disables the board with
\* a new version only.
Steady ==
  /\ AdminRow(admin')
  /\ admin'.code = admin.code /\ admin'.legacy = admin.legacy /\ replaced' = replaced
  /\ admin'.version >= admin.version /\ admin'.boardVersion >= admin.boardVersion
  /\ ~admin'.enabled => ~admin.enabled \/ admin'.boardVersion > admin.boardVersion

\* The settings give a code, with a new version of the board.
NewCode ==
  \E code \in Codes :
    /\ admin' = [admin EXCEPT !.code = code, !.legacy = FALSE, !.boardVersion = @ + 1]
    /\ replaced' = (replaced \cup ({ActiveIn(admin)} \ {Null})) \ {code}

\* The code of the old release is stored with a new hash, whatever code is in force.
Upgrade ==
  /\ LegacyCode # Null
  /\ admin' = [admin EXCEPT !.code = LegacyCode, !.legacy = FALSE]
  /\ replaced' = replaced

Turn == Steady \/ NewCode \/ Upgrade

\* What was told stands, whatever the change.
StandsStill == \A s : Stands(admin, replaced, s) => Stands(admin', replaced', s)

LEMMA SteadyTurn ==
  ASSUME AdminRow(admin), CodesOK(admin, replaced), Steady
  PROVE  CodesOK(admin', replaced') /\ StandsStill
<1>1. ActiveIn(admin') = ActiveIn(admin)
  BY DEF Steady, ActiveIn
<1>2. CodesOK(admin', replaced')
  BY <1>1 DEF Steady, CodesOK
<1>3. ASSUME NEW s, Stands(admin, replaced, s) PROVE Stands(admin', replaced', s)
  BY <1>1, <1>3 DEF Steady, Stands, AdminRow
<1> QED
  BY <1>2, <1>3, Zenon DEF StandsStill

LEMMA NewCodeTurn ==
  ASSUME AdminRow(admin), CodesOK(admin, replaced), NewCode
  PROVE  /\ AdminRow(admin') /\ admin'.version = admin.version
         /\ admin'.boardVersion >= admin.boardVersion
         /\ CodesOK(admin', replaced') /\ StandsStill
<1>1. PICK code \in Codes :
        /\ admin' = [admin EXCEPT !.code = code, !.legacy = FALSE, !.boardVersion = @ + 1]
        /\ replaced' = (replaced \cup ({ActiveIn(admin)} \ {Null})) \ {code}
  BY DEF NewCode
<1>2. code # Null
  BY PartsOK DEF A!ConstantsOK
<1>3. /\ AdminRow(admin') /\ admin'.version = admin.version
      /\ admin'.boardVersion = admin.boardVersion + 1 /\ admin'.enabled = admin.enabled
      /\ admin'.code = code /\ admin'.legacy = FALSE
  BY <1>1 DEF AdminRow
<1>4. ActiveIn(admin') = code /\ ActiveIn(admin') \notin replaced'
  BY <1>1, <1>2, <1>3 DEF ActiveIn
<1>5. LegacyCode # Null => admin'.code = LegacyCode \/ LegacyCode \in replaced'
  BY <1>1, <1>2, <1>3 DEF CodesOK, ActiveIn
<1>6. CodesOK(admin', replaced')
  BY <1>3, <1>4, <1>5 DEF CodesOK
<1>7. ASSUME NEW s, Stands(admin, replaced, s) PROVE Stands(admin', replaced', s)
  BY <1>3, <1>7 DEF Stands, AdminRow
<1>8. admin'.boardVersion >= admin.boardVersion
  BY <1>3 DEF AdminRow
<1> QED
  BY <1>3, <1>6, <1>7, <1>8, Zenon DEF StandsStill

LEMMA UpgradeTurn ==
  ASSUME AdminRow(admin), CodesOK(admin, replaced), Upgrade
  PROVE  /\ AdminRow(admin') /\ admin'.version = admin.version
         /\ admin'.boardVersion = admin.boardVersion
         /\ CodesOK(admin', replaced') /\ StandsStill
<1>1. /\ AdminRow(admin') /\ admin'.version = admin.version
      /\ admin'.boardVersion = admin.boardVersion /\ admin'.enabled = admin.enabled
      /\ admin'.code = LegacyCode /\ admin'.legacy = FALSE /\ replaced' = replaced
  BY PartsOK DEF Upgrade, AdminRow, A!ConstantsOK
<1>2. ActiveIn(admin') = LegacyCode
  BY <1>1 DEF ActiveIn, Upgrade
<1>3. ActiveIn(admin') = ActiveIn(admin) \/ ActiveIn(admin') \in replaced'
  BY <1>1, <1>2 DEF ActiveIn, Upgrade, CodesOK
<1>4. CodesOK(admin', replaced')
  BY <1>1, <1>2 DEF CodesOK
<1>5. ASSUME NEW s, Stands(admin, replaced, s) PROVE Stands(admin', replaced', s)
  BY <1>1, <1>3, <1>5 DEF Stands
<1> QED
  BY <1>1, <1>4, <1>5, Zenon DEF StandsStill

\* However the row changes, what was told stands, and no version goes back.
LEMMA TurnKept ==
  ASSUME AdminRow(admin), CodesOK(admin, replaced), Turn
  PROVE  /\ AdminRow(admin')
         /\ admin'.version >= admin.version /\ admin'.boardVersion >= admin.boardVersion
         /\ CodesOK(admin', replaced') /\ StandsStill
<1>1. CASE Steady
  BY <1>1, SteadyTurn DEF Steady
<1>2. CASE NewCode
  BY <1>2, NewCodeTurn DEF AdminRow
<1>3. CASE Upgrade
  BY <1>3, UpgradeTurn DEF AdminRow
<1> QED
  BY <1>1, <1>2, <1>3 DEF Turn

LEMMA Unturned ==
  ASSUME AdminRow(admin), UNCHANGED <<admin, replaced>>
  PROVE  Turn
BY DEF Turn, Steady, AdminRow

\* A step of one request, with what it was told and the tokens it opens.
LEMMA RequestStep ==
  ASSUME AdminInv, Turn, NEW r \in Requests, NEW q,
         request' = [request EXCEPT ![r] = q],
         q.type = "ORDER" => q.order \in Orders,
         q.type = "BOARD" => BoardRequest(admin', replaced', q),
         \A t \in adminTokens' : t \in adminTokens \/ t.version = admin'.version,
         \A t \in boardTokens' : t \in boardTokens \/ Stands(admin', replaced', t)
  PROVE  AdminInv'
<1>1. /\ AdminRow(admin')
      /\ admin'.version >= admin.version /\ admin'.boardVersion >= admin.boardVersion
      /\ CodesOK(admin', replaced') /\ StandsStill
  BY TurnKept DEF AdminInv
<1>2. /\ DOMAIN request' = Requests /\ request'[r] = q
      /\ \A o \in Requests : o # r => request'[o] = request[o]
  BY DEF AdminInv
<1>3. ASSUME NEW o, BoardRequest(admin, replaced, o) PROVE BoardRequest(admin', replaced', o)
  BY <1>1, <1>3 DEF BoardRequest, StandsStill
<1>4. \A o \in Requests :
        /\ request'[o].type = "ORDER" => request'[o].order \in Orders
        /\ request'[o].type = "BOARD" => BoardRequest(admin', replaced', request'[o])
  BY <1>2, <1>3 DEF AdminInv
<1>5. \A t \in adminTokens' : t.version \in Nat /\ t.version <= admin'.version
  BY <1>1 DEF AdminInv, AdminRow
<1>6. \A t \in boardTokens' : Stands(admin', replaced', t)
  BY <1>1 DEF AdminInv, StandsStill
<1> QED
  BY <1>1, <1>2, <1>4, <1>5, <1>6 DEF AdminInv

\* Every step turns the row as above, and keeps what was told true.
LEMMA AdminKept ==
  ASSUME AdminInv, A!Next
  PROVE  Turn /\ AdminInv'
<1>1. ASSUME NEW r \in Requests, A!ReadLogin(r) PROVE Turn /\ AdminInv'
  <2>1. Turn
    BY <1>1, Unturned DEF A!ReadLogin, AdminInv
  <2> QED
    BY <1>1, <2>1, RequestStep DEF A!ReadLogin, A!Starts, A!Goes
<1>2. ASSUME NEW r \in Requests, A!OpenAdminSession(r) PROVE Turn /\ AdminInv'
  <2>1. Turn
    BY <1>2, Unturned DEF A!OpenAdminSession, AdminInv
  <2>2. /\ request' = [request EXCEPT ![r] = A!Idle] /\ A!Idle.type = "NONE"
        /\ admin' = admin /\ boardTokens' = boardTokens /\ replaced' = replaced
    BY <1>2 DEF A!OpenAdminSession, A!Ends, A!Goes, A!Idle
  <2>3. \A t \in adminTokens' : t \in adminTokens \/ t.version = admin'.version
    BY <1>2, <2>2 DEF A!OpenAdminSession
  <2>4. \A t \in boardTokens' : t \in boardTokens \/ Stands(admin', replaced', t)
    BY <2>2
  <2> QED
    BY <2>1, <2>2, <2>3, <2>4, RequestStep
<1>3. ASSUME NEW r \in Requests, NEW t, NEW o \in Orders, NEW p, A!Authenticate(r, t, o, p)
      PROVE  Turn /\ AdminInv'
  <2>1. Turn
    BY <1>3, Unturned DEF A!Authenticate, AdminInv
  <2> QED
    BY <1>3, <2>1, RequestStep DEF A!Authenticate, A!Starts, A!Goes
<1>4. ASSUME NEW r \in Requests, A!ReadHash(r) \/ A!Reauthenticate(r) \/ A!RejectPassword(r)
      PROVE  Turn /\ AdminInv'
  <2>1. Turn
    BY <1>4, Unturned DEF A!ReadHash, A!Reauthenticate, A!RejectPassword, AdminInv
  <2>2. request[r].order \in Orders
    BY <1>4 DEF A!ReadHash, A!Reauthenticate, A!RejectPassword, A!Is, AdminInv
  <2>3. PICK q : /\ request' = [request EXCEPT ![r] = q]
                 /\ q.type = "ORDER" => q.order = request[r].order
                 /\ q.type # "BOARD"
    <3> DEFINE Told(q) == (q.type = "ORDER" => q.order = request[r].order) /\ q.type # "BOARD"
    <3>1. ASSUME A!ReadHash(r) PROVE \E q : request' = [request EXCEPT ![r] = q] /\ Told(q)
      <4> DEFINE q == [type |-> "ORDER", phase |-> "VERIFYING", order |-> request[r].order,
                       right |-> request[r].given = admin.password]
      <4>1. request' = [request EXCEPT ![r] = q]
        BY <3>1, Zenon DEF A!ReadHash, A!Goes
      <4>2. Told(q)
        OBVIOUS
      <4> QED
        BY <4>1, <4>2, Zenon
    <3>2. \A phase : Told(A!After(r, phase))
      BY DEF A!After
    <3>3. Told(A!Idle)
      BY DEF A!Idle
    <3> HIDE DEF Told
    <3>4. ASSUME A!Reauthenticate(r) PROVE \E q : request' = [request EXCEPT ![r] = q] /\ Told(q)
      BY <3>2, <3>4, Zenon DEF A!Reauthenticate, A!Goes
    <3>5. ASSUME A!RejectPassword(r) PROVE \E q : request' = [request EXCEPT ![r] = q] /\ Told(q)
      BY <3>2, <3>3, <3>5, Zenon DEF A!RejectPassword, A!Ends, A!Goes
    <3>6. \E q : request' = [request EXCEPT ![r] = q] /\ Told(q)
      BY <1>4, <3>1, <3>4, <3>5, Zenon
    <3> QED
      BY <3>6, Zenon DEF Told
  <2> QED
    BY <1>4, <2>1, <2>2, <2>3, RequestStep DEF A!ReadHash, A!Reauthenticate, A!RejectPassword
<1>5. ASSUME NEW r \in Requests,
             \/ A!RevokeAfterFailures(r) \/ A!VerifyPassword(r) \/ A!ChangePassword(r)
             \/ A!PatchBoardToggle(r) \/ A!RevokeSessions(r)
      PROVE  Turn /\ AdminInv'
  <2>1. request[r].order \in Orders /\ Orders \subseteq A!AllOrders
    BY <1>5, PartsOK
       DEF A!RevokeAfterFailures, A!VerifyPassword, A!ChangePassword, A!PatchBoardToggle,
           A!RevokeSessions, A!Confirmed, A!Is, AdminInv
  <2>2. /\ request' = [request EXCEPT ![r] = A!Idle]
        /\ UNCHANGED <<adminTokens, boardTokens, replaced>>
    BY <1>5 DEF A!RevokeAfterFailures, A!VerifyPassword, A!ChangePassword, A!PatchBoardToggle,
                A!RevokeSessions, A!Ends, A!Goes
  <2>3. Steady
    <3>1. CASE A!RevokeAfterFailures(r) \/ A!VerifyPassword(r)
      BY <2>2, <3>1 DEF A!RevokeAfterFailures, A!VerifyPassword, Steady, AdminInv, AdminRow
    <3>2. CASE A!ChangePassword(r)
      <4>1. request[r].order.password \in Passwords
        BY <2>1, <3>2 DEF A!ChangePassword, A!Confirmed, A!AllOrders
      <4> QED
        BY <2>2, <3>2, <4>1 DEF A!ChangePassword, Steady, AdminInv, AdminRow
    <3>3. CASE A!PatchBoardToggle(r)
      <4>1. request[r].order.enabled \in BOOLEAN
        BY <2>1, <3>3 DEF A!PatchBoardToggle, A!Confirmed, A!AllOrders
      <4> QED
        BY <2>2, <3>3, <4>1 DEF A!PatchBoardToggle, Steady, AdminInv, AdminRow
    <3>4. CASE A!RevokeSessions(r)
      BY <2>2, <3>4 DEF A!RevokeSessions, Steady, AdminInv, AdminRow
    <3> QED
      BY <1>5, <3>1, <3>2, <3>3, <3>4
  <2>4. A!Idle.type = "NONE"
    BY DEF A!Idle
  <2> QED
    BY <2>2, <2>3, <2>4, RequestStep DEF Turn
<1>6. ASSUME NEW r \in Requests, A!PatchBoardCode(r) PROVE Turn /\ AdminInv'
  <2>1. request[r].order \in Orders /\ Orders \subseteq A!AllOrders
    BY <1>6, PartsOK DEF A!PatchBoardCode, A!Confirmed, A!Is, AdminInv
  <2>2. request[r].order.code \in Codes
    BY <1>6, <2>1 DEF A!PatchBoardCode, A!Confirmed, A!AllOrders
  <2>3. NewCode
    BY <1>6, <2>2 DEF A!PatchBoardCode, NewCode, ActiveIn, A!ActiveCode
  <2> QED
    BY <1>6, <2>3, RequestStep DEF A!PatchBoardCode, A!Ends, A!Goes, A!Idle, Turn
<1>7. ASSUME NEW r \in Requests, A!ReadBoardSettings(r) PROVE Turn /\ AdminInv'
  <2> DEFINE seen == [code |-> A!ActiveCode, upgrade |-> A!MustUpgrade, version |-> admin.boardVersion]
             q == [type |-> "BOARD", phase |-> "VERIFYING", seen |-> seen]
  <2>1. /\ admin.enabled /\ UNCHANGED <<admin, adminTokens, boardTokens, replaced>>
        /\ request' = [request EXCEPT ![r] = q]
    BY <1>7 DEF A!ReadBoardSettings, A!Starts, A!Goes
  <2>2. Stands(admin, replaced, seen)
    BY <2>1 DEF Stands, ActiveIn, A!ActiveCode, AdminInv, AdminRow
  <2>3. A!MustUpgrade => LegacyCode # Null /\ A!ActiveCode = LegacyCode
    BY DEF A!MustUpgrade, A!ActiveCode, AdminInv, CodesOK
  <2>4. Turn
    BY <2>1, Unturned DEF AdminInv
  <2>5. q.type = "BOARD" /\ DOMAIN q = {"type", "phase", "seen"} /\ q.seen = seen
        /\ seen.upgrade = A!MustUpgrade /\ seen.code = A!ActiveCode
    OBVIOUS
  <2> HIDE DEF seen, q
  <2>6. BoardRequest(admin', replaced', q)
    BY <2>1, <2>2, <2>3, <2>5 DEF BoardRequest
  <2> QED
    BY <2>1, <2>4, <2>5, <2>6, RequestStep
<1>8. ASSUME NEW r \in Requests, A!UpgradeBoardCodeHash(r) PROVE Turn /\ AdminInv'
  <2> DEFINE q == [request[r] EXCEPT !.phase = "VERIFIED"]
  <2>1. /\ request[r].type = "BOARD" /\ request[r].seen.upgrade
        /\ admin' = [admin EXCEPT !.code = request[r].seen.code, !.legacy = FALSE]
        /\ request' = [request EXCEPT ![r] = q]
        /\ UNCHANGED <<adminTokens, boardTokens, replaced>>
    BY <1>8 DEF A!UpgradeBoardCodeHash, A!Is, A!Goes
  <2>2. BoardRequest(admin, replaced, request[r])
    BY <2>1 DEF AdminInv
  <2>3. Upgrade
    BY <2>1, <2>2 DEF Upgrade, BoardRequest
  <2>4. DOMAIN q = {"type", "phase", "seen"} /\ q.seen = request[r].seen /\ q.type = "BOARD"
    BY <2>1, <2>2 DEF BoardRequest
  <2> HIDE DEF q
  <2>5. Turn
    BY <2>3 DEF Turn
  <2>6. BoardRequest(admin', replaced', q)
    BY <2>2, <2>4, <2>5, TurnKept DEF BoardRequest, AdminInv, StandsStill
  <2> QED
    BY <2>1, <2>4, <2>5, <2>6, RequestStep
<1>9. ASSUME NEW r \in Requests, A!OpenBoardSession(r) PROVE Turn /\ AdminInv'
  <2>1. Turn
    BY <1>9, Unturned DEF A!OpenBoardSession, AdminInv
  <2> DEFINE t == [version |-> request[r].seen.version, code |-> request[r].seen.code]
  <2>2. /\ request[r].type = "BOARD" /\ boardTokens' = boardTokens \cup {t}
        /\ request' = [request EXCEPT ![r] = A!Idle] /\ UNCHANGED <<admin, adminTokens, replaced>>
    BY <1>9 DEF A!OpenBoardSession, A!Is, A!Ends, A!Goes
  <2>3. Stands(admin, replaced, t)
    BY <2>2 DEF Stands, AdminInv, BoardRequest
  <2> HIDE DEF t
  <2>4. Stands(admin', replaced', t)
    BY <2>1, <2>3, TurnKept DEF AdminInv, StandsStill
  <2> QED
    BY <2>1, <2>2, <2>4, RequestStep DEF A!Idle
<1>10. ASSUME A!ForgetFailures \/ A!TokenExpires \/ \E p \in Passwords : A!ResetAdminPassword(p)
       PROVE  Turn /\ AdminInv'
  <2>1. /\ request' = request /\ replaced' = replaced
        /\ adminTokens' \subseteq adminTokens /\ boardTokens' \subseteq boardTokens
    BY <1>10 DEF A!ForgetFailures, A!TokenExpires, A!ResetAdminPassword
  <2>2. ASSUME NEW p, A!ResetAdminPassword(p) PROVE Turn
    <3>1. admin' = [admin EXCEPT !.password = p, !.version = @ + 1]
      BY <2>2 DEF A!ResetAdminPassword
    <3>2. /\ DOMAIN admin' = DOMAIN admin /\ admin'.version = admin.version + 1
          /\ admin'.enabled = admin.enabled /\ admin'.code = admin.code
          /\ admin'.legacy = admin.legacy /\ admin'.boardVersion = admin.boardVersion
      BY <3>1 DEF AdminInv, AdminRow
    <3>3. Steady
      BY <2>1, <3>2 DEF Steady, AdminInv, AdminRow
    <3> QED
      BY <3>3 DEF Turn
  <2>3. ASSUME A!ForgetFailures \/ A!TokenExpires PROVE Turn
    BY <2>3, Unturned DEF A!ForgetFailures, A!TokenExpires, AdminInv
  <2>4. Turn
    BY <1>10, <2>2, <2>3
  <2>5. /\ AdminRow(admin') /\ admin'.version >= admin.version
        /\ CodesOK(admin', replaced') /\ StandsStill
    BY <2>4, TurnKept DEF AdminInv, StandsStill
  <2>6. ASSUME NEW q, BoardRequest(admin, replaced, q) PROVE BoardRequest(admin', replaced', q)
    BY <2>5, <2>6 DEF BoardRequest, StandsStill
  <2> QED
    BY <2>1, <2>4, <2>5, <2>6 DEF AdminInv, AdminRow, StandsStill
<1> QED
  BY <1>1, <1>2, <1>3, <1>4, <1>5, <1>6, <1>7, <1>8, <1>9, <1>10
     DEF A!Next, A!Login, A!Order, A!Screen

LEMMA AdminInitially == A!Init => AdminInv
<1> SUFFICES ASSUME A!Init PROVE AdminInv
  OBVIOUS
<1>1. AdminRow(admin) /\ admin.code = LegacyCode /\ admin.enabled /\ admin.boardVersion = 0
  BY PartsOK DEF A!Init, A!ConstantsOK, AdminRow
<1>2. replaced = {} /\ adminTokens = {} /\ boardTokens = {}
  BY DEF A!Init
<1>3. DOMAIN request = Requests /\ \A r \in Requests : request[r].type = "NONE"
  BY DEF A!Init, A!Idle
<1> QED
  BY <1>1, <1>2, <1>3 DEF AdminInv, CodesOK

LEMMA AdminAlways == A!Spec => []AdminInv
<1>1. AdminInv /\ [A!Next]_(A!vars) => AdminInv'
  <2>1. CASE A!Next
    BY <2>1, AdminKept
  <2>2. ASSUME AdminInv, UNCHANGED A!vars PROVE AdminInv'
    BY <2>2 DEF AdminInv, A!vars
  <2> QED
    BY <2>1, <2>2
<1> QED
  BY AdminInitially, <1>1, PTL DEF A!Spec

\* For any number of screens, orders and releases of the board, a screen that is
\* admitted gave the code in force; a code that was replaced comes back only as
\* the one of the old release.
THEOREM BoardSessionsCurrent == A!Spec => []BoardSessionOfCurrentCode
<1>1. AdminInv => BoardSessionOfCurrentCode
  BY DEF AdminInv, CodesOK, Stands, ActiveIn, A!ActiveCode, BoardSessionOfCurrentCode,
         A!BoardSessionOfCurrentCode, A!BoardAccepted
<1> QED
  BY AdminAlways, <1>1, PTL

\* No sequence of orders, however they interleave with logins and with screens,
\* makes a refused session of the administrator or of the board accepted again.
THEOREM SessionsStayRevoked == A!Spec => RevokedStaysRevoked
<1> DEFINE Stays ==
      /\ \A t \in adminTokens \cap adminTokens' : A!AdminAccepted(t)' => A!AdminAccepted(t)
      /\ \A t \in boardTokens \cap boardTokens' : A!BoardAccepted(t)' => A!BoardAccepted(t)
<1>1. ASSUME AdminInv, A!Next PROVE Stays
  <2>1. /\ AdminRow(admin') /\ AdminRow(admin)
        /\ admin'.version >= admin.version /\ admin'.boardVersion >= admin.boardVersion
    BY <1>1, AdminKept, TurnKept DEF AdminInv, StandsStill
  <2>2. ASSUME NEW t \in adminTokens, A!AdminAccepted(t)' PROVE A!AdminAccepted(t)
    BY <1>1, <2>1, <2>2 DEF AdminInv, AdminRow, A!AdminAccepted
  <2>3. ASSUME NEW t \in boardTokens, A!BoardAccepted(t)' PROVE A!BoardAccepted(t)
    BY <1>1, <2>1, <2>3 DEF AdminInv, AdminRow, A!BoardAccepted, Stands
  <2> QED
    BY <2>2, <2>3
<1>2. AdminInv /\ [A!Next]_(A!vars) => [Stays]_(A!vars)
  BY <1>1
<1> QED
  BY AdminAlways, <1>2, PTL DEF A!Spec, RevokedStaysRevoked, A!RevokedStaysRevoked

-----------------------------------------------------------------------------
(* The limiter of attempts: the failures of a login and the requests that   *)
(* still may add to them.                                                  *)

AuthKey(c) == R!Key("/api/auth", c)

Held(k) == {r \in Requests : pending[r] = k}

Sum(k) == entry[k].count + Cardinality(Held(k))

Bound == R!Max(DynamicMaxes) + Cardinality(Requests) - 1

RateTypes ==
  /\ entry \in [R!Keys -> [count : Nat, resetAt : Nat]]
  /\ now \in Nat /\ setting \in DynamicMaxes
  /\ pending \in [Requests -> R!Keys \cup {Null}]

\* In a window, a failure is counted when its request ends.
RateInv ==
  /\ RateTypes
  /\ \A c \in Clients : R!Live(AuthKey(c)) => Sum(AuthKey(c)) <= Bound

LEMMA GreatestLimit ==
  /\ R!Max(DynamicMaxes) \in Nat \ {0}
  /\ \A n \in DynamicMaxes : n \in Nat /\ n <= R!Max(DynamicMaxes)
<1>1. DynamicMaxes \subseteq Nat \ {0} /\ \E m \in DynamicMaxes : \A n \in DynamicMaxes : n <= m
  BY PartsOK DEF R!ConstantsOK
<1>2. PICK m \in DynamicMaxes : \A n \in DynamicMaxes : m >= n
  BY <1>1
<1>3. R!Max(DynamicMaxes) \in DynamicMaxes /\ \A n \in DynamicMaxes : R!Max(DynamicMaxes) >= n
  BY <1>2, Zenon DEF R!Max
<1> QED
  BY <1>1, <1>3

\* The set theory of RateLimit is that of the library.
LEMMA LimiterSets ==
  ASSUME NEW S
  PROVE  R!IsFiniteSet(S) <=> IsFiniteSet(S)
BY Zenon DEF R!IsFiniteSet, IsFiniteSet

LEMMA LimiterCounts ==
  ASSUME NEW S
  PROVE  R!Cardinality(S) = Cardinality(S)
BY Zenon DEF R!Cardinality, Cardinality

LEMMA HeldFinite ==
  ASSUME NEW k
  PROVE  /\ IsFiniteSet(Requests) /\ Cardinality(Requests) \in Nat
         /\ Cardinality(Held(k)) \in Nat /\ Cardinality(Held(k)) <= Cardinality(Requests)
         /\ Cardinality(Held(k)') \in Nat /\ Cardinality(Held(k)') <= Cardinality(Requests)
<1>1. IsFiniteSet(Requests)
  BY PartsOK, LimiterSets, Zenon DEF R!ConstantsOK
<1>2. Held(k) \in SUBSET Requests /\ Held(k)' \in SUBSET Requests
  BY DEF Held
<1>3. Cardinality(Held(k)) <= Cardinality(Requests) /\ IsFiniteSet(Held(k))
  BY <1>1, <1>2, FS_Subset
<1>4. Cardinality(Held(k)') <= Cardinality(Requests) /\ IsFiniteSet(Held(k)')
  BY <1>1, <1>2, FS_Subset
<1>5. Cardinality(Requests) \in Nat /\ Cardinality(Held(k)) \in Nat /\ Cardinality(Held(k)') \in Nat
  BY <1>1, <1>3, <1>4, FS_CardinalityType
<1> QED
  BY <1>1, <1>3, <1>4, <1>5

\* A request that ends holds its key no more.
LEMMA HeldAfterEnd ==
  ASSUME RateTypes, NEW r \in Requests, pending[r] # Null,
         pending' = [pending EXCEPT ![r] = Null], NEW k \in R!Keys
  PROVE  /\ Cardinality(Held(k)') <= Cardinality(Held(k))
         /\ k = pending[r] => /\ Cardinality(Held(k)') = Cardinality(Held(k)) - 1
                              /\ Cardinality(Held(k)') <= Cardinality(Requests) - 1
<1>1. Null \notin R!Keys
  BY PartsOK DEF R!ConstantsOK
<1>2. CASE k # pending[r]
  <2>1. Held(k)' = Held(k)
    BY <1>1, <1>2 DEF Held, RateTypes
  <2> QED
    BY <1>2, <2>1, HeldFinite
<1>3. CASE k = pending[r]
  <2>1. Held(k)' = Held(k) \ {r} /\ r \in Held(k) /\ Held(k) \in SUBSET Requests
    BY <1>1, <1>3 DEF Held, RateTypes
  <2>2. IsFiniteSet(Held(k))
    BY <2>1, HeldFinite, FS_Subset
  <2>3. Cardinality(Held(k) \ {r}) = Cardinality(Held(k)) - 1
    BY <2>1, <2>2, FS_RemoveElement
  <2> QED
    BY <2>1, <2>3, HeldFinite
<1> QED
  BY <1>2, <1>3

\* What remains to show of a step: the types, and each login key whose window is
\* open after it has a sum that did not grow, or is within the bound.
LEMMA RateStep ==
  ASSUME RateInv, RateTypes',
         \A c \in Clients :
           R!Live(AuthKey(c))' =>
             \/ R!Live(AuthKey(c)) /\ Sum(AuthKey(c))' <= Sum(AuthKey(c))
             \/ Sum(AuthKey(c))' <= Bound
  PROVE  RateInv'
<1>1. ASSUME NEW c \in Clients
      PROVE  Sum(AuthKey(c)) \in Nat /\ Sum(AuthKey(c))' \in Nat /\ Bound \in Int
  <2>1. AuthKey(c) \in R!Keys
    BY DEF AuthKey, R!Key, R!Keys
  <2>2. entry[AuthKey(c)].count \in Nat /\ entry'[AuthKey(c)].count \in Nat
    BY <2>1 DEF RateInv, RateTypes
  <2> QED
    BY <2>2, HeldFinite, GreatestLimit DEF Sum, Bound
<1>2. ASSUME NEW c \in Clients, R!Live(AuthKey(c))' PROVE Sum(AuthKey(c))' <= Bound
  BY <1>1, <1>2 DEF RateInv
<1>3. Bound' = Bound
  BY DEF Bound
<1> QED
  BY <1>2, <1>3 DEF RateInv

\* The table may only lose entries.
Loses == \A k \in R!Keys : entry'[k] = entry[k] \/ entry'[k] = R!NoEntry

LEMMA WithoutLoses ==
  ASSUME RateTypes, NEW S, R!Without(S)
  PROVE  Loses /\ entry' \in [R!Keys -> [count : Nat, resetAt : Nat]]
<1>1. entry' = [k \in R!Keys |-> IF k \in S THEN R!NoEntry ELSE entry[k]]
  BY Zenon DEF R!Without
<1>2. R!NoEntry \in [count : Nat, resetAt : Nat]
  BY DEF R!NoEntry
<1> QED
  BY <1>1, <1>2 DEF Loses, RateTypes

\* An entry that is there after the table lost others was there before.
LEMMA LiveBefore ==
  ASSUME Loses, now' \in Nat, now \in Nat, now <= now', NEW k \in R!Keys, R!Live(k)', RateTypes
  PROVE  R!Live(k) /\ entry'[k] = entry[k]
<1>1. entry'[k] = entry[k]
  BY DEF Loses, R!Live, R!InTable
<1>2. entry[k].resetAt \in Nat
  BY DEF RateTypes
<1> QED
  BY <1>1, <1>2 DEF R!Live, R!InTable

LEMMA AuthKeys == \A c \in Clients : AuthKey(c) \in R!Keys
BY DEF AuthKey, R!Key, R!Keys

LEMMA CheckLoginKept ==
  ASSUME RateInv, NEW r \in Requests, NEW c \in Clients, R!CheckLogin(r, c)
  PROVE  RateInv'
<1>1. /\ pending[r] = Null /\ ~R!Limited(AuthKey(c), setting)
      /\ pending' = [pending EXCEPT ![r] = AuthKey(c)]
      /\ UNCHANGED <<entry, now, setting>>
  BY DEF R!CheckLogin, AuthKey
<1>2. RateTypes'
  BY <1>1, AuthKeys DEF RateInv, RateTypes
<1>3. ASSUME NEW d \in Clients, R!Live(AuthKey(d))'
      PROVE  \/ R!Live(AuthKey(d)) /\ Sum(AuthKey(d))' <= Sum(AuthKey(d))
             \/ Sum(AuthKey(d))' <= Bound
  <2>1. R!Live(AuthKey(d)) /\ AuthKey(d) \in R!Keys
    BY <1>1, <1>3, AuthKeys DEF R!Live, R!InTable
  <2>2. entry[AuthKey(d)].count \in Nat
    BY <2>1 DEF RateInv, RateTypes
  <2>3. CASE d = c
    <3>1. entry[AuthKey(d)].count < setting
      BY <1>1, <2>1, <2>2, <2>3, GreatestLimit DEF R!Limited, RateInv, RateTypes
    <3>2. entry[AuthKey(d)].count <= R!Max(DynamicMaxes) - 1
      BY <2>2, <3>1, GreatestLimit DEF RateInv, RateTypes
    <3> QED
      BY <1>1, <2>2, <3>2, HeldFinite, GreatestLimit DEF Sum, Bound
  <2>4. CASE d # c
    <3>1. AuthKey(d) # AuthKey(c) /\ AuthKey(d) # Null
      BY <2>1, <2>4, PartsOK DEF AuthKey, R!Key, R!ConstantsOK
    <3>2. Held(AuthKey(d))' = Held(AuthKey(d))
      BY <1>1, <3>1 DEF Held, RateInv, RateTypes
    <3> QED
      BY <1>1, <2>1, <2>2, <3>2, HeldFinite DEF Sum
  <2> QED
    BY <2>3, <2>4
<1> QED
  BY <1>2, <1>3, RateStep

LEMMA CheckBoardKept ==
  ASSUME RateInv, NEW r \in Requests, NEW c \in Clients, R!CheckBoard(r, c)
  PROVE  RateInv'
<1> DEFINE key == R!Key("/api/board", c)
<1>1. /\ pending' = pending \/ pending' = [pending EXCEPT ![r] = key]
      /\ pending[r] = Null
      /\ UNCHANGED <<now, setting>>
  BY DEF R!CheckBoard
<1>2. Loses /\ entry' \in [R!Keys -> [count : Nat, resetAt : Nat]]
  <2>1. CASE UNCHANGED entry
    BY <2>1 DEF Loses, RateInv, RateTypes
  <2>2. ASSUME NEW S, R!Without(S) PROVE Loses /\ entry' \in [R!Keys -> [count : Nat, resetAt : Nat]]
    BY <2>2, WithoutLoses DEF RateInv
  <2> QED
    BY <2>1, <2>2, Zenon DEF R!CheckBoard
<1>3. key \in R!Keys /\ \A d \in Clients : AuthKey(d) # key
  BY DEF R!Key, R!Keys, AuthKey
<1> HIDE DEF key
<1>4. RateTypes'
  BY <1>1, <1>2, <1>3 DEF RateInv, RateTypes
<1>5. ASSUME NEW d \in Clients, R!Live(AuthKey(d))'
      PROVE  R!Live(AuthKey(d)) /\ Sum(AuthKey(d))' <= Sum(AuthKey(d))
  <2>1. R!Live(AuthKey(d)) /\ entry'[AuthKey(d)] = entry[AuthKey(d)]
    BY <1>1, <1>2, <1>5, AuthKeys, LiveBefore DEF RateInv, RateTypes
  <2>2. AuthKey(d) # Null /\ AuthKey(d) # key
    BY <1>3, AuthKeys, PartsOK DEF R!ConstantsOK
  <2>3. Held(AuthKey(d))' = Held(AuthKey(d))
    BY <1>1, <2>2 DEF Held, RateInv, RateTypes
  <2>4. entry[AuthKey(d)].count \in Nat
    BY AuthKeys DEF RateInv, RateTypes
  <2> QED
    BY <2>1, <2>3, <2>4, HeldFinite DEF Sum
<1> QED
  BY <1>4, <1>5, RateStep

LEMMA EndKept ==
  ASSUME RateInv, NEW r \in Requests, pending[r] # Null,
         pending' = [pending EXCEPT ![r] = Null],
         Loses, entry' \in [R!Keys -> [count : Nat, resetAt : Nat]], UNCHANGED <<now, setting>>
  PROVE  RateInv'
<1>1. RateTypes'
  BY DEF RateInv, RateTypes
<1>2. ASSUME NEW d \in Clients, R!Live(AuthKey(d))'
      PROVE  R!Live(AuthKey(d)) /\ Sum(AuthKey(d))' <= Sum(AuthKey(d))
  <2>1. R!Live(AuthKey(d)) /\ entry'[AuthKey(d)] = entry[AuthKey(d)]
    BY <1>2, AuthKeys, LiveBefore DEF RateInv, RateTypes
  <2>2. entry[AuthKey(d)].count \in Nat
    BY AuthKeys DEF RateInv, RateTypes
  <2>3. Cardinality(Held(AuthKey(d))') <= Cardinality(Held(AuthKey(d)))
    BY AuthKeys, HeldAfterEnd DEF RateInv
  <2> QED
    BY <2>1, <2>2, <2>3, HeldFinite DEF Sum
<1> QED
  BY <1>1, <1>2, RateStep

\* A failure takes the place of its request in the sum, or begins a window.
LEMMA FailKept ==
  ASSUME RateInv, NEW r \in Requests, R!Fail(r)
  PROVE  RateInv'
<1> DEFINE k == pending[r]
<1>1. /\ k # Null /\ R!Recorded(k) /\ pending' = [pending EXCEPT ![r] = Null]
      /\ UNCHANGED <<now, setting>> /\ k \in R!Keys
  BY DEF R!Fail, RateInv, RateTypes
<1>9. ASSUME NEW j \in R!Keys
      PROVE  /\ Cardinality(Held(j)') <= Cardinality(Held(j))
             /\ j = k => /\ Cardinality(Held(j)') = Cardinality(Held(j)) - 1
                         /\ Cardinality(Held(j)') <= Cardinality(Requests) - 1
             /\ Cardinality(Held(j)) \in Nat /\ Cardinality(Held(j)') \in Nat
             /\ Cardinality(Requests) \in Nat
  BY <1>1, HeldAfterEnd, HeldFinite DEF RateInv
<1> HIDE DEF k
<1>2. CASE R!Live(k)
  <2>1. entry' = [entry EXCEPT ![k].count = @ + 1]
    BY <1>1, <1>2, Zenon DEF R!Recorded
  <2>2. /\ entry' \in [R!Keys -> [count : Nat, resetAt : Nat]]
        /\ entry'[k].count = entry[k].count + 1
        /\ \A j \in R!Keys : j # k => entry'[j] = entry[j]
    BY <1>1, <2>1 DEF RateInv, RateTypes
  <2>3. RateTypes'
    BY <1>1, <2>2 DEF RateInv, RateTypes
  <2>4. ASSUME NEW d \in Clients, R!Live(AuthKey(d))'
        PROVE  R!Live(AuthKey(d)) /\ Sum(AuthKey(d))' <= Sum(AuthKey(d))
    <3>1. entry[AuthKey(d)].count \in Nat /\ AuthKey(d) \in R!Keys
      BY AuthKeys DEF RateInv, RateTypes
    <3>2. CASE AuthKey(d) = k
      BY <1>1, <1>2, <2>2, <3>1, <3>2, <1>9 DEF Sum
    <3>3. CASE AuthKey(d) # k
      BY <1>1, <2>2, <2>4, <3>1, <3>3, <1>9
         DEF Sum, R!Live, R!InTable
    <3> QED
      BY <3>2, <3>3
  <2> QED
    BY <2>3, <2>4, RateStep
<1>3. CASE ~R!Live(k)
  <2>1. PICK evicted : entry' = [j \in R!Keys |->
                          IF j = k THEN [count |-> 1, resetAt |-> now + Window]
                          ELSE IF j \in evicted THEN R!NoEntry ELSE entry[j]]
    BY <1>1, <1>3, Zenon DEF R!Recorded
  <2>2. /\ entry' \in [R!Keys -> [count : Nat, resetAt : Nat]]
        /\ entry'[k].count = 1
        /\ \A j \in R!Keys : j # k => entry'[j] = entry[j] \/ entry'[j] = R!NoEntry
    BY <1>1, <2>1, PartsOK DEF RateInv, RateTypes, R!NoEntry, R!ConstantsOK
  <2>3. RateTypes'
    BY <1>1, <2>2 DEF RateInv, RateTypes
  <2>4. ASSUME NEW d \in Clients, R!Live(AuthKey(d))'
        PROVE  \/ R!Live(AuthKey(d)) /\ Sum(AuthKey(d))' <= Sum(AuthKey(d))
               \/ Sum(AuthKey(d))' <= Bound
    <3>1. entry[AuthKey(d)].count \in Nat /\ AuthKey(d) \in R!Keys
      BY AuthKeys DEF RateInv, RateTypes
    <3>2. CASE AuthKey(d) = k
      BY <1>1, <2>2, <3>1, <3>2, <1>9, GreatestLimit DEF Sum, Bound
    <3>3. CASE AuthKey(d) # k
      BY <1>1, <2>2, <2>4, <3>1, <3>3, <1>9
         DEF Sum, R!Live, R!InTable
    <3> QED
      BY <3>2, <3>3
  <2> QED
    BY <2>3, <2>4, RateStep
<1> QED
  BY <1>2, <1>3

LEMMA RateKept ==
  RateInv /\ [R!Next]_(R!vars) => RateInv'
<1> SUFFICES ASSUME RateInv, [R!Next]_(R!vars) PROVE RateInv'
  OBVIOUS
<1>1. ASSUME NEW r \in Requests, R!Succeed(r) PROVE RateInv'
  BY <1>1, WithoutLoses, EndKept, Zenon DEF R!Succeed, RateInv
<1>2. ASSUME NEW r \in Requests, R!EndNeutral(r) PROVE RateInv'
  BY <1>2, EndKept DEF R!EndNeutral, Loses, RateInv, RateTypes
<1>3. CASE UNCHANGED <<entry, pending>> /\ now' \in Nat /\ now <= now' /\ setting' \in DynamicMaxes
  <2>1. RateTypes' /\ Loses
    BY <1>3 DEF RateInv, RateTypes, Loses
  <2>2. ASSUME NEW d \in Clients, R!Live(AuthKey(d))'
        PROVE  R!Live(AuthKey(d)) /\ Sum(AuthKey(d))' <= Sum(AuthKey(d))
    <3>1. R!Live(AuthKey(d))
      BY <1>3, <2>1, <2>2, AuthKeys, LiveBefore DEF RateInv, RateTypes
    <3>2. Held(AuthKey(d))' = Held(AuthKey(d)) /\ entry[AuthKey(d)].count \in Nat
      BY <1>3, AuthKeys DEF Held, RateInv, RateTypes
    <3> QED
      BY <1>3, <3>1, <3>2, HeldFinite DEF Sum
  <2> QED
    BY <2>1, <2>2, RateStep
<1>4. CASE UNCHANGED R!vars
  BY <1>3, <1>4 DEF R!vars, RateInv, RateTypes
<1>5. CASE R!Tick
  BY <1>3, <1>5 DEF R!Tick, RateInv, RateTypes
<1>6. ASSUME NEW max \in DynamicMaxes, R!ChangeSetting(max) PROVE RateInv'
  BY <1>3, <1>6 DEF R!ChangeSetting, RateInv, RateTypes
<1> QED
  BY <1>1, <1>2, <1>4, <1>5, <1>6, CheckLoginKept, CheckBoardKept, FailKept DEF R!Next

\* Whatever the limits the administrator sets, the evictions and the number of
\* clients, the failures of a login in one window exceed the largest limit by no
\* more than the requests that were in flight when it was reached.
THEOREM FailuresStayBounded == R!Spec => []FailuresBounded
<1>1. R!Init => RateInv
  <2> SUFFICES ASSUME R!Init PROVE RateInv
    OBVIOUS
  <2>1. RateTypes
    BY DEF R!Init, RateTypes, R!NoEntry
  <2>2. \A c \in Clients : ~R!Live(AuthKey(c))
    BY AuthKeys DEF R!Init, R!Live, R!InTable
  <2> QED
    BY <2>1, <2>2 DEF RateInv
<1>2. ASSUME RateInv PROVE FailuresBounded
  <2> SUFFICES ASSUME NEW c \in Clients, R!Live(AuthKey(c))
               PROVE  ~(entry[AuthKey(c)].count > R!Max(DynamicMaxes) + Cardinality(Requests) - 1)
    BY LimiterCounts DEF FailuresBounded, R!FailuresBounded, R!Exceeds, AuthKey
  <2>1. entry[AuthKey(c)].count \in Nat /\ Sum(AuthKey(c)) <= Bound
    BY <1>2, AuthKeys DEF RateInv, RateTypes
  <2> QED
    BY <2>1, HeldFinite, GreatestLimit DEF Sum, Bound
<1> QED
  BY <1>1, <1>2, RateKept, PTL DEF R!Spec

-----------------------------------------------------------------------------
(* The page of settings: what it would save was typed on it.               *)

PageFields ==
  {"loaded", "base", "draft", "typed", "revoke", "shown", "saving", "board", "email",
   "dialogue", "call"}

\* What differs from the settings received was typed.
DraftOK(p) ==
  /\ DOMAIN p.draft = G!Fields /\ DOMAIN p.base = G!Fields
  /\ \A f \in G!Fields : p.draft[f] # p.base[f] => f \in p.typed

\* What a call saves is what the draft still says.
CallOK(p) ==
  /\ {"kind", "status"} \subseteq DOMAIN p.call
  /\ p.call.kind \in {"APP", "REVOKE"} =>
       /\ p.loaded["app"] = "ready" /\ "patch" \in DOMAIN p.call
       /\ \A f \in DOMAIN p.call.patch :
            f \in G!Fields /\ f \in p.typed /\ p.call.patch[f] = p.draft[f]
  /\ p.call.kind = "REVOKE" => p.dialogue = "REVOKE"

PageOK(p) ==
  /\ DOMAIN p = PageFields /\ DOMAIN p.loaded = G!Sections
  /\ p.loaded["app"] = "ready" => DraftOK(p)
  /\ p.dialogue = "REVOKE" => p.loaded["app"] = "ready"
  /\ p.call # Null => CallOK(p)

SettingsInv ==
  /\ DOMAIN settings = G!Fields
  /\ DOMAIN page = Screens
  /\ \A s \in Screens : page[s] # Null => PageOK(page[s])

LEMMA PageStep ==
  ASSUME SettingsInv, NEW s \in Screens, NEW p, page' = [page EXCEPT ![s] = p],
         p = Null \/ PageOK(p), DOMAIN settings' = G!Fields
  PROVE  SettingsInv'
BY DEF SettingsInv

\* Whether a call saves the behaviour.
Saves(c) == c.kind \in {"APP", "REVOKE"}

\* A step that touches neither the draft nor the call that saves it.
LEMMA StillOK ==
  ASSUME NEW p, PageOK(p), NEW q, DOMAIN q = PageFields, DOMAIN q.loaded = G!Sections,
         q.loaded["app"] = p.loaded["app"],
         q.draft = p.draft, q.base = p.base, q.typed = p.typed,
         \/ q.dialogue = p.dialogue
         \/ /\ q.dialogue = "REVOKE" => p.loaded["app"] = "ready"
            /\ q.call = Null \/ q.call.kind # "REVOKE",
         \/ q.call = Null \/ q.call = p.call
         \/ {"kind", "status"} \subseteq DOMAIN q.call /\ ~Saves(q.call)
         \/ /\ p.call # Null /\ DOMAIN q.call = DOMAIN p.call /\ q.call.kind = p.call.kind
            /\ Saves(p.call) => q.call.patch = p.call.patch
  PROVE  PageOK(q)
<1>2. q.loaded["app"] = "ready" => DraftOK(q)
  BY DEF PageOK, DraftOK
<1>3. q.dialogue = "REVOKE" => q.loaded["app"] = "ready"
  BY DEF PageOK
<1>4. q.call # Null => CallOK(q)
  BY DEF PageOK, CallOK, Saves
<1> QED
  BY <1>2, <1>3, <1>4 DEF PageOK

\* While no call saves the behaviour, its draft may change, provided that what
\* differs was typed.
LEMMA FreeOK ==
  ASSUME NEW p, PageOK(p), p.call = Null \/ ~Saves(p.call),
         NEW q, DOMAIN q = PageFields, DOMAIN q.loaded = G!Sections,
         q.loaded["app"] = "ready" => DraftOK(q),
         q.dialogue = "REVOKE" => q.loaded["app"] = "ready", q.call = p.call \/ q.call = Null
  PROVE  PageOK(q)
BY DEF PageOK, CallOK, Saves

\* A call that saves nothing of the behaviour, on a page with the lock free or not.
LEMMA ExecuteOther ==
  ASSUME NEW p, PageOK(p), NEW call, "kind" \in DOMAIN call, ~Saves(call)
  PROVE  PageOK(G!Execute(p, call))
<1> DEFINE c == G!Merged(call, [status |-> "sent"])
           q == [p EXCEPT !.call = c]
<1>1. CASE p.call # Null
  BY <1>1 DEF G!Execute
<1>2. CASE p.call = Null
  <2>1. {"kind", "status"} \subseteq DOMAIN c /\ c.kind = call.kind /\ ~Saves(c)
    BY DEF G!Merged, Saves
  <2>3. G!Execute(p, call) = q
    BY <1>2, Zenon DEF G!Execute
  <2> HIDE DEF c
  <2>2. /\ DOMAIN q = PageFields /\ q.loaded = p.loaded /\ q.draft = p.draft /\ q.base = p.base
        /\ q.typed = p.typed /\ q.dialogue = p.dialogue /\ q.call = c
    BY DEF PageOK, PageFields
  <2> HIDE DEF q
  <2>4. PageOK(q)
    BY <2>1, <2>2, StillOK DEF PageOK
  <2> QED
    BY <2>3, <2>4
<1> QED
  BY <1>1, <1>2

\* A call that saves what differs, once the behaviour is loaded.
LEMMA SaveOK ==
  ASSUME NEW p, PageOK(p), p.loaded["app"] = "ready", NEW kind \in {"APP", "REVOKE"},
         kind = "REVOKE" => p.dialogue = "REVOKE"
  PROVE  PageOK(G!Save(p, kind))
<1> DEFINE patch == G!Changes(p)
           c == G!Merged([kind |-> kind, patch |-> patch, revoke |-> p.revoke], [status |-> "sent"])
           q == [p EXCEPT !.call = c]
<1>1. CASE p.call # Null
  BY <1>1 DEF G!Execute, G!Save
<1>2. CASE p.call = Null
  <2>0. \A f \in DOMAIN patch : f \in G!Fields /\ f \in p.typed /\ patch[f] = p.draft[f]
    BY DEF G!Changes, PageOK, DraftOK
  <2>1. G!Save(p, kind) = q
    BY <1>2 DEF G!Execute, G!Save
  <2> HIDE DEF patch
  <2>2. {"kind", "status", "patch"} \subseteq DOMAIN c /\ c.kind = kind /\ c.patch = patch
    BY DEF G!Merged
  <2> HIDE DEF c
  <2>3. /\ DOMAIN q = PageFields /\ q.loaded = p.loaded /\ q.draft = p.draft /\ q.base = p.base
        /\ q.typed = p.typed /\ q.dialogue = p.dialogue /\ q.call = c
    BY DEF PageOK, PageFields
  <2> HIDE DEF q
  <2>4. CallOK(q)
    BY <2>0, <2>2, <2>3 DEF CallOK
  <2>5. PageOK(q)
    BY <2>3, <2>4 DEF PageOK, DraftOK
  <2> QED
    BY <2>1, <2>5
<1> QED
  BY <1>1, <1>2

\* What a reading gives to the page.
LEMMA LoadOK ==
  ASSUME NEW p, PageOK(p), NEW x \in G!Sections, p.loaded[x] = "loading", SettingsInv
  PROVE  PageOK(G!Loaded(p, x)) /\ PageOK([p EXCEPT !.loaded[x] = "failed"])
<1> DEFINE r == [p EXCEPT !.loaded[x] = "ready"]
           q == G!Loaded(p, x)
           l == [p EXCEPT !.loaded[x] = "failed"]
<1>1. "app" \in G!Sections /\ G!Sections = DOMAIN p.loaded
  BY DEF G!Sections, PageOK
<1>2. /\ DOMAIN r = PageFields /\ DOMAIN r.loaded = G!Sections
      /\ r.loaded["app"] = IF x = "app" THEN "ready" ELSE p.loaded["app"]
      /\ \A f \in PageFields : f # "loaded" => r[f] = p[f]
  BY <1>1 DEF PageOK, PageFields
<1>3. /\ DOMAIN l = PageFields /\ DOMAIN l.loaded = G!Sections
      /\ l.loaded["app"] = IF x = "app" THEN "failed" ELSE p.loaded["app"]
      /\ \A f \in PageFields : f # "loaded" => l[f] = p[f]
  BY <1>1 DEF PageOK, PageFields
<1>4. CASE x = "app"
  <2>1. (p.call = Null \/ ~Saves(p.call)) /\ p.dialogue # "REVOKE"
    BY <1>4 DEF PageOK, CallOK, Saves
  <2>2. q = [r EXCEPT !.base = settings, !.draft = settings]
    BY <1>4 DEF G!Loaded, G!Read
  <2> HIDE DEF q, r, l
  <2>3. /\ DOMAIN q = PageFields /\ q.loaded = r.loaded /\ q.base = settings /\ q.draft = settings
        /\ q.dialogue = p.dialogue /\ q.call = p.call
    BY <1>2, <2>2 DEF PageFields
  <2>4. DraftOK(q)
    BY <2>3 DEF DraftOK, SettingsInv
  <2>5. PageOK(q)
    BY <1>2, <2>1, <2>3, <2>4, FreeOK
  <2>6. l.dialogue = p.dialogue /\ l.call = p.call /\ l.loaded["app"] # "ready"
    BY <1>3, <1>4 DEF PageFields
  <2>7. PageOK(l)
    BY <1>3, <2>1, <2>6, FreeOK
  <2> QED
    BY <2>5, <2>7, Zenon DEF q, l
<1>5. CASE x # "app"
  <2>1. \/ q = [r EXCEPT !.shown = G!Read(x)]
        \/ q = [r EXCEPT !.board = G!Read(x)]
        \/ q = [r EXCEPT !.email = G!Read(x)]
    BY <1>5, Zenon DEF G!Loaded
  <2> HIDE DEF q, r, l
  <2>2. /\ DOMAIN q = PageFields /\ q.loaded = r.loaded /\ q.base = r.base /\ q.draft = r.draft
        /\ q.typed = r.typed /\ q.dialogue = r.dialogue /\ q.call = r.call
    BY <1>2, <2>1 DEF PageFields
  <2>3. /\ r.base = p.base /\ r.draft = p.draft /\ r.typed = p.typed /\ r.dialogue = p.dialogue
        /\ r.call = p.call
    BY <1>2 DEF PageFields
  <2>4. PageOK(q)
    BY <1>2, <1>5, <2>2, <2>3, StillOK
  <2>5. /\ l.base = p.base /\ l.draft = p.draft /\ l.typed = p.typed /\ l.dialogue = p.dialogue
        /\ l.call = p.call
    BY <1>3 DEF PageFields
  <2>6. PageOK(l)
    BY <1>3, <1>5, <2>5, StillOK
  <2> QED
    BY <2>4, <2>6, Zenon DEF q, l
<1> QED
  BY <1>4, <1>5

\* A page on which the behaviour is edited: no call saves it.
LEMMA Free ==
  ASSUME SettingsInv, NEW s \in Screens, G!Usable(s, "app"), ~G!Pending(s, "APP")
  PROVE  /\ PageOK(page[s]) /\ (page[s].call = Null \/ ~Saves(page[s].call))
         /\ page[s].loaded["app"] = "ready" /\ page[s].dialogue # "REVOKE"
         /\ DraftOK(page[s])
<1>1. Null # "REVOKE"
  BY PartsOK DEF G!ConstantsOK
<1>2. PageOK(page[s]) /\ page[s].dialogue = Null /\ page[s].loaded["app"] = "ready"
  BY DEF SettingsInv, G!Usable
<1> QED
  BY <1>1, <1>2 DEF G!Pending, PageOK, CallOK, Saves

\* What is typed is known to be.
LEMMA PutOK ==
  ASSUME SettingsInv, NEW s \in Screens, G!Usable(s, "app"), ~G!Pending(s, "APP"),
         NEW f \in G!Fields, NEW v, G!Put(s, f, v), UNCHANGED settings
  PROVE  SettingsInv'
<1> DEFINE p == page[s]
           q == [p EXCEPT !.draft[f] = v, !.typed = @ \cup {f}]
<1>1. page' = [page EXCEPT ![s] = q]
  BY DEF G!Put
<1>2. /\ DOMAIN q = PageFields /\ q.loaded = p.loaded /\ q.base = p.base /\ q.dialogue = p.dialogue
      /\ q.call = p.call /\ q.draft = [p.draft EXCEPT ![f] = v] /\ q.typed = p.typed \cup {f}
  BY Free DEF PageOK, PageFields
<1> HIDE DEF q
<1>3. DraftOK(q)
  BY <1>2, Free DEF DraftOK
<1>4. PageOK(q)
  BY <1>2, <1>3, Free, FreeOK DEF PageOK
<1> QED
  BY <1>1, <1>4, PageStep DEF SettingsInv

\* A dialogue opens, closes, or a box is ticked: the draft and its call stay.
LEMMA TouchOK ==
  ASSUME SettingsInv, NEW s \in Screens, page[s] # Null, NEW p, UNCHANGED settings,
         page' = [page EXCEPT ![s] = p],
         DOMAIN p = DOMAIN page[s],
         \A f \in PageFields \ {"dialogue", "revoke"} : p[f] = page[s][f],
         \/ p.dialogue = page[s].dialogue
         \/ /\ p.dialogue = "REVOKE" => page[s].loaded["app"] = "ready"
            /\ page[s].call = Null \/ page[s].call.kind # "REVOKE"
  PROVE  SettingsInv'
<1>1. PageOK(page[s])
  BY DEF SettingsInv
<1>2. DOMAIN p = PageFields
  BY <1>1 DEF PageOK
<1>3. /\ p.loaded = page[s].loaded /\ p.draft = page[s].draft /\ p.base = page[s].base
      /\ p.typed = page[s].typed /\ p.call = page[s].call
  BY DEF PageFields
<1>4. PageOK(p)
  BY <1>1, <1>2, <1>3, StillOK DEF PageOK
<1> QED
  BY <1>4, PageStep DEF SettingsInv

\* The call of a page moves on.
LEMMA BecomesOK ==
  ASSUME SettingsInv, NEW s \in Screens, NEW status, page[s] # Null, page[s].call # Null,
         G!Becomes(s, status), DOMAIN settings' = G!Fields
  PROVE  /\ SettingsInv'
         /\ page'[s].call.status = status
<1> DEFINE p == page[s]
           c == [p.call EXCEPT !.status = status]
           q == [p EXCEPT !.call = c]
<1>1. page' = [page EXCEPT ![s] = q]
  BY Zenon DEF G!Becomes
<1>2. PageOK(p) /\ CallOK(p)
  BY DEF SettingsInv, PageOK
<1>3. DOMAIN c = DOMAIN p.call /\ c.kind = p.call.kind /\ (Saves(p.call) => c.patch = p.call.patch)
      /\ c.status = status
  BY <1>2 DEF CallOK, Saves
<1> HIDE DEF c
<1>4. /\ DOMAIN q = PageFields /\ q.loaded = p.loaded /\ q.base = p.base /\ q.dialogue = p.dialogue
      /\ q.call = c /\ q.draft = p.draft /\ q.typed = p.typed
  BY <1>2 DEF PageOK, PageFields
<1> HIDE DEF q
<1>5. PageOK(q)
  BY <1>2, <1>3, <1>4, StillOK DEF PageOK
<1>6. page'[s] = q
  BY <1>1 DEF SettingsInv
<1> QED
  BY <1>1, <1>3, <1>4, <1>5, <1>6, PageStep

\* The page without its call, whatever it shows of the rest.
LEMMA ReleasedOK ==
  ASSUME NEW p, PageOK(p)
  PROVE  /\ PageOK(G!Released(p)) /\ DOMAIN G!Released(p) = PageFields
         /\ G!Released(p).call = Null
         /\ \A f \in PageFields : f # "call" => G!Released(p)[f] = p[f]
<1> DEFINE q == G!Released(p)
<1>1. /\ DOMAIN q = PageFields /\ q.call = Null
      /\ \A f \in PageFields : f # "call" => q[f] = p[f]
  BY DEF PageOK, PageFields, G!Released
<1> HIDE DEF q
<1>2. /\ q.loaded = p.loaded /\ q.base = p.base /\ q.dialogue = p.dialogue
      /\ q.draft = p.draft /\ q.typed = p.typed
  BY <1>1 DEF PageFields
<1>3. PageOK(q)
  BY <1>1, <1>2, StillOK DEF PageOK
<1> QED
  BY <1>1, <1>3 DEF q

\* An answer that was missed.
LEMMA MissedOK ==
  ASSUME NEW p, PageOK(p)
  PROVE  PageOK(G!Missed(p))
<1> DEFINE r == G!Released(p)
           q == [r EXCEPT !.shown[p.call.key] = ~p.call.value, !.saving = Null]
<1>1. CASE p.call.kind # "PREF"
  BY <1>1, ReleasedOK DEF G!Missed
<1>2. CASE p.call.kind = "PREF"
  <2>1. G!Missed(p) = q
    BY <1>2 DEF G!Missed
  <2>2. /\ PageOK(r) /\ DOMAIN r = PageFields /\ r.call = Null
    BY ReleasedOK
  <2> HIDE DEF r
  <2>3. /\ DOMAIN q = PageFields /\ q.loaded = r.loaded /\ q.base = r.base /\ q.draft = r.draft
        /\ q.typed = r.typed /\ q.dialogue = r.dialogue /\ q.call = r.call
    BY <2>2 DEF PageFields
  <2> HIDE DEF q
  <2>4. PageOK(q)
    BY <2>2, <2>3, StillOK DEF PageOK
  <2> QED
    BY <2>1, <2>4
<1> QED
  BY <1>1, <1>2

\* The answer to a call that was stored.
LEMMA ShowsOK ==
  ASSUME SettingsInv, NEW p, PageOK(p)
  PROVE  PageOK(G!Shows(p))
<1> DEFINE r == G!Released(p)
           v == G!Shows(p)
<1>1. /\ PageOK(r) /\ DOMAIN r = PageFields /\ r.call = Null
  BY ReleasedOK
<1>2. CASE Saves(p.call)
  <2> DEFINE d == IF p.call.kind = "REVOKE" THEN Null ELSE r.dialogue
  <2>1. v = [r EXCEPT !.base = settings, !.draft = settings, !.typed = {}, !.revoke = {},
                      !.dialogue = d]
    BY <1>2, Zenon DEF G!Shows, Saves
  <2>2. Null # "REVOKE"
    BY PartsOK DEF G!ConstantsOK
  <2> HIDE DEF r, v, d
  <2>3. /\ DOMAIN v = PageFields /\ v.loaded = r.loaded /\ v.base = settings /\ v.draft = settings
        /\ v.dialogue = d /\ v.call = Null
    BY <1>1, <2>1 DEF PageFields
  <2>4. DraftOK(v)
    BY <2>3 DEF DraftOK, SettingsInv
  <2>5. d = "REVOKE" => r.loaded["app"] = "ready"
    BY <1>1, <2>2 DEF d, PageOK
  <2> QED
    BY <1>1, <2>3, <2>4, <2>5, FreeOK DEF v, PageOK
<1>3. CASE ~Saves(p.call)
  <2>1. \/ v = [r EXCEPT !.shown = prefs, !.saving = Null]
        \/ v = [r EXCEPT !.board.enabled = p.call.value, !.dialogue = Null]
        \/ v = [r EXCEPT !.board.hasCode = TRUE, !.dialogue = Null]
        \/ v = [r EXCEPT !.email = G!Read("email")]
    BY <1>3, Zenon DEF G!Shows, Saves
  <2>2. Null # "REVOKE"
    BY PartsOK DEF G!ConstantsOK
  <2> HIDE DEF r, v
  <2>3. /\ DOMAIN v = PageFields /\ v.loaded = r.loaded /\ v.base = r.base /\ v.draft = r.draft
        /\ v.typed = r.typed /\ v.call = r.call /\ v.dialogue \in {r.dialogue, Null}
    BY <1>1, <2>1 DEF PageFields
  <2>4. PageOK(v)
    BY <1>1, <2>2, <2>3, StillOK DEF PageOK
  <2> QED
    BY <2>4 DEF v
<1> QED
  BY <1>2, <1>3

\* What the administrator does on a page, and its readings.
LEMMA EditingKept ==
  ASSUME SettingsInv, UNCHANGED settings, NEW s \in Screens,
         \/ G!Open(s) \/ G!Leave(s) \/ \E x \in G!Sections : G!Load(s, x)
         \/ G!Type(s) \/ G!SwitchExpiry(s) \/ G!ResetAppSettings(s)
         \/ \E scope \in Scopes : G!CheckRevocation(s, scope)
         \/ \E kind \in {"TOGGLE", "CODE"} : G!AskBoard(s, kind)
         \/ G!CloseDialogue(s)
  PROVE  SettingsInv'
<1> DEFINE p == page[s]
<1>1. Null # "REVOKE" /\ DOMAIN settings' = G!Fields
  BY PartsOK DEF G!ConstantsOK, SettingsInv
<1>2. CASE G!Open(s)
  <2>1. PageOK(G!Mounted)
    BY <1>1 DEF PageOK, PageFields, G!Mounted, G!Sections
  <2> QED
    BY <1>1, <1>2, <2>1, PageStep DEF G!Open
<1>3. CASE G!Leave(s)
  BY <1>1, <1>3, PageStep DEF G!Leave
<1>4. ASSUME NEW x \in G!Sections, G!Load(s, x) PROVE SettingsInv'
  <2>1. PageOK(p) /\ p.loaded[x] = "loading"
    BY <1>4 DEF G!Load, SettingsInv
  <2>2. /\ PageOK(G!Loaded(p, x)) /\ PageOK([p EXCEPT !.loaded[x] = "failed"])
    BY <2>1, LoadOK
  <2>3. \/ page' = [page EXCEPT ![s] = G!Loaded(p, x)]
        \/ page' = [page EXCEPT ![s] = Null]
        \/ page' = [page EXCEPT ![s].loaded[x] = "failed"]
    BY <1>4, Zenon DEF G!Load
  <2> DEFINE l == [p EXCEPT !.loaded[x] = "failed"]
  <2>4. page' = [page EXCEPT ![s].loaded[x] = "failed"] => page' = [page EXCEPT ![s] = l]
    BY Zenon
  <2> HIDE DEF l
  <2>5. PageOK(l)
    BY <2>2 DEF l
  <2> QED
    BY <1>1, <2>2, <2>3, <2>4, <2>5, PageStep
<1>5. CASE G!Type(s)
  <2>1. /\ G!Usable(s, "app") /\ ~G!Pending(s, "APP")
        /\ \E f \in G!Fields : \E v : G!Put(s, f, v)
    BY <1>5 DEF G!Type, G!Fields, G!Ttl
  <2> QED
    BY <2>1, PutOK
<1>6. CASE G!SwitchExpiry(s)
  <2>1. /\ G!Usable(s, "app") /\ ~G!Pending(s, "APP")
        /\ \E v : G!Put(s, G!Ttl, v)
    BY <1>6, Zenon DEF G!SwitchExpiry
  <2>2. G!Ttl \in G!Fields
    BY DEF G!Fields, G!Ttl
  <2> QED
    BY <2>1, <2>2, PutOK
<1>7. CASE G!ResetAppSettings(s)
  <2> DEFINE q == [p EXCEPT !.draft = p.base, !.typed = {}, !.revoke = {}]
  <2>1. G!Usable(s, "app") /\ ~G!Pending(s, "APP") /\ page' = [page EXCEPT ![s] = q]
    BY <1>7 DEF G!ResetAppSettings
  <2>2. /\ PageOK(p) /\ (p.call = Null \/ ~Saves(p.call))
        /\ p.loaded["app"] = "ready" /\ DraftOK(p)
    BY <2>1, Free
  <2>3. /\ DOMAIN q = PageFields /\ q.loaded = p.loaded /\ q.base = p.base /\ q.draft = p.base
        /\ q.dialogue = p.dialogue /\ q.call = p.call
    BY <2>2 DEF PageOK, PageFields
  <2> HIDE DEF q
  <2>4. DraftOK(q)
    BY <2>2, <2>3 DEF DraftOK
  <2>5. PageOK(q)
    BY <2>2, <2>3, <2>4, FreeOK DEF PageOK
  <2> QED
    BY <1>1, <2>1, <2>5, PageStep
<1>8. ASSUME NEW scope, G!CheckRevocation(s, scope) PROVE SettingsInv'
  <2> DEFINE new == IF scope \in p.revoke THEN p.revoke \ {scope} ELSE p.revoke \cup {scope}
             q == [p EXCEPT !.revoke = new]
  <2>1. page' = [page EXCEPT ![s] = q] /\ page[s] # Null
    BY <1>8 DEF G!CheckRevocation, G!Usable
  <2> HIDE DEF new
  <2>2. /\ DOMAIN q = DOMAIN p
        /\ \A f \in PageFields \ {"dialogue", "revoke"} : q[f] = p[f]
        /\ q.dialogue = p.dialogue
    BY <2>1 DEF SettingsInv, PageOK, PageFields
  <2> HIDE DEF q
  <2> QED
    BY <2>1, <2>2, TouchOK
<1>9. ASSUME NEW kind \in {"TOGGLE", "CODE"}, G!AskBoard(s, kind) PROVE SettingsInv'
  <2> DEFINE q == [p EXCEPT !.dialogue = kind]
  <2>1. page' = [page EXCEPT ![s] = q] /\ page[s] # Null /\ p.dialogue = Null
    BY <1>9 DEF G!AskBoard, G!Usable
  <2>2. /\ DOMAIN q = DOMAIN p
        /\ \A f \in PageFields \ {"dialogue", "revoke"} : q[f] = p[f]
        /\ q.dialogue = kind
    BY <2>1 DEF SettingsInv, PageOK, PageFields
  <2>3. p.call = Null \/ p.call.kind # "REVOKE"
    BY <1>1, <2>1 DEF SettingsInv, PageOK, CallOK
  <2> HIDE DEF q
  <2> QED
    BY <2>1, <2>2, <2>3, TouchOK
<1>10. CASE G!CloseDialogue(s)
  <2> DEFINE q == [p EXCEPT !.dialogue = Null]
  <2>1. page' = [page EXCEPT ![s] = q] /\ page[s] # Null /\ ~G!Confirming(s)
    BY <1>10 DEF G!CloseDialogue
  <2>2. /\ DOMAIN q = DOMAIN p
        /\ \A f \in PageFields \ {"dialogue", "revoke"} : q[f] = p[f]
        /\ q.dialogue = Null
    BY <2>1 DEF SettingsInv, PageOK, PageFields
  <2>3. p.call = Null \/ p.call.kind # "REVOKE"
    BY <2>1 DEF SettingsInv, PageOK, CallOK, G!Confirming
  <2> HIDE DEF q
  <2> QED
    BY <1>1, <2>1, <2>2, <2>3, TouchOK
<1> QED
  BY <1>2, <1>3, <1>4, <1>5, <1>6, <1>7, <1>8, <1>9, <1>10

\* The orders of a page.
LEMMA OrdersKept ==
  ASSUME SettingsInv, UNCHANGED settings, NEW s \in Screens,
         \/ G!SubmitAppSettings(s) \/ G!Confirm(s) \/ G!SubmitEmail(s) \/ G!SubmitPassword(s)
         \/ \E k \in Prefs : G!HandleToggle(s, k)
  PROVE  SettingsInv'
<1> DEFINE p == page[s]
<1>1. Null # "REVOKE" /\ DOMAIN settings' = G!Fields
  BY PartsOK DEF G!ConstantsOK, SettingsInv
<1>2. PageOK(p)
  BY DEF SettingsInv, G!SubmitAppSettings, G!Confirm, G!SubmitEmail, G!SubmitPassword,
         G!HandleToggle, G!Usable
<1>3. CASE G!SubmitAppSettings(s)
  <2> DEFINE q == [p EXCEPT !.dialogue = "REVOKE"]
  <2>1. /\ G!Usable(s, "app") /\ ~G!Pending(s, "APP")
        /\ page' = [page EXCEPT ![s] = q] \/ page' = [page EXCEPT ![s] = G!Save(p, "APP")]
    BY <1>3 DEF G!SubmitAppSettings
  <2>2. (p.call = Null \/ ~Saves(p.call)) /\ p.loaded["app"] = "ready" /\ DraftOK(p)
    BY <2>1, Free
  <2>3. /\ DOMAIN q = PageFields /\ q.loaded = p.loaded /\ q.base = p.base /\ q.draft = p.draft
        /\ q.typed = p.typed /\ q.call = p.call
    BY <1>2 DEF PageOK, PageFields
  <2> HIDE DEF q
  <2>4. DraftOK(q)
    BY <2>2, <2>3 DEF DraftOK
  <2>5. PageOK(q)
    BY <1>2, <2>2, <2>3, <2>4, FreeOK DEF PageOK
  <2>6. PageOK(G!Save(p, "APP"))
    BY <1>2, <2>2, SaveOK
  <2> QED
    BY <1>1, <2>1, <2>5, <2>6, PageStep
<1>4. CASE G!Confirm(s)
  <2> DEFINE toggle == [kind |-> "TOGGLE", value |-> ~p.board.enabled]
             code == [kind |-> "CODE"]
  <2>1. \/ p.dialogue = "REVOKE" /\ page' = [page EXCEPT ![s] = G!Save(p, "REVOKE")]
        \/ page' = [page EXCEPT ![s] = G!Execute(p, toggle)]
        \/ page' = [page EXCEPT ![s] = G!Execute(p, code)]
    BY <1>4, Zenon DEF G!Confirm
  <2>2. /\ "kind" \in DOMAIN toggle /\ "kind" \in DOMAIN code
        /\ ~Saves(toggle) /\ ~Saves(code)
    BY DEF Saves
  <2> HIDE DEF toggle, code
  <2>3. PageOK(G!Execute(p, toggle)) /\ PageOK(G!Execute(p, code))
    BY <1>2, <2>2, ExecuteOther
  <2>4. p.dialogue = "REVOKE" => PageOK(G!Save(p, "REVOKE"))
    BY <1>2, SaveOK DEF PageOK
  <2> QED
    BY <1>1, <2>1, <2>3, <2>4, PageStep
<1>5. CASE G!SubmitEmail(s)
  <2>1. PICK o \in G!AddressOrders(p) : page' = [page EXCEPT ![s] = G!Execute(p, o)]
    BY <1>5 DEF G!SubmitEmail
  <2>2. "kind" \in DOMAIN o /\ ~Saves(o)
    BY DEF G!AddressOrders, Saves
  <2> QED
    BY <1>1, <1>2, <2>1, <2>2, ExecuteOther, PageStep
<1>6. CASE G!SubmitPassword(s)
  <2> DEFINE o == [kind |-> "PASSWORD"]
  <2>1. page' = [page EXCEPT ![s] = G!Execute(p, o)]
    BY <1>6 DEF G!SubmitPassword
  <2>2. "kind" \in DOMAIN o /\ ~Saves(o)
    BY DEF Saves
  <2> HIDE DEF o
  <2> QED
    BY <1>1, <1>2, <2>1, <2>2, ExecuteOther, PageStep
<1>7. ASSUME NEW k \in Prefs, G!HandleToggle(s, k) PROVE SettingsInv'
  <2> DEFINE value == ~p.shown[k]
             q == [p EXCEPT !.shown[k] = value, !.saving = k]
             o == [kind |-> "PREF", key |-> k, value |-> value]
  <2>1. page' = [page EXCEPT ![s] = G!Execute(q, o)]
    BY <1>7 DEF G!HandleToggle
  <2>2. "kind" \in DOMAIN o /\ ~Saves(o)
    BY DEF Saves
  <2> HIDE DEF o, value
  <2>3. /\ DOMAIN q = PageFields /\ q.loaded = p.loaded /\ q.base = p.base /\ q.draft = p.draft
        /\ q.typed = p.typed /\ q.call = p.call /\ q.dialogue = p.dialogue
    BY <1>2 DEF PageOK, PageFields
  <2> HIDE DEF q
  <2>4. PageOK(q)
    BY <1>2, <2>3, StillOK DEF PageOK
  <2> QED
    BY <1>1, <2>1, <2>2, <2>4, ExecuteOther, PageStep
<1> QED
  BY <1>3, <1>4, <1>5, <1>6, <1>7

\* What the service does to a call, and the answers.
LEMMA ServiceKept ==
  ASSUME SettingsInv, UNCHANGED settings, NEW s \in Screens,
         \/ G!Refuse(s) \/ G!PatchNotifPrefs(s) \/ G!PatchBoard(s) \/ G!CheckEmail(s)
         \/ G!UpdateEmail(s) \/ G!ChangePassword(s) \/ G!Answer(s) \/ G!Fail(s)
  PROVE  SettingsInv'
<1> DEFINE p == page[s]
<1>1. p # Null /\ p.call # Null /\ DOMAIN settings' = G!Fields
  BY DEF SettingsInv, G!Refuse, G!PatchNotifPrefs, G!PatchBoard, G!CheckEmail, G!UpdateEmail,
         G!ChangePassword, G!InService, G!Answer, G!Fail
<1>2. PageOK(p)
  BY <1>1 DEF SettingsInv
<1>3. CASE G!Answer(s) \/ G!Fail(s)
  <2>1. \/ page' = [page EXCEPT ![s] = Null]
        \/ page' = [page EXCEPT ![s] = G!Shows(p)]
        \/ page' = [page EXCEPT ![s] = G!Missed(p)]
    BY <1>3 DEF G!Answer, G!Fail
  <2> QED
    BY <1>1, <1>2, <2>1, ShowsOK, MissedOK, PageStep
<1>4. ASSUME NEW status, G!Becomes(s, status) PROVE SettingsInv'
  BY <1>1, <1>4, BecomesOK
<1> QED
  BY <1>3, <1>4, Zenon DEF G!Refuse, G!PatchNotifPrefs, G!PatchBoard, G!CheckEmail, G!UpdateEmail,
         G!ChangePassword

\* The transaction of a save, the only step that changes the settings.
LEMMA PatchKept ==
  ASSUME SettingsInv, NEW s \in Screens, G!PatchAppSettings(s)
  PROVE  /\ SettingsInv' /\ page[s] # Null /\ page'[s].call # page[s].call
         /\ \A f \in G!Fields : settings'[f] # settings[f] =>
              f \in page[s].typed /\ settings'[f] = page[s].draft[f]
<1> DEFINE p == page[s]
           c == p.call
<1>1. /\ p # Null /\ c # Null /\ Saves(c) /\ c.status = "sent"
      /\ settings' = G!Merged(c.patch, settings) /\ G!Becomes(s, "stored")
  BY DEF G!PatchAppSettings, G!InService, Saves
<1>2. PageOK(p) /\ CallOK(p)
  BY <1>1 DEF SettingsInv, PageOK
<1>3. \A f \in DOMAIN c.patch : f \in G!Fields /\ f \in p.typed /\ c.patch[f] = p.draft[f]
  BY <1>1, <1>2 DEF CallOK, Saves
<1>4. /\ DOMAIN settings' = G!Fields
      /\ \A f \in G!Fields : settings'[f] = IF f \in DOMAIN c.patch THEN c.patch[f] ELSE settings[f]
  <2> DEFINE patch == c.patch
  <2>1. DOMAIN patch \subseteq G!Fields
    BY <1>3
  <2> HIDE DEF patch
  <2>2. settings' = G!Merged(patch, settings)
    BY <1>1 DEF patch
  <2>3. /\ DOMAIN settings' = G!Fields
        /\ \A f \in G!Fields : settings'[f] = IF f \in DOMAIN patch THEN patch[f] ELSE settings[f]
    BY <2>1, <2>2 DEF G!Merged, SettingsInv
  <2> QED
    BY <2>3 DEF patch
<1>5. SettingsInv' /\ page'[s].call.status = "stored"
  BY <1>1, <1>4, BecomesOK
<1>6. page'[s].call # c
  BY <1>1, <1>5
<1> QED
  BY <1>1, <1>3, <1>4, <1>5, <1>6

\* For any number of browsers, however old their pages and whatever was lost, a
\* setting changes only to what was typed for it on the page that saves it.
THEOREM SavesOnlyTyped == G!Spec => SaveTouchesOnlyTyped
<1> DEFINE Typed ==
      \A f \in G!Fields : settings'[f] # settings[f] =>
        \E s \in Screens :
          /\ page[s] # Null /\ page'[s].call # page[s].call
          /\ f \in page[s].typed /\ settings'[f] = page[s].draft[f]
<1>1. G!Init => SettingsInv
  BY DEF G!Init, SettingsInv
<1>2. ASSUME SettingsInv, G!Next PROVE SettingsInv' /\ Typed
  <2>1. PICK s \in Screens :
          \/ G!Open(s) \/ G!Leave(s)
          \/ \E x \in G!Sections : G!Load(s, x)
          \/ G!Type(s) \/ G!SwitchExpiry(s) \/ G!ResetAppSettings(s) \/ G!SubmitAppSettings(s)
          \/ \E scope \in Scopes : G!CheckRevocation(s, scope)
          \/ \E k \in Prefs : G!HandleToggle(s, k)
          \/ \E kind \in {"TOGGLE", "CODE"} : G!AskBoard(s, kind)
          \/ G!Confirm(s) \/ G!CloseDialogue(s) \/ G!SubmitEmail(s) \/ G!SubmitPassword(s)
          \/ G!Refuse(s) \/ G!PatchAppSettings(s) \/ G!PatchNotifPrefs(s) \/ G!PatchBoard(s)
          \/ G!CheckEmail(s) \/ G!UpdateEmail(s) \/ G!ChangePassword(s)
          \/ G!Answer(s) \/ G!Fail(s)
    BY <1>2, Zenon DEF G!Next
  <2>2. CASE G!PatchAppSettings(s)
    BY <1>2, <2>2, PatchKept
  <2>3. CASE UNCHANGED settings
    <3>1. Typed
      BY <2>3
    <3>2. SettingsInv'
      BY <1>2, <2>1, <2>2, <2>3, EditingKept, OrdersKept, ServiceKept, PatchKept, Zenon
    <3> QED
      BY <3>1, <3>2
  <2>4. G!PatchAppSettings(s) \/ UNCHANGED settings
    BY <2>1 DEF G!Open, G!Leave, G!Load, G!Type, G!SwitchExpiry, G!ResetAppSettings,
                G!SubmitAppSettings, G!CheckRevocation, G!HandleToggle, G!AskBoard, G!Confirm,
                G!CloseDialogue, G!SubmitEmail, G!SubmitPassword, G!Refuse, G!PatchNotifPrefs,
                G!PatchBoard, G!CheckEmail, G!UpdateEmail, G!ChangePassword, G!Answer, G!Fail,
                G!row
  <2> QED
    BY <2>2, <2>3, <2>4
<1>3. ASSUME SettingsInv, UNCHANGED G!vars PROVE SettingsInv'
  BY <1>3 DEF SettingsInv, G!vars
<1>4. SettingsInv /\ [G!Next]_(G!vars) => SettingsInv' /\ [Typed]_(G!vars)
  BY <1>2, <1>3
<1> QED
  BY <1>1, <1>4, PTL DEF G!Spec, SaveTouchesOnlyTyped, G!SaveTouchesOnlyTyped

-----------------------------------------------------------------------------
\* The behaviours that the run follows are behaviours of the parts, so that what
\* is proved of a part holds of them.
THEOREM PartsFollowed == AccessSpec => A!Spec /\ R!Spec
<1>1. AccessInit => A!Init /\ R!Init
  BY DEF AccessInit
<1>2. [AccessNext]_allVars => [A!Next]_(A!vars) /\ [R!Next]_(R!vars)
  BY Zenon DEF AccessNext, allVars, administratorVars, rateLimitVars, settingsVars, A!vars, R!vars
<1> QED
  BY <1>1, <1>2, PTL DEF AccessSpec, A!Spec, R!Spec
=============================================================================
