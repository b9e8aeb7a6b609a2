--------------------------- MODULE Administrator ----------------------------
(***************************************************************************)
(* The row of admin_accounts: the administrator's password and sessions,   *)
(* and the code and sessions of the board, which he governs                *)
(* (modules/adminSecurity, adminSettings, adminCredentials, board, auth).  *)
(*                                                                         *)
(* Each request reads, verifies a secret slowly, and writes: steps of its  *)
(* own.  A hash stands for its secret; a board code is kept with the       *)
(* format of its hash, SHA-256 (legacy) or bcrypt.                         *)
(***************************************************************************)
EXTENDS Naturals, FiniteSets

CONSTANTS
  Passwords,    \* passwords of the administrator
  Codes,        \* board codes
  EnvCode,      \* the code of BOARD_ACCESS_CODE_HASH, or Null
  LegacyCode,   \* the code that an old release stored as SHA-256, or Null
  Orders,       \* the orders the administrator gives
  Requests,     \* requests that may run at once
  MaxFailures,  \* REAUTH_MAX_FAILURES
  MaxVersions,  \* bound on the sum of both session versions
  MaxTokens,    \* bound on the sessions of each kind that are open at once
  Null

ConstantsOK ==
  /\ Null \notin Codes /\ Null \notin Passwords
  /\ {EnvCode, LegacyCode} \subseteq Codes \cup {Null}
  /\ MaxFailures \in Nat \ {0} /\ MaxVersions \in Nat /\ MaxTokens \in Nat

VARIABLES
  admin,        \* the row
  failures,     \* failed re-authentications in a row (memory of the server)
  request,      \* request[r]: what request r does and has read
  adminTokens,  \* sessions of the administrator that have not expired
  boardTokens,  \* sessions of the board that have not expired
  replaced      \* history: board codes that the settings replaced

vars == <<admin, failures, request, adminTokens, boardTokens, replaced>>
----------------------------------------------------------------------------
\* What the administrator may ask for under his password.
AllOrders == [kind : {"PASSWORD"}, password : Passwords]
               \cup [kind : {"TOGGLE"}, enabled : BOOLEAN]
               \cup [kind : {"CODE"}, code : Codes]
               \cup [kind : {"REVOKE"}, scopes : SUBSET {"admin", "board"}]
               \cup [kind : {"VERIFY"}]

\* A handler that does not run.
Idle == [type |-> "NONE"]

Init ==
  /\ \E p \in Passwords :
       admin = [password |-> p, version |-> 1, enabled |-> TRUE, code |-> LegacyCode,
                legacy |-> LegacyCode # Null, boardVersion |-> 0]
  /\ failures = 0
  /\ request = [r \in Requests |-> Idle]
  /\ adminTokens = {}
  /\ boardTokens = {}
  /\ replaced = {}

AdminAccepted(t) == t.version = admin.version

BoardAccepted(t) == admin.enabled /\ t.version = admin.boardVersion

\* The stored code, or else the one of the environment.
ActiveCode == IF admin.code # Null THEN admin.code ELSE EnvCode

Room == admin.version + admin.boardVersion < MaxVersions

Goes(r, what) == request' = [request EXCEPT ![r] = what]
Starts(r, what) == request[r] = Idle /\ Goes(r, what)
Ends(r) == Goes(r, Idle)
Is(r, type, phase) == request[r] # Idle /\ request[r].type = type /\ request[r].phase = phase
----------------------------------------------------------------------------
(* Login with the right password: the hash is read and verified, and then   *)
(* the session version is read.                                            *)

ReadLogin(r) ==
  /\ Starts(r, [type |-> "LOGIN", phase |-> "VERIFYING", given |-> admin.password])
  /\ UNCHANGED <<admin, failures, adminTokens, boardTokens, replaced>>

OpenAdminSession(r) ==
  /\ Is(r, "LOGIN", "VERIFYING")
  /\ Cardinality(adminTokens) < MaxTokens
  /\ adminTokens' = adminTokens \cup {[version |-> admin.version, secret |-> request[r].given]}
  /\ Ends(r)
  /\ UNCHANGED <<admin, failures, boardTokens, replaced>>
----------------------------------------------------------------------------
(* An order of the administrator: session, re-authentication, transaction. *)

Authenticate(r, t, order, p) ==
  /\ AdminAccepted(t)
  /\ Starts(r, [type |-> "ORDER", phase |-> "AUTHENTICATED", order |-> order, given |-> p])
  /\ UNCHANGED <<admin, failures, adminTokens, boardTokens, replaced>>

\* reauthenticateAdmin, from the reading of the hash to its verdict.
ReadHash(r) ==
  /\ Is(r, "ORDER", "AUTHENTICATED")
  /\ Goes(r, [type |-> "ORDER", phase |-> "VERIFYING", order |-> request[r].order,
              right |-> request[r].given = admin.password])
  /\ UNCHANGED <<admin, failures, adminTokens, boardTokens, replaced>>

After(r, phase) == [type |-> "ORDER", phase |-> phase, order |-> request[r].order]

Reauthenticate(r) ==
  /\ Is(r, "ORDER", "VERIFYING")
  /\ request[r].right
  /\ failures' = 0
  /\ Goes(r, After(r, "CONFIRMED"))
  /\ UNCHANGED <<admin, adminTokens, boardTokens, replaced>>

RejectPassword(r) ==
  /\ Is(r, "ORDER", "VERIFYING")
  /\ ~request[r].right
  /\ IF failures + 1 >= MaxFailures
       THEN failures' = 0 /\ Goes(r, After(r, "REVOKING"))
       ELSE failures' = failures + 1 /\ Ends(r)
  /\ UNCHANGED <<admin, adminTokens, boardTokens, replaced>>

RevokeAfterFailures(r) ==
  /\ Is(r, "ORDER", "REVOKING")
  /\ Room
  /\ admin' = [admin EXCEPT !.version = @ + 1]
  /\ Ends(r)
  /\ UNCHANGED <<failures, adminTokens, boardTokens, replaced>>

\* The window of failures passes, or the server restarts.
ForgetFailures ==
  /\ failures # 0
  /\ failures' = 0
  /\ UNCHANGED <<admin, request, adminTokens, boardTokens, replaced>>

Confirmed(r, kind) == Is(r, "ORDER", "CONFIRMED") /\ request[r].order.kind = kind

VerifyPassword(r) ==
  /\ Confirmed(r, "VERIFY")
  /\ Ends(r)
  /\ UNCHANGED <<admin, failures, adminTokens, boardTokens, replaced>>

ChangePassword(r) ==
  /\ Confirmed(r, "PASSWORD")
  /\ Room
  /\ admin' = [admin EXCEPT !.password = request[r].order.password, !.version = @ + 1]
  /\ Ends(r)
  /\ UNCHANGED <<failures, adminTokens, boardTokens, replaced>>

\* Mutant of PatchBoardToggle: disabling the board revokes none of its sessions.
PatchBoardToggleOnly(r) ==
  /\ Confirmed(r, "TOGGLE")
  /\ admin' = [admin EXCEPT !.enabled = request[r].order.enabled]
  /\ Ends(r)
  /\ UNCHANGED <<failures, adminTokens, boardTokens, replaced>>

PatchBoardToggle(r) ==
  /\ Confirmed(r, "TOGGLE")
  /\ Room
  /\ LET enabled == request[r].order.enabled IN
       admin' = [admin EXCEPT !.enabled = enabled,
                              !.boardVersion = IF enabled THEN @ ELSE @ + 1]
  /\ Ends(r)
  /\ UNCHANGED <<failures, adminTokens, boardTokens, replaced>>

\* Mutant of PatchBoardCode: the sessions of the former code are kept.
PatchBoardCodeOnly(r) ==
  /\ Confirmed(r, "CODE")
  /\ LET code == request[r].order.code IN
       /\ admin' = [admin EXCEPT !.code = code, !.legacy = FALSE]
       /\ replaced' = (replaced \cup ({ActiveCode} \ {Null})) \ {code}
  /\ Ends(r)
  /\ UNCHANGED <<failures, adminTokens, boardTokens>>

PatchBoardCode(r) ==
  /\ Confirmed(r, "CODE")
  /\ Room
  /\ LET code == request[r].order.code IN
       /\ admin' = [admin EXCEPT !.code = code, !.legacy = FALSE, !.boardVersion = @ + 1]
       /\ replaced' = (replaced \cup ({ActiveCode} \ {Null})) \ {code}
  /\ Ends(r)
  /\ UNCHANGED <<failures, adminTokens, boardTokens>>

RevokeSessions(r) ==
  /\ Confirmed(r, "REVOKE")
  /\ Room
  /\ LET Bump(scope) == IF scope \in request[r].order.scopes THEN 1 ELSE 0 IN
       admin' = [admin EXCEPT !.version = @ + Bump("admin"),
                              !.boardVersion = @ + Bump("board")]
  /\ Ends(r)
  /\ UNCHANGED <<failures, adminTokens, boardTokens, replaced>>

\* The operator's script reset-admin-password.
ResetAdminPassword(p) ==
  /\ Room
  /\ admin' = [admin EXCEPT !.password = p, !.version = @ + 1]
  /\ UNCHANGED <<failures, request, adminTokens, boardTokens, replaced>>
----------------------------------------------------------------------------
(* A screen opens a session of the board with the right code. *)

\* The hash in force is the stored one, in the old format.
MustUpgrade == admin.code # Null /\ admin.legacy

ReadBoardSettings(r) ==
  /\ admin.enabled
  /\ ActiveCode # Null
  /\ Starts(r, [type |-> "BOARD", phase |-> "VERIFYING",
                seen |-> [code |-> ActiveCode, upgrade |-> MustUpgrade,
                          version |-> admin.boardVersion]])
  /\ UNCHANGED <<admin, failures, adminTokens, boardTokens, replaced>>

\* upgradeBoardCodeHash writes the hash of the code that was verified.
UpgradeBoardCodeHash(r) ==
  /\ Is(r, "BOARD", "VERIFYING")
  /\ request[r].seen.upgrade
  /\ admin' = [admin EXCEPT !.code = request[r].seen.code, !.legacy = FALSE]
  /\ Goes(r, [request[r] EXCEPT !.phase = "VERIFIED"])
  /\ UNCHANGED <<failures, adminTokens, boardTokens, replaced>>

OpenBoardSession(r) ==
  /\ \/ Is(r, "BOARD", "VERIFYING") /\ ~request[r].seen.upgrade
     \/ Is(r, "BOARD", "VERIFIED")
  /\ Cardinality(boardTokens) < MaxTokens
  /\ boardTokens' = boardTokens \cup {[version |-> request[r].seen.version,
                                       code |-> request[r].seen.code]}
  /\ Ends(r)
  /\ UNCHANGED <<admin, failures, adminTokens, replaced>>

TokenExpires ==
  /\ \/ \E t \in adminTokens : adminTokens' = adminTokens \ {t} /\ UNCHANGED boardTokens
     \/ \E t \in boardTokens : boardTokens' = boardTokens \ {t} /\ UNCHANGED adminTokens
  /\ UNCHANGED <<admin, failures, request, replaced>>
----------------------------------------------------------------------------
Login(r) == ReadLogin(r) \/ OpenAdminSession(r)

Order(r) == \/ \E t \in adminTokens, order \in Orders, p \in Passwords :
                 Authenticate(r, t, order, p)
            \/ ReadHash(r)
            \/ Reauthenticate(r)
            \/ RejectPassword(r)
            \/ RevokeAfterFailures(r)
            \/ VerifyPassword(r)
            \/ ChangePassword(r)
            \/ PatchBoardToggle(r)
            \/ PatchBoardCode(r)
            \/ RevokeSessions(r)

Screen(r) == ReadBoardSettings(r) \/ UpgradeBoardCodeHash(r) \/ OpenBoardSession(r)

Next == \/ \E r \in Requests : Login(r) \/ Order(r) \/ Screen(r)
        \/ ForgetFailures
        \/ \E p \in Passwords : ResetAdminPassword(p)
        \/ TokenExpires

Spec == Init /\ [][Next]_vars
----------------------------------------------------------------------------
(* Properties. *)

\* A session that was refused stays so, the board's even when the board is
\* switched off and on again.
RevokedStaysRevoked ==
  [][/\ \A t \in adminTokens \cap adminTokens' : AdminAccepted(t)' => AdminAccepted(t)
     /\ \A t \in boardTokens \cap boardTokens' : BoardAccepted(t)' => BoardAccepted(t)]_vars

\* A screen that is admitted gave the code in force, and a code that the settings
\* replaced opens no session.  Only the code of an old release can come back,
\* when the upgrade of its hash, computed before the change, is written after it.
BoardSessionOfCurrentCode ==
  /\ ActiveCode \in replaced => admin.code = LegacyCode
  /\ \A t \in boardTokens :
       BoardAccepted(t) => t.code = ActiveCode \/ ActiveCode \in replaced
=============================================================================
