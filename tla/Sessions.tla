------------------------------ MODULE Sessions ------------------------------
(***************************************************************************)
(* Workshop accounts as their owners log in with them: temporary codes,    *)
(* passwords, badges and the session versions that revoke tokens           *)
(* (modules/workshopCredentials, modules/auth, modules/accounts).          *)
(*                                                                         *)
(* Verifying a secret is slow (bcrypt), so a login works on the row it     *)
(* read while the administrator writes it.  A hash stands for its secret;  *)
(* a temporary code is the rank of its generation, 0 being none.           *)
(***************************************************************************)
EXTENDS Naturals, FiniteSets

CONSTANTS
  Users,        \* identities of rows of sentinel_users
  Badges,       \* badge numbers
  Secrets,      \* passwords a person may choose or try
  Logins,       \* requests of login that may run at once
  Null,         \* SQL NULL
  MaxVersion,   \* bound on the session version of an account
  MaxCodes,     \* bound on the temporary codes generated
  MaxTokens     \* bound on the sessions that are open at once

ASSUME NullAssumption == Null \notin Secrets /\ Null \notin Badges /\ Null \notin Users

VARIABLES
  account,      \* account[u]: the row of u
  lastCode,     \* how many codes were generated
  login,        \* login[r]: a login in flight and the row it read
  tokens        \* the signed tokens that have not expired

vars == <<account, lastCode, login, tokens>>
----------------------------------------------------------------------------
Account == [status : {"ABSENT", "ACTIVE", "INACTIVE", "DELETED"},
            badge : Badges \cup {Null},
            password : Secrets \cup {Null},
            code : Nat, expired : BOOLEAN, version : Nat]

Token == [user : Users, badge : Badges, version : Nat, secret : Secrets]

\* A login tries a password (code = 0), or a code with the password it sets.
Attempt == [phase : {"VERIFYING"}, user : Users, secret : Secrets, code : Nat,
            row : Account]

NoAttempt == [phase |-> "IDLE"]

NoAccount == [status |-> "ABSENT", badge |-> Null, password |-> Null,
              code |-> 0, expired |-> FALSE, version |-> 0]

Init ==
  /\ account = [u \in Users |-> NoAccount]
  /\ lastCode = 0
  /\ login = [r \in Logins |-> NoAttempt]
  /\ tokens = {}

Exists(u) == account[u].status \in {"ACTIVE", "INACTIVE"}

\* The unique index of the badges of accounts that are not deleted.
BadgeFree(b) == \A u \in Users : Exists(u) => account[u].badge # b

\* The test of every route of the workshop, of the board and of /me.
Accepted(t) ==
  /\ account[t.user].status = "ACTIVE"
  /\ account[t.user].badge = t.badge
  /\ account[t.user].password # Null
  /\ account[t.user].version = t.version
----------------------------------------------------------------------------
(* The administrator. *)

Written(u, row) == account' = [account EXCEPT ![u] = row]

\* UPDATE ... SET session_version = session_version + 1
Revoked(row) == [row EXCEPT !.version = @ + 1]

MayRevoke(u) == account[u].version < MaxVersion

CreateAccount(u, b) ==
  /\ account[u].status = "ABSENT"
  /\ BadgeFree(b)
  /\ lastCode < MaxCodes
  /\ lastCode' = lastCode + 1
  /\ Written(u, [NoAccount EXCEPT !.status = "ACTIVE", !.badge = b,
                                  !.code = lastCode + 1])
  /\ UNCHANGED <<login, tokens>>

ResetPassword(u) ==
  /\ account[u].status = "ACTIVE"
  /\ MayRevoke(u)
  /\ lastCode < MaxCodes
  /\ lastCode' = lastCode + 1
  /\ Written(u, Revoked([account[u] EXCEPT !.password = Null, !.expired = FALSE,
                                           !.code = lastCode + 1]))
  /\ UNCHANGED <<login, tokens>>

\* Mutant of SetActive: the sessions are not revoked.
SetActiveKeepingSessions(u, status) ==
  /\ Exists(u)
  /\ account[u].status # status
  /\ Written(u, [account[u] EXCEPT !.status = status])
  /\ UNCHANGED <<lastCode, login, tokens>>

SetActive(u, status) ==
  /\ Exists(u)
  /\ account[u].status # status
  /\ MayRevoke(u)
  /\ Written(u, Revoked([account[u] EXCEPT !.status = status]))
  /\ UNCHANGED <<lastCode, login, tokens>>

ChangeBadge(u, b) ==
  /\ Exists(u)
  /\ account[u].badge # b
  /\ BadgeFree(b)
  /\ MayRevoke(u)
  /\ Written(u, Revoked([account[u] EXCEPT !.badge = b]))
  /\ UNCHANGED <<lastCode, login, tokens>>

ChangeRole(u) ==
  /\ Exists(u)
  /\ MayRevoke(u)
  /\ Written(u, Revoked(account[u]))
  /\ UNCHANGED <<lastCode, login, tokens>>

DeleteAccount(u) ==
  /\ Exists(u)
  /\ MayRevoke(u)
  /\ Written(u, Revoked([NoAccount EXCEPT !.status = "DELETED",
                                          !.version = account[u].version]))
  /\ UNCHANGED <<lastCode, login, tokens>>

\* incrementAllWorkshopSessionVersions
RevokeAll ==
  /\ \E u \in Users : Exists(u)
  /\ \A u \in Users : Exists(u) => MayRevoke(u)
  /\ account' = [u \in Users |-> IF Exists(u) THEN Revoked(account[u]) ELSE account[u]]
  /\ UNCHANGED <<lastCode, login, tokens>>
----------------------------------------------------------------------------
(* Time. *)

CodeExpires(u) ==
  /\ account[u].code # 0
  /\ ~account[u].expired
  /\ account' = [account EXCEPT ![u].expired = TRUE]
  /\ UNCHANGED <<lastCode, login, tokens>>

TokenExpires(t) ==
  /\ tokens' = tokens \ {t}
  /\ UNCHANGED <<account, lastCode, login>>
----------------------------------------------------------------------------
(* A login. *)

Ended(r) == login' = [login EXCEPT ![r] = NoAttempt]

\* The row is read and passes the tests that precede the verification.
ReadAccount(r, u, secret, code) ==
  /\ login[r] = NoAttempt
  /\ account[u].status = "ACTIVE"
  /\ account[u].password = Null <=> code # 0
  /\ code # 0 => account[u].code # 0 /\ ~account[u].expired
  /\ Cardinality(tokens) < MaxTokens
  /\ login' = [login EXCEPT ![r] = [phase |-> "VERIFYING", user |-> u, secret |-> secret,
                                    code |-> code, row |-> account[u]]]
  /\ UNCHANGED <<account, lastCode, tokens>>

Verifying(r) == login[r] # NoAttempt

\* What bcrypt finds, for the row that was read.
SecretRight(r) ==
  IF login[r].code = 0 THEN login[r].secret = login[r].row.password
                       ELSE login[r].code = login[r].row.code

Refuse(r) ==
  /\ Verifying(r)
  /\ ~SecretRight(r)
  /\ Ended(r)
  /\ UNCHANGED <<account, lastCode, tokens>>

\* The token carries the version of the row given.
Issue(r, row) ==
  /\ tokens' = tokens \cup {[user |-> login[r].user, badge |-> row.badge,
                             version |-> row.version, secret |-> login[r].secret]}

\* Mutant of OpenSession: the token carries the version of the row as it is now.
OpenSessionOfCurrentRow(r) ==
  /\ Verifying(r)
  /\ login[r].code = 0
  /\ SecretRight(r)
  /\ account[login[r].user].status = "ACTIVE"
  /\ Issue(r, account[login[r].user])
  /\ Ended(r)
  /\ UNCHANGED <<account, lastCode>>

OpenSession(r) ==
  /\ Verifying(r)
  /\ login[r].code = 0
  /\ SecretRight(r)
  /\ Issue(r, login[r].row)
  /\ Ended(r)
  /\ UNCHANGED <<account, lastCode>>

\* Mutant of Consumable: the UPDATE does not compare the hash of the code.
ConsumableAnyCode(row, code) ==
  /\ row.status = "ACTIVE"
  /\ row.password = Null
  /\ row.code # 0
  /\ ~row.expired

\* The conditions of the UPDATE that consumes a code, on the current row.
Consumable(row, code) ==
  /\ row.status = "ACTIVE"
  /\ row.password = Null
  /\ row.code = code
  /\ ~row.expired

ConsumeCode(r) ==
  /\ Verifying(r)
  /\ login[r].code # 0
  /\ SecretRight(r)
  /\ LET u == login[r].user IN
       /\ Consumable(account[u], login[r].row.code)
       /\ Written(u, [account[u] EXCEPT !.password = login[r].secret, !.code = 0,
                                        !.expired = FALSE])
       /\ Issue(r, account[u])
  /\ Ended(r)
  /\ UNCHANGED lastCode

MissCode(r) ==
  /\ Verifying(r)
  /\ login[r].code # 0
  /\ SecretRight(r)
  /\ ~Consumable(account[login[r].user], login[r].row.code)
  /\ Ended(r)
  /\ UNCHANGED <<account, lastCode, tokens>>
----------------------------------------------------------------------------
AdministratorStep ==
  \/ \E u \in Users : \/ ResetPassword(u)
                      \/ ChangeRole(u)
                      \/ DeleteAccount(u)
                      \/ \E b \in Badges : CreateAccount(u, b) \/ ChangeBadge(u, b)
                      \/ \E status \in {"ACTIVE", "INACTIVE"} : SetActive(u, status)
  \/ RevokeAll

Time == \/ \E u \in Users : CodeExpires(u)
        \/ \E t \in tokens : TokenExpires(t)

Person(r) ==
  \/ \E u \in Users, secret \in Secrets, code \in 0..lastCode : ReadAccount(r, u, secret, code)
  \/ Refuse(r)
  \/ OpenSession(r)
  \/ ConsumeCode(r)
  \/ MissCode(r)

Next == AdministratorStep \/ Time \/ \E r \in Logins : Person(r)

Spec == Init /\ [][Next]_vars
----------------------------------------------------------------------------
(* Properties. *)

\* The rows, the logins under way and the sessions keep their types.
TypeOK ==
  /\ account \in [Users -> Account]
  /\ lastCode \in Nat
  /\ login \in [Logins -> Attempt \cup {NoAttempt}]
  /\ tokens \subseteq Token

\* A session that is accepted was opened with the password the account has now:
\* neither a reset nor a code used twice leaves one behind, however long the
\* verification of its login took.
SessionOfCurrentPassword ==
  \A t \in tokens : Accepted(t) => t.secret = account[t.user].password

\* Once refused, a session stays so: no reactivation, new password or badge
\* that changes hands brings it back.
RefusedStaysRefused ==
  [][\A t \in tokens \cap tokens' : Accepted(t)' => Accepted(t)]_vars

\* A password is set with the code that is current when it is set, never with
\* one that a reset replaced while it was being verified.
PasswordByCurrentCode ==
  [][\A u \in Users : account[u].password = Null /\ account'[u].password # Null
       => \E r \in Logins : /\ login[r] # NoAttempt
                             /\ login[r].user = u
                             /\ login[r].code = account[u].code]_vars
=============================================================================
