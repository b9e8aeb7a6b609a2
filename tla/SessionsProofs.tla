--------------------------- MODULE SessionsProofs ---------------------------
(***************************************************************************)
(* Proofs about Sessions, for any number of accounts, logins and tokens.   *)
(*                                                                         *)
(* The argument: whatever a token or a login in flight remembers of a row  *)
(* is either still so, or the version of the row has moved on (Since).     *)
(***************************************************************************)
EXTENDS Sessions, TLAPS

\* A row may become another one: a new version, or the same access.
Later(old, new) ==
  \/ new.version > old.version
  \/ /\ new.version = old.version
     /\ old.password # Null => /\ new.password = old.password
                               /\ new.badge = old.badge
                               /\ new.status = old.status

\* A row that had version v and password p may now be this one.
Since(v, p, row) ==
  \/ v < row.version
  \/ v = row.version /\ (p # Null => row.password = p)

\* A row not used yet is blank, and an account that exists has a badge.
RowOK(row) ==
  /\ row.status = "ABSENT" => row = NoAccount
  /\ row.status \in {"ACTIVE", "INACTIVE"} => row.badge \in Badges

RowsInv == \A u \in Users : RowOK(account[u])

TokenInv == \A t \in tokens : Since(t.version, t.secret, account[t.user])

LoginInv ==
  \A r \in Logins : login[r] # NoAttempt =>
    /\ login[r].row.badge \in Badges
    /\ Since(login[r].row.version, login[r].row.password, account[login[r].user])

IInv == TypeOK /\ RowsInv /\ TokenInv /\ LoginInv

-----------------------------------------------------------------------------

LEMMA AttemptType ==
  ASSUME TypeOK, NEW r \in Logins, login[r] # NoAttempt
  PROVE  /\ login[r] \in Attempt
         /\ login[r].user \in Users /\ login[r].secret \in Secrets
         /\ login[r].code \in Nat /\ login[r].row \in Account
BY DEF TypeOK, Attempt

LEMMA NoAccountType == NoAccount \in Account /\ RowOK(NoAccount)
BY DEF NoAccount, Account, RowOK

LEMMA InitInv == Init => IInv
BY NoAccountType DEF Init, IInv, TypeOK, RowsInv, TokenInv, LoginInv

LEMMA RevokedType ==
  ASSUME NEW row \in Account
  PROVE  /\ Revoked(row) \in Account
         /\ Revoked(row).version > row.version
         /\ Revoked(row).status = row.status
         /\ Revoked(row).badge = row.badge
         /\ Later(row, Revoked(row))
BY DEF Revoked, Account, Later

\* One row is written and no other: the types and the order of rows are kept.
LEMMA WrittenOne ==
  ASSUME TypeOK, RowsInv, NEW u \in Users, NEW row \in Account, Written(u, row),
         Later(account[u], row), RowOK(row),
         lastCode' \in Nat, login' = login, tokens' = tokens
  PROVE  /\ TypeOK'
         /\ RowsInv'
         /\ \A v \in Users : Later(account[v], account'[v])
<1>1. account' \in [Users -> Account]
  BY DEF Written, TypeOK
<1>2. \A v \in Users : account'[v] = IF v = u THEN row ELSE account[v]
  BY DEF Written, TypeOK
<1>3. \A v \in Users : account[v] \in Account
  BY DEF TypeOK
<1>4. \A v \in Users : Later(account[v], account[v])
  BY <1>3 DEF Later, Account
<1>5. TypeOK'
  BY <1>1 DEF TypeOK
<1> QED BY <1>2, <1>4, <1>5 DEF RowsInv

\* The administrator's writes: the login and the tokens are not his, and every
\* row is replaced by a later one.
AdministratorWrites ==
  /\ TypeOK' /\ RowsInv' /\ login' = login /\ tokens' = tokens
  /\ \A u \in Users : Later(account[u], account'[u])

LEMMA AdministratorLater ==
  ASSUME TypeOK, RowsInv, AdministratorStep
  PROVE  AdministratorWrites
<1> USE DEF AdministratorWrites
<1>0. ASSUME NEW u \in Users
      PROVE  account[u] \in Account /\ RowOK(account[u])
  BY DEF TypeOK, RowsInv
<1>1. ASSUME NEW u \in Users, ResetPassword(u)
      PROVE  AdministratorWrites
  <2> DEFINE row == [account[u] EXCEPT !.password = Null, !.expired = FALSE,
                                       !.code = lastCode + 1]
  <2>0. lastCode + 1 \in Nat
    BY DEF TypeOK
  <2>1. row \in Account /\ row.version = account[u].version /\ row.status = "ACTIVE"
          /\ row.badge \in Badges
    BY <1>0, <1>1, <2>0 DEF Account, ResetPassword, RowOK
  <2> HIDE DEF row
  <2>2. Later(account[u], Revoked(row))
    BY <2>1, RevokedType DEF Later
  <2>r. RowOK(Revoked(row))
    BY <2>1, RevokedType DEF RowOK
  <2>3. Written(u, Revoked(row)) /\ lastCode' = lastCode + 1
          /\ login' = login /\ tokens' = tokens
    BY <1>1 DEF ResetPassword, row
  <2>4. lastCode' \in Nat
    BY <2>3 DEF TypeOK
  <2> QED BY <2>1, <2>2, <2>r, <2>3, <2>4, RevokedType, WrittenOne DEF TypeOK
<1>2. ASSUME NEW u \in Users, ChangeRole(u)
      PROVE  AdministratorWrites
  <2>1. RowOK(Revoked(account[u]))
    BY <1>0, <1>2, RevokedType DEF RowOK, ChangeRole, Exists
  <2> QED BY <1>0, <1>2, <2>1, RevokedType, WrittenOne DEF ChangeRole, TypeOK
<1>3. ASSUME NEW u \in Users, DeleteAccount(u)
      PROVE  AdministratorWrites
  <2> DEFINE row == [NoAccount EXCEPT !.status = "DELETED", !.version = account[u].version]
  <2>1. row \in Account /\ row.version = account[u].version /\ row.status = "DELETED"
    BY <1>0 DEF Account, NoAccount
  <2> HIDE DEF row
  <2>2. Later(account[u], Revoked(row))
    BY <2>1, RevokedType DEF Later
  <2>r. RowOK(Revoked(row))
    BY <2>1, RevokedType DEF RowOK
  <2>3. Written(u, Revoked(row)) /\ UNCHANGED <<lastCode, login, tokens>>
    BY <1>3 DEF DeleteAccount, row
  <2> QED BY <2>1, <2>2, <2>r, <2>3, RevokedType, WrittenOne DEF TypeOK
<1>4. ASSUME NEW u \in Users, NEW b \in Badges, CreateAccount(u, b)
      PROVE  AdministratorWrites
  <2> DEFINE row == [NoAccount EXCEPT !.status = "ACTIVE", !.badge = b, !.code = lastCode + 1]
  <2>0. lastCode + 1 \in Nat
    BY DEF TypeOK
  <2>1. row \in Account /\ row.version = 0 /\ RowOK(row)
    BY <2>0 DEF Account, NoAccount, RowOK
  <2>2. account[u].version = 0 /\ account[u].password = Null
    BY <1>0, <1>4 DEF CreateAccount, RowOK, NoAccount
  <2> HIDE DEF row
  <2>3. Later(account[u], row)
    BY <2>1, <2>2 DEF Later
  <2>4. Written(u, row) /\ lastCode' = lastCode + 1 /\ login' = login /\ tokens' = tokens
    BY <1>4 DEF CreateAccount, row
  <2>5. lastCode' \in Nat
    BY <2>4 DEF TypeOK
  <2> QED BY <2>1, <2>3, <2>4, <2>5, WrittenOne DEF TypeOK
<1>5. ASSUME NEW u \in Users, NEW b \in Badges, ChangeBadge(u, b)
      PROVE  AdministratorWrites
  <2> DEFINE row == [account[u] EXCEPT !.badge = b]
  <2>1. row \in Account /\ row.version = account[u].version /\ row.status # "ABSENT"
          /\ row.badge \in Badges
    BY <1>0, <1>5 DEF Account, ChangeBadge, Exists
  <2> HIDE DEF row
  <2>2. Later(account[u], Revoked(row))
    BY <2>1, RevokedType DEF Later
  <2>r. RowOK(Revoked(row))
    BY <2>1, RevokedType DEF RowOK
  <2>3. Written(u, Revoked(row)) /\ UNCHANGED <<lastCode, login, tokens>>
    BY <1>5 DEF ChangeBadge, row
  <2> QED BY <2>1, <2>2, <2>r, <2>3, RevokedType, WrittenOne DEF TypeOK
<1>6. ASSUME NEW u \in Users, NEW status \in {"ACTIVE", "INACTIVE"}, SetActive(u, status)
      PROVE  AdministratorWrites
  <2> DEFINE row == [account[u] EXCEPT !.status = status]
  <2>1. row \in Account /\ row.version = account[u].version /\ row.status # "ABSENT"
          /\ row.badge \in Badges
    BY <1>0, <1>6 DEF Account, SetActive, Exists, RowOK
  <2> HIDE DEF row
  <2>2. Later(account[u], Revoked(row))
    BY <2>1, RevokedType DEF Later
  <2>r. RowOK(Revoked(row))
    BY <2>1, RevokedType DEF RowOK
  <2>3. Written(u, Revoked(row)) /\ UNCHANGED <<lastCode, login, tokens>>
    BY <1>6 DEF SetActive, row
  <2> QED BY <2>1, <2>2, <2>r, <2>3, RevokedType, WrittenOne DEF TypeOK
<1>7. ASSUME RevokeAll
      PROVE  AdministratorWrites
  <2>1. \A u \in Users :
          account'[u] = IF Exists(u) THEN Revoked(account[u]) ELSE account[u]
    BY <1>7 DEF RevokeAll
  <2>2. \A u \in Users : account'[u] \in Account /\ Later(account[u], account'[u])
    BY <2>1, <1>0, RevokedType DEF Later, Account
  <2>3. account' = [u \in Users |-> account'[u]] /\ UNCHANGED <<lastCode, login, tokens>>
    BY <1>7 DEF RevokeAll
  <2>4. account' \in [Users -> Account]
    BY <2>2, <2>3
  <2>5. \A u \in Users : Exists(u) => RowOK(Revoked(account[u]))
    BY <1>0, RevokedType DEF RowOK, Exists
  <2>6. RowsInv'
    BY <2>1, <2>5 DEF RowsInv, Exists
  <2> QED BY <2>2, <2>3, <2>4, <2>6 DEF TypeOK
<1> QED BY <1>1, <1>2, <1>3, <1>4, <1>5, <1>6, <1>7 DEF AdministratorStep

\* What is remembered of a row stays true of the rows that follow it.
LEMMA SinceLater ==
  ASSUME NEW row \in Account, NEW next \in Account, Later(row, next),
         NEW v \in Nat, NEW p, Since(v, p, row)
  PROVE  Since(v, p, next)
BY DEF Since, Later, Account

LEMMA MemoryKept ==
  ASSUME IInv, TypeOK', \A u \in Users : Later(account[u], account'[u]),
         login' = login, tokens' = tokens
  PROVE  TokenInv' /\ LoginInv'
<1>1. TokenInv'
  <2> SUFFICES ASSUME NEW t \in tokens
               PROVE  Since(t.version, t.secret, account'[t.user])
    BY DEF TokenInv
  <2>1. t.user \in Users /\ t.version \in Nat
    BY DEF IInv, TypeOK, Token
  <2> QED BY <2>1, SinceLater DEF IInv, TypeOK, TokenInv
<1>2. LoginInv'
  <2> SUFFICES ASSUME NEW r \in Logins, login[r] # NoAttempt
               PROVE  /\ login[r].row.badge \in Badges
                      /\ Since(login[r].row.version, login[r].row.password,
                               account'[login[r].user])
    BY DEF LoginInv
  <2>1. login[r].user \in Users /\ login[r].row.version \in Nat
    BY AttemptType DEF IInv, Account
  <2> QED BY <2>1, SinceLater DEF IInv, TypeOK, LoginInv
<1> QED BY <1>1, <1>2

LEMMA AdministratorInv == ASSUME IInv, AdministratorStep PROVE IInv'
BY AdministratorLater, MemoryKept DEF IInv, AdministratorWrites

LEMMA CodeExpiresInv ==
  ASSUME IInv, NEW u \in Users, CodeExpires(u)
  PROVE  IInv' /\ \A v \in Users : Later(account[v], account'[v])
<1> DEFINE row == [account[u] EXCEPT !.expired = TRUE]
<1>1. account[u] \in Account
  BY DEF IInv, TypeOK
<1>2. row \in Account /\ Later(account[u], row) /\ row.status = account[u].status
  BY <1>1 DEF Account, Later
<1>3. RowOK(row)
  BY <1>1 DEF CodeExpires, IInv, RowsInv, RowOK, NoAccount, Account
<1>4. Written(u, row) /\ UNCHANGED <<lastCode, login, tokens>>
  BY DEF CodeExpires, Written
<1> HIDE DEF row
<1>5. TypeOK' /\ RowsInv' /\ \A v \in Users : Later(account[v], account'[v])
  BY <1>2, <1>3, <1>4, WrittenOne DEF IInv, TypeOK
<1> QED BY <1>4, <1>5, MemoryKept DEF IInv

LEMMA TokenExpiresInv ==
  ASSUME IInv, NEW t \in tokens, TokenExpires(t) PROVE IInv'
BY DEF TokenExpires, IInv, TypeOK, RowsInv, TokenInv, LoginInv

\* A row that a login reads is remembered as it is.
LEMMA ReadAccountInv ==
  ASSUME IInv, NEW r \in Logins, NEW u \in Users, NEW secret \in Secrets,
         NEW code \in 0..lastCode, ReadAccount(r, u, secret, code)
  PROVE  IInv'
<1> DEFINE attempt == [phase |-> "VERIFYING", user |-> u, secret |-> secret,
                       code |-> code, row |-> account[u]]
<1>1. attempt \in Attempt
  BY DEF Attempt, IInv, TypeOK
<1>2. login' = [login EXCEPT ![r] = attempt] /\ UNCHANGED <<account, lastCode, tokens>>
  BY DEF ReadAccount
<1>3. /\ Since(attempt.row.version, attempt.row.password, account[attempt.user])
      /\ attempt.row.badge \in Badges
  BY DEF Since, IInv, RowsInv, RowOK, ReadAccount
<1> HIDE DEF attempt
<1>4. TypeOK'
  BY <1>1, <1>2 DEF IInv, TypeOK
<1>5. LoginInv'
  BY <1>2, <1>3 DEF IInv, TypeOK, LoginInv
<1> QED BY <1>2, <1>4, <1>5 DEF IInv, RowsInv, TokenInv

\* The end of a login forgets what it read.
LEMMA EndedInv ==
  ASSUME IInv, NEW r \in Logins, Ended(r), UNCHANGED <<account, lastCode, tokens>>
  PROVE  IInv'
BY DEF Ended, IInv, TypeOK, RowsInv, TokenInv, LoginInv

LEMMA OpenSessionInv ==
  ASSUME IInv, NEW r \in Logins, OpenSession(r)
  PROVE  IInv'
<1> DEFINE token == [user |-> login[r].user, badge |-> login[r].row.badge,
                     version |-> login[r].row.version, secret |-> login[r].secret]
<1>1. login[r] # NoAttempt
  BY DEF OpenSession, Verifying
<1>2. /\ login[r].user \in Users /\ login[r].secret \in Secrets
      /\ login[r].row \in Account
  BY <1>1, AttemptType DEF IInv
<1>3. tokens' = tokens \cup {token} /\ Ended(r) /\ UNCHANGED <<account, lastCode>>
  BY DEF OpenSession, Issue
<1>4. login[r].row.password = login[r].secret
  BY DEF OpenSession, SecretRight
<1>5. Since(token.version, token.secret, account[token.user])
  BY <1>1, <1>4 DEF IInv, LoginInv
<1>6. token \in Token
  BY <1>1, <1>2 DEF Account, Token, IInv, LoginInv
<1> HIDE DEF token
<1>7. TypeOK'
  BY <1>3, <1>6 DEF IInv, TypeOK, Ended
<1>8. TokenInv'
  BY <1>3, <1>5 DEF IInv, TokenInv
<1>9. LoginInv'
  BY <1>3 DEF IInv, TypeOK, LoginInv, Ended
<1> QED BY <1>3, <1>7, <1>8, <1>9 DEF IInv, RowsInv

\* A code is consumed by a row that has no password: no token is of that version.
LEMMA ConsumeCodeInv ==
  ASSUME IInv, NEW r \in Logins, ConsumeCode(r)
  PROVE  IInv' /\ \A v \in Users : Later(account[v], account'[v])
<1> DEFINE u == login[r].user
           row == [account[u] EXCEPT !.password = login[r].secret, !.code = 0,
                                     !.expired = FALSE]
           token == [user |-> u, badge |-> account[u].badge,
                     version |-> account[u].version, secret |-> login[r].secret]
<1>1. login[r] # NoAttempt
  BY DEF ConsumeCode, Verifying
<1>2. u \in Users /\ login[r].secret \in Secrets
  BY <1>1, AttemptType DEF IInv
<1>3. account[u] \in Account /\ account[u].password = Null /\ account[u].status = "ACTIVE"
  BY <1>2 DEF IInv, TypeOK, ConsumeCode, Consumable
<1>4. account[u].badge \in Badges
  BY <1>2, <1>3 DEF IInv, RowsInv, RowOK
<1>5. /\ Written(u, row) /\ lastCode' = lastCode /\ Ended(r)
      /\ tokens' = tokens \cup {token}
  BY DEF ConsumeCode, Issue
<1>6. /\ row \in Account /\ RowOK(row) /\ Later(account[u], row)
      /\ row.version = account[u].version /\ row.password = login[r].secret
  BY <1>2, <1>3, <1>4 DEF Account, RowOK, Later
<1>7. token \in Token /\ Since(token.version, token.secret, row)
  BY <1>2, <1>3, <1>4, <1>6 DEF Token, Account, Since
<1>8. token.user = u
  OBVIOUS
<1> HIDE DEF row, token, u
<1>9. \A v \in Users : account'[v] = IF v = u THEN row ELSE account[v]
  BY <1>5 DEF Written, IInv, TypeOK
<1>10. TypeOK'
  BY <1>5, <1>6, <1>7, <1>2 DEF Written, IInv, TypeOK, Ended
<1>11. RowsInv'
  BY <1>6, <1>9 DEF IInv, RowsInv
<1>12. \A v \in Users : account[v] \in Account /\ Later(account[v], account'[v])
  BY <1>6, <1>9 DEF Later, IInv, TypeOK
<1>13. TokenInv'
  <2> SUFFICES ASSUME NEW t \in tokens'
               PROVE  Since(t.version, t.secret, account'[t.user])
    BY DEF TokenInv
  <2>1. CASE t = token
    BY <2>1, <1>2, <1>7, <1>8, <1>9
  <2>2. CASE t \in tokens
    <3>1. t.user \in Users /\ t.version \in Nat
      BY <2>2 DEF IInv, TypeOK, Token
    <3>2. account'[t.user] \in Account
      BY <1>10, <3>1 DEF TypeOK
    <3> QED BY <2>2, <3>1, <3>2, <1>12, SinceLater DEF IInv, TokenInv
  <2> QED BY <1>5, <2>1, <2>2
<1>14. LoginInv'
  <2> SUFFICES ASSUME NEW q \in Logins, q # r, login[q] # NoAttempt, login'[q] = login[q]
               PROVE  /\ login[q].row.badge \in Badges
                      /\ Since(login[q].row.version, login[q].row.password,
                               account'[login[q].user])
    BY <1>5 DEF LoginInv, Ended, IInv, TypeOK
  <2>1. login[q].user \in Users /\ login[q].row.version \in Nat
    BY AttemptType DEF IInv, Account
  <2>2. account'[login[q].user] \in Account
    BY <1>10, <2>1 DEF TypeOK
  <2> QED BY <2>1, <2>2, <1>12, SinceLater DEF IInv, LoginInv
<1> QED BY <1>10, <1>11, <1>12, <1>13, <1>14 DEF IInv

-----------------------------------------------------------------------------

LEMMA NextInv == ASSUME IInv, [Next]_vars PROVE IInv'
<1>1. CASE AdministratorStep
  BY <1>1, AdministratorInv
<1>2. CASE Time
  BY <1>2, CodeExpiresInv, TokenExpiresInv DEF Time
<1>3. ASSUME NEW r \in Logins, Person(r)
      PROVE  IInv'
  <2>1. CASE \E u \in Users, secret \in Secrets, code \in 0..lastCode :
               ReadAccount(r, u, secret, code)
    BY <2>1, ReadAccountInv
  <2>2. CASE Refuse(r) \/ MissCode(r)
    BY <2>2, EndedInv DEF Refuse, MissCode
  <2>3. CASE OpenSession(r)
    BY <2>3, OpenSessionInv
  <2>4. CASE ConsumeCode(r)
    BY <2>4, ConsumeCodeInv
  <2> QED BY <1>3, <2>1, <2>2, <2>3, <2>4 DEF Person
<1>4. CASE UNCHANGED vars
  BY <1>4 DEF vars, IInv, TypeOK, RowsInv, TokenInv, LoginInv
<1> QED BY <1>1, <1>2, <1>3, <1>4 DEF Next

THEOREM Invariance == Spec => []IInv
BY InitInv, NextInv, PTL DEF Spec

\* The rows, logins and tokens keep their types.
THEOREM SessionsTypeCorrect == Spec => []TypeOK
BY Invariance, PTL DEF IInv

\* An accepted session was opened with the password that the account has now.
THEOREM SessionsCurrent == Spec => []SessionOfCurrentPassword
<1>1. IInv => SessionOfCurrentPassword
  <2> SUFFICES ASSUME IInv, NEW t \in tokens, Accepted(t)
               PROVE  t.secret = account[t.user].password
    BY DEF SessionOfCurrentPassword
  <2>1. t.secret \in Secrets /\ t.version \in Nat
    BY DEF IInv, TypeOK, Token
  <2> QED BY <2>1, NullAssumption DEF Accepted, IInv, TokenInv, Since
<1> QED BY <1>1, Invariance, PTL

\* What a row accepted after a step it accepted before: a token of the version
\* that the row keeps has its password, so the row kept its access too.
LEMMA AcceptedBefore ==
  ASSUME IInv, IInv', \A u \in Users : Later(account[u], account'[u]),
         NEW t \in tokens, Accepted(t)'
  PROVE  Accepted(t)
<1>1. /\ t.user \in Users /\ t.version \in Nat /\ t.secret \in Secrets
      /\ account[t.user] \in Account /\ account'[t.user] \in Account
  BY DEF IInv, TypeOK, Token
<1>2. Since(t.version, t.secret, account[t.user]) /\ Later(account[t.user], account'[t.user])
  BY <1>1 DEF IInv, TokenInv
<1>3. t.version = account'[t.user].version
  BY DEF Accepted
<1>4. t.version = account[t.user].version /\ account[t.user].password = t.secret
  BY <1>1, <1>2, <1>3, NullAssumption DEF Since, Later, Account
<1> QED BY <1>1, <1>2, <1>3, <1>4, NullAssumption DEF Accepted, Later, Account

LEMMA NextLater ==
  ASSUME IInv, [Next]_vars
  PROVE  \A u \in Users : Later(account[u], account'[u])
<1>1. (account' = account) => \A u \in Users : Later(account[u], account'[u])
  BY DEF Later, IInv, TypeOK, Account
<1>2. CASE AdministratorStep
  BY <1>2, AdministratorLater DEF IInv, AdministratorWrites
<1>3. CASE Time
  BY <1>1, <1>3, CodeExpiresInv DEF Time, TokenExpires
<1>4. ASSUME NEW r \in Logins, Person(r)
      PROVE  \A u \in Users : Later(account[u], account'[u])
  BY <1>1, <1>4, ConsumeCodeInv DEF Person, ReadAccount, Refuse, OpenSession, MissCode
<1> QED BY <1>1, <1>2, <1>3, <1>4 DEF Next, vars

\* A session once refused stays so.
THEOREM SessionsStayRefused == Spec => RefusedStaysRefused
<1>1. IInv /\ IInv' /\ [Next]_vars =>
        [\A t \in tokens \cap tokens' : Accepted(t)' => Accepted(t)]_vars
  BY NextLater, AcceptedBefore
<1> QED BY <1>1, Invariance, PTL DEF Spec, RefusedStaysRefused

\* A step sets a password only by consuming the code that is current.
LEMMA PasswordSet ==
  ASSUME IInv, [Next]_vars, NEW u \in Users,
         account[u].password = Null, account'[u].password # Null
  PROVE  \E r \in Logins : /\ login[r] # NoAttempt
                            /\ login[r].user = u
                            /\ login[r].code = account[u].code
<1>0. account \in [Users -> Account]
  BY DEF IInv, TypeOK
<1>1. CASE UNCHANGED account
  BY <1>1
<1>2. CASE AdministratorStep
  <2>1. ASSUME NEW v \in Users, NEW row, Written(v, row),
               row.password \in {account[v].password, Null}
        PROVE  FALSE
    BY <1>0, <2>1 DEF Written
  <2>2. \A v \in Users : account[v] \in Account
    BY DEF IInv, TypeOK
  <2>3. \A row \in Account : Revoked(row).password = row.password
    BY DEF Revoked, Account
  <2>4. ASSUME NEW v \in Users
        PROVE  ~ResetPassword(v) /\ ~ChangeRole(v) /\ ~DeleteAccount(v)
    <3>1. ~ResetPassword(v)
      BY <2>1, <2>2 DEF ResetPassword, Revoked, Account
    <3>2. ~ChangeRole(v)
      BY <2>1, <2>2, <2>3 DEF ChangeRole
    <3>3. ~DeleteAccount(v)
      BY <2>1 DEF DeleteAccount, Revoked, NoAccount
    <3> QED BY <3>1, <3>2, <3>3
  <2>5. ASSUME NEW v \in Users, NEW b \in Badges
        PROVE  ~CreateAccount(v, b) /\ ~ChangeBadge(v, b)
    BY <2>1, <2>2 DEF CreateAccount, ChangeBadge, Revoked, NoAccount, Account
  <2>6. ASSUME NEW v \in Users, NEW status \in {"ACTIVE", "INACTIVE"}
        PROVE  ~SetActive(v, status)
    BY <2>1, <2>2 DEF SetActive, Revoked, Account
  <2>7. ~RevokeAll
    BY <2>2, <2>3 DEF RevokeAll
  <2> QED BY <1>2, <2>4, <2>5, <2>6, <2>7 DEF AdministratorStep
<1>3. CASE \E v \in Users : CodeExpires(v)
  BY <1>0, <1>3 DEF CodeExpires, Account
<1>4. ASSUME NEW r \in Logins, ConsumeCode(r)
      PROVE  /\ login[r] # NoAttempt
             /\ login[r].user = u
             /\ login[r].code = account[u].code
  BY <1>0, <1>4 DEF ConsumeCode, Consumable, Written, Verifying, SecretRight, Account
<1> QED BY <1>1, <1>2, <1>3, <1>4
        DEF Next, Time, TokenExpires, Person, ReadAccount, Refuse, OpenSession, MissCode, vars

\* A password is set with the code that is current when it is set.
THEOREM PasswordsByCurrentCode == Spec => PasswordByCurrentCode
<1>1. IInv /\ [Next]_vars =>
        [\A u \in Users : account[u].password = Null /\ account'[u].password # Null
           => \E r \in Logins : /\ login[r] # NoAttempt
                                 /\ login[r].user = u
                                 /\ login[r].code = account[u].code]_vars
  BY PasswordSet
<1> QED BY <1>1, Invariance, PTL DEF Spec, PasswordByCurrentCode
=============================================================================
