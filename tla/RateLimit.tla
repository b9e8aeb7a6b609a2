----------------------------- MODULE RateLimit ------------------------------
(***************************************************************************)
(* loginLimiter (middlewares/loginRateLimit.ts) as its two doors use it:   *)
(* the login, which asks isLimited with the limit of the settings, and     *)
(* the board, whose requests pass the middleware with the fixed limit.     *)
(* Both verify a secret, then record a failure or clear the key.           *)
(***************************************************************************)
EXTENDS Naturals, FiniteSets, SequencesExt

CONSTANTS
  Clients,      \* address and identity of a request
  Requests,     \* requests that may run at once
  Window,       \* windowMs
  FixedMax,     \* maxAttempts
  DynamicMaxes, \* values the administrator may give to login_max_attempts
  None,         \* no key
  MaxEntries,   \* keys that the table may hold
  MaxTime,      \* bound on the clock
  MaxCount      \* bound on the failures of a key that are counted

\* getKey: the path where the limiter is asked, and the client.  The middleware
\* is mounted at /api/board/session; the handler that records is a route of the
\* router mounted at /api/board.
Keys == [path : {"/api/auth", "/api/board/session", "/api/board"}, client : Clients]

ConstantsOK ==
  /\ Window \in Nat \ {0} /\ FixedMax \in Nat \ {0} /\ DynamicMaxes \subseteq Nat \ {0}
  /\ MaxEntries \in Nat \ {0} /\ MaxTime \in Nat /\ MaxCount \in Nat
  /\ IsFiniteSet(Requests)
  /\ \E m \in DynamicMaxes : \A n \in DynamicMaxes : n <= m
  /\ None \notin Keys

VARIABLES
  entry,        \* entry[k]: the count of key k and the end of its window
  order,        \* the keys of the table in order of insertion
  lastCleanup,  \* lastCleanupAt
  now,          \* Date.now()
  pending,      \* pending[r]: the key a request verifies, or none
  setting       \* login_max_attempts

vars == <<entry, order, lastCleanup, now, pending, setting>>
----------------------------------------------------------------------------
Key(path, c) == [path |-> path, client |-> c]

NoEntry == [count |-> 0, resetAt |-> 0]

Init ==
  /\ entry = [k \in Keys |-> NoEntry]
  /\ order = <<>>
  /\ lastCleanup = 0
  /\ now = 0
  /\ pending = [r \in Requests |-> None]
  /\ setting \in DynamicMaxes

InTable(k) == entry[k] # NoEntry

Live(k) == InTable(k) /\ now <= entry[k].resetAt

\* Mutant of Limited: a request more than the limit passes.
LimitedBeyond(k, limit) == Live(k) /\ entry[k].count > limit

Limited(k, limit) == Live(k) /\ entry[k].count >= limit

\* The table without the keys of S.
Without(S) ==
  /\ entry' = [k \in Keys |-> IF k \in S THEN NoEntry ELSE entry[k]]
  /\ order' = SelectSeq(order, LAMBDA k : k \notin S)

\* recordFailure: a new window for a key that has none, in the place of the
\* oldest key when the table is full; an entry whose window ended keeps its
\* place in the order of insertion.
Recorded(k) ==
  IF Live(k)
  THEN entry' = [entry EXCEPT ![k].count = @ + 1] /\ UNCHANGED order
  ELSE LET evicted == IF ~InTable(k) /\ Len(order) >= MaxEntries THEN {Head(order)} ELSE {} IN
       /\ entry' = [j \in Keys |-> IF j = k THEN [count |-> 1, resetAt |-> now + Window]
                                   ELSE IF j \in evicted THEN NoEntry ELSE entry[j]]
       /\ order' = SelectSeq(order, LAMBDA j : j \notin evicted)
                     \o (IF InTable(k) THEN <<>> ELSE <<k>>)
----------------------------------------------------------------------------
\* login: the check that precedes the verification.
CheckLogin(r, c) ==
  /\ pending[r] = None
  /\ ~Limited(Key("/api/auth", c), setting)
  /\ pending' = [pending EXCEPT ![r] = Key("/api/auth", c)]
  /\ UNCHANGED <<entry, order, lastCleanup, now, setting>>

\* The middleware of the board's session: cleanup, then the fixed limit.
CheckBoard(r, c) ==
  /\ pending[r] = None
  /\ IF now - lastCleanup >= Window
     THEN /\ lastCleanup' = now
          /\ Without({j \in Keys : InTable(j) /\ now > entry[j].resetAt})
     ELSE UNCHANGED <<entry, order, lastCleanup>>
  /\ pending' = IF Limited(Key("/api/board/session", c), FixedMax) THEN pending
                ELSE [pending EXCEPT ![r] = Key("/api/board", c)]
  /\ UNCHANGED <<now, setting>>

Fail(r) ==
  /\ pending[r] # None
  /\ entry[pending[r]].count < MaxCount
  /\ Recorded(pending[r])
  /\ pending' = [pending EXCEPT ![r] = None]
  /\ UNCHANGED <<lastCleanup, now, setting>>

Succeed(r) ==
  /\ pending[r] # None
  /\ Without({pending[r]})
  /\ pending' = [pending EXCEPT ![r] = None]
  /\ UNCHANGED <<lastCleanup, now, setting>>

\* An answer that neither records nor clears: a password is still wanted, the
\* account is disabled, the database fails.
EndNeutral(r) ==
  /\ pending[r] # None
  /\ pending' = [pending EXCEPT ![r] = None]
  /\ UNCHANGED <<entry, order, lastCleanup, now, setting>>

ChangeSetting(max) ==
  /\ setting # max
  /\ setting' = max
  /\ UNCHANGED <<entry, order, lastCleanup, now, pending>>

Tick ==
  /\ now < MaxTime
  /\ now' = now + 1
  /\ UNCHANGED <<entry, order, lastCleanup, pending, setting>>

Next ==
  \/ \E r \in Requests : \/ \E c \in Clients : CheckLogin(r, c) \/ CheckBoard(r, c)
                         \/ Fail(r)
                         \/ Succeed(r)
                         \/ EndNeutral(r)
  \/ \E max \in DynamicMaxes : ChangeSetting(max)
  \/ Tick

Spec == Init /\ [][Next]_vars
----------------------------------------------------------------------------
(* Properties. *)

Exceeds(k, limit) == Live(k) /\ entry[k].count > limit + Cardinality(Requests) - 1

\* The failures of a login in one window exceed the largest limit by no more
\* than the requests that had passed the check before it was reached.
FailuresBounded == \A c \in Clients : ~Exceeds(Key("/api/auth", c), Max(DynamicMaxes))
=============================================================================
