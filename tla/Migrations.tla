----------------------------- MODULE Migrations -----------------------------
(***************************************************************************)
(* The start of a server: runMigrations (db/migrate.ts) brings the schema  *)
(* to the migrations its release ships, under an advisory lock of its      *)
(* session, before start() (server.ts) opens the port.  Servers of several *)
(* releases start, fail, crash and are started again by Docker.            *)
(*                                                                         *)
(* A migration is a number, its rank in the order of file names; its SQL   *)
(* stands for its checksum.  Legacy is the former name of Canonical.       *)
(***************************************************************************)
EXTENDS Naturals

CONSTANTS
  Files,      \* ranks of the migrations
  Canonical,  \* the one that was renamed (038)
  Legacy,     \* its former name
  Sums,       \* checksums
  Releases,   \* [release -> [its files -> checksum]]
  Ledgers,    \* the ledgers an older system may have left
  Servers,
  Null        \* no checksum (a row older than checksums)

Absent == "absent"
Names == Files \cup {Legacy}
Ledger == [Names -> Sums \cup {Null, Absent}]

ConstantsOK ==
  /\ Files \subseteq Nat \ {0}
  /\ Canonical \in Files /\ Legacy \notin Files
  /\ Absent \notin Sums \cup {Null} /\ Null \notin Sums \cup Servers
  /\ Ledgers \subseteq Ledger
  /\ \A r \in DOMAIN Releases : Releases[r] \in UNION {[fs -> Sums] : fs \in SUBSET Files}

VARIABLES
  ledger,   \* schema_migrations
  effect,   \* history: how many times the SQL of each migration took effect
  notNull,  \* the column checksum is NOT NULL
  lock,     \* the server whose session holds the advisory lock
  server    \* [Servers -> release, progress]

vars == <<ledger, effect, notNull, lock, server>>

Down == [release |-> Null, at |-> "down", file |-> 0]

Recorded(f) == ledger[f] # Absent
\* Under its name or the former one.
KnownAsDone(f) == Recorded(f) \/ (f = Canonical /\ Recorded(Legacy))

Init ==
  /\ ledger \in Ledgers
  /\ effect = [f \in Files |-> IF KnownAsDone(f) THEN 1 ELSE 0]
  /\ notNull = FALSE
  /\ lock = Null
  /\ server = [s \in Servers |-> Down]

Shipped(s) == Releases[server[s].release]
At(s, step) == server[s].at = step
Goes(s, step, f) == server' = [server EXCEPT ![s].at = step, ![s].file = f]

\* The files not handled yet, in the order of their names.
Remaining(s) == {f \in DOMAIN Shipped(s) : f > server[s].file}
NextFile(s) == CHOOSE f \in Remaining(s) : \A g \in Remaining(s) : f <= g

-----------------------------------------------------------------------------
(* A container starts or stops *)

Start(s, r) ==
  /\ At(s, "down")
  /\ server' = [server EXCEPT ![s] = [release |-> r, at |-> "waiting", file |-> 0]]
  /\ UNCHANGED <<ledger, effect, notNull, lock>>

\* A crash, a stop, or the exit of a start that failed: the lock of the
\* session goes with it, and an open transaction is rolled back.
Dies(s) ==
  /\ ~At(s, "down")
  /\ server' = [server EXCEPT ![s] = Down]
  /\ lock' = IF lock = s THEN Null ELSE lock
  /\ UNCHANGED <<ledger, effect, notNull>>

Fails(s) == Goes(s, "failed", 0) /\ lock' = Null /\ UNCHANGED <<ledger, effect, notNull>>

-----------------------------------------------------------------------------
(* runMigrations *)

AcquireLock(s) ==
  /\ At(s, "waiting")
  /\ lock = Null
  /\ lock' = s
  /\ Goes(s, "alias", 0)
  /\ UNCHANGED <<ledger, effect, notNull>>

\* Mutant of NormalizeAlias: the former name is ignored.
IgnoreAlias(s) ==
  /\ At(s, "alias")
  /\ Goes(s, "look", 0)
  /\ UNCHANGED <<ledger, effect, notNull, lock>>

\* The row of the former name becomes that of the canonical one, or goes when
\* both are there.
NormalizeAlias(s) ==
  /\ At(s, "alias")
  /\ IF \/ Canonical \notin DOMAIN Shipped(s)
        \/ /\ Recorded(Legacy)
           /\ \/ ledger[Legacy] \notin {Null, Shipped(s)[Canonical]}
              \/ ledger[Canonical] \notin {Absent, Null, Shipped(s)[Canonical]}
     THEN Fails(s)
     ELSE /\ ledger' = IF ~Recorded(Legacy) THEN ledger
                       ELSE [ledger EXCEPT
                              ![Legacy] = Absent,
                              ![Canonical] = IF Recorded(Canonical) THEN @
                                             ELSE Shipped(s)[Canonical]]
          /\ Goes(s, "look", 0)
          /\ UNCHANGED <<effect, notNull, lock>>

\* Mutant of LookUp: a recorded name is enough, whatever its checksum.
LookUpName(s) ==
  LET f == NextFile(s)
  IN /\ At(s, "look")
     /\ Remaining(s) # {}
     /\ IF ~Recorded(f) THEN Goes(s, "apply", server[s].file) ELSE Goes(s, "look", f)
     /\ UNCHANGED <<ledger, effect, notNull, lock>>

\* The row of the next file: a recorded one must have the same checksum, or
\* gets it when it has none.
LookUp(s) ==
  LET f == NextFile(s)
  IN /\ At(s, "look")
     /\ Remaining(s) # {}
     /\ IF ~Recorded(f)
        THEN Goes(s, "apply", server[s].file) /\ UNCHANGED <<ledger, effect, notNull, lock>>
        ELSE IF ledger[f] \notin {Null, Shipped(s)[f]}
        THEN Fails(s)
        ELSE /\ ledger' = [ledger EXCEPT ![f] = Shipped(s)[f]]
             /\ Goes(s, "look", f)
             /\ UNCHANGED <<effect, notNull, lock>>

\* One transaction: the SQL of the migration and its row, or neither.
Apply(s) ==
  LET f == NextFile(s)
  IN /\ At(s, "apply")
     /\ \/ /\ ~Recorded(f)
           /\ effect' = [effect EXCEPT ![f] = @ + 1]
           /\ ledger' = [ledger EXCEPT ![f] = Shipped(s)[f]]
           /\ Goes(s, "look", f)
           /\ UNCHANGED <<notNull, lock>>
        \/ Fails(s)

\* Mutant of Finish: what the ledger names beside the files is not looked at.
FinishOnFiles(s) ==
  /\ At(s, "look")
  /\ Remaining(s) = {}
  /\ IF \E n \in Names : Recorded(n) /\ ledger[n] = Null
     THEN Fails(s)
     ELSE /\ notNull' = TRUE
          /\ lock' = Null
          /\ Goes(s, "serving", 0)
          /\ UNCHANGED <<ledger, effect>>

\* The ledger names no file that the release does not ship, and no row lacks
\* its checksum.  The server then seeds its account and opens its port.
Finish(s) ==
  /\ At(s, "look")
  /\ Remaining(s) = {}
  /\ IF \E n \in Names : Recorded(n) /\ (n \notin DOMAIN Shipped(s) \/ ledger[n] = Null)
     THEN Fails(s)
     ELSE /\ notNull' = TRUE
          /\ lock' = Null
          /\ Goes(s, "serving", 0)
          /\ UNCHANGED <<ledger, effect>>

Migrates(s) ==
  AcquireLock(s) \/ NormalizeAlias(s) \/ LookUp(s) \/ Apply(s) \/ Finish(s)

Next ==
  \E s \in Servers : \/ \E r \in DOMAIN Releases : Start(s, r)
                     \/ Dies(s)
                     \/ Migrates(s)

Spec == Init /\ [][Next]_vars
-----------------------------------------------------------------------------
(* Properties *)

\* Whatever crashed, raced or was renamed, the ledger tells exactly what was
\* done to the schema: each migration it names took effect once, the others
\* never did.
LedgerIsExact == \A f \in Files : effect[f] = IF KnownAsDone(f) THEN 1 ELSE 0

\* A server enters service on a schema that holds each migration of its release,
\* once, and no other: after a newer release changed the schema, an older one
\* starts no more.  While it serves, its migrations keep the contents that it
\* ships, whatever releases start beside it, and no row that they write lacks its
\* checksum.
ServesItsSchema ==
  /\ [][\A s \in Servers : ~At(s, "serving") /\ At(s, "serving")' =>
          \A f \in Files : effect[f] = IF f \in DOMAIN Shipped(s) THEN 1 ELSE 0]_vars
  /\ [](\A s \in Servers : At(s, "serving") =>
          \A f \in DOMAIN Shipped(s) : ledger[f] = Shipped(s)[f])
  /\ [](notNull => \A n \in Names : ledger[n] # Null)
=============================================================================
