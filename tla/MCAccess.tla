------------------------------ MODULE MCAccess ------------------------------
(***************************************************************************)
(* Small instances of what admits to Sentinel, and of the page that sets   *)
(* it: Sessions, Administrator, RateLimit and Settings.  They share no     *)
(* state, so a behaviour follows one of them, the others at rest: that     *)
(* checks the same invariants and steps as their product would, at the     *)
(* cost of their sum.                                                      *)
(***************************************************************************)
EXTENDS Sessions, FiniteSets, TLC

CONSTANTS
  Passwords, p1, p2, Codes, c1, c2, EnvCode, LegacyCode, Orders, Requests, MaxFailures,
  MaxVersions,
  Clients, Window, FixedMax, DynamicMaxes, MaxEntries, MaxTime, MaxCount,
  Screens, Labels, Hours, DefaultTtl, Prefs, Emails, EnvEmail, Scopes

VARIABLES
  part,
  admin, failures, request, adminTokens, boardTokens, replaced,
  entry, order, lastCleanup, now, pending, setting,
  settings, prefs, board, email, signed, page

\* One order of each kind, both codes and both ways of the switch.
OrdersV ==
  {[kind |-> "PASSWORD", password |-> p2], [kind |-> "TOGGLE", enabled |-> FALSE],
   [kind |-> "TOGGLE", enabled |-> TRUE], [kind |-> "CODE", code |-> c1],
   [kind |-> "CODE", code |-> c2],
   [kind |-> "REVOKE", scopes |-> {"admin", "board"}], [kind |-> "VERIFY"]}

A == INSTANCE Administrator
R == INSTANCE RateLimit WITH None <- Null
G == INSTANCE Settings

ASSUME PartsOK == A!ConstantsOK /\ R!ConstantsOK /\ G!ConstantsOK /\ Orders \subseteq A!AllOrders

administratorVars == <<admin, failures, request, adminTokens, boardTokens, replaced>>
rateLimitVars == <<entry, order, lastCleanup, now, pending, setting>>
settingsVars == <<settings, prefs, board, email, signed, page>>
allVars == <<part, vars, administratorVars, rateLimitVars, settingsVars>>

\* The page of settings at rest, with no name of the board.
NoSettings ==
  /\ settings = [f \in G!Fields |-> DefaultTtl] /\ prefs = [k \in Prefs |-> TRUE]
  /\ board = [enabled |-> TRUE, hasCode |-> FALSE] /\ email = Null
  /\ signed = {} /\ page = [s \in Screens |-> Null]

AccessInit ==
  /\ part \in {"sessions", "administrator", "rate limit", "settings"}
  /\ Init /\ A!Init /\ R!Init
  /\ IF part = "settings" THEN G!Init ELSE NoSettings
  /\ admin.password = p1

AccessNext ==
  /\ UNCHANGED part
  /\ \/ /\ part = "sessions" /\ Next
        /\ UNCHANGED <<administratorVars, rateLimitVars, settingsVars>>
     \/ /\ part = "administrator" /\ A!Next
        /\ UNCHANGED <<vars, rateLimitVars, settingsVars>>
     \/ /\ part = "rate limit" /\ R!Next
        /\ UNCHANGED <<vars, administratorVars, settingsVars>>
     \/ /\ part = "settings" /\ G!Next
        /\ UNCHANGED <<vars, administratorVars, rateLimitVars>>

AccessSpec == AccessInit /\ [][AccessNext]_allVars
----------------------------------------------------------------------------
\* A session of the administrator or of the board once refused stays so.
RevokedStaysRevoked == A!RevokedStaysRevoked

\* A screen that is admitted gave the board code in force.
BoardSessionOfCurrentCode == A!BoardSessionOfCurrentCode

\* Failures to log in exceed the limit by no more than the requests in flight.
FailuresBounded == R!FailuresBounded

\* A setting changes to what was typed for it on the page that saves it.
SaveTouchesOnlyTyped == G!SaveTouchesOnlyTyped

\* State constraint: two orders of the administrator do not run at once.
OneOrder ==
  \A r, q \in Requests :
    r # q => ~(request[r].type = "ORDER" /\ request[q].type = "ORDER")

\* Sections of the page of settings, by how far they are loaded.
In(status) ==
  {c \in Screens \X G!Sections : page[c[1]] # Null /\ page[c[1]].loaded[c[2]] = status}

\* State constraint on the page of settings, whose sections are independent but
\* for the lock of mutations and the session: two are loaded at a time, the
\* behaviour on two screens or the behaviour and the preferences on one; what a
\* section changes is forgotten once no page shows it; and where two screens show
\* the behaviour each types one field, and revokes no session.
Focus ==
  LET ready == In("ready")
      failed == In("failed")
      Alone == \E s \in Screens : \A o \in Screens \ {s} : page[o] = Null
      Revokes(s) ==
        page[s].revoke # {} \/ (page[s].call # Null /\ page[s].call.kind # "APP")
      Altered ==
        {x \in G!Sections :
           CASE x = "prefs" -> \E k \in Prefs : ~prefs[k]
             [] x = "board" -> ~board.enabled \/ board.hasCode
             [] x = "email" -> email # Null
             [] OTHER -> FALSE}
  IN /\ Cardinality(ready) + Cardinality(failed) <= 2
     /\ \A c, d \in ready :
          IF c[1] # d[1]
          THEN /\ c[2] = "app" /\ d[2] = "app" /\ ~Revokes(c[1])
               /\ Cardinality(page[c[1]].typed) <= 1
          ELSE c = d \/ (Alone /\ {c[2], d[2]} = {"app", "prefs"})
     /\ failed # {} => ready = {} /\ Alone
     /\ \A x \in Altered : \E s \in Screens : <<s, x>> \in ready

Constraint == OneOrder /\ Focus

\* The users are the clients of the limiter and the screens of the settings,
\* the badges are the names of the board, and the logins are the requests.
Symmetry ==
  Permutations(Users) \cup Permutations(Badges) \cup Permutations(Secrets)
    \cup Permutations(Requests)
=============================================================================
