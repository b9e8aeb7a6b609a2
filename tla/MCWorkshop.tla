----------------------------- MODULE MCWorkshop -----------------------------
(***************************************************************************)
(* Small instances of Workshop for TLC.  Each run is a plant of its own:   *)
(* the layouts are the machine sequences its administrator may submit.     *)
(***************************************************************************)
EXTENDS Offers, TLC

CONSTANTS m1, h1, h2

\* One machine with two heads: all that a correction needs.
BothHeads == {{<<m1, h1>>, <<m1, h2>>}}

\* A machine with two heads, or with the first one only.
TwoHeads == {{<<m1, h1>>, <<m1, h2>>}, {<<m1, h1>>}}

\* State constraint: explore no further once the supervisor has directed an
\* incident (the properties are still checked on the states just reached).
Undirected ==
  \A i \in Incidents : ~incident[i].priority /\ incident[i].comment = Null

\* An account that may log in, or does not exist yet.
InUse(u) == user[u].status \in {"ABSENT", "ACTIVE"}

\* State constraint: nor past the end of service of a line, or of a second account
\* (the properties of finished incidents and of requests that come too late are
\* then checked on those that people finish).
Serving ==
  /\ Undirected
  /\ \A l \in Lines : line[l].status \in {"ABSENT", "ACTIVE"}
  /\ \A u, v \in Users : u = v \/ InUse(u) \/ InUse(v)

\* State constraint: nor past the deactivation or deletion of an account.
SteadyAccounts ==
  Undirected /\ \A u \in Users : InUse(u)

\* These differ by nothing but their identity.
Symmetry ==
  Permutations(Incidents) \cup Permutations(CaseIds) \cup Permutations(Users)
    \cup Permutations(Lines) \cup Permutations(Numbers) \cup Permutations(States)
=============================================================================
