------------------------------ MODULE MCOutbox ------------------------------
(***************************************************************************)
(* Outbox for TLC: an item whose event has two channels (INCIDENT_TAKEN    *)
(* tells the followers, then the declarant).                               *)
(***************************************************************************)
EXTENDS Outbox, TLC

TwoChannels == [i \in Items |-> 2]
OneChannel == [i \in Items |-> 1]

Symmetry == Permutations(Recipients) \cup Permutations(Workers)
=============================================================================
