-------------------------- MODULE MCClientRecords --------------------------
(* TLC instances of ClientRecords.                                         *)
EXTENDS ClientRecords, TLC

Symmetry == Permutations(Sessions)
FullNames == {[name |-> TRUE, company |-> TRUE], [name |-> FALSE, company |-> FALSE]}
=============================================================================
