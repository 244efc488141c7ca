------------------------- MODULE MCEstimateApproval -------------------------
(* TLC instances of EstimateApproval.                                      *)
EXTENDS EstimateApproval, TLC

Symmetry == Permutations(Sessions)
=============================================================================
