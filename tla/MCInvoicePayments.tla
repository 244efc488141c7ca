------------------------- MODULE MCInvoicePayments -------------------------
(* TLC instances of InvoicePayments.                                       *)
EXTENDS InvoicePayments, TLC

Symmetry == Permutations(Sessions)
=============================================================================
