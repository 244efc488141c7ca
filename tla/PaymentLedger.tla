--------------------------- MODULE PaymentLedger ---------------------------
(***************************************************************************)
(* What the payment ledger of an invoice promises, with no sessions, locks *)
(* or cached columns: a payment is accepted as a whole or not at all,      *)
(* never beyond the invoice's total, and is cancelled at most once.        *)
(* CURRENT_STATE.md, "Payment Tracking Slice", states these rules.         *)
(***************************************************************************)
EXTENDS Integers

CONSTANTS Amounts, Totals

VARIABLES
    entries,   \* every payment ever accepted, [id, amount]
    voided,    \* the ids of those voided since
    paid,      \* the sum of those that stand
    total      \* the invoice total

vars == <<entries, voided, paid, total>>

Init ==
    /\ entries = {}
    /\ voided = {}
    /\ paid = 0
    /\ total \in Totals

\* The payment e becomes part of the ledger, under an id never used before.
Pay(e) ==
    /\ e.amount \in Amounts
    /\ \A other \in entries : other.id # e.id
    /\ paid + e.amount <= total
    /\ entries' = entries \cup {e}
    /\ paid' = paid + e.amount
    /\ UNCHANGED <<voided, total>>

Void(e) ==
    /\ e.id \notin voided
    /\ voided' = voided \cup {e.id}
    /\ paid' = paid - e.amount
    /\ UNCHANGED <<entries, total>>

Next == (\E e \in entries' \ entries : Pay(e)) \/ (\E e \in entries : Void(e))

Spec == Init /\ [][Next]_vars
=============================================================================
