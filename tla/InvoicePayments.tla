-------------------------- MODULE InvoicePayments --------------------------
(***************************************************************************)
(* One invoice and its append-only payment ledger, as the concurrent       *)
(* requests of app/payment_store.py (record, void) and issue_invoice of    *)
(* app/invoice_store.py read and write it.                                 *)
(*                                                                         *)
(* A request is a database session.  It first loads the invoice row into   *)
(* its identity map (the "seen" fields), and everything it later writes is *)
(* computed from that copy.  Its last step is the commit.  SQLAlchemy      *)
(* emits an UPDATE only for a column whose value differs from the loaded   *)
(* one, so a request that computes the status it loaded leaves the column  *)
(* alone, whatever it holds by then.                                       *)
(*                                                                         *)
(* FOR UPDATE on the invoice row is lock.  An INSERT into invoice_payments *)
(* takes FOR KEY SHARE on the invoice, and an UPDATE of the row takes the  *)
(* row lock, so every commit waits until no other session holds lock.      *)
(***************************************************************************)
EXTENDS Integers, Sequences, FiniteSets, Functions

CONSTANTS
    Sessions,       \* concurrent database sessions
    NoSession,      \* the value of lock when no session holds it
    Amounts,        \* payment amounts a client may submit, in cents
    Totals,         \* invoice totals, in cents
    DueIn,          \* due_in_days of an issue request
    MaxRows,        \* bound on the rows of the ledger
    MaxTime         \* bound on the clock

ASSUME SessionsAssumption == NoSession \notin Sessions
ASSUME AmountsAssumption  == Amounts \subseteq Nat \ {0}
ASSUME TotalsAssumption   == Totals \subseteq Nat
ASSUME DueInAssumption    == DueIn \subseteq Nat \ {0}
ASSUME BoundsAssumption   == MaxRows \in Nat /\ MaxTime \in Nat

VARIABLES
    status,          \* invoices.status, the cached column
    dueAt,           \* invoices.due_at, 0 while NULL
    invoiceTotal,    \* invoices.invoice_total
    paymentOption,   \* invoices.payment_option_selected
    schedule,        \* payment_schedules, the amounts in sort_order
    depositReceived, \* work_orders.deposit_received
    rows,            \* invoice_payments in order of their ids
    netPaid,         \* SUM(amount) over rows
    lock,            \* the session holding the invoice row FOR UPDATE
    req,             \* the progress and the loaded copy of each session
    now,             \* the clock
    raced            \* two requests have been in flight together (history)

invoiceVars == <<status, dueAt, invoiceTotal, paymentOption, schedule,
                 depositReceived>>
ledgerVars  == <<rows, netPaid>>
vars == <<invoiceVars, ledgerVars, lock, req, now, raced>>

Statuses == {"draft", "issued", "partially_paid", "paid", "overdue"}
PaymentPlanOptions == {"split_payment", "two_month_plan"}
Options == PaymentPlanOptions \cup {"pay_in_full"}

\* A row of invoice_payments; reverses is reversal_of_payment_id, 0 for NULL.
Rows == [amount : Int, reverses : Nat]

Points == {"idle", "record_lock", "record_read", "record_commit",
           "void_read", "void_commit", "issue_commit"}

Requests == [pc : Points, amount : Int, deposit : BOOLEAN, target : Nat,
             seenStatus : Statuses, seenDue : Nat, seenPaid : Int,
             newStatus : Statuses]

Idle == [pc |-> "idle", amount |-> 0, deposit |-> FALSE, target |-> 0,
         seenStatus |-> "draft", seenDue |-> 0, seenPaid |-> 0,
         newStatus |-> "draft"]

-----------------------------------------------------------------------------
(* Pure helpers of invoice_store.                                          *)

DeriveStatus(total, paid, due, current, at) ==
    LET base == IF paid <= 0 THEN "issued"
                ELSE IF paid >= total THEN "paid" ELSE "partially_paid"
    IN  IF current = "draft" THEN "draft"
        ELSE IF base # "paid" /\ due # 0 /\ at > due THEN "overdue" ELSE base

\* _money(total / parts): quantised to a cent, half up.
Share(total, parts) == (2 * total + parts) \div (2 * parts)

\* Mutant: the last row does not absorb the rounding.
ScheduleAmountsRounded(option, total) ==
    CASE option = "split_payment"   -> <<Share(total, 2), Share(total, 2)>>
      [] option = "two_month_plan"  -> [k \in 1 .. 3 |-> Share(total, 3)]
      [] option = "pay_in_full"     -> <<total>>

ScheduleAmounts(option, total) ==
    CASE option = "split_payment" ->
            <<Share(total, 2), total - Share(total, 2)>>
      [] option = "two_month_plan" ->
            <<Share(total, 3), Share(total, 3), total - 2 * Share(total, 3)>>
      [] option = "pay_in_full" -> <<total>>

IsReversed(i) == \E j \in DOMAIN rows : rows[j].reverses = i

-----------------------------------------------------------------------------
Init ==
    /\ status = "draft"
    /\ dueAt = 0
    /\ invoiceTotal \in Totals
    /\ paymentOption \in Options
    /\ schedule = <<>>
    /\ depositReceived \in BOOLEAN
    /\ rows = <<>>
    /\ netPaid = 0
    /\ lock = NoSession
    /\ req = [s \in Sessions |-> Idle]
    /\ now = 1
    /\ raced = FALSE

Finish(s) == req' = [req EXCEPT ![s] = Idle]

Overlap(s) == raced' = (raced \/ \E t \in Sessions \ {s} : req[t].pc # "idle")

\* A request starts by loading the invoice row.
Loaded(point, amount, deposit, target, due) ==
    [pc |-> point, amount |-> amount, deposit |-> deposit, target |-> target,
     seenStatus |-> status, seenDue |-> due, seenPaid |-> 0,
     newStatus |-> "issued"]

\* The UPDATE a flush emits for invoice.status: none when it was not changed.
StatusAfterFlush(s) ==
    IF req[s].newStatus = req[s].seenStatus THEN status ELSE req[s].newStatus

\* The bound: every request under way could still add one row.
RoomForRow ==
    Len(rows) + Cardinality({s \in Sessions : req[s].pc # "idle"}) < MaxRows

RowFree(s) == lock \in {NoSession, s}

\* Mutant: the status is derived from the sum before the new row.
ReadSummaryBefore(s, delta, point) ==
    req' = [req EXCEPT ![s].pc = point,
                       ![s].seenPaid = netPaid,
                       ![s].newStatus =
                            DeriveStatus(invoiceTotal, netPaid,
                                         req[s].seenDue, req[s].seenStatus, now)]

\* _payment_summary, then derive_invoice_status for the amount about to be added.
ReadSummary(s, delta, point) ==
    req' = [req EXCEPT ![s].pc = point,
                       ![s].seenPaid = netPaid,
                       ![s].newStatus =
                            DeriveStatus(invoiceTotal, netPaid + delta,
                                         req[s].seenDue, req[s].seenStatus, now)]

-----------------------------------------------------------------------------
(* record_payment                                                          *)

RecordLoad(s) ==
    /\ req[s].pc = "idle"
    /\ RoomForRow
    /\ \E a \in Amounts, d \in BOOLEAN :
          req' = [req EXCEPT ![s] = Loaded("record_lock", a, d, 0, dueAt)]
    /\ Overlap(s)
    /\ UNCHANGED <<invoiceVars, ledgerVars, lock, now>>

\* Mutant: the payments are read without the row lock.
RecordLockNoLock(s) ==
    /\ req[s].pc = "record_lock"
    /\ req' = [req EXCEPT ![s].pc = "record_read"]
    /\ UNCHANGED <<invoiceVars, ledgerVars, lock, now, raced>>

RecordLock(s) ==
    /\ req[s].pc = "record_lock"
    /\ RowFree(s)
    /\ lock' = s
    /\ req' = [req EXCEPT ![s].pc = "record_read"]
    /\ UNCHANGED <<invoiceVars, ledgerVars, now, raced>>

RecordRejectDraft(s) ==
    /\ req[s].pc = "record_read"
    /\ req[s].seenStatus = "draft"
    /\ lock' = NoSession
    /\ Finish(s)
    /\ UNCHANGED <<invoiceVars, ledgerVars, now, raced>>

RecordRead(s) ==
    /\ req[s].pc = "record_read"
    /\ req[s].seenStatus # "draft"
    /\ ReadSummary(s, req[s].amount, "record_commit")
    /\ UNCHANGED <<invoiceVars, ledgerVars, lock, now, raced>>

\* Mutant: the new amount is left out of the comparison.
OverpaysBefore(s) == req[s].seenPaid > invoiceTotal

Overpays(s) == req[s].seenPaid + req[s].amount > invoiceTotal

\* Mutant: the error path keeps the transaction, and its lock, open.
RecordRejectKeepsLock(s) ==
    /\ req[s].pc = "record_commit"
    /\ Overpays(s)
    /\ Finish(s)
    /\ UNCHANGED <<invoiceVars, ledgerVars, lock, now, raced>>

RecordRejectOverpayment(s) ==
    /\ req[s].pc = "record_commit"
    /\ Overpays(s)
    /\ lock' = NoSession
    /\ Finish(s)
    /\ UNCHANGED <<invoiceVars, ledgerVars, now, raced>>

RecordCommit(s) ==
    /\ req[s].pc = "record_commit"
    /\ RowFree(s)
    /\ ~Overpays(s)
    /\ rows' = Append(rows, [amount |-> req[s].amount, reverses |-> 0])
    /\ netPaid' = netPaid + req[s].amount
    /\ depositReceived' = \/ depositReceived
                          \/ req[s].deposit /\ paymentOption \in PaymentPlanOptions
    /\ status' = StatusAfterFlush(s)
    /\ lock' = NoSession
    /\ Finish(s)
    /\ UNCHANGED <<dueAt, invoiceTotal, paymentOption, schedule, now, raced>>

-----------------------------------------------------------------------------
(* void_payment: no lock is taken, the unique key on reversal_of_payment_id *)
(* is what refuses the second of two concurrent voids.                      *)

VoidLoad(s) ==
    /\ req[s].pc = "idle"
    /\ RoomForRow
    /\ \E i \in DOMAIN rows :
          /\ rows[i].reverses = 0
          /\ ~IsReversed(i)
          /\ req' = [req EXCEPT ![s] =
                        Loaded("void_read", rows[i].amount, FALSE, i, dueAt)]
    /\ Overlap(s)
    /\ UNCHANGED <<invoiceVars, ledgerVars, lock, now>>

VoidRead(s) ==
    /\ req[s].pc = "void_read"
    /\ ReadSummary(s, -req[s].amount, "void_commit")
    /\ UNCHANGED <<invoiceVars, ledgerVars, lock, now, raced>>

\* Mutant: no unique key on reversal_of_payment_id.
VoidCommitTwice(s) ==
    /\ req[s].pc = "void_commit"
    /\ RowFree(s)
    /\ rows' = Append(rows, [amount |-> -req[s].amount, reverses |-> req[s].target])
    /\ netPaid' = netPaid - req[s].amount
    /\ status' = StatusAfterFlush(s)
    /\ Finish(s)
    /\ UNCHANGED <<dueAt, invoiceTotal, paymentOption, schedule, depositReceived,
                   lock, now, raced>>

VoidCommit(s) ==
    /\ req[s].pc = "void_commit"
    /\ RowFree(s)
    /\ ~IsReversed(req[s].target)
    /\ rows' = Append(rows, [amount |-> -req[s].amount, reverses |-> req[s].target])
    /\ netPaid' = netPaid - req[s].amount
    /\ status' = StatusAfterFlush(s)
    /\ Finish(s)
    /\ UNCHANGED <<dueAt, invoiceTotal, paymentOption, schedule, depositReceived,
                   lock, now, raced>>

\* IntegrityError on uq_invoice_payments_reversal_of: the transaction rolls back.
VoidDuplicate(s) ==
    /\ req[s].pc = "void_commit"
    /\ RowFree(s)
    /\ IsReversed(req[s].target)
    /\ Finish(s)
    /\ UNCHANGED <<invoiceVars, ledgerVars, lock, now, raced>>

-----------------------------------------------------------------------------
(* issue_invoice: issued_at and due_at are computed from the loaded draft,  *)
(* the schedule is read after the flush has the row lock.                   *)

IssueLoad(s) ==
    /\ req[s].pc = "idle"
    /\ status = "draft"
    /\ \E d \in DueIn :
          req' = [req EXCEPT ![s] = Loaded("issue_commit", 0, FALSE, 0, now + d)]
    /\ Overlap(s)
    /\ UNCHANGED <<invoiceVars, ledgerVars, lock, now>>

IssueCommit(s) ==
    /\ req[s].pc = "issue_commit"
    /\ RowFree(s)
    /\ status' = StatusAfterFlush(s)
    /\ dueAt' = req[s].seenDue
    /\ schedule' = IF schedule = <<>>
                   THEN ScheduleAmounts(paymentOption, invoiceTotal)
                   ELSE schedule
    /\ Finish(s)
    /\ UNCHANGED <<invoiceTotal, paymentOption, depositReceived, ledgerVars,
                   lock, now, raced>>

-----------------------------------------------------------------------------
\* A lost connection or a database error: get_db_session closes the session,
\* which rolls the transaction back and frees its row locks.
Abort(s) ==
    /\ req[s].pc # "idle"
    /\ lock' = IF lock = s THEN NoSession ELSE lock
    /\ Finish(s)
    /\ UNCHANGED <<invoiceVars, ledgerVars, now, raced>>

Tick ==
    /\ now < MaxTime
    /\ now' = now + 1
    /\ UNCHANGED <<invoiceVars, ledgerVars, lock, req, raced>>

\* What a session does once its request has started.
Advance(s) ==
    \/ RecordLock(s) \/ RecordRejectDraft(s) \/ RecordRead(s)
    \/ RecordRejectOverpayment(s) \/ RecordCommit(s)
    \/ VoidRead(s) \/ VoidCommit(s) \/ VoidDuplicate(s)
    \/ IssueCommit(s)

Next ==
    \/ \E s \in Sessions : \/ RecordLoad(s) \/ VoidLoad(s) \/ IssueLoad(s)
                           \/ Advance(s)    \/ Abort(s)
    \/ Tick

Spec == Init /\ [][Next]_vars

\* A request runs to its end, and PostgreSQL queues the waiters of a row lock,
\* so a waiter that could proceed again and again does.
FairSpec == Spec /\ \A s \in Sessions : SF_vars(Advance(s))
-----------------------------------------------------------------------------
(* Properties                                                              *)

\* Every column and every loaded copy has its type.
TypeOK ==
    /\ status \in Statuses
    /\ dueAt \in Nat
    /\ invoiceTotal \in Totals
    /\ paymentOption \in Options
    /\ schedule \in Seq(Int)
    /\ depositReceived \in BOOLEAN
    /\ rows \in Seq(Rows)
    /\ netPaid \in Int
    /\ lock \in Sessions \cup {NoSession}
    /\ req \in [Sessions -> Requests]
    /\ now \in Nat

\* Overpayment rule: however many submissions race, the ledger never adds up
\* to more than the invoice.  record_payment checks a sum it read earlier.
NeverOverpaid == netPaid <= invoiceTotal

\* The reason for NeverOverpaid: between its read of the payments and its commit
\* record_payment holds the row lock, so the sum it read is the current one.
SumCurrentUnderLock ==
    \A s \in Sessions :
        /\ lock = s <=> req[s].pc \in {"record_read", "record_commit"}
        /\ req[s].pc = "record_commit" => req[s].seenPaid = netPaid

\* A payment is voided at most once, by a row that cancels exactly it, though
\* void_payment checks for an earlier void without a lock.
ReversedOnce ==
    \A i \in DOMAIN rows :
        rows[i].reverses # 0 =>
            /\ rows[i].reverses \in 1 .. i - 1
            /\ rows[rows[i].reverses].reverses = 0
            /\ rows[i].amount = -rows[rows[i].reverses].amount
            /\ \A j \in DOMAIN rows : rows[j].reverses = rows[i].reverses => j = i

\* Nothing is ever paid on a draft: the check of record_payment is made on a
\* status loaded before the lock, that of void_payment not at all.
NoPaymentOnDraft == status = "draft" => rows = <<>>

\* What is paid is paid on an issued invoice, and within its total.
PaidWithinInvoice == NeverOverpaid /\ NoPaymentOnDraft

\* The schedule is generated exactly once, when the invoice leaves draft, and
\* its rows add up to the invoice to the cent, however many issues race.
ScheduleSumsToTotal ==
    /\ schedule = <<>> <=> status = "draft"
    /\ schedule # <<>> =>
          /\ FoldFunction(+, 0, schedule) = invoiceTotal
          /\ \A k \in DOMAIN schedule : schedule[k] >= 0

\* As long as requests come one at a time, the cached status is the derived one,
\* except that it cannot know that the due date has passed since.
CacheInSync ==
    ~raced =>
        LET derived == DeriveStatus(invoiceTotal, netPaid, dueAt, status, now)
        IN  \/ status = derived
            \/ derived = "overdue" /\ status \in {"issued", "partially_paid"}

\* Every request ends, whatever holds the row lock in the meantime.
RequestsEnd ==
    \A s \in Sessions : req[s].pc # "idle" ~> req[s].pc = "idle"

\* The ledger the requests implement, each taking effect at its commit.
Entries ==
    {[id |-> i, amount |-> rows[i].amount] :
        i \in {k \in DOMAIN rows : rows[k].reverses = 0}}

Voided == {rows[i].reverses : i \in {k \in DOMAIN rows : rows[k].reverses # 0}}

Abstract == INSTANCE PaymentLedger
                WITH entries <- Entries, voided <- Voided,
                     paid <- netPaid, total <- invoiceTotal

\* Record and void are atomic on the ledger: each commit is one Pay or Void of
\* PaymentLedger, and every other step leaves the ledger alone.
ImplementsLedger == Abstract!Spec
=============================================================================
