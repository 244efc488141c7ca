-------------------------- MODULE BillingProofs --------------------------
(***************************************************************************)
(* Proofs about InvoicePayments, SquareInvoices and ShopPlan: for every    *)
(* number of sessions, every set of amounts and totals, ledgers of every   *)
(* length, and any number of tries, requests, seats and operations.        *)
(*                                                                         *)
(* PaidWithinInvoice is not inductive: a commit relies on the sum the      *)
(* session read some steps earlier. What makes it safe is                  *)
(* SumCurrentUnderLock, so the inductive invariant is the conjunction of   *)
(* the two with the types, the shape of the ledger and what a session      *)
(* knows about the row it loads.  The schedule rests on what its split     *)
(* adds up to, the cached status on copies that are current while requests *)
(* do not overlap (CacheInv), the subscriptions at Square on what each     *)
(* request between a call and its commit leaves collecting (SquareInv).    *)
(***************************************************************************)
EXTENDS InvoicePayments, SquareInvoices, ShopPlan, SumTheorems, SequenceTheorems, FiniteSetTheorems, TLAPS

\* A session that has something to add to the ledger: it loaded an issued
\* invoice, or is about to turn itself down; a void refers to a payment.
SessionSoundFor(s) ==
    /\ req[s].pc = "record_commit" =>
          /\ req[s].seenStatus # "draft"
          /\ req[s].newStatus # "draft"
    /\ req[s].pc \in {"record_lock", "record_read", "record_commit"} =>
          /\ req[s].amount \in Amounts
          /\ req[s].seenStatus # "draft" => status # "draft"
    /\ req[s].pc \in {"void_read", "void_commit"} =>
          /\ req[s].target \in DOMAIN rows
          /\ rows[req[s].target].reverses = 0
          /\ req[s].amount = rows[req[s].target].amount
          /\ req[s].amount > 0
          /\ req[s].seenStatus # "draft"
    /\ req[s].pc = "void_commit" => req[s].newStatus # "draft"
    /\ req[s].pc = "issue_commit" => req[s].newStatus = "issued"

SessionSound == \A s \in Sessions : SessionSoundFor(s)

\* The CHECK constraint ck_invoice_payments_amount_sign.
SignSound == \A i \in DOMAIN rows : rows[i].reverses = 0 => rows[i].amount > 0

IInv ==
    /\ TypeOK
    /\ NeverOverpaid
    /\ SumCurrentUnderLock
    /\ ReversedOnce
    /\ NoPaymentOnDraft
    /\ SessionSound
    /\ SignSound
-----------------------------------------------------------------------------
(* Lemmas about the operators of the model.                                *)

\* derive_invoice_status returns a status, and never takes an invoice back to
\* draft.
LEMMA DeriveStatusSound ==
    ASSUME NEW total \in Int, NEW paid \in Int, NEW due \in Nat,
           NEW current \in Statuses, NEW at \in Nat
    PROVE  /\ DeriveStatus(total, paid, due, current, at) \in Statuses
           /\ current # "draft" => DeriveStatus(total, paid, due, current, at) # "draft"
BY DEF DeriveStatus, Statuses

\* The schedule is a sequence of amounts, and never empty: this is how
\* issue_invoice tells that it was generated already.
LEMMA ScheduleAmountsSound ==
    ASSUME NEW option \in Options, NEW total \in Nat
    PROVE  /\ ScheduleAmounts(option, total) \in Seq(Int)
           /\ ScheduleAmounts(option, total) # <<>>
<1>1. Share(total, 2) \in Int /\ Share(total, 3) \in Int
  BY DEF Share
<1>2. CASE option = "split_payment"
  BY <1>1, <1>2 DEF ScheduleAmounts
<1>3. CASE option = "two_month_plan"
  BY <1>1, <1>3 DEF ScheduleAmounts
<1>4. CASE option = "pay_in_full"
  BY <1>4 DEF ScheduleAmounts
<1> QED
  BY <1>2, <1>3, <1>4 DEF Options, PaymentPlanOptions

-----------------------------------------------------------------------------
(* Types.                                                                  *)

\* The initial states are well typed.
LEMMA InitTypeOK == Init => TypeOK
<1> SUFFICES ASSUME Init PROVE TypeOK
  OBVIOUS
<1>1. Idle \in Requests
  BY DEF Idle, Requests, Points, Statuses
<1> QED
  BY <1>1 DEF Init, TypeOK, Statuses

\* What a session loads from a well-typed invoice is a well-typed copy.
LEMMA LoadedType ==
    ASSUME TypeOK, NEW point \in Points, NEW amount \in Int, NEW deposit \in BOOLEAN,
           NEW target \in Nat, NEW due \in Nat
    PROVE  Loaded(point, amount, deposit, target, due) \in Requests
BY DEF Loaded, Requests, TypeOK, Points, Statuses

\* Every step keeps the types.
LEMMA NextTypeOK == TypeOK /\ [Next]_vars => TypeOK'
<1> SUFFICES ASSUME TypeOK, [Next]_vars PROVE TypeOK'
  OBVIOUS
<1> USE DEF Points
<1>0. Idle \in Requests
  BY DEF Idle, Requests, Statuses
<1>1. ASSUME NEW s \in Sessions, RecordLoad(s) PROVE TypeOK'
  <2>1. PICK a \in Amounts, d \in BOOLEAN :
           req' = [req EXCEPT ![s] = Loaded("record_lock", a, d, 0, dueAt)]
    BY <1>1 DEF RecordLoad
  <2>2. Loaded("record_lock", a, d, 0, dueAt) \in Requests
    BY LoadedType, AmountsAssumption DEF TypeOK, AmountsAssumption
  <2>3. UNCHANGED <<invoiceVars, ledgerVars, lock, now>>
    BY <1>1 DEF RecordLoad
  <2>5. req' \in [Sessions -> Requests]
    BY <2>1, <2>2 DEF TypeOK
  <2> QED
    BY <2>3, <2>5 DEF TypeOK, invoiceVars, ledgerVars
<1>2. ASSUME NEW s \in Sessions, VoidLoad(s) PROVE TypeOK'
  <2>1. PICK i \in DOMAIN rows :
           req' = [req EXCEPT ![s] = Loaded("void_read", rows[i].amount, FALSE, i, dueAt)]
    BY <1>2 DEF VoidLoad
  <2>2. i \in Nat /\ rows[i].amount \in Int
    <3>1. rows \in Seq(Rows) /\ i \in 1 .. Len(rows)
      BY DEF TypeOK
    <3>2. rows[i] \in Rows
      BY <3>1
    <3> QED
      BY <3>1, <3>2 DEF Rows
  <2>3. Loaded("void_read", rows[i].amount, FALSE, i, dueAt) \in Requests
    BY <2>2, LoadedType DEF TypeOK
  <2>4. UNCHANGED <<invoiceVars, ledgerVars, lock, now>>
    BY <1>2 DEF VoidLoad
  <2>5. req' \in [Sessions -> Requests]
    BY <2>1, <2>3 DEF TypeOK
  <2> QED
    BY <2>4, <2>5 DEF TypeOK, invoiceVars, ledgerVars
<1>3. ASSUME NEW s \in Sessions, IssueLoad(s) PROVE TypeOK'
  <2>1. PICK d \in DueIn :
           req' = [req EXCEPT ![s] = Loaded("issue_commit", 0, FALSE, 0, now + d)]
    BY <1>3 DEF IssueLoad
  <2>2. now + d \in Nat
    BY DueInAssumption DEF TypeOK, DueInAssumption
  <2>3. Loaded("issue_commit", 0, FALSE, 0, now + d) \in Requests
    BY <2>2, LoadedType, "issue_commit" \in Points, 0 \in Int, FALSE \in BOOLEAN, 0 \in Nat
  <2>4. UNCHANGED <<invoiceVars, ledgerVars, lock, now>>
    BY <1>3 DEF IssueLoad
  <2>5. req' \in [Sessions -> Requests]
    BY <2>1, <2>3 DEF TypeOK
  <2> QED
    BY <2>4, <2>5 DEF TypeOK, invoiceVars, ledgerVars
<1>4. ASSUME NEW s \in Sessions, NEW delta \in Int, NEW point \in Points,
             ReadSummary(s, delta, point)
      PROVE  req' \in [Sessions -> Requests]
  <2> DEFINE new == DeriveStatus(invoiceTotal, netPaid + delta, req[s].seenDue,
                                 req[s].seenStatus, now)
             r   == req[s]
  <2>1. new \in Statuses
    <3>1. /\ invoiceTotal \in Int /\ netPaid + delta \in Int /\ now \in Nat
          /\ req[s].seenDue \in Nat /\ req[s].seenStatus \in Statuses
      BY TotalsAssumption DEF TypeOK, Requests, TotalsAssumption
    <3> QED
      BY <3>1, DeriveStatusSound
  <2>2. r \in Requests /\ netPaid \in Int
    BY DEF TypeOK
  <2>3. req' = [req EXCEPT ![s] = [r EXCEPT !.pc = point, !.seenPaid = netPaid,
                                            !.newStatus = new]]
    BY <1>4 DEF ReadSummary, TypeOK
  <2> HIDE DEF new, r
  <2>4. [r EXCEPT !.pc = point] \in Requests
    BY <2>2 DEF Requests
  <2>5. [r EXCEPT !.pc = point, !.seenPaid = netPaid] \in Requests
    BY <2>2, <2>4 DEF Requests
  <2>6. [r EXCEPT !.pc = point, !.seenPaid = netPaid, !.newStatus = new] \in Requests
    BY <2>1, <2>5 DEF Requests
  <2> QED
    BY <2>3, <2>6 DEF TypeOK
<1>5. ASSUME NEW s \in Sessions, RecordRead(s) \/ VoidRead(s) PROVE TypeOK'
  <2>1. req[s].amount \in Int /\ -req[s].amount \in Int
    BY DEF TypeOK, Requests
  <2>2. req' \in [Sessions -> Requests]
    BY <1>4, <1>5, <2>1 DEF RecordRead, VoidRead
  <2> QED
    BY <1>5, <2>2 DEF RecordRead, VoidRead, TypeOK, invoiceVars, ledgerVars
<1>6. ASSUME NEW s \in Sessions, RecordLock(s) PROVE TypeOK'
  BY <1>6 DEF RecordLock, TypeOK, Requests, invoiceVars, ledgerVars
<1>7. ASSUME NEW s \in Sessions,
             \/ RecordRejectDraft(s) \/ RecordRejectOverpayment(s)
             \/ VoidDuplicate(s)     \/ Abort(s)
      PROVE  TypeOK'
  BY <1>0, <1>7 DEF RecordRejectDraft, RecordRejectOverpayment, VoidDuplicate, Abort,
                    Finish, TypeOK, invoiceVars, ledgerVars
<1>8. ASSUME NEW s \in Sessions PROVE StatusAfterFlush(s) \in Statuses
  BY DEF StatusAfterFlush, TypeOK, Requests
<1>9. ASSUME NEW s \in Sessions, RecordCommit(s) PROVE TypeOK'
  <2>1. [amount |-> req[s].amount, reverses |-> 0] \in Rows
    BY DEF TypeOK, Requests, Rows
  <2>2. netPaid + req[s].amount \in Int
    BY DEF TypeOK, Requests
  <2> QED
    BY <1>0, <1>8, <1>9, <2>1, <2>2 DEF RecordCommit, Finish, TypeOK
<1>10. ASSUME NEW s \in Sessions, VoidCommit(s) PROVE TypeOK'
  <2>1. [amount |-> -req[s].amount, reverses |-> req[s].target] \in Rows
    BY DEF TypeOK, Requests, Rows
  <2>2. netPaid - req[s].amount \in Int
    BY DEF TypeOK, Requests
  <2> QED
    BY <1>0, <1>8, <1>10, <2>1, <2>2 DEF VoidCommit, Finish, TypeOK
<1>11. ASSUME NEW s \in Sessions, IssueCommit(s) PROVE TypeOK'
  <2>1. ScheduleAmounts(paymentOption, invoiceTotal) \in Seq(Int)
    BY ScheduleAmountsSound, TotalsAssumption DEF TypeOK, TotalsAssumption
  <2>2. req[s].seenDue \in Nat
    BY DEF TypeOK, Requests
  <2> QED
    BY <1>0, <1>8, <1>11, <2>1, <2>2 DEF IssueCommit, Finish, TypeOK, ledgerVars
<1>12. ASSUME Tick PROVE TypeOK'
  BY <1>12 DEF Tick, TypeOK, invoiceVars, ledgerVars
<1>13. ASSUME UNCHANGED vars PROVE TypeOK'
  BY <1>13 DEF vars, TypeOK, invoiceVars, ledgerVars
<1> QED
  BY <1>1, <1>2, <1>3, <1>5, <1>6, <1>7, <1>9, <1>10, <1>11, <1>12, <1>13
     DEF Next, Advance

\* Every column and every loaded copy keeps its type, in every behaviour.
THEOREM TypeCorrect == Spec => []TypeOK
BY InitTypeOK, NextTypeOK, PTL DEF Spec

-----------------------------------------------------------------------------
(* The inductive invariant.                                                *)

\* The initial states satisfy the inductive invariant: the ledger is empty.
LEMMA InitIInv == Init => IInv
<1> SUFFICES ASSUME Init PROVE IInv
  OBVIOUS
<1>1. TypeOK
  BY InitTypeOK
<1>2. NeverOverpaid
  BY TotalsAssumption DEF Init, NeverOverpaid, TotalsAssumption
<1>3. SumCurrentUnderLock /\ SessionSound
  BY SessionsAssumption
     DEF Init, Idle, SumCurrentUnderLock, SessionSound, SessionSoundFor, SessionsAssumption
<1>4. ReversedOnce /\ NoPaymentOnDraft /\ SignSound
  BY DEF Init, ReversedOnce, NoPaymentOnDraft, SignSound
<1> QED
  BY <1>1, <1>2, <1>3, <1>4 DEF IInv

\* A step that leaves the invoice and the ledger alone only has to answer for
\* the lock and the sessions.
LEMMA QuietStep ==
    ASSUME IInv, TypeOK', UNCHANGED <<invoiceVars, ledgerVars>>
    PROVE  NeverOverpaid' /\ ReversedOnce' /\ NoPaymentOnDraft' /\ SignSound'
BY DEF IInv, NeverOverpaid, ReversedOnce, NoPaymentOnDraft, SignSound,
       invoiceVars, ledgerVars

\* The requests start, lock, read and end.
LEMMA QuietActions ==
    ASSUME IInv, TypeOK', NEW s \in Sessions,
           \/ RecordLoad(s) \/ VoidLoad(s) \/ IssueLoad(s)
           \/ RecordLock(s) \/ RecordRejectDraft(s) \/ RecordRead(s)
           \/ RecordRejectOverpayment(s) \/ VoidRead(s) \/ VoidDuplicate(s)
           \/ Abort(s)
    PROVE  IInv'
<1>1. UNCHANGED <<invoiceVars, ledgerVars>>
  BY DEF RecordLoad, VoidLoad, IssueLoad, RecordLock, RecordRejectDraft, RecordRead,
         RecordRejectOverpayment, VoidRead, VoidDuplicate, Abort
<1>2. NeverOverpaid' /\ ReversedOnce' /\ NoPaymentOnDraft' /\ SignSound'
  BY <1>1, QuietStep
<1>3. \A t \in Sessions : t # s => req'[t] = req[t]
  BY DEF RecordLoad, VoidLoad, IssueLoad, RecordLock, RecordRejectDraft, RecordRead,
         RecordRejectOverpayment, VoidRead, VoidDuplicate, Abort, Finish, ReadSummary,
         IInv, TypeOK
<1>4. TypeOK /\ SumCurrentUnderLock /\ SessionSound /\ SignSound /\ NoPaymentOnDraft
  BY DEF IInv
<1>5. CASE RecordLoad(s)
  <2>1. PICK a \in Amounts, d \in BOOLEAN :
           req' = [req EXCEPT ![s] = Loaded("record_lock", a, d, 0, dueAt)]
    BY <1>5 DEF RecordLoad
  <2>2. /\ req'[s].pc = "record_lock" /\ req'[s].amount = a
        /\ req'[s].seenStatus = status
    BY <2>1, <1>4 DEF TypeOK, Loaded
  <2>3. SumCurrentUnderLock' /\ SessionSound'
    BY <1>1, <1>3, <1>4, <1>5, <2>2
       DEF RecordLoad, SumCurrentUnderLock, SessionSound, SessionSoundFor, invoiceVars,
           ledgerVars
  <2> QED
    BY <1>2, <2>3 DEF IInv
<1>6. CASE VoidLoad(s)
  <2>1. PICK i \in DOMAIN rows :
           /\ rows[i].reverses = 0
           /\ req' = [req EXCEPT ![s] = Loaded("void_read", rows[i].amount, FALSE, i, dueAt)]
    BY <1>6 DEF VoidLoad
  <2>2. /\ req'[s].pc = "void_read" /\ req'[s].amount = rows[i].amount
        /\ req'[s].target = i       /\ req'[s].seenStatus = status
    BY <2>1, <1>4 DEF TypeOK, Loaded
  <2>3. rows[i].amount > 0 /\ status # "draft"
    BY <2>1, <1>4 DEF SignSound, NoPaymentOnDraft
  <2>4. SumCurrentUnderLock'
    BY <1>1, <1>3, <1>4, <1>6, <2>2 DEF VoidLoad, SumCurrentUnderLock, ledgerVars
  <2>5. UNCHANGED <<status, rows>>
    BY <1>1 DEF invoiceVars, ledgerVars
  <2>6. SessionSound'
    <3> SUFFICES ASSUME NEW t \in Sessions
                 PROVE  SessionSoundFor(t)'
      BY DEF SessionSound
    <3>1. CASE t = s
      BY <3>1, <2>1, <2>2, <2>3, <2>5 DEF SessionSoundFor
    <3>2. CASE t # s
      BY <3>2, <1>3, <1>4, <2>5 DEF SessionSound, SessionSoundFor
    <3> QED
      BY <3>1, <3>2
  <2> QED
    BY <1>2, <2>4, <2>6 DEF IInv
<1>7. CASE IssueLoad(s)
  <2>1. PICK d \in DueIn :
           req' = [req EXCEPT ![s] = Loaded("issue_commit", 0, FALSE, 0, now + d)]
    BY <1>7 DEF IssueLoad
  <2>2. req'[s].pc = "issue_commit" /\ req'[s].newStatus = "issued"
    BY <2>1, <1>4 DEF TypeOK, Loaded
  <2>3. SumCurrentUnderLock' /\ SessionSound'
    BY <1>1, <1>3, <1>4, <1>7, <2>2
       DEF IssueLoad, SumCurrentUnderLock, SessionSound, SessionSoundFor, invoiceVars,
           ledgerVars
  <2> QED
    BY <1>2, <2>3 DEF IInv
<1>8. CASE RecordLock(s)
  <2>1. req' = [req EXCEPT ![s].pc = "record_read"] /\ lock' = s /\ lock \in {NoSession, s}
    BY <1>8 DEF RecordLock, RowFree
  <2>2. /\ req'[s].pc = "record_read" /\ req'[s].amount = req[s].amount
        /\ req'[s].seenStatus = req[s].seenStatus
    BY <2>1, <1>4 DEF TypeOK, Requests
  <2>3. SumCurrentUnderLock'
    BY <1>1, <1>3, <1>4, <1>8, <2>1, <2>2, SessionsAssumption
       DEF RecordLock, SumCurrentUnderLock, SessionsAssumption, ledgerVars
  <2>4. SessionSound'
    BY <1>1, <1>3, <1>4, <1>8, <2>2
       DEF RecordLock, SessionSound, SessionSoundFor, invoiceVars, ledgerVars
  <2> QED
    BY <1>2, <2>3, <2>4 DEF IInv
<1>9. CASE RecordRejectDraft(s) \/ RecordRejectOverpayment(s)
  <2>1. req'[s] = Idle /\ lock' = NoSession /\ lock = s
    BY <1>9, <1>4 DEF RecordRejectDraft, RecordRejectOverpayment, Finish, TypeOK,
                      SumCurrentUnderLock
  <2>2. req'[s].pc = "idle"
    BY <2>1 DEF Idle
  <2>3. SumCurrentUnderLock' /\ SessionSound'
    BY <1>1, <1>3, <1>4, <2>1, <2>2, SessionsAssumption
       DEF SumCurrentUnderLock, SessionSound, SessionSoundFor, SessionsAssumption,
           invoiceVars, ledgerVars
  <2> QED
    BY <1>2, <2>3 DEF IInv
<1>10. CASE VoidDuplicate(s) \/ Abort(s)
  <2>1. /\ req'[s] = Idle
        /\ lock' = IF lock = s THEN NoSession ELSE lock
    BY <1>10, <1>4 DEF VoidDuplicate, Abort, Finish, TypeOK, SumCurrentUnderLock
  <2>2. req'[s].pc = "idle"
    BY <2>1 DEF Idle
  <2>3. SumCurrentUnderLock' /\ SessionSound'
    BY <1>1, <1>3, <1>4, <2>1, <2>2, SessionsAssumption
       DEF SumCurrentUnderLock, SessionSound, SessionSoundFor, SessionsAssumption,
           invoiceVars, ledgerVars
  <2> QED
    BY <1>2, <2>3 DEF IInv
<1>11. ASSUME NEW delta \in Int, NEW point \in Points, ReadSummary(s, delta, point),
              req[s].seenStatus # "draft"
       PROVE  /\ req'[s].pc = point             /\ req'[s].seenPaid = netPaid
              /\ req'[s].amount = req[s].amount /\ req'[s].target = req[s].target
              /\ req'[s].seenStatus = req[s].seenStatus
              /\ req'[s].newStatus # "draft"
  <2>1. /\ invoiceTotal \in Int /\ netPaid \in Int /\ now \in Nat
        /\ req[s].seenDue \in Nat /\ req[s].seenStatus \in Statuses
    <3>1. req[s] \in Requests
      BY <1>4 DEF TypeOK
    <3> QED
      BY <1>4, <3>1, TotalsAssumption DEF TypeOK, Requests, TotalsAssumption
  <2> DEFINE new == DeriveStatus(invoiceTotal, netPaid + delta, req[s].seenDue,
                                 req[s].seenStatus, now)
             r   == req[s]
  <2>5. r \in Requests /\ netPaid + delta \in Int
    BY <2>1, <1>4 DEF TypeOK
  <2>2. new # "draft"
    BY <2>1, <2>5, <1>11, DeriveStatusSound
  <2>3. req'[s] = [r EXCEPT !.pc = point, !.seenPaid = netPaid, !.newStatus = new]
    BY <1>11, <1>4 DEF ReadSummary, TypeOK
  <2> HIDE DEF new, r
  <2>4. /\ req'[s].pc = point         /\ req'[s].seenPaid = netPaid
        /\ req'[s].amount = r.amount  /\ req'[s].target = r.target
        /\ req'[s].seenStatus = r.seenStatus /\ req'[s].newStatus = new
    BY <2>5, <2>3 DEF Requests
  <2> QED
    BY <2>2, <2>4 DEF r
<1>12. req[s].amount \in Int /\ -req[s].amount \in Int
  BY <1>4 DEF TypeOK, Requests
<1>13. CASE RecordRead(s)
  <2>1. ReadSummary(s, req[s].amount, "record_commit") /\ req[s].seenStatus # "draft"
        /\ req[s].pc = "record_read" /\ lock' = lock
    BY <1>13 DEF RecordRead
  <2>2. /\ req'[s].pc = "record_commit"     /\ req'[s].seenPaid = netPaid
        /\ req'[s].amount = req[s].amount   /\ req'[s].newStatus # "draft"
        /\ req'[s].seenStatus = req[s].seenStatus
    BY <2>1, <1>11, <1>12, "record_commit" \in Points DEF Points
  <2>3. SumCurrentUnderLock' /\ SessionSound'
    BY <1>1, <1>3, <1>4, <2>1, <2>2
       DEF SumCurrentUnderLock, SessionSound, SessionSoundFor, invoiceVars, ledgerVars
  <2> QED
    BY <1>2, <2>3 DEF IInv
<1>14. CASE VoidRead(s)
  <2>1. ReadSummary(s, -req[s].amount, "void_commit") /\ req[s].pc = "void_read"
        /\ lock' = lock
    BY <1>14 DEF VoidRead
  <2>2. req[s].seenStatus # "draft"
    BY <2>1, <1>4 DEF SessionSound, SessionSoundFor
  <2>3. /\ req'[s].pc = "void_commit"       /\ req'[s].target = req[s].target
        /\ req'[s].amount = req[s].amount   /\ req'[s].newStatus # "draft"
        /\ req'[s].seenStatus = req[s].seenStatus
    BY <2>1, <2>2, <1>11, <1>12, "void_commit" \in Points DEF Points
  <2>4. SumCurrentUnderLock' /\ SessionSound'
    BY <1>1, <1>3, <1>4, <2>1, <2>2, <2>3
       DEF SumCurrentUnderLock, SessionSound, SessionSoundFor, invoiceVars, ledgerVars
  <2> QED
    BY <1>2, <2>4 DEF IInv
<1> QED
  BY <1>5, <1>6, <1>7, <1>8, <1>9, <1>10, <1>13, <1>14

\* The commit of a payment: the sum it checked is the current one, so the
\* ledger stays within the invoice.
LEMMA RecordCommitStep ==
    ASSUME IInv, TypeOK', NEW s \in Sessions, RecordCommit(s)
    PROVE  IInv'
<1>1. TypeOK /\ NeverOverpaid /\ SumCurrentUnderLock /\ ReversedOnce /\ SessionSound
      /\ SignSound
  BY DEF IInv
<1>2. /\ req[s].pc = "record_commit" /\ ~Overpays(s) /\ lock' = NoSession
      /\ rows' = Append(rows, [amount |-> req[s].amount, reverses |-> 0])
      /\ netPaid' = netPaid + req[s].amount /\ status' = StatusAfterFlush(s)
      /\ invoiceTotal' = invoiceTotal /\ req' = [req EXCEPT ![s] = Idle]
  BY DEF RecordCommit, Finish
<1>3. /\ lock = s                   /\ req[s].seenPaid = netPaid
      /\ req[s].seenStatus # "draft" /\ req[s].newStatus # "draft"
      /\ req[s].amount \in Amounts   /\ status # "draft"
  BY <1>1, <1>2 DEF SumCurrentUnderLock, SessionSound, SessionSoundFor
<1>4. NeverOverpaid'
  <2>1. netPaid \in Int /\ invoiceTotal \in Int /\ req[s].amount \in Int
    BY <1>1, TotalsAssumption DEF TypeOK, Requests, TotalsAssumption
  <2> QED
    BY <1>2, <1>3, <2>1 DEF Overpays, NeverOverpaid
<1>5. status' # "draft"
  BY <1>2, <1>3 DEF StatusAfterFlush
<1>6. req'[s].pc = "idle" /\ \A t \in Sessions : t # s => req'[t] = req[t]
  BY <1>1, <1>2 DEF TypeOK, Idle
<1>7. SumCurrentUnderLock'
  BY <1>1, <1>2, <1>3, <1>6, SessionsAssumption DEF SumCurrentUnderLock, SessionsAssumption
<1>8. /\ rows \in Seq(Rows) /\ Len(rows) \in Nat
      /\ DOMAIN rows = 1 .. Len(rows) /\ DOMAIN rows' = 1 .. Len(rows) + 1
      /\ \A i \in DOMAIN rows : rows'[i] = rows[i]
      /\ rows'[Len(rows) + 1] = [amount |-> req[s].amount, reverses |-> 0]
  BY <1>1, <1>2 DEF TypeOK
<1>9. SessionSound'
  BY <1>1, <1>5, <1>6, <1>8 DEF SessionSound, SessionSoundFor
<1>10. SignSound'
  <2>0. req[s].amount \in Nat \ {0}
    BY <1>3, AmountsAssumption DEF AmountsAssumption
  <2>1. req[s].amount > 0
    BY <2>0
  <2> QED
    BY <1>1, <1>8, <2>1 DEF SignSound
<1>11. ReversedOnce'
  <2> SUFFICES ASSUME NEW i \in DOMAIN rows', rows'[i].reverses # 0
               PROVE  /\ rows'[i].reverses \in 1 .. i - 1
                      /\ rows'[rows'[i].reverses].reverses = 0
                      /\ rows'[i].amount = -rows'[rows'[i].reverses].amount
                      /\ \A j \in DOMAIN rows' : rows'[j].reverses = rows'[i].reverses => j = i
    BY DEF ReversedOnce
  <2>1. i \in DOMAIN rows /\ rows'[i] = rows[i]
    BY <1>8
  <2>2. rows[i].reverses \in 1 .. i - 1 /\ rows[i].reverses \in DOMAIN rows
    BY <1>1, <1>8, <2>1 DEF ReversedOnce
  <2>3. \A j \in DOMAIN rows' : rows'[j].reverses = rows[i].reverses => j \in DOMAIN rows
    BY <1>8, <2>1
  <2> QED
    BY <1>1, <1>8, <2>1, <2>2, <2>3 DEF ReversedOnce
<1> QED
  BY <1>4, <1>5, <1>7, <1>9, <1>10, <1>11 DEF IInv, NoPaymentOnDraft

\* The commit of a void: nobody holds the row lock, the ledger can only shrink
\* in value, and the unique key has just found no other reversal.
LEMMA VoidCommitStep ==
    ASSUME IInv, TypeOK', NEW s \in Sessions, VoidCommit(s)
    PROVE  IInv'
<1>1. TypeOK /\ NeverOverpaid /\ SumCurrentUnderLock /\ ReversedOnce /\ SessionSound
      /\ SignSound /\ NoPaymentOnDraft
  BY DEF IInv
<1>2. /\ req[s].pc = "void_commit" /\ RowFree(s) /\ lock' = lock
      /\ ~IsReversed(req[s].target)
      /\ rows' = Append(rows, [amount |-> -req[s].amount, reverses |-> req[s].target])
      /\ netPaid' = netPaid - req[s].amount /\ status' = StatusAfterFlush(s)
      /\ invoiceTotal' = invoiceTotal /\ req' = [req EXCEPT ![s] = Idle]
  BY DEF VoidCommit, Finish
<1> DEFINE target == req[s].target
<1>3. /\ target \in DOMAIN rows /\ rows[target].reverses = 0
      /\ req[s].amount = rows[target].amount /\ req[s].amount > 0
      /\ req[s].newStatus # "draft" /\ lock = NoSession
  BY <1>1, <1>2 DEF SumCurrentUnderLock, SessionSound, SessionSoundFor, RowFree
<1>4. NeverOverpaid'
  <2>1. netPaid \in Int /\ invoiceTotal \in Int /\ req[s].amount \in Int
    BY <1>1, TotalsAssumption DEF TypeOK, Requests, TotalsAssumption
  <2> QED
    BY <1>1, <1>2, <1>3, <2>1 DEF NeverOverpaid
<1>5. status' # "draft"
  BY <1>1, <1>2, <1>3 DEF StatusAfterFlush, NoPaymentOnDraft
<1>6. req'[s].pc = "idle" /\ \A t \in Sessions : t # s => req'[t] = req[t]
  BY <1>1, <1>2 DEF TypeOK, Idle
<1>7. SumCurrentUnderLock'
  BY <1>1, <1>2, <1>3, <1>6, SessionsAssumption DEF SumCurrentUnderLock, SessionsAssumption
<1>8. /\ rows \in Seq(Rows) /\ Len(rows) \in Nat
      /\ DOMAIN rows = 1 .. Len(rows) /\ DOMAIN rows' = 1 .. Len(rows) + 1
      /\ \A i \in DOMAIN rows : rows'[i] = rows[i]
      /\ rows'[Len(rows) + 1] = [amount |-> -req[s].amount, reverses |-> target]
  BY <1>1, <1>2 DEF TypeOK
<1>9. SessionSound'
  BY <1>1, <1>5, <1>6, <1>8 DEF SessionSound, SessionSoundFor
<1>10. target \in 1 .. Len(rows)
  BY <1>3, <1>8
<1>11. SignSound'
  BY <1>1, <1>8, <1>10 DEF SignSound
<1>12. ReversedOnce'
  <2> HIDE DEF target
  <2> SUFFICES ASSUME NEW i \in DOMAIN rows', rows'[i].reverses # 0
               PROVE  /\ rows'[i].reverses \in 1 .. i - 1
                      /\ rows'[rows'[i].reverses].reverses = 0
                      /\ rows'[i].amount = -rows'[rows'[i].reverses].amount
                      /\ \A j \in DOMAIN rows' : rows'[j].reverses = rows'[i].reverses => j = i
    BY DEF ReversedOnce
  <2>1. \A j \in DOMAIN rows : rows[j].reverses # target
    BY <1>2 DEF IsReversed, target
  <2>2. CASE i = Len(rows) + 1
    BY <1>3, <1>8, <1>10, <2>1, <2>2
  <2>3. CASE i # Len(rows) + 1
    <3>1. i \in DOMAIN rows /\ rows'[i] = rows[i]
      BY <1>8, <2>3
    <3>2. rows[i].reverses \in 1 .. i - 1 /\ rows[i].reverses \in DOMAIN rows
      BY <1>1, <1>8, <3>1 DEF ReversedOnce
    <3>3. \A j \in DOMAIN rows' : rows'[j].reverses = rows[i].reverses => j \in DOMAIN rows
      BY <1>8, <2>1, <3>1
    <3> QED
      BY <1>1, <1>8, <3>1, <3>2, <3>3 DEF ReversedOnce
  <2> QED
    BY <2>2, <2>3
<1> QED
  BY <1>4, <1>5, <1>7, <1>9, <1>11, <1>12 DEF IInv, NoPaymentOnDraft

\* The commit of an issue: the ledger is not touched and the invoice does not
\* return to draft.
LEMMA IssueCommitStep ==
    ASSUME IInv, TypeOK', NEW s \in Sessions, IssueCommit(s)
    PROVE  IInv'
<1>1. TypeOK /\ NeverOverpaid /\ SumCurrentUnderLock /\ ReversedOnce /\ SessionSound
      /\ SignSound /\ NoPaymentOnDraft
  BY DEF IInv
<1>2. /\ req[s].pc = "issue_commit" /\ lock' = lock /\ rows' = rows
      /\ netPaid' = netPaid /\ status' = StatusAfterFlush(s)
      /\ invoiceTotal' = invoiceTotal /\ req' = [req EXCEPT ![s] = Idle]
  BY DEF IssueCommit, Finish, ledgerVars
<1>3. status # "draft" => status' # "draft"
  BY <1>1, <1>2 DEF StatusAfterFlush, SessionSound, SessionSoundFor
<1>4. req'[s].pc = "idle" /\ \A t \in Sessions : t # s => req'[t] = req[t]
  BY <1>1, <1>2 DEF TypeOK, Idle
<1>5. SumCurrentUnderLock'
  BY <1>1, <1>2, <1>4 DEF SumCurrentUnderLock
<1>6. SessionSound'
  BY <1>1, <1>2, <1>3, <1>4 DEF SessionSound, SessionSoundFor
<1>7. NeverOverpaid' /\ ReversedOnce' /\ SignSound' /\ NoPaymentOnDraft'
  BY <1>1, <1>2, <1>3 DEF NeverOverpaid, ReversedOnce, SignSound, NoPaymentOnDraft
<1> QED
  BY <1>5, <1>6, <1>7 DEF IInv

\* Every step keeps the inductive invariant.
LEMMA NextIInv == IInv /\ [Next]_vars => IInv'
<1> SUFFICES ASSUME IInv, [Next]_vars PROVE IInv'
  OBVIOUS
<1>1. TypeOK'
  BY NextTypeOK DEF IInv
<1>2. ASSUME NEW s \in Sessions,
             RecordLoad(s) \/ VoidLoad(s) \/ IssueLoad(s) \/ Advance(s) \/ Abort(s)
      PROVE  IInv'
  BY <1>1, <1>2, QuietActions, RecordCommitStep, VoidCommitStep, IssueCommitStep DEF Advance
<1>3. CASE Tick \/ UNCHANGED vars
  <2>1. UNCHANGED <<status, dueAt, invoiceTotal, rows, netPaid, lock, req>>
    BY <1>3 DEF Tick, vars, invoiceVars, ledgerVars
  <2> QED
    BY <1>1, <2>1 DEF IInv, NeverOverpaid, SumCurrentUnderLock, ReversedOnce,
                      NoPaymentOnDraft, SessionSound, SessionSoundFor, SignSound
<1> QED
  BY <1>2, <1>3 DEF Next

-----------------------------------------------------------------------------
(* The theorems.                                                           *)

\* No set of requests, on any interleaving, pays more than the invoice, or anything on a
\* draft, though the guard of record_payment is a status loaded before the row lock.
THEOREM PaidWithinInvoiceTheorem == Spec => []PaidWithinInvoice
<1>1. IInv => PaidWithinInvoice
  BY DEF IInv, PaidWithinInvoice
<1> QED
  BY <1>1, InitIInv, NextIInv, PTL DEF Spec

\* Why it holds: a request that has read the payments holds the row lock until
\* its commit, so the sum it compares is still the sum of the ledger.
THEOREM SumCurrentUnderLockTheorem == Spec => []SumCurrentUnderLock
<1>1. IInv => SumCurrentUnderLock
  BY DEF IInv
<1> QED
  BY <1>1, InitIInv, NextIInv, PTL DEF Spec

\* Each payment is voided at most once, by a row that cancels exactly it,
\* whatever voids race (uq_invoice_payments_reversal_of).
THEOREM ReversedOnceTheorem == Spec => []ReversedOnce
<1>1. IInv => ReversedOnce
  BY DEF IInv
<1> QED
  BY <1>1, InitIInv, NextIInv, PTL DEF Spec

-----------------------------------------------------------------------------
(* The concurrent requests implement the abstract ledger.                  *)

\* A committed payment is one Pay of the abstract ledger.
LEMMA RecordCommitIsPay ==
    ASSUME IInv, IInv', NEW s \in Sessions, RecordCommit(s)
    PROVE  Abstract!Next
<1> DEFINE n == Len(rows) + 1
           e == [id |-> n, amount |-> req[s].amount]
<1>1. TypeOK /\ NeverOverpaid' /\ SessionSound
  BY DEF IInv
<1>2. /\ rows' = Append(rows, [amount |-> req[s].amount, reverses |-> 0])
      /\ netPaid' = netPaid + req[s].amount /\ invoiceTotal' = invoiceTotal
      /\ req[s].pc = "record_commit"
  BY DEF RecordCommit
<1>3. /\ rows \in Seq(Rows) /\ Len(rows) \in Nat
      /\ DOMAIN rows = 1 .. Len(rows) /\ DOMAIN rows' = 1 .. n
      /\ \A i \in DOMAIN rows : rows'[i] = rows[i]
      /\ rows'[n].amount = req[s].amount /\ rows'[n].reverses = 0
  BY <1>1, <1>2 DEF TypeOK
<1>4. {k \in DOMAIN rows' : rows'[k].reverses = 0} =
      {k \in DOMAIN rows : rows[k].reverses = 0} \cup {n}
  BY <1>3
<1>5. Entries' = Entries \cup {e}
  BY <1>3, <1>4 DEF Entries
<1>6. Voided' = Voided
  BY <1>3 DEF Voided
<1>7. \A other \in Entries : other.id # n
  BY <1>3 DEF Entries
<1>8. e.amount \in Amounts /\ e.id = n /\ e.amount = req[s].amount
  BY <1>1, <1>2 DEF SessionSound, SessionSoundFor
<1>9. netPaid + e.amount <= invoiceTotal
  BY <1>1, <1>2, <1>8 DEF NeverOverpaid
<1> HIDE DEF e, n
<1>10. e \in Entries' \ Entries
  BY <1>5, <1>7, <1>8
<1> QED
  BY <1>2, <1>5, <1>6, <1>7, <1>8, <1>9, <1>10 DEF Abstract!Next, Abstract!Pay

\* A committed void is one Void of the abstract ledger.
LEMMA VoidCommitIsVoid ==
    ASSUME IInv, NEW s \in Sessions, VoidCommit(s)
    PROVE  Abstract!Next
<1> DEFINE n == Len(rows) + 1
           t == req[s].target
           e == [id |-> t, amount |-> req[s].amount]
<1>1. TypeOK /\ SessionSound
  BY DEF IInv
<1>2. /\ rows' = Append(rows, [amount |-> -req[s].amount, reverses |-> t])
      /\ netPaid' = netPaid - req[s].amount /\ invoiceTotal' = invoiceTotal
      /\ req[s].pc = "void_commit" /\ ~IsReversed(t)
  BY DEF VoidCommit
<1>3. /\ rows \in Seq(Rows) /\ Len(rows) \in Nat
      /\ DOMAIN rows = 1 .. Len(rows) /\ DOMAIN rows' = 1 .. n
      /\ \A i \in DOMAIN rows : rows'[i] = rows[i]
      /\ rows'[n].reverses = t
  BY <1>1, <1>2 DEF TypeOK
<1>4. t \in DOMAIN rows /\ rows[t].reverses = 0 /\ rows[t].amount = req[s].amount
  BY <1>1, <1>2 DEF SessionSound, SessionSoundFor
<1>5. t # 0
  BY <1>3, <1>4
<1> HIDE DEF t, n
<1>6. {k \in DOMAIN rows' : rows'[k].reverses = 0} = {k \in DOMAIN rows : rows[k].reverses = 0}
  BY <1>3, <1>5 DEF n
<1>7. Entries' = Entries
  BY <1>3, <1>6 DEF Entries
<1>8. {k \in DOMAIN rows' : rows'[k].reverses # 0} =
      {k \in DOMAIN rows : rows[k].reverses # 0} \cup {n}
  BY <1>3, <1>5 DEF n
<1>9. Voided' = Voided \cup {t}
  BY <1>3, <1>8 DEF Voided
<1>10. t \notin Voided
  BY <1>2 DEF Voided, IsReversed
<1>11. e \in Entries /\ e.id = t /\ e.amount = req[s].amount
  BY <1>4 DEF Entries
<1> QED
  BY <1>2, <1>7, <1>9, <1>10, <1>11 DEF Abstract!Next, Abstract!Void

\* The sessions of payment_store implement the abstract ledger: every commit is
\* one atomic, admissible change of it, and no other step shows.
THEOREM ImplementsLedgerTheorem == Spec => ImplementsLedger
<1>1. Init => Abstract!Init
  BY DEF Init, Abstract!Init, Entries, Voided
<1>2. IInv /\ IInv' /\ [Next]_vars => [Abstract!Next]_(Abstract!vars)
  <2> SUFFICES ASSUME IInv, IInv', [Next]_vars, UNCHANGED <<rows, netPaid, invoiceTotal>>
               PROVE  UNCHANGED Abstract!vars
    BY RecordCommitIsPay, VoidCommitIsVoid
       DEF Next, Advance, RecordLoad, VoidLoad, IssueLoad, RecordLock, RecordRejectDraft,
           RecordRead, RecordRejectOverpayment, VoidRead, VoidDuplicate, IssueCommit,
           Abort, Tick, vars, invoiceVars, ledgerVars
  <2> QED
    BY DEF Abstract!vars, Entries, Voided
<1> QED
  BY <1>1, <1>2, InitIInv, NextIInv, PTL DEF Spec, ImplementsLedger, Abstract!Spec

-----------------------------------------------------------------------------
(* The schedule of the payments                                            *)

\* Halves and thirds are rounded; the last row takes what is left, and enough is left.
LEMMA ScheduleAddsUp ==
    ASSUME NEW option \in Options, NEW total \in Nat
    PROVE  /\ SumOn(ScheduleAmounts(option, total), DOMAIN ScheduleAmounts(option, total)) = total
           /\ \A k \in DOMAIN ScheduleAmounts(option, total) :
                 ScheduleAmounts(option, total)[k] >= 0
<1> DEFINE q == ScheduleAmounts(option, total)
<1>2. /\ Share(total, 2) \in Nat /\ total - Share(total, 2) \in Nat
      /\ Share(total, 3) \in Nat /\ total - 2 * Share(total, 3) \in Nat
  BY DEF Share
<1>3. CASE option = "split_payment"
  <2>1. DOMAIN q = 1 .. 2 /\ q[1] = Share(total, 2) /\ q[2] = total - Share(total, 2)
    BY <1>3 DEF ScheduleAmounts
  <2> HIDE DEF q
  <2>2. \A k \in 1 .. 2 : q[k] \in Nat BY <1>2, <2>1
  <2>3. SumOn(q, 1 .. 0) = 0 /\ SumOn(q, 1 .. 0 + 1) = SumOn(q, 1 .. 0) + q[0 + 1]
    <3>1. \A k \in 1 .. 0 + 1 : q[k] \in Int BY <2>2
    <3> QED BY <3>1, SumOfSequence
  <2>4. SumOn(q, 1 .. 1 + 1) = SumOn(q, 1 .. 1) + q[1 + 1]
    <3>1. \A k \in 1 .. 1 + 1 : q[k] \in Int BY <2>2
    <3> QED BY <3>1, SumOfSequence
  <2>5. SumOn(q, 1 .. 2) = total
    BY <1>2, <2>1, <2>3, <2>4
  <2>7. SumOn(q, DOMAIN q) = total /\ \A k \in DOMAIN q : q[k] >= 0
    BY <2>1, <2>2, <2>5
  <2> QED BY <2>7 DEF q
<1>4. CASE option = "two_month_plan"
  <2>1. DOMAIN q = 1 .. 3 /\ q[1] = Share(total, 3) /\ q[2] = Share(total, 3)
        /\ q[3] = total - 2 * Share(total, 3)
    BY <1>4 DEF ScheduleAmounts
  <2> HIDE DEF q
  <2>2. \A k \in 1 .. 3 : q[k] \in Nat BY <1>2, <2>1
  <2>3. SumOn(q, 1 .. 0) = 0 /\ SumOn(q, 1 .. 0 + 1) = SumOn(q, 1 .. 0) + q[0 + 1]
    <3>1. \A k \in 1 .. 0 + 1 : q[k] \in Int BY <2>2
    <3> QED BY <3>1, SumOfSequence
  <2>4. SumOn(q, 1 .. 1 + 1) = SumOn(q, 1 .. 1) + q[1 + 1]
    <3>1. \A k \in 1 .. 1 + 1 : q[k] \in Int BY <2>2
    <3> QED BY <3>1, SumOfSequence
  <2>5. SumOn(q, 1 .. 2 + 1) = SumOn(q, 1 .. 2) + q[2 + 1]
    <3>1. \A k \in 1 .. 2 + 1 : q[k] \in Int BY <2>2
    <3> QED BY <3>1, SumOfSequence
  <2>6. SumOn(q, 1 .. 3) = total
    BY <1>2, <2>1, <2>3, <2>4, <2>5
  <2>7. SumOn(q, DOMAIN q) = total /\ \A k \in DOMAIN q : q[k] >= 0
    BY <2>1, <2>2, <2>6
  <2> QED BY <2>7 DEF q
<1>5. CASE option = "pay_in_full"
  <2>1. DOMAIN q = 1 .. 1 /\ q[1] = total
    BY <1>5 DEF ScheduleAmounts
  <2> HIDE DEF q
  <2>2. \A k \in 1 .. 1 : q[k] \in Nat BY <2>1
  <2>3. SumOn(q, 1 .. 0) = 0 /\ SumOn(q, 1 .. 0 + 1) = SumOn(q, 1 .. 0) + q[0 + 1]
    <3>1. \A k \in 1 .. 0 + 1 : q[k] \in Int BY <2>2
    <3> QED BY <3>1, SumOfSequence
  <2>4. SumOn(q, 1 .. 1) = total
    BY <2>1, <2>3
  <2>7. SumOn(q, DOMAIN q) = total /\ \A k \in DOMAIN q : q[k] >= 0
    BY <2>1, <2>2, <2>4
  <2> QED BY <2>7 DEF q
<1> QED BY <1>3, <1>4, <1>5 DEF Options, PaymentPlanOptions

\* ScheduleSumsToTotal with the sum as a function.
ScheduleAdded ==
    /\ schedule = <<>> <=> status = "draft"
    /\ schedule # <<>> =>
          /\ SumOn(schedule, DOMAIN schedule) = invoiceTotal
          /\ \A k \in DOMAIN schedule : schedule[k] >= 0

LEMMA ScheduleSum == ScheduleAdded <=> ScheduleSumsToTotal
BY DEF ScheduleAdded, ScheduleSumsToTotal, FoldFunction, FoldFunctionOnSet, MapThenFoldSet,
       SumOn, IsIter, Pick

\* What an issue loaded: a draft.
IssuesDraft == \A s \in Sessions : req[s].pc = "issue_commit" => req[s].seenStatus = "draft"

LEMMA ScheduleStep ==
    ASSUME IInv, IssuesDraft, ScheduleAdded, [Next]_vars
    PROVE  IssuesDraft' /\ ScheduleAdded'
<1>1. TypeOK /\ SessionSound /\ SumCurrentUnderLock
  BY DEF IInv
<1>2. ASSUME NEW s \in Sessions, IssueCommit(s)
      PROVE  IssuesDraft' /\ ScheduleAdded'
  <2>1. /\ req[s].pc = "issue_commit" /\ status' = StatusAfterFlush(s)
        /\ schedule' = IF schedule = <<>> THEN ScheduleAmounts(paymentOption, invoiceTotal)
                       ELSE schedule
        /\ invoiceTotal' = invoiceTotal /\ req' = [req EXCEPT ![s] = Idle]
    BY <1>2 DEF IssueCommit, Finish
  <2>2. status' = "issued"
    BY <1>1, <2>1 DEF SessionSound, SessionSoundFor, IssuesDraft, StatusAfterFlush
  <2>3. paymentOption \in Options /\ invoiceTotal \in Nat
    BY <1>1, TotalsAssumption DEF TypeOK, TotalsAssumption
  <2>4. IssuesDraft' BY <1>1, <2>1 DEF IssuesDraft, TypeOK, Idle
  <2>5. CASE schedule = <<>>
    <3>1. schedule' = ScheduleAmounts(paymentOption, invoiceTotal) BY <2>1, <2>5
    <3>2. schedule' # <<>> BY <2>3, <3>1, ScheduleAmountsSound
    <3>3. /\ SumOn(schedule', DOMAIN schedule') = invoiceTotal
          /\ \A k \in DOMAIN schedule' : schedule'[k] >= 0
      BY <2>3, <3>1, ScheduleAddsUp
    <3> QED BY <2>1, <2>2, <2>4, <3>2, <3>3 DEF ScheduleAdded
  <2>6. CASE schedule # <<>>
    <3>1. UNCHANGED <<schedule, invoiceTotal>> BY <2>1, <2>6
    <3> QED BY <2>2, <2>4, <2>6, <3>1 DEF ScheduleAdded
  <2> QED BY <2>5, <2>6
<1>3. ASSUME NEW s \in Sessions, RecordCommit(s) \/ VoidCommit(s)
      PROVE  IssuesDraft' /\ ScheduleAdded'
  <2>1. /\ status' = StatusAfterFlush(s) /\ req' = [req EXCEPT ![s] = Idle]
        /\ UNCHANGED <<schedule, invoiceTotal>>
    BY <1>3 DEF RecordCommit, VoidCommit, Finish
  <2>2. status # "draft"
    <3>1. CASE RecordCommit(s)
      BY <1>1, <3>1 DEF RecordCommit, SessionSound, SessionSoundFor
    <3>2. CASE VoidCommit(s)
      <4>1. req[s].target \in DOMAIN rows
        BY <1>1, <3>2 DEF VoidCommit, SessionSound, SessionSoundFor
      <4>2. rows # <<>> BY <4>1
      <4> QED BY <4>2 DEF IInv, NoPaymentOnDraft
    <3> QED BY <1>3, <3>1, <3>2
  <2>3. status' # "draft"
    BY <1>1, <1>3, <2>1, <2>2
       DEF RecordCommit, VoidCommit, SessionSound, SessionSoundFor, StatusAfterFlush
  <2>4. IssuesDraft' BY <1>1, <2>1 DEF IssuesDraft, TypeOK, Idle
  <2> QED BY <2>1, <2>2, <2>3, <2>4 DEF ScheduleAdded
<1>4. CASE UNCHANGED <<status, schedule, invoiceTotal>> /\ IssuesDraft'
  BY <1>4 DEF ScheduleAdded
<1>5. ASSUME NEW s \in Sessions, IssueLoad(s)
      PROVE  IssuesDraft' /\ UNCHANGED <<status, schedule, invoiceTotal>>
  <2>1. PICK d \in DueIn : req' = [req EXCEPT ![s] = Loaded("issue_commit", 0, FALSE, 0, now + d)]
    BY <1>5 DEF IssueLoad
  <2>2. req'[s].seenStatus = "draft" /\ \A t \in Sessions : t # s => req'[t] = req[t]
    BY <1>1, <1>5, <2>1 DEF TypeOK, Loaded, IssueLoad
  <2> QED BY <1>5, <2>2 DEF IssuesDraft, IssueLoad, invoiceVars
<1>6. ASSUME NEW s \in Sessions,
             \/ RecordLoad(s) \/ VoidLoad(s)
             \/ RecordLock(s) \/ RecordRejectDraft(s) \/ RecordRead(s)
             \/ RecordRejectOverpayment(s) \/ VoidRead(s) \/ VoidDuplicate(s) \/ Abort(s)
      PROVE  IssuesDraft' /\ UNCHANGED <<status, schedule, invoiceTotal>>
  <2>1. UNCHANGED <<status, schedule, invoiceTotal>>
    BY <1>6 DEF RecordLoad, VoidLoad, RecordLock, RecordRejectDraft, RecordRead,
                RecordRejectOverpayment, VoidRead, VoidDuplicate, Abort, invoiceVars
  <2>2. \A t \in Sessions : t # s => req'[t] = req[t]
    BY <1>1, <1>6 DEF RecordLoad, VoidLoad, RecordLock, RecordRejectDraft, RecordRead,
                RecordRejectOverpayment, VoidRead, VoidDuplicate, Abort, Finish, ReadSummary, TypeOK
  <2>3. req'[s].pc # "issue_commit"
    BY <1>1, <1>6 DEF RecordLoad, VoidLoad, RecordLock, RecordRejectDraft, RecordRead,
                RecordRejectOverpayment, VoidRead, VoidDuplicate, Abort, Finish, ReadSummary, TypeOK,
                Idle, Loaded, Requests
  <2> QED BY <2>1, <2>2, <2>3 DEF IssuesDraft
<1>7. CASE Tick \/ UNCHANGED vars
  BY <1>4, <1>7 DEF Tick, vars, invoiceVars, IssuesDraft
<1> QED BY <1>2, <1>3, <1>4, <1>5, <1>6, <1>7 DEF Next, Advance

\* issue_invoice: the schedule exists from the moment the invoice leaves draft, adds up to
\* the invoice to the cent, and no row of it is negative, for every total and plan and
\* however many issues race.
THEOREM ScheduleSumsToTotalTheorem == Spec => []ScheduleSumsToTotal
<1>1. Init => IssuesDraft /\ ScheduleAdded
  BY DEF Init, Idle, IssuesDraft, ScheduleAdded
<1> QED BY <1>1, InitIInv, NextIInv, ScheduleStep, ScheduleSum, PTL DEF Spec

-----------------------------------------------------------------------------
(* The cached status                                                       *)

Derived(paid, at) == DeriveStatus(invoiceTotal, paid, dueAt, status, at)

\* What a request that runs alone loaded is what the row holds, and what it is about to
\* write is the status of the ledger it is about to leave, at the time it read it.
CopyCurrent(r) ==
    r.pc # "idle" =>
    /\ r.seenStatus = status
    /\ r.pc # "issue_commit" => r.seenDue = dueAt
    /\ r.pc = "issue_commit" => status = "draft"
    /\ r.pc = "record_commit" => \E at \in 1 .. now : r.newStatus = Derived(netPaid + r.amount, at)
    /\ r.pc = "void_commit" => \E at \in 1 .. now : r.newStatus = Derived(netPaid - r.amount, at)

CacheInv ==
    /\ rows = <<>> => netPaid = 0
    /\ now >= 1
    /\ ~raced => \A s, t \in Sessions : s # t => req[s].pc = "idle" \/ req[t].pc = "idle"
    /\ ~raced => \A s \in Sessions : CopyCurrent(req[s])
    /\ CacheInSync

\* Later the same ledger derives the same status, or overdue.
LEMMA DerivedLater ==
    ASSUME NEW total \in Int, NEW paid \in Int, NEW due \in Nat,
           NEW a \in Statuses, NEW b \in Statuses, a # "draft", b # "draft",
           NEW early \in Nat, NEW late \in Nat, early <= late
    PROVE  LET old == DeriveStatus(total, paid, due, a, early)
               new == DeriveStatus(total, paid, due, b, late)
           IN  old = new \/ (new = "overdue" /\ old \in {"issued", "partially_paid"})
BY DEF DeriveStatus, Statuses

\* A request that begins or goes on without writing.
LEMMA CacheQuiet ==
    ASSUME IInv, CacheInv, NEW s \in Sessions, NEW r \in Requests, req' = [req EXCEPT ![s] = r],
           UNCHANGED <<status, dueAt, invoiceTotal, rows, netPaid, now>>,
           ~raced' => ~raced /\ CopyCurrent(r),
           ~raced' /\ r.pc # "idle" => \A t \in Sessions : t # s => req[t].pc = "idle"
    PROVE  CacheInv'
<1>1. \A t \in Sessions : req'[t] = IF t = s THEN r ELSE req[t]
  BY DEF IInv, TypeOK
<1>2. ASSUME ~raced', NEW t \in Sessions PROVE CopyCurrent(req[t])'
  <2>1. PICK x : x = req'[t] OBVIOUS
  <2>2. CopyCurrent(x) BY <1>1, <1>2, <2>1 DEF CacheInv
  <2>3. CopyCurrent(x)' BY <2>2 DEF CopyCurrent, Derived
  <2> QED BY <2>1, <2>3 DEF CopyCurrent, Derived
<1>3. ~raced' => \A t, u \in Sessions : t # u => req'[t].pc = "idle" \/ req'[u].pc = "idle"
  BY <1>1 DEF CacheInv
<1>4. CacheInSync'
  BY DEF CacheInv, CacheInSync
<1> QED BY <1>2, <1>3, <1>4 DEF CacheInv

\* A request that commits: alone, it leaves the derived status behind.
LEMMA CacheCommit ==
    ASSUME IInv, CacheInv, NEW s \in Sessions, req[s].pc # "idle", req' = [req EXCEPT ![s] = Idle],
           UNCHANGED <<raced, now>>, rows' = <<>> => netPaid' = 0, CacheInSync'
    PROVE  CacheInv'
<1>1. \A t \in Sessions : req'[t] = IF t = s THEN Idle ELSE req[t]
  BY DEF IInv, TypeOK
<1>2. ~raced => \A t \in Sessions : req'[t].pc = "idle"
  BY <1>1 DEF CacheInv, Idle
<1> QED BY <1>2 DEF CacheInv, CopyCurrent

LEMMA RecordCache ==
    ASSUME IInv, IInv', CacheInv, NEW s \in Sessions, RecordCommit(s) \/ VoidCommit(s)
    PROVE  CacheInv'
<1> DEFINE delta == IF req[s].pc = "record_commit" THEN req[s].amount ELSE -req[s].amount
<1>1. /\ req[s].pc \in {"record_commit", "void_commit"}
      /\ netPaid' = netPaid + delta
      /\ status' = StatusAfterFlush(s) /\ req' = [req EXCEPT ![s] = Idle]
      /\ UNCHANGED <<dueAt, invoiceTotal, now, raced>>
      /\ \E row : rows' = Append(rows, row)
  <2>1. req[s].amount \in Int /\ netPaid \in Int BY DEF IInv, TypeOK, Requests
  <2> QED BY <2>1 DEF RecordCommit, VoidCommit, Finish
<1>2. rows' # <<>>
  <2>1. rows \in Seq(Rows) /\ rows' \in Seq(Rows) BY DEF IInv, TypeOK
  <2> QED BY <1>1, <2>1
<1>3. /\ status \in Statuses /\ dueAt \in Nat /\ invoiceTotal \in Int /\ netPaid' \in Int
      /\ now \in Nat /\ req[s].newStatus \in Statuses /\ req[s].seenStatus \in Statuses
      /\ netPaid \in Int /\ req[s].amount \in Int
  <2>1. req[s] \in Requests BY DEF IInv, TypeOK
  <2>2. /\ status \in Statuses /\ dueAt \in Nat /\ invoiceTotal \in Int /\ now \in Nat
        /\ netPaid \in Int /\ netPaid' \in Int
    BY TotalsAssumption DEF IInv, TypeOK, TotalsAssumption
  <2> QED BY <2>1, <2>2 DEF Requests
<1>4. req[s].seenStatus # "draft" /\ req[s].newStatus # "draft"
  BY <1>1 DEF IInv, SessionSound, SessionSoundFor
<1>5. CacheInSync'
  <2> SUFFICES ASSUME ~raced
               PROVE  LET derived == DeriveStatus(invoiceTotal, netPaid', dueAt, status', now)
                      IN  \/ status' = derived
                          \/ derived = "overdue" /\ status' \in {"issued", "partially_paid"}
    BY <1>1 DEF CacheInSync
  <2>1. CopyCurrent(req[s]) BY DEF CacheInv
  <2>2. PICK at \in 1 .. now : req[s].newStatus = Derived(netPaid + delta, at)
    <3>1. CASE req[s].pc = "record_commit" BY <2>1, <3>1 DEF CopyCurrent
    <3>2. CASE req[s].pc = "void_commit"
      <4>1. netPaid + delta = netPaid - req[s].amount BY <1>3, <3>2
      <4> QED BY <2>1, <3>2, <4>1 DEF CopyCurrent
    <3> QED BY <1>1, <3>1, <3>2
  <2>3. status' = req[s].newStatus /\ status # "draft"
    BY <1>1, <1>4, <2>1 DEF StatusAfterFlush, CopyCurrent
  <2>4. req[s].newStatus = DeriveStatus(invoiceTotal, netPaid', dueAt, status, at)
    BY <1>1, <2>2 DEF Derived
  <2>5. status' \in Statuses /\ status' # "draft" BY <1>3, <1>4, <2>3
  <2>6. at \in Nat /\ at <= now BY <1>3, <2>2
  <2> QED BY <1>3, <2>3, <2>4, <2>5, <2>6, DerivedLater
<1> QED BY <1>1, <1>2, <1>5, CacheCommit

LEMMA IssueCache ==
    ASSUME IInv, CacheInv, NEW s \in Sessions, IssueCommit(s)
    PROVE  CacheInv'
<1>1. /\ req[s].pc = "issue_commit" /\ status' = StatusAfterFlush(s)
      /\ req' = [req EXCEPT ![s] = Idle] /\ dueAt' = req[s].seenDue
      /\ UNCHANGED <<invoiceTotal, rows, netPaid, now, raced>>
  BY DEF IssueCommit, Finish, ledgerVars
<1>2. CacheInSync'
  <2> SUFFICES ASSUME ~raced
               PROVE  LET derived == DeriveStatus(invoiceTotal, netPaid, dueAt', status', now)
                      IN  \/ status' = derived
                          \/ derived = "overdue" /\ status' \in {"issued", "partially_paid"}
    BY <1>1 DEF CacheInSync
  <2>1. CopyCurrent(req[s]) BY DEF CacheInv
  <2>2. status = "draft" /\ req[s].seenStatus = "draft" BY <1>1, <2>1 DEF CopyCurrent
  <2>3. netPaid = 0 BY <2>2 DEF IInv, NoPaymentOnDraft, CacheInv
  <2>4. status' = "issued"
    BY <1>1, <2>2 DEF StatusAfterFlush, IInv, SessionSound, SessionSoundFor
  <2> QED BY <2>3, <2>4 DEF DeriveStatus
<1>3. rows' = <<>> => netPaid' = 0
  BY <1>1 DEF CacheInv
<1> QED BY <1>1, <1>2, <1>3, CacheCommit

LEMMA CacheStep ==
    ASSUME IInv, IInv', CacheInv, [Next]_vars
    PROVE  CacheInv'
<1>0. /\ req \in [Sessions -> Requests] /\ status \in Statuses /\ dueAt \in Nat /\ now \in Nat
      /\ netPaid \in Int /\ invoiceTotal \in Int
  BY TotalsAssumption DEF IInv, TypeOK, TotalsAssumption
<1>1. ASSUME NEW s \in Sessions, NEW r \in Requests, req[s].pc = "idle",
             req' = [req EXCEPT ![s] = r], Overlap(s), UNCHANGED <<invoiceVars, ledgerVars, now>>,
             r.pc \in {"record_lock", "void_read", "issue_commit"}, r.seenStatus = status,
             r.pc = "issue_commit" => status = "draft",
             r.pc # "issue_commit" => r.seenDue = dueAt
      PROVE  CacheInv'
  <2>1. CopyCurrent(r) BY <1>1 DEF CopyCurrent
  <2>2. ~raced' => ~raced /\ \A t \in Sessions : t # s => req[t].pc = "idle"
    BY <1>1 DEF Overlap
  <2> QED BY <1>1, <2>1, <2>2, CacheQuiet DEF invoiceVars, ledgerVars
<1>2. ASSUME NEW s \in Sessions, RecordLoad(s) PROVE CacheInv'
  <2>1. PICK a \in Amounts, d \in BOOLEAN :
           req' = [req EXCEPT ![s] = Loaded("record_lock", a, d, 0, dueAt)]
    BY <1>2 DEF RecordLoad
  <2> DEFINE r == Loaded("record_lock", a, d, 0, dueAt)
  <2>2. /\ r \in Requests /\ r.pc = "record_lock" /\ r.seenStatus = status /\ r.seenDue = dueAt
    <3>1. a \in Int BY AmountsAssumption DEF AmountsAssumption
    <3>2. r \in Requests BY <1>0, <3>1, LoadedType DEF IInv, Points
    <3> QED BY <3>2 DEF Loaded
  <2>3. req' = [req EXCEPT ![s] = r] BY <2>1
  <2> HIDE DEF r
  <2>4. req[s].pc = "idle" /\ Overlap(s) /\ UNCHANGED <<invoiceVars, ledgerVars, now>>
    BY <1>2 DEF RecordLoad
  <2> QED BY <1>1, <2>2, <2>3, <2>4
<1>3. ASSUME NEW s \in Sessions, VoidLoad(s) PROVE CacheInv'
  <2>1. PICK i \in DOMAIN rows :
           req' = [req EXCEPT ![s] = Loaded("void_read", rows[i].amount, FALSE, i, dueAt)]
    BY <1>3 DEF VoidLoad
  <2> DEFINE r == Loaded("void_read", rows[i].amount, FALSE, i, dueAt)
  <2>2. /\ r \in Requests /\ r.pc = "void_read" /\ r.seenStatus = status /\ r.seenDue = dueAt
    <3>1. rows[i].amount \in Int /\ i \in Nat
      <4>1. rows \in Seq(Rows) BY DEF IInv, TypeOK
      <4>2. rows[i] \in Rows /\ i \in Nat BY <4>1
      <4> QED BY <4>2 DEF Rows
    <3>2. r \in Requests BY <1>0, <3>1, LoadedType DEF IInv, Points
    <3> QED BY <3>2 DEF Loaded
  <2>3. req' = [req EXCEPT ![s] = r] BY <2>1
  <2> HIDE DEF r
  <2>4. req[s].pc = "idle" /\ Overlap(s) /\ UNCHANGED <<invoiceVars, ledgerVars, now>>
    BY <1>3 DEF VoidLoad
  <2> QED BY <1>1, <2>2, <2>3, <2>4
<1>4. ASSUME NEW s \in Sessions, IssueLoad(s) PROVE CacheInv'
  <2>1. PICK d \in DueIn : req' = [req EXCEPT ![s] = Loaded("issue_commit", 0, FALSE, 0, now + d)]
    BY <1>4 DEF IssueLoad
  <2> DEFINE r == Loaded("issue_commit", 0, FALSE, 0, now + d)
  <2>2. /\ r \in Requests /\ r.pc = "issue_commit" /\ r.seenStatus = status
    <3>1. now + d \in Nat BY <1>0, DueInAssumption DEF DueInAssumption
    <3>2. r \in Requests
      <4>1. \A due \in Nat : Loaded("issue_commit", 0, FALSE, 0, due) \in Requests
        BY <1>0 DEF Loaded, Requests, Points, Statuses
      <4> QED BY <3>1, <4>1
    <3> QED BY <3>2 DEF Loaded
  <2>3. req' = [req EXCEPT ![s] = r] BY <2>1
  <2> HIDE DEF r
  <2>4. req[s].pc = "idle" /\ Overlap(s) /\ UNCHANGED <<invoiceVars, ledgerVars, now>>
        /\ status = "draft"
    BY <1>4 DEF IssueLoad
  <2> QED BY <1>1, <2>2, <2>3, <2>4
<1>5. ASSUME NEW s \in Sessions, NEW r \in Requests, req[s].pc # "idle",
             req' = [req EXCEPT ![s] = r], raced' = raced, UNCHANGED <<invoiceVars, ledgerVars, now>>,
             ~raced => CopyCurrent(r)
      PROVE  CacheInv'
  <2>1. ~raced => \A t \in Sessions : t # s => req[t].pc = "idle" BY <1>5 DEF CacheInv
  <2> QED BY <1>5, <2>1, CacheQuiet DEF invoiceVars, ledgerVars
<1>6. ASSUME NEW s \in Sessions,
             \/ RecordRejectDraft(s) \/ RecordRejectOverpayment(s) \/ VoidDuplicate(s) \/ Abort(s)
      PROVE  CacheInv'
  <2>1. req' = [req EXCEPT ![s] = Idle] /\ raced' = raced /\ req[s].pc # "idle"
        /\ UNCHANGED <<invoiceVars, ledgerVars, now>>
    BY <1>6 DEF RecordRejectDraft, RecordRejectOverpayment, VoidDuplicate, Abort, Finish
  <2>2. Idle \in Requests /\ CopyCurrent(Idle)
    BY DEF Idle, Requests, Points, Statuses, CopyCurrent
  <2> QED BY <1>5, <2>1, <2>2
<1>7. ASSUME NEW s \in Sessions, RecordLock(s) PROVE CacheInv'
  <2> DEFINE r == [req[s] EXCEPT !.pc = "record_read"]
  <2>1. /\ req[s].pc = "record_lock" /\ req' = [req EXCEPT ![s] = r] /\ raced' = raced
        /\ UNCHANGED <<invoiceVars, ledgerVars, now>>
    BY <1>7 DEF RecordLock
  <2>2. /\ r \in Requests /\ r.pc = "record_read" /\ r.seenStatus = req[s].seenStatus
        /\ r.seenDue = req[s].seenDue
    BY <1>0 DEF Requests, Points
  <2> HIDE DEF r
  <2>3. ~raced => CopyCurrent(r) BY <2>1, <2>2 DEF CacheInv, CopyCurrent
  <2> QED BY <1>5, <2>1, <2>2, <2>3
<1>8. ASSUME NEW s \in Sessions, NEW delta \in Int, NEW point \in {"record_commit", "void_commit"},
             delta = IF point = "record_commit" THEN req[s].amount ELSE -req[s].amount,
             req[s].pc \in {"record_read", "void_read"}, ReadSummary(s, delta, point),
             UNCHANGED <<invoiceVars, ledgerVars, lock, now, raced>>
      PROVE  CacheInv'
  <2> DEFINE new == DeriveStatus(invoiceTotal, netPaid + delta, req[s].seenDue, req[s].seenStatus, now)
             r == [req[s] EXCEPT !.pc = point, !.seenPaid = netPaid, !.newStatus = new]
  <2>1. req' = [req EXCEPT ![s] = r] /\ raced' = raced BY <1>8 DEF ReadSummary
  <2>2. new \in Statuses
    <3>1. netPaid + delta \in Int /\ req[s].seenDue \in Nat /\ req[s].seenStatus \in Statuses
      BY <1>0, <1>8 DEF Requests
    <3> QED BY <1>0, <3>1, DeriveStatusSound
  <2>3. /\ r \in Requests /\ r.pc = point /\ r.newStatus = new /\ r.amount = req[s].amount
        /\ r.seenDue = req[s].seenDue /\ r.seenStatus = req[s].seenStatus
    <3> HIDE DEF new
    <3> QED BY <1>0, <1>8, <2>2 DEF Requests, Points
  <2> HIDE DEF r
  <2>4. ASSUME ~raced PROVE CopyCurrent(r)
    <3>1. CopyCurrent(req[s]) BY <2>4 DEF CacheInv
    <3>2. req[s].seenStatus = status /\ req[s].seenDue = dueAt BY <1>8, <3>1 DEF CopyCurrent
    <3>3. new = Derived(netPaid + delta, now) BY <3>2 DEF Derived
    <3>4. now \in 1 .. now BY <1>0 DEF CacheInv
    <3>5. req[s].amount \in Int BY <1>0 DEF Requests
    <3>6. CASE point = "record_commit"
      BY <1>8, <2>3, <3>2, <3>3, <3>4, <3>6 DEF CopyCurrent
    <3>7. CASE point = "void_commit"
      <4>1. netPaid + delta = netPaid - req[s].amount BY <1>0, <1>8, <3>5, <3>7
      <4> QED BY <1>8, <2>3, <3>2, <3>3, <3>4, <3>7, <4>1 DEF CopyCurrent
    <3> QED BY <1>8, <3>6, <3>7
  <2> HIDE DEF new
  <2> QED BY <1>5, <1>8, <2>1, <2>3, <2>4
<1>9. ASSUME NEW s \in Sessions, RecordRead(s) \/ VoidRead(s) PROVE CacheInv'
  <2>1. req[s].amount \in Int BY <1>0 DEF Requests
  <2>2. CASE RecordRead(s) BY <1>8, <2>1, <2>2 DEF RecordRead
  <2>3. CASE VoidRead(s) BY <1>8, <2>1, <2>3 DEF VoidRead
  <2> QED BY <1>9, <2>2, <2>3
<1>10. CASE Tick \/ UNCHANGED vars
  <2>1. UNCHANGED <<status, dueAt, invoiceTotal, rows, netPaid, req, raced>> /\ now' \in Nat /\ now' >= now
    BY <1>0, <1>10 DEF Tick, vars, invoiceVars, ledgerVars
  <2>2. ASSUME ~raced, NEW t \in Sessions PROVE CopyCurrent(req[t])'
    <3>1. CopyCurrent(req[t]) BY <2>2 DEF CacheInv
    <3>2. \A at \in 1 .. now : at \in 1 .. now' BY <1>0, <2>1
    <3> QED BY <2>1, <3>1, <3>2 DEF CopyCurrent, Derived
  <2>3. CacheInSync'
    <3> SUFFICES ASSUME ~raced
                 PROVE  LET derived == DeriveStatus(invoiceTotal, netPaid, dueAt, status, now')
                        IN  \/ status = derived
                            \/ derived = "overdue" /\ status \in {"issued", "partially_paid"}
      BY <2>1 DEF CacheInSync
    <3> QED BY <1>0, <2>1 DEF CacheInv, CacheInSync, DeriveStatus
  <2> QED BY <1>0, <2>1, <2>2, <2>3 DEF CacheInv
<1>11. ASSUME NEW s \in Sessions, RecordCommit(s) \/ VoidCommit(s) \/ IssueCommit(s)
       PROVE  CacheInv'
  BY <1>11, RecordCache, IssueCache
<1> QED BY <1>2, <1>3, <1>4, <1>6, <1>7, <1>9, <1>10, <1>11 DEF Next, Advance

\* As long as no two requests overlap, the cached status of the invoice is the one that
\* its ledger and its due date give, except that it cannot know that the date has passed.
THEOREM CacheInSyncTheorem == Spec => []CacheInSync
<1>1. Init => CacheInv
  BY DEF Init, Idle, CacheInv, CopyCurrent, CacheInSync, DeriveStatus
<1>2. CacheInv => CacheInSync BY DEF CacheInv
<1> QED BY <1>1, <1>2, InitIInv, NextIInv, CacheStep, PTL DEF Spec

-----------------------------------------------------------------------------
(* Sending an invoice to Square                                            *)

BillStates == {"DRAFT", "UNPAID", "PAID"}
Pushing == [at : {"idle"}] \cup [at : {"customer", "order", "invoice", "publish"}, key : {1}]
           \cup [at : {"record"}, key : {1}, says : BillStates]

PushTypeOK ==
    /\ invoice \in [status : {"draft", "issued", "paid"}, sq : {0, 1},
                    square_status : BillStates \cup {"none"}]
    /\ DOMAIN bills \subseteq {1} /\ bills \in [DOMAIN bills -> BillStates]
    /\ push \in [Pushes -> Pushing]

\* The bill can be paid at Square.
BillOut == 1 \in DOMAIN bills /\ bills[1] # "DRAFT"

\* A request that publishes has a bill; one that records, a bill that is out.
PushKnows ==
    \A r \in Pushes : /\ push[r].at = "publish" => 1 \in DOMAIN bills
                      /\ push[r].at = "record" => BillOut /\ push[r].says # "DRAFT"

RowKnows == invoice.sq # 0 => BillOut /\ invoice.square_status # "DRAFT"

PushInv == PushTypeOK /\ PushKnows /\ RowKnows

\* A request goes on to x, over bills none of which was taken back.
LEMMA PushMoves ==
    ASSUME PushInv, NEW r \in Pushes, NEW x \in Pushing, push' = [push EXCEPT ![r] = x],
           invoice' = invoice,
           DOMAIN bills' \subseteq {1}, bills' \in [DOMAIN bills' -> BillStates],
           1 \in DOMAIN bills => 1 \in DOMAIN bills',
           BillOut => BillOut',
           x.at = "publish" => 1 \in DOMAIN bills',
           x.at = "record" => BillOut' /\ x.says # "DRAFT"
    PROVE  PushInv'
<1>1. PushTypeOK' BY DEF PushInv, PushTypeOK
<1>2. PushKnows'
  <2> SUFFICES ASSUME NEW o \in Pushes
               PROVE  /\ push'[o].at = "publish" => 1 \in DOMAIN bills'
                      /\ push'[o].at = "record" => BillOut' /\ push'[o].says # "DRAFT"
    BY DEF PushKnows
  <2>1. push'[o] = IF o = r THEN x ELSE push[o] BY DEF PushInv, PushTypeOK
  <2> QED BY <2>1 DEF PushInv, PushKnows
<1>3. RowKnows' BY DEF PushInv, RowKnows
<1> QED BY <1>1, <1>2, <1>3 DEF PushInv

LEMMA PushStep == PushInv /\ [PushNext]_pushVars => PushInv'
<1> SUFFICES ASSUME PushInv, [PushNext]_pushVars PROVE PushInv' OBVIOUS
<1>a. /\ DOMAIN bills \subseteq {1} /\ bills \in [DOMAIN bills -> BillStates]
      /\ push \in [Pushes -> Pushing]
  BY DEF PushInv, PushTypeOK
<1>b. [at |-> "idle"] \in Pushing BY DEF Pushing
<1>c. \A at \in {"customer", "order", "invoice", "publish"} :
         [at |-> at, key |-> 1] \in Pushing
  BY DEF Pushing
<1>d. \A r \in Pushes : push[r].at \in {"customer", "order", "invoice", "publish"} =>
         /\ push[r].key = 1
         /\ \A at \in {"customer", "order", "invoice", "publish"} :
               [push[r] EXCEPT !.at = at] = [at |-> at, key |-> 1]
  BY <1>a DEF Pushing
<1>1. ASSUME NEW r \in Pushes, BeginPush(r) PROVE PushInv'
  <2> DEFINE x == [at |-> "customer", key |-> 1]
  <2>1. x \in Pushing /\ x.at = "customer" BY <1>c
  <2>2. push' = [push EXCEPT ![r] = x] /\ UNCHANGED <<invoice, bills>>
    BY <1>1 DEF BeginPush, Key
  <2> HIDE DEF x
  <2> QED BY <1>a, <2>1, <2>2, PushMoves DEF BillOut
<1>2. ASSUME NEW r \in Pushes, FindCustomer(r) \/ CreateOrder(r) PROVE PushInv'
  <2>1. PICK at \in {"order", "invoice"} : push' = [push EXCEPT ![r].at = at]
    BY <1>2 DEF FindCustomer, CreateOrder
  <2> DEFINE x == [at |-> at, key |-> 1]
  <2>2. push[r].at \in {"customer", "order"} /\ UNCHANGED <<invoice, bills>>
    BY <1>2 DEF FindCustomer, CreateOrder
  <2>3. x \in Pushing /\ x.at = at BY <1>c
  <2>4. push' = [push EXCEPT ![r] = x] BY <1>a, <1>d, <2>1, <2>2
  <2> HIDE DEF x
  <2> QED BY <1>a, <2>2, <2>3, <2>4, PushMoves DEF BillOut
<1>3. ASSUME NEW r \in Pushes, CreateBill(r) PROVE PushInv'
  <2> DEFINE x == [at |-> "publish", key |-> 1]
  <2>1. push[r].at = "invoice" /\ push[r].key = 1 /\ invoice' = invoice
    BY <1>3, <1>d DEF CreateBill
  <2>2. push' = [push EXCEPT ![r] = x] BY <1>3, <1>a, <1>d, <2>1 DEF CreateBill
  <2>3. /\ DOMAIN bills' = {1} /\ bills' \in [DOMAIN bills' -> BillStates]
        /\ 1 \in DOMAIN bills => bills'[1] = bills[1]
    <3>1. CASE 1 \in DOMAIN bills BY <1>3, <1>a, <2>1, <3>1 DEF CreateBill
    <3>2. CASE 1 \notin DOMAIN bills
      <4>1. DOMAIN bills = {} BY <1>a, <3>2
      <4>2. bills' = [k \in {1} |-> "DRAFT"] BY <1>3, <2>1, <4>1 DEF CreateBill
      <4> QED BY <3>2, <4>2 DEF BillStates
    <3> QED BY <3>1, <3>2
  <2>4. x \in Pushing /\ x.at = "publish" BY <1>c
  <2> HIDE DEF x
  <2> QED BY <2>1, <2>2, <2>3, <2>4, PushMoves DEF BillOut
<1>4. ASSUME NEW r \in Pushes, Publish(r) PROVE PushInv'
  <2>1. push[r].at = "publish" /\ push[r].key = 1 /\ invoice' = invoice /\ 1 \in DOMAIN bills
    BY <1>4, <1>d DEF Publish, PushInv, PushKnows
  <2>2. bills' = [bills EXCEPT ![1] = IF @ = "DRAFT" THEN "UNPAID" ELSE @]
    BY <1>4, <2>1 DEF Publish
  <2>3. /\ DOMAIN bills' = DOMAIN bills /\ bills' \in [DOMAIN bills' -> BillStates]
        /\ bills'[1] \in BillStates /\ bills'[1] # "DRAFT"
    BY <1>a, <2>1, <2>2 DEF BillStates
  <2> DEFINE x == [at |-> "record", key |-> 1, says |-> bills'[1]]
  <2>4. push' = [push EXCEPT ![r] = x] BY <1>4, <2>1 DEF Publish
  <2>5. x \in Pushing /\ x.at = "record" /\ x.says = bills'[1] BY <2>3 DEF Pushing
  <2> HIDE DEF x
  <2> QED BY <1>a, <2>1, <2>3, <2>4, <2>5, PushMoves DEF BillOut
<1>5. ASSUME NEW r \in Pushes, PushFails(r) PROVE PushInv'
  <2> DEFINE x == [at |-> "idle"]
  <2>1. push' = [push EXCEPT ![r] = x] /\ UNCHANGED <<invoice, bills>>
    BY <1>5 DEF PushFails, PushIdle
  <2>2. x \in Pushing /\ x.at = "idle" BY <1>b
  <2> HIDE DEF x
  <2> QED BY <1>a, <2>1, <2>2, PushMoves DEF BillOut
<1>6. ASSUME NEW r \in Pushes, RecordPush(r) PROVE PushInv'
  <2>1. /\ push[r].at = "record" /\ push[r].key = 1
        /\ push[r].says \in BillStates \ {"DRAFT"} /\ BillOut
    BY <1>6, <1>a DEF RecordPush, Pushing, PushInv, PushKnows
  <2>2. /\ invoice' = [invoice EXCEPT !.sq = 1, !.square_status = push[r].says]
        /\ push' = [push EXCEPT ![r] = [at |-> "idle"]] /\ bills' = bills
    BY <1>6, <2>1 DEF RecordPush, PushIdle
  <2>3. PushTypeOK' BY <1>b, <2>1, <2>2 DEF PushInv, PushTypeOK
  <2>4. PushKnows'
    <3> SUFFICES ASSUME NEW o \in Pushes
                 PROVE  /\ push'[o].at = "publish" => 1 \in DOMAIN bills
                        /\ push'[o].at = "record" => BillOut /\ push'[o].says # "DRAFT"
      BY <2>2 DEF PushKnows, BillOut
    <3>1. CASE o = r
      <4>1. push'[o].at = "idle" BY <1>a, <2>2, <3>1
      <4> QED BY <4>1
    <3>2. CASE o # r
      <4>1. push'[o] = push[o] BY <1>a, <2>2, <3>2
      <4> QED BY <4>1 DEF PushInv, PushKnows
    <3> QED BY <3>1, <3>2
  <2>5. RowKnows' BY <2>1, <2>2 DEF PushInv, PushTypeOK, RowKnows, BillOut
  <2> QED BY <2>3, <2>4, <2>5 DEF PushInv
<1>7. ASSUME NEW r \in Pushes, RefreshBill(r) PROVE PushInv'
  <2>1. /\ invoice.sq = 1 /\ BillOut /\ UNCHANGED <<push, bills>>
        /\ invoice' = [invoice EXCEPT !.square_status = bills[1]]
    BY <1>7 DEF RefreshBill, PushInv, PushTypeOK, RowKnows
  <2>2. bills[1] \in BillStates \ {"DRAFT"} BY <1>a, <2>1 DEF BillOut
  <2>3. PushTypeOK' BY <2>1, <2>2 DEF PushInv, PushTypeOK
  <2>4. PushKnows' BY <2>1 DEF PushInv, PushKnows, BillOut
  <2>5. RowKnows' BY <2>1, <2>2 DEF PushInv, PushTypeOK, RowKnows, BillOut
  <2> QED BY <2>3, <2>4, <2>5 DEF PushInv
<1>8. CASE PaidAtSquare
  <2>1. /\ UNCHANGED <<push, invoice>> /\ 1 \in DOMAIN bills
        /\ bills' = [bills EXCEPT ![1] = "PAID"]
    BY <1>8, <1>a DEF PaidAtSquare
  <2>2. /\ DOMAIN bills' = DOMAIN bills /\ bills' \in [DOMAIN bills' -> BillStates]
        /\ bills'[1] = "PAID"
    BY <1>a, <2>1 DEF BillStates
  <2>3. PushTypeOK' BY <2>1, <2>2 DEF PushInv, PushTypeOK
  <2>4. BillOut' BY <2>1, <2>2 DEF BillOut
  <2> QED BY <2>1, <2>2, <2>3, <2>4 DEF PushInv, PushKnows, RowKnows
<1>9. CASE ShopBooks
  <2>1. PICK to \in {"issued", "paid"} : invoice' = [invoice EXCEPT !.status = to]
    BY <1>9 DEF ShopBooks
  <2>2. UNCHANGED <<bills, push>> BY <1>9 DEF ShopBooks
  <2>3. PushTypeOK' BY <2>1, <2>2 DEF PushInv, PushTypeOK
  <2>4. PushKnows' BY <2>2 DEF PushInv, PushKnows, BillOut
  <2>5. RowKnows' BY <2>1, <2>2 DEF PushInv, PushTypeOK, RowKnows, BillOut
  <2> QED BY <2>3, <2>4, <2>5 DEF PushInv
<1>10. CASE UNCHANGED pushVars
  BY <1>10 DEF pushVars, PushInv, PushTypeOK, PushKnows, RowKnows, BillOut
<1> QED BY <1>1, <1>2, <1>3, <1>4, <1>5, <1>6, <1>7, <1>8, <1>9, <1>10 DEF PushNext

\* However often the push fails and is tried again, and by however many requests at
\* once, the customer can pay the invoice at Square once.
THEOREM PushedOnceTheorem == PushSpec => []PushedOnce
<1>1. PushInit => PushInv
  <2> SUFFICES ASSUME PushInit PROVE PushInv OBVIOUS
  <2>1. DOMAIN bills = {} BY DEF PushInit
  <2>2. PushTypeOK BY <2>1 DEF PushInit, PushIdle, PushTypeOK, Pushing, BillStates
  <2> QED BY <2>2 DEF PushInit, PushIdle, PushInv, PushKnows, RowKnows
<1>2. PushInv => PushedOnce
  <2> SUFFICES ASSUME PushInv PROVE PushedOnce OBVIOUS
  <2> DEFINE out == {k \in DOMAIN bills : bills[k] # "DRAFT"}
  <2>1. out = {} \/ out = {1} BY DEF PushInv, PushTypeOK
  <2> HIDE DEF out
  <2>2. Cardinality(out) <= 1
    <3>1. CASE out = {} BY <3>1, FS_EmptySet
    <3>2. CASE out = {1} BY <3>2, FS_Singleton
    <3> QED BY <2>1, <3>1, <3>2
  <2> USE DEF out
  <2> QED BY <2>2 DEF PushedOnce, PushInv, PushTypeOK, RowKnows, BillOut
<1> QED BY <1>1, <1>2, PushStep, PTL DEF PushSpec

-----------------------------------------------------------------------------
\* A request past its lock, or past the first read of a billing operation.
Holds(r) == planReq[r].op \notin {"idle", "wait"}

OneHolder == \A r, o \in PlanRequests : Holds(r) /\ Holds(o) => r = o

\* What was counted under the lock is true as long as it is held.
CountHolds ==
    \A r \in PlanRequests :
        /\ planReq[r].op = "insert" => seats < SeatLimit(plan.tier)
        /\ planReq[r].op \in {"cancel_old", "resubscribe", "subscribe", "record"}
              => Fits(seats, planReq[r].tier)

\* Every subscription that the row, a key or a request names was made.
SquareNames ==
    /\ plan.sq <= Len(subs)
    /\ \A k \in Keys : keys[k] <= Len(subs)
    /\ \A r \in PlanRequests : planReq[r].op = "record" => planReq[r].sub \in 1 .. Len(subs)

PlanInv == PlanTypeOK /\ SquareNames /\ OneHolder /\ CountHolds /\ SeatsWithinTier

-----------------------------------------------------------------------------
LEMMA SeatLimitIsNumber ==
    ASSUME NEW tier \in Tiers
    PROVE  SeatLimit(tier) \in Nat
BY SeatsAreNumbers DEF Tiers, SeatLimit

\* Whoever starts under a free row is the only holder.
LEMMA TakesRow ==
    ASSUME OneHolder, NEW r \in PlanRequests, PlanRowFree(r), ~Holds(r),
           NEW x, planReq' = [planReq EXCEPT ![r] = x], PlanTypeOK
    PROVE  OneHolder' /\ \A o \in PlanRequests \ {r} : ~Holds(o) /\ planReq'[o] = planReq[o]
BY DEF OneHolder, PlanRowFree, Holds, PlanTypeOK

\* Whoever goes on or lets go leaves nobody else a holder.
LEMMA KeepsRow ==
    ASSUME OneHolder, NEW r \in PlanRequests, Holds(r),
           NEW x, planReq' = [planReq EXCEPT ![r] = x], PlanTypeOK
    PROVE  OneHolder' /\ \A o \in PlanRequests \ {r} : ~Holds(o) /\ planReq'[o] = planReq[o]
BY DEF OneHolder, Holds, PlanTypeOK

-----------------------------------------------------------------------------
(* Types                                                                   *)

LEMMA StandingIsStatus ==
    ASSUME NEW p PROVE Standing(p) \in {"active", "suspended", "cancelled"}
BY DEF Standing

\* The records that the actions put in place of a request's.
LEMMA DoingsSound ==
    /\ \A op \in {"idle", "wait", "insert", "cancel_plan", "canceled"} : [op |-> op] \in Doings
    /\ \A op \in {"cancel_old", "resubscribe", "subscribe"}, tier \in Tiers :
          [op |-> op, tier |-> tier] \in Doings
    /\ \A how \in {"resubscribe", "subscribe"}, tier \in Tiers, sub \in Nat :
          [op |-> "record", how |-> how, tier |-> tier, sub |-> sub] \in Doings
    /\ \A d \in Doings :
          /\ d.op \in {"cancel_old", "resubscribe", "subscribe", "record"} => d.tier \in Tiers
          /\ d.op = "record" => d.sub \in Nat
BY DEF Doings

LEMMA PlanFields ==
    ASSUME NEW p \in Plans
    PROVE  /\ p.tier \in Tiers /\ p.status \in PlanStatuses /\ p.sq \in Nat
           /\ p.trial \in Dates /\ p.grace \in Dates /\ p.period \in Dates
           /\ p.card \in BOOLEAN
BY DEF Plans

LEMMA PlanEdits ==
    ASSUME NEW p \in Plans
    PROVE  /\ [p EXCEPT !.card = TRUE] \in Plans
           /\ \A tier \in Tiers : [p EXCEPT !.tier = tier] \in Plans
           /\ \A standing \in PlanStatuses : [p EXCEPT !.status = standing] \in Plans
           /\ \A date \in Dates : /\ [p EXCEPT !.period = date] \in Plans
                                  /\ [p EXCEPT !.trial = date] \in Plans
                                  /\ [p EXCEPT !.grace = date] \in Plans
           /\ \A tier \in Tiers, sq \in Nat, period \in Dates :
                 [p EXCEPT !.tier = tier, !.sq = sq, !.period = period] \in Plans
           /\ \A standing \in PlanStatuses, date \in Dates :
                 /\ [p EXCEPT !.status = standing, !.period = date] \in Plans
                 /\ [p EXCEPT !.status = standing, !.grace = date] \in Plans
           /\ \A standing \in PlanStatuses, trial, grace \in Dates :
                 [p EXCEPT !.status = standing, !.trial = trial, !.grace = grace] \in Plans
BY DEF Plans

LEMMA SubsEdit ==
    ASSUME NEW S, NEW q \in Seq(S), NEW i, NEW e \in S
    PROVE  [q EXCEPT ![i] = e] \in Seq(S)
<1>1. CASE i \in 1 .. Len(q) BY <1>1, ExceptSeq
<1>2. CASE i \notin 1 .. Len(q)
  <2>1. [q EXCEPT ![i] = e] = q BY <1>2
  <2> QED BY <2>1
<1> QED BY <1>1, <1>2

LEMMA TypeStep ==
    ASSUME PlanTypeOK, SquareNames, [PlanNext]_planVars
    PROVE  PlanTypeOK'
<1> USE DEF PlanTypeOK
<1>a. PlanIdle \in Doings /\ \A op \in {"wait", "insert", "cancel_plan", "canceled"} : [op |-> op] \in Doings
  BY DoingsSound DEF PlanIdle
<1>1. ASSUME NEW r \in PlanRequests, BeginCreate(r) PROVE PlanTypeOK'
  BY <1>1, <1>a, StandingIsStatus DEF BeginCreate, GatedBegin
<1>2. ASSUME NEW r \in PlanRequests, BeginAccept(r) PROVE PlanTypeOK'
  BY <1>2, <1>a DEF BeginAccept
<1>3. ASSUME NEW r \in PlanRequests, ClaimSeat(r) PROVE PlanTypeOK'
  BY <1>3, <1>a DEF ClaimSeat
<1>4. ASSUME NEW r \in PlanRequests, InsertTechnician(r) PROVE PlanTypeOK'
  BY <1>4, <1>a DEF InsertTechnician
<1>5. ASSUME NEW r \in PlanRequests, ArchiveTechnician(r) PROVE PlanTypeOK'
  BY <1>5, StandingIsStatus DEF ArchiveTechnician, GatedBegin
<1>6. ASSUME NEW r \in PlanRequests, AddPaymentMethod(r) PROVE PlanTypeOK'
  <2>1. [plan EXCEPT !.card = TRUE] \in Plans BY PlanEdits
  <2> QED BY <1>6, <1>a, <2>1, StandingIsStatus DEF AddPaymentMethod, StartsBilling, Commits
<1>7. ASSUME NEW r \in PlanRequests, NEW tier \in Tiers, ChangeTier(r, tier) PROVE PlanTypeOK'
  <2>1. [plan EXCEPT !.tier = tier] \in Plans BY PlanEdits
  <2>2. [op |-> "cancel_old", tier |-> tier] \in Doings BY DoingsSound
  <2>3. CASE plan.sq = 0
    <3>1. Commits(r, [plan EXCEPT !.tier = tier]) BY <1>7, <2>3 DEF ChangeTier
    <3> QED BY <1>7, <1>a, <2>1, <3>1, StandingIsStatus DEF ChangeTier, StartsBilling, Commits
  <2>4. CASE plan.sq # 0
    BY <1>7, <2>2, <2>4 DEF ChangeTier, StartsBilling
  <2> QED BY <2>3, <2>4
<1>8. ASSUME NEW r \in PlanRequests, NEW tier \in Tiers, Subscribe(r, tier) PROVE PlanTypeOK'
  <2>1. [op |-> "subscribe", tier |-> tier] \in Doings BY DoingsSound
  <2> QED BY <1>8, <2>1 DEF Subscribe, StartsBilling
<1>9. ASSUME NEW r \in PlanRequests, CancelOld(r) PROVE PlanTypeOK'
  <2>1. [op |-> "resubscribe", tier |-> planReq[r].tier] \in Doings BY <1>9, DoingsSound DEF CancelOld
  <2>2. subs' \in Seq({"ACTIVE", "DEACTIVATED", "CANCELED"}) BY <1>9, SubsEdit DEF CancelOld
  <2> QED BY <1>9, <2>1, <2>2 DEF CancelOld
<1>10. ASSUME NEW r \in PlanRequests, CreateAtSquare(r) PROVE PlanTypeOK'
  <2> DEFINE key == <<planReq[r].op, planReq[r].tier>>
  <2>1. key \in Keys BY <1>10, DoingsSound DEF CreateAtSquare, Keys
  <2>2. Created(key) \in Nat BY <2>1 DEF Created, Reused
  <2>3. [op |-> "record", how |-> planReq[r].op, tier |-> planReq[r].tier, sub |-> Created(key)] \in Doings
    BY <1>10, <2>2, DoingsSound DEF CreateAtSquare
  <2>4. CreatesSub(key) BY <1>10 DEF CreateAtSquare
  <2>5. /\ subs' \in Seq({"ACTIVE", "DEACTIVATED", "CANCELED"})
        /\ keys' \in [Keys -> Nat] /\ excused' \subseteq Nat
    <3> HIDE DEF key
    <3>1. CASE Reused(key)
      <4>1. subs' = subs /\ keys' = keys /\ excused' = excused \cup {keys[key]}
        BY <2>4, <3>1 DEF CreatesSub
      <4>2. keys[key] \in Nat BY <2>1
      <4> QED BY <4>1, <4>2
    <3>2. CASE ~Reused(key)
      <4>1. Len(subs) + 1 \in Nat BY LenProperties
      <4>2. /\ subs' = Append(subs, "ACTIVE") /\ excused' = excused
            /\ keys' = [keys EXCEPT ![key] = Len(subs) + 1]
        BY <2>4, <3>2 DEF CreatesSub
      <4>3. subs' \in Seq({"ACTIVE", "DEACTIVATED", "CANCELED"}) BY <4>2, AppendProperties
      <4> QED BY <2>1, <4>1, <4>2, <4>3
    <3> QED BY <3>1, <3>2
  <2> QED BY <1>10, <2>3, <2>5 DEF CreateAtSquare
<1>11. ASSUME NEW r \in PlanRequests, RecordSubscription(r) PROVE PlanTypeOK'
  <2>1. planReq[r].tier \in Tiers /\ planReq[r].sub \in Nat
    BY <1>11, DoingsSound DEF RecordSubscription
  <2>2. PICK period \in {"none", "ahead"} :
           LET p == [plan EXCEPT !.tier = planReq[r].tier, !.sq = planReq[r].sub, !.period = period]
           IN Commits(r, IF planReq[r].how = "resubscribe" THEN p
                         ELSE [p EXCEPT !.status = "active", !.trial = "none", !.grace = "none"])
    BY <1>11 DEF RecordSubscription
  <2> DEFINE p == [plan EXCEPT !.tier = planReq[r].tier, !.sq = planReq[r].sub, !.period = period]
  <2>3. p \in Plans BY <2>1, PlanEdits DEF Dates
  <2>4. [p EXCEPT !.status = "active", !.trial = "none", !.grace = "none"] \in Plans
    BY <2>3, PlanEdits DEF Dates, PlanStatuses
  <2> HIDE DEF p
  <2>5. plan' \in Plans BY <2>2, <2>3, <2>4 DEF Commits, p
  <2> QED BY <1>11, <1>a, <2>2, <2>5, StandingIsStatus DEF RecordSubscription, Commits
<1>12. ASSUME NEW r \in PlanRequests, CancelPlan(r) PROVE PlanTypeOK'
  BY <1>12, <1>a DEF CancelPlan, StartsBilling
<1>13. ASSUME NEW r \in PlanRequests, CancelAtSquare(r) PROVE PlanTypeOK'
  <2>1. subs' \in Seq({"ACTIVE", "DEACTIVATED", "CANCELED"}) BY <1>13, SubsEdit DEF CancelAtSquare
  <2> QED BY <1>13, <1>a, <2>1 DEF CancelAtSquare
<1>14. ASSUME NEW r \in PlanRequests, RecordCancel(r) PROVE PlanTypeOK'
  <2>1. [plan EXCEPT !.status = "canceled", !.period = IF @ = "none" THEN "past" ELSE @] \in Plans
    BY PlanFields, PlanEdits DEF Dates, PlanStatuses
  <2> QED BY <1>14, <1>a, <2>1, StandingIsStatus DEF RecordCancel, Commits
<1>15. ASSUME NEW r \in PlanRequests, RefreshPlan(r) PROVE PlanTypeOK'
  <2> PICK period \in {plan.period, "ahead", "past"} :
          LET p == [plan EXCEPT !.period = period]
          IN Commits(r, CASE subs[plan.sq] = "ACTIVE" ->
                               [p EXCEPT !.status = "active", !.grace = "none"]
                          [] subs[plan.sq] = "DEACTIVATED" ->
                               IF plan.status = "past_due" THEN p
                               ELSE [p EXCEPT !.status = "past_due", !.grace = "ahead"]
                          [] subs[plan.sq] = "CANCELED" -> [p EXCEPT !.status = "canceled"])
    BY <1>15 DEF RefreshPlan
  <2> DEFINE p == [plan EXCEPT !.period = period]
  <2>2. p \in Plans BY PlanFields, PlanEdits DEF Dates
  <2>3. /\ [p EXCEPT !.status = "active", !.grace = "none"] \in Plans
        /\ [p EXCEPT !.status = "past_due", !.grace = "ahead"] \in Plans
        /\ [p EXCEPT !.status = "canceled"] \in Plans
    BY <2>2, PlanEdits DEF Dates, PlanStatuses
  <2> HIDE DEF p
  <2>4. subs[plan.sq] \in {"ACTIVE", "DEACTIVATED", "CANCELED"}
    <3>1. plan.sq \in 1 .. Len(subs) BY <1>15, PlanFields DEF RefreshPlan, SquareNames
    <3> QED BY <3>1
  <2>1. plan' \in Plans
    BY <2>2, <2>3, <2>4 DEF Commits, p
  <2>5. shopStatus' \in {"active", "suspended", "cancelled"} /\ planReq' \in [PlanRequests -> Doings]
    BY <1>a, StandingIsStatus DEF Commits
  <2>6. ops' = ops + 1 /\ UNCHANGED <<seats, subs, keys, excused>>
    BY <1>15 DEF RefreshPlan, StartsBilling
  <2> QED BY <2>1, <2>5, <2>6
<1>16. ASSUME NEW r \in PlanRequests, FailsAtSquare(r) PROVE PlanTypeOK'
  <2>1. plan.sq \in Nat BY PlanFields
  <2>2. planReq[r].op = "record" => planReq[r].sub \in Nat BY DoingsSound
  <2> QED BY <1>16, <1>a, <2>1, <2>2 DEF FailsAtSquare
<1>17. CASE SquareChanges BY <1>17 DEF SquareChanges
<1>18. CASE TimePasses
  <2>1. plan' \in Plans BY <1>18, PlanEdits DEF TimePasses, Dates
  <2> QED BY <1>18, <2>1 DEF TimePasses
<1>19. CASE SyncStanding BY <1>19, StandingIsStatus DEF SyncStanding
<1>20. CASE UNCHANGED planVars BY <1>20 DEF planVars
<1> QED BY <1>1, <1>2, <1>3, <1>4, <1>5, <1>6, <1>7, <1>8, <1>9, <1>10, <1>11, <1>12, <1>13,
           <1>14, <1>15, <1>16, <1>17, <1>18, <1>19, <1>20 DEF PlanNext

-----------------------------------------------------------------------------
(* Names of subscriptions                                                  *)

LEMMA NamesStep ==
    ASSUME PlanTypeOK, SquareNames, [PlanNext]_planVars
    PROVE  SquareNames'
<1> USE DEF PlanTypeOK
<1>1. plan.sq \in Nat /\ Len(subs) \in Nat BY PlanFields, LenProperties
<1>2. ASSUME NEW r \in PlanRequests, NEW d, planReq' = [planReq EXCEPT ![r] = d], d.op # "record",
             UNCHANGED <<subs, keys>>, plan'.sq = plan.sq
      PROVE  SquareNames'
  BY <1>2 DEF SquareNames
<1>a. PlanIdle.op # "record" BY DEF PlanIdle
<1>3. ASSUME NEW r \in PlanRequests,
             \/ BeginCreate(r) \/ BeginAccept(r) \/ ClaimSeat(r) \/ InsertTechnician(r)
             \/ CancelPlan(r) \/ FailsAtSquare(r)
      PROVE  SquareNames'
  BY <1>2, <1>3 DEF BeginCreate, BeginAccept, GatedBegin, ClaimSeat, InsertTechnician, CancelPlan,
                    FailsAtSquare, PlanIdle
<1>4. ASSUME NEW r \in PlanRequests, ArchiveTechnician(r) PROVE SquareNames'
  BY <1>4 DEF ArchiveTechnician, SquareNames
<1>5. ASSUME NEW r \in PlanRequests, AddPaymentMethod(r) PROVE SquareNames'
  <2>1. plan'.sq = plan.sq BY <1>5 DEF AddPaymentMethod, Commits, Plans
  <2> QED BY <1>a, <1>2, <1>5, <2>1 DEF AddPaymentMethod, Commits
<1>6. ASSUME NEW r \in PlanRequests, NEW tier \in Tiers, ChangeTier(r, tier) PROVE SquareNames'
  <2>1. plan'.sq = plan.sq BY <1>6 DEF ChangeTier, Commits, Plans
  <2> QED BY <1>2, <1>6, <2>1 DEF ChangeTier, Commits, PlanIdle
<1>7. ASSUME NEW r \in PlanRequests, NEW tier \in Tiers, Subscribe(r, tier) PROVE SquareNames'
  <2> DEFINE d == [op |-> "subscribe", tier |-> tier]
  <2>1. d.op # "record" OBVIOUS
  <2>2. planReq' = [planReq EXCEPT ![r] = d] /\ UNCHANGED <<plan, subs, keys>> BY <1>7 DEF Subscribe
  <2> HIDE DEF d
  <2> QED BY <1>2, <2>1, <2>2
<1>8. ASSUME NEW r \in PlanRequests, CancelOld(r) \/ CancelAtSquare(r) PROVE SquareNames'
  <2>1. Len(subs') = Len(subs)
    BY <1>8 DEF CancelOld, CancelAtSquare
  <2> QED BY <1>8, <2>1 DEF CancelOld, CancelAtSquare, SquareNames
<1>9. ASSUME NEW r \in PlanRequests, CreateAtSquare(r) PROVE SquareNames'
  <2> DEFINE key == <<planReq[r].op, planReq[r].tier>>
  <2>1. key \in Keys BY <1>9, DoingsSound DEF CreateAtSquare, Keys
  <2>2. CreatesSub(key) /\ plan' = plan
        /\ planReq' = [planReq EXCEPT ![r] = [op |-> "record", how |-> planReq[r].op,
                                      tier |-> planReq[r].tier, sub |-> Created(key)]]
    BY <1>9 DEF CreateAtSquare
  <2> HIDE DEF key
  <2>3. CASE Reused(key)
    <3>1. Created(key) \in 1 .. Len(subs) BY <1>1, <2>1, <2>3 DEF Created, Reused, SquareNames
    <3>2. subs' = subs /\ keys' = keys BY <2>2, <2>3 DEF CreatesSub
    <3> QED BY <2>2, <3>1, <3>2 DEF SquareNames
  <2>4. CASE ~Reused(key)
    <3>1. /\ subs' = Append(subs, "ACTIVE") /\ keys' = [keys EXCEPT ![key] = Len(subs) + 1]
          /\ Created(key) = Len(subs) + 1
      BY <2>2, <2>4 DEF CreatesSub, Created
    <3>2. Len(subs') = Len(subs) + 1 BY <3>1, AppendProperties
    <3>3. \A k \in Keys : keys'[k] <= Len(subs') BY <1>1, <2>1, <3>1, <3>2 DEF SquareNames
    <3>4. \A o \in PlanRequests : planReq'[o].op = "record" => planReq'[o].sub \in 1 .. Len(subs')
      BY <1>1, <2>2, <3>1, <3>2 DEF SquareNames
    <3> QED BY <1>1, <2>2, <3>2, <3>3, <3>4 DEF SquareNames
  <2> QED BY <2>3, <2>4
<1>10. ASSUME NEW r \in PlanRequests, RecordSubscription(r) PROVE SquareNames'
  <2>1. plan'.sq = planReq[r].sub BY <1>10 DEF RecordSubscription, Commits, Plans
  <2>2. planReq[r].sub \in 1 .. Len(subs) BY <1>10 DEF RecordSubscription, SquareNames
  <2>3. planReq' = [planReq EXCEPT ![r] = PlanIdle] /\ UNCHANGED <<subs, keys>>
    BY <1>10 DEF RecordSubscription, Commits
  <2> QED BY <1>1, <2>1, <2>2, <2>3 DEF SquareNames, PlanIdle
<1>11. ASSUME NEW r \in PlanRequests, RecordCancel(r) PROVE SquareNames'
  <2>1. plan'.sq = plan.sq BY <1>11 DEF RecordCancel, Commits, Plans
  <2> QED BY <1>a, <1>2, <1>11, <2>1 DEF RecordCancel, Commits
<1>12. ASSUME NEW r \in PlanRequests, RefreshPlan(r) PROVE SquareNames'
  <2>1. plan.sq \in 1 .. Len(subs) BY <1>1, <1>12 DEF RefreshPlan, SquareNames
  <2>2. subs[plan.sq] \in {"ACTIVE", "DEACTIVATED", "CANCELED"} BY <2>1
  <2>3. plan'.sq = plan.sq /\ planReq' = [planReq EXCEPT ![r] = PlanIdle]
    BY <1>12, <2>2 DEF RefreshPlan, Commits, Plans
  <2> QED BY <1>a, <1>2, <1>12, <2>3 DEF RefreshPlan
<1>13. CASE SquareChanges
  <2>1. Len(subs') = Len(subs) BY <1>13 DEF SquareChanges
  <2> QED BY <1>13, <2>1 DEF SquareChanges, SquareNames
<1>14. CASE TimePasses
  <2>1. plan'.sq = plan.sq BY <1>14 DEF TimePasses, Plans
  <2> QED BY <1>14, <2>1 DEF TimePasses, SquareNames
<1>15. CASE SyncStanding \/ UNCHANGED planVars
  BY <1>15 DEF SyncStanding, planVars, SquareNames
<1> QED BY <1>3, <1>4, <1>5, <1>6, <1>7, <1>8, <1>9, <1>10, <1>11, <1>12, <1>13, <1>14, <1>15
           DEF PlanNext

-----------------------------------------------------------------------------
(* Seats                                                                   *)

\* What a tier holds it holds with a technician less.
LEMMA FewerFit ==
    ASSUME NEW tier \in Tiers, NEW n \in Nat, n > 0, Fits(n, tier)
    PROVE  Fits(n - 1, tier)
BY SeatLimitIsNumber DEF Fits

\* A step that leaves seats and tier alone, and lets no request claim anything.
LEMMA PlanQuietStep ==
    ASSUME PlanInv, NEW r \in PlanRequests, NEW d, planReq' = [planReq EXCEPT ![r] = d],
           d.op \notin {"insert", "cancel_old", "resubscribe", "subscribe", "record"},
           seats' = seats, plan'.tier = plan.tier
    PROVE  CountHolds' /\ SeatsWithinTier'
<1> USE DEF PlanInv, PlanTypeOK
<1>1. ASSUME NEW o \in PlanRequests PROVE planReq'[o] = IF o = r THEN d ELSE planReq[o] OBVIOUS
<1> QED BY <1>1 DEF CountHolds, SeatsWithinTier, Fits

\* A billing operation goes on with the tier it has checked.
LEMMA CarriesTier ==
    ASSUME PlanInv, NEW r \in PlanRequests, NEW d, planReq' = [planReq EXCEPT ![r] = d],
           d.op \in {"cancel_old", "resubscribe", "subscribe", "record"},
           Fits(seats, d.tier), UNCHANGED <<seats, plan>>
    PROVE  CountHolds' /\ SeatsWithinTier'
<1> USE DEF PlanInv, PlanTypeOK
<1>1. ASSUME NEW o \in PlanRequests PROVE planReq'[o] = IF o = r THEN d ELSE planReq[o] OBVIOUS
<1> QED BY <1>1 DEF CountHolds, SeatsWithinTier, Fits

\* The holder writes a tier that holds the seats, and lets go.
LEMMA WritesTier ==
    ASSUME PlanInv, NEW r \in PlanRequests, \A o \in PlanRequests \ {r} : ~Holds(o),
           planReq' = [planReq EXCEPT ![r] = PlanIdle], seats' = seats, Fits(seats, plan'.tier)
    PROVE  CountHolds' /\ SeatsWithinTier'
<1> USE DEF PlanInv, PlanTypeOK
<1>1. ASSUME NEW o \in PlanRequests PROVE planReq'[o].op \in {"idle", "wait"} BY DEF PlanIdle, Holds
<1> QED BY <1>1 DEF CountHolds, SeatsWithinTier, Fits

LEMMA SeatStep ==
    ASSUME PlanInv, [PlanNext]_planVars
    PROVE  OneHolder' /\ CountHolds' /\ SeatsWithinTier'
<1> USE DEF PlanInv, PlanTypeOK
<1>a. /\ PlanIdle.op = "idle" /\ \A op \in STRING : [op |-> op].op = op
      /\ plan.tier \in Tiers
  BY PlanFields DEF PlanIdle
<1>1. ASSUME NEW r \in PlanRequests, BeginCreate(r) \/ BeginAccept(r)
      PROVE  OneHolder' /\ CountHolds' /\ SeatsWithinTier'
  <2> DEFINE d == [op |-> "wait"]
  <2>1. /\ ~Holds(r) /\ planReq' = [planReq EXCEPT ![r] = d] /\ UNCHANGED <<plan, seats>>
    BY <1>1, <1>a DEF BeginCreate, BeginAccept, GatedBegin, Holds
  <2>2. d.op = "wait" OBVIOUS
  <2> HIDE DEF d
  <2>3. OneHolder' BY <2>1, <2>2 DEF OneHolder, Holds
  <2> QED BY <2>1, <2>2, <2>3, PlanQuietStep
<1>2. ASSUME NEW r \in PlanRequests, ClaimSeat(r)
      PROVE  OneHolder' /\ CountHolds' /\ SeatsWithinTier'
  <2>1. ~Holds(r) /\ PlanRowFree(r) /\ UNCHANGED <<plan, seats>> BY <1>2 DEF ClaimSeat, Holds
  <2>2. CASE seats < SeatLimit(plan.tier) /\ seats < MaxSeats
    <3>1. planReq' = [planReq EXCEPT ![r] = [op |-> "insert"]] BY <1>2, <2>2 DEF ClaimSeat
    <3>2. OneHolder' /\ \A o \in PlanRequests \ {r} : ~Holds(o) /\ planReq'[o] = planReq[o]
      BY <2>1, <3>1, TakesRow
    <3>3. CountHolds'
      BY <2>1, <2>2, <3>1, <3>2 DEF CountHolds, Holds
    <3> QED BY <2>1, <3>2, <3>3 DEF SeatsWithinTier
  <2>3. CASE ~(seats < SeatLimit(plan.tier) /\ seats < MaxSeats)
    <3>1. planReq' = [planReq EXCEPT ![r] = PlanIdle] BY <1>2, <2>3 DEF ClaimSeat
    <3> QED BY <1>a, <2>1, <3>1, TakesRow, PlanQuietStep
  <2> QED BY <2>2, <2>3
<1>3. ASSUME NEW r \in PlanRequests, InsertTechnician(r)
      PROVE  OneHolder' /\ CountHolds' /\ SeatsWithinTier'
  <2>1. /\ Holds(r) /\ planReq' = [planReq EXCEPT ![r] = PlanIdle] /\ seats' = seats + 1 /\ plan' = plan
        /\ seats < SeatLimit(plan.tier)
    BY <1>3 DEF InsertTechnician, Holds, CountHolds
  <2>2. OneHolder' /\ \A o \in PlanRequests \ {r} : ~Holds(o) /\ planReq'[o] = planReq[o]
    BY <2>1, KeepsRow
  <2>3. \A o \in PlanRequests : planReq'[o].op \in {"idle", "wait"} BY <1>a, <2>1, <2>2 DEF Holds
  <2>4. Fits(seats + 1, plan.tier) BY <1>a, <2>1, SeatLimitIsNumber DEF Fits
  <2> QED BY <2>1, <2>2, <2>3, <2>4 DEF CountHolds, SeatsWithinTier, Fits
<1>4. ASSUME NEW r \in PlanRequests, ArchiveTechnician(r)
      PROVE  OneHolder' /\ CountHolds' /\ SeatsWithinTier'
  <2>1. UNCHANGED <<plan, planReq>> /\ seats' = seats - 1 /\ seats > 0
    BY <1>4 DEF ArchiveTechnician
  <2>2. Fits(seats - 1, plan.tier) BY <1>a, <2>1, FewerFit DEF SeatsWithinTier
  <2>3. ASSUME NEW o \in PlanRequests
        PROVE  /\ planReq[o].op = "insert" => seats - 1 < SeatLimit(plan.tier)
               /\ planReq[o].op \in {"cancel_old", "resubscribe", "subscribe", "record"}
                     => Fits(seats - 1, planReq[o].tier)
    <3>1. planReq[o].op = "insert" => seats - 1 < SeatLimit(plan.tier)
      BY <1>a, SeatLimitIsNumber DEF CountHolds
    <3>2. CASE planReq[o].op \in {"cancel_old", "resubscribe", "subscribe", "record"}
      <4>1. planReq[o].tier \in Tiers BY <3>2, DoingsSound
      <4> QED BY <2>1, <3>1, <3>2, <4>1, FewerFit DEF CountHolds
    <3> QED BY <3>1, <3>2
  <2> QED BY <2>1, <2>2, <2>3 DEF OneHolder, Holds, CountHolds, SeatsWithinTier, Fits
<1>5. ASSUME NEW r \in PlanRequests, StartsBilling(r)
      PROVE  ~Holds(r) /\ PlanRowFree(r)
  BY <1>5, <1>a DEF StartsBilling, Holds
<1>6. ASSUME NEW r \in PlanRequests, AddPaymentMethod(r) \/ RefreshPlan(r)
      PROVE  OneHolder' /\ CountHolds' /\ SeatsWithinTier'
  <2>1. StartsBilling(r) /\ seats' = seats BY <1>6 DEF AddPaymentMethod, RefreshPlan
  <2>2. planReq' = [planReq EXCEPT ![r] = PlanIdle]
    BY <1>6 DEF AddPaymentMethod, RefreshPlan, Commits
  <2>3. plan'.tier = plan.tier
    <3>1. CASE AddPaymentMethod(r) BY <3>1 DEF AddPaymentMethod, Commits, Plans
    <3>2. CASE RefreshPlan(r)
      <4>1. plan.sq \in 1 .. Len(subs)
        BY <3>2, PlanFields, LenProperties DEF RefreshPlan, SquareNames
      <4>2. subs[plan.sq] \in {"ACTIVE", "DEACTIVATED", "CANCELED"} BY <4>1
      <4> QED BY <3>2, <4>2 DEF RefreshPlan, Commits, Plans
    <3> QED BY <1>6, <3>1, <3>2
  <2> QED BY <1>5, <1>a, <2>1, <2>2, <2>3, TakesRow, PlanQuietStep
<1>7. ASSUME NEW r \in PlanRequests, CancelPlan(r)
      PROVE  OneHolder' /\ CountHolds' /\ SeatsWithinTier'
  <2> DEFINE d == [op |-> "cancel_plan"]
  <2>1. StartsBilling(r) /\ planReq' = [planReq EXCEPT ![r] = d] /\ UNCHANGED <<plan, seats>>
    BY <1>7 DEF CancelPlan
  <2>2. d.op = "cancel_plan" OBVIOUS
  <2> HIDE DEF d
  <2> QED BY <1>5, <2>1, <2>2, TakesRow, PlanQuietStep
<1>8. ASSUME NEW r \in PlanRequests, NEW tier \in Tiers, ChangeTier(r, tier)
      PROVE  OneHolder' /\ CountHolds' /\ SeatsWithinTier'
  <2>1. StartsBilling(r) /\ Fits(seats, tier) /\ seats' = seats BY <1>8 DEF ChangeTier
  <2>2. CASE plan.sq # 0
    <3> DEFINE d == [op |-> "cancel_old", tier |-> tier]
    <3>1. planReq' = [planReq EXCEPT ![r] = d] /\ plan' = plan BY <1>8, <2>2 DEF ChangeTier
    <3>2. d.op = "cancel_old" /\ d.tier = tier OBVIOUS
    <3> HIDE DEF d
    <3> QED BY <1>5, <2>1, <3>1, <3>2, TakesRow, CarriesTier
  <2>3. CASE plan.sq = 0
    <3>1. Commits(r, [plan EXCEPT !.tier = tier]) BY <1>8, <2>3 DEF ChangeTier
    <3>2. planReq' = [planReq EXCEPT ![r] = PlanIdle] /\ plan'.tier = tier BY <3>1 DEF Commits, Plans
    <3> QED BY <1>5, <2>1, <3>2, TakesRow, WritesTier
  <2> QED BY <2>2, <2>3, PlanFields
<1>9. ASSUME NEW r \in PlanRequests, NEW tier \in Tiers, Subscribe(r, tier)
      PROVE  OneHolder' /\ CountHolds' /\ SeatsWithinTier'
  <2> DEFINE d == [op |-> "subscribe", tier |-> tier]
  <2>1. /\ StartsBilling(r) /\ Fits(seats, tier)
        /\ planReq' = [planReq EXCEPT ![r] = d] /\ UNCHANGED <<plan, seats>>
    BY <1>9 DEF Subscribe
  <2>2. d.op = "subscribe" /\ d.tier = tier OBVIOUS
  <2> HIDE DEF d
  <2> QED BY <1>5, <2>1, <2>2, TakesRow, CarriesTier
<1>10. ASSUME NEW r \in PlanRequests, CancelOld(r)
       PROVE  OneHolder' /\ CountHolds' /\ SeatsWithinTier'
  <2> DEFINE d == [op |-> "resubscribe", tier |-> planReq[r].tier]
  <2>1. /\ Holds(r) /\ Fits(seats, planReq[r].tier)
        /\ planReq' = [planReq EXCEPT ![r] = d] /\ UNCHANGED <<plan, seats>>
    BY <1>10 DEF CancelOld, Holds, CountHolds
  <2>2. d.op = "resubscribe" /\ d.tier = planReq[r].tier OBVIOUS
  <2> HIDE DEF d
  <2> QED BY <2>1, <2>2, KeepsRow, CarriesTier
<1>11. ASSUME NEW r \in PlanRequests, CreateAtSquare(r)
       PROVE  OneHolder' /\ CountHolds' /\ SeatsWithinTier'
  <2> DEFINE d == [op |-> "record", how |-> planReq[r].op, tier |-> planReq[r].tier,
                   sub |-> Created(<<planReq[r].op, planReq[r].tier>>)]
  <2>1. /\ Holds(r) /\ Fits(seats, planReq[r].tier)
        /\ planReq' = [planReq EXCEPT ![r] = d] /\ UNCHANGED <<plan, seats>>
    BY <1>11 DEF CreateAtSquare, Holds, CountHolds
  <2>2. d.op = "record" /\ d.tier = planReq[r].tier OBVIOUS
  <2> HIDE DEF d
  <2> QED BY <2>1, <2>2, KeepsRow, CarriesTier
<1>12. ASSUME NEW r \in PlanRequests, RecordSubscription(r)
       PROVE  OneHolder' /\ CountHolds' /\ SeatsWithinTier'
  <2>1. /\ Holds(r) /\ Fits(seats, planReq[r].tier) /\ seats' = seats
        /\ planReq' = [planReq EXCEPT ![r] = PlanIdle] /\ plan'.tier = planReq[r].tier
    BY <1>12 DEF RecordSubscription, Holds, CountHolds, Commits, Plans
  <2> QED BY <2>1, KeepsRow, WritesTier
<1>13. ASSUME NEW r \in PlanRequests, CancelAtSquare(r)
       PROVE  OneHolder' /\ CountHolds' /\ SeatsWithinTier'
  <2> DEFINE d == [op |-> "canceled"]
  <2>1. Holds(r) /\ planReq' = [planReq EXCEPT ![r] = d] /\ UNCHANGED <<plan, seats>>
    BY <1>13 DEF CancelAtSquare, Holds
  <2>2. d.op = "canceled" OBVIOUS
  <2> HIDE DEF d
  <2> QED BY <2>1, <2>2, KeepsRow, PlanQuietStep
<1>14. ASSUME NEW r \in PlanRequests, RecordCancel(r) \/ FailsAtSquare(r)
       PROVE  OneHolder' /\ CountHolds' /\ SeatsWithinTier'
  <2>1. Holds(r) /\ planReq' = [planReq EXCEPT ![r] = PlanIdle] /\ seats' = seats
    BY <1>14 DEF RecordCancel, FailsAtSquare, Commits, Holds
  <2>2. plan'.tier = plan.tier
    BY <1>14 DEF RecordCancel, FailsAtSquare, Commits, Plans
  <2> QED BY <1>a, <2>1, <2>2, KeepsRow, PlanQuietStep
<1>15. CASE SquareChanges \/ TimePasses \/ SyncStanding \/ UNCHANGED planVars
  <2>1. UNCHANGED <<seats, planReq>> /\ plan'.tier = plan.tier
    BY <1>15 DEF SquareChanges, TimePasses, SyncStanding, planVars, Plans
  <2> QED BY <2>1 DEF OneHolder, Holds, CountHolds, SeatsWithinTier, Fits
<1> QED BY <1>1, <1>2, <1>3, <1>4, <1>6, <1>7, <1>8, <1>9, <1>10, <1>11, <1>12, <1>13,
           <1>14, <1>15 DEF PlanNext

LEMMA PlanInvariant == PlanSpec => []PlanInv
<1>1. PlanInit => PlanInv
  <2> SUFFICES ASSUME PlanInit PROVE PlanInv OBVIOUS
  <2> USE DEF PlanInit, NewPlan, PlanIdle
  <2>1. PlanTypeOK
    <3>1. plan \in Plans
      <4>1. NewPlan("solo", "trialing", "ahead") \in Plans BY DEF Plans, Tiers, PlanStatuses, Dates
      <4>2. NewPlan("shop", "active", "none") \in Plans BY DEF Plans, Tiers, PlanStatuses, Dates
      <4> QED BY <4>1, <4>2
    <3>2. planReq \in [PlanRequests -> Doings] BY DoingsSound
    <3> QED BY <3>1, <3>2 DEF PlanTypeOK
  <2>2. SquareNames BY DEF SquareNames
  <2>3. OneHolder /\ CountHolds BY DEF OneHolder, Holds, CountHolds
  <2>4. SeatsWithinTier BY SeatLimitIsNumber DEF SeatsWithinTier, Fits, Tiers
  <2> QED BY <2>1, <2>2, <2>3, <2>4 DEF PlanInv
<1>2. PlanInv /\ [PlanNext]_planVars => PlanInv'
  BY TypeStep, NamesStep, SeatStep DEF PlanInv
<1> QED BY <1>1, <1>2, PTL DEF PlanSpec

\* The row and the requests keep their types, and name subscriptions that were made.
THEOREM PlanTypeCorrect == PlanSpec => []PlanTypeOK
<1>1. PlanInv => PlanTypeOK BY DEF PlanInv
<1> QED BY <1>1, PlanInvariant, PTL

\* No race of new technicians, invitations and tier changes takes more seats than the
\* tier has.
THEOREM SeatsWithinTierTheorem == PlanSpec => []SeatsWithinTier
<1>1. PlanInv => SeatsWithinTier BY DEF PlanInv
<1> QED BY <1>1, PlanInvariant, PTL

-----------------------------------------------------------------------------
(* Square and the row                                                      *)

\* Between a call to Square that took effect and the commit that records it.
Between(r) == planReq[r].op \in {"resubscribe", "record", "canceled"}

\* Whatever still collects is among X, or excused.
Ended(X) == \A s \in DOMAIN subs \ (excused \cup X) : subs[s] = "CANCELED"

RowAgrees ==
    /\ Ended({plan.sq})
    /\ plan.sq # 0 /\ plan.status = "active" /\ plan.sq \notin excused => subs[plan.sq] # "CANCELED"

\* While nobody is between a call and its commit the row is right.  In between, nothing
\* collects but the subscription that is about to be recorded.
SquareInv ==
    /\ (\A r \in PlanRequests : ~Between(r)) => RowAgrees
    /\ \A r \in PlanRequests :
          /\ planReq[r].op = "subscribe" => plan.sq = 0
          /\ planReq[r].op \in {"resubscribe", "canceled"} => Ended({})
          /\ planReq[r].op = "record" =>
                /\ Ended({planReq[r].sub})
                /\ planReq[r].sub \notin excused => subs[planReq[r].sub] # "CANCELED"

\* A request that is not between, and does not get there, and leaves Square alone.
LEMMA AgreeQuiet ==
    ASSUME PlanInv, SquareInv, NEW r \in PlanRequests, NEW d, planReq' = [planReq EXCEPT ![r] = d],
           ~Between(r), d.op \notin {"resubscribe", "record", "canceled"},
           plan'.sq = plan.sq, plan'.status = plan.status, d.op = "subscribe" => plan.sq = 0,
           UNCHANGED <<subs, excused>>
    PROVE  SquareInv'
<1>1. \A o \in PlanRequests : planReq'[o] = IF o = r THEN d ELSE planReq[o]
  BY DEF PlanInv, PlanTypeOK
<1>2. (\A o \in PlanRequests : ~Between(o))' => \A o \in PlanRequests : ~Between(o)
  BY <1>1 DEF Between
<1>3. (\A o \in PlanRequests : ~Between(o))' => RowAgrees'
  BY <1>2 DEF SquareInv, RowAgrees, Ended
<1>4. ASSUME NEW o \in PlanRequests
      PROVE  /\ planReq'[o].op = "subscribe" => plan'.sq = 0
             /\ planReq'[o].op \in {"resubscribe", "canceled"} => Ended({})'
             /\ planReq'[o].op = "record" =>
                   /\ Ended({planReq[o].sub})'
                   /\ planReq'[o].sub \notin excused' => subs'[planReq'[o].sub] # "CANCELED"
  BY <1>1 DEF SquareInv, Ended
<1> QED BY <1>3, <1>4 DEF SquareInv

\* The holder lets go, and the row it leaves is right.
LEMMA AgreeRelease ==
    ASSUME PlanInv, NEW r \in PlanRequests, planReq' = [planReq EXCEPT ![r] = PlanIdle],
           \A o \in PlanRequests \ {r} : ~Holds(o), RowAgrees'
    PROVE  SquareInv'
<1>1. \A o \in PlanRequests : planReq'[o].op \in {"idle", "wait"}
  BY DEF PlanInv, PlanTypeOK, Holds, PlanIdle
<1> QED BY <1>1 DEF SquareInv

\* The holder gets between, and nothing collects but what it records.
LEMMA AgreeBetween ==
    ASSUME PlanInv, NEW r \in PlanRequests, NEW d, planReq' = [planReq EXCEPT ![r] = d],
           \A o \in PlanRequests \ {r} : ~Holds(o),
           d.op \in {"resubscribe", "record", "canceled"},
           d.op # "record" => Ended({})',
           d.op = "record" =>
              /\ \A s \in DOMAIN subs' \ (excused' \cup {d.sub}) : subs'[s] = "CANCELED"
              /\ d.sub \notin excused' => subs'[d.sub] # "CANCELED"
    PROVE  SquareInv'
<1>1. \A o \in PlanRequests : o # r => planReq'[o].op \in {"idle", "wait"}
  BY DEF PlanInv, PlanTypeOK, Holds
<1>2. planReq'[r] = d
  BY DEF PlanInv, PlanTypeOK
<1>3. Between(r)'
  BY <1>2 DEF Between
<1>4. ASSUME NEW o \in PlanRequests
      PROVE  /\ planReq'[o].op = "subscribe" => plan'.sq = 0
             /\ planReq'[o].op \in {"resubscribe", "canceled"} => Ended({})'
             /\ planReq'[o].op = "record" =>
                   /\ \A s \in DOMAIN subs' \ (excused' \cup {planReq'[o].sub}) : subs'[s] = "CANCELED"
                   /\ planReq'[o].sub \notin excused' => subs'[planReq'[o].sub] # "CANCELED"
  BY <1>1, <1>2
<1> QED BY <1>3, <1>4 DEF SquareInv, Ended

LEMMA AgreeStep ==
    ASSUME PlanInv, SquareInv, [PlanNext]_planVars
    PROVE  SquareInv'
<1>a. /\ PlanTypeOK /\ SquareNames /\ OneHolder /\ plan \in Plans /\ plan.sq \in Nat
      /\ PlanIdle.op = "idle" /\ DOMAIN subs = 1 .. Len(subs) /\ Len(subs) \in Nat
      /\ \A s \in DOMAIN subs : subs[s] \in {"ACTIVE", "DEACTIVATED", "CANCELED"}
  BY PlanFields, LenProperties, ElementOfSeq DEF PlanInv, PlanTypeOK, PlanIdle
<1>b. ASSUME NEW r \in PlanRequests, Holds(r)
      PROVE  /\ \A o \in PlanRequests \ {r} : ~Holds(o)
             /\ ~Between(r) => RowAgrees
  <2>1. \A o \in PlanRequests \ {r} : ~Holds(o) BY <1>a, <1>b DEF OneHolder
  <2>2. \A o \in PlanRequests \ {r} : ~Between(o) BY <2>1 DEF Holds, Between
  <2> QED BY <2>1, <2>2 DEF SquareInv
<1>c. ASSUME NEW r \in PlanRequests, StartsBilling(r)
      PROVE  ~Between(r) /\ RowAgrees /\ \A o \in PlanRequests \ {r} : ~Holds(o)
  <2>1. \A o \in PlanRequests : planReq[o].op \in {"idle", "wait"}
    BY <1>a, <1>c DEF StartsBilling, PlanRowFree
  <2> QED BY <2>1 DEF Between, Holds, SquareInv
<1>1. ASSUME NEW r \in PlanRequests,
             \/ BeginCreate(r) \/ BeginAccept(r) \/ ClaimSeat(r) \/ InsertTechnician(r)
             \/ CancelPlan(r)
      PROVE  SquareInv'
  <2>1. PICK d : /\ planReq' = [planReq EXCEPT ![r] = d]
                 /\ d.op \in {"wait", "insert", "idle", "cancel_plan"}
    <3>0. \A op \in {"wait", "insert", "cancel_plan"} : [op |-> op].op = op OBVIOUS
    <3>1. CASE BeginCreate(r) \/ BeginAccept(r)
      <4>1. planReq' = [planReq EXCEPT ![r] = [op |-> "wait"]] BY <3>1 DEF BeginCreate, BeginAccept
      <4> QED BY <3>0, <4>1, Zenon
    <3>2. CASE ClaimSeat(r)
      <4>1. \/ planReq' = [planReq EXCEPT ![r] = [op |-> "insert"]]
            \/ planReq' = [planReq EXCEPT ![r] = PlanIdle]
        BY <3>2 DEF ClaimSeat
      <4> QED BY <1>a, <3>0, <4>1, Zenon
    <3>3. CASE InsertTechnician(r)
      BY <3>3, <1>a DEF InsertTechnician
    <3>4. CASE CancelPlan(r)
      <4>1. planReq' = [planReq EXCEPT ![r] = [op |-> "cancel_plan"]] BY <3>4 DEF CancelPlan
      <4> QED BY <3>0, <4>1, Zenon
    <3> QED BY <1>1, <3>1, <3>2, <3>3, <3>4
  <2>2. ~Between(r) /\ UNCHANGED <<plan, subs, excused>>
    BY <1>1, <1>a DEF BeginCreate, BeginAccept, GatedBegin, ClaimSeat, InsertTechnician,
                      CancelPlan, StartsBilling, Between
  <2> QED BY <2>1, <2>2, AgreeQuiet
<1>2. ASSUME NEW r \in PlanRequests, NEW tier \in Tiers, Subscribe(r, tier) PROVE SquareInv'
  <2> DEFINE d == [op |-> "subscribe", tier |-> tier]
  <2>1. /\ planReq' = [planReq EXCEPT ![r] = d] /\ ~Between(r) /\ plan.sq = 0
        /\ UNCHANGED <<plan, subs, excused>>
    BY <1>2, <1>c DEF Subscribe
  <2>2. d.op = "subscribe" OBVIOUS
  <2> HIDE DEF d
  <2> QED BY <2>1, <2>2, AgreeQuiet
<1>3. ASSUME NEW r \in PlanRequests, NEW tier \in Tiers, ChangeTier(r, tier) PROVE SquareInv'
  <2>1. ~Between(r) /\ UNCHANGED <<subs, excused>> BY <1>3, <1>c DEF ChangeTier
  <2>2. CASE plan.sq # 0
    <3> DEFINE d == [op |-> "cancel_old", tier |-> tier]
    <3>1. planReq' = [planReq EXCEPT ![r] = d] /\ plan' = plan BY <1>3, <2>2 DEF ChangeTier
    <3>2. d.op = "cancel_old" OBVIOUS
    <3> HIDE DEF d
    <3> QED BY <2>1, <3>1, <3>2, AgreeQuiet
  <2>3. CASE plan.sq = 0
    <3>1. Commits(r, [plan EXCEPT !.tier = tier]) BY <1>3, <2>3 DEF ChangeTier
    <3>2. /\ planReq' = [planReq EXCEPT ![r] = PlanIdle]
          /\ plan'.sq = plan.sq /\ plan'.status = plan.status
      BY <1>a, <3>1 DEF Commits, Plans
    <3> QED BY <1>a, <2>1, <3>2, AgreeQuiet
  <2> QED BY <2>2, <2>3
<1>4. ASSUME NEW r \in PlanRequests, AddPaymentMethod(r) PROVE SquareInv'
  <2>1. /\ planReq' = [planReq EXCEPT ![r] = PlanIdle] /\ ~Between(r) /\ UNCHANGED <<subs, excused>>
        /\ plan'.sq = plan.sq /\ plan'.status = plan.status
    BY <1>4, <1>a, <1>c DEF AddPaymentMethod, Commits, Plans
  <2> QED BY <1>a, <2>1, AgreeQuiet
<1>5. ASSUME NEW r \in PlanRequests, CancelOld(r) PROVE SquareInv'
  <2> DEFINE d == [op |-> "resubscribe", tier |-> planReq[r].tier]
  <2>1. /\ planReq[r].op = "cancel_old" /\ planReq' = [planReq EXCEPT ![r] = d]
        /\ subs' = [subs EXCEPT ![plan.sq] = "CANCELED"] /\ excused' = excused
    BY <1>5 DEF CancelOld
  <2>2. d.op = "resubscribe" OBVIOUS
  <2> HIDE DEF d
  <2>3. Holds(r) /\ ~Between(r) BY <2>1 DEF Holds, Between
  <2>4. RowAgrees /\ \A o \in PlanRequests \ {r} : ~Holds(o) BY <1>b, <2>3
  <2>5. Ended({})' BY <1>a, <2>1, <2>4 DEF RowAgrees, Ended
  <2> QED BY <2>1, <2>2, <2>4, <2>5, AgreeBetween
<1>6. ASSUME NEW r \in PlanRequests, CancelAtSquare(r) PROVE SquareInv'
  <2> DEFINE d == [op |-> "canceled"]
  <2>1. /\ planReq[r].op = "cancel_plan" /\ planReq' = [planReq EXCEPT ![r] = d]
        /\ subs' = IF plan.sq # 0 THEN [subs EXCEPT ![plan.sq] = "CANCELED"] ELSE subs
        /\ excused' = excused
    BY <1>6 DEF CancelAtSquare
  <2>2. d.op = "canceled" OBVIOUS
  <2> HIDE DEF d
  <2>3. Holds(r) /\ ~Between(r) BY <2>1 DEF Holds, Between
  <2>4. RowAgrees /\ \A o \in PlanRequests \ {r} : ~Holds(o) BY <1>b, <2>3
  <2>5. Ended({})' BY <1>a, <2>1, <2>4 DEF RowAgrees, Ended
  <2> QED BY <2>1, <2>2, <2>4, <2>5, AgreeBetween
<1>7. ASSUME NEW r \in PlanRequests, CreateAtSquare(r) PROVE SquareInv'
  <2> DEFINE key == <<planReq[r].op, planReq[r].tier>>
             d == [op |-> "record", how |-> planReq[r].op, tier |-> planReq[r].tier,
                   sub |-> Created(key)]
  <2>1. /\ planReq[r].op \in {"subscribe", "resubscribe"} /\ planReq' = [planReq EXCEPT ![r] = d]
        /\ CreatesSub(key)
    BY <1>7 DEF CreateAtSquare
  <2>2. d.op = "record" /\ d.sub = Created(key) OBVIOUS
  <2>3. Holds(r) BY <2>1 DEF Holds
  <2>4. \A o \in PlanRequests \ {r} : ~Holds(o) BY <1>b, <2>3
  <2>5. Ended({})
    <3>1. CASE planReq[r].op = "resubscribe" BY <3>1 DEF SquareInv
    <3>2. CASE planReq[r].op = "subscribe"
      <4>1. RowAgrees BY <1>b, <2>3, <3>2 DEF Between
      <4>2. plan.sq = 0 BY <3>2 DEF SquareInv
      <4> QED BY <1>a, <4>1, <4>2 DEF RowAgrees, Ended
    <3> QED BY <2>1, <3>1, <3>2
  <2> HIDE DEF d, key
  <2>6. /\ \A s \in DOMAIN subs' \ (excused' \cup {Created(key)}) : subs'[s] = "CANCELED"
        /\ Created(key) \notin excused' => subs'[Created(key)] # "CANCELED"
    <3>1. CASE Reused(key)
      <4>1. subs' = subs /\ excused' = excused \cup {keys[key]} /\ Created(key) = keys[key]
        BY <2>1, <3>1 DEF CreatesSub, Created
      <4> QED BY <2>5, <4>1 DEF Ended
    <3>2. CASE ~Reused(key)
      <4>1. subs' = Append(subs, "ACTIVE") /\ excused' = excused /\ Created(key) = Len(subs) + 1
        BY <2>1, <3>2 DEF CreatesSub, Created
      <4>2. /\ DOMAIN subs' = 1 .. Len(subs) + 1 /\ subs'[Len(subs) + 1] = "ACTIVE"
            /\ \A s \in 1 .. Len(subs) : subs'[s] = subs[s]
        BY <1>a, <4>1 DEF PlanTypeOK
      <4> QED BY <1>a, <2>5, <4>1, <4>2 DEF Ended
    <3> QED BY <3>1, <3>2
  <2> QED BY <2>1, <2>2, <2>4, <2>6, AgreeBetween
<1>8. ASSUME NEW r \in PlanRequests, RecordSubscription(r) PROVE SquareInv'
  <2>1. /\ planReq[r].op = "record" /\ plan'.sq = planReq[r].sub
        /\ planReq' = [planReq EXCEPT ![r] = PlanIdle] /\ UNCHANGED <<subs, excused>>
    BY <1>8, <1>a DEF RecordSubscription, Commits, Plans
  <2>2. Holds(r) BY <2>1 DEF Holds
  <2>3. /\ Ended({planReq[r].sub})
        /\ planReq[r].sub \notin excused => subs[planReq[r].sub] # "CANCELED"
    BY <2>1 DEF SquareInv
  <2>4. RowAgrees' BY <2>1, <2>3 DEF RowAgrees, Ended
  <2> QED BY <1>b, <2>1, <2>2, <2>4, AgreeRelease
<1>9. ASSUME NEW r \in PlanRequests, RecordCancel(r) PROVE SquareInv'
  <2>1. /\ planReq[r].op = "canceled" /\ plan'.sq = plan.sq /\ plan'.status = "canceled"
        /\ planReq' = [planReq EXCEPT ![r] = PlanIdle] /\ UNCHANGED <<subs, excused>>
    BY <1>9, <1>a DEF RecordCancel, Commits, Plans
  <2>2. Holds(r) BY <2>1 DEF Holds
  <2>3. Ended({}) BY <2>1 DEF SquareInv
  <2>4. RowAgrees' BY <2>1, <2>3 DEF RowAgrees, Ended
  <2> QED BY <1>b, <2>1, <2>2, <2>4, AgreeRelease
<1>10. ASSUME NEW r \in PlanRequests, RefreshPlan(r) PROVE SquareInv'
  <2>1. StartsBilling(r) /\ plan.sq \in DOMAIN subs /\ UNCHANGED <<subs, excused>>
    BY <1>10, <1>a DEF RefreshPlan, SquareNames
  <2>2. RowAgrees /\ \A o \in PlanRequests \ {r} : ~Holds(o)
    BY <1>c, <2>1
  <2>3. subs[plan.sq] \in {"ACTIVE", "DEACTIVATED", "CANCELED"} BY <1>a, <2>1
  <2>4. /\ planReq' = [planReq EXCEPT ![r] = PlanIdle] /\ plan'.sq = plan.sq
        /\ subs[plan.sq] = "CANCELED" => plan'.status = "canceled"
    BY <1>10, <1>a, <2>3 DEF RefreshPlan, Commits, Plans
  <2>5. RowAgrees' BY <2>1, <2>2, <2>4 DEF RowAgrees, Ended
  <2> QED BY <2>2, <2>4, <2>5, AgreeRelease
<1>11. ASSUME NEW r \in PlanRequests, FailsAtSquare(r) PROVE SquareInv'
  <2>1. /\ planReq[r].op \in {"cancel_old", "resubscribe", "subscribe", "record", "cancel_plan", "canceled"}
        /\ planReq' = [planReq EXCEPT ![r] = PlanIdle] /\ UNCHANGED <<plan, subs>>
        /\ excused' = excused
             \cup (IF planReq[r].op \in {"resubscribe", "record", "canceled"} THEN {plan.sq} ELSE {})
             \cup (IF planReq[r].op = "record" THEN {planReq[r].sub} ELSE {})
    BY <1>11 DEF FailsAtSquare
  <2>2. Holds(r) BY <2>1 DEF Holds
  <2>3. CASE ~Between(r)
    <3>1. excused' = excused /\ RowAgrees BY <1>b, <2>1, <2>2, <2>3 DEF Between
    <3>2. RowAgrees' BY <2>1, <3>1 DEF RowAgrees, Ended
    <3> QED BY <1>b, <2>1, <2>2, <3>2, AgreeRelease
  <2>4. CASE planReq[r].op \in {"resubscribe", "canceled"}
    <3>1. excused' = excused \cup {plan.sq} /\ Ended({}) BY <2>1, <2>4 DEF SquareInv
    <3>2. RowAgrees' BY <2>1, <3>1 DEF RowAgrees, Ended
    <3> QED BY <1>b, <2>1, <2>2, <3>2, AgreeRelease
  <2>5. CASE planReq[r].op = "record"
    <3>1. excused' = excused \cup {plan.sq, planReq[r].sub} /\ Ended({planReq[r].sub})
      BY <2>1, <2>5 DEF SquareInv
    <3>2. RowAgrees' BY <2>1, <3>1 DEF RowAgrees, Ended
    <3> QED BY <1>b, <2>1, <2>2, <3>2, AgreeRelease
  <2> QED BY <2>3, <2>4, <2>5 DEF Between
<1>12. CASE SquareChanges
  <2>1. PICK s \in DOMAIN subs, to \in {"ACTIVE", "DEACTIVATED", "CANCELED"} :
           /\ subs[s] \notin {"CANCELED", to} /\ subs' = [subs EXCEPT ![s] = to]
           /\ excused' = IF to = "CANCELED" THEN excused \cup {s} ELSE excused
           /\ UNCHANGED <<plan, planReq>>
    BY <1>12 DEF SquareChanges
  <2>2. /\ excused \subseteq excused' /\ DOMAIN subs' = DOMAIN subs
        /\ \A k \in DOMAIN subs : k \notin excused' => (subs'[k] = "CANCELED" <=> subs[k] = "CANCELED")
        /\ \A k \in DOMAIN subs : subs[k] = "CANCELED" => subs'[k] = "CANCELED"
    BY <1>a, <2>1
  <2>3. \A X : Ended(X) => \A k \in DOMAIN subs' \ (excused' \cup X) : subs'[k] = "CANCELED"
    BY <2>2 DEF Ended
  <2>4. \A k \in DOMAIN subs : (k \notin excused => subs[k] # "CANCELED")
                               => (k \notin excused' => subs'[k] # "CANCELED")
    BY <2>2
  <2>5. (\A r \in PlanRequests : ~Between(r))' => RowAgrees'
    <3>1. plan.sq # 0 => plan.sq \in DOMAIN subs BY <1>a DEF SquareNames
    <3>2. (\A r \in PlanRequests : ~Between(r))' => RowAgrees
      BY <2>1 DEF Between, SquareInv
    <3> QED BY <2>1, <2>2, <2>3, <2>4, <3>1, <3>2 DEF RowAgrees, Ended
  <2>6. ASSUME NEW r \in PlanRequests
        PROVE  /\ planReq[r].op = "subscribe" => plan.sq = 0
               /\ planReq[r].op \in {"resubscribe", "canceled"} => Ended({})'
               /\ planReq[r].op = "record" =>
                     /\ \A k \in DOMAIN subs' \ (excused' \cup {planReq[r].sub}) : subs'[k] = "CANCELED"
                     /\ planReq[r].sub \notin excused' => subs'[planReq[r].sub] # "CANCELED"
    <3>1. planReq[r].op = "record" => planReq[r].sub \in DOMAIN subs BY <1>a DEF SquareNames
    <3>2. planReq[r].op = "record" =>
             /\ Ended({planReq[r].sub})
             /\ planReq[r].sub \notin excused => subs[planReq[r].sub] # "CANCELED"
      BY DEF SquareInv
    <3>3. planReq[r].op \in {"resubscribe", "canceled"} => Ended({})' BY <2>3 DEF SquareInv, Ended
    <3> QED BY <2>3, <2>4, <3>1, <3>2, <3>3 DEF SquareInv
  <2> QED BY <2>1, <2>5, <2>6 DEF SquareInv, Ended
<1>13. CASE TimePasses \/ SyncStanding \/ UNCHANGED planVars \/ \E r \in PlanRequests : ArchiveTechnician(r)
  <2>1. /\ plan'.sq = plan.sq /\ plan'.status = plan.status
        /\ UNCHANGED <<subs, excused, planReq>>
    BY <1>13, <1>a DEF TimePasses, SyncStanding, planVars, ArchiveTechnician, Plans
  <2> QED BY <2>1 DEF SquareInv, RowAgrees, Ended, Between
<1> QED BY <1>1, <1>2, <1>3, <1>4, <1>5, <1>6, <1>7, <1>8, <1>9, <1>10, <1>11, <1>12, <1>13
        DEF PlanNext

\* subscribe, change_tier, cancel_subscription: while nothing is under way, a subscription
\* that still collects is the one the row names, and an active row names one that
\* collects, but for what a failed request, Square itself or a reused key excuses.
THEOREM SquareAgreesTheorem == PlanSpec => []SquareAgrees
<1>1. PlanInit => SquareInv
  BY DEF PlanInit, NewPlan, PlanIdle, SquareInv, Between, RowAgrees, Ended
<1>2. SquareInv => SquareAgrees
  BY DEF SquareInv, Between, RowAgrees, Ended, SquareAgrees
<1>3. PlanInv /\ SquareInv /\ [PlanNext]_planVars => SquareInv'
  BY AgreeStep
<1> QED BY <1>1, <1>2, <1>3, PlanInvariant, PTL DEF PlanSpec
=============================================================================
