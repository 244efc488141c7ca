----------------------------- MODULE WorkOrders -----------------------------
(***************************************************************************)
(* The work order of one approved estimate revision: its creation, its     *)
(* status machine, its payment-plan prerequisites and the draft invoice    *)
(* that completing it creates (app/work_order_store.py and                 *)
(* ensure_draft_invoice_for_work_order of app/invoice_store.py).           *)
(*                                                                         *)
(* No request locks the row it loads.  The flush of a commit takes the row *)
(* lock and keeps it until the end, so commits of the same row follow each *)
(* other, but each writes what it computed from its own, earlier, load.    *)
(***************************************************************************)
EXTENDS Integers, Sequences, FiniteSets

CONSTANTS
    Sessions,    \* concurrent database sessions
    MaxEvents    \* bound on the status events of the work order

ASSUME MaxEventsAssumption == MaxEvents \in Nat

VARIABLES
    status,                  \* work_orders.status, "none" before the row exists
    paymentPlan,             \* payment_option_selected is in PAYMENT_PLAN_OPTIONS
    depositReceived,         \* work_orders.deposit_received
    authorizationConfirmed,  \* work_orders.authorization_confirmed
    workOrders,              \* rows of work_orders for the approved revision
    events,                  \* work_order_status_events in commit order
    invoices,                \* rows of invoices with this work_order_id
    req,                     \* the progress and the loaded copy of each session
    raced                    \* two requests have been in flight together (history)

flagVars == <<paymentPlan, depositReceived, authorizationConfirmed>>
vars == <<status, flagVars, workOrders, events, invoices, req, raced>>

Statuses == {"pending_requirements", "ready_to_schedule", "scheduled", "in_progress",
             "waiting_for_parts", "waiting_for_approval", "completed", "cancelled"}

\* The table TRANSITIONS.
Successors ==
    [current \in Statuses |->
        CASE current = "pending_requirements" -> {"ready_to_schedule", "cancelled"}
          [] current = "ready_to_schedule"    -> {"scheduled", "cancelled"}
          [] current = "scheduled"            -> {"in_progress", "cancelled"}
          [] current = "in_progress"          ->
                {"waiting_for_parts", "completed", "cancelled"}
          [] current = "waiting_for_parts"    -> {"in_progress", "cancelled"}
          [] OTHER                            -> {}]

Events == [from : Statuses \cup {"none"}, to : Statuses]

Points == {"idle", "create_commit", "patch_commit", "transition_commit",
           "complete_read", "complete_commit"}

\* want is the target of a transition, deposit and authorization the values a
\* PATCH assigns; the seen fields are the loaded row.
Requests == [pc : Points, want : Statuses \cup {"none"},
             deposit : BOOLEAN, authorization : BOOLEAN,
             seenStatus : Statuses \cup {"none"},
             seenDeposit : BOOLEAN, seenAuthorization : BOOLEAN]

Idle == [pc |-> "idle", want |-> "none", deposit |-> FALSE, authorization |-> FALSE,
         seenStatus |-> "none", seenDeposit |-> FALSE, seenAuthorization |-> FALSE]

-----------------------------------------------------------------------------
Init ==
    /\ status = "none"
    /\ paymentPlan \in BOOLEAN
    /\ depositReceived = FALSE
    /\ authorizationConfirmed = FALSE
    /\ workOrders = 0
    /\ events = <<>>
    /\ invoices = 0
    /\ req = [s \in Sessions |-> Idle]
    /\ raced = FALSE

Overlap(s) == raced' = (raced \/ \E t \in Sessions \ {s} : req[t].pc # "idle")

Loaded(point, want, deposit, authorization) ==
    [pc |-> point, want |-> want, deposit |-> deposit, authorization |-> authorization,
     seenStatus |-> status, seenDeposit |-> depositReceived,
     seenAuthorization |-> authorizationConfirmed]

Finish(s) == req' = [req EXCEPT ![s] = Idle]

ReadyRequirementsMet ==
    paymentPlan => depositReceived /\ authorizationConfirmed

AppendStatusEvent(from, to) == events' = Append(events, [from |-> from, to |-> to])

InitialStatus == IF paymentPlan THEN "pending_requirements" ELSE "ready_to_schedule"

-----------------------------------------------------------------------------
(* create_work_order_from_estimate                                         *)

CreateLoad(s) ==
    /\ req[s].pc = "idle"
    /\ workOrders = 0
    /\ req' = [req EXCEPT ![s] = Loaded("create_commit", "none", FALSE, FALSE)]
    /\ Overlap(s)
    /\ UNCHANGED <<status, flagVars, workOrders, events, invoices>>

CreateCommit(s) ==
    /\ req[s].pc = "create_commit"
    /\ workOrders = 0
    /\ workOrders' = 1
    /\ status' = InitialStatus
    /\ AppendStatusEvent("none", InitialStatus)
    /\ Finish(s)
    /\ UNCHANGED <<flagVars, invoices, raced>>

\* IntegrityError on the unique key: roll back and return the existing row.
CreateDuplicate(s) ==
    /\ req[s].pc = "create_commit"
    /\ workOrders > 0
    /\ Finish(s)
    /\ UNCHANGED <<status, flagVars, workOrders, events, invoices, raced>>

-----------------------------------------------------------------------------
(* update_work_order: an attribute the payload leaves alone keeps the       *)
(* loaded value, and only changed attributes are written.                   *)

PatchLoad(s) ==
    /\ req[s].pc = "idle"
    /\ workOrders > 0
    /\ \E d, a \in BOOLEAN :
          req' = [req EXCEPT ![s] = Loaded("patch_commit", "none", d, a)]
    /\ Overlap(s)
    /\ UNCHANGED <<status, flagVars, workOrders, events, invoices>>

Written(seen, new, stored) == IF new = seen THEN stored ELSE new

PatchCommit(s) ==
    /\ req[s].pc = "patch_commit"
    /\ depositReceived' = Written(req[s].seenDeposit, req[s].deposit, depositReceived)
    /\ authorizationConfirmed' = Written(req[s].seenAuthorization, req[s].authorization,
                                         authorizationConfirmed)
    /\ Finish(s)
    /\ UNCHANGED <<status, paymentPlan, workOrders, events, invoices, raced>>

-----------------------------------------------------------------------------
(* transition_work_order_status                                            *)

\* Mutant: any status is accepted as a target.
TransitionAllowedAny(want) ==
    /\ want \notin {status, "waiting_for_approval"}
    /\ status = "pending_requirements" /\ want = "ready_to_schedule"
          => ReadyRequirementsMet

TransitionAllowed(want) ==
    /\ want \in Successors[status]
    /\ want # "waiting_for_approval"
    /\ status = "pending_requirements" /\ want = "ready_to_schedule"
          => ReadyRequirementsMet

TransitionLoad(s) ==
    /\ req[s].pc = "idle"
    /\ workOrders > 0
    /\ Len(events) < MaxEvents
    /\ \E want \in Statuses :
          /\ TransitionAllowed(want)
          /\ req' = [req EXCEPT ![s] =
                        Loaded(IF want = "completed" THEN "complete_read"
                                                     ELSE "transition_commit",
                               want, FALSE, FALSE)]
    /\ Overlap(s)
    /\ UNCHANGED <<status, flagVars, workOrders, events, invoices>>

\* Mutant: the event is staged without the status.
TransitionCommitEventOnly(s) ==
    /\ req[s].pc = "transition_commit"
    /\ AppendStatusEvent(req[s].seenStatus, req[s].want)
    /\ Finish(s)
    /\ UNCHANGED <<status, flagVars, workOrders, invoices, raced>>

TransitionCommit(s) ==
    /\ req[s].pc = "transition_commit"
    /\ status' = req[s].want
    /\ AppendStatusEvent(req[s].seenStatus, req[s].want)
    /\ Finish(s)
    /\ UNCHANGED <<flagVars, workOrders, invoices, raced>>

\* ensure_draft_invoice_for_work_order finds an invoice and returns it without a
\* commit: the status change staged by the caller is lost with the session.
CompleteFindsInvoice(s) ==
    /\ req[s].pc = "complete_read"
    /\ invoices > 0
    /\ Finish(s)
    /\ UNCHANGED <<status, flagVars, workOrders, events, invoices, raced>>

CompleteRead(s) ==
    /\ req[s].pc = "complete_read"
    /\ invoices = 0
    /\ req' = [req EXCEPT ![s].pc = "complete_commit"]
    /\ UNCHANGED <<status, flagVars, workOrders, events, invoices, raced>>

\* Mutant: the status is committed before the invoice is created.
CompleteCommitStatusFirst(s) ==
    /\ req[s].pc = "complete_commit"
    /\ status' = "completed"
    /\ AppendStatusEvent(req[s].seenStatus, "completed")
    /\ req' = [req EXCEPT ![s].pc = "complete_read"]
    /\ UNCHANGED <<flagVars, workOrders, invoices, raced>>

\* The status, the event and the invoice are one flush and one commit.
CompleteCommit(s) ==
    /\ req[s].pc = "complete_commit"
    /\ invoices = 0
    /\ status' = "completed"
    /\ AppendStatusEvent(req[s].seenStatus, "completed")
    /\ invoices' = 1
    /\ Finish(s)
    /\ UNCHANGED <<flagVars, workOrders, raced>>

\* IntegrityError on uq_invoices_work_order: the rollback takes the status
\* change and the event with it, the existing invoice is returned.
CompleteDuplicate(s) ==
    /\ req[s].pc = "complete_commit"
    /\ invoices > 0
    /\ Finish(s)
    /\ UNCHANGED <<status, flagVars, workOrders, events, invoices, raced>>

-----------------------------------------------------------------------------
\* A database error or a lost connection rolls the transaction back.
Abort(s) ==
    /\ req[s].pc # "idle"
    /\ Finish(s)
    /\ UNCHANGED <<status, flagVars, workOrders, events, invoices, raced>>

Next ==
    \E s \in Sessions :
        \/ CreateLoad(s)     \/ CreateCommit(s)     \/ CreateDuplicate(s)
        \/ PatchLoad(s)      \/ PatchCommit(s)
        \/ TransitionLoad(s) \/ TransitionCommit(s)
        \/ CompleteFindsInvoice(s) \/ CompleteRead(s)
        \/ CompleteCommit(s) \/ CompleteDuplicate(s)
        \/ Abort(s)

Spec == Init /\ [][Next]_vars

-----------------------------------------------------------------------------
(* Properties                                                              *)

\* Every column and every loaded copy has its type.
TypeOK ==
    /\ status \in Statuses \cup {"none"}
    /\ paymentPlan \in BOOLEAN
    /\ depositReceived \in BOOLEAN
    /\ authorizationConfirmed \in BOOLEAN
    /\ workOrders \in Nat
    /\ events \in Seq(Events)
    /\ invoices \in Nat
    /\ req \in [Sessions -> Requests]

\* Idempotent conversion and idempotent invoicing: one work order for the
\* approved revision and one invoice for it, however many requests race.
OneWorkOrderOneInvoice == workOrders <= 1 /\ invoices <= 1

\* Completion is atomic with the draft invoice: no completed work order is
\* without one, whoever else completes, cancels or fails meanwhile.
CompletedHasInvoice == status = "completed" => invoices = 1

\* The approved revision becomes one work order, and its completion one invoice.
InvoicedOnce == OneWorkOrderOneInvoice /\ CompletedHasInvoice

\* The work order is invoiced for exactly one recorded completion: a second
\* completion, raced or repeated, leaves no event behind.
OneCompletionPerInvoice ==
    invoices = Cardinality({i \in DOMAIN events : events[i].to = "completed"})

\* The status column is where the audit trail ends.
StatusIsLastEvent ==
    status = IF events = <<>> THEN "none" ELSE events[Len(events)].to

\* A stored status only ever moves along TRANSITIONS, completed and cancelled are
\* final, and a payment-plan work order becomes schedulable only with its deposit
\* and authorization, as long as requests come one at a time: of two transitions
\* that loaded one status the later writes over the earlier, and a PATCH between
\* the check of the prerequisites and the commit is not seen.
StatusFollowsTransitions ==
    [][status # "none" /\ status' # status /\ ~raced
          => /\ status' \in Successors[status]
             /\ status' = "ready_to_schedule" => ReadyRequirementsMet]_vars

=============================================================================
