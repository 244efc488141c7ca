--------------------------- MODULE SquareInvoices ---------------------------
(***************************************************************************)
(* Sending one issued invoice to Square (square_store.py,                  *)
(* services/square.py): four calls, and the row is written only after the  *)
(* last.  No lock is held, any call may fail or its answer be lost, the    *)
(* push is tried again, two pushes run at once, and the shop takes         *)
(* payments of its own meanwhile, which a push does not look at.  Square   *)
(* keeps one object for each idempotency key.                              *)
(***************************************************************************)
EXTENDS Naturals, FiniteSets, Sequences

CONSTANTS Pushes,   \* requests that push or refresh at once
          MaxTries  \* bound: pushes begun

VARIABLES
    invoice,  \* [status, sq, square_status]: the row, sq = 0 while unsent
    customer, \* whether Square knows the customer's email
    orders,   \* at Square: the keys of the orders made
    bills,    \* at Square: key -> status of the invoice made under it
    push,     \* where each request is
    tries     \* counts towards MaxTries

pushVars == <<invoice, customer, orders, bills, push, tries>>

PushIdle == [at |-> "idle"]

\* Mutant: a key of each attempt's own.
KeyOfAttempt(attempt) == attempt

\* The keys are made of the invoice's number: the same at every attempt.
Key(attempt) == 1

\* _require_invoice, and the checks of the copy that was read.
BeginPush(r) ==
    /\ push[r] = PushIdle /\ tries < MaxTries
    /\ invoice.status \notin {"draft", "void"} /\ invoice.sq = 0
    /\ tries' = tries + 1
    /\ push' = [push EXCEPT ![r] = [at |-> "customer", key |-> Key(tries')]]
    /\ UNCHANGED <<invoice, customer, orders, bills>>

\* search_customer_by_email, and create_customer when there is none.
FindCustomer(r) ==
    /\ push[r].at = "customer"
    /\ customer' = TRUE
    /\ push' = [push EXCEPT ![r].at = "order"]
    /\ UNCHANGED <<invoice, orders, bills, tries>>

CreateOrder(r) ==
    /\ push[r].at = "order"
    /\ orders' = orders \cup {push[r].key}
    /\ push' = [push EXCEPT ![r].at = "invoice"]
    /\ UNCHANGED <<invoice, customer, bills, tries>>

\* create_invoice: a draft at Square, unless the key has one.
CreateBill(r) ==
    /\ push[r].at = "invoice" /\ push[r].key \in orders
    /\ bills' = IF push[r].key \in DOMAIN bills THEN bills
                ELSE [k \in DOMAIN bills \cup {push[r].key} |->
                         IF k \in DOMAIN bills THEN bills[k] ELSE "DRAFT"]
    /\ push' = [push EXCEPT ![r].at = "publish"]
    /\ UNCHANGED <<invoice, customer, orders, tries>>

\* publish_invoice: from then on the customer can pay it.
Publish(r) ==
    /\ push[r].at = "publish"
    /\ bills' = [bills EXCEPT ![push[r].key] = IF @ = "DRAFT" THEN "UNPAID" ELSE @]
    /\ push' = [push EXCEPT ![r] = [at |-> "record", key |-> @.key, says |-> bills'[@.key]]]
    /\ UNCHANGED <<invoice, customer, orders, tries>>

\* _apply_square_fields and the commit: what the last answer said, whatever became
\* of the row and at Square meanwhile.
RecordPush(r) ==
    /\ push[r].at = "record"
    /\ invoice' = [invoice EXCEPT !.sq = push[r].key,
                                  !.square_status = push[r].says]
    /\ push' = [push EXCEPT ![r] = PushIdle]
    /\ UNCHANGED <<customer, orders, bills, tries>>

\* A call fails, or took effect and its answer is lost, or the server stops.
PushFails(r) ==
    /\ push[r].at # "idle"
    /\ push' = [push EXCEPT ![r] = PushIdle]
    /\ UNCHANGED <<invoice, customer, orders, bills, tries>>

\* refresh_square_invoice: the row takes what Square says now.
RefreshBill(r) ==
    /\ push[r] = PushIdle /\ invoice.sq # 0
    /\ invoice' = [invoice EXCEPT !.square_status = bills[invoice.sq]]
    /\ UNCHANGED <<customer, orders, bills, push, tries>>

\* The customer pays at Square.
PaidAtSquare ==
    /\ \E k \in DOMAIN bills : bills[k] = "UNPAID" /\ bills' = [bills EXCEPT ![k] = "PAID"]
    /\ UNCHANGED <<invoice, customer, orders, push, tries>>

\* The shop issues the invoice, records a payment in full, or reverses it; nothing
\* makes an invoice void.
ShopBooks ==
    /\ \E move \in {<<"draft", "issued">>, <<"issued", "paid">>, <<"paid", "issued">>} :
          /\ invoice.status = move[1]
          /\ invoice' = [invoice EXCEPT !.status = move[2]]
    /\ UNCHANGED <<customer, orders, bills, push, tries>>

PushInit ==
    /\ invoice = [status |-> "draft", sq |-> 0, square_status |-> "none"]
    /\ customer \in BOOLEAN
    /\ orders = {}
    /\ bills = [k \in {} |-> "DRAFT"]
    /\ push = [r \in Pushes |-> PushIdle]
    /\ tries = 0

PushNext ==
    \/ \E r \in Pushes :
          \/ BeginPush(r) \/ FindCustomer(r) \/ CreateOrder(r) \/ CreateBill(r)
          \/ Publish(r) \/ RecordPush(r) \/ PushFails(r) \/ RefreshBill(r)
    \/ PaidAtSquare \/ ShopBooks

PushSpec == PushInit /\ [][PushNext]_pushVars

-----------------------------------------------------------------------------
\* The customer can pay at Square once: whatever failed and was tried again,
\* one invoice at most is published there, and an invoice the row names is
\* published ("a failure anywhere above leaves the invoice unpushed and safely
\* retryable", square_store.py:155).
PushedOnce ==
    /\ Cardinality({k \in DOMAIN bills : bills[k] # "DRAFT"}) <= 1
    /\ invoice.sq # 0 => /\ invoice.sq \in DOMAIN bills
                         /\ bills[invoice.sq] # "DRAFT"
                         /\ invoice.square_status # "DRAFT"
=============================================================================
