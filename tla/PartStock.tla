------------------------------ MODULE PartStock ------------------------------
(***************************************************************************)
(* The stock of one part: what technicians allocate to work orders, use    *)
(* and return (app/part_allocation_store.py), what the owner orders and    *)
(* receives (app/purchase_order_store.py) and what the owner counts        *)
(* (update_part of app/part_store.py).                                     *)
(*                                                                         *)
(* Allocating, using, returning and receiving lock their rows one by one   *)
(* and reload each row once it is locked.  Submitting, cancelling and      *)
(* counting load a row without a lock and write it at their commit, which  *)
(* waits for the lock of the row.                                          *)
(***************************************************************************)
EXTENDS Integers, Sequences, FiniteSets, FiniteSetsExt

CONSTANTS
    Sessions,       \* concurrent database sessions
    Allocations,    \* rows of part_allocations for the part
    Lines,          \* line items of the purchase order, all of the part
    Part, Order,    \* the rows of parts and purchase_orders
    Quantities,     \* the quantities requests ask for
    Counts,         \* the quantities the owner counts on the shelf
    Ordered,        \* quantity_ordered of every line
    InitialStock,   \* quantity_on_hand at the start
    MaxAllocated    \* bound on the units a request asks to allocate

ASSUME QuantitiesAssumption == Quantities \subseteq Nat \ {0}
ASSUME CountsAssumption == Counts \subseteq Nat
ASSUME OrderedAssumption == Ordered \in Nat \ {0}
ASSUME StockAssumption == InitialStock \in Nat /\ MaxAllocated \in Nat
ASSUME TablesAssumption == IsFiniteSet(Allocations) /\ IsFiniteSet(Lines)
ASSUME RowsAssumption ==
    /\ Part # Order
    /\ {Part, Order} \cap (Allocations \cup Lines) = {}
    /\ Allocations \cap Lines = {}

VARIABLES
    onHand,       \* parts.quantity_on_hand
    allocations,  \* the three quantities of each allocation
    logged,       \* the sums of quantity_delta in part_allocation_events
    received,     \* purchase_order_line_items.quantity_received
    receipts,     \* the sums of quantity_received in purchase_order_receipts
    orderStatus,  \* purchase_orders.status
    shortage,     \* the units overrides handed out beyond the stock (history)
    counted,      \* the corrections the owner's counts were meant to make (history)
    held,         \* the rows each session has locked
    req,          \* the progress and the loaded copies of each session
    raced         \* the unlocked operations that ran with another (history)

allocationVars == <<allocations, logged, shortage>>
orderVars == <<received, receipts, orderStatus>>
vars == <<onHand, allocationVars, orderVars, counted, held, req, raced>>

OrderStatuses == {"draft", "submitted", "partially_received", "received", "cancelled"}

\* The table TRANSITIONS.
Transitions ==
    [current \in OrderStatuses |->
        CASE current = "draft"     -> {"submitted", "cancelled"}
          [] current = "submitted" -> {"partially_received", "received", "cancelled"}
          [] current = "partially_received" -> {"received", "cancelled"}
          [] OTHER                 -> {}]

Amounts == [allocated : Nat, used : Nat, returned : Nat]
Zero == [allocated |-> 0, used |-> 0, returned |-> 0]

LockingOps == {"allocate", "use", "return", "receive"}
UnlockedOps == {"submit", "cancel", "count"}
Rows == Allocations \cup Lines \cup {Part, Order}

Requests == [op : LockingOps \cup UnlockedOps \cup {"idle"},
             row : Rows, quantity : Nat, locked : 0 .. 3,
             seenAmounts : Amounts, seenReceived : Nat, seenStock : Nat,
             seenStatus : OrderStatuses]

Idle == [op |-> "idle", row |-> Part, quantity |-> 0, locked |-> 0, seenAmounts |-> Zero,
         seenReceived |-> 0, seenStock |-> 0, seenStatus |-> "draft"]

Total(f) == MapThenSumSet(LAMBDA x : f[x], DOMAIN f)

-----------------------------------------------------------------------------
\* create_part_allocation moves no stock; create_purchase_order makes a draft.
Init ==
    /\ onHand = InitialStock
    /\ allocations = [a \in Allocations |-> Zero]
    /\ logged = [a \in Allocations |-> Zero]
    /\ received = [l \in Lines |-> 0]
    /\ receipts = [l \in Lines |-> 0]
    /\ orderStatus = "draft"
    /\ shortage = 0
    /\ counted = 0
    /\ held = [s \in Sessions |-> {}]
    /\ req = [s \in Sessions |-> Idle]
    /\ raced = {}

Free(row) == \A s \in Sessions : row \notin held[s]

\* The loads before the first lock.
Loaded(op, row, quantity) ==
    [op |-> op, row |-> row, quantity |-> quantity, locked |-> 0,
     seenAmounts |-> IF row \in Allocations THEN allocations[row] ELSE Zero,
     seenReceived |-> IF row \in Lines THEN received[row] ELSE 0,
     seenStock |-> onHand, seenStatus |-> orderStatus]

Begin(s, op, row, quantity) ==
    LET others == {req[t].op : t \in Sessions \ {s}} \ {"idle"}
    IN  /\ req[s].op = "idle"
        /\ req' = [req EXCEPT ![s] = Loaded(op, row, quantity)]
        /\ raced' = IF others = {} THEN raced
                    ELSE raced \cup (({op} \cup others) \cap UnlockedOps)
        /\ UNCHANGED <<onHand, allocationVars, orderVars, counted, held>>

\* The end of the transaction releases its locks.
Finish(s) ==
    /\ req' = [req EXCEPT ![s] = Idle]
    /\ held' = [held EXCEPT ![s] = {}]

-----------------------------------------------------------------------------
(* allocate_part, use_part_allocation, return_part_allocation and           *)
(* receive_purchase_order_line_item: locks                                  *)

\* Mutant: a return locks the part before the allocation.
RouteReturnReversed(op, row) ==
    CASE op = "use"      -> <<row>>
      [] op = "allocate" -> <<row, Part>>
      [] op = "return"   -> <<Part, row>>
      [] OTHER           -> <<Order, row, Part>>

\* The rows an operation locks, in order.
Route(op, row) ==
    CASE op = "use"                  -> <<row>>
      [] op \in {"allocate", "return"} -> <<row, Part>>
      [] OTHER                       -> <<Order, row, Part>>

RowsToLock(s) == Route(req[s].op, req[s].row)

AllLocked(s) == /\ req[s].op \in LockingOps
                /\ req[s].locked = Len(RowsToLock(s))

AllocationBegin(s) ==
    \E a \in Allocations, q \in Quantities :
        \/ /\ allocations[a].allocated + q <= MaxAllocated
           /\ Begin(s, "allocate", a, q)
        \/ Begin(s, "use", a, q)
        \/ Begin(s, "return", a, q)

ReceiveBegin(s) == \E l \in Lines, q \in Quantities : Begin(s, "receive", l, q)

\* The order may receive, and the line has the quantity left.
Receivable(s) ==
    /\ req[s].seenStatus \in {"submitted", "partially_received"}
    /\ req[s].quantity <= Ordered - req[s].seenReceived

\* Receiving checks once order and line are locked, before it locks the part.
CheckedBeforePart(s) == req[s].op = "receive" /\ req[s].locked = 2

\* Mutant: FOR UPDATE without populate_existing keeps the copies loaded before
\* the lock.
RefreshedNever(s, row) == [req[s] EXCEPT !.locked = @ + 1]

\* populate_existing reloads the row that was locked; the status of the order is
\* refreshed after the line is locked.
Refreshed(s, row) ==
    [req[s] EXCEPT
        !.locked = @ + 1,
        !.seenAmounts = IF row \in Allocations THEN allocations[row] ELSE @,
        !.seenReceived = IF row \in Lines THEN received[row] ELSE @,
        !.seenStatus = IF row \in Lines THEN orderStatus ELSE @,
        !.seenStock = IF row = Part THEN onHand ELSE @]

\* Mutant: SELECT without FOR UPDATE.
LockNoLock(s) ==
    /\ req[s].op \in LockingOps
    /\ ~AllLocked(s)
    /\ CheckedBeforePart(s) => Receivable(s)
    /\ LET row == RowsToLock(s)[req[s].locked + 1]
       IN  req' = [req EXCEPT ![s] = Refreshed(s, row)]
    /\ UNCHANGED <<onHand, allocationVars, orderVars, counted, held, raced>>

Lock(s) ==
    /\ req[s].op \in LockingOps
    /\ ~AllLocked(s)
    /\ CheckedBeforePart(s) => Receivable(s)
    /\ LET row == RowsToLock(s)[req[s].locked + 1]
       IN  /\ Free(row)
           /\ held' = [held EXCEPT ![s] = @ \cup {row}]
           /\ req' = [req EXCEPT ![s] = Refreshed(s, row)]
    /\ UNCHANGED <<onHand, allocationVars, orderVars, counted, raced>>

-----------------------------------------------------------------------------
(* ... and their checks and commits                                         *)

Usable(s) == req[s].seenAmounts.allocated - req[s].seenAmounts.used

Returnable(s) == Usable(s) - req[s].seenAmounts.returned

\* ck_part_allocations_returned_le_used
ReturnStorable(s) ==
    req[s].seenAmounts.returned + req[s].quantity <= req[s].seenAmounts.used

\* The request is refused: an error of the store, or a CHECK of the database.
\* An allocation beyond the stock is refused unless its payload overrides.
Refuse(s) ==
    /\ \/ CheckedBeforePart(s) /\ ~Receivable(s)
       \/ /\ AllLocked(s)
          /\ \/ req[s].op = "allocate" /\ req[s].quantity > req[s].seenStock
             \/ req[s].op = "use" /\ req[s].quantity > Usable(s)
             \/ /\ req[s].op = "return"
                /\ req[s].quantity > Returnable(s) \/ ~ReturnStorable(s)
    /\ Finish(s)
    /\ UNCHANGED <<onHand, allocationVars, orderVars, counted, raced>>

\* An override leaves nothing, never less.
StockLeft(stock, quantity) == IF quantity > stock THEN 0 ELSE stock - quantity

AllocateCommit(s) ==
    LET a == req[s].row
        q == req[s].quantity
    IN  /\ req[s].op = "allocate" /\ AllLocked(s)
        /\ onHand' = StockLeft(req[s].seenStock, q)
        /\ shortage' = shortage + (q - (req[s].seenStock - onHand'))
        /\ allocations' = [allocations EXCEPT ![a].allocated =
                                                req[s].seenAmounts.allocated + q]
        /\ logged' = [logged EXCEPT ![a].allocated = @ + q]
        /\ Finish(s)
        /\ UNCHANGED <<orderVars, counted, raced>>

UseCommit(s) ==
    LET a == req[s].row
        q == req[s].quantity
    IN  /\ req[s].op = "use" /\ AllLocked(s)
        /\ q <= Usable(s)
        /\ allocations' = [allocations EXCEPT ![a].used = req[s].seenAmounts.used + q]
        /\ logged' = [logged EXCEPT ![a].used = @ + q]
        /\ Finish(s)
        /\ UNCHANGED <<onHand, shortage, orderVars, counted, raced>>

ReturnCommit(s) ==
    LET a == req[s].row
        q == req[s].quantity
    IN  /\ req[s].op = "return" /\ AllLocked(s)
        /\ q <= Returnable(s)
        /\ ReturnStorable(s)
        /\ allocations' = [allocations EXCEPT ![a].returned =
                                                req[s].seenAmounts.returned + q]
        /\ onHand' = req[s].seenStock + q
        /\ logged' = [logged EXCEPT ![a].returned = @ + q]
        /\ Finish(s)
        /\ UNCHANGED <<shortage, orderVars, counted, raced>>

\* Mutant: the order is received as soon as one line is.
StatusAfterReceiptOneLine(lines) ==
    IF \E l \in Lines : lines[l] >= Ordered THEN "received"
    ELSE IF orderStatus = "submitted" THEN "partially_received" ELSE orderStatus

\* The status is refreshed after the flush, under the lock of the order.
StatusAfterReceipt(lines) ==
    IF \A l \in Lines : lines[l] >= Ordered THEN "received"
    ELSE IF orderStatus = "submitted" THEN "partially_received" ELSE orderStatus

ReceiveCommit(s) ==
    LET l == req[s].row
        q == req[s].quantity
    IN  /\ req[s].op = "receive" /\ AllLocked(s)
        /\ received' = [received EXCEPT ![l] = req[s].seenReceived + q]
        /\ onHand' = req[s].seenStock + q
        /\ receipts' = [receipts EXCEPT ![l] = @ + q]
        /\ orderStatus' = StatusAfterReceipt(received')
        /\ Finish(s)
        /\ UNCHANGED <<allocationVars, counted, raced>>

-----------------------------------------------------------------------------
(* submit_purchase_order, cancel_purchase_order                            *)

TransitionBegin(s) ==
    \/ "submitted" \in Transitions[orderStatus] /\ Begin(s, "submit", Order, 0)
    \/ "cancelled" \in Transitions[orderStatus] /\ Begin(s, "cancel", Order, 0)

TransitionCommit(s) ==
    /\ req[s].op \in {"submit", "cancel"}
    /\ Free(Order)
    /\ orderStatus' = IF req[s].op = "submit" THEN "submitted" ELSE "cancelled"
    /\ Finish(s)
    /\ UNCHANGED <<onHand, allocationVars, received, receipts, counted, raced>>

-----------------------------------------------------------------------------
(* update_part with a quantity_on_hand                                      *)

CountBegin(s) == \E n \in Counts : Begin(s, "count", Part, n)

\* The UPDATE is left out when the count equals the loaded quantity.
CountCommit(s) ==
    /\ req[s].op = "count"
    /\ Free(Part)
    /\ onHand' = IF req[s].quantity = req[s].seenStock THEN onHand ELSE req[s].quantity
    /\ counted' = counted + (req[s].quantity - req[s].seenStock)
    /\ Finish(s)
    /\ UNCHANGED <<allocationVars, orderVars, raced>>

-----------------------------------------------------------------------------
\* A database error or a lost connection rolls the transaction back.
Abort(s) ==
    /\ req[s].op # "idle"
    /\ Finish(s)
    /\ UNCHANGED <<onHand, allocationVars, orderVars, counted, raced>>

Next ==
    \E s \in Sessions :
        \/ AllocationBegin(s) \/ ReceiveBegin(s)
        \/ TransitionBegin(s) \/ CountBegin(s)
        \/ Lock(s) \/ Refuse(s)
        \/ AllocateCommit(s) \/ UseCommit(s) \/ ReturnCommit(s) \/ ReceiveCommit(s)
        \/ TransitionCommit(s) \/ CountCommit(s)
        \/ Abort(s)

Spec == Init /\ [][Next]_vars

-----------------------------------------------------------------------------
(* Properties                                                              *)

\* Every column and every loaded copy has its type; the stock is never negative.
TypeOK ==
    /\ onHand \in Nat
    /\ allocations \in [Allocations -> Amounts]
    /\ logged \in [Allocations -> Amounts]
    /\ received \in [Lines -> 0 .. Ordered]
    /\ receipts \in [Lines -> Nat]
    /\ orderStatus \in OrderStatuses
    /\ shortage \in Nat
    /\ counted \in Int
    /\ held \in [Sessions -> SUBSET Rows]
    /\ req \in [Sessions -> Requests]

\* No unit is lost or made up: the stock is what was there and what was
\* received, less what allocations hold, but for overrides and recounts; unless
\* the owner counted while another request was moving stock.
StockConserved ==
    "count" \notin raced =>
        onHand = InitialStock + Total(received) + shortage + counted
                 - Total([a \in Allocations |->
                            allocations[a].allocated - allocations[a].returned])

\* The quantities of an allocation are the sums of its append-only events, and
\* the quantity received on a line the sum of its receipts.
QuantitiesMatchHistory == allocations = logged /\ received = receipts

\* The status of the order says how much of it has arrived, however many
\* receipts race, unless the order was submitted or cancelled meanwhile.
StatusMatchesReceipts ==
    raced \subseteq {"count"} =>
        /\ orderStatus \in {"draft", "submitted"} => \A l \in Lines : received[l] = 0
        /\ orderStatus = "partially_received" =>
              /\ \E l \in Lines : received[l] > 0
              /\ \E l \in Lines : received[l] < Ordered
        /\ orderStatus = "received" => \A l \in Lines : received[l] = Ordered

\* The row a request needs next.
Awaited(s) == IF req[s].op \in LockingOps /\ ~AllLocked(s)
              THEN {RowsToLock(s)[req[s].locked + 1]} ELSE {}

\* No two requests wait for each other: every operation locks its rows in an
\* order the others share.
NoMutualWait ==
    \A s, t \in Sessions :
        s # t => Awaited(s) \cap held[t] = {} \/ Awaited(t) \cap held[s] = {}

=============================================================================
