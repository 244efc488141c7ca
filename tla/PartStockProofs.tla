-------------------------- MODULE PartStockProofs --------------------------
(***************************************************************************)
(* Proofs about PartStock for any sessions, allocations, lines and         *)
(* quantities.                                                             *)
(*                                                                         *)
(* Requests cannot wait for each other because every operation takes its   *)
(* locks in ascending Rank (LocksAscend).  The quantities written at a     *)
(* commit are right because a copy that was reloaded under its lock is     *)
(* current until the lock is released (Fresh), which the operations that   *)
(* take no lock respect by waiting for it.  What these operations loaded   *)
(* is current as long as nobody raced them (Alone).  From both follow what *)
(* the status of an order says of its receipts, and, summed over all lines *)
(* and allocations, the balance of the stock.                              *)
(***************************************************************************)
EXTENDS PartStock, SumTheorems, FiniteSetTheorems, TLAPS

\* The order in which rows are locked.
Rank(row) == IF row = Order THEN 1 ELSE IF row = Part THEN 3 ELSE 2

\* A session holds the rows it has locked so far, of a row of the right table.
LocksOf(s) ==
    /\ req[s].op \in {"allocate", "use", "return"} => req[s].row \in Allocations
    /\ req[s].op = "receive" => req[s].row \in Lines
    /\ req[s].op \in LockingOps =>
          /\ req[s].locked <= Len(RowsToLock(s))
          /\ held[s] = {RowsToLock(s)[i] : i \in 1 .. req[s].locked}
    /\ req[s].op \notin LockingOps => held[s] = {}

\* What a session has reloaded under a lock is what is stored, and a receipt
\* that has locked the part fits its line.
FreshFor(s) ==
    /\ req[s].row \in held[s] \cap Allocations =>
          req[s].seenAmounts = allocations[req[s].row]
    /\ req[s].row \in held[s] \cap Lines => req[s].seenReceived = received[req[s].row]
    /\ Part \in held[s] => req[s].seenStock = onHand
    /\ req[s].op = "receive" /\ req[s].locked = 3 =>
          req[s].quantity <= Ordered - req[s].seenReceived

LocksSound == \A s \in Sessions : LocksOf(s)

Exclusive == \A s, t \in Sessions : s # t => held[s] \cap held[t] = {}

Fresh == \A s \in Sessions : FreshFor(s)

IInv ==
    /\ TypeOK
    /\ QuantitiesMatchHistory
    /\ LocksSound
    /\ Exclusive
    /\ Fresh

-----------------------------------------------------------------------------
(* The order of the locks                                                  *)

\* The rows of an operation are ranked in the order they are locked.
LEMMA RouteRanked ==
    ASSUME NEW op \in LockingOps, NEW row \in Allocations \cup Lines
    PROVE  /\ Len(Route(op, row)) \in 1 .. 3
           /\ \A i \in 1 .. Len(Route(op, row)) : Route(op, row)[i] \in Rows
           /\ \A i, j \in 1 .. Len(Route(op, row)) :
                 i < j => Rank(Route(op, row)[i]) < Rank(Route(op, row)[j])
<1>1. Rank(row) = 2 /\ Rank(Order) = 1 /\ Rank(Part) = 3
  BY RowsAssumption DEF Rank
<1>2. {row, Order, Part} \subseteq Rows
  BY DEF Rows
<1>3. CASE op = "use"
  <2>1. Route(op, row) = <<row>>
    BY <1>3 DEF Route
  <2> QED
    BY <1>1, <1>2, <2>1
<1>4. CASE op \in {"allocate", "return"}
  <2>1. Route(op, row) = <<row, Part>>
    BY <1>4 DEF Route
  <2> QED
    BY <1>1, <1>2, <2>1
<1>5. CASE op = "receive"
  <2>1. Route(op, row) = <<Order, row, Part>>
    BY <1>5 DEF Route
  <2> QED
    BY <1>1, <1>2, <2>1
<1> QED
  BY <1>3, <1>4, <1>5 DEF LockingOps

\* What a session waits for ranks above everything it holds.
LEMMA LocksAscend ==
    ASSUME TypeOK, LocksSound, NEW s \in Sessions, NEW wanted \in Awaited(s),
           NEW row \in held[s]
    PROVE  Rank(row) < Rank(wanted)
<1>1. /\ req[s].op \in LockingOps
      /\ ~AllLocked(s)
      /\ wanted = RowsToLock(s)[req[s].locked + 1]
  BY DEF Awaited
<1>2. /\ req[s].row \in Allocations \cup Lines
      /\ req[s].locked <= Len(RowsToLock(s))
      /\ held[s] = {RowsToLock(s)[i] : i \in 1 .. req[s].locked}
  BY <1>1 DEF LocksSound, LocksOf, LockingOps
<1>3. req[s].locked \in 0 .. 3
  BY DEF TypeOK, Requests
<1>4. Len(RowsToLock(s)) \in 1 .. 3
  BY <1>1, <1>2, RouteRanked DEF RowsToLock
<1>5. req[s].locked + 1 \in 1 .. Len(RowsToLock(s))
  BY <1>1, <1>2, <1>3, <1>4 DEF AllLocked
<1>6. PICK i \in 1 .. req[s].locked : row = RowsToLock(s)[i]
  BY <1>2
<1>7. i \in 1 .. Len(RowsToLock(s)) /\ i < req[s].locked + 1
  BY <1>3, <1>4, <1>5, <1>6
<1> QED
  BY <1>1, <1>2, <1>5, <1>6, <1>7, RouteRanked DEF RowsToLock

\* Hence no two sessions wait for each other.
LEMMA AscendingIsDeadlockFree ==
    ASSUME TypeOK, LocksSound
    PROVE  NoMutualWait
<1> SUFFICES ASSUME NEW s \in Sessions, NEW t \in Sessions,
                    NEW a \in Awaited(s) \cap held[t], NEW b \in Awaited(t) \cap held[s]
             PROVE  FALSE
  BY DEF NoMutualWait
<1>1. Rank(b) < Rank(a) /\ Rank(a) < Rank(b)
  BY LocksAscend
<1>2. Rank(a) \in Nat /\ Rank(b) \in Nat
  BY DEF Rank
<1> QED
  BY <1>1, <1>2

-----------------------------------------------------------------------------
(* Steps of a session                                                      *)

LEMMA IdleRequest ==
    /\ Idle \in Requests
    /\ Idle.op = "idle"
    /\ Idle.op \notin LockingOps
BY DEF Idle, Requests, LockingOps, Zero, Amounts, OrderStatuses, Rows

\* A session that ends keeps the locks of the others; what it wrote must be
\* rows they do not hold.
LEMMA FinishStep ==
    ASSUME IInv, NEW s \in Sessions, Finish(s),
           onHand' # onHand => \A t \in Sessions \ {s} : Part \notin held[t],
           \A t \in Sessions \ {s} : \A a \in held[t] \cap Allocations :
              allocations'[a] = allocations[a],
           \A t \in Sessions \ {s} : \A l \in held[t] \cap Lines : received'[l] = received[l]
    PROVE  /\ held' \in [Sessions -> SUBSET Rows]
           /\ req' \in [Sessions -> Requests]
           /\ LocksSound' /\ Exclusive' /\ Fresh'
<1>1. /\ held \in [Sessions -> SUBSET Rows]
      /\ req \in [Sessions -> Requests]
  BY DEF IInv, TypeOK
<1>2. /\ held' \in [Sessions -> SUBSET Rows]
      /\ req' \in [Sessions -> Requests]
  BY <1>1, IdleRequest DEF Finish
<1>3. \A t \in Sessions : /\ held'[t] = IF t = s THEN {} ELSE held[t]
                          /\ req'[t] = IF t = s THEN Idle ELSE req[t]
  BY <1>1 DEF Finish
<1>4. Exclusive'
  BY <1>3 DEF IInv, Exclusive
<1>5. ASSUME NEW t \in Sessions PROVE LocksOf(t)'
  <2>1. CASE t = s
    BY <1>3, <2>1, IdleRequest DEF LocksOf, Idle
  <2>2. CASE t # s
    BY <1>3, <2>2 DEF IInv, LocksSound, LocksOf, RowsToLock
  <2> QED
    BY <2>1, <2>2
<1>6. ASSUME NEW t \in Sessions PROVE FreshFor(t)'
  <2>1. CASE t = s
    BY <1>3, <2>1, IdleRequest DEF FreshFor, Idle
  <2>2. CASE t # s
    <3>1. held'[t] = held[t] /\ req'[t] = req[t] /\ FreshFor(t)
      BY <1>3, <2>2 DEF IInv, Fresh
    <3> QED
      BY <2>2, <3>1 DEF FreshFor
  <2> QED
    BY <2>1, <2>2
<1> QED
  BY <1>2, <1>4, <1>5, <1>6 DEF LocksSound, Fresh

\* A request begins with nothing locked.
LEMMA BeginStep ==
    ASSUME IInv, NEW s \in Sessions, NEW op \in LockingOps \cup UnlockedOps,
           NEW row \in Rows, NEW quantity \in Nat, Begin(s, op, row, quantity),
           op \in {"allocate", "use", "return"} => row \in Allocations,
           op = "receive" => row \in Lines
    PROVE  IInv'
<1> DEFINE r == Loaded(op, row, quantity)
<1>1. r \in Requests
  <2>1. r.seenAmounts \in Amounts
    BY DEF Loaded, IInv, TypeOK, Amounts, Zero
  <2>2. r.seenReceived \in Nat
    BY OrderedAssumption DEF Loaded, IInv, TypeOK
  <2> QED
    BY <2>1, <2>2 DEF Loaded, Requests, IInv, TypeOK
<1>2. /\ req' = [req EXCEPT ![s] = r]
      /\ UNCHANGED <<onHand, allocationVars, orderVars, counted, held>>
      /\ req[s].op = "idle"
  BY DEF Begin
<1>3. r.op = op /\ r.row = row /\ r.locked = 0
  BY DEF Loaded
<1>4. held[s] = {}
  BY <1>2 DEF IInv, LocksSound, LocksOf, LockingOps
<1> HIDE DEF r
<1>5. TypeOK'
  BY <1>1, <1>2 DEF IInv, TypeOK, allocationVars, orderVars
<1>6. \A t \in Sessions : req'[t] = IF t = s THEN r ELSE req[t]
  BY <1>2 DEF IInv, TypeOK
<1>7. ASSUME NEW t \in Sessions PROVE LocksOf(t)'
  <2>1. CASE t = s
    <3>1. op \in LockingOps => 0 <= Len(Route(op, row))
      BY RouteRanked DEF LockingOps
    <3> QED
      BY <1>2, <1>3, <1>4, <1>6, <2>1, <3>1 DEF LocksOf, RowsToLock
  <2>2. CASE t # s
    BY <1>2, <1>6, <2>2 DEF IInv, LocksSound, LocksOf, RowsToLock
  <2> QED
    BY <2>1, <2>2
<1>8. ASSUME NEW t \in Sessions PROVE FreshFor(t)'
  <2>1. CASE t = s
    BY <1>2, <1>3, <1>4, <1>6, <2>1 DEF FreshFor
  <2>2. CASE t # s
    BY <1>2, <1>6, <2>2 DEF IInv, Fresh, FreshFor, allocationVars, orderVars
  <2> QED
    BY <2>1, <2>2
<1> QED
  BY <1>2, <1>5, <1>7, <1>8
     DEF IInv, QuantitiesMatchHistory, LocksSound, Exclusive, Fresh, allocationVars, orderVars

\* The rows of an operation: its own, the part unless it uses, the order when it
\* receives; its own row comes before the part.
LEMMA RouteRows ==
    ASSUME NEW op \in LockingOps, NEW row \in Rows
    PROVE  /\ {Route(op, row)[i] : i \in 1 .. Len(Route(op, row))} =
                 IF op = "use" THEN {row}
                 ELSE IF op = "receive" THEN {Order, row, Part} ELSE {row, Part}
           /\ op = "receive" => Len(Route(op, row)) = 3 /\ Route(op, row)[3] = Part
<1>1. CASE op = "use"
  <2>1. Route(op, row) = <<row>>
    BY <1>1 DEF Route
  <2> QED
    BY <1>1, <2>1
<1>2. CASE op \in {"allocate", "return"}
  <2>1. Route(op, row) = <<row, Part>>
    BY <1>2 DEF Route
  <2>2. {<<row, Part>>[i] : i \in 1 .. 2} = {row, Part}
    OBVIOUS
  <2> QED
    BY <1>2, <2>1, <2>2
<1>3. CASE op = "receive"
  <2>1. Route(op, row) = <<Order, row, Part>>
    BY <1>3 DEF Route
  <2>2. {<<Order, row, Part>>[i] : i \in 1 .. 3} = {Order, row, Part}
    OBVIOUS
  <2> QED
    BY <1>3, <2>1, <2>2
<1> QED
  BY <1>1, <1>2, <1>3 DEF LockingOps

\* A session that has locked everything holds the rows it writes.
LEMMA AllLockedHolds ==
    ASSUME IInv, NEW s \in Sessions, AllLocked(s)
    PROVE  /\ req[s].row \in held[s]
           /\ req[s].op \in {"allocate", "use", "return"} => req[s].row \in Allocations
           /\ req[s].op = "receive" => req[s].row \in Lines /\ req[s].locked = 3
           /\ req[s].op # "use" => Part \in held[s]
<1>1. /\ req[s].op \in LockingOps
      /\ req[s].locked = Len(RowsToLock(s))
      /\ req[s].row \in Rows
  BY DEF AllLocked, IInv, TypeOK, Requests
<1>2. LocksOf(s)
  BY DEF IInv, LocksSound
<1>3. held[s] = {RowsToLock(s)[i] : i \in 1 .. Len(RowsToLock(s))}
  BY <1>1, <1>2 DEF LocksOf
<1>4. {Route(req[s].op, req[s].row)[i] : i \in 1 .. Len(Route(req[s].op, req[s].row))} =
         IF req[s].op = "use" THEN {req[s].row}
         ELSE IF req[s].op = "receive" THEN {Order, req[s].row, Part} ELSE {req[s].row, Part}
  BY <1>1, RouteRows
<1>5. req[s].op = "receive" => req[s].locked = 3
  BY <1>1, RouteRows DEF RowsToLock
<1> QED
  BY <1>2, <1>3, <1>4, <1>5 DEF RowsToLock, LocksOf

LEMMA LockStep ==
    ASSUME IInv, NEW s \in Sessions, Lock(s)
    PROVE  IInv'
<1> DEFINE route == RowsToLock(s)
           n     == req[s].locked + 1
           row   == route[n]
           r     == Refreshed(s, row)
<1>1. /\ TypeOK /\ req[s] \in Requests /\ req[s].op \in LockingOps
      /\ LocksOf(s) /\ FreshFor(s)
  BY DEF IInv, TypeOK, LocksSound, Fresh, Lock
<1>2. req[s].row \in Allocations \cup Lines /\ req[s].row \in Rows
  BY <1>1 DEF LocksOf, LockingOps, Requests
<1>3. Len(route) \in 1 .. 3 /\ \A i \in 1 .. Len(route) : route[i] \in Rows
  BY <1>1, <1>2, RouteRanked DEF RowsToLock
<1>4. n \in 1 .. Len(route)
  BY <1>1, <1>3 DEF Lock, AllLocked, LocksOf, Requests
<1>5. row \in Rows /\ row \in {req[s].row, Part, Order}
  <2>1. route[n] \in {route[i] : i \in 1 .. Len(route)}
    BY <1>4
  <2>2. {route[i] : i \in 1 .. Len(route)} =
           IF req[s].op = "use" THEN {req[s].row}
           ELSE IF req[s].op = "receive" THEN {Order, req[s].row, Part}
           ELSE {req[s].row, Part}
    BY <1>1, <1>2, RouteRows DEF RowsToLock
  <2> HIDE DEF route, n
  <2>3. route[n] \in {req[s].row, Part, Order}
    BY <2>1, <2>2
  <2> QED
    BY <1>3, <1>4, <2>3
<1>6. req[s].op = "receive" /\ n = 3 => row = Part
  BY <1>1, <1>2, RouteRows DEF RowsToLock
<1>7. /\ \A t \in Sessions : row \notin held[t]
      /\ held' = [held EXCEPT ![s] = @ \cup {row}]
      /\ req' = [req EXCEPT ![s] = r]
      /\ UNCHANGED <<onHand, allocationVars, orderVars, counted>>
  BY DEF Lock, Free
<1>8. /\ r.op = req[s].op /\ r.row = req[s].row /\ r.quantity = req[s].quantity
      /\ r.locked = n
      /\ r.seenAmounts = IF row \in Allocations THEN allocations[row] ELSE req[s].seenAmounts
      /\ r.seenReceived = IF row \in Lines THEN received[row] ELSE req[s].seenReceived
      /\ r.seenStock = IF row = Part THEN onHand ELSE req[s].seenStock
  <2> HIDE DEF row
  <2> QED
    BY <1>1 DEF Refreshed, Requests
<1>9. r \in Requests
  <2>1. n \in 0 .. 3
    BY <1>3, <1>4
  <2>2. r.seenAmounts \in Amounts /\ r.seenStock \in Nat /\ r.seenReceived \in Nat
    BY <1>1, <1>8, OrderedAssumption DEF Requests, TypeOK
  <2>3. r.seenStatus \in OrderStatuses
    BY <1>1 DEF Refreshed, Requests, TypeOK
  <2> HIDE DEF row
  <2> QED
    BY <1>1, <1>8, <2>1, <2>2, <2>3 DEF Refreshed, Requests
<1>10. held[s] = {route[i] : i \in 1 .. req[s].locked}
  BY <1>1 DEF LocksOf
<1>11. held[s] \cup {row} = {route[i] : i \in 1 .. n}
  BY <1>1, <1>10 DEF Requests
<1> HIDE DEF row, r, n
<1>12. \A t \in Sessions : /\ held'[t] = IF t = s THEN held[s] \cup {row} ELSE held[t]
                           /\ req'[t] = IF t = s THEN r ELSE req[t]
  BY <1>1, <1>7 DEF TypeOK
<1>13. TypeOK'
  BY <1>1, <1>5, <1>7, <1>9 DEF TypeOK, allocationVars, orderVars
<1>14. Exclusive'
  BY <1>7, <1>12 DEF IInv, Exclusive
<1>15. ASSUME NEW t \in Sessions PROVE LocksOf(t)'
  <2>1. CASE t = s
    <3>1. RowsToLock(s)' = route
      BY <1>8, <1>12 DEF RowsToLock
    <3>2. n <= Len(route)
      BY <1>3, <1>4
    <3> HIDE DEF route
    <3> QED
      BY <1>1, <1>8, <1>11, <1>12, <2>1, <3>1, <3>2 DEF LocksOf
  <2>2. CASE t # s
    BY <1>12, <2>2 DEF IInv, LocksSound, LocksOf, RowsToLock
  <2> QED
    BY <2>1, <2>2
<1>16. ASSUME NEW t \in Sessions PROVE FreshFor(t)'
  <2>1. CASE t = s
    <3>1. /\ row \in Allocations \cup Lines => row = req[s].row
          /\ row \in Allocations => row \notin Lines
          /\ Part \notin Allocations \cup Lines
      BY <1>5, RowsAssumption
    <3>2. req[s].op = "receive" /\ n = 3 =>
             /\ req[s].quantity <= Ordered - req[s].seenReceived
             /\ row \notin Lines
      <4>1. req[s].op = "receive" /\ n = 3 => CheckedBeforePart(s)
        BY <1>1 DEF CheckedBeforePart, n, Requests
      <4> QED
        BY <1>6, <3>1, <4>1 DEF Lock, Receivable
    <3> QED
      BY <1>1, <1>7, <1>8, <1>12, <2>1, <3>1, <3>2
         DEF FreshFor, allocationVars, orderVars
  <2>2. CASE t # s
    BY <1>7, <1>12, <2>2 DEF IInv, Fresh, FreshFor, allocationVars, orderVars
  <2> QED
    BY <2>1, <2>2
<1> QED
  BY <1>7, <1>13, <1>14, <1>15, <1>16
     DEF IInv, QuantitiesMatchHistory, LocksSound, Fresh, allocationVars, orderVars

-----------------------------------------------------------------------------
(* The commits                                                             *)

\* Nobody else holds a row the session holds.
LEMMA HeldAlone ==
    ASSUME IInv, NEW s \in Sessions, NEW row \in held[s]
    PROVE  \A t \in Sessions \ {s} : row \notin held[t]
BY DEF IInv, Exclusive

LEMMA AllocateCommitStep ==
    ASSUME IInv, NEW s \in Sessions, AllocateCommit(s)
    PROVE  IInv'
<1> DEFINE a == req[s].row
           q == req[s].quantity
<1>1. /\ TypeOK /\ QuantitiesMatchHistory /\ FreshFor(s)
      /\ a \in Allocations /\ a \in held[s] /\ Part \in held[s] /\ q \in Nat
  BY AllLockedHolds DEF AllocateCommit, IInv, Fresh, TypeOK, Requests
<1>2. req[s].seenAmounts = allocations[a] /\ req[s].seenStock = onHand
  BY <1>1 DEF FreshFor
<1>3. allocations[a] \in Amounts /\ allocations[a].allocated \in Nat
  BY <1>1 DEF TypeOK, Amounts
<1>4. onHand' \in Nat /\ shortage' \in Nat
  BY <1>1, <1>2 DEF AllocateCommit, StockLeft, TypeOK
<1>5. /\ allocations' = [allocations EXCEPT ![a].allocated = allocations[a].allocated + q]
      /\ logged' = allocations'
  BY <1>1, <1>2 DEF AllocateCommit, QuantitiesMatchHistory
<1>6. allocations' \in [Allocations -> Amounts]
  BY <1>1, <1>3, <1>5 DEF TypeOK, Amounts
<1>7. \A b \in Allocations \ {a} : allocations'[b] = allocations[b]
  BY <1>1, <1>5 DEF TypeOK
<1>8. UNCHANGED <<orderVars, counted>> /\ Finish(s)
  BY DEF AllocateCommit
<1>9. /\ held' \in [Sessions -> SUBSET Rows]
      /\ req' \in [Sessions -> Requests]
      /\ LocksSound' /\ Exclusive' /\ Fresh'
  BY <1>1, <1>7, <1>8, HeldAlone, FinishStep DEF orderVars
<1> QED
  BY <1>1, <1>4, <1>5, <1>6, <1>8, <1>9
     DEF IInv, TypeOK, QuantitiesMatchHistory, orderVars

LEMMA UseCommitStep ==
    ASSUME IInv, NEW s \in Sessions, UseCommit(s)
    PROVE  IInv'
<1> DEFINE a == req[s].row
           q == req[s].quantity
<1>1. /\ TypeOK /\ QuantitiesMatchHistory /\ FreshFor(s)
      /\ a \in Allocations /\ a \in held[s] /\ q \in Nat
  BY AllLockedHolds DEF UseCommit, IInv, Fresh, TypeOK, Requests
<1>2. req[s].seenAmounts = allocations[a]
  BY <1>1 DEF FreshFor
<1>3. allocations[a] \in Amounts /\ allocations[a].used \in Nat
  BY <1>1 DEF TypeOK, Amounts
<1>4. /\ allocations' = [allocations EXCEPT ![a].used = allocations[a].used + q]
      /\ logged' = allocations'
  BY <1>1, <1>2 DEF UseCommit, QuantitiesMatchHistory
<1>5. allocations' \in [Allocations -> Amounts]
  BY <1>1, <1>3, <1>4 DEF TypeOK, Amounts
<1>6. \A b \in Allocations \ {a} : allocations'[b] = allocations[b]
  BY <1>1, <1>4 DEF TypeOK
<1>7. UNCHANGED <<onHand, shortage, orderVars, counted>> /\ Finish(s)
  BY DEF UseCommit
<1>8. /\ held' \in [Sessions -> SUBSET Rows]
      /\ req' \in [Sessions -> Requests]
      /\ LocksSound' /\ Exclusive' /\ Fresh'
  BY <1>1, <1>6, <1>7, HeldAlone, FinishStep DEF orderVars
<1> QED
  BY <1>1, <1>4, <1>5, <1>7, <1>8 DEF IInv, TypeOK, QuantitiesMatchHistory, orderVars

LEMMA ReturnCommitStep ==
    ASSUME IInv, NEW s \in Sessions, ReturnCommit(s)
    PROVE  IInv'
<1> DEFINE a == req[s].row
           q == req[s].quantity
<1>1. /\ TypeOK /\ QuantitiesMatchHistory /\ FreshFor(s)
      /\ a \in Allocations /\ a \in held[s] /\ Part \in held[s] /\ q \in Nat
  BY AllLockedHolds DEF ReturnCommit, IInv, Fresh, TypeOK, Requests
<1>2. req[s].seenAmounts = allocations[a] /\ req[s].seenStock = onHand
  BY <1>1 DEF FreshFor
<1>3. allocations[a] \in Amounts /\ allocations[a].returned \in Nat
  BY <1>1 DEF TypeOK, Amounts
<1>4. onHand' \in Nat
  BY <1>1, <1>2 DEF ReturnCommit, TypeOK
<1>5. /\ allocations' = [allocations EXCEPT ![a].returned = allocations[a].returned + q]
      /\ logged' = allocations'
  BY <1>1, <1>2 DEF ReturnCommit, QuantitiesMatchHistory
<1>6. allocations' \in [Allocations -> Amounts]
  BY <1>1, <1>3, <1>5 DEF TypeOK, Amounts
<1>7. \A b \in Allocations \ {a} : allocations'[b] = allocations[b]
  BY <1>1, <1>5 DEF TypeOK
<1>8. UNCHANGED <<shortage, orderVars, counted>> /\ Finish(s)
  BY DEF ReturnCommit
<1>9. /\ held' \in [Sessions -> SUBSET Rows]
      /\ req' \in [Sessions -> Requests]
      /\ LocksSound' /\ Exclusive' /\ Fresh'
  BY <1>1, <1>7, <1>8, HeldAlone, FinishStep DEF orderVars
<1> QED
  BY <1>1, <1>4, <1>5, <1>6, <1>8, <1>9
     DEF IInv, TypeOK, QuantitiesMatchHistory, orderVars

LEMMA ReceiveCommitStep ==
    ASSUME IInv, NEW s \in Sessions, ReceiveCommit(s)
    PROVE  IInv'
<1> DEFINE l == req[s].row
           q == req[s].quantity
<1>1. /\ TypeOK /\ QuantitiesMatchHistory /\ FreshFor(s)
      /\ l \in Lines /\ l \in held[s] /\ Part \in held[s] /\ q \in Nat
      /\ req[s].op = "receive" /\ req[s].locked = 3
  BY AllLockedHolds DEF ReceiveCommit, IInv, Fresh, TypeOK, Requests
<1>2. /\ req[s].seenReceived = received[l]
      /\ req[s].seenStock = onHand
      /\ q <= Ordered - received[l]
  BY <1>1 DEF FreshFor
<1>3. received[l] \in 0 .. Ordered /\ onHand' \in Nat
  BY <1>1, <1>2 DEF ReceiveCommit, TypeOK
<1>4. /\ received' = [received EXCEPT ![l] = received[l] + q]
      /\ receipts' = received'
  BY <1>1, <1>2 DEF ReceiveCommit, QuantitiesMatchHistory
<1>5. received[l] + q \in 0 .. Ordered
  BY <1>1, <1>2, <1>3, OrderedAssumption
<1>6. received' \in [Lines -> 0 .. Ordered] /\ receipts' \in [Lines -> Nat]
  BY <1>1, <1>4, <1>5, OrderedAssumption DEF TypeOK
<1>7. \A m \in Lines \ {l} : received'[m] = received[m]
  BY <1>1, <1>4 DEF TypeOK
<1>8. orderStatus' \in OrderStatuses
  BY <1>1 DEF ReceiveCommit, StatusAfterReceipt, TypeOK, OrderStatuses
<1>9. UNCHANGED <<allocationVars, counted>> /\ Finish(s)
  BY DEF ReceiveCommit
<1>10. /\ held' \in [Sessions -> SUBSET Rows]
       /\ req' \in [Sessions -> Requests]
       /\ LocksSound' /\ Exclusive' /\ Fresh'
  BY <1>1, <1>7, <1>9, HeldAlone, FinishStep DEF allocationVars
<1> QED
  BY <1>1, <1>3, <1>4, <1>6, <1>8, <1>9, <1>10
     DEF IInv, TypeOK, QuantitiesMatchHistory, allocationVars

\* The operations without locks write a row nobody holds.
LEMMA UnlockedCommitStep ==
    ASSUME IInv, NEW s \in Sessions, TransitionCommit(s) \/ CountCommit(s)
    PROVE  IInv'
<1>1. /\ TypeOK /\ req[s] \in Requests
      /\ Finish(s) /\ UNCHANGED <<allocationVars, received, receipts>>
  BY DEF IInv, TypeOK, TransitionCommit, CountCommit, orderVars
<1>2. onHand' # onHand => \A t \in Sessions : Part \notin held[t]
  BY DEF TransitionCommit, CountCommit, Free
<1>3. onHand' \in Nat /\ orderStatus' \in OrderStatuses /\ counted' \in Int
  BY <1>1 DEF TransitionCommit, CountCommit, TypeOK, Requests, OrderStatuses, orderVars
<1>4. /\ held' \in [Sessions -> SUBSET Rows]
      /\ req' \in [Sessions -> Requests]
      /\ LocksSound' /\ Exclusive' /\ Fresh'
  BY <1>1, <1>2, FinishStep DEF allocationVars
<1> QED
  BY <1>1, <1>3, <1>4 DEF IInv, TypeOK, QuantitiesMatchHistory, allocationVars

\* A refused or aborted request writes nothing.
LEMMA QuietEndStep ==
    ASSUME IInv, NEW s \in Sessions, Refuse(s) \/ Abort(s)
    PROVE  IInv'
<1>1. Finish(s) /\ UNCHANGED <<onHand, allocationVars, orderVars, counted>>
  BY DEF Refuse, Abort
<1>2. /\ held' \in [Sessions -> SUBSET Rows]
      /\ req' \in [Sessions -> Requests]
      /\ LocksSound' /\ Exclusive' /\ Fresh'
  BY <1>1, FinishStep DEF allocationVars, orderVars
<1> QED
  BY <1>1, <1>2 DEF IInv, TypeOK, QuantitiesMatchHistory, allocationVars, orderVars

-----------------------------------------------------------------------------
(* The invariant                                                           *)

LEMMA InitIInv == Init => IInv
<1> SUFFICES ASSUME Init PROVE IInv
  OBVIOUS
<1>1. TypeOK
  <2>1. Zero \in Amounts
    BY DEF Zero, Amounts
  <2>2. /\ received \in [Lines -> 0 .. Ordered]
        /\ receipts \in [Lines -> Nat]
    BY OrderedAssumption DEF Init
  <2>3. /\ req \in [Sessions -> Requests]
        /\ held \in [Sessions -> SUBSET Rows]
    BY IdleRequest DEF Init
  <2> QED
    BY <2>1, <2>2, <2>3, StockAssumption DEF Init, TypeOK, OrderStatuses
<1>2. LocksSound
  BY IdleRequest DEF Init, LocksSound, LocksOf, Idle
<1>3. Fresh
  BY IdleRequest DEF Init, Fresh, FreshFor, Idle
<1> QED
  BY <1>1, <1>2, <1>3 DEF Init, IInv, QuantitiesMatchHistory, Exclusive

\* Every step keeps the invariant.
LEMMA NextIInv == IInv /\ [Next]_vars => IInv'
<1> SUFFICES ASSUME IInv, [Next]_vars PROVE IInv'
  OBVIOUS
<1> USE DEF LockingOps, UnlockedOps
<1>1. /\ Quantities \subseteq Nat /\ Counts \subseteq Nat /\ 0 \in Nat
      /\ Allocations \cup Lines \cup {Part, Order} = Rows
  BY QuantitiesAssumption, CountsAssumption DEF Rows
<1>2. ASSUME NEW s \in Sessions, AllocationBegin(s) PROVE IInv'
  <2>1. PICK a \in Allocations, q \in Quantities, op \in {"allocate", "use", "return"} :
           Begin(s, op, a, q)
    BY <1>2 DEF AllocationBegin
  <2> QED
    BY <1>1, <2>1, BeginStep
<1>3. ASSUME NEW s \in Sessions, ReceiveBegin(s) PROVE IInv'
  BY <1>1, <1>3, BeginStep DEF ReceiveBegin
<1>4. ASSUME NEW s \in Sessions, TransitionBegin(s) PROVE IInv'
  <2>1. PICK op \in {"submit", "cancel"} : Begin(s, op, Order, 0)
    BY <1>4 DEF TransitionBegin
  <2> QED
    BY <1>1, <2>1, BeginStep
<1>5. ASSUME NEW s \in Sessions, CountBegin(s) PROVE IInv'
  BY <1>1, <1>5, BeginStep DEF CountBegin
<1>6. CASE UNCHANGED vars
  BY <1>6 DEF vars, allocationVars, orderVars, IInv, TypeOK, QuantitiesMatchHistory,
              LocksSound, LocksOf, RowsToLock, Exclusive, Fresh, FreshFor
<1> QED
  BY <1>2, <1>3, <1>4, <1>5, <1>6, LockStep, QuietEndStep, AllocateCommitStep,
     UseCommitStep, ReturnCommitStep, ReceiveCommitStep, UnlockedCommitStep
     DEF Next

-----------------------------------------------------------------------------
\* The columns and the loaded copies keep their types: the stock is never
\* negative and no line receives more than was ordered, however many requests race.
THEOREM TypeCorrect == Spec => []TypeOK
<1>1. IInv => TypeOK
  BY DEF IInv
<1> QED
  BY <1>1, InitIInv, NextIInv, PTL DEF Spec

\* No quantity and no event is lost: allocations are the sums of their events and
\* received quantities the sums of their receipts.
THEOREM QuantitiesMatchHistoryTheorem == Spec => []QuantitiesMatchHistory
<1>1. IInv => QuantitiesMatchHistory
  BY DEF IInv
<1> QED
  BY <1>1, InitIInv, NextIInv, PTL DEF Spec

\* No two requests wait for each other's locks.
THEOREM NoMutualWaitTheorem == Spec => []NoMutualWait
<1>1. IInv => NoMutualWait
  BY AscendingIsDeadlockFree DEF IInv
<1> QED
  BY <1>1, InitIInv, NextIInv, PTL DEF Spec

-----------------------------------------------------------------------------
(* Races: what an operation that takes no lock may rely on                  *)

\* An unlocked operation that no other request raced has been alone since it
\* loaded its row, so that what it loaded is what is stored.
Alone ==
    \A s \in Sessions : req[s].op \in UnlockedOps \ raced =>
        /\ \A t \in Sessions \ {s} : req[t].op = "idle"
        /\ req[s].op = "count" => req[s].seenStock = onHand
        /\ req[s].op = "submit" => orderStatus = "draft"

\* A receipt that has locked its line knows the status of the order, and has
\* found that the order may receive once it has locked the part.
OrderKnown ==
    \A s \in Sessions : req[s].op = "receive" =>
        /\ req[s].quantity > 0
        /\ req[s].locked >= 2 => req[s].seenStatus = orderStatus
        /\ req[s].locked = 3 => req[s].seenStatus \in {"submitted", "partially_received"}

RaceInv == Alone /\ OrderKnown

\* A receipt holds the order from its first lock on.
LEMMA HoldsOrder ==
    ASSUME IInv, NEW s \in Sessions, req[s].op = "receive", req[s].locked >= 2
    PROVE  Order \in held[s] /\ req[s].row \in Lines
<1>1. LocksOf(s) /\ req[s].locked \in 0 .. 3
  BY DEF IInv, LocksSound, TypeOK, Requests
<1>2. held[s] = {RowsToLock(s)[i] : i \in 1 .. req[s].locked} /\ req[s].row \in Lines
  BY <1>1 DEF LocksOf, LockingOps
<1>3. RowsToLock(s) = <<Order, req[s].row, Part>>
  BY DEF RowsToLock, Route
<1>4. RowsToLock(s)[1] = Order /\ 1 \in 1 .. req[s].locked
  BY <1>1, <1>3
<1> QED BY <1>2, <1>4

\* What a session that ends, or locks a row, leaves of the races.
LEMMA AloneActs ==
    ASSUME IInv, Alone, NEW s \in Sessions, req[s].op # "idle", raced' = raced,
           req' \in [Sessions -> Requests],
           \A t \in Sessions \ {s} : req'[t] = req[t],
           req'[s].op = "idle" \/ req'[s].op \in LockingOps
    PROVE  Alone'
<1>1. ASSUME NEW t \in Sessions PROVE req'[t].op \notin UnlockedOps \ raced'
  <2>1. CASE t = s BY <2>1 DEF LockingOps, UnlockedOps
  <2>2. CASE t # s
    <3>1. req'[t] = req[t] BY <2>2
    <3>2. req[t].op \notin UnlockedOps \ raced BY <2>2 DEF Alone
    <3> QED BY <3>1, <3>2
  <2> QED BY <2>1, <2>2
<1> QED BY <1>1 DEF Alone

\* A session that ends leaves what others know of the order, unless it writes the
\* status of the order, which nobody else holds then.
LEMMA OrderActs ==
    ASSUME IInv, OrderKnown, NEW s \in Sessions, Finish(s),
           orderStatus' # orderStatus => \A t \in Sessions \ {s} : Order \notin held[t]
    PROVE  OrderKnown'
<1>1. \A t \in Sessions : req'[t] = IF t = s THEN Idle ELSE req[t]
  BY DEF Finish, IInv, TypeOK
<1>2. ASSUME NEW t \in Sessions, req'[t].op = "receive"
      PROVE  /\ req'[t].quantity > 0
             /\ req'[t].locked >= 2 => req'[t].seenStatus = orderStatus'
             /\ req'[t].locked = 3 => req'[t].seenStatus \in {"submitted", "partially_received"}
  <2>1. t # s /\ req'[t] = req[t] /\ req[t].op = "receive"
    BY <1>1, <1>2, IdleRequest
  <2>2. req[t].locked >= 2 => Order \in held[t]
    BY <2>1, HoldsOrder
  <2> QED BY <2>1, <2>2 DEF OrderKnown
<1> QED BY <1>2 DEF OrderKnown

LEMMA RaceEnds ==
    ASSUME IInv, RaceInv, NEW s \in Sessions, Finish(s), req[s].op # "idle", raced' = raced,
           orderStatus' # orderStatus => \A t \in Sessions \ {s} : Order \notin held[t]
    PROVE  RaceInv'
<1>1. req' \in [Sessions -> Requests] /\ \A t \in Sessions \ {s} : req'[t] = req[t]
  BY IdleRequest DEF Finish, IInv, TypeOK
<1>2. req'[s].op = "idle"
  BY IdleRequest DEF Finish, IInv, TypeOK
<1>3. Alone' BY <1>1, <1>2, AloneActs DEF RaceInv
<1>4. OrderKnown' BY OrderActs DEF RaceInv
<1> QED BY <1>3, <1>4 DEF RaceInv

LEMMA RaceBegins ==
    ASSUME IInv, RaceInv, NEW s \in Sessions, NEW op \in LockingOps \cup UnlockedOps,
           NEW row, NEW quantity, Begin(s, op, row, quantity),
           op = "submit" => orderStatus = "draft", op = "receive" => quantity > 0
    PROVE  RaceInv'
<1> DEFINE others == {req[t].op : t \in Sessions \ {s}} \ {"idle"}
           r == Loaded(op, row, quantity)
<1>1. /\ req[s].op = "idle" /\ req' = [req EXCEPT ![s] = r]
      /\ raced' = IF others = {} THEN raced ELSE raced \cup (({op} \cup others) \cap UnlockedOps)
      /\ UNCHANGED <<onHand, orderStatus>>
  BY DEF Begin, orderVars
<1>2. \A t \in Sessions : req'[t] = IF t = s THEN r ELSE req[t]
  BY <1>1 DEF IInv, TypeOK
<1>3. r.op = op /\ r.locked = 0 /\ r.quantity = quantity /\ r.seenStock = onHand
  BY DEF Loaded
<1> HIDE DEF r
<1>4. ASSUME NEW t \in Sessions, req'[t].op \in UnlockedOps \ raced'
      PROVE  /\ \A u \in Sessions \ {t} : req'[u].op = "idle"
             /\ req'[t].op = "count" => req'[t].seenStock = onHand'
             /\ req'[t].op = "submit" => orderStatus' = "draft"
  <2>1. CASE t = s
    <3>1. others = {}
      <4>1. op \in UnlockedOps \ raced' BY <1>2, <1>3, <1>4, <2>1
      <4> HIDE DEF others
      <4> QED BY <1>1, <4>1
    <3>2. \A u \in Sessions \ {s} : req[u].op = "idle" BY <3>1
    <3> QED BY <1>1, <1>2, <1>3, <2>1, <3>2
  <2>2. CASE t # s
    <3>1. req'[t] = req[t] BY <1>2, <2>2
    <3>2. req[t].op # "idle" BY <1>4, <3>1 DEF UnlockedOps
    <3>3. req[t].op \in others BY <2>2, <3>2
    <3> HIDE DEF others
    <3>4. req[t].op \in raced' BY <1>1, <1>4, <3>1, <3>3
    <3> QED BY <1>4, <3>1, <3>4
  <2> QED BY <2>1, <2>2
<1>5. OrderKnown'
  BY <1>1, <1>2, <1>3 DEF RaceInv, OrderKnown
<1> QED BY <1>4, <1>5 DEF RaceInv, Alone

LEMMA RaceLocks ==
    ASSUME IInv, RaceInv, NEW s \in Sessions, Lock(s)
    PROVE  RaceInv'
<1> DEFINE row == RowsToLock(s)[req[s].locked + 1]
           r == Refreshed(s, row)
<1>1. /\ req[s].op \in LockingOps /\ req' = [req EXCEPT ![s] = r]
      /\ UNCHANGED <<onHand, orderStatus, raced>> /\ ~AllLocked(s)
      /\ CheckedBeforePart(s) => Receivable(s)
  BY DEF Lock, orderVars
<1>2. req[s] \in Requests /\ req[s].locked \in 0 .. 3 /\ LocksOf(s)
  BY DEF IInv, TypeOK, Requests, LocksSound
<1>3. /\ r.op = req[s].op /\ r.quantity = req[s].quantity /\ r.locked = req[s].locked + 1
      /\ r.seenStatus = IF row \in Lines THEN orderStatus ELSE req[s].seenStatus
  <2> HIDE DEF row
  <2> QED BY <1>2 DEF Refreshed, Requests
<1>4. IInv' /\ req' \in [Sessions -> Requests]
  BY LockStep DEF IInv, TypeOK
<1> HIDE DEF r
<1>5. \A t \in Sessions : req'[t] = IF t = s THEN r ELSE req[t]
  BY <1>1 DEF IInv, TypeOK
<1>6. Alone'
  <2>1. req[s].op # "idle" BY <1>1 DEF LockingOps
  <2>2. req'[s].op \in LockingOps BY <1>1, <1>3, <1>5
  <2> QED BY <1>1, <1>4, <1>5, <2>1, <2>2, AloneActs DEF RaceInv
<1>7. ASSUME req[s].op = "receive"
      PROVE  /\ r.quantity > 0
             /\ r.locked >= 2 => r.seenStatus = orderStatus
             /\ r.locked = 3 => r.seenStatus \in {"submitted", "partially_received"}
  <2> HIDE DEF row
  <2>1. /\ req[s].quantity > 0
        /\ req[s].locked >= 2 => req[s].seenStatus = orderStatus
        /\ req[s].locked \in {0, 1, 2, 3}
    BY <1>2, <1>7 DEF RaceInv, OrderKnown
  <2>2. RowsToLock(s) = <<Order, req[s].row, Part>> /\ req[s].row \in Lines
    BY <1>2, <1>7 DEF RowsToLock, Route, LocksOf
  <2>3. CASE req[s].locked = 1
    <3>1. row = req[s].row BY <2>2, <2>3 DEF row
    <3> QED BY <1>3, <2>1, <2>2, <2>3, <3>1
  <2>4. CASE req[s].locked = 2
    <3>1. row = Part /\ Part \notin Lines BY <2>2, <2>4, RowsAssumption DEF row
    <3>2. Receivable(s) BY <1>1, <1>7, <2>4 DEF CheckedBeforePart
    <3> QED BY <1>3, <2>1, <2>4, <3>1, <3>2 DEF Receivable
  <2>5. CASE req[s].locked = 0
    BY <1>3, <2>1, <2>5
  <2>6. req[s].locked # 3
    BY <1>1, <1>7, <2>2 DEF AllLocked
  <2> QED BY <1>2, <2>3, <2>4, <2>5, <2>6
<1>8. OrderKnown'
  BY <1>1, <1>3, <1>5, <1>7 DEF RaceInv, OrderKnown
<1> QED BY <1>6, <1>8 DEF RaceInv

\* A session that ends without writing the order.
LEMMA RaceQuietEnds ==
    ASSUME IInv, RaceInv, NEW s \in Sessions,
           \/ Refuse(s) \/ Abort(s) \/ CountCommit(s)
           \/ AllocateCommit(s) \/ UseCommit(s) \/ ReturnCommit(s)
    PROVE  RaceInv' /\ UNCHANGED <<orderVars, raced>>
<1>1. Finish(s) /\ UNCHANGED <<orderVars, raced>>
  BY DEF Refuse, Abort, CountCommit, AllocateCommit, UseCommit, ReturnCommit
<1>2. req[s].op # "idle"
  BY DEF Refuse, Abort, CountCommit, AllocateCommit, UseCommit, ReturnCommit,
         CheckedBeforePart, AllLocked, LockingOps
<1>3. orderStatus' = orderStatus /\ raced' = raced
  BY <1>1 DEF orderVars
<1>4. RaceInv'
  BY <1>1, <1>2, <1>3, RaceEnds
<1> QED BY <1>1, <1>4

\* A request that begins adds to the races and writes nothing.
LEMMA RaceAnyBegins ==
    ASSUME IInv, RaceInv, NEW s \in Sessions,
           AllocationBegin(s) \/ ReceiveBegin(s) \/ TransitionBegin(s) \/ CountBegin(s)
    PROVE  /\ RaceInv' /\ raced \subseteq raced'
           /\ UNCHANGED <<onHand, allocationVars, orderVars, counted>>
<1>1. PICK op \in LockingOps \cup UnlockedOps, row \in Rows, q \in Nat :
         /\ Begin(s, op, row, q)
         /\ op = "submit" => orderStatus = "draft"
         /\ op = "receive" => q > 0
  <2>1. CASE AllocationBegin(s)
    <3>1. PICK a \in Allocations, q \in Quantities, op \in {"allocate", "use", "return"} :
             Begin(s, op, a, q)
      BY <2>1 DEF AllocationBegin
    <3>2. a \in Rows /\ q \in Nat /\ op \in LockingOps
      BY QuantitiesAssumption DEF Rows, LockingOps
    <3> QED BY <3>1, <3>2
  <2>2. CASE ReceiveBegin(s)
    <3>1. PICK l \in Lines, q \in Quantities : Begin(s, "receive", l, q)
      BY <2>2 DEF ReceiveBegin
    <3>2. l \in Rows /\ q \in Nat /\ q > 0 /\ "receive" \in LockingOps
      BY QuantitiesAssumption DEF Rows, LockingOps
    <3> QED BY <3>1, <3>2
  <2>3. CASE TransitionBegin(s)
    <3>1. PICK op \in {"submit", "cancel"} :
             Begin(s, op, Order, 0) /\ (op = "submit" => "submitted" \in Transitions[orderStatus])
      BY <2>3 DEF TransitionBegin
    <3>2. orderStatus \in OrderStatuses
      BY DEF IInv, TypeOK
    <3>3. "submitted" \in Transitions[orderStatus] => orderStatus = "draft"
      BY <3>2 DEF Transitions, OrderStatuses
    <3>4. Order \in Rows /\ op \in UnlockedOps /\ 0 \in Nat /\ op # "receive"
      BY DEF Rows, UnlockedOps
    <3> QED BY <3>1, <3>3, <3>4
  <2>4. CASE CountBegin(s)
    <3>1. PICK n \in Counts : Begin(s, "count", Part, n)
      BY <2>4 DEF CountBegin
    <3>2. Part \in Rows /\ n \in Nat /\ "count" \in UnlockedOps
      BY CountsAssumption DEF Rows, UnlockedOps
    <3> QED BY <3>1, <3>2
  <2> QED BY <2>1, <2>2, <2>3, <2>4
<1>2. RaceInv'
  BY <1>1, RaceBegins
<1>3. raced \subseteq raced' /\ UNCHANGED <<onHand, allocationVars, orderVars, counted>>
  BY <1>1 DEF Begin
<1> QED BY <1>2, <1>3

\* A receipt that commits knows the order and holds it alone.
LEMMA ReceiptKnowsOrder ==
    ASSUME IInv, RaceInv, NEW s \in Sessions, ReceiveCommit(s)
    PROVE  /\ req[s].row \in Lines /\ req[s].quantity \in Nat \ {0}
           /\ orderStatus \in {"submitted", "partially_received"}
           /\ req[s].seenReceived = received[req[s].row]
           /\ req[s].seenStock = onHand
           /\ \A t \in Sessions \ {s} : Order \notin held[t]
<1>1. req[s].op = "receive" /\ AllLocked(s) /\ req[s] \in Requests /\ FreshFor(s)
  BY DEF ReceiveCommit, IInv, TypeOK, Fresh
<1>2. req[s].row \in Lines /\ req[s].row \in held[s] /\ Part \in held[s] /\ req[s].locked = 3
  BY <1>1, AllLockedHolds
<1>3. Order \in held[s]
  BY <1>1, <1>2, HoldsOrder
<1>4. /\ req[s].quantity > 0 /\ req[s].seenStatus = orderStatus
      /\ req[s].seenStatus \in {"submitted", "partially_received"}
  BY <1>1, <1>2 DEF RaceInv, OrderKnown
<1> QED
  BY <1>1, <1>2, <1>3, <1>4, HeldAlone DEF FreshFor, Requests

LEMMA RaceInit == Init => RaceInv
  BY IdleRequest DEF Init, RaceInv, Alone, OrderKnown, Idle, UnlockedOps

LEMMA RaceNext ==
    ASSUME IInv, RaceInv, [Next]_vars
    PROVE  RaceInv' /\ raced \subseteq raced'
<1>1. ASSUME NEW s \in Sessions, Lock(s) PROVE RaceInv' /\ raced' = raced
  BY <1>1, RaceLocks DEF Lock
<1>2. ASSUME NEW s \in Sessions, ReceiveCommit(s) PROVE RaceInv' /\ raced' = raced
  <2>1. Finish(s) /\ raced' = raced /\ req[s].op # "idle"
    BY <1>2 DEF ReceiveCommit
  <2> QED BY <1>2, <2>1, ReceiptKnowsOrder, RaceEnds
<1>3. ASSUME NEW s \in Sessions, TransitionCommit(s) PROVE RaceInv' /\ raced' = raced
  <2>1. Finish(s) /\ raced' = raced /\ req[s].op # "idle" /\ Free(Order)
    BY <1>3 DEF TransitionCommit
  <2> QED BY <2>1, RaceEnds DEF Free
<1>4. CASE UNCHANGED vars
  BY <1>4 DEF vars, orderVars, RaceInv, Alone, OrderKnown
<1>5. ASSUME NEW s \in Sessions,
             \/ Refuse(s) \/ Abort(s) \/ CountCommit(s)
             \/ AllocateCommit(s) \/ UseCommit(s) \/ ReturnCommit(s)
      PROVE  RaceInv' /\ raced' = raced
  BY <1>5, RaceQuietEnds
<1> QED
  BY <1>1, <1>2, <1>3, <1>4, <1>5, RaceAnyBegins DEF Next

\* A step leaves the order as it says, unless an operation on it was raced.
LEMMA StatusNext ==
    ASSUME IInv, RaceInv, StatusMatchesReceipts, [Next]_vars
    PROVE  StatusMatchesReceipts'
<1>0. SUFFICES ASSUME raced' \subseteq {"count"} PROVE StatusMatchesReceipts'
  BY DEF StatusMatchesReceipts
<1>1. raced \subseteq {"count"}
  BY <1>0, RaceNext
<1>2. /\ received \in [Lines -> 0 .. Ordered] /\ orderStatus \in OrderStatuses
      /\ received' \in [Lines -> 0 .. Ordered]
  BY NextIInv DEF IInv, TypeOK
<1>3. CASE UNCHANGED orderVars
  BY <1>1, <1>3 DEF StatusMatchesReceipts, orderVars
<1>4. ASSUME NEW s \in Sessions, TransitionCommit(s) PROVE StatusMatchesReceipts'
  <2>1. /\ received' = received
        /\ req[s].op \in {"submit", "cancel"}
        /\ orderStatus' = IF req[s].op = "submit" THEN "submitted" ELSE "cancelled"
    BY <1>4 DEF TransitionCommit
  <2>2. CASE req[s].op = "submit"
    <3>1. orderStatus = "draft"
      BY <1>1, <2>2 DEF RaceInv, Alone, UnlockedOps
    <3> QED BY <1>1, <2>1, <2>2, <3>1 DEF StatusMatchesReceipts
  <2>3. CASE req[s].op = "cancel"
    BY <2>1, <2>3 DEF StatusMatchesReceipts
  <2> QED BY <2>1, <2>2, <2>3
<1>5. ASSUME NEW s \in Sessions, ReceiveCommit(s) PROVE StatusMatchesReceipts'
  <2> DEFINE l == req[s].row
             q == req[s].quantity
  <2>1. /\ l \in Lines /\ q \in Nat \ {0} /\ req[s].seenReceived = received[l]
        /\ orderStatus \in {"submitted", "partially_received"}
    BY <1>5, ReceiptKnowsOrder
  <2>2. /\ received' = [received EXCEPT ![l] = req[s].seenReceived + q]
        /\ orderStatus' = StatusAfterReceipt(received')
    BY <1>5 DEF ReceiveCommit
  <2> HIDE DEF l, q
  <2>3. received'[l] > 0
    BY <1>2, <2>1, <2>2
  <2>4. CASE \A m \in Lines : received'[m] >= Ordered
    <3>1. orderStatus' = "received" BY <2>2, <2>4 DEF StatusAfterReceipt
    <3>2. \A m \in Lines : received'[m] = Ordered BY <1>2, <2>4, OrderedAssumption
    <3> QED BY <3>1, <3>2 DEF StatusMatchesReceipts
  <2>5. CASE \E m \in Lines : ~(received'[m] >= Ordered)
    <3>1. orderStatus' = "partially_received" BY <2>1, <2>2, <2>5 DEF StatusAfterReceipt
    <3>2. \E m \in Lines : received'[m] < Ordered BY <1>2, <2>5, OrderedAssumption
    <3> QED BY <2>1, <2>3, <3>1, <3>2 DEF StatusMatchesReceipts
  <2> QED BY <2>4, <2>5
<1>6. ASSUME NEW s \in Sessions,
             \/ Refuse(s) \/ Abort(s) \/ CountCommit(s)
             \/ AllocateCommit(s) \/ UseCommit(s) \/ ReturnCommit(s)
      PROVE  UNCHANGED orderVars
  BY <1>6, RaceQuietEnds
<1>7. ASSUME NEW s \in Sessions, Lock(s) PROVE UNCHANGED orderVars
  BY <1>7 DEF Lock
<1>8. CASE UNCHANGED vars
  BY <1>3, <1>8 DEF vars
<1> QED
  BY <1>3, <1>4, <1>5, <1>6, <1>7, <1>8, RaceAnyBegins DEF Next

\* The status of a purchase order says how much of it has arrived, however many
\* receipts race, unless submitting or cancelling it was raced.
THEOREM StatusMatchesReceiptsTheorem == Spec => []StatusMatchesReceipts
<1>1. Init => StatusMatchesReceipts
  BY DEF Init, StatusMatchesReceipts
<1>2. IInv /\ RaceInv /\ StatusMatchesReceipts /\ [Next]_vars
         => IInv' /\ RaceInv' /\ StatusMatchesReceipts'
  BY NextIInv, RaceNext, StatusNext
<1> QED
  BY <1>1, <1>2, InitIInv, RaceInit, PTL DEF Spec

-----------------------------------------------------------------------------
(* The stock                                                               *)

\* What allocations hold of the stock, allocation by allocation.
Outstanding == [a \in Allocations |-> allocations[a].allocated - allocations[a].returned]

LEMMA TotalIsSum == \A f : Total(f) = SumOn(f, DOMAIN f)
  BY DEF Total, MapThenSumSet, MapThenFoldSet, SumOn, IsIter, Pick

\* The totals of StockConserved are sums over the tables.
LEMMA TotalsAre ==
    ASSUME TypeOK
    PROVE  /\ \A l \in Lines : received[l] \in Int
           /\ \A a \in Allocations : Outstanding[a] \in Int
           /\ Total(received) = SumOn(received, Lines)
           /\ Total(Outstanding) = SumOn(Outstanding, Allocations)
           /\ SumOn(received, Lines) \in Int
           /\ SumOn(Outstanding, Allocations) \in Int
<1>1. \A l \in Lines : received[l] \in Int
  BY OrderedAssumption DEF TypeOK
<1>2. \A a \in Allocations : Outstanding[a] \in Int
  BY DEF TypeOK, Amounts, Outstanding
<1>3. DOMAIN received = Lines /\ DOMAIN Outstanding = Allocations
  BY DEF TypeOK, Outstanding
<1>4. SumOn(received, Lines) \in Int /\ SumOn(Outstanding, Allocations) \in Int
  BY <1>1, <1>2, SumSplit, TablesAssumption
<1> QED BY <1>1, <1>2, <1>3, <1>4, TotalIsSum

\* The stock when no count was raced.
Balance == onHand = InitialStock + SumOn(received, Lines) + shortage + counted
                    - SumOn(Outstanding, Allocations)

LEMMA ConservedIs ==
    ASSUME TypeOK
    PROVE  StockConserved <=> ("count" \notin raced => Balance)
<1>1. StockConserved <=> ("count" \notin raced =>
         onHand = InitialStock + Total(received) + shortage + counted - Total(Outstanding))
  BY DEF StockConserved, Outstanding
<1> QED BY <1>1, TotalsAre DEF Balance

\* What a change of one line or of one allocation adds to the totals.
LEMMA ReceivedChanges ==
    ASSUME TypeOK, TypeOK', NEW l \in Lines,
           \A m \in Lines \ {l} : received'[m] = received[m]
    PROVE  SumOn(received', Lines) = SumOn(received, Lines) - received[l] + received'[l]
<1>1. \A m \in Lines : received[m] \in Int /\ received'[m] \in Int
  BY OrderedAssumption DEF TypeOK
<1> QED BY <1>1, SumUpdate, TablesAssumption

LEMMA OutstandingChanges ==
    ASSUME TypeOK, TypeOK', NEW a \in Allocations,
           \A b \in Allocations \ {a} : Outstanding'[b] = Outstanding[b]
    PROVE  SumOn(Outstanding', Allocations) =
              SumOn(Outstanding, Allocations) - Outstanding[a] + Outstanding'[a]
<1>1. \A b \in Allocations : Outstanding[b] \in Int
  BY TotalsAre
<1>2. \A b \in Allocations : Outstanding'[b] \in Int
  BY DEF TypeOK, Amounts, Outstanding
<1> QED BY <1>1, <1>2, SumUpdate, TablesAssumption

\* Allocating and returning move the stock by what they change of the allocation.
LEMMA AllocationBalances ==
    ASSUME IInv, IInv', Balance, NEW s \in Sessions,
           AllocateCommit(s) \/ UseCommit(s) \/ ReturnCommit(s)
    PROVE  Balance'
<1> DEFINE a == req[s].row
           q == req[s].quantity
<1>1. /\ a \in Allocations /\ a \in held[s] /\ q \in Nat /\ FreshFor(s)
      /\ req[s].op # "use" => Part \in held[s]
  BY AllLockedHolds DEF AllocateCommit, UseCommit, ReturnCommit, IInv, Fresh, TypeOK, Requests
<1>2. /\ req[s].seenAmounts = allocations[a]
      /\ req[s].op # "use" => req[s].seenStock = onHand
  BY <1>1 DEF FreshFor
<1>3. /\ TypeOK /\ TypeOK' /\ allocations \in [Allocations -> Amounts]
      /\ onHand \in Nat /\ shortage \in Nat /\ counted \in Int /\ InitialStock \in Nat
      /\ allocations[a].allocated \in Nat /\ allocations[a].returned \in Nat
  BY <1>1, StockAssumption DEF IInv, TypeOK, Amounts
<1>4. UNCHANGED <<received, counted>>
  BY DEF AllocateCommit, UseCommit, ReturnCommit, orderVars
<1>5. \A b \in Allocations : Outstanding[b] = allocations[b].allocated - allocations[b].returned
  BY DEF Outstanding
<1>6. \A b \in Allocations : Outstanding'[b] = allocations'[b].allocated - allocations'[b].returned
  BY DEF Outstanding
<1>7. SumOn(received, Lines) \in Int /\ SumOn(Outstanding, Allocations) \in Int
  BY <1>3, TotalsAre
<1> HIDE DEF a, q
<1>8. CASE AllocateCommit(s)
  <2>1. /\ onHand' = StockLeft(onHand, q)
        /\ shortage' = shortage + (q - (onHand - onHand'))
        /\ allocations' = [allocations EXCEPT ![a].allocated = allocations[a].allocated + q]
    BY <1>2, <1>8 DEF AllocateCommit, a, q
  <2>2. /\ \A b \in Allocations \ {a} : allocations'[b] = allocations[b]
        /\ allocations'[a].allocated = allocations[a].allocated + q
        /\ allocations'[a].returned = allocations[a].returned
    BY <1>1, <1>3, <2>1 DEF Amounts
  <2>3. /\ \A b \in Allocations \ {a} : Outstanding'[b] = Outstanding[b]
        /\ Outstanding'[a] = Outstanding[a] + q /\ Outstanding[a] \in Int
    BY <1>1, <1>3, <1>5, <1>6, <2>2
  <2>4. SumOn(Outstanding', Allocations) =
           SumOn(Outstanding, Allocations) - Outstanding[a] + Outstanding'[a]
    BY <1>1, <1>3, <2>3, OutstandingChanges
  <2>5. onHand' \in Nat /\ shortage' = shortage + q - onHand + onHand'
    BY <1>1, <1>3, <2>1 DEF StockLeft
  <2> QED BY <1>1, <1>3, <1>4, <1>7, <2>3, <2>4, <2>5 DEF Balance
<1>9. CASE UseCommit(s)
  <2>1. /\ onHand' = onHand /\ shortage' = shortage
        /\ allocations' = [allocations EXCEPT ![a].used = allocations[a].used + q]
    BY <1>2, <1>9 DEF UseCommit, a, q
  <2>2. \A b \in Allocations : /\ allocations'[b].allocated = allocations[b].allocated
                               /\ allocations'[b].returned = allocations[b].returned
    BY <1>1, <1>3, <2>1 DEF Amounts
  <2>3. Outstanding' = Outstanding
    BY <2>2 DEF Outstanding
  <2> QED BY <1>4, <2>1, <2>3 DEF Balance
<1>10. CASE ReturnCommit(s)
  <2>1. /\ onHand' = onHand + q /\ shortage' = shortage
        /\ allocations' = [allocations EXCEPT ![a].returned = allocations[a].returned + q]
    BY <1>2, <1>10 DEF ReturnCommit, a, q
  <2>2. /\ \A b \in Allocations \ {a} : allocations'[b] = allocations[b]
        /\ allocations'[a].returned = allocations[a].returned + q
        /\ allocations'[a].allocated = allocations[a].allocated
    BY <1>1, <1>3, <2>1 DEF Amounts
  <2>3. /\ \A b \in Allocations \ {a} : Outstanding'[b] = Outstanding[b]
        /\ Outstanding'[a] = Outstanding[a] - q /\ Outstanding[a] \in Int
    BY <1>1, <1>3, <1>5, <1>6, <2>2
  <2>4. SumOn(Outstanding', Allocations) =
           SumOn(Outstanding, Allocations) - Outstanding[a] + Outstanding'[a]
    BY <1>1, <1>3, <2>3, OutstandingChanges
  <2> QED BY <1>1, <1>3, <1>4, <1>7, <2>1, <2>3, <2>4 DEF Balance
<1> QED BY <1>8, <1>9, <1>10

LEMMA ReceiptBalances ==
    ASSUME IInv, IInv', RaceInv, Balance, NEW s \in Sessions, ReceiveCommit(s)
    PROVE  Balance'
<1> DEFINE l == req[s].row
           q == req[s].quantity
<1>1. /\ l \in Lines /\ q \in Nat /\ req[s].seenReceived = received[l]
      /\ req[s].seenStock = onHand
  BY ReceiptKnowsOrder
<1>2. /\ received' = [received EXCEPT ![l] = received[l] + q]
      /\ onHand' = onHand + q
      /\ UNCHANGED <<allocations, shortage, counted>>
  BY <1>1 DEF ReceiveCommit, allocationVars
<1>3. /\ TypeOK /\ TypeOK' /\ received \in [Lines -> 0 .. Ordered]
      /\ onHand \in Nat /\ shortage \in Nat /\ counted \in Int /\ InitialStock \in Nat
  BY StockAssumption DEF IInv, TypeOK
<1> HIDE DEF l, q
<1>4. /\ \A m \in Lines \ {l} : received'[m] = received[m]
      /\ received'[l] = received[l] + q /\ received[l] \in Int
  BY <1>1, <1>2, <1>3, OrderedAssumption
<1>5. SumOn(received', Lines) = SumOn(received, Lines) - received[l] + received'[l]
  BY <1>1, <1>3, <1>4, ReceivedChanges
<1>6. Outstanding' = Outstanding
  BY <1>2 DEF Outstanding
<1>7. SumOn(received, Lines) \in Int /\ SumOn(Outstanding, Allocations) \in Int
  BY <1>3, TotalsAre
<1> QED BY <1>1, <1>2, <1>3, <1>4, <1>5, <1>6, <1>7 DEF Balance

\* A count nobody raced corrects the stock it loaded.
LEMMA CountBalances ==
    ASSUME IInv, RaceInv, Balance, NEW s \in Sessions, CountCommit(s), "count" \notin raced
    PROVE  Balance'
<1>1. req[s].op = "count" /\ req[s].quantity \in Nat
  BY DEF CountCommit, IInv, TypeOK, Requests
<1>2. req[s].seenStock = onHand
  BY <1>1 DEF RaceInv, Alone, UnlockedOps
<1>3. /\ onHand' = req[s].quantity /\ counted' = counted + (req[s].quantity - onHand)
      /\ UNCHANGED <<received, allocations, shortage>>
  BY <1>2 DEF CountCommit, orderVars, allocationVars
<1>4. /\ TypeOK /\ onHand \in Nat /\ shortage \in Nat /\ counted \in Int /\ InitialStock \in Nat
  BY StockAssumption DEF IInv, TypeOK
<1>5. Outstanding' = Outstanding
  BY <1>3 DEF Outstanding
<1>6. SumOn(received, Lines) \in Int /\ SumOn(Outstanding, Allocations) \in Int
  BY <1>4, TotalsAre
<1> QED BY <1>1, <1>3, <1>4, <1>5, <1>6 DEF Balance

\* The stock balances in every step that no count raced.
LEMMA StockNext ==
    ASSUME IInv, RaceInv, "count" \notin raced => Balance, [Next]_vars
    PROVE  "count" \notin raced' => Balance'
<1>0. SUFFICES ASSUME "count" \notin raced' PROVE Balance'
  OBVIOUS
<1>1. IInv' /\ "count" \notin raced /\ Balance
  BY <1>0, NextIInv, RaceNext
<1>2. ASSUME UNCHANGED <<onHand, received, shortage, counted, allocations>> PROVE Balance'
  BY <1>1, <1>2 DEF Balance, Outstanding
<1>3. CASE UNCHANGED vars
  BY <1>2, <1>3 DEF vars, allocationVars, orderVars
<1>4. ASSUME NEW s \in Sessions, Lock(s) \/ Refuse(s) \/ Abort(s) \/ TransitionCommit(s)
      PROVE  Balance'
  BY <1>2, <1>4 DEF Lock, Refuse, Abort, TransitionCommit, allocationVars, orderVars
<1>5. ASSUME NEW s \in Sessions,
             AllocationBegin(s) \/ ReceiveBegin(s) \/ TransitionBegin(s) \/ CountBegin(s)
      PROVE  Balance'
  BY <1>2, <1>5, RaceAnyBegins DEF allocationVars, orderVars
<1> QED
  BY <1>1, <1>3, <1>4, <1>5, AllocationBalances, ReceiptBalances, CountBalances DEF Next

LEMMA StockInit == Init => Balance
<1> SUFFICES ASSUME Init PROVE Balance
  OBVIOUS
<1>1. \A l \in Lines : received[l] = 0
  BY DEF Init
<1>2. \A a \in Allocations : Outstanding[a] = 0
  BY DEF Init, Outstanding, Zero
<1>3. SumOn(received, Lines) = 0 /\ SumOn(Outstanding, Allocations) = 0
  BY <1>1, <1>2, SumOfZeros, TablesAssumption
<1> QED BY <1>3, StockAssumption DEF Init, Balance

\* The stock is what was there, what arrived, what overrides handed out beyond it
\* and what counts corrected, less what allocations hold, unless a count was raced.
THEOREM StockConservedTheorem == Spec => []StockConserved
<1> DEFINE SInv == IInv /\ RaceInv /\ ("count" \notin raced => Balance)
<1>1. Init => SInv
  BY InitIInv, RaceInit, StockInit
<1>2. SInv /\ [Next]_vars => SInv'
  BY NextIInv, RaceNext, StockNext
<1>3. SInv => StockConserved
  BY ConservedIs DEF IInv
<1> QED
  BY <1>1, <1>2, <1>3, PTL DEF Spec
=============================================================================
