---------------------------- MODULE MCScheduling ----------------------------
EXTENDS Scheduling, TLC

Symmetry == Permutations(Sessions)

First == CHOOSE t \in Technicians : TRUE

Appt(technician, bay, end, buffer) ==
    [technician |-> technician, bay |-> bay, start |-> 60, end |-> end,
     buffer |-> buffer, status |-> "tentative", canceledAt |-> FALSE]

\* A bay that two technicians could share, where the second one's visit ends
\* half a minute late, and a visit without a bay whose buffer reaches into the
\* next slot.
SmallCreates ==
    {Appt(t, b, IF t = First THEN 120 ELSE 150, 0) : t \in Technicians, b \in Bays}
    \cup {Appt(First, NoBay, 120, 60)}

SmallUpdates ==
    {[technician |-> t] : t \in Technicians \ {First}}
    \cup {[start |-> 120, end |-> 180]}
    \cup {[status |-> x] : x \in {"tentative", "completed"}}

\* Only the first technician works in the second slot; there the bay is blocked.
SmallHours == [t \in Technicians |-> IF t = First THEN {} ELSE {<<1, 2>>}]
SmallBlocks == {[target |-> b, start |-> 120, end |-> 180] : b \in Bays}
=============================================================================
