SPECIFICATION SceneSpec
CONSTANTS
    Sessions = {s1, s2}
    Allocations = {a1}
    Lines = {l1, l2}
    Line = l1
    Part = part
    Order = order
    Quantities = {1, 2}
    Counts = {2}
    Ordered = 2
    InitialStock = 1
    MaxAllocated = 2
SYMMETRY Symmetry
INVARIANTS
    StockConserved
    QuantitiesMatchHistory
    StatusMatchesReceipts
    NoMutualWait
