SPECIFICATION Spec
CONSTANTS
    Sessions = {s1, s2}
    Technicians = {t1, t2}
    Bays = {b1}
    NoBay = NoBay
    Shop = Shop
    Times = {60, 120, 150, 180}
    Pad = 60
    WorkingHours <- SmallHours
    Blocks <- SmallBlocks
    CreatePayloads <- SmallCreates
    UpdatePayloads <- SmallUpdates
    MaxAppointments = 2
SYMMETRY Symmetry
INVARIANTS
    NoDoubleBooking
    InOpenHours
PROPERTIES
    FinalOnceSeen
CHECK_DEADLOCK FALSE
