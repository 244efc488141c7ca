SPECIFICATION Spec
CONSTANTS
    Sessions = {s1, s2}
    NoSession = none
    Vins = {"vin1"}
    StatusPatches = {"contacted", "converted"}
    PayloadDrafts = {"none"}
    NewNames <- FullNames
    MaxCustomers = 2
    MaxVehicles = 2
    MaxConversions = 2
    MaxEdits = 2
SYMMETRY Symmetry
CHECK_DEADLOCK FALSE
INVARIANTS
    ActiveVinUnique
    NoOrphanCustomer
    ConversionFinal
