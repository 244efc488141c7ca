SPECIFICATION Spec
CONSTANTS
    Sessions = {s1, s2}
    OwnerStatuses = {"approved"}
    MaxRevisions = 3
    MaxLinks = 1
    MaxEdits = 1
SYMMETRY Symmetry
INVARIANTS
    IsNewestRevision
    DecisionsOnRecord
CHECK_DEADLOCK FALSE
