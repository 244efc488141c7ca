SPECIFICATION Spec
CONSTANTS
    Sessions = {s1, s2}
    OwnerStatuses = {"ready"}
    MaxRevisions = 1
    MaxLinks = 1
    MaxEdits = 1
INVARIANTS
    LinkIsSingleUse
CHECK_DEADLOCK FALSE
