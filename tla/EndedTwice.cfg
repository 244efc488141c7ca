SPECIFICATION SupportSpec
CONSTANTS
    Tabs = {b1, b2}
    MaxVisits = 2
INVARIANT
    EndedOnce
CHECK_DEADLOCK FALSE
