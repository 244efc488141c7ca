SPECIFICATION Spec
CONSTANTS
    Requests = {r1, r2}
    Passwords = {p1, p2}
    Threshold = 2
    MaxSessions = 1
    MaxTokens = 1
    MaxEdits = 3
SYMMETRY Symmetry
INVARIANTS
    LoopNeverWaits
CHECK_DEADLOCK FALSE
