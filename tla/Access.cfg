SPECIFICATION AccessSpec
CONSTANTS
    Parts = {"account", "support", "http"}
    Requests = {r1, r2}
    Passwords = {p1, p2}
    Threshold = 2
    MaxSessions = 2
    MaxTokens = 2
    MaxEdits = 6
    Tabs = {b1, b2}
    MaxVisits = 2
    People = {"owner", "technician", "support"}
    TestSupport = FALSE
SYMMETRY Symmetry
INVARIANTS
    CodesUnderControl
    LockoutHolds
    SessionsEndWithTheirGrounds
    ImpersonationOnRecord
    SuspensionIsExact
    HiddenStaysClosed
    SupportLeavesShopsAlone
CHECK_DEADLOCK FALSE
