SPECIFICATION OfficeSpec
CONSTANTS
    Parts = {"orders", "jobs", "plan", "push", "clock", "limiter", "mode"}
    Sessions = {s1, s2}
    MaxEvents = 6
    JobSessions = {s1, s2}
    Evidence <- SomeEvidence
    CompileRequests <- SomeRequests
    Prices = {2013, 3333}
    MaxCompilations = 3
    MaxEstimates = 2
    MaxProposals = 1
    PlanRequests = {s1, s2}
    TeamSeats = 2
    MaxSeats = 3
    MaxSubs = 3
    MaxOps = 5
    Pushes = {s1, s2}
    MaxTries = 3
    Punches = {s1, s2}
    MaxEntries = 3
    MaxTime = 5
    Instances = {i1, i2}
    Calls = {q1, q2}
    Limit = 2
    Window = 2
    MaxLost = 2
    Changers = {s1, s2}
    MaxModeEvents = 3
    MaxEdits = 1
SYMMETRY Symmetry
INVARIANTS
    InvoicedOnce
    OneCompletionPerInvoice
    StatusIsLastEvent
    RevisionHistory
    ReleasedEstimates
    CompiledJobsAddUp
    SeatsWithinTier
    SquareAgrees
    PushedOnce
    OneShiftOpen
    WindowBound
    ModeEventsChain
PROPERTIES
    StatusFollowsTransitions
    CompilesCurrentEvidence
CHECK_DEADLOCK FALSE
