SPECIFICATION FairSpec
CONSTANTS
    Sessions = {s1, s2}
    NoSession = NoSession
    Amounts = {1, 2}
    Totals = {2}
    DueIn = {1}
    MaxRows = 3
    MaxTime = 3
INVARIANTS
    PaidWithinInvoice
    ReversedOnce
    ScheduleSumsToTotal
    CacheInSync
PROPERTIES
    RequestsEnd
    ImplementsLedger
CHECK_DEADLOCK FALSE
