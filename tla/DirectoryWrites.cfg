SPECIFICATION SupportSpec
CONSTANTS
    Tabs = {b1, b2}
    MaxVisits = 2
PROPERTY
    DirectoryNeverWrites
CHECK_DEADLOCK FALSE
