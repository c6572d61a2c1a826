SPECIFICATION FairSpec
CONSTANTS
    Last = 1
    Size = 4
    MaxLead = 3
    Chips = {"F4", "L0"}
    Together = FALSE
    MaxBytes = 9
    MaxSessions = 3
INVARIANT TypeOK
PROPERTIES ReachesDriver ImplementsStreams
CHECK_DEADLOCK FALSE
