SPECIFICATION Spec
CONSTANTS
    Last = 2
    Size = 3
    MaxLead = 2
    Chips = {"F4", "L0"}
    Together = FALSE
    MaxBytes = 3
    MaxSessions = 3
INVARIANTS NothingLeft HandlerReady
PROPERTIES ImplementsStreams
CHECK_DEADLOCK FALSE
