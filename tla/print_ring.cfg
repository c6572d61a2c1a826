SPECIFICATION FairSpec
CONSTANTS
    main = main
    low = low
    Size = 4
    Writers = {main, low}
    Priority <- ThreadAndLow
    Lens = {2, 3}
    MaxDrain = 1
    MaxChars = 7
INVARIANTS OneWriter FlushIsSound RunningHasPower Accounted
PROPERTIES Drains ImplementsStream
CHECK_DEADLOCK FALSE
