SPECIFICATION Spec
CONSTANTS
    main = main
    low = low
    Size = 4
    Writers = {main, low}
    Priority <- ThreadAndLow
    Lens = {2, 3}
    MaxDrain = 1
    MaxChars = 7
INVARIANTS NoOverrun
CHECK_DEADLOCK FALSE
