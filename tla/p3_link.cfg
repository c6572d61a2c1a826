SPECIFICATION SpecP3
CONSTANTS
    Called = {"InitByPin", "InitByUart", "Deinit", "Transmit", "Set", "DTMEnable"}
    Opening = {"InitByPin", "InitByUart"}
    Closing = {"Deinit"}
    Script <- Script_MC
    Slots = 2
    MaxCount = 1
    Recorded <- Recorded_MC
    Statusless <- Statusless_MC
    Reply <- Reply_MC
    Indications <- LinkOnly_MC
    BootFrames <- BootFrames_MC
    ResetPins = {"RESET_PIN"}
    Data <- Actions
    Restarts = TRUE
    LateAnswers = FALSE
    FastAnswers = FALSE
    EarlyLinks = FALSE
    MaxCalls = 3
    MaxIndications = 3
    MaxFaults = 0
INVARIANTS LinkAgrees
CHECK_DEADLOCK FALSE
