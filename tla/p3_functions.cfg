SPECIFICATION SpecP3
CONSTANTS
    Called <- AllFunctions
    Opening = {"InitByPin"}
    Closing = {"Deinit"}
    Script <- Script_MC
    Slots = 2
    MaxCount = 1
    Recorded <- Recorded_MC
    Statusless <- Statusless_MC
    Reply <- Reply_MC
    Indications <- LinkOnly_MC
    BootFrames <- BootFrames_MC
    ResetPins = {"RESET_PIN"}
    Data <- Actions
    Restarts = FALSE
    LateAnswers = FALSE
    FastAnswers = FALSE
    EarlyLinks = FALSE
    MaxCalls = 3
    MaxIndications = 2
    MaxFaults = 0
INVARIANT DevicesOwn
PROPERTIES AwaitedNeverDropped KeepsContract
CHECK_DEADLOCK FALSE
