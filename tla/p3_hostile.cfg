SPECIFICATION FairSpecP3
CONSTANTS
    Called = {"InitByPin", "GetDevices", "Transmit", "Set", "PinWakeup"}
    Opening = {"InitByPin"}
    Closing = {"Deinit"}
    Script <- Script_MC
    Slots = 2
    MaxCount = 1
    Recorded <- Recorded_MC
    Statusless <- Statusless_MC
    Reply <- Reply_MC
    Indications <- WithData_MC
    BootFrames <- BootFrames_MC
    ResetPins = {"RESET_PIN"}
    Data <- Actions
    Restarts = TRUE
    LateAnswers = TRUE
    FastAnswers = TRUE
    EarlyLinks = FALSE
    MaxCalls = 3
    MaxIndications = 1
    MaxFaults = 1
INVARIANTS ConfirmedByKind DevicesPointerSafe DevicesFilled
PROPERTIES Returns
CHECK_DEADLOCK FALSE
