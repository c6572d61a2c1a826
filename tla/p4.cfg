SPECIFICATION SpecP4
CONSTANTS
    Called = {"InitByPin", "Deinit", "PinReset", "Set", "SetUart", "Transmit", "ScanStart", "ScanStop", "GetConnectionInfo", "GetBonds"}
    Connections = {"first"}
    Advertisers = {"a", "b"}
    ScanDevices = 1
    Opening = {"InitByPin"}
    Closing = {"Deinit"}
    Script <- Script_MC
    Slots = 3
    MaxCount = 1
    Recorded <- Recorded_MC
    Statusless <- Statusless_MC
    Reply <- Reply_MC
    Indications = {}
    BootFrames <- BootFrames_MC
    ResetPins = {"RESET_PIN"}
    Data = {""}
    Restarts = FALSE
    LateAnswers = FALSE
    FastAnswers = FALSE
    MaxCalls = 3
    MaxIndications = 3
    MaxFaults = 0
INVARIANTS ConnectionsAgree PointersSafe CountIsRight
CHECK_DEADLOCK FALSE
