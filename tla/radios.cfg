SPECIFICATION SpecAny
CONSTANTS
    Present = {"TarvosIII", "Metis", "MetisE", "ThyoneI", "ThyoneE", "ProteusII", "ProteusE", "ProteusIV"}
    LeavesOpen = {"Metis"}
    Untold = {}
    Opening <- Opening_MC
    Closing <- Closing_MC
    Script <- Script_MC
    Owner <- Owner_MC
    UnaskedBy <- QuietMeter_MC
    Slots = 2
    MaxCount = 1
    Recorded <- Recorded_MC
    Statusless <- Statusless_MC
    Reply <- Reply_MC
    Indications <- Indications_MC
    BootFrames <- BootFrames_MC
    ResetPins <- ResetPins_MC
    Data <- Data_MC
    Restarts = FALSE
    LateAnswers = FALSE
    FastAnswers = FALSE
    Rouses <- Rouses_MC
    CallsOf <- CallsOf_MC
    MaxCalls = 3
    MaxIndications = 1
    MaxFaults = 0
    SkollI_Called <- SkollI_MC
    Crossing = FALSE
    MaxCallsK = 3
    MaxUnaskedK = 1
INVARIANTS FailedInitCloses OwnAnswers PacketKept
PROPERTIES AwaitedNeverDropped KeepsContract
CHECK_DEADLOCK FALSE
