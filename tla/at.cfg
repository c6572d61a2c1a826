SPECIFICATION SpecLines
CONSTANTS
  Requests <- Requests_MC
  Begins <- Begins_MC
  ErrorCodes <- ErrorCodes_MC
  Bytes = 3
  Chunk = 2
  Worlds <- Calm
  MaxPolls = 1
  MaxCalls = 3
  MaxEvents = 1
  MaxFaults = 1
  DaphnisI_Called <- DaphnisI_MC
  EVENT_BUFFER_LENGTH = 3
  Prompt = FALSE
  Late = FALSE
  MaxCallsD = 3
  MaxForeign = 1
  StephanoI_Script <- StephanoI_MC
  MaxLine = 4
  AdrasteaI_Called <- AdrasteaI_MC
  Overdue = FALSE
  Unwoken = FALSE
  MaxCallsA = 4
  MaxUnasked = 1
INVARIANTS Truthful CountsBytes ErrorIsOwn OwnResponse EventsTruthful BufferSafe AnswersAgree TakesRequests
PROPERTIES ResultsKept AllReturn
CHECK_DEADLOCK FALSE
