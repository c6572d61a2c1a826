SPECIFICATION Spec
CONSTANTS
    Base = 8
    Checksum <- ExclusiveOr
    Commands = {5}
    Drivers = {"Metis"}
    MaxData = 6
    Payloads <- Payloads_MC
    Parsers <- Parsers_MC
    Noises = {2, 7}
    MaxNoise = 0
    MaxResets = 0
INVARIANT WholeFrames
CHECK_DEADLOCK FALSE
