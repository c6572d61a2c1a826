SPECIFICATION Spec
CONSTANTS
    Base = 8
    Checksum <- ExclusiveOr
    Commands = {5}
    Drivers = {"Tarvos", "Metis", "MetisE", "Thyone", "Proteus"}
    MaxData = 1
    Payloads <- Payloads_MC
    Parsers <- Parsers_MC
    Noises = {1, 2}
    MaxNoise = 1
    MaxResets = 1
INVARIANT WholeFrames
PROPERTY Resumes
CHECK_DEADLOCK FALSE
