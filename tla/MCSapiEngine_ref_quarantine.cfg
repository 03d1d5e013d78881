SPECIFICATION Spec
CONSTANTS
    BlockAlign = 2
    ReadMax = 3
    MaxSpeaks = 2
    Totals = {4}
    PipeCapacity = 4
    MaxBoundaries = 0
    MaxDeviations = 1
    Env <- ErrorAfterFault
CHECK_DEADLOCK FALSE
PROPERTY QuarantineSticks
