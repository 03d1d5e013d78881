SPECIFICATION Spec
CONSTANTS
    BlockAlign = 2
    ReadMax = 3
    MaxSpeaks = 2
    Totals = {2}
    PipeCapacity = 4
    MaxBoundaries = 0
    MaxDeviations = 1
    Env <- Deviating
CHECK_DEADLOCK FALSE
INVARIANT FaultBarrier
INVARIANT PendingFaultIsPublished
INVARIANT IdleIsStartable
PROPERTY ImplementsSpeakService
