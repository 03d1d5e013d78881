SPECIFICATION Spec
CONSTANTS
    BlockAlign = 2
    ReadMax = 3
    MaxSpeaks = 2
    Totals = {4}
    PipeCapacity = 4
    MaxBoundaries = 1
    MaxDeviations = 0
    Env <- Cancelling
CHECK_DEADLOCK FALSE
INVARIANT TypeOK
INVARIANT FaultNeedsCancel
INVARIANT HeardAll
INVARIANT CleanAtStart
INVARIANT CancelFollowsSpeak
INVARIANT AtMostOneLateSpan
INVARIANT ToldAll
INVARIANT LifecycleMatrix
