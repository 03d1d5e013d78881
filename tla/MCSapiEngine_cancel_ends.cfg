SPECIFICATION FairSpec
CONSTANTS
    BlockAlign = 2
    ReadMax = 3
    MaxSpeaks = 1
    Totals = {2}
    PipeCapacity = 2
    MaxBoundaries = 0
    MaxDeviations = 0
    Env <- Aborting
INVARIANT OneCancel
PROPERTY CancellationEnds
