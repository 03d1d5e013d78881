SPECIFICATION FairSpec
CONSTANTS
    BlockAlign = 2
    ReadMax = 3
    MaxSpeaks = 2
    Totals = {2}
    PipeCapacity = 2
    MaxBoundaries = 0
    MaxDeviations = 0
    Env <- Recovering
PROPERTY QuarantineSticks
PROPERTY SpeakCompletes
PROPERTY DestructionCompletes
