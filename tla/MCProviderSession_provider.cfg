CONSTANTS
    c1 = c1
    c2 = c2
    NoProcess = NoProcess
    Clients = {c1, c2}
    Talker = c1
    q1 = q1
    q2 = q2
    Processes = {q1, q2}
    MaxPairs = 4
    MaxTries = 2
    ChunkBytes = 3
    CompactAt = 3
    MaxRecordBytes = 2
    Faults = {"denied", "launchFails"}
    Plans <- MCPlans
SPECIFICATION Spec
INVARIANT FramesAreRecords
INVARIANT CancelHitsItsRequest
INVARIANT CrossedOnlyByDuplicates
INVARIANT IdleProviderIsTimed
INVARIANT CancelledTaskMoves
PROPERTY ServedSessionSurvives
CHECK_DEADLOCK FALSE
INVARIANT TotalsMatchAudio
