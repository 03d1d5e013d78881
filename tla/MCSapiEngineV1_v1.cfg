CONSTANTS
    Engines <- MCEngines
    Dll <- MCDll
    Voice <- MCVoice
    Plans <- MCPlans
    MaxSpeaks = 3
    PoolLimit = 1
    Synths <- MCSynths
    Blocks = 2
    Faults = {"badDll", "noThread", "noWrite", "noSynth", "noSpeak", "noStop", "sdkCancels"}
SPECIFICATION FairSpec
INVARIANT ParamsOutliveUse
INVARIANT NothingStray
INVARIANT ToldInFull
PROPERTY AbortReturns
CHECK_DEADLOCK FALSE
INVARIANT PoolSound
INVARIANT DocumentFits
