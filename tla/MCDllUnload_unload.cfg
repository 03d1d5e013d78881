SPECIFICATION FairSpec
CONSTANTS
    a1 = a1
    a2 = a2
    u1 = u1
    Activators <- TwoClients
    Unloaders <- OneUnloader
    Threads <- TwoAndOne
    MaxStarts = 3
    MaxCalls = 2
    MaxUnloads = 3
    Faults = {"startFails", "workerFails"}
CHECK_DEADLOCK FALSE
PROPERTY NoOldEntryInside
PROPERTY DrainWritesAll
PROPERTY LoggingComesBack
INVARIANT LoggerSound
