SPECIFICATION Spec
CONSTANTS
    a1 = a1
    a2 = a2
    u1 = u1
    Activators <- TwoClients
    Unloaders <- OneUnloader
    Threads <- TwoAndOne
    MaxStarts = 2
    MaxCalls = 2
    MaxUnloads = 1
    Faults = {}
CHECK_DEADLOCK FALSE
PROPERTY NoWorkerAtApproval
