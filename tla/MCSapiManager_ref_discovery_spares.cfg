SPECIFICATION Spec
CONSTANTS
    Exes <- MCExes
    Voices <- MCVoices
    MaxVersion = 2
    Plans <- MCPlans
    ProviderOf <- MCProviderOf
    Answers <- MCAnswers
    Owner <- MCOwner
    Pids = {1, 2, 3}
    Engines = {e1}
    Scans = {s1, s2}
    Zips <- MCZips
    Setups <- MCSetups
INVARIANT DiscoverySparesServing
CHECK_DEADLOCK FALSE
