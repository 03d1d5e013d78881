SPECIFICATION FairSpec
CONSTANTS
    Exes <- MCExes
    Voices <- MCVoices
    MaxVersion = 2
    Plans <- MCPlans
    ProviderOf <- MCProviderOf
    Answers <- MCAnswers
    Owner <- MCOwner
    Pids = {1, 2, 3}
    Engines = {e1}
    Scans = {s1, s2}
    Zips <- MCZips
    Setups <- MCSetups
INVARIANT PackagesWhole
INVARIANT EntryMatchesFiles
INVARIANT ComMatchesFiles
PROPERTY ScansEnd
CHECK_DEADLOCK FALSE
INVARIANT DiscoverySound
INVARIANT VoicesAsReported
