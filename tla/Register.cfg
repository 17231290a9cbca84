CONSTANTS
    a1 = a1
    a2 = a2
    n1 = n1
    n2 = n2
    Account = {a1, a2}
    Name = {n1, n2}
    Nobody = Nobody
    NoName = NoName
    MaxTaps = 2
    MaxCrashes = 1
SPECIFICATION FairSpec
INVARIANTS TypeOK SharedOnlyByRace NoHalfProfiles
PROPERTIES ProfileKept NamedIsFindable
CHECK_DEADLOCK FALSE
