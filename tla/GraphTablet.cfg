CONSTANTS
    ann = ann
    bob = bob
    phoneA = phoneA
    phoneB = phoneB
    tabletB = tabletB
    User = {ann, bob}
    Device = {phoneB, tabletB}
    UserOf <- BobHasTwo
    Past <- Nobody
    Waiting <- AnnToBob
    Edited = {ann}
    MaxOps = 2
    MaxCrashes = 0
    MaxDrops = 0
    MaxFaults = 0
    MaxRounds = 1
SPECIFICATION Spec
INVARIANTS TypeOK ConsentedEntries SettledMutual
PROPERTIES RequestNotLost
CHECK_DEADLOCK FALSE
SYMMETRY BobsDevices
