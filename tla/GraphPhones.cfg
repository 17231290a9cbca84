CONSTANTS
    ann = ann
    bob = bob
    phoneA = phoneA
    phoneB = phoneB
    tabletB = tabletB
    User = {ann, bob}
    Device = {phoneA, phoneB}
    UserOf <- OneDeviceEach
    Past <- Nobody
    Waiting <- AnnToBob
    Edited = {}
    MaxOps = 2
    MaxCrashes = 1
    MaxDrops = 1
    MaxFaults = 1
    MaxRounds = 1
SPECIFICATION FairSpec
INVARIANTS SettledMutual ChatsOfFormedPairs
PROPERTIES RequestNotLost AcceptTakesEffect
CHECK_DEADLOCK FALSE
