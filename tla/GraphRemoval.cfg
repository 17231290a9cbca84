CONSTANTS
    ann = ann
    bob = bob
    phoneA = phoneA
    phoneB = phoneB
    tabletB = tabletB
    User = {ann, bob}
    Device = {phoneA, phoneB}
    UserOf <- OneDeviceEach
    Past <- AnnToBob
    Waiting <- Nobody
    Edited = {}
    MaxOps = 1
    MaxCrashes = 1
    MaxDrops = 0
    MaxFaults = 1
    MaxRounds = 1
SPECIFICATION FairSpec
PROPERTIES RemovalReachesBoth
CHECK_DEADLOCK FALSE
