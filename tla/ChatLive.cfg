CONSTANTS
    ann = ann
    bob = bob
    phoneA = phoneA
    phoneB = phoneB
    tabletB = tabletB
    m1 = m1
    m2 = m2
    User = {ann, bob}
    Device = {phoneA, phoneB}
    UserOf <- OneDeviceEach
    Msg = {m1}
    Edited = {}
    MaxOps = 1
    MaxCrashes = 0
    MaxDrops = 1
    MaxRounds = 1
SPECIFICATION FairSpec
INVARIANTS SenderKeepsCopy
PROPERTIES ReadStays ReturnsRead MessageArrives OpenChatIsRead
CHECK_DEADLOCK FALSE
