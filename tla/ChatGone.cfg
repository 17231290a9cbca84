CONSTANTS
    ann = ann
    bob = bob
    phoneA = phoneA
    phoneB = phoneB
    tabletB = tabletB
    m1 = m1
    m2 = m2
    User = {ann, bob}
    Device = {phoneA, phoneB}
    UserOf <- OneDeviceEach
    Msg = {m1, m2}
    Edited = {}
    MaxOps = 0
    MaxCrashes = 0
    MaxDrops = 0
    MaxRounds = 1
SPECIFICATION Spec
INVARIANTS OpenChatCanSend
CHECK_DEADLOCK FALSE
