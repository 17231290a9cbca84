CONSTANTS
    ann = ann
    bob = bob
    phoneA = phoneA
    phoneB = phoneB
    tabletB = tabletB
    m1 = m1
    m2 = m2
    User = {ann, bob}
    Device = {phoneA, phoneB, tabletB}
    UserOf <- BobHasTwo
    Msg = {m1}
    Edited = {}
    MaxOps = 1
    MaxCrashes = 1
    MaxDrops = 0
    MaxRounds = 1
SPECIFICATION Spec
INVARIANTS TypeOK SenderKeepsCopy
PROPERTIES ReadStays ReturnsRead
SYMMETRY Alike
CHECK_DEADLOCK FALSE
