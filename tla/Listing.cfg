CONSTANTS
    phone = phone
    tablet = tablet
    g1 = g1
    g2 = g2
    r1 = r1
    r2 = r2
    Game = {g1, g2}
    Region = {r1, r2}
    First = r1
    NoRegion = NoRegion
    Device = {phone, tablet}
    MaxOps = 2
    MaxCrashes = 1
SPECIFICATION Spec
INVARIANTS TypeOK ListingAgrees ListedOnce
SYMMETRY Alike
CHECK_DEADLOCK FALSE
