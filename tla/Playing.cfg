CONSTANTS
    phone = phone
    tablet = tablet
    g1 = g1
    g2 = g2
    Game = {g1, g2}
    NoGame = NoGame
    Device = {phone, tablet}
    MaxOps = 3
    MaxCrashes = 2
SPECIFICATION Spec
INVARIANTS TypeOK PresenceAgrees ShownAgrees
SYMMETRY Alike
CHECK_DEADLOCK FALSE
