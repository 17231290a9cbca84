CONSTANTS
    ann = ann
    bob = bob
    cid = cid
    ghost = ghost
    User = {ann, bob}
    NoOne = NoOne
    Nothing = Nothing
    Partner = {cid, ghost}
    Broken = {ghost}
    Start <- GhostAtBob
    MaxSignIns = 2
    MaxRefused = 1
    MaxChanges = 1
    MaxCrashes = 1
SPECIFICATION FairSpec
INVARIANTS TypeOK TokenFollowsViewer
PROPERTIES ListAppears ShowsHeldValues
CHECK_DEADLOCK FALSE
