CONSTANTS
    Free = 3
    Seconds = 3
    MaxRequests = 5
SPECIFICATION Spec
INVARIANTS AdCanBeViewed
CHECK_DEADLOCK FALSE
