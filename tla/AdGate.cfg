CONSTANTS
    Free = 3
    Seconds = 3
    MaxRequests = 5
SPECIFICATION Spec
INVARIANTS TypeOK PromptMatches NoAdAfterRefusal LockedOutExcused
CHECK_DEADLOCK FALSE
