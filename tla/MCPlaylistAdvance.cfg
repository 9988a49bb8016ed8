SPECIFICATION FairSpec
CONSTANTS
    Sources = {good, other}
    Broken = {}
    MaxLen = 2
    MaxTries = 3
INVARIANT
    PlaysInOrder
CHECK_DEADLOCK FALSE
