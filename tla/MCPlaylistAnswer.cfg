SPECIFICATION FairSpec
CONSTANTS
    Sources = {good, other}
    Broken = {}
    MaxLen = 2
    MaxTries = 3
PROPERTY
    RequestAnswered
CHECK_DEADLOCK FALSE
