SPECIFICATION FairSpec
CONSTANTS
    Sources = {a, b}
    NoSource = NoSource
INVARIANT
    StartsAgain
CHECK_DEADLOCK FALSE
