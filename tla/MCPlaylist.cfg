SPECIFICATION FairSpec
CONSTANTS
    Sources = {good, bad}
    Broken = {bad}
    MaxLen = 3
    MaxTries = 4
INVARIANTS
    SkippingEnds
PROPERTIES
    
    PromiseKept
    StopReturns
\* The program may terminate, and its WebSocket thread may wait forever.
CHECK_DEADLOCK FALSE
