SPECIFICATION FairSpec
CONSTANTS
    Capacity = 2
    MaxPackets = 1
    LastPos = 4
    Undecodable = {0}
    Lookahead = 0
    MaxSessions = 2
    MaxPasses = 1
    MaxTime = 2
INVARIANTS
    ContextOutlivesThreads
    PacketsOfLiveSession
    
PROPERTIES
    PromiseKept
    OnlyLateFramesLost
    NeverShowsOlderFrame
    CallReturns
    StopShowsTexture
