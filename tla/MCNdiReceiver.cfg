SPECIFICATION FairSpec
CONSTANTS
    Sources = {a, b}
    NoSource = NoSource
INVARIANTS
    ChangeIsNoticed
    FrameOfReceiver
    ConnectedMeansReceiver
PROPERTIES
    StopEndsThread
    StopRevertsDisplay
\* The program may terminate.
CHECK_DEADLOCK FALSE
