SPECIFICATION FairSpec
CONSTANT MaxRelease = 2
CHECK_DEADLOCK FALSE
INVARIANTS
    SwitchIsSafe
    CutIsHarmless
PROPERTIES
    RunningSlotUntouched
    UpdateArrives
