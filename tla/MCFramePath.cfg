SPECIFICATION Spec
CONSTANTS
    Capacity = 2
    MaxPicture = 4
    MaxPts = 1
    Buffers = {b1, b2, b3}
    NoBuffer = NoBuffer
    Shown <- MCShown
SYMMETRY MCSymmetry
INVARIANTS
    OnlyTwoHeld
    StaysLit
PROPERTIES
    QueueRefined
    FlipsForward
