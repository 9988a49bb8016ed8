SPECIFICATION FairSpec
CONSTANTS
    Textures = {a, b, default}
    Default = default
    NoTexture = NoTexture
    Retain = 1
    MaxDuration = 1
INVARIANTS
    CurrentIsLoaded
PROPERTIES
    PictureKeepsUp
    OverlayEnds
