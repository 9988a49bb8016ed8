---------------------------- MODULE MCFramePath ----------------------------
\* Small instance of the path of a frame for TLC.
EXTENDS FramePath, TLC
MCShown == {Blank} \cup 0..MaxPicture

\* The buffers are alike, and no property is about liveness.
MCSymmetry == Permutations(Buffers)
=============================================================================
