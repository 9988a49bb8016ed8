------------------------------ MODULE MCDevice ------------------------------
\* Small instance of the device's configuration and name for TLC.
EXTENDS Device, TLC
MCLabels == Names \cup {NoName, Generated}
\* The names a client may give are alike.
MCSymmetry == Permutations(Names)
=============================================================================
