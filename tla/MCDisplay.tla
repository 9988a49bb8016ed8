----------------------------- MODULE MCDisplay ------------------------------
\* Three textures, so that a set can come between two of the same name.
EXTENDS Display
=============================================================================
