--------------------------- MODULE MCNdiReceiver ----------------------------
\* Two sources, so that a switch has somewhere to go.
EXTENDS NdiReceiver
=============================================================================
