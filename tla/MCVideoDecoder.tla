--------------------------- MODULE MCVideoDecoder ---------------------------
\* Small instance of the video pipeline for TLC.
EXTENDS VideoDecoder
=============================================================================
