------------------------------ MODULE MCHlsPipe ------------------------------
EXTENDS HlsPipe, TLC
=============================================================================
