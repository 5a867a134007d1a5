----------------------------- MODULE MCTabManager -----------------------------
EXTENDS TabManager, TLC
=============================================================================
