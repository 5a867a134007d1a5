----------------------------- MODULE MCTlsClient -----------------------------
EXTENDS TlsClient, TLC
==============================================================================
