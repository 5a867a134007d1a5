-------------------------- MODULE MCTransportRouter --------------------------
EXTENDS TransportRouter, TLC
=============================================================================
