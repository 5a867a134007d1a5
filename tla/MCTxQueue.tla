----------------------------- MODULE MCTxQueue -----------------------------
(* The ring on a small instance: every interleaving of one producer and    *)
(* one consumer transaction, with writes and reads of one to three bytes.  *)
EXTENDS TxQueue

=============================================================================
