---------------------------- MODULE MCTxQueueStream ----------------------------
EXTENDS TxQueueStream, TLC

\* Two bytes of data per segment, one of them three.
MCSegBytes == [s \in 1 .. NSeg |-> IF s = 2 THEN 3 ELSE 2]

\* Three segments that fill 15 of 16 bytes.
MCWideSegBytes == [s \in 1 .. NSeg |-> 4]
=============================================================================
