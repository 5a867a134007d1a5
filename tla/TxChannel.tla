------------------------------ MODULE TxChannel ------------------------------
(***************************************************************************)
(* What the tx-queue promises its two threads: a bounded stream of bytes.  *)
(* A committed write transaction appends its bytes to the stream, a        *)
(* committed read transaction takes the oldest untaken bytes, and between  *)
(* the two there are never more than Bound bytes.  An abandoned            *)
(* transaction does nothing at all.                                        *)
(***************************************************************************)
EXTENDS Naturals, Sequences

CONSTANT Bound      \* the most bytes that may be committed and not yet read

VARIABLES
  sent,             \* every byte committed by the producer, oldest first
  rcvd              \* every byte committed by the consumer, oldest first

chanVars == <<sent, rcvd>>

ChanInit == sent = << >> /\ rcvd = << >>

\* The stream grows at its end; the bytes already in it never change.
Send ==
  /\ SubSeq(sent', 1, Len(sent)) = sent
  /\ Len(sent) <= Len(sent')
  /\ Len(sent') - Len(rcvd) <= Bound
  /\ rcvd' = rcvd

\* The consumer takes exactly the bytes that come next in the stream.
Receive ==
  /\ Len(rcvd) <= Len(rcvd')
  /\ Len(rcvd') <= Len(sent)
  /\ rcvd' = SubSeq(sent, 1, Len(rcvd'))
  /\ sent' = sent

ChanNext == Send \/ Receive

ChanSpec == ChanInit /\ [][ChanNext]_chanVars
=============================================================================
