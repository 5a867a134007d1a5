---------------------------- MODULE StreamDelivery ----------------------------
(***************************************************************************)
(* What one stream promises its viewer: media segments reach the player in *)
(* playlist order, none of them twice, some of them perhaps never, and     *)
(* none once the stream is over.                                           *)
(***************************************************************************)
EXTENDS Integers, Sequences

CONSTANT NSeg       \* segments 1 .. NSeg, in playlist order

VARIABLES
  published,        \* segments the server has put in the playlist so far
  delivered,        \* segments handed to the player
  over              \* the stream thread has returned

deliveryVars == <<published, delivered, over>>

DeliveryInit == published = 0 /\ delivered = << >> /\ over = FALSE

Publish ==
  /\ published < NSeg
  /\ published' = published + 1
  /\ UNCHANGED <<delivered, over>>

Deliver ==
  /\ ~over
  /\ \E s \in 1 .. published :
       /\ \A i \in DOMAIN delivered : delivered[i] < s
       /\ delivered' = Append(delivered, s)
  /\ UNCHANGED <<published, over>>

Finish == ~over /\ over' = TRUE /\ UNCHANGED <<published, delivered>>

DeliverySpec == DeliveryInit /\ [][Publish \/ Deliver \/ Finish]_deliveryVars
=============================================================================
