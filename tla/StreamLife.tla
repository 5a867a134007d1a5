------------------------------ MODULE StreamLife ------------------------------
(***************************************************************************)
(* A stream thread as the tab that started it sees it: its phase, its      *)
(* player, the two flags the user interface sets and the auto-stop message *)
(* it may post.  Module TabManager runs many of these; module              *)
(* TxQueueStream implements one.                                           *)
(***************************************************************************)
VARIABLES phase, player, cancel, user, posted

lifeVars == <<phase, player, cancel, user, posted>>

LifeInit ==
  /\ phase = "starting" /\ player = "none"
  /\ cancel = FALSE /\ user = FALSE /\ posted = FALSE

Go(from, to) == phase = from /\ phase' = to

Starts ==
  /\ Go("starting", "running") /\ player' = "alive"
  /\ UNCHANGED <<cancel, user, posted>>

FailsToStart == Go("starting", "done") /\ UNCHANGED <<player, cancel, user, posted>>

\* The loop ends for a cancel or for a player that has exited, nothing else.
LeavesLoop ==
  /\ Go("running", "stopping") /\ (cancel \/ player = "exited")
  /\ UNCHANGED <<player, cancel, user, posted>>

\* No clean-up while the consumer is stuck in a write, and no player after it.
CleansUp ==
  /\ Go("stopping", "notify") /\ player # "stuck" /\ player' = "exited"
  /\ UNCHANGED <<cancel, user, posted>>

\* The user's flag is looked at once, some time before the message is posted.
Ends == Go("notify", "done") /\ user /\ UNCHANGED <<player, cancel, user, posted>>
WillPost == Go("notify", "post") /\ ~user /\ UNCHANGED <<player, cancel, user, posted>>
Posts == Go("post", "done") /\ posted' = TRUE /\ UNCHANGED <<player, cancel, user>>

PlayerMoves ==
  /\ player \in {"alive", "stuck"} /\ player' \in {"alive", "stuck", "exited"}
  /\ UNCHANGED <<phase, cancel, user, posted>>

Cancel == cancel' = TRUE /\ UNCHANGED <<phase, player, user, posted>>
FlagUser == cancel /\ user' = TRUE /\ UNCHANGED <<phase, player, cancel, posted>>

LifeNext ==
  \/ Starts \/ FailsToStart \/ LeavesLoop \/ CleansUp
  \/ Ends \/ WillPost \/ Posts
  \/ PlayerMoves \/ Cancel \/ FlagUser

LifeSpec == LifeInit /\ [][LifeNext]_lifeVars
=============================================================================
