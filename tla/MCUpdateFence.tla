---------------------------- MODULE MCUpdateFence ----------------------------
(* The fence with two updates, a few requests and one crash. *)
EXTENDS UpdateFence

=============================================================================
