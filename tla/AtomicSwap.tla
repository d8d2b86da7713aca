------------------------------- MODULE AtomicSwap ------------------------------
(***************************************************************************)
(* What the clone-and-swap of internal/worker/queue.go promises: the       *)
(* stack's data changes from the original to the restored state once, in   *)
(* two steps with a gap in which the stack has no data, and never back;    *)
(* from the first step on the original is kept beside it.                  *)
(***************************************************************************)
VARIABLES
    active,  \* the data the stack's dataset path holds
    kept     \* the original is kept as the recovery tree

Init == active = "original" /\ kept = FALSE

Detach == active = "original" /\ active' = "detached" /\ kept' = TRUE

Activate == active = "detached" /\ active' = "restored" /\ kept' = kept

Next == Detach \/ Activate

Spec == Init /\ [][Next]_<<active, kept>>
================================================================================
