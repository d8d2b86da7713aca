----------------------------- MODULE MCDatasetSwap -----------------------------
(* Instances of DatasetSwap for TLC. *)
EXTENDS DatasetSwap

\* The snapshot covers the whole tree.
AllCaptured == 0..2
================================================================================
