---------------------------- MODULE MCStackLifecycle ---------------------------
(* Instances of StackLifecycle for TLC. *)
EXTENDS StackLifecycle, TLC

CONSTANTS r1, r2, r3

Clients == Permutations(Requests)

StartFirst == {"startNew", "start", "stop"}
AllKinds == {"create", "startNew", "start", "stop"}
AllFaults == FaultKinds
HostFaults == FaultKinds \ {"die", "store"}
================================================================================
