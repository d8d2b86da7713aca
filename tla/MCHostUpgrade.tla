---------------------------- MODULE MCHostUpgrade ----------------------------
(* Instances of HostUpgrade for TLC. *)
EXTENDS HostUpgrade

CONSTANTS o1, o2,   \* two updates, one after the other
          v0, v1    \* the installed release and another one

=============================================================================
