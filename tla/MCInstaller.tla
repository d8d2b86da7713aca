----------------------------- MODULE MCInstaller -----------------------------
(***************************************************************************)
(* Two consoles and two disks for the claims between sessions (the safety  *)
(* properties, where consoles and disks are interchangeable); one console  *)
(* and a pool of two disks, with repeated enrolment, for the outcomes.     *)
(***************************************************************************)
EXTENDS Installer, TLC

Symmetry == Permutations(Screens) \cup Permutations(Disks)
=============================================================================
