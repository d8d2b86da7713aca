------------------------- MODULE MCManagementUpdate -------------------------
(* The management update with two operations, two releases, two datasets. *)
EXTENDS ManagementUpdate

=============================================================================
