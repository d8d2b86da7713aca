----------------------------- MODULE MCBackups -----------------------------
(***************************************************************************)
(* One backup target with a short history, one more snapshot, two changes  *)
(* of the target and one fault anywhere.  Two abandoned commands besides   *)
(* the two callers are as many as one fault and the two goroutines make.   *)
(***************************************************************************)
EXTENDS BackupReplication
=============================================================================
