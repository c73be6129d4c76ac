------------------------------ MODULE MCBackup ------------------------------
(***************************************************************************)
(* Backup with three names for archives, of which two are kept, and two    *)
(* faults: the second comes while the first is being dealt with.           *)
(***************************************************************************)
EXTENDS Backup
=============================================================================
