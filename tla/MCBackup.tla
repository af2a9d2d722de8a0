------------------------------ MODULE MCBackup ------------------------------
(* Every fault at once, and every way to ask for a backup. *)
EXTENDS Backup

MCBackupIds == {0, 2, -1}
MCFaults == AllFaults
=============================================================================
