---------------------------- MODULE MCBackupRun ----------------------------
(***************************************************************************)
(* Two calls of RunBackup under one object prefix, over dumps of one and   *)
(* of two blocks, each given either adapter.  They collide on the object   *)
(* name exactly when they begin within the same second.                    *)
(***************************************************************************)
EXTENDS BackupRun

CONSTANTS r1, r2, prefix

MCLabel   == [r \in Runs |-> prefix]
MCDumpLen == [r \in Runs |-> IF r = r1 THEN 1 ELSE 2]

============================================================================
