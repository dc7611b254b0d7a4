------------------------- MODULE MCBackupRestore -------------------------
(* BackupRestore for TLC: what the option of a backup selects. *)
EXTENDS BackupRestore, TLC

Dirs == Permutations(Dir)

OnlyAll == {Component}
=============================================================================
