-------------------------- MODULE MCMigrationLoop ---------------------------
(* MigrationLoop for TLC; the plausible bugs its properties must notice.     *)
EXTENDS MigrationLoop
=============================================================================
