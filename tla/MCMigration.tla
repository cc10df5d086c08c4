---------------------------- MODULE MCMigration -----------------------------
(* Instance of Migration: two portals on one file and three faults, so that  *)
(* one of them can fail, restart and fail again while the other one runs.    *)
EXTENDS Migration
=============================================================================
