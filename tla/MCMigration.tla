---------------------------- MODULE MCMigration ----------------------------
(* Small instances of Migration for TLC: the constants are in the .cfg. *)
EXTENDS Migration
=============================================================================
