-------------------------- MODULE MCScfmMigration --------------------------
(***************************************************************************)
(* Instance of ScfmMigration: two whole blocks and a shorter one.             *)
(***************************************************************************)
EXTENDS ScfmMigration

\* the failures the migration is made for
MCFaults == {"read", "write", "remove_cmpt", "remove_slc"}
=============================================================================
