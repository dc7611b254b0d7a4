----------------------------- MODULE MCMigrations -----------------------------
(* Migrations for TLC: commands in any order, as often as one likes. *)
EXTENDS Migrations
=============================================================================
