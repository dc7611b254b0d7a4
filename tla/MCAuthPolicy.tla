---------------------------- MODULE MCAuthPolicy ----------------------------
(* AuthPolicy for TLC. *)
EXTENDS AuthPolicy
=============================================================================
