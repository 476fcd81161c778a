---------------------------- MODULE MCHvacClient ----------------------------
(* HvacClient for TLC: every constant gets its value in the configuration. *)
EXTENDS HvacClient
=============================================================================
