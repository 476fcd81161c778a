---------------------------- MODULE MCHvacStartup ----------------------------
(* HvacStartup for TLC.                                                    *)
EXTENDS HvacStartup
=============================================================================
