------------------------ MODULE MCHvacServerHistory -------------------------
(* HvacServerHistory for TLC.                                              *)
EXTENDS HvacServerHistory, TLC

\* Plain reads only.
SeqOnly == {-1}
=============================================================================
