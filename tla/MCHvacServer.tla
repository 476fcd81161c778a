---------------------------- MODULE MCHvacServer ----------------------------
(* HvacServer for TLC: offset sets and the symmetry of the model values.   *)
EXTENDS HvacServerRefinement, TLC

\* Plain reads only.
SeqOnly == {-1}

\* Plain reads, preads that are answered in full and short, and an invalid offset.
AllOffsets == {-2, -1, 0, 2}

Symm == Permutations(Handles) \cup Permutations(Files) \cup Permutations(Dirs)
=============================================================================
