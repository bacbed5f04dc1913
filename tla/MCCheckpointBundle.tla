------------------------- MODULE MCCheckpointBundle -------------------------
(* Instance data for CheckpointBundle. *)
EXTENDS CheckpointBundle, TLC

\* The saves are interchangeable.
Symmetry == Permutations(Savers)
=============================================================================
