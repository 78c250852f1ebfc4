---------------------------- MODULE MCBoqLineage -----------------------------
(* Small instances of BoqLineage and BoqPromises.                          *)
EXTENDS BoqPromises, TLC

CONSTANTS pipe, valve, row1, row2

\* Documents are raised against one row of Rev 0, or of either revision.
FirstRow == {<<0, row1>>}
RowOfEach == {0, 1} \X {row1}

Symmetry == Permutations(Items)
=============================================================================
