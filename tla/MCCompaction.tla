---------------------------- MODULE MCCompaction ----------------------------
(* Compaction on small instances.                                           *)
EXTENDS Compaction

(* Two small messages fit the budget of 2; a large one is the budget.       *)
SmallWeights == {1, 2}
=============================================================================
