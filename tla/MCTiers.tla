------------------------------- MODULE MCTiers --------------------------------
(* Instances of Tiers for TLC: the runs are interchangeable model values;    *)
(* row ids are ordered, and are not.                                         *)
EXTENDS Tiers, TLC

Symmetry == Permutations(LightRuns) \cup Permutations(DeepRuns)
===============================================================================
