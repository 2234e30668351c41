----------------------------- MODULE MCDreamSweep -----------------------------
(* Instances of DreamSweep for TLC: containers and job slots are model      *)
(* values, interchangeable in the safety run.                               *)
EXTENDS DreamSweep, TLC

Symmetry == Permutations(Containers) \cup Permutations(Jobs)

\* Bound: after a lease has lapsed under a job, the tenant is as at the start.
NotBoth == lapsed => active /\ enabled
===============================================================================
