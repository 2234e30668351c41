------------------------------ MODULE MCControlPlane ------------------------------
(***************************************************************************)
(* ControlPlane for TLC.                                                   *)
(***************************************************************************)
EXTENDS ControlPlane, TLC

CONSTANTS w1, w2, k1, k2, k3, tok, t1, t2, p1, b1, org1, c1, c2

MCWorkers == {w1, w2}
MCKeys == {k1, k2, k3}
MCTenants == {t1, t2}
MCConsumers == {c1, c2}

Symmetry == UNION {Permutations(S) : S \in {MCWorkers, MCKeys, MCTenants, MCConsumers}}
===============================================================================
