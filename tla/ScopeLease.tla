------------------------------ MODULE ScopeLease ------------------------------
(***************************************************************************)
(* What the durable dream lease promises of one (tenant, agent) scope: a   *)
(* row names one holder and the time it has left; nobody takes an unlapsed *)
(* row away from its holder, and only its holder extends or drops it.  A   *)
(* holder that dies leaves its row behind, and nobody speaks for it again. *)
(***************************************************************************)
EXTENDS Naturals

CONSTANTS Holders,    \* the processes that may hold the scope
          NoHolder,   \* no row
          Gone,       \* the identity of a dead process
          Period      \* how long a claim lasts without renewal

VARIABLES holder, left

Init == holder = NoHolder /\ left = 0

Claim(h) ==
  /\ holder = NoHolder \/ left = 0
  /\ holder' = h
  /\ left' = Period

Extend(h) ==
  /\ holder = h
  /\ left' = Period
  /\ UNCHANGED holder

Drop(h) ==
  /\ holder = h
  /\ holder' = NoHolder
  /\ left' = 0

Die(h) ==
  /\ holder = h
  /\ holder' = Gone
  /\ UNCHANGED left

Pass ==
  /\ left > 0
  /\ left' = left - 1
  /\ UNCHANGED holder

Next ==
  \/ \E h \in Holders : Claim(h) \/ Extend(h) \/ Drop(h) \/ Die(h)
  \/ Pass

Spec == Init /\ [][Next]_<<holder, left>>
===============================================================================
