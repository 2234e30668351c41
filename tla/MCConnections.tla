----------------------------- MODULE MCConnections -----------------------------
(***************************************************************************)
(* Connections for TLC: one thread writes, with a statement whose keyword  *)
(* does not tell, and tries again once; the other reads, and competes for  *)
(* the slot and the token.                                                 *)
(***************************************************************************)
EXTENDS Connections, TLC

CONSTANTS writer, reader, d1, d2

MCThreads == {writer, reader}
MCSites == writer :> {"scoped", "guarded"} @@ reader :> {"read"}
MCRetries == writer :> 1 @@ reader :> 0
MCUpdates == {[keyword |-> "WITH", inner |-> "dml"]}
MCQueries == {[keyword |-> "PRAGMA", inner |-> "foreign_keys"]}

Undisturbed == now = 0 /\ \A d \in Databases : dropped[d].times = 0

\* Operations meet in the slots and the remote, whatever their tokens went
\* through before: they run where each thread found the first token at once.
\* Two databases meet in the cache, where one evicts the other.
Apart ==
  /\ (\E t \in Threads : op[t].step # "idle") =>
       /\ Undisturbed /\ asked = Cardinality(Threads)
       /\ \A t \in Threads : thread[t].db = d1 /\ thread[t].token = 1 /\ ~thread[t].armed
  /\ (Entries(d2) # {} \/ \E t \in Threads : thread[t].db = d2) => Undisturbed
================================================================================
