------------------------------ MODULE MCSchemaInit ------------------------------
(***************************************************************************)
(* SchemaInit for TLC.                                                     *)
(***************************************************************************)
EXTENDS SchemaInit, TLC

\* The second message tells of an earlier day than the first.
Days == 1 :> 2 @@ 2 :> 1
FirstShapes == {Empty, Old(1, "old", FALSE), Old(1, "current", TRUE)}
Exported ==
  [messages |-> {1, 2}, keys |-> {1}, dated |-> FALSE, cands |-> {Candidate(1, {1}, Undated)}]

ProcessSymmetry == Permutations(Processes)
================================================================================
