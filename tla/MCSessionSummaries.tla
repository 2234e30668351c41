--------------------------- MODULE MCSessionSummaries --------------------------
(***************************************************************************)
(* SessionSummaries and SummaryScans for TLC.                              *)
(***************************************************************************)
EXTENDS SessionSummaries, SummaryScans, TLC

RunSymmetry == Permutations(Runs)

\* Nothing a reader reads has a day: the second day, and the fourth summary,
\* come without readers.
DaysOrReaders ==
  \/ today = 0 /\ recorded < 4
  \/ \A q \in Readers : reader[q].pc = "idle"
==============================================================================
