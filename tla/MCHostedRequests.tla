---------------------------- MODULE MCHostedRequests ----------------------------
(* Instances of HostedRequests for TLC: requests and keys are model values. *)
EXTENDS HostedRequests, TLC

Allowance == [append_transcript |-> 2, search_long_term |-> 1, run_dream_phase |-> 1]
WindowLength == [append_transcript |-> 1, search_long_term |-> 1, run_dream_phase |-> 2]

\* Requests meet in the limiter alone: all three where they meet with success or
\* a refusal by it, and one beside the one that meets with anything else.
Smooth(r) ==
  /\ req[r].failure \in {"none", "limited"}
  /\ req[r].answer \in {"none", "ok", "429"}
  /\ req[r].pc = "answered" => rows[r].usage # "none"
Sent == {r \in Requests : req[r].pc # "none"}
FewTroubles == (\A r \in Requests : Smooth(r)) \/ Cardinality(Sent) <= 2

Symmetry == Permutations(Requests) \cup Permutations(Keys)
================================================================================
