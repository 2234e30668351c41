----------------------------- MODULE MCScopePurge ------------------------------
\* Bounds of the purge run.  Phases, sessions and labels are symmetric.
EXTENDS ScopePurge, TLC

CallSymmetry ==
  Permutations(Phases) \cup Permutations(Sessions) \cup Permutations(Labels)

\* Two projects meet only where one message was stored.
LabelsOrMessages ==
  Labels \subseteq {tombs[t].label : t \in Issued} \cup {writer[w].label : w \in Writers}
    => issued < 2
===============================================================================
