CONSTANTS
  Sessions = {s1, s2}
  All = All
  Labels = {p, q}
  Unlabelled = none
  Writers = {w1}
  Phases = {p1, p2}
  Purges = {g1}
  MaxCalls = 2
  MaxMessages = 2
  MaxCandidates = 1
  MaxTombstones = 2
SYMMETRY CallSymmetry
SPECIFICATION Spec
INVARIANT ErasedForGood TiersStayLinked
PROPERTY DeletedStaysShut FrozenWhilePending
CONSTRAINT LabelsOrMessages
CHECK_DEADLOCK FALSE
