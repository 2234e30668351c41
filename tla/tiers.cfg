CONSTANTS
  l1 = l1
  l2 = l2
  d1 = d1
  d2 = d2
  LightRuns = {l1, l2}
  DeepRuns = {d1, d2}
  Nobody = Nobody
  MaxCycles = 3
  MaxMessages = 2
  MaxCandidates = 2
  BatchSize = 1
SPECIFICATION Spec
SYMMETRY Symmetry
INVARIANTS ExtractedOnce OneFate EvidenceKept Grounded RetiredByFact
