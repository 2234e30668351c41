SPECIFICATION Spec
CONSTANTS
  Containers = {c1, c2}
  Jobs = {j1, j2}
  NoHolder = NoHolder
  Gone = Gone
  MaxMessages = 1
  TTL = 1
  Interval = 1
  Backoff = 1
  CanDream = TRUE
  CanSummarize = TRUE
  TenantChanges = TRUE
SYMMETRY Symmetry
CONSTRAINT NotBoth
INVARIANTS OneWriter ClaimIsJob WatermarkCovered CompletedTruthful
PROPERTIES StampsNeverRewind LeaseRefined
