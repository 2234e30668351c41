SPECIFICATION FairSpec
CONSTANTS
  Containers = {c1}
  Jobs = {j1}
  NoHolder = NoHolder
  Gone = Gone
  MaxMessages = 1
  TTL = 1
  Interval = 1
  Backoff = 1
  CanDream = TRUE
  CanSummarize = TRUE
  TenantChanges = FALSE
PROPERTIES RowsEventuallySummarized NeverWedged
