\* A change waits in the queue while this device uploads a newer text.
SPECIFICATION Spec
CONSTANTS
  Texts = {a, b, c}
  Missing = Missing
  Uploaders = {u1}
  DeletePolicy = "archive"
  VersionHistory = TRUE
  PutMayFail = FALSE
  EventLag = TRUE
  MaxAttempts = 3
  MaxSaves = 1
  MaxRemoves = 0
  MaxActs = 1
  MaxPulls = 1
  MaxLeaves = 1
PROPERTY OwnTextKept
CHECK_DEADLOCK FALSE
