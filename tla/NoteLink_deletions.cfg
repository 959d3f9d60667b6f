\* A save or a removal, echoes and failing database calls against two changes of other devices.
SPECIFICATION FairSpec
CONSTANTS
  Texts = {a, b}
  Missing = Missing
  Uploaders = {u1}
  DeletePolicy = "propagate-delete"
  VersionHistory = TRUE
  PutMayFail = TRUE
  EventLag = TRUE
  MaxAttempts = 3
  MaxSaves = 1
  MaxRemoves = 1
  MaxActs = 1
  MaxPulls = 2
  MaxLeaves = 1
PROPERTIES RemovalsSettle
CHECK_DEADLOCK FALSE
