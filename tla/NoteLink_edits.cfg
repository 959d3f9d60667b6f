\* Two overlapping edits of this device against one change of another device.
\* MaxAttempts is 3 in the code: 2 lets two interfering writes exhaust the retries.
SPECIFICATION LinkSpec
CONSTANTS
  Texts = {a, b, c}
  Missing = Missing
  Uploaders = {u1, u2}
  DeletePolicy = "archive"
  VersionHistory = TRUE
  PutMayFail = FALSE
  EventLag = TRUE
  MaxAttempts = 2
  MaxSaves = 2
  MaxRemoves = 1
  MaxActs = 2
  MaxPulls = 1
  MaxLeaves = 1
  Pages = {"n"}
  Attachments = {"a"}
  Contents = {"s", "t"}
  MaxWritings = 2
SYMMETRY Symmetry
INVARIANTS EditsStand BadgeIsTrue
PROPERTIES NoticedEditKept OthersStand
CHECK_DEADLOCK FALSE
