SPECIFICATION Spec
CONSTANTS
  Paths = {p1, p2}
  Uids = {u1, u2}
  Weeks = {w1}
  Cells = {c1, c2}
  None = None
  MaxEdits = 2
  MaxTasks = 2
  Assignments = {a1}
  Absent = Absent
  NoText = NoText
  MaxActs = 5
  MaxSends = 2
SYMMETRY Symmetry
INVARIANTS NoticeFollowsFile RecordsStand
PROPERTIES PlacementsAccumulate
CHECK_DEADLOCK FALSE
