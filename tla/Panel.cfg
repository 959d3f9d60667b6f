SPECIFICATION Spec
CONSTANTS
  Class = class
  Groups = {g1}
  Blank = Blank
  PAGE = 3
  MaxId = 4
  FirstMessages = {{1, 2, 4}}
  MaxEvents = 3
  MaxReads = 2
  Plugins = {p1, p2}
  Files = {"manifest", "main"}
  Mine = {p1, p2}
  Nothing = Nothing
  MaxDeploys = 3
  MaxTrouble = 2
  Items = {i1, i2}
  MaxViews = 2
  MaxTaps = 2
  MaxMoves = 1
  MaxReloads = 2
  MaxLosses = 1
  Remarks = {r1}
  RemarkNotes = {"a", "b"}
  Elsewhere = "other"
  MaxRemarkChanges = 2
  MaxGlances = 2
  MaxListings = 2
  Words = {"a", "b"}
  Spacings = {0, 1}
  MaxLines = 3
INVARIANTS DiffIsExact TabIsTrue TicksAgree FeedbackIsShown
PROPERTIES DeploymentArrives
CHECK_DEADLOCK FALSE
