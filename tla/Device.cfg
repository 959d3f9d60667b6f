\* Two changes, two failures and three starts of a link whose cache is reset once; two
\* modes of three links; two commands of the manager at a time over three moments; two
\* devices at a drawing, whose waits are just long enough.
SPECIFICATION DeviceSpec
CONSTANTS
    MaxChanges = 2
    MaxFailures = 2
    MaxStarts = 3
    MaxResets = 1
    Spaces = 2
    MaxModes = 2
    MaxVersions = 2
    MaxTasks = 2
    MaxRefreshes = 1
    StartMayFail = TRUE
    Commands = {1, 2}
    Lifetime = 1
    LastMoment = 3
    MaxCommands = 2
    MaxOpenings = 1
    MaxFailedPuts = 1
    Drawers = {1, 2}
    Hop = 1
    Mounting = 1
    Settle = 4
    Fallback = 9
    MaxStrokes = 1
INVARIANTS CheckpointSafe RetiredModeIsQuiet TokensInOrder SeededOnce
PROPERTIES EveryChangeTried SharesFollowed ComesBackRenewed DrawingComesBack
CHECK_DEADLOCK FALSE
