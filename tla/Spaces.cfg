\* A manager's or a member's link against pauses, repairs, failures and rejections; one
\* space of two paths for two files; texts of up to six characters; two files copied twice
\* to two members.
SPECIFICATION SpacesSpec
CONSTANTS
    MaxRemote = 1
    MaxLocal = 1
    MaxToggles = 2
    MaxRepairs = 1
    MaxFaults = 1
    Pupils = {pupil}
    SharedNotes = {f1, f2}
    Homes <- SharedSpaces
    Outside = {"out"}
    Gone = Gone
    MaxTurns = 3
    MaxRefusedPuts = 1
    Alphabet = {x, y}
    MaxLength = 6
    MinUnit = 2
    NoteFiles = {n}
    MaxCleanups = 1
    MaxWrites = 1
    MaxRefusals = 1
    Receivers = {1, 2}
    Sources <- SourceFiles
    Policies = {"skip", "overwrite", "rename"}
    MaxNumber = 3
    MaxCopies = 2
    MaxIntrusions = 1
    MaxBadWrites = 1
INVARIANTS EventLinkIsWatched NamedAreLetIn CollapsesExactly ReportIsTrue
PROPERTIES CatchesUp StoppedIsQuiet
CHECK_DEADLOCK FALSE
