SPECIFICATION Spec
CONSTANTS
    Clients = {c1, c2}
    MaxWords = 2
    NoteExists = TRUE
    MaxFiles = 1
    MaxErasures = 1
    MaxTroubles = 2
INVARIANTS NoDuplicates ExternalTextKept
PROPERTIES PromiseKept TombstoneStands EditsReachNote
CHECK_DEADLOCK FALSE
