SPECIFICATION PartSpec
CONSTANTS
    NoText = NoText
    Paths = {a, b}
    Texts = {s, t}
    DeletePolicy = "archive"
    DeleteReconcileMax = 1
    MaxEvents = 3
    FewEvents = 1
    Commands = {c1, c2}
    Devices = {d1, d2}
    Own = own
    MoreAccounts = {second}
    MaxTurns = 4
    MaxMishaps = 1
INVARIANTS OthersTextKept AdmittedStaysIn
PROPERTIES RemovalsReconciled
SYMMETRY Symmetry
CHECK_DEADLOCK FALSE
