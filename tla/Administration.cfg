SPECIFICATION AdminSpec
CONSTANTS
    Members = {m1}
    Requests = {r1}
    Slots = {s1, s2}
    AutoApprove = FALSE
    MaxCommands = 3
    MaxAdminFaults = 1
SYMMETRY Symmetry
INVARIANTS NothingLeftOpen SettingsStand
CHECK_DEADLOCK FALSE
