SPECIFICATION Spec
CONSTANTS
    NoText = NoText
    Texts = {s, t, u}
    Ops = {o1, o2}
    Attempts = 2
    MaxPurges = 1
    MaxOps = 2
    MaxEvents = 1
SYMMETRY Symmetry
PROPERTIES NothingVanishes SweepBuriesNothing
CHECK_DEADLOCK FALSE
