SPECIFICATION Spec
CONSTANTS
    MaxCmd = 2
    BatchLimit = 2
    Kind = {"update", "restart"}
    Slot = {s1, s2}
    Runner = {}
    None = None
    MaxFaults = 2
SYMMETRY Symmetry
INVARIANTS TypeOK AtMostOnce HandOver
PROPERTIES InOrder FinalUnlessAbandoned
