SPECIFICATION FairSpec
CONSTANTS
    MaxCmd = 2
    BatchLimit = 1
    Kind = {}
    Slot = {s1}
    Runner = {r1}
    None = None
    MaxFaults = 1
PROPERTY QueueDrains
