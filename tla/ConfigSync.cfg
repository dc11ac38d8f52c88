SPECIFICATION FairSpec
CONSTANTS
    Rule = {r1, r2, r3, r4}
    Refused = {r2}
    Dead = {r3}
    MaxVersion = 3
    MaxFaults = 2
INVARIANTS TypeOK InStep
PROPERTIES ReplicaSpec Applied
