SPECIFICATION FairSpec
CONSTANTS
    Key = {k1, k2}
    None = None
    Bad = Bad
    Absent = Absent
    Handler = {h1, h2}
    MaxRequests = 2
    MaxFaults = 1
INVARIANTS TypeOK FileLoads
PROPERTIES SavedRuns ResetHolds
CHECK_DEADLOCK FALSE
