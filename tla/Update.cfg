SPECIFICATION FairSpec
CONSTANTS
    Updater = {u1, u2}
    Loop = {u1}
    Cli = {u2}
    MaxRelease = 2
    MaxFaults = 1
INVARIANTS TypeOK InPlaceWhole AgentKept NeverOlder
PROPERTY ReachesLatest
CHECK_DEADLOCK FALSE
