SPECIFICATION FairSpec
CONSTANTS
    Client = {c1, c2}
    Session = {s1, s2}
    None = None
    IdleTicks = 1
    MaxFaults = 1
INVARIANTS TypeOK NoLeak NoClosed EndsAfterAll
PROPERTIES PurgedIdle NoIdleSocket RelayEnds
