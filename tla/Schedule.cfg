SPECIFICATION FairSpec
CONSTANTS
    MaxAuto = 1
    MaxAction = 1
    Cron = {c1, c2}
    Req = {q1, q2}
    None = None
    MaxFaults = 1
INVARIANTS TypeOK CronFollows ActionsKept
PROPERTY EntryAppears
