SPECIFICATION FairSpec
CONSTANTS
    Runs = {r1, r2}
    Workers = {w1}
    Callers = {c1, c2}
    None = None
    MaxRetries = 1
    MaxAttempts = 2
    MaxStalls = 1
    MaxFaults = 1
INVARIANTS TypeOK PostedOnce AttachedTeamExists OneLiveJob
PROPERTIES ClosedForGood RunsSettle
CHECK_DEADLOCK FALSE
