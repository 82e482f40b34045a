SPECIFICATION Spec
CONSTANTS
    MaxVersion = 3
    Callers = {c1, c2}
    Revised = 2
    None = None
    Subject = 1
    Envelopes = {e1}
    Lines = {l1}
    Strict = TRUE
    MaxRequests = 3
    MaxFaults = 1
INVARIANTS TypeOK VersionSetSound ValidatedSnapshotSettled
PROPERTIES CascadeComplete PolicyFollowed ClosedBudgetKept ArchivedVersionsKept
CHECK_DEADLOCK FALSE
