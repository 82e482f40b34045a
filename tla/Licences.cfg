SPECIFICATION Spec
CONSTANTS
    Subs = {s1}
    Members = {m1, m2}
    Callers = {c1}
    None = None
    MaxSeats = 2
    MaxAssigns = 1
    MaxEdits = 1
    MaxFaults = 1
INVARIANTS TypeOK QuotaKept
PROPERTIES DowngradesEarned TemporaryLicencesEnd SeatsReleased EndedStopsWriting
