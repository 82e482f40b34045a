SPECIFICATION FairSpec
CONSTANTS
    Deliveries = {d1, d2}
    Workers = {w1, w2}
    Nobody = Nobody
    NoDelivery = NoDelivery
    MaxAttempts = 2
    MaxStalls = 1
    MaxFaults = 3
INVARIANTS EmailTypeOK SentOnce NothingDropped
PROPERTIES SentStays ImplementsOutbox EmailsSettle
CHECK_DEADLOCK FALSE
