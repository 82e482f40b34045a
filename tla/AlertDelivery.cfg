SPECIFICATION Spec
CONSTANTS
    a1 = a1
    a2 = a2
    r1 = r1
    r2 = r2
    Alerts <- TwoAlerts
    Recipients <- TwoRecipients
    Readers = {r1}
    Deliveries <- FourDeliveries
    Evaluators = {e1, e2}
    None = None
    MaxFaults = 1
    MaxChanges = 1
    MaxDeliveries = 2
INVARIANTS TypeOK MailedWereNotified
PROPERTIES EverybodyNotified OnlyLostUnmailed AlertsFollowCondition
CHECK_DEADLOCK FALSE
