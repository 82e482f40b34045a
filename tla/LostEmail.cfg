SPECIFICATION Spec
CONSTANTS
    a1 = a1
    a2 = a2
    r1 = r1
    r2 = r2
    Alerts <- OneAlert
    Recipients <- OneRecipient
    Readers = {r1}
    Deliveries <- OneDelivery
    Evaluators = {e1}
    None = None
    MaxFaults = 1
    MaxChanges = 0
    MaxDeliveries = 1
PROPERTIES EverybodyMailed
CHECK_DEADLOCK FALSE
