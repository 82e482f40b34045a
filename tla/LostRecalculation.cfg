SPECIFICATION Spec
CONSTANTS
    Requests = {p1, p2}
    Lines = {l1}
    Operations = {"event"}
    EventTypes = {"COMMITMENT_REGISTERED", "CONSUMPTION_REGISTERED"}
    AllocationTypes = {}
    EventAmounts = {1}
    AllocationAmounts = {}
    ReallocatedAmounts = {}
    BudgetAmounts = {}
    InitialAmount = 3
INVARIANTS AmountsFollowMovements
CHECK_DEADLOCK FALSE
