SPECIFICATION FairSpec
CONSTANTS
    Requests = {p1, p2, p3}
    Lines = {l1, l2}
    Operations = {"reallocation", "update"}
    EventTypes = {"COMMITMENT_REGISTERED"}
    AllocationTypes = {"CONSUMED"}
    EventAmounts = {1}
    AllocationAmounts = {1}
    ReallocatedAmounts = {2}
    BudgetAmounts = {1}
    InitialAmount = 3
PROPERTIES RequestsEnd
CHECK_DEADLOCK FALSE
