SPECIFICATION Spec
CONSTANTS
    Requests = {p1, p2}
    Lines = {l1, l2}
    Operations = {"reallocation"}
    EventTypes = {}
    AllocationTypes = {}
    EventAmounts = {}
    AllocationAmounts = {}
    ReallocatedAmounts = {2}
    BudgetAmounts = {}
    InitialAmount = 3
INVARIANTS NoOverdraft
CHECK_DEADLOCK FALSE
