SPECIFICATION Spec
CONSTANTS
    Requests = {p1, p2, p3}
    Lines = {l1, l2}
    Operations = {"event", "allocation", "reallocation", "update"}
    EventTypes = {"COMMITMENT_REGISTERED", "ADJUSTMENT"}
    AllocationTypes = {"CONSUMED"}
    EventAmounts <- SignedAmounts
    AllocationAmounts = {1}
    ReallocatedAmounts = {2}
    BudgetAmounts = {1}
    InitialAmount = 3
SYMMETRY Symmetry
INVARIANTS TypeOK AmountsFromCommitted ExactLinesMatch ReallocationsBalance
PROPERTIES LockedBudgetStaysDrained ImplementsJournal
CHECK_DEADLOCK FALSE
