SPECIFICATION Spec
CONSTANTS
    Slots = {p1, p2}
    Orders = {o1}
    Invoices = {i1, i2}
    Lines = {l1, l2}
    NoLine = NoLine
    NoOrder = NoOrder
    OrderAmounts = {3}
    InvoiceAmounts <- SignedAmounts
    MaxFailures = 1
SYMMETRY Symmetry
INVARIANTS TypeOK UnwindBounded SettledPurchases
CHECK_DEADLOCK FALSE
