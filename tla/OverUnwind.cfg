SPECIFICATION Spec
CONSTANTS
    Slots = {p1, p2}
    Orders = {o1}
    Invoices = {i1, i2}
    Lines = {l1}
    NoLine = NoLine
    NoOrder = NoOrder
    OrderAmounts = {3}
    InvoiceAmounts = {2}
    MaxFailures = 0
INVARIANTS UnwindWithinOrder
CHECK_DEADLOCK FALSE
