----------------------------- MODULE Procurement ------------------------------
(***************************************************************************)
(* Purchase orders and invoices, and the movements they post on budget     *)
(* lines.                                                                  *)
(*                                                                         *)
(* Each operation runs in a transaction of its own on the order or invoice *)
(* row, but posts through FinancialEventsService.create, which opens       *)
(* ANOTHER transaction: a movement is committed before the row it stands   *)
(* for, and survives the rollback of that row.  A movement is one step     *)
(* here: that the nested transaction appears at once is what FinancialCore *)
(* shows (FinancialJournal).                                               *)
(*                                                                         *)
(* The code reads movements only through sums over one source document,    *)
(* one line and one event type: the model keeps those sums.                *)
(***************************************************************************)
EXTENDS Integers, Functions

CONSTANTS
    Slots,          \* requests the API serves at the same time
    Orders,         \* PurchaseOrder ids
    Invoices,       \* Invoice ids
    Lines,          \* budget lines
    NoLine,         \* a document imputed on no line
    NoOrder,        \* an invoice of no order
    OrderAmounts,   \* amountHt of an order
    InvoiceAmounts, \* amountHt of an invoice; a credit note is negative
    MaxFailures     \* how many transactions may fail (bound)

ASSUME ProcurementAssumption ==
    /\ Orders \cap Invoices = {}
    /\ NoLine \notin Lines
    /\ NoOrder \notin Orders
    /\ OrderAmounts \subseteq Int
    /\ InvoiceAmounts \subseteq Int
    /\ MaxFailures \in Nat

Documents == Orders \cup Invoices

VARIABLES
    orders,         \* PurchaseOrder rows
    invoices,       \* Invoice rows
    invoiced,       \* by order, the sum of amountHt of its VALIDATED invoices
    commitment,     \* by source and line, the sum of COMMITMENT_REGISTERED
    consumption,    \* by source and line, the sum of CONSUMPTION_REGISTERED
    pc,             \* the statement each slot is about to run
    task,           \* what it is doing, to which document
    got,            \* the sum it has read, or the amount it is to unwind
    expired,        \* slots whose transaction timed out under a nested post
    failures,       \* transactions that failed so far
    disturbed,      \* history: documents two requests shared, or one failed on
    lapsed          \* history: documents whose transaction timed out

vars == <<orders, invoices, invoiced, commitment, consumption, pc, task, got,
          expired, failures, disturbed, lapsed>>

-------------------------------------------------------------------------------
Idle == [kind |-> "none", doc |-> NoOrder]

Creating(p) == task[p].kind \in {"createOrder", "createInvoice"}
OnOrder(p) == task[p].kind \in {"createOrder", "cancelOrder"}

\* The row a slot works on.
Row(p) == IF OnOrder(p) THEN orders[task[p].doc] ELSE invoices[task[p].doc]

\* A row other transactions can read.
Committed(r) == r.status \in {"APPROVED", "VALIDATED", "CANCELLED"}

\* The documents a slot's outcome depends on.
Docs(p) ==
    IF pc[p] = "idle" THEN {}
    ELSE {task[p].doc} \cup
            (IF OnOrder(p) \/ Row(p).order = NoOrder THEN {} ELSE {Row(p).order})

\* The row lock of `UPDATE ... WHERE id`, held until the transaction ends.
RowLocked(p, d) ==
    \E q \in Slots \ {p} :
        task[q].doc = d /\ pc[q] \notin {"idle", "update"} /\ q \notin expired

NewOrder == [status |-> "absent", line |-> NoLine, amount |-> 0]
NewInvoice == [status |-> "absent", line |-> NoLine, order |-> NoOrder, amount |-> 0]
Nothing == [d \in Documents |-> [l \in Lines |-> 0]]

Init ==
    /\ orders = [o \in Orders |-> NewOrder]
    /\ invoices = [i \in Invoices |-> NewInvoice]
    /\ invoiced = [o \in Orders |-> 0]
    /\ commitment = Nothing
    /\ consumption = Nothing
    /\ pc = [p \in Slots |-> "idle"]
    /\ task = [p \in Slots |-> Idle]
    /\ got = [p \in Slots |-> 0]
    /\ expired = {}
    /\ failures = 0
    /\ disturbed = {}
    /\ lapsed = {}

-------------------------------------------------------------------------------
(***************************************************************************)
(* Requests                                                                *)
(***************************************************************************)

\* A slot starts on document d (and on the order `others` it bills).
Start(p, kind, d, others, next) ==
    /\ pc[p] = "idle"
    /\ task' = [task EXCEPT ![p] = [kind |-> kind, doc |-> d]]
    /\ pc' = [pc EXCEPT ![p] = next]
    /\ disturbed' = disturbed \cup (({d} \cup others) \cap UNION {Docs(q) : q \in Slots})
    /\ UNCHANGED <<invoiced, commitment, consumption, got, expired, failures, lapsed>>

\* PurchaseOrdersService.create: the inserted row is invisible until commit.
CreateOrder(p) ==
    \E o \in Orders, l \in Lines \cup {NoLine}, amount \in OrderAmounts :
        /\ orders[o].status = "absent"
        /\ orders' = [orders EXCEPT ![o] =
                        [status |-> "uncommitted", line |-> l, amount |-> amount]]
        /\ Start(p, "createOrder", o, {}, IF l = NoLine THEN "finish" ELSE "post")
        /\ UNCHANGED invoices

\* PurchaseOrdersService.cancel: a CANCELLED order is returned unchanged.
CancelOrder(p) ==
    \E o \in Orders :
        /\ orders[o].status = "APPROVED"
        /\ Start(p, "cancelOrder", o, {}, "update")
        /\ UNCHANGED <<orders, invoices>>

\* The line of an invoice: its own, or that of its order.
EffectiveLine(own, o) ==
    IF own # NoLine \/ o = NoOrder THEN own ELSE orders[o].line

\* InvoicesService.create: the order may be in any committed status.
CreateInvoice(p) ==
    \E i \in Invoices, o \in Orders \cup {NoOrder}, own \in Lines \cup {NoLine},
       amount \in InvoiceAmounts :
        LET l == EffectiveLine(own, o) IN
        /\ invoices[i].status = "absent"
        /\ o # NoOrder => Committed(orders[o])
        /\ invoices' = [invoices EXCEPT ![i] =
                          [status |-> "uncommitted", line |-> l, order |-> o, amount |-> amount]]
        /\ Start(p, "createInvoice", i, {o} \ {NoOrder},
                 IF l = NoLine THEN "finish" ELSE "post")
        /\ UNCHANGED orders

\* InvoicesService.cancel: a CANCELLED invoice is returned unchanged.
CancelInvoice(p) ==
    \E i \in Invoices :
        /\ invoices[i].status = "VALIDATED"
        /\ Start(p, "cancelInvoice", i, {invoices[i].order} \ {NoOrder}, "update")
        /\ UNCHANGED <<orders, invoices>>

-------------------------------------------------------------------------------
(***************************************************************************)
(* Statements                                                              *)
(***************************************************************************)

Goto(p, next) == pc' = [pc EXCEPT ![p] = next]

\* Mutant: the cancellation does not wait for the row.
UpdateStatusUnlocked(p) ==
    /\ pc[p] = "update"
    /\ Goto(p, IF Row(p).line = NoLine THEN "finish" ELSE "post")
    /\ UNCHANGED <<orders, invoices, invoiced, commitment, consumption, task, got,
                   expired, failures, disturbed, lapsed>>

\* status = CANCELLED, on the row whatever became of it since it was read.
UpdateStatus(p) ==
    /\ pc[p] = "update"
    /\ ~RowLocked(p, task[p].doc)
    /\ Goto(p, IF Row(p).line = NoLine THEN "finish" ELSE "post")
    /\ UNCHANGED <<orders, invoices, invoiced, commitment, consumption, task, got,
                   expired, failures, disturbed, lapsed>>

\* A nested events.create by p.  If p's own transaction expired under it, the
\* movement is committed all the same and the next statement of p throws.
Posted(p, sums, amount) ==
    [sums EXCEPT ![task[p].doc][Row(p).line] = @ + amount]

AfterPost(p, next) ==
    /\ Goto(p, IF p \in expired THEN "idle" ELSE next)
    /\ task' = IF p \in expired THEN [task EXCEPT ![p] = Idle] ELSE task
    /\ expired' = expired \ {p}
    /\ UNCHANGED <<orders, invoices, invoiced, failures, disturbed, lapsed>>

\* Mutant: the cancellation of an invoice posts its amount again.
SignedAlwaysPlus(p) == Row(p).amount

\* What creating the document adds, what cancelling it takes back.
Signed(p) == IF Creating(p) THEN Row(p).amount ELSE -Row(p).amount

PostCommitment(p) ==
    /\ pc[p] = "post" /\ OnOrder(p)
    /\ commitment' = Posted(p, commitment, Signed(p))
    /\ AfterPost(p, "finish")
    /\ UNCHANGED <<consumption, got>>

\* Only an invoice of an order unwinds; any cancellation looks for an unwinding.
AfterConsumption(p) ==
    IF Creating(p) THEN IF Row(p).order # NoOrder THEN "readOpen" ELSE "finish"
    ELSE "readUnwound"

PostConsumption(p) ==
    /\ pc[p] = "post" /\ ~OnOrder(p)
    /\ consumption' = Posted(p, consumption, Signed(p))
    /\ AfterPost(p, AfterConsumption(p))
    /\ UNCHANGED <<commitment, got>>

Read(p, value, next) ==
    /\ got' = [got EXCEPT ![p] = value]
    /\ Goto(p, next)
    /\ UNCHANGED <<orders, invoices, invoiced, commitment, consumption, task,
                   expired, failures, disturbed, lapsed>>

\* unwindPurchaseOrderCommitment: the order's commitment on the invoice's line,
ReadOpenCommitment(p) ==
    LET openCommitment == commitment[Row(p).order][Row(p).line] IN
    /\ pc[p] = "readOpen"
    /\ Read(p, openCommitment, IF openCommitment <= 0 THEN "finish" ELSE "readInvoiced")

\* Mutant: the commitment already billed by other invoices is not deducted.
CappedUnwindOfFullOrder(p) ==
    IF got[p] < Row(p).amount THEN got[p] ELSE Row(p).amount

\* ... less what its other invoices bill, and no more than this one bills.
CappedUnwind(p) ==
    LET remainingCommitment == got[p] - invoiced[Row(p).order]
    IN  IF remainingCommitment < Row(p).amount THEN remainingCommitment ELSE Row(p).amount

ReadInvoiced(p) ==
    /\ pc[p] = "readInvoiced"
    /\ Read(p, CappedUnwind(p), IF CappedUnwind(p) <= 0 THEN "finish" ELSE "unwind")

\* restorePurchaseOrderCommitment: what this invoice has unwound so far.
ReadUnwound(p) ==
    LET unwound == commitment[task[p].doc][Row(p).line] IN
    /\ pc[p] = "readUnwound"
    /\ Read(p, unwound, IF unwound = 0 THEN "finish" ELSE "restore")

PostUnwind(p) ==
    /\ pc[p] \in {"unwind", "restore"}
    /\ commitment' = Posted(p, commitment, -got[p])
    /\ AfterPost(p, "finish")
    /\ UNCHANGED <<consumption, got>>

\* Mutant: an invoice inserted with the status of an order.
FinalStatusApproved(p) == IF Creating(p) THEN "APPROVED" ELSE "CANCELLED"

FinalStatus(p) ==
    IF Creating(p) THEN IF OnOrder(p) THEN "APPROVED" ELSE "VALIDATED" ELSE "CANCELLED"

\* What the end of p adds to the VALIDATED invoices of the order it bills.
Billed(p) ==
    IF Creating(p) THEN Row(p).amount
    ELSE IF Row(p).status = "VALIDATED" THEN -Row(p).amount ELSE 0

\* Audit, then commit of the row.
Finish(p) ==
    LET d == task[p].doc
        bills == ~OnOrder(p) /\ Row(p).order # NoOrder
    IN
    /\ pc[p] = "finish"
    /\ orders' = IF OnOrder(p) THEN [orders EXCEPT ![d].status = FinalStatus(p)] ELSE orders
    /\ invoices' = IF OnOrder(p) THEN invoices ELSE [invoices EXCEPT ![d].status = FinalStatus(p)]
    /\ invoiced' = IF bills THEN [invoiced EXCEPT ![Row(p).order] = @ + Billed(p)] ELSE invoiced
    /\ Goto(p, "idle")
    /\ task' = [task EXCEPT ![p] = Idle]
    /\ UNCHANGED <<commitment, consumption, got, expired, failures, disturbed, lapsed>>

-------------------------------------------------------------------------------
(***************************************************************************)
(* Failures                                                                *)
(***************************************************************************)

\* A rolled back insertion leaves no row, and its id is never drawn again.
Discard(p) ==
    /\ orders' = IF task[p].kind = "createOrder"
                 THEN [orders EXCEPT ![task[p].doc].status = "rolledBack"] ELSE orders
    /\ invoices' = IF task[p].kind = "createInvoice"
                   THEN [invoices EXCEPT ![task[p].doc].status = "rolledBack"] ELSE invoices
    /\ disturbed' = disturbed \cup Docs(p)

\* An error of a statement, of the nested service or of the audit, or a crash.
Rollback(p) ==
    /\ pc[p] # "idle"
    /\ failures < MaxFailures
    /\ failures' = failures + 1
    /\ Discard(p)
    /\ Goto(p, "idle")
    /\ task' = [task EXCEPT ![p] = Idle]
    /\ expired' = expired \ {p}
    /\ UNCHANGED <<invoiced, commitment, consumption, got, lapsed>>

\* Prisma's interactive transaction times out while events.create is under
\* way: the row is rolled back and unlocked, the nested transaction goes on.
Expire(p) ==
    /\ pc[p] \in {"post", "unwind", "restore"}
    /\ p \notin expired
    /\ failures < MaxFailures
    /\ failures' = failures + 1
    /\ Discard(p)
    /\ expired' = expired \cup {p}
    /\ lapsed' = lapsed \cup {task[p].doc}
    /\ UNCHANGED <<invoiced, commitment, consumption, pc, task, got>>

Step(p) ==
    \/ CreateOrder(p) \/ CancelOrder(p) \/ CreateInvoice(p) \/ CancelInvoice(p)
    \/ UpdateStatus(p) \/ PostCommitment(p) \/ PostConsumption(p)
    \/ ReadOpenCommitment(p) \/ ReadInvoiced(p) \/ ReadUnwound(p) \/ PostUnwind(p)
    \/ Finish(p) \/ Rollback(p) \/ Expire(p)

Next == \E p \in Slots : Step(p)

Spec == Init /\ [][Next]_vars

-------------------------------------------------------------------------------
(***************************************************************************)
(* Properties                                                              *)
(***************************************************************************)

Statuses == {"absent", "uncommitted", "rolledBack", "CANCELLED"}

TypeOK ==
    /\ orders \in [Orders -> [status: Statuses \cup {"APPROVED"},
                              line: Lines \cup {NoLine}, amount: Int]]
    /\ invoices \in [Invoices -> [status: Statuses \cup {"VALIDATED"},
                                  line: Lines \cup {NoLine},
                                  order: Orders \cup {NoOrder}, amount: Int]]
    /\ invoiced \in [Orders -> Int]
    /\ commitment \in [Documents -> [Lines -> Int]]
    /\ consumption \in [Documents -> [Lines -> Int]]
    /\ pc \in [Slots -> {"idle", "update", "post", "readOpen", "readInvoiced", "unwind",
                          "readUnwound", "restore", "finish"}]
    /\ task \in [Slots ->
          {Idle} \cup [kind: {"createOrder", "cancelOrder"}, doc: Orders]
                 \cup [kind: {"createInvoice", "cancelInvoice"}, doc: Invoices]]
    /\ got \in [Slots -> Int]
    /\ expired \subseteq Slots
    /\ failures \in 0 .. MaxFailures
    /\ disturbed \subseteq Documents
    /\ lapsed \subseteq Documents

\* RFC-FE-BUD-032 5.2: however invoices and cancellations of one order race, and
\* whatever is rolled back, an invoice never unwinds more than it bills and its
\* cancellation never restores more than it had unwound, unless a transaction
\* timed out under the post of that invoice.
UnwindBounded ==
    \A i \in Invoices \ lapsed : \A l \in Lines :
        LET sum == commitment[i][l] IN
        /\ sum <= 0
        /\ sum < 0 => l = invoices[i].line /\ -sum <= invoices[i].amount

InUse(d) == \E p \in Slots : d \in Docs(p)
Settled(d) == d \notin disturbed /\ ~InUse(d)

SettledInvoices ==
    \A i \in Invoices : \A l \in Lines : Settled(i) =>
        /\ consumption[i][l] = IF invoices[i].status = "VALIDATED" /\ l = invoices[i].line
                               THEN invoices[i].amount ELSE 0
        /\ invoices[i].status = "CANCELLED" => commitment[i][l] = 0

InvoicesOf(o) == {i \in Invoices : invoices[i].order = o}

\* What an order and its invoices leave committed on a line.
OpenCommitment(o, l) ==
    commitment[o][l] + SumFunctionOnSet([i \in Invoices |-> commitment[i][l]], InvoicesOf(o))

SettledOrders ==
    \A o \in Orders : \A l \in Lines :
        (/\ Settled(o) /\ orders[o].status = "APPROVED" /\ orders[o].amount >= 0
         /\ \A i \in InvoicesOf(o) : invoices[i].amount >= 0)
        => OpenCommitment(o, l) \in 0 .. orders[o].amount

\* A purchase no two requests shared and none failed on is accounted for.  An
\* invoice has consumed what it bills, and once cancelled it weighs nothing at
\* all; the commitment an order leaves open is counted neither twice nor below
\* zero, as long as none of its invoices is a credit note.
SettledPurchases == SettledInvoices /\ SettledOrders

\* docs/API.md:3559: the unwinding is capped by what the order has left.
UnwindWithinOrder ==
    \A o \in Orders, l \in Lines :
        orders[o].status = "APPROVED" => OpenCommitment(o, l) >= 0
===============================================================================
