-------------------------- MODULE Procurement_proofs --------------------------
(***************************************************************************)
(* Theorems about Procurement, for any number of slots and documents.      *)
(***************************************************************************)
EXTENDS Procurement, SumTheorems

-------------------------------------------------------------------------------
(***************************************************************************)
(* The inductive invariant                                                 *)
(***************************************************************************)

Active(p) == pc[p] # "idle"

\* What the statement a slot is about to run says of its task and its row.
ControlAt(p) ==
    /\ p \in expired => pc[p] \in {"post", "unwind", "restore"} /\ task[p].doc \in lapsed
    /\ Active(p) =>
          /\ task[p].kind # "none"
          /\ Creating(p) => Row(p).status \in {"uncommitted", "rolledBack"}
          /\ ~Creating(p) => Row(p).status \in {"APPROVED", "VALIDATED", "CANCELLED"}
          /\ pc[p] = "update" => ~Creating(p)
          /\ pc[p] \in {"readOpen", "readInvoiced", "unwind"} =>
                task[p].kind = "createInvoice" /\ Row(p).order \in Orders
          /\ pc[p] \in {"readUnwound", "restore"} => task[p].kind = "cancelInvoice"
          /\ pc[p] \notin {"update", "finish"} => Row(p).line \in Lines

\* Nobody else works on a document that is being created.
CreatorAlone ==
    \A p, q \in Slots :
        p # q /\ Active(p) /\ Active(q) /\ Creating(p) => task[p].doc # task[q].doc

\* The row of a document is updated by one open transaction at a time.
Holds(p, d) == task[p].doc = d /\ pc[p] \notin {"idle", "update"} /\ p \notin expired
HolderAlone ==
    \A p, q \in Slots : p # q /\ Holds(p, task[p].doc) => ~Holds(q, task[p].doc)

Control == \A p \in Slots : ControlAt(p)
TypeInv == TypeOK /\ Control /\ CreatorAlone

\* Nothing is unwound before the unwind of a new invoice, and what a
\* cancellation is about to restore is what is unwound.
UnwindAt(p, i) ==
    Active(p) /\ ~OnOrder(p) /\ task[p].doc = i =>
        /\ pc[p] \in {"post", "readOpen", "readInvoiced", "unwind"} /\ Creating(p) =>
              \A l \in Lines : commitment[i][l] = 0
        /\ pc[p] = "unwind" => 0 < got[p] /\ got[p] <= invoices[i].amount
        /\ pc[p] = "restore" => got[p] = commitment[i][invoices[i].line]

UnwindInv ==
    /\ \A i \in Invoices \ lapsed :
          /\ invoices[i].status = "absent" => \A l \in Lines : commitment[i][l] = 0
          /\ \A p \in Slots : UnwindAt(p, i)
    /\ UnwindBounded

IInv == TypeInv /\ HolderAlone /\ UnwindInv

-------------------------------------------------------------------------------
(***************************************************************************)
(* Types and control                                                       *)
(***************************************************************************)

\* The row of a slot at work, by the table it is in.
LEMMA RowOf ==
    ASSUME TypeOK, Control, NEW p \in Slots, Active(p)
    PROVE  /\ OnOrder(p) => task[p].doc \in Orders /\ Row(p) = orders[task[p].doc]
           /\ ~OnOrder(p) => /\ task[p].doc \in Invoices /\ Row(p) = invoices[task[p].doc]
                             /\ Row(p).order \in Orders \cup {NoOrder}
           /\ task[p].doc \in Documents
           /\ Row(p).amount \in Int /\ Row(p).line \in Lines \cup {NoLine}
<1> DEFINE OrderTask == [kind: {"createOrder", "cancelOrder"}, doc: Orders]
           InvoiceTask == [kind: {"createInvoice", "cancelInvoice"}, doc: Invoices]
<1>1. task[p].kind # "none"
  BY DEF Control, ControlAt
<1>2. task[p] \in {Idle} \cup OrderTask \cup InvoiceTask
  BY DEF TypeOK
<1>3. task[p] \in OrderTask \/ task[p] \in InvoiceTask
  <2>1. task[p] # Idle
    BY <1>1 DEF Idle
  <2> HIDE DEF OrderTask, InvoiceTask
  <2> QED
    BY <1>2, <2>1
<1>4. CASE task[p] \in OrderTask
  <2>1. OnOrder(p) /\ task[p].doc \in Orders
    BY <1>4 DEF OnOrder
  <2>2. orders[task[p].doc].amount \in Int /\ orders[task[p].doc].line \in Lines \cup {NoLine}
    BY <2>1 DEF TypeOK
  <2> QED
    BY <2>1, <2>2 DEF Row, Documents
<1>5. CASE task[p] \in InvoiceTask
  <2>1. ~OnOrder(p) /\ task[p].doc \in Invoices
    BY <1>5 DEF OnOrder
  <2>2. /\ invoices[task[p].doc].amount \in Int /\ invoices[task[p].doc].line \in Lines \cup {NoLine}
        /\ invoices[task[p].doc].order \in Orders \cup {NoOrder}
    BY <2>1 DEF TypeOK
  <2> QED
    BY <2>1, <2>2 DEF Row, Documents
<1> QED
  BY <1>3, <1>4, <1>5

LEMMA DocsAreDocuments ==
    ASSUME TypeOK, Control, NEW p \in Slots
    PROVE  Docs(p) \subseteq Documents
  BY RowOf DEF Docs, Active, Documents

LEMMA TypeInit == Init => TypeInv
<1> SUFFICES ASSUME Init PROVE TypeInv
  OBVIOUS
<1>1. TypeOK
  BY ProcurementAssumption DEF Init, TypeOK, Statuses, NewOrder, NewInvoice, Nothing, Idle
<1>2. Control /\ CreatorAlone
  BY DEF Init, Control, ControlAt, CreatorAlone, Active
<1> QED
  BY <1>1, <1>2 DEF TypeInv

\* Typing of a slot that starts.
LEMMA StartType ==
    ASSUME TypeInv, NEW p \in Slots, NEW kind, NEW d, NEW others, NEW next,
           Start(p, kind, d, others, next),
           next \in {"post", "finish", "update"},
           \/ kind \in {"createOrder", "cancelOrder"} /\ d \in Orders
           \/ kind \in {"createInvoice", "cancelInvoice"} /\ d \in Invoices
    PROVE  /\ pc' \in [Slots -> {"idle", "update", "post", "readOpen", "readInvoiced",
                                 "unwind", "readUnwound", "restore", "finish"}]
           /\ task' \in [Slots ->
                {Idle} \cup [kind: {"createOrder", "cancelOrder"}, doc: Orders]
                       \cup [kind: {"createInvoice", "cancelInvoice"}, doc: Invoices]]
           /\ disturbed' \subseteq Documents
           /\ UNCHANGED <<invoiced, commitment, consumption, got, expired, failures, lapsed>>
           /\ pc[p] = "idle" /\ pc'[p] = next
           /\ task'[p] = [kind |-> kind, doc |-> d]
           /\ \A q \in Slots \ {p} : pc'[q] = pc[q] /\ task'[q] = task[q]
<1>1. \A q \in Slots : Docs(q) \subseteq Documents
  BY DocsAreDocuments DEF TypeInv
<1>2. disturbed' \subseteq Documents
  <2>1. UNION {Docs(q) : q \in Slots} \subseteq Documents
    BY <1>1
  <2>2. disturbed \subseteq Documents
    BY DEF TypeInv, TypeOK
  <2> QED
    BY <2>1, <2>2 DEF Start
<1> QED
  BY <1>2 DEF Start, TypeInv, TypeOK

\* A slot whose task, statement and row stay in place keeps its control facts.
LEMMA ControlKept ==
    ASSUME NEW q, ControlAt(q),
           pc'[q] = pc[q], task'[q] = task[q], lapsed \subseteq lapsed',
           q \in expired' => q \in expired,
           Active(q) => /\ Row(q)'.line = Row(q).line
                        /\ ~OnOrder(q) => Row(q)'.order = Row(q).order
                        /\ Creating(q) => Row(q)'.status \in {"uncommitted", "rolledBack"}
                        /\ ~Creating(q) => Row(q)'.status \in {"APPROVED", "VALIDATED", "CANCELLED"}
    PROVE  ControlAt(q)'
<1>1. Creating(q)' = Creating(q) /\ OnOrder(q)' = OnOrder(q) /\ Active(q)' = Active(q)
  BY DEF Creating, OnOrder, Active
<1>2. ASSUME Active(q), task[q].kind = "createInvoice" PROVE ~OnOrder(q)
  BY <1>2 DEF OnOrder
<1> QED
  BY <1>1, <1>2 DEF ControlAt

\* A row is only inserted where there was none, so under nobody at work.
LEMMA FreshRow ==
    ASSUME TypeInv, NEW p \in Slots, CreateOrder(p) \/ CreateInvoice(p),
           NEW q \in Slots, Active(q)
    PROVE  /\ q # p
           /\ OnOrder(q) => orders'[task[q].doc] = orders[task[q].doc]
           /\ ~OnOrder(q) => invoices'[task[q].doc] = invoices[task[q].doc]
<1> USE DEF TypeInv
<1>1. OnOrder(q) => task[q].doc \in Orders /\ orders[task[q].doc].status # "absent"
  BY RowOf DEF Control, ControlAt
<1>2. ~OnOrder(q) => task[q].doc \in Invoices /\ invoices[task[q].doc].status # "absent"
  BY RowOf DEF Control, ControlAt
<1>3. CASE CreateOrder(p)
  BY <1>1, <1>2, <1>3 DEF CreateOrder, Start, Active, TypeOK
<1>4. CASE CreateInvoice(p)
  BY <1>1, <1>2, <1>4 DEF CreateInvoice, Start, Active, TypeOK
<1> QED
  BY <1>3, <1>4

\* A slot that starts, on a row just inserted or on a committed one.
LEMMA Started ==
    ASSUME TypeInv, NEW p \in Slots, NEW kind, NEW d, NEW others, NEW next, NEW r,
           Start(p, kind, d, others, next),
           next \in {"post", "finish", "update"},
           \/ kind \in {"createOrder", "cancelOrder"} /\ d \in Orders /\ r = orders'[d]
           \/ kind \in {"createInvoice", "cancelInvoice"} /\ d \in Invoices /\ r = invoices'[d],
           orders' \in [Orders -> [status: Statuses \cup {"APPROVED"},
                                   line: Lines \cup {NoLine}, amount: Int]],
           invoices' \in [Invoices -> [status: Statuses \cup {"VALIDATED"},
                                       line: Lines \cup {NoLine},
                                       order: Orders \cup {NoOrder}, amount: Int]],
           kind \in {"createOrder", "createInvoice"} =>
              next # "update" /\ r.status = "uncommitted",
           kind \in {"cancelOrder", "cancelInvoice"} =>
              next = "update" /\ r.status \in {"APPROVED", "VALIDATED"},
           next = "post" => r.line \in Lines,
           \A q \in Slots : Active(q) =>
              /\ OnOrder(q) => orders'[task[q].doc] = orders[task[q].doc]
              /\ ~OnOrder(q) => invoices'[task[q].doc] = invoices[task[q].doc]
              /\ Creating(q) \/ kind \in {"createOrder", "createInvoice"} => task[q].doc # d
    PROVE  TypeInv'
<1> USE DEF TypeInv
<1>1. /\ pc' \in [Slots -> {"idle", "update", "post", "readOpen", "readInvoiced",
                            "unwind", "readUnwound", "restore", "finish"}]
      /\ task' \in [Slots ->
          {Idle} \cup [kind: {"createOrder", "cancelOrder"}, doc: Orders]
                 \cup [kind: {"createInvoice", "cancelInvoice"}, doc: Invoices]]
      /\ disturbed' \subseteq Documents
      /\ UNCHANGED <<invoiced, commitment, consumption, got, expired, failures, lapsed>>
      /\ pc[p] = "idle" /\ pc'[p] = next
      /\ task'[p] = [kind |-> kind, doc |-> d]
      /\ \A q \in Slots \ {p} : pc'[q] = pc[q] /\ task'[q] = task[q]
  BY StartType
<1>2. TypeOK'
  BY <1>1 DEF TypeOK
<1>3. ASSUME NEW q \in Slots \ {p} PROVE ControlAt(q)'
  <2>1. pc'[q] = pc[q] /\ task'[q] = task[q] /\ UNCHANGED <<expired, lapsed>>
    BY <1>1
  <2>2. Active(q) => Row(q)' = Row(q)
    BY <2>1 DEF Row, OnOrder
  <2> QED
    BY <2>1, <2>2, ControlKept DEF Control, ControlAt
<1>4. ControlAt(p)'
  <2>1. /\ pc[p] = "idle" /\ pc'[p] = next /\ task'[p] = [kind |-> kind, doc |-> d]
        /\ UNCHANGED <<expired, lapsed>>
    BY <1>1
  <2>2. /\ Row(p)' = r
        /\ Creating(p)' <=> kind \in {"createOrder", "createInvoice"}
    BY <2>1 DEF OnOrder, Creating, Row
  <2>3. p \notin expired
    BY <2>1 DEF Control, ControlAt
  <2> QED
    BY <2>1, <2>2, <2>3 DEF ControlAt
<1>5. CreatorAlone'
  <2>1. \A q \in Slots \ {p} : pc'[q] = pc[q] /\ task'[q] = task[q]
    BY <1>1
  <2>2. task'[p].doc = d /\ task'[p].kind = kind
    BY <1>1
  <2> QED
    BY <2>1, <2>2 DEF CreatorAlone, Active, Creating
<1> QED
  BY <1>2, <1>3, <1>4, <1>5 DEF Control

\* No slot at work is on a row that does not exist, or that is of another table.
LEMMA BusyRow ==
    ASSUME TypeInv, NEW q \in Slots, Active(q)
    PROVE  /\ \A o \in Orders : task[q].doc = o =>
                 OnOrder(q) /\ orders[o].status # "absent"
                            /\ (Creating(q) => orders[o].status # "APPROVED")
           /\ \A i \in Invoices : task[q].doc = i =>
                 ~OnOrder(q) /\ invoices[i].status # "absent"
                             /\ (Creating(q) => invoices[i].status # "VALIDATED")
<1>1. CASE OnOrder(q)
  <2>1. task[q].doc \in Orders /\ Row(q) = orders[task[q].doc]
    BY <1>1, RowOf DEF TypeInv
  <2>2. task[q].doc \notin Invoices
    BY <2>1, ProcurementAssumption
  <2> QED
    BY <1>1, <2>1, <2>2 DEF TypeInv, Control, ControlAt
<1>2. CASE ~OnOrder(q)
  <2>1. task[q].doc \in Invoices /\ Row(q) = invoices[task[q].doc]
    BY <1>2, RowOf DEF TypeInv
  <2>2. task[q].doc \notin Orders
    BY <2>1, ProcurementAssumption
  <2> QED
    BY <1>2, <2>1, <2>2 DEF TypeInv, Control, ControlAt
<1> QED
  BY <1>1, <1>2

LEMMA TypeCreateOrder ==
    ASSUME TypeInv, NEW p \in Slots, CreateOrder(p)
    PROVE  TypeInv'
<1>1. PICK o \in Orders, l \in Lines \cup {NoLine}, amount \in OrderAmounts :
        /\ orders[o].status = "absent"
        /\ orders' = [orders EXCEPT ![o] =
                        [status |-> "uncommitted", line |-> l, amount |-> amount]]
        /\ Start(p, "createOrder", o, {}, IF l = NoLine THEN "finish" ELSE "post")
        /\ UNCHANGED invoices
  BY DEF CreateOrder
<1> DEFINE next == IF l = NoLine THEN "finish" ELSE "post"
           r == orders'[o]
<1>2. amount \in Int /\ next \in {"post", "finish"} /\ (next = "post" => l \in Lines)
  BY ProcurementAssumption
<1>3. Start(p, "createOrder", o, {}, next)
  BY <1>1
<1> HIDE DEF next
<1>4. r = [status |-> "uncommitted", line |-> l, amount |-> amount]
  BY <1>1 DEF TypeInv, TypeOK
<1>5. /\ orders' \in [Orders -> [status: Statuses \cup {"APPROVED"},
                                 line: Lines \cup {NoLine}, amount: Int]]
      /\ invoices' \in [Invoices -> [status: Statuses \cup {"VALIDATED"},
                                     line: Lines \cup {NoLine},
                                     order: Orders \cup {NoOrder}, amount: Int]]
  BY <1>1, <1>2 DEF TypeInv, TypeOK, Statuses
<1>6. \A q \in Slots : Active(q) => task[q].doc # o
  BY <1>1, BusyRow
<1>7. \A q \in Slots : Active(q) =>
          /\ OnOrder(q) => orders'[task[q].doc] = orders[task[q].doc]
          /\ ~OnOrder(q) => invoices'[task[q].doc] = invoices[task[q].doc]
  BY <1>1, FreshRow
<1> HIDE DEF r
<1> QED
  BY <1>2, <1>3, <1>4, <1>5, <1>6, <1>7, Started DEF r

LEMMA TypeCreateInvoice ==
    ASSUME TypeInv, NEW p \in Slots, CreateInvoice(p)
    PROVE  TypeInv'
<1>1. PICK i \in Invoices, o \in Orders \cup {NoOrder}, own \in Lines \cup {NoLine},
           amount \in InvoiceAmounts :
        LET l == EffectiveLine(own, o) IN
        /\ invoices[i].status = "absent"
        /\ invoices' = [invoices EXCEPT ![i] =
                          [status |-> "uncommitted", line |-> l, order |-> o, amount |-> amount]]
        /\ Start(p, "createInvoice", i, {o} \ {NoOrder},
                 IF l = NoLine THEN "finish" ELSE "post")
        /\ UNCHANGED orders
  BY DEF CreateInvoice
<1> DEFINE l == EffectiveLine(own, o)
           next == IF l = NoLine THEN "finish" ELSE "post"
           r == invoices'[i]
<1>2. l \in Lines \cup {NoLine}
  BY DEF EffectiveLine, TypeInv, TypeOK
<1>3. amount \in Int /\ next \in {"post", "finish"} /\ (next = "post" => l \in Lines)
  BY <1>2, ProcurementAssumption
<1>4. /\ invoices[i].status = "absent"
      /\ invoices' = [invoices EXCEPT ![i] =
                        [status |-> "uncommitted", line |-> l, order |-> o, amount |-> amount]]
      /\ Start(p, "createInvoice", i, {o} \ {NoOrder}, next)
      /\ UNCHANGED orders
  BY <1>1
<1> HIDE DEF next, l
<1>5. r = [status |-> "uncommitted", line |-> l, order |-> o, amount |-> amount]
  BY <1>4 DEF TypeInv, TypeOK
<1>6. /\ orders' \in [Orders -> [status: Statuses \cup {"APPROVED"},
                                 line: Lines \cup {NoLine}, amount: Int]]
      /\ invoices' \in [Invoices -> [status: Statuses \cup {"VALIDATED"},
                                     line: Lines \cup {NoLine},
                                     order: Orders \cup {NoOrder}, amount: Int]]
  BY <1>2, <1>3, <1>4 DEF TypeInv, TypeOK, Statuses
<1>7. \A q \in Slots : Active(q) => task[q].doc # i
  BY <1>4, BusyRow
<1>8. \A q \in Slots : Active(q) =>
          /\ OnOrder(q) => orders'[task[q].doc] = orders[task[q].doc]
          /\ ~OnOrder(q) => invoices'[task[q].doc] = invoices[task[q].doc]
  BY FreshRow
<1> HIDE DEF r
<1> QED
  BY <1>3, <1>4, <1>5, <1>6, <1>7, <1>8, Started DEF r

LEMMA TypeCancel ==
    ASSUME TypeInv, NEW p \in Slots, CancelOrder(p) \/ CancelInvoice(p)
    PROVE  TypeInv'
<1>0. UNCHANGED <<orders, invoices>>
  BY DEF CancelOrder, CancelInvoice
<1>1. CASE CancelOrder(p)
  <2>1. PICK o \in Orders :
            orders[o].status = "APPROVED" /\ Start(p, "cancelOrder", o, {}, "update")
    BY <1>1 DEF CancelOrder
  <2>2. \A q \in Slots : Active(q) /\ Creating(q) => task[q].doc # o
    BY <2>1, BusyRow
  <2> QED
    BY <1>0, <2>1, <2>2, Started DEF TypeInv, TypeOK
<1>2. CASE CancelInvoice(p)
  <2>1. PICK i \in Invoices :
            /\ invoices[i].status = "VALIDATED"
            /\ Start(p, "cancelInvoice", i, {invoices[i].order} \ {NoOrder}, "update")
    BY <1>2 DEF CancelInvoice
  <2>2. \A q \in Slots : Active(q) /\ Creating(q) => task[q].doc # i
    BY <2>1, BusyRow
  <2> QED
    BY <1>0, <2>1, <2>2, Started DEF TypeInv, TypeOK
<1> QED
  BY <1>1, <1>2

Statements == {"update", "post", "readOpen", "readInvoiced", "unwind", "readUnwound",
               "restore", "finish"}

\* A slot that runs a statement on rows that stay, and ends or goes on.
LEMMA Moved ==
    ASSUME TypeInv, NEW p \in Slots, NEW next, Active(p), TypeOK',
           UNCHANGED <<orders, invoices, lapsed>>,
           \A q \in Slots \ {p} :
              pc'[q] = pc[q] /\ task'[q] = task[q] /\ (q \in expired' => q \in expired),
           pc'[p] = next, p \notin expired',
           \/ next = "idle"
           \/ /\ task'[p] = task[p]
              /\ next \in {"post", "readOpen", "readInvoiced", "unwind", "readUnwound",
                           "restore", "finish"}
              /\ next \in {"readOpen", "readInvoiced", "unwind"} =>
                    task[p].kind = "createInvoice" /\ Row(p).order \in Orders
              /\ next \in {"readUnwound", "restore"} => task[p].kind = "cancelInvoice"
              /\ next # "finish" => Row(p).line \in Lines
    PROVE  TypeInv'
<1> USE DEF TypeInv
<1>1. ASSUME NEW q \in Slots \ {p} PROVE ControlAt(q)'
  <2>1. Active(q) => Row(q)' = Row(q)
    BY DEF Row, OnOrder
  <2> QED
    BY <2>1, ControlKept DEF Control, ControlAt
<1>2. ControlAt(p)'
  <2>1. CASE next = "idle"
    BY <2>1 DEF ControlAt, Active
  <2>2. CASE next # "idle"
    <3>1. Row(p)' = Row(p) /\ Creating(p)' = Creating(p) /\ task'[p] = task[p]
      BY <2>2 DEF Row, OnOrder, Creating
    <3> QED
      BY <2>2, <3>1 DEF ControlAt, Control
  <2> QED
    BY <2>1, <2>2
<1>3. CreatorAlone'
  BY DEF CreatorAlone, Active, Creating
<1> QED
  BY <1>1, <1>2, <1>3 DEF Control

LEMMA TypeUpdate ==
    ASSUME TypeInv, NEW p \in Slots, UpdateStatus(p)
    PROVE  TypeInv'
<1> DEFINE next == IF Row(p).line = NoLine THEN "finish" ELSE "post"
<1>1. /\ pc[p] = "update" /\ Active(p) /\ pc' = [pc EXCEPT ![p] = next]
      /\ UNCHANGED <<orders, invoices, invoiced, commitment, consumption, task, got,
                     expired, failures, disturbed, lapsed>>
  BY DEF UpdateStatus, Goto, Active
<1>2. next \in {"post", "finish"} /\ (next # "finish" => Row(p).line \in Lines)
  BY <1>1, RowOf DEF TypeInv
<1> HIDE DEF next
<1>3. TypeOK'
  BY <1>1, <1>2 DEF TypeInv, TypeOK
<1>4. p \notin expired /\ pc'[p] = next
  BY <1>1 DEF TypeInv, TypeOK, Control, ControlAt
<1> QED
  BY <1>1, <1>2, <1>3, <1>4, Moved DEF TypeInv, TypeOK

\* The sums a post leaves.
LEMMA PostedSums ==
    ASSUME TypeInv, NEW p \in Slots, Active(p), Row(p).line \in Lines,
           NEW sums \in [Documents -> [Lines -> Int]], NEW amount \in Int
    PROVE  /\ Posted(p, sums, amount) \in [Documents -> [Lines -> Int]]
           /\ \A d \in Documents : \A l \in Lines :
                Posted(p, sums, amount)[d][l] =
                  sums[d][l] + IF d = task[p].doc /\ l = Row(p).line THEN amount ELSE 0
<1>1. task[p].doc \in Documents
  BY RowOf DEF TypeInv
<1> DEFINE d == task[p].doc
           l == Row(p).line
           inner == [sums[d] EXCEPT ![l] = sums[d][l] + amount]
<1>2. Posted(p, sums, amount) = [sums EXCEPT ![d] = inner]
  BY DEF Posted
<1>3. inner \in [Lines -> Int]
  BY <1>1
<1>4. \A k \in Lines : inner[k] = sums[d][k] + IF k = l THEN amount ELSE 0
  BY <1>1
<1> HIDE DEF inner, l
<1> QED
  BY <1>1, <1>2, <1>3, <1>4 DEF l

LEMMA TypePost ==
    ASSUME TypeInv, NEW p \in Slots,
           PostCommitment(p) \/ PostConsumption(p) \/ PostUnwind(p)
    PROVE  TypeInv'
<1>0. Active(p) /\ pc[p] \in {"post", "unwind", "restore"}
  BY DEF PostCommitment, PostConsumption, PostUnwind, Active
<1>1. /\ Row(p).line \in Lines /\ Row(p).amount \in Int /\ got[p] \in Int
      /\ ~OnOrder(p) => Row(p).order \in Orders \cup {NoOrder}
  BY <1>0, RowOf DEF TypeInv, Control, ControlAt, TypeOK
<1>2. Signed(p) \in Int /\ -got[p] \in Int
  BY <1>1 DEF Signed
<1>3. /\ commitment' \in [Documents -> [Lines -> Int]]
      /\ consumption' \in [Documents -> [Lines -> Int]]
      /\ UNCHANGED got
  <2>1. CASE PostCommitment(p)
    BY <1>0, <1>1, <1>2, <2>1, PostedSums DEF PostCommitment, TypeInv, TypeOK
  <2>2. CASE PostConsumption(p)
    BY <1>0, <1>1, <1>2, <2>2, PostedSums DEF PostConsumption, TypeInv, TypeOK
  <2>3. CASE PostUnwind(p)
    BY <1>0, <1>1, <1>2, <2>3, PostedSums DEF PostUnwind, TypeInv, TypeOK
  <2> QED
    BY <2>1, <2>2, <2>3
<1>4. PICK next \in {"finish", "readUnwound", "readOpen"} :
        /\ AfterPost(p, next)
        /\ next = "readUnwound" => ~OnOrder(p) /\ ~Creating(p)
        /\ next = "readOpen" => ~OnOrder(p) /\ Creating(p) /\ Row(p).order # NoOrder
  <2>1. CASE PostCommitment(p) \/ PostUnwind(p)
    BY <2>1 DEF PostCommitment, PostUnwind
  <2>2. CASE PostConsumption(p)
    <3>1. AfterConsumption(p) \in {"finish", "readUnwound", "readOpen"}
      BY DEF AfterConsumption
    <3>2. /\ AfterConsumption(p) = "readUnwound" => ~Creating(p)
          /\ AfterConsumption(p) = "readOpen" => Creating(p) /\ Row(p).order # NoOrder
      BY DEF AfterConsumption
    <3>3. ~OnOrder(p) /\ AfterPost(p, AfterConsumption(p))
      BY <2>2 DEF PostConsumption
    <3> QED
      BY <3>1, <3>2, <3>3
  <2> QED
    BY <2>1, <2>2
<1> DEFINE then == IF p \in expired THEN "idle" ELSE next
<1>5. /\ then \in {"idle", "finish", "readUnwound", "readOpen"}
      /\ pc' = [pc EXCEPT ![p] = then]
      /\ task' = IF p \in expired THEN [task EXCEPT ![p] = Idle] ELSE task
      /\ expired' = expired \ {p}
      /\ UNCHANGED <<orders, invoices, invoiced, failures, disturbed, lapsed>>
  BY <1>4 DEF AfterPost, Goto
<1>6. then # "idle" => task' = task /\ then = next
  BY <1>4, <1>5
<1>7. task[p].kind # "none" /\ task[p] \in {Idle} \cup [kind: {"createOrder", "cancelOrder"}, doc: Orders]
                       \cup [kind: {"createInvoice", "cancelInvoice"}, doc: Invoices]
  BY <1>0 DEF TypeInv, TypeOK, Control, ControlAt
<1>8. /\ then = "readUnwound" => task[p].kind = "cancelInvoice"
      /\ then = "readOpen" => task[p].kind = "createInvoice" /\ Row(p).order \in Orders
  BY <1>1, <1>4, <1>6, <1>7 DEF OnOrder, Creating, Idle
<1> HIDE DEF then
<1>9. TypeOK'
  BY <1>3, <1>5 DEF TypeInv, TypeOK
<1>10. /\ \A q \in Slots \ {p} : pc'[q] = pc[q] /\ task'[q] = task[q]
       /\ pc'[p] = then
  BY <1>5 DEF TypeInv, TypeOK
<1> QED
  BY <1>0, <1>1, <1>5, <1>6, <1>8, <1>9, <1>10, Moved

LEMMA TypeRead ==
    ASSUME TypeInv, NEW p \in Slots,
           ReadOpenCommitment(p) \/ ReadInvoiced(p) \/ ReadUnwound(p)
    PROVE  TypeInv'
<1>0. Active(p) /\ pc[p] \in {"readOpen", "readInvoiced", "readUnwound"}
  BY DEF ReadOpenCommitment, ReadInvoiced, ReadUnwound, Active
<1>1. /\ Row(p).line \in Lines /\ Row(p).amount \in Int /\ got[p] \in Int
      /\ task[p].doc \in Documents /\ p \notin expired
      /\ pc[p] \in {"readOpen", "readInvoiced"} =>
            task[p].kind = "createInvoice" /\ Row(p).order \in Orders
      /\ pc[p] = "readUnwound" => task[p].kind = "cancelInvoice"
  BY <1>0, RowOf DEF TypeInv, Control, ControlAt, TypeOK
<1>2. PICK value \in Int, next \in {"finish", "readInvoiced", "unwind", "restore"} :
        /\ Read(p, value, next)
        /\ next \in {"readInvoiced", "unwind"} => pc[p] \in {"readOpen", "readInvoiced"}
        /\ next = "restore" => pc[p] = "readUnwound"
  <2>1. CASE ReadOpenCommitment(p)
    <3>1. commitment[Row(p).order][Row(p).line] \in Int
      BY <1>1, <2>1 DEF ReadOpenCommitment, TypeInv, TypeOK, Documents
    <3> QED
      BY <2>1, <3>1 DEF ReadOpenCommitment
  <2>2. CASE ReadInvoiced(p)
    <3>1. invoiced[Row(p).order] \in Int
      BY <1>1, <2>2 DEF ReadInvoiced, TypeInv, TypeOK
    <3>2. CappedUnwind(p) \in Int
      BY <1>1, <3>1 DEF CappedUnwind
    <3> QED
      BY <2>2, <3>2 DEF ReadInvoiced
  <2>3. CASE ReadUnwound(p)
    <3>1. commitment[task[p].doc][Row(p).line] \in Int
      BY <1>1 DEF TypeInv, TypeOK
    <3> QED
      BY <2>3, <3>1 DEF ReadUnwound
  <2> QED
    BY <2>1, <2>2, <2>3
<1>3. TypeOK'
  BY <1>2 DEF Read, Goto, TypeInv, TypeOK
<1>4. /\ pc'[p] = next /\ UNCHANGED <<orders, invoices, lapsed, task, expired>>
      /\ \A q \in Slots \ {p} : pc'[q] = pc[q]
  BY <1>2 DEF Read, Goto, TypeInv, TypeOK
<1> QED
  BY <1>0, <1>1, <1>2, <1>3, <1>4, Moved

LEMMA TypeFinish ==
    ASSUME TypeInv, NEW p \in Slots, Finish(p)
    PROVE  TypeInv'
<1> USE DEF TypeInv
<1> DEFINE d == task[p].doc
<1>0. /\ Active(p) /\ pc[p] = "finish" /\ p \notin expired
      /\ pc' = [pc EXCEPT ![p] = "idle"] /\ task' = [task EXCEPT ![p] = Idle]
      /\ UNCHANGED <<commitment, consumption, got, expired, failures, disturbed, lapsed>>
  BY DEF Finish, Goto, Active, Control, ControlAt
<1>1. /\ OnOrder(p) => FinalStatus(p) \in {"APPROVED", "CANCELLED"}
      /\ ~OnOrder(p) => FinalStatus(p) \in {"VALIDATED", "CANCELLED"}
      /\ ~Creating(p) => FinalStatus(p) = "CANCELLED"
  BY DEF FinalStatus
<1>2. /\ orders' \in [Orders -> [status: Statuses \cup {"APPROVED"},
                                 line: Lines \cup {NoLine}, amount: Int]]
      /\ \A o \in Orders :
            /\ orders'[o].line = orders[o].line
            /\ orders'[o].status = IF OnOrder(p) /\ o = d THEN FinalStatus(p)
                                   ELSE orders[o].status
  <2>1. CASE OnOrder(p)
    <3>1. FinalStatus(p) \in Statuses \cup {"APPROVED"} /\ d \in Orders
      BY <1>0, <1>1, <2>1, RowOf DEF Statuses
    <3>2. orders' = [orders EXCEPT ![d].status = FinalStatus(p)]
      BY <2>1 DEF Finish
    <3> QED
      BY <2>1, <3>1, <3>2 DEF TypeOK
  <2>2. CASE ~OnOrder(p)
    BY <2>2 DEF Finish, TypeOK
  <2> QED
    BY <2>1, <2>2
<1>3. /\ invoices' \in [Invoices -> [status: Statuses \cup {"VALIDATED"},
                                     line: Lines \cup {NoLine},
                                     order: Orders \cup {NoOrder}, amount: Int]]
      /\ \A i \in Invoices :
            /\ invoices'[i].line = invoices[i].line /\ invoices'[i].order = invoices[i].order
            /\ invoices'[i].status = IF ~OnOrder(p) /\ i = d THEN FinalStatus(p)
                                     ELSE invoices[i].status
  <2>1. CASE ~OnOrder(p)
    <3>1. FinalStatus(p) \in Statuses \cup {"VALIDATED"} /\ d \in Invoices
      BY <1>0, <1>1, <2>1, RowOf DEF Statuses
    <3>2. invoices' = [invoices EXCEPT ![d].status = FinalStatus(p)]
      BY <2>1 DEF Finish
    <3> QED
      BY <2>1, <3>1, <3>2 DEF TypeOK
  <2>2. CASE OnOrder(p)
    BY <2>2 DEF Finish, TypeOK
  <2> QED
    BY <2>1, <2>2
<1>4. invoiced' \in [Orders -> Int]
  <2>1. CASE ~OnOrder(p) /\ Row(p).order # NoOrder
    <3>1. Row(p).order \in Orders /\ Row(p).amount \in Int
      BY <1>0, <2>1, RowOf
    <3>2. invoiced[Row(p).order] \in Int /\ -Row(p).amount \in Int
      BY <3>1 DEF TypeOK
    <3>3. Billed(p) \in Int
      BY <3>1, <3>2 DEF Billed
    <3>4. invoiced' = [invoiced EXCEPT ![Row(p).order] = invoiced[Row(p).order] + Billed(p)]
      BY <2>1 DEF Finish
    <3>5. invoiced[Row(p).order] + Billed(p) \in Int
      BY <3>2, <3>3
    <3> QED
      BY <3>4, <3>5 DEF TypeOK
  <2>2. CASE ~(~OnOrder(p) /\ Row(p).order # NoOrder)
    BY <2>2 DEF Finish, TypeOK
  <2> QED
    BY <2>1, <2>2
<1>5. TypeOK'
  BY <1>0, <1>2, <1>3, <1>4 DEF TypeOK
<1>6. \A q \in Slots \ {p} : pc'[q] = pc[q] /\ task'[q] = task[q]
  BY <1>0 DEF TypeOK
<1>7. ASSUME NEW q \in Slots \ {p} PROVE ControlAt(q)'
  <2>1. ASSUME Active(q), Creating(q)
        PROVE  task[q].doc # d
    BY <1>0, <2>1 DEF CreatorAlone
  <2>2. ASSUME Active(q), Creating(p)
        PROVE  task[q].doc # d
    BY <1>0, <2>2 DEF CreatorAlone
  <2>3. Active(q) =>
          /\ Row(q)'.line = Row(q).line
          /\ ~OnOrder(q) => Row(q)'.order = Row(q).order
          /\ \/ Row(q)'.status = Row(q).status
             \/ ~Creating(q) /\ ~Creating(p) /\ Row(q)'.status = FinalStatus(p)
    <3>1. CASE OnOrder(q) /\ Active(q)
      <4>1. /\ task[q].doc \in Orders /\ Row(q) = orders[task[q].doc]
            /\ Row(q)' = orders'[task[q].doc]
        BY <1>6, <3>1, RowOf DEF Row, OnOrder
      <4> QED
        BY <1>2, <2>1, <2>2, <3>1, <4>1
    <3>2. CASE ~OnOrder(q) /\ Active(q)
      <4>1. /\ task[q].doc \in Invoices /\ Row(q) = invoices[task[q].doc]
            /\ Row(q)' = invoices'[task[q].doc]
        BY <1>6, <3>2, RowOf DEF Row, OnOrder
      <4> QED
        BY <1>3, <2>1, <2>2, <3>2, <4>1
    <3> QED
      BY <3>1, <3>2
  <2>4. ~Creating(p) => FinalStatus(p) = "CANCELLED"
    BY <1>1
  <2>5. ControlAt(q)
    BY DEF Control
  <2>6. Active(q) =>
          /\ Creating(q) => Row(q)'.status \in {"uncommitted", "rolledBack"}
          /\ ~Creating(q) => Row(q)'.status \in {"APPROVED", "VALIDATED", "CANCELLED"}
    BY <2>3, <2>4, <2>5 DEF ControlAt
  <2> QED
    BY <1>0, <1>6, <2>3, <2>5, <2>6, ControlKept
<1>8. ControlAt(p)' /\ CreatorAlone'
  BY <1>0, <1>6 DEF ControlAt, CreatorAlone, Active, Creating, TypeOK
<1> QED
  BY <1>5, <1>7, <1>8 DEF Control

\* What a rollback does to the rows.
LEMMA TypeDiscard ==
    ASSUME TypeInv, NEW p \in Slots, Active(p), Discard(p)
    PROVE  /\ orders' \in [Orders -> [status: Statuses \cup {"APPROVED"},
                                      line: Lines \cup {NoLine}, amount: Int]]
           /\ invoices' \in [Invoices -> [status: Statuses \cup {"VALIDATED"},
                                          line: Lines \cup {NoLine},
                                          order: Orders \cup {NoOrder}, amount: Int]]
           /\ disturbed' \subseteq Documents
           /\ \A o \in Orders :
                /\ orders'[o].line = orders[o].line /\ orders'[o].amount = orders[o].amount
                /\ \/ orders'[o].status = orders[o].status
                   \/ Creating(p) /\ task[p].doc = o /\ orders'[o].status = "rolledBack"
           /\ \A i \in Invoices :
                /\ invoices'[i].line = invoices[i].line /\ invoices'[i].order = invoices[i].order
                /\ invoices'[i].amount = invoices[i].amount
                /\ \/ invoices'[i].status = invoices[i].status
                   \/ Creating(p) /\ task[p].doc = i /\ invoices'[i].status = "rolledBack"
<1> USE DEF TypeInv
<1>1. disturbed' \subseteq Documents
  BY DocsAreDocuments DEF Discard, TypeOK
<1>2. CASE task[p].kind = "createOrder"
  <2>1. /\ orders' = [orders EXCEPT ![task[p].doc].status = "rolledBack"]
        /\ UNCHANGED invoices /\ OnOrder(p) /\ Creating(p)
    BY <1>2 DEF Discard, OnOrder, Creating
  <2>2. task[p].doc \in Orders
    BY <2>1, RowOf
  <2> QED
    BY <1>1, <2>1, <2>2 DEF TypeOK, Statuses
<1>3. CASE task[p].kind = "createInvoice"
  <2>1. /\ invoices' = [invoices EXCEPT ![task[p].doc].status = "rolledBack"]
        /\ UNCHANGED orders /\ ~OnOrder(p) /\ Creating(p)
    BY <1>3 DEF Discard, OnOrder, Creating
  <2>2. task[p].doc \in Invoices
    BY <2>1, RowOf
  <2> QED
    BY <1>1, <2>1, <2>2 DEF TypeOK, Statuses
<1>4. CASE task[p].kind \notin {"createOrder", "createInvoice"}
  BY <1>1, <1>4 DEF Discard, TypeOK
<1> QED
  BY <1>2, <1>3, <1>4

LEMMA TypeFail ==
    ASSUME TypeInv, NEW p \in Slots, Rollback(p) \/ Expire(p)
    PROVE  TypeInv'
<1> USE DEF TypeInv
<1>0. /\ Active(p) /\ Discard(p) /\ failures' = failures + 1 /\ failures < MaxFailures
      /\ UNCHANGED <<invoiced, commitment, consumption, got>>
      /\ \/ /\ pc' = [pc EXCEPT ![p] = "idle"] /\ task' = [task EXCEPT ![p] = Idle]
            /\ expired' = expired \ {p} /\ UNCHANGED lapsed
         \/ /\ UNCHANGED <<pc, task>> /\ expired' = expired \cup {p}
            /\ lapsed' = lapsed \cup {task[p].doc}
            /\ pc[p] \in {"post", "unwind", "restore"}
  BY DEF Rollback, Expire, Goto, Active
<1>1. failures' \in 0 .. MaxFailures
  BY <1>0, ProcurementAssumption DEF TypeOK
<1>2. lapsed' \subseteq Documents /\ expired' \subseteq Slots /\ lapsed \subseteq lapsed'
  BY <1>0, RowOf DEF TypeOK
<1>3. TypeOK'
  <2>1. task' \in [Slots ->
          {Idle} \cup [kind: {"createOrder", "cancelOrder"}, doc: Orders]
                 \cup [kind: {"createInvoice", "cancelInvoice"}, doc: Invoices]]
    BY <1>0 DEF TypeOK
  <2>2. pc' \in [Slots -> {"idle", "update", "post", "readOpen", "readInvoiced", "unwind",
                          "readUnwound", "restore", "finish"}]
    BY <1>0 DEF TypeOK
  <2>3. /\ invoiced' \in [Orders -> Int] /\ got' \in [Slots -> Int]
        /\ commitment' \in [Documents -> [Lines -> Int]]
        /\ consumption' \in [Documents -> [Lines -> Int]]
    BY <1>0 DEF TypeOK
  <2>4. /\ orders' \in [Orders -> [status: Statuses \cup {"APPROVED"},
                                   line: Lines \cup {NoLine}, amount: Int]]
        /\ invoices' \in [Invoices -> [status: Statuses \cup {"VALIDATED"},
                                       line: Lines \cup {NoLine},
                                       order: Orders \cup {NoOrder}, amount: Int]]
        /\ disturbed' \subseteq Documents
    BY <1>0, TypeDiscard
  <2> QED
    BY <1>1, <1>2, <2>1, <2>2, <2>3, <2>4 DEF TypeOK
<1>4. \A q \in Slots \ {p} :
          pc'[q] = pc[q] /\ task'[q] = task[q] /\ (q \in expired' => q \in expired)
  BY <1>0 DEF TypeOK
<1>5. ASSUME NEW q \in Slots, task'[q] = task[q], Active(q)
      PROVE  /\ Row(q)'.line = Row(q).line
             /\ ~OnOrder(q) => Row(q)'.order = Row(q).order
             /\ Creating(q) => Row(q)'.status \in {"uncommitted", "rolledBack"}
             /\ ~Creating(q) => Row(q)'.status \in {"APPROVED", "VALIDATED", "CANCELLED"}
  <2>1. Creating(p) /\ task[p].doc = task[q].doc => Creating(q)
    BY <1>0, <1>5 DEF CreatorAlone
  <2>2. ControlAt(q)
    BY DEF Control
  <2>3. CASE OnOrder(q)
    <3>1. /\ task[q].doc \in Orders /\ Row(q) = orders[task[q].doc]
          /\ Row(q)' = orders'[task[q].doc]
      BY <1>5, <2>3, RowOf DEF Row, OnOrder
    <3> QED
      BY <1>0, <1>5, <2>1, <2>2, <2>3, <3>1, TypeDiscard DEF ControlAt
  <2>4. CASE ~OnOrder(q)
    <3>1. /\ task[q].doc \in Invoices /\ Row(q) = invoices[task[q].doc]
          /\ Row(q)' = invoices'[task[q].doc]
      BY <1>5, <2>4, RowOf DEF Row, OnOrder
    <3> QED
      BY <1>0, <1>5, <2>1, <2>2, <2>4, <3>1, TypeDiscard DEF ControlAt
  <2> QED
    BY <2>3, <2>4
<1>6. ASSUME NEW q \in Slots \ {p} PROVE ControlAt(q)'
  BY <1>2, <1>4, <1>5, ControlKept DEF Control
<1>7. ControlAt(p)'
  <2>1. CASE pc'[p] = "idle" /\ p \notin expired'
    BY <2>1 DEF ControlAt, Active
  <2>2. CASE UNCHANGED <<pc, task>> /\ pc[p] \in {"post", "unwind", "restore"}
             /\ task[p].doc \in lapsed'
    <3>1. Creating(p)' = Creating(p) /\ OnOrder(p)' = OnOrder(p) /\ Active(p)' = Active(p)
      BY <2>2 DEF Creating, OnOrder, Active
    <3>2. task[p].kind = "createInvoice" => ~OnOrder(p)
      BY DEF OnOrder
    <3> QED
      BY <1>0, <1>5, <2>2, <3>1, <3>2 DEF ControlAt, Control
  <2> QED
    BY <1>0, <2>1, <2>2 DEF TypeOK
<1>8. CreatorAlone'
  BY <1>0, <1>4 DEF CreatorAlone, Active, Creating, TypeOK
<1> QED
  BY <1>3, <1>6, <1>7, <1>8 DEF Control

LEMMA TypeStep == TypeInv /\ [Next]_vars => TypeInv'
<1> SUFFICES ASSUME TypeInv, [Next]_vars PROVE TypeInv'
  OBVIOUS
<1>1. ASSUME NEW p \in Slots, Step(p)
      PROVE  TypeInv'
  BY <1>1, TypeCreateOrder, TypeCreateInvoice, TypeCancel, TypeUpdate, TypePost, TypeRead,
     TypeFinish, TypeFail DEF Step
<1>2. CASE UNCHANGED vars
  BY <1>2 DEF vars, TypeInv, TypeOK, Control, ControlAt, CreatorAlone, Active, Creating, Row,
     OnOrder
<1> QED
  BY <1>1, <1>2 DEF Next

\* The rows of documents, the movements and the statements are of their types:
\* nothing is posted on a line a document does not have.
THEOREM ProcurementTypes == Spec => []TypeOK
<1>1. TypeInv => TypeOK
  BY DEF TypeInv
<1> QED
  BY <1>1, TypeInit, TypeStep, PTL DEF Spec

-------------------------------------------------------------------------------
(***************************************************************************)
(* One holder of each row                                                  *)
(***************************************************************************)

\* Slot p moves: it holds its document as before, or nobody else does.
LEMMA HolderKept ==
    ASSUME HolderAlone, NEW p \in Slots,
           \A q \in Slots \ {p} :
              pc'[q] = pc[q] /\ task'[q] = task[q] /\ (q \in expired' <=> q \in expired),
           \/ ~Holds(p, task[p].doc)'
           \/ task'[p].doc = task[p].doc /\ Holds(p, task[p].doc)
           \/ \A q \in Slots \ {p} : ~Holds(q, task'[p].doc)
    PROVE  HolderAlone'
<1>1. SUFFICES ASSUME NEW q \in Slots, NEW r \in Slots, q # r,
                      task'[q].doc = task'[r].doc,
                      pc'[q] \notin {"idle", "update"}, q \notin expired',
                      pc'[r] \notin {"idle", "update"}, r \notin expired'
               PROVE  FALSE
  BY DEF HolderAlone, Holds
<1>2. CASE q = p
  BY <1>1, <1>2 DEF HolderAlone, Holds
<1>3. CASE r = p
  BY <1>1, <1>3 DEF HolderAlone, Holds
<1>4. CASE q # p /\ r # p
  BY <1>1, <1>4 DEF HolderAlone, Holds
<1> QED
  BY <1>2, <1>3, <1>4

LEMMA HolderStep ==
    ASSUME TypeInv, HolderAlone, NEW p \in Slots, Step(p)
    PROVE  HolderAlone'
<1> USE DEF TypeInv
<1>1. CASE CreateOrder(p)
  <2>1. PICK o \in Orders, next \in {"finish", "post"} :
            orders[o].status = "absent" /\ Start(p, "createOrder", o, {}, next)
    BY <1>1 DEF CreateOrder
  <2>2. task' = [task EXCEPT ![p] = [kind |-> "createOrder", doc |-> o]]
        /\ pc' = [pc EXCEPT ![p] = next] /\ UNCHANGED expired
    BY <2>1 DEF Start
  <2>3. \A q \in Slots : ~Holds(q, o)
    BY <2>1, BusyRow DEF Holds, Active
  <2> QED
    BY <2>2, <2>3, HolderKept DEF TypeOK
<1>2. CASE CreateInvoice(p)
  <2>1. PICK i \in Invoices, next \in {"finish", "post"}, others \in SUBSET Orders :
            invoices[i].status = "absent" /\ Start(p, "createInvoice", i, others, next)
    BY <1>2 DEF CreateInvoice
  <2>2. task' = [task EXCEPT ![p] = [kind |-> "createInvoice", doc |-> i]]
        /\ pc' = [pc EXCEPT ![p] = next] /\ UNCHANGED expired
    BY <2>1 DEF Start
  <2>3. \A q \in Slots : ~Holds(q, i)
    BY <2>1, BusyRow DEF Holds, Active
  <2> QED
    BY <2>2, <2>3, HolderKept DEF TypeOK
<1>3. CASE CancelOrder(p) \/ CancelInvoice(p)
  <2>1. PICK kind, d, others : Start(p, kind, d, others, "update")
    BY <1>3 DEF CancelOrder, CancelInvoice
  <2>2. pc'[p] = "update" /\ UNCHANGED expired
        /\ \A q \in Slots \ {p} : pc'[q] = pc[q] /\ task'[q] = task[q]
    BY <2>1 DEF Start, TypeOK
  <2> QED
    BY <2>2, HolderKept DEF Holds
<1>4. CASE UpdateStatus(p)
  <2>1. \A q \in Slots \ {p} : ~Holds(q, task[p].doc)
    BY <1>4 DEF UpdateStatus, RowLocked, Holds
  <2>2. UNCHANGED <<task, expired>> /\ \A q \in Slots \ {p} : pc'[q] = pc[q]
    BY <1>4 DEF UpdateStatus, Goto, TypeOK
  <2> QED
    BY <2>1, <2>2, HolderKept
<1>5. CASE PostCommitment(p) \/ PostConsumption(p) \/ PostUnwind(p)
  <2>1. /\ pc[p] \in {"post", "unwind", "restore"}
        /\ \E next : AfterPost(p, next)
    BY <1>5 DEF PostCommitment, PostConsumption, PostUnwind
  <2>2. \A q \in Slots \ {p} :
            pc'[q] = pc[q] /\ task'[q] = task[q] /\ (q \in expired' <=> q \in expired)
    BY <2>1 DEF AfterPost, Goto, TypeOK
  <2>3. CASE p \in expired
    <3>1. pc'[p] = "idle"
      BY <2>1, <2>3 DEF AfterPost, Goto, TypeOK
    <3> QED
      BY <2>2, <3>1, HolderKept DEF Holds
  <2>4. CASE p \notin expired
    <3>1. UNCHANGED task
      BY <2>1, <2>4 DEF AfterPost
    <3>2. Holds(p, task[p].doc)
      BY <2>1, <2>4 DEF Holds
    <3> QED
      BY <2>2, <3>1, <3>2, HolderKept
  <2> QED
    BY <2>3, <2>4
<1>6. CASE ReadOpenCommitment(p) \/ ReadInvoiced(p) \/ ReadUnwound(p)
  <2>1. /\ pc[p] \in {"readOpen", "readInvoiced", "readUnwound"}
        /\ \E value, next : Read(p, value, next)
    BY <1>6 DEF ReadOpenCommitment, ReadInvoiced, ReadUnwound
  <2>2. /\ UNCHANGED <<task, expired>> /\ \A q \in Slots \ {p} : pc'[q] = pc[q]
    BY <2>1 DEF Read, Goto, TypeOK
  <2>3. Holds(p, task[p].doc)
    BY <2>1 DEF Holds, Control, ControlAt
  <2> QED
    BY <2>2, <2>3, HolderKept
<1>7. CASE Finish(p) \/ Rollback(p)
  <2>1. pc'[p] = "idle" /\ \A q \in Slots \ {p} :
            pc'[q] = pc[q] /\ task'[q] = task[q] /\ (q \in expired' <=> q \in expired)
    BY <1>7 DEF Finish, Rollback, Goto, TypeOK
  <2> QED
    BY <2>1, HolderKept DEF Holds
<1>8. CASE Expire(p)
  <2>1. p \in expired' /\ UNCHANGED <<pc, task>>
        /\ \A q \in Slots \ {p} : q \in expired' <=> q \in expired
    BY <1>8 DEF Expire
  <2> QED
    BY <2>1, HolderKept DEF Holds
<1> QED
  BY <1>1, <1>2, <1>3, <1>4, <1>5, <1>6, <1>7, <1>8 DEF Step

-------------------------------------------------------------------------------
(***************************************************************************)
(* The unwinding of an order's commitment by its invoices                  *)
(***************************************************************************)

\* A step that posts no unwinding keeps what every invoice has unwound.
LEMMA UnwindKept ==
    ASSUME TypeInv, UnwindInv, NEW p \in Slots,
           \A q \in Slots \ {p} : pc'[q] = pc[q] /\ task'[q] = task[q] /\ got'[q] = got[q],
           lapsed \subseteq lapsed',
           \A i \in Invoices \ lapsed' :
              /\ \A l \in Lines : commitment'[i][l] = commitment[i][l]
              /\ invoices'[i].status = "absent" => invoices[i].status = "absent"
              /\ invoices[i].status # "absent" =>
                    /\ invoices'[i].line = invoices[i].line
                    /\ invoices'[i].amount = invoices[i].amount
              /\ UnwindAt(p, i)'
    PROVE  UnwindInv'
<1>1. SUFFICES ASSUME NEW i \in Invoices \ lapsed'
               PROVE  /\ invoices'[i].status = "absent" => \A l \in Lines : commitment'[i][l] = 0
                      /\ \A q \in Slots : UnwindAt(q, i)'
                      /\ \A l \in Lines :
                            /\ commitment'[i][l] <= 0
                            /\ commitment'[i][l] < 0 =>
                                  l = invoices'[i].line /\ -commitment'[i][l] <= invoices'[i].amount
  BY DEF UnwindInv, UnwindBounded
<1>2. i \in Invoices \ lapsed
  OBVIOUS
<1>3. /\ invoices[i].status = "absent" => \A l \in Lines : commitment[i][l] = 0
      /\ \A q \in Slots : UnwindAt(q, i)
      /\ \A l \in Lines :
            /\ commitment[i][l] <= 0
            /\ commitment[i][l] < 0 =>
                  l = invoices[i].line /\ -commitment[i][l] <= invoices[i].amount
  BY <1>2 DEF UnwindInv, UnwindBounded
<1>4. ASSUME NEW q \in Slots \ {p} PROVE UnwindAt(q, i)'
  <2>1. SUFFICES ASSUME Active(q), ~OnOrder(q), task[q].doc = i PROVE UnwindAt(q, i)'
    BY DEF UnwindAt, Active, OnOrder
  <2>2. invoices[i].status # "absent"
    BY <2>1, BusyRow
  <2>3. pc[q] = "restore" => invoices[i].line \in Lines
    BY <2>1, RowOf DEF TypeInv, Control, ControlAt
  <2> QED
    BY <1>3, <2>1, <2>2, <2>3 DEF UnwindAt, Active, OnOrder, Creating
<1>5. /\ invoices'[i].status = "absent" => \A l \in Lines : commitment'[i][l] = 0
      /\ \A l \in Lines :
            /\ commitment'[i][l] <= 0
            /\ commitment'[i][l] < 0 =>
                  l = invoices'[i].line /\ -commitment'[i][l] <= invoices'[i].amount
  <2>1. \A l \in Lines : commitment[i][l] \in Int /\ commitment'[i][l] = commitment[i][l]
    BY <1>2 DEF TypeInv, TypeOK, Documents
  <2>2. CASE invoices[i].status = "absent"
    BY <1>3, <2>1, <2>2
  <2>3. CASE invoices[i].status # "absent"
    BY <1>3, <2>1, <2>3
  <2> QED
    BY <2>2, <2>3
<1> QED
  BY <1>4, <1>5

\* A request that starts: a new invoice has unwound nothing.
LEMMA UnwindStart ==
    ASSUME TypeInv, UnwindInv, NEW p \in Slots,
           CreateOrder(p) \/ CancelOrder(p) \/ CreateInvoice(p) \/ CancelInvoice(p)
    PROVE  UnwindInv'
<1>1. CASE CreateOrder(p)
  <2>1. PICK o \in Orders, next \in {"finish", "post"} : Start(p, "createOrder", o, {}, next)
    BY <1>1 DEF CreateOrder
  <2>2. task' = [task EXCEPT ![p] = [kind |-> "createOrder", doc |-> o]]
        /\ pc' = [pc EXCEPT ![p] = next] /\ UNCHANGED <<commitment, lapsed, got, invoices>>
    BY <1>1, <2>1 DEF Start, CreateOrder
  <2>3. \A i \in Invoices : UnwindAt(p, i)'
    BY <2>2 DEF UnwindAt, OnOrder, TypeInv, TypeOK
  <2> QED
    BY <2>2, <2>3, UnwindKept DEF TypeInv, TypeOK
<1>2. CASE CancelOrder(p)
  <2>1. PICK o \in Orders : Start(p, "cancelOrder", o, {}, "update")
    BY <1>2 DEF CancelOrder
  <2>2. task' = [task EXCEPT ![p] = [kind |-> "cancelOrder", doc |-> o]]
        /\ pc' = [pc EXCEPT ![p] = "update"] /\ UNCHANGED <<commitment, lapsed, got, invoices>>
    BY <1>2, <2>1 DEF Start, CancelOrder
  <2>3. \A i \in Invoices : UnwindAt(p, i)'
    BY <2>2 DEF UnwindAt, OnOrder, TypeInv, TypeOK
  <2> QED
    BY <2>2, <2>3, UnwindKept DEF TypeInv, TypeOK
<1>3. CASE CancelInvoice(p)
  <2>1. PICK d \in Invoices :
            Start(p, "cancelInvoice", d, {invoices[d].order} \ {NoOrder}, "update")
    BY <1>3 DEF CancelInvoice
  <2>2. task' = [task EXCEPT ![p] = [kind |-> "cancelInvoice", doc |-> d]]
        /\ pc' = [pc EXCEPT ![p] = "update"] /\ UNCHANGED <<commitment, lapsed, got, invoices>>
    BY <1>3, <2>1 DEF Start, CancelInvoice
  <2>3. \A i \in Invoices : UnwindAt(p, i)'
    BY <2>2 DEF UnwindAt, Creating, TypeInv, TypeOK
  <2> QED
    BY <2>2, <2>3, UnwindKept DEF TypeInv, TypeOK
<1>4. CASE CreateInvoice(p)
  <2>0. PICK d \in Invoices, o \in Orders \cup {NoOrder}, own \in Lines \cup {NoLine},
             amount \in InvoiceAmounts :
        LET l == EffectiveLine(own, o) IN
        /\ invoices[d].status = "absent"
        /\ invoices' = [invoices EXCEPT ![d] =
                          [status |-> "uncommitted", line |-> l, order |-> o, amount |-> amount]]
        /\ Start(p, "createInvoice", d, {o} \ {NoOrder},
                 IF l = NoLine THEN "finish" ELSE "post")
    BY <1>4 DEF CreateInvoice
  <2> DEFINE r == [status |-> "uncommitted", line |-> EffectiveLine(own, o), order |-> o,
                   amount |-> amount]
             others == {o} \ {NoOrder}
             next == IF EffectiveLine(own, o) = NoLine THEN "finish" ELSE "post"
  <2>1. /\ invoices[d].status = "absent"
        /\ invoices' = [invoices EXCEPT ![d] = r] /\ r.status = "uncommitted"
        /\ Start(p, "createInvoice", d, others, next) /\ next \in {"finish", "post"}
    BY <2>0
  <2> HIDE DEF r, others, next
  <2>2. task' = [task EXCEPT ![p] = [kind |-> "createInvoice", doc |-> d]]
        /\ pc' = [pc EXCEPT ![p] = next] /\ UNCHANGED <<commitment, lapsed, got>>
    BY <2>1 DEF Start
  <2>3. ASSUME NEW i \in Invoices \ lapsed PROVE UnwindAt(p, i)'
    <3>1. invoices[i].status = "absent" => \A l \in Lines : commitment[i][l] = 0
      BY DEF UnwindInv
    <3>2. task'[p].doc = d /\ pc'[p] = next
      BY <2>2 DEF TypeInv, TypeOK
    <3> QED
      BY <2>1, <2>2, <3>1, <3>2 DEF UnwindAt
  <2>4. \A i \in Invoices : invoices'[i] = IF i = d THEN r ELSE invoices[i]
    BY <2>1 DEF TypeInv, TypeOK
  <2>5. \A q \in Slots \ {p} : pc'[q] = pc[q] /\ task'[q] = task[q] /\ got'[q] = got[q]
    BY <2>2 DEF TypeInv, TypeOK
  <2> QED
    BY <2>1, <2>2, <2>3, <2>4, <2>5, UnwindKept
<1> QED
  BY <1>1, <1>2, <1>3, <1>4

LEMMA UnwindRead ==
    ASSUME TypeInv, UnwindInv, NEW p \in Slots,
           ReadOpenCommitment(p) \/ ReadInvoiced(p) \/ ReadUnwound(p)
    PROVE  UnwindInv'
<1>1. /\ pc[p] \in {"readOpen", "readInvoiced", "readUnwound"}
      /\ UNCHANGED <<orders, invoices, commitment, task, lapsed>>
      /\ \A q \in Slots \ {p} : pc'[q] = pc[q] /\ got'[q] = got[q]
  BY DEF ReadOpenCommitment, ReadInvoiced, ReadUnwound, Read, Goto, TypeInv, TypeOK
<1>2. /\ task[p].doc \in Documents /\ Row(p).amount \in Int /\ Row(p).line \in Lines
      /\ ~OnOrder(p) => Row(p) = invoices[task[p].doc]
      /\ pc[p] \in {"readOpen", "readInvoiced"} => Creating(p) /\ Row(p).order \in Orders
      /\ pc[p] = "readUnwound" => ~Creating(p)
  BY <1>1, RowOf DEF TypeInv, Control, ControlAt, Active, Creating
<1>3. ASSUME NEW i \in Invoices \ lapsed, ~OnOrder(p), task[p].doc = i
      PROVE  UnwindAt(p, i)'
  <2>1. Creating(p)' = Creating(p)
    BY <1>1 DEF Creating
  <2>2. UnwindAt(p, i) /\ Active(p)
    BY <1>1 DEF UnwindInv, Active
  <2>3. CASE ReadOpenCommitment(p)
    <3>1. pc'[p] \in {"finish", "readInvoiced"} /\ pc[p] = "readOpen"
      BY <2>3 DEF ReadOpenCommitment, Read, Goto, TypeInv, TypeOK
    <3> QED
      BY <1>1, <1>2, <1>3, <2>1, <2>2, <3>1 DEF UnwindAt
  <2>4. CASE ReadInvoiced(p)
    <3>1. pc[p] = "readInvoiced" /\ got'[p] = CappedUnwind(p)
      BY <2>4 DEF ReadInvoiced, Read, TypeInv, TypeOK
    <3>2. pc'[p] \in {"finish", "unwind"} /\ (pc'[p] = "unwind" => ~(CappedUnwind(p) <= 0))
      BY <2>4 DEF ReadInvoiced, Read, Goto, TypeInv, TypeOK
    <3>3. invoiced[Row(p).order] \in Int /\ got[p] \in Int
      BY <1>2, <3>1 DEF TypeInv, TypeOK
    <3>4. CappedUnwind(p) \in Int /\ CappedUnwind(p) <= Row(p).amount
      BY <1>2, <3>3 DEF CappedUnwind
    <3>5. Row(p).amount = invoices'[i].amount
      BY <1>1, <1>2, <1>3
    <3> QED
      BY <1>1, <1>2, <1>3, <2>1, <2>2, <3>1, <3>2, <3>4, <3>5 DEF UnwindAt
  <2>5. CASE ReadUnwound(p)
    <3>1. /\ pc'[p] \in {"finish", "restore"}
          /\ got'[p] = commitment[task[p].doc][Row(p).line] /\ pc[p] = "readUnwound"
      BY <2>5 DEF ReadUnwound, Read, Goto, TypeInv, TypeOK
    <3> QED
      BY <1>1, <1>2, <1>3, <2>1, <2>2, <3>1 DEF UnwindAt
  <2> QED
    BY <2>3, <2>4, <2>5
<1>4. \A i \in Invoices \ lapsed : UnwindAt(p, i)'
  BY <1>1, <1>3 DEF UnwindAt, OnOrder
<1> QED
  BY <1>1, <1>4, UnwindKept

\* Any step but the post of an unwinding.
LEMMA UnwindOther ==
    ASSUME TypeInv, UnwindInv, NEW p \in Slots,
           \/ UpdateStatus(p) \/ PostCommitment(p) \/ PostConsumption(p)
           \/ Finish(p) \/ Rollback(p) \/ Expire(p)
    PROVE  UnwindInv'
<1>1. CASE UpdateStatus(p)
  <2>1. /\ pc[p] = "update" /\ UNCHANGED <<invoices, commitment, task, lapsed, got>>
        /\ pc'[p] \in {"finish", "post"}
        /\ \A q \in Slots \ {p} : pc'[q] = pc[q]
    BY <1>1 DEF UpdateStatus, Goto, TypeInv, TypeOK
  <2>2. ~Creating(p)'
    BY <2>1 DEF TypeInv, Control, ControlAt, Active, Creating
  <2>3. \A i \in Invoices : UnwindAt(p, i)'
    BY <2>1, <2>2 DEF UnwindAt
  <2> QED
    BY <2>1, <2>3, UnwindKept
<1>2. CASE PostCommitment(p)
  <2>1. /\ UNCHANGED <<invoices, lapsed, got>> /\ pc'[p] \in {"idle", "finish"}
        /\ \A q \in Slots \ {p} : pc'[q] = pc[q] /\ task'[q] = task[q]
        /\ commitment' = [commitment EXCEPT ![task[p].doc] = commitment'[task[p].doc]]
    BY <1>2 DEF PostCommitment, AfterPost, Goto, Posted, TypeInv, TypeOK
  <2>2. task[p].doc \in Orders
    BY <1>2, RowOf DEF PostCommitment, Active, TypeInv
  <2>3. \A i \in Invoices : commitment'[i] = commitment[i] /\ UnwindAt(p, i)'
    BY <2>1, <2>2, ProcurementAssumption DEF UnwindAt, TypeInv, TypeOK, Documents
  <2> QED
    BY <2>1, <2>3, UnwindKept
<1>3. CASE PostConsumption(p)
  <2>1. /\ UNCHANGED <<invoices, commitment, lapsed, got>> /\ pc[p] = "post"
        /\ \A q \in Slots \ {p} : pc'[q] = pc[q] /\ task'[q] = task[q]
    BY <1>3 DEF PostConsumption, AfterPost, Goto, TypeInv, TypeOK
  <2>2. pc'[p] = "idle" \/ (pc'[p] = AfterConsumption(p) /\ task' = task)
    BY <1>3 DEF PostConsumption, AfterPost, Goto, TypeInv, TypeOK
  <2>3. ASSUME NEW i \in Invoices \ lapsed PROVE UnwindAt(p, i)'
    <3>1. UnwindAt(p, i)
      BY DEF UnwindInv
    <3>2. CASE pc'[p] = "idle"
      BY <3>2 DEF UnwindAt, Active
    <3>3. CASE pc'[p] = AfterConsumption(p) /\ task' = task
      <4>1. pc'[p] \in {"finish", "readUnwound", "readOpen"}
        BY <3>3 DEF AfterConsumption
      <4> QED
        BY <2>1, <3>1, <3>3, <4>1 DEF UnwindAt, Active, Creating, OnOrder
    <3> QED
      BY <2>2, <3>2, <3>3
  <2> QED
    BY <2>1, <2>3, UnwindKept
<1>4. CASE Finish(p) \/ Rollback(p)
  <2>1. /\ UNCHANGED <<commitment, lapsed, got>> /\ pc'[p] = "idle"
        /\ \A q \in Slots \ {p} : pc'[q] = pc[q] /\ task'[q] = task[q]
    BY <1>4 DEF Finish, Rollback, Goto, TypeInv, TypeOK
  <2>2. \A i \in Invoices :
          /\ invoices'[i].line = invoices[i].line /\ invoices'[i].amount = invoices[i].amount
          /\ invoices'[i].status # invoices[i].status =>
                invoices'[i].status \in {"rolledBack", "APPROVED", "VALIDATED", "CANCELLED"}
    <3>1. CASE Finish(p)
      <4>1. FinalStatus(p) \in {"APPROVED", "VALIDATED", "CANCELLED"}
        BY DEF FinalStatus
      <4>2. \/ UNCHANGED invoices
            \/ invoices' = [invoices EXCEPT ![task[p].doc].status = FinalStatus(p)]
        BY <3>1 DEF Finish
      <4> QED
        BY <4>1, <4>2 DEF TypeInv, TypeOK
    <3>2. CASE Rollback(p)
      BY <3>2 DEF Rollback, Discard, TypeInv, TypeOK
    <3> QED
      BY <1>4, <3>1, <3>2
  <2>3. \A i \in Invoices : UnwindAt(p, i)'
    BY <2>1 DEF UnwindAt, Active
  <2> QED
    BY <2>1, <2>2, <2>3, UnwindKept
<1>5. CASE Expire(p)
  <2>1. /\ UNCHANGED <<commitment, pc, task, got>> /\ lapsed' = lapsed \cup {task[p].doc}
    BY <1>5 DEF Expire
  <2>2. \A i \in Invoices :
          /\ invoices'[i].line = invoices[i].line /\ invoices'[i].amount = invoices[i].amount
          /\ invoices'[i].status # invoices[i].status => invoices'[i].status = "rolledBack"
    BY <1>5 DEF Expire, Discard, TypeInv, TypeOK
  <2>3. \A i \in Invoices \ lapsed' : UnwindAt(p, i)'
    BY <2>1 DEF UnwindAt
  <2> QED
    BY <2>1, <2>2, <2>3, UnwindKept
<1> QED
  BY <1>1, <1>2, <1>3, <1>4, <1>5

\* The post of an unwinding: its slot is the only one at work on the invoice.
LEMMA UnwindPost ==
    ASSUME TypeInv, HolderAlone, UnwindInv, NEW p \in Slots, PostUnwind(p)
    PROVE  UnwindInv'
<1> DEFINE d == task[p].doc
           l == Row(p).line
<1>1. /\ pc[p] \in {"unwind", "restore"} /\ Active(p)
      /\ commitment' = Posted(p, commitment, -got[p])
      /\ UNCHANGED <<invoices, lapsed, got>> /\ pc'[p] \in {"idle", "finish"}
      /\ \A q \in Slots \ {p} : pc'[q] = pc[q] /\ task'[q] = task[q]
  BY DEF PostUnwind, AfterPost, Goto, Active, TypeInv, TypeOK
<1>2. /\ d \in Invoices /\ l = invoices[d].line /\ l \in Lines /\ ~OnOrder(p)
      /\ Creating(p) <=> pc[p] = "unwind"
      /\ p \in expired => d \in lapsed
      /\ invoices[d].amount \in Int
  <2>1. /\ ~OnOrder(p) /\ (Creating(p) <=> pc[p] = "unwind") /\ l \in Lines
        /\ p \in expired => d \in lapsed
    BY <1>1 DEF TypeInv, Control, ControlAt, OnOrder, Creating
  <2> QED
    BY <1>1, <2>1, RowOf DEF TypeInv
<1>3. /\ got[p] \in Int /\ -got[p] \in Int
      /\ commitment \in [Documents -> [Lines -> Int]]
  BY DEF TypeInv, TypeOK
<1>4. \A i \in Invoices : \A k \in Lines :
          commitment'[i][k] = commitment[i][k] + IF i = d /\ k = l THEN -got[p] ELSE 0
  <2>1. Row(p).line \in Lines
    BY <1>2
  <2>2. \A i \in Documents : \A k \in Lines :
            Posted(p, commitment, -got[p])[i][k] =
              commitment[i][k] + IF i = task[p].doc /\ k = Row(p).line THEN -got[p] ELSE 0
    BY <1>1, <1>3, <2>1, PostedSums
  <2> QED
    BY <1>1, <2>2 DEF Documents
<1>5. \A i \in Invoices : \A k \in Lines : i # d => commitment'[i][k] = commitment[i][k]
  BY <1>3, <1>4 DEF Documents
<1>6. SUFFICES ASSUME NEW i \in Invoices \ lapsed
               PROVE  /\ invoices[i].status = "absent" => \A k \in Lines : commitment'[i][k] = 0
                      /\ \A q \in Slots : UnwindAt(q, i)'
                      /\ \A k \in Lines :
                            /\ commitment'[i][k] <= 0
                            /\ commitment'[i][k] < 0 =>
                                  k = invoices[i].line /\ -commitment'[i][k] <= invoices[i].amount
  BY <1>1 DEF UnwindInv, UnwindBounded
<1>7. /\ invoices[i].status = "absent" => \A k \in Lines : commitment[i][k] = 0
      /\ \A q \in Slots : UnwindAt(q, i)
      /\ \A k \in Lines :
            /\ commitment[i][k] <= 0
            /\ commitment[i][k] < 0 =>
                  k = invoices[i].line /\ -commitment[i][k] <= invoices[i].amount
  BY DEF UnwindInv, UnwindBounded
<1>8. UnwindAt(p, i)'
  BY <1>1 DEF UnwindAt, Active
<1>9. CASE i = d
  <2>1. invoices[i].status # "absent"
    BY <1>1, <1>9, BusyRow
  <2>2. ASSUME NEW q \in Slots \ {p} PROVE UnwindAt(q, i)'
    <3>1. SUFFICES ASSUME Active(q), ~OnOrder(q), task[q].doc = i PROVE UnwindAt(q, i)'
      BY <1>1 DEF UnwindAt, Active, OnOrder
    <3>2. ~Creating(q)
      BY <1>1, <1>9, <3>1 DEF TypeInv, CreatorAlone
    <3>3. pc[q] # "unwind"
      BY <3>1, <3>2 DEF TypeInv, Control, ControlAt, Creating
    <3>4. pc[q] # "restore"
      <4>1. p \notin expired /\ q \notin expired
        BY <1>2, <1>9, <3>1 DEF TypeInv, Control, ControlAt
      <4> QED
        BY <1>1, <1>9, <3>1, <4>1 DEF HolderAlone, Holds
    <3> QED
      BY <1>1, <3>2, <3>3, <3>4 DEF UnwindAt, Creating
  <2>3. CASE pc[p] = "unwind"
    <3>1. /\ \A k \in Lines : commitment[i][k] = 0
          /\ 0 < got[p] /\ got[p] <= invoices[i].amount
      BY <1>1, <1>2, <1>7, <1>9, <2>3 DEF UnwindAt
    <3> HIDE DEF d, l
    <3>2. \A k \in Lines : commitment'[i][k] = IF k = l THEN -got[p] ELSE 0
      BY <1>3, <1>4, <1>9, <3>1
    <3> QED
      BY <1>2, <1>3, <1>8, <1>9, <2>1, <2>2, <3>1, <3>2
  <2>4. CASE pc[p] = "restore"
    <3>1. got[p] = commitment[i][l]
      BY <1>1, <1>2, <1>7, <1>9, <2>4 DEF UnwindAt
    <3> HIDE DEF d, l
    <3>2. \A k \in Lines : commitment[i][k] \in Int
      BY <1>3 DEF Documents
    <3>3. \A k \in Lines : commitment'[i][k] = IF k = l THEN 0 ELSE commitment[i][k]
      BY <1>3, <1>4, <1>9, <3>1, <3>2
    <3> QED
      BY <1>7, <1>8, <2>1, <2>2, <3>2, <3>3
  <2> QED
    BY <1>1, <2>3, <2>4
<1>10. CASE i # d
  <2>1. ASSUME NEW q \in Slots \ {p} PROVE UnwindAt(q, i)'
    <3>1. SUFFICES ASSUME Active(q), ~OnOrder(q), task[q].doc = i PROVE UnwindAt(q, i)'
      BY <1>1 DEF UnwindAt, Active, OnOrder
    <3>2. pc[q] = "restore" => invoices[i].line \in Lines
      BY <3>1, RowOf DEF TypeInv, Control, ControlAt
    <3> QED
      BY <1>1, <1>5, <1>7, <1>10, <3>1, <3>2 DEF UnwindAt, Active, OnOrder, Creating
  <2> QED
    BY <1>5, <1>7, <1>8, <1>10, <2>1
<1> QED
  BY <1>9, <1>10

LEMMA HolderInit == Init => HolderAlone
  BY DEF Init, HolderAlone, Holds

LEMMA UnwindInit == Init => UnwindInv
<1> SUFFICES ASSUME Init PROVE UnwindInv
  OBVIOUS
<1>1. \A i \in Invoices : \A l \in Lines : commitment[i][l] = 0
  BY DEF Init, Nothing, Documents
<1>2. \A p \in Slots : ~Active(p)
  BY DEF Init, Active
<1> QED
  BY <1>1, <1>2 DEF UnwindInv, UnwindAt, UnwindBounded

LEMMA InvStep == IInv /\ [Next]_vars => IInv'
<1> SUFFICES ASSUME IInv, [Next]_vars PROVE IInv'
  OBVIOUS
<1>1. ASSUME NEW p \in Slots, Step(p)
      PROVE  HolderAlone' /\ UnwindInv'
  <2>1. HolderAlone'
    BY <1>1, HolderStep DEF IInv
  <2>2. UnwindInv'
    BY <1>1, UnwindStart, UnwindRead, UnwindOther, UnwindPost DEF IInv, Step
  <2> QED
    BY <2>1, <2>2
<1>2. CASE UNCHANGED vars
  <2>1. HolderAlone'
    BY <1>2 DEF vars, IInv, HolderAlone, Holds
  <2>2. UnwindInv'
    BY <1>2 DEF vars, IInv, UnwindInv, UnwindAt, UnwindBounded, Active, OnOrder, Creating
  <2> QED
    BY <2>1, <2>2, <1>2, TypeStep DEF IInv
<1> QED
  BY <1>1, <1>2, TypeStep DEF IInv, Next

\* However many requests race on the invoices of an order, fail and roll back, an
\* invoice never unwinds more than it bills and its cancellation never restores
\* more than it had unwound, unless a transaction timed out under its post.
THEOREM UnwindNeverExceeds == Spec => []UnwindBounded
<1>1. Init => IInv
  BY TypeInit, HolderInit, UnwindInit DEF IInv
<1>2. IInv => UnwindBounded
  BY DEF IInv, UnwindInv
<1> QED
  BY <1>1, <1>2, InvStep, PTL DEF Spec
-------------------------------------------------------------------------------
(***************************************************************************)
(* Purchases nobody disturbed                                              *)
(***************************************************************************)

\* A document two slots depend on, or whose transaction timed out, is
\* disturbed, and so is the order of a disturbed invoice.
Apart ==
    /\ \A p, q \in Slots : p # q => Docs(p) \cap Docs(q) \subseteq disturbed
    /\ \A p \in expired : Docs(p) \subseteq disturbed
    /\ lapsed \subseteq disturbed
    /\ \A i \in Invoices : i \in disturbed => invoices[i].order \in disturbed \cup {NoOrder}

\* Rows: an invoice is of a committed order, a row nobody inserted is of none.
Rows ==
    /\ \A o \in Orders :
          /\ orders[o].status = "absent" => o \notin disturbed
          /\ orders[o].status = "rolledBack" => o \in disturbed
    /\ \A i \in Invoices :
          /\ invoices[i].status = "absent" => i \notin disturbed /\ invoices[i].order = NoOrder
          /\ invoices[i].status = "rolledBack" => i \in disturbed
          /\ invoices[i].order # NoOrder =>
                orders[invoices[i].order].status \in {"APPROVED", "CANCELLED"}

\* What the row of an invoice counts for in `invoiced`.
Billing(i) == IF invoices[i].status = "VALIDATED" THEN invoices[i].amount ELSE 0

InvoicedInv ==
    \A o \in Orders :
        /\ IsFiniteSet(InvoicesOf(o))
        /\ invoiced[o] = SumFunctionOnSet([i \in Invoices |-> Billing(i)], InvoicesOf(o))

\* The sums a document posts, and whether a slot's document has posted.
PostedBy(p) == IF OnOrder(p) THEN commitment[task[p].doc] ELSE consumption[task[p].doc]
HasPosted(p) == IF Creating(p) THEN pc[p] # "post" ELSE pc[p] \in {"update", "post"}
SettledStatus(p) ==
    IF Creating(p) THEN "uncommitted" ELSE IF OnOrder(p) THEN "APPROVED" ELSE "VALIDATED"

\* A slot alone on its document.
TaskAccount(p) ==
    Active(p) /\ task[p].doc \notin disturbed =>
        /\ Row(p).status = SettledStatus(p)
        /\ \A l \in Lines :
              PostedBy(p)[l] = IF HasPosted(p) /\ l = Row(p).line THEN Row(p).amount ELSE 0
        /\ task[p].kind = "cancelInvoice" /\ pc[p] = "finish" =>
              \A l \in Lines : commitment[task[p].doc][l] = 0

WorkedOn(d) == \E p \in Slots : Active(p) /\ task[p].doc = d

\* A document no slot works on.
OrderAtRest(o) ==
    o \notin disturbed /\ ~WorkedOn(o) =>
        /\ orders[o].status # "uncommitted"
        /\ \A l \in Lines :
              commitment[o][l] = IF orders[o].status = "APPROVED" /\ l = orders[o].line
                                 THEN orders[o].amount ELSE 0
InvoiceAtRest(i) ==
    i \notin disturbed /\ ~WorkedOn(i) =>
        /\ invoices[i].status # "uncommitted"
        /\ \A l \in Lines :
              /\ consumption[i][l] = IF invoices[i].status = "VALIDATED" /\ l = invoices[i].line
                                     THEN invoices[i].amount ELSE 0
              /\ invoices[i].status = "CANCELLED" => commitment[i][l] = 0

Accounts ==
    /\ \A p \in Slots : TaskAccount(p)
    /\ \A o \in Orders : OrderAtRest(o)
    /\ \A i \in Invoices : InvoiceAtRest(i)

\* What a slot has read of its order is still so, and it unwinds no more than is left.
Affordable(p) ==
    pc[p] \in {"readInvoiced", "unwind"} /\ Row(p).order \notin disturbed =>
        LET open == commitment[Row(p).order][Row(p).line] IN
        /\ pc[p] = "readInvoiced" => got[p] = open
        /\ pc[p] = "unwind" => got[p] + invoiced[Row(p).order] <= open

Withdrawn(o) == \E p \in Slots : task[p].doc = o /\ pc[p] = "finish" /\ ~Creating(p)

NoCreditNotes(o) == orders[o].amount >= 0 /\ \A i \in InvoicesOf(o) : invoices[i].amount >= 0

OpenInv ==
    \A o \in Orders \ disturbed :
        orders[o].status = "APPROVED" /\ ~Withdrawn(o) /\ NoCreditNotes(o) =>
            \A l \in Lines : OpenCommitment(o, l) >= 0

SettledInv ==
    /\ Apart
    /\ Rows
    /\ InvoicedInv
    /\ Accounts
    /\ \A p \in Slots : Affordable(p)
    /\ OpenInv

-------------------------------------------------------------------------------
(***************************************************************************)
(* The frames of a step                                                    *)
(***************************************************************************)

\* A step of a slot at work: only its own document, and the billing of the
\* order of that document, change; a failure disturbs what the slot depends on.
Works(p) ==
    /\ Active(p)
    /\ \A q \in Slots \ {p} :
          pc'[q] = pc[q] /\ task'[q] = task[q] /\ got'[q] = got[q] /\ (q \in expired' <=> q \in expired)
    /\ pc'[p] = "idle" \/ task'[p] = task[p]
    /\ p \in expired' => p \in expired \/ disturbed' = disturbed \cup Docs(p)
    /\ disturbed' \in {disturbed, disturbed \cup Docs(p)}
    /\ \/ lapsed' = lapsed
       \/ lapsed' = lapsed \cup {task[p].doc} /\ disturbed' = disturbed \cup Docs(p)
    /\ \A o \in Orders :
          /\ orders'[o].line = orders[o].line /\ orders'[o].amount = orders[o].amount
          /\ \/ orders'[o].status = orders[o].status
             \/ /\ OnOrder(p) /\ task[p].doc = o
                /\ \/ /\ Creating(p) /\ orders'[o].status = "rolledBack"
                      /\ disturbed' = disturbed \cup Docs(p)
                   \/ /\ pc[p] = "finish" /\ pc'[p] = "idle"
                      /\ orders'[o].status = IF Creating(p) THEN "APPROVED" ELSE "CANCELLED"
    /\ \A i \in Invoices :
          /\ invoices'[i].line = invoices[i].line /\ invoices'[i].amount = invoices[i].amount
          /\ invoices'[i].order = invoices[i].order
          /\ \/ invoices'[i].status = invoices[i].status
             \/ /\ ~OnOrder(p) /\ task[p].doc = i
                /\ \/ /\ Creating(p) /\ invoices'[i].status = "rolledBack"
                      /\ disturbed' = disturbed \cup Docs(p)
                   \/ /\ pc[p] = "finish" /\ pc'[p] = "idle"
                      /\ invoices'[i].status = IF Creating(p) THEN "VALIDATED" ELSE "CANCELLED"
    /\ \A d \in Documents \ {task[p].doc} :
          commitment'[d] = commitment[d] /\ consumption'[d] = consumption[d]
    /\ \A o \in Orders \ Docs(p) : invoiced'[o] = invoiced[o]

\* Each statement after the first works on its own document, and writes little else.
LEMMA WorksRead ==
    ASSUME TypeInv, NEW p \in Slots,
           UpdateStatus(p) \/ ReadOpenCommitment(p) \/ ReadInvoiced(p) \/ ReadUnwound(p)
    PROVE  Works(p) /\ UNCHANGED <<orders, invoices, invoiced, commitment, consumption, task,
                                   expired, disturbed, lapsed>>
<1>1. /\ pc[p] \in {"update", "readOpen", "readInvoiced", "readUnwound"}
      /\ UNCHANGED <<orders, invoices, invoiced, commitment, consumption, task, expired,
                     disturbed, lapsed>>
      /\ \A q \in Slots \ {p} : pc'[q] = pc[q] /\ got'[q] = got[q]
  BY DEF UpdateStatus, ReadOpenCommitment, ReadInvoiced, ReadUnwound, Read, Goto, TypeInv, TypeOK
<1>2. Active(p) /\ disturbed' \in {disturbed, disturbed \cup Docs(p)}
  BY <1>1 DEF Active
<1>3. /\ \A o \in Orders : orders'[o] = orders[o] /\ invoiced'[o] = invoiced[o]
      /\ \A i \in Invoices : invoices'[i] = invoices[i]
      /\ \A d \in Documents : commitment'[d] = commitment[d] /\ consumption'[d] = consumption[d]
  BY <1>1
<1>4. Works(p)
  BY <1>1, <1>2, <1>3 DEF Works
<1> QED
  BY <1>1, <1>4

LEMMA WorksPost ==
    ASSUME TypeInv, NEW p \in Slots,
           PostCommitment(p) \/ PostConsumption(p) \/ PostUnwind(p)
    PROVE  Works(p) /\ UNCHANGED <<orders, invoices, invoiced, got, disturbed, lapsed>>
<1>1. /\ pc[p] \in {"post", "unwind", "restore"} /\ \E next : AfterPost(p, next)
      /\ UNCHANGED <<orders, invoices, invoiced, got, disturbed, lapsed>>
  BY DEF PostCommitment, PostConsumption, PostUnwind, AfterPost
<1>2. /\ \A q \in Slots \ {p} :
            pc'[q] = pc[q] /\ task'[q] = task[q] /\ (q \in expired' <=> q \in expired)
      /\ pc'[p] = "idle" \/ task'[p] = task[p]
      /\ p \notin expired'
  BY <1>1 DEF AfterPost, Goto, TypeInv, TypeOK
<1>3. \A d \in Documents \ {task[p].doc} :
          commitment'[d] = commitment[d] /\ consumption'[d] = consumption[d]
  BY DEF PostCommitment, PostConsumption, PostUnwind, Posted, TypeInv, TypeOK
<1>4. Active(p) /\ disturbed' \in {disturbed, disturbed \cup Docs(p)}
  BY <1>1 DEF Active
<1>5. /\ \A o \in Orders : orders'[o] = orders[o] /\ invoiced'[o] = invoiced[o]
      /\ \A i \in Invoices : invoices'[i] = invoices[i]
      /\ \A q \in Slots : got'[q] = got[q]
  BY <1>1
<1>6. Works(p)
  BY <1>1, <1>2, <1>3, <1>4, <1>5 DEF Works
<1> QED
  BY <1>1, <1>6

LEMMA WorksFinish ==
    ASSUME TypeInv, NEW p \in Slots, Finish(p)
    PROVE  Works(p) /\ pc[p] = "finish" /\ pc'[p] = "idle"
           /\ UNCHANGED <<commitment, consumption, got, expired, disturbed, lapsed>>
<1>1. /\ pc[p] = "finish" /\ pc'[p] = "idle"
      /\ UNCHANGED <<commitment, consumption, got, expired, failures, disturbed, lapsed>>
      /\ \A q \in Slots \ {p} : pc'[q] = pc[q] /\ task'[q] = task[q]
  BY DEF Finish, Goto, TypeInv, TypeOK
<1>2. Active(p)
  BY <1>1 DEF Active
<1>3. /\ OnOrder(p) => FinalStatus(p) = IF Creating(p) THEN "APPROVED" ELSE "CANCELLED"
      /\ ~OnOrder(p) => FinalStatus(p) = IF Creating(p) THEN "VALIDATED" ELSE "CANCELLED"
  BY DEF FinalStatus
<1>4. \A o \in Orders :
        /\ orders'[o].line = orders[o].line /\ orders'[o].amount = orders[o].amount
        /\ \/ orders'[o].status = orders[o].status
           \/ OnOrder(p) /\ task[p].doc = o /\ orders'[o].status = FinalStatus(p)
  <2>1. CASE OnOrder(p)
    <3>1. orders' = [orders EXCEPT ![task[p].doc].status = FinalStatus(p)]
      BY <2>1 DEF Finish
    <3> QED
      BY <2>1, <3>1 DEF TypeInv, TypeOK
  <2>2. CASE ~OnOrder(p)
    BY <2>2 DEF Finish
  <2> QED
    BY <2>1, <2>2
<1>5. \A i \in Invoices :
        /\ invoices'[i].line = invoices[i].line /\ invoices'[i].amount = invoices[i].amount
        /\ invoices'[i].order = invoices[i].order
        /\ \/ invoices'[i].status = invoices[i].status
           \/ ~OnOrder(p) /\ task[p].doc = i /\ invoices'[i].status = FinalStatus(p)
  <2>1. CASE ~OnOrder(p)
    <3>1. invoices' = [invoices EXCEPT ![task[p].doc].status = FinalStatus(p)]
      BY <2>1 DEF Finish
    <3> QED
      BY <2>1, <3>1 DEF TypeInv, TypeOK
  <2>2. CASE OnOrder(p)
    BY <2>2 DEF Finish
  <2> QED
    BY <2>1, <2>2
<1>6. \A o \in Orders \ Docs(p) : invoiced'[o] = invoiced[o]
  <2>1. CASE ~OnOrder(p) /\ Row(p).order # NoOrder
    <3>1. Row(p).order \in Docs(p)
      BY <1>1, <2>1 DEF Docs
    <3>2. invoiced' = [invoiced EXCEPT ![Row(p).order] = @ + Billed(p)]
      BY <2>1 DEF Finish
    <3> QED
      BY <3>1, <3>2 DEF TypeInv, TypeOK
  <2>2. CASE ~(~OnOrder(p) /\ Row(p).order # NoOrder)
    BY <2>2 DEF Finish
  <2> QED
    BY <2>1, <2>2
<1>7. p \notin expired
  BY <1>1 DEF TypeInv, Control, ControlAt
<1>8. /\ \A o \in Orders :
          /\ orders'[o].line = orders[o].line /\ orders'[o].amount = orders[o].amount
          /\ \/ orders'[o].status = orders[o].status
             \/ /\ OnOrder(p) /\ task[p].doc = o
                /\ orders'[o].status = IF Creating(p) THEN "APPROVED" ELSE "CANCELLED"
      /\ \A i \in Invoices :
          /\ invoices'[i].line = invoices[i].line /\ invoices'[i].amount = invoices[i].amount
          /\ invoices'[i].order = invoices[i].order
          /\ \/ invoices'[i].status = invoices[i].status
             \/ /\ ~OnOrder(p) /\ task[p].doc = i
                /\ invoices'[i].status = IF Creating(p) THEN "VALIDATED" ELSE "CANCELLED"
  BY <1>3, <1>4, <1>5
<1>9. /\ disturbed' \in {disturbed, disturbed \cup Docs(p)}
      /\ \A q \in Slots : got'[q] = got[q] /\ (q \in expired' <=> q \in expired)
      /\ \A d \in Documents : commitment'[d] = commitment[d] /\ consumption'[d] = consumption[d]
  BY <1>1
<1>10. Works(p)
  BY <1>1, <1>2, <1>6, <1>7, <1>8, <1>9 DEF Works
<1> QED
  BY <1>1, <1>10

LEMMA WorksFail ==
    ASSUME TypeInv, NEW p \in Slots, Rollback(p) \/ Expire(p)
    PROVE  Works(p) /\ disturbed' = disturbed \cup Docs(p)
           /\ UNCHANGED <<invoiced, commitment, consumption, got>>
<1>1. /\ Active(p) /\ Discard(p) /\ disturbed' = disturbed \cup Docs(p)
      /\ UNCHANGED <<invoiced, commitment, consumption, got>>
      /\ \/ /\ pc' = [pc EXCEPT ![p] = "idle"] /\ task' = [task EXCEPT ![p] = Idle]
            /\ expired' = expired \ {p} /\ UNCHANGED lapsed
         \/ /\ UNCHANGED <<pc, task>> /\ expired' = expired \cup {p}
            /\ lapsed' = lapsed \cup {task[p].doc}
  BY DEF Rollback, Expire, Goto, Active, Discard
<1>2. /\ \A q \in Slots \ {p} :
            pc'[q] = pc[q] /\ task'[q] = task[q] /\ (q \in expired' <=> q \in expired)
      /\ pc'[p] = "idle" \/ task'[p] = task[p]
  BY <1>1 DEF TypeInv, TypeOK
<1>3. OnOrder(p) => task[p].doc \notin Invoices
  BY <1>1, RowOf, ProcurementAssumption DEF TypeInv
<1>4. ~OnOrder(p) => task[p].doc \notin Orders
  BY <1>1, RowOf, ProcurementAssumption DEF TypeInv
<1>5. /\ \A o \in Orders :
          /\ orders'[o].line = orders[o].line /\ orders'[o].amount = orders[o].amount
          /\ \/ orders'[o].status = orders[o].status
             \/ /\ OnOrder(p) /\ task[p].doc = o /\ Creating(p)
                /\ orders'[o].status = "rolledBack"
      /\ \A i \in Invoices :
          /\ invoices'[i].line = invoices[i].line /\ invoices'[i].amount = invoices[i].amount
          /\ invoices'[i].order = invoices[i].order
          /\ \/ invoices'[i].status = invoices[i].status
             \/ /\ ~OnOrder(p) /\ task[p].doc = i /\ Creating(p)
                /\ invoices'[i].status = "rolledBack"
  BY <1>1, <1>3, <1>4, TypeDiscard
<1>6. /\ disturbed' \in {disturbed, disturbed \cup Docs(p)}
      /\ \A q \in Slots : got'[q] = got[q]
      /\ \A o \in Orders : invoiced'[o] = invoiced[o]
      /\ \A d \in Documents : commitment'[d] = commitment[d] /\ consumption'[d] = consumption[d]
      /\ lapsed' = lapsed \/ lapsed' = lapsed \cup {task[p].doc}
  BY <1>1
<1> QED
  BY <1>1, <1>2, <1>5, <1>6 DEF Works

\* A step of a slot that starts on document d.
Starts(p, d) ==
    /\ ~Active(p) /\ p \notin expired /\ d \in Documents
    /\ \A q \in Slots \ {p} : pc'[q] = pc[q] /\ task'[q] = task[q]
    /\ UNCHANGED <<invoiced, commitment, consumption, got, expired, lapsed>>
    /\ task'[p].doc = d
    /\ \/ /\ task'[p].kind \in {"createOrder", "createInvoice"} /\ pc'[p] \in {"post", "finish"}
          /\ pc'[p] = "finish" => Row(p)'.line = NoLine
       \/ task'[p].kind \in {"cancelOrder", "cancelInvoice"} /\ pc'[p] = "update"
    /\ d \in Orders <=> OnOrder(p)'
    /\ \A o \in Orders :
          IF task'[p].kind = "createOrder" /\ o = d
          THEN orders[o].status = "absent" /\ orders'[o].status = "uncommitted"
          ELSE orders'[o] = orders[o]
    /\ \A i \in Invoices :
          IF task'[p].kind = "createInvoice" /\ i = d
          THEN /\ invoices[i].status = "absent" /\ invoices'[i].status = "uncommitted"
               /\ invoices'[i].order # NoOrder =>
                     orders[invoices'[i].order].status \in {"APPROVED", "CANCELLED"}
          ELSE invoices'[i] = invoices[i]
    /\ task'[p].kind = "cancelOrder" => orders[d].status = "APPROVED"
    /\ task'[p].kind = "cancelInvoice" => invoices[d].status = "VALIDATED"
    /\ disturbed' = disturbed \cup (Docs(p)' \cap UNION {Docs(q) : q \in Slots})

\* Each entry point starts on one document.
LEMMA StartsOrder ==
    ASSUME TypeInv, NEW p \in Slots, CreateOrder(p) \/ CancelOrder(p)
    PROVE  \E o \in Orders : Starts(p, o)
<1>1. CASE CreateOrder(p)
  <2>1. PICK o \in Orders, l \in Lines \cup {NoLine}, amount \in OrderAmounts :
          /\ orders[o].status = "absent"
          /\ orders' = [orders EXCEPT ![o] =
                          [status |-> "uncommitted", line |-> l, amount |-> amount]]
          /\ Start(p, "createOrder", o, {}, IF l = NoLine THEN "finish" ELSE "post")
          /\ UNCHANGED invoices
    BY <1>1 DEF CreateOrder
  <2>2. /\ task' = [task EXCEPT ![p] = [kind |-> "createOrder", doc |-> o]] /\ pc[p] = "idle"
        /\ pc' = [pc EXCEPT ![p] = IF l = NoLine THEN "finish" ELSE "post"]
        /\ disturbed' = disturbed \cup ({o} \cap UNION {Docs(q) : q \in Slots})
        /\ UNCHANGED <<invoiced, commitment, consumption, got, expired, failures, lapsed>>
    BY <2>1 DEF Start
  <2>3. /\ task'[p] = [kind |-> "createOrder", doc |-> o]
        /\ pc'[p] = IF l = NoLine THEN "finish" ELSE "post"
        /\ \A q \in Slots \ {p} : pc'[q] = pc[q] /\ task'[q] = task[q]
    BY <2>2 DEF TypeInv, TypeOK
  <2>4. orders'[o] = [status |-> "uncommitted", line |-> l, amount |-> amount]
        /\ \A k \in Orders \ {o} : orders'[k] = orders[k]
    BY <2>1 DEF TypeInv, TypeOK
  <2>5. OnOrder(p)' /\ Row(p)' = orders'[o] /\ Docs(p)' = {o}
    BY <2>3 DEF OnOrder, Row, Docs
  <2>6. p \notin expired
    BY <2>2 DEF TypeInv, Control, ControlAt
  <2>7. Starts(p, o)
    BY <2>1, <2>2, <2>3, <2>4, <2>5, <2>6 DEF Starts, Active, Documents
  <2> QED
    BY <2>7
<1>2. CASE CancelOrder(p)
  <2>1. PICK o \in Orders :
          /\ orders[o].status = "APPROVED"
          /\ Start(p, "cancelOrder", o, {}, "update")
          /\ UNCHANGED <<orders, invoices>>
    BY <1>2 DEF CancelOrder
  <2>2. /\ task' = [task EXCEPT ![p] = [kind |-> "cancelOrder", doc |-> o]] /\ pc[p] = "idle"
        /\ pc' = [pc EXCEPT ![p] = "update"]
        /\ disturbed' = disturbed \cup ({o} \cap UNION {Docs(q) : q \in Slots})
        /\ UNCHANGED <<invoiced, commitment, consumption, got, expired, failures, lapsed>>
    BY <2>1 DEF Start
  <2>3. /\ task'[p] = [kind |-> "cancelOrder", doc |-> o]
        /\ pc'[p] = "update"
        /\ \A q \in Slots \ {p} : pc'[q] = pc[q] /\ task'[q] = task[q]
    BY <2>2 DEF TypeInv, TypeOK
  <2>5. OnOrder(p)' /\ Docs(p)' = {o}
    BY <2>3 DEF OnOrder, Docs
  <2>6. p \notin expired
    BY <2>2 DEF TypeInv, Control, ControlAt
  <2>7. Starts(p, o)
    BY <2>1, <2>2, <2>3, <2>5, <2>6 DEF Starts, Active, Documents
  <2> QED
    BY <2>7
<1> QED
  BY <1>1, <1>2

LEMMA StartsInvoice ==
    ASSUME TypeInv, NEW p \in Slots, CreateInvoice(p) \/ CancelInvoice(p)
    PROVE  \E i \in Invoices : Starts(p, i)
<1>1. CASE CreateInvoice(p)
  <2>0. PICK i \in Invoices, o \in Orders \cup {NoOrder}, own \in Lines \cup {NoLine},
             amount \in InvoiceAmounts :
        LET l == EffectiveLine(own, o) IN
        /\ invoices[i].status = "absent"
        /\ o # NoOrder => Committed(orders[o])
        /\ invoices' = [invoices EXCEPT ![i] =
                          [status |-> "uncommitted", line |-> l, order |-> o, amount |-> amount]]
        /\ Start(p, "createInvoice", i, {o} \ {NoOrder}, IF l = NoLine THEN "finish" ELSE "post")
        /\ UNCHANGED orders
    BY <1>1 DEF CreateInvoice
  <2> DEFINE l == EffectiveLine(own, o)
             r == [status |-> "uncommitted", line |-> l, order |-> o, amount |-> amount]
  <2>1. /\ invoices[i].status = "absent" /\ UNCHANGED orders
        /\ o # NoOrder => orders[o].status \in {"APPROVED", "CANCELLED"}
        /\ invoices' = [invoices EXCEPT ![i] = r]
        /\ Start(p, "createInvoice", i, {o} \ {NoOrder}, IF l = NoLine THEN "finish" ELSE "post")
    BY <2>0 DEF Committed, TypeInv, TypeOK, Statuses
  <2>a. r.status = "uncommitted" /\ r.line = l /\ r.order = o
    OBVIOUS
  <2> HIDE DEF l, r
  <2>2. /\ task' = [task EXCEPT ![p] = [kind |-> "createInvoice", doc |-> i]] /\ pc[p] = "idle"
        /\ pc' = [pc EXCEPT ![p] = IF l = NoLine THEN "finish" ELSE "post"]
        /\ disturbed' = disturbed \cup (({i} \cup ({o} \ {NoOrder})) \cap UNION {Docs(q) : q \in Slots})
        /\ UNCHANGED <<invoiced, commitment, consumption, got, expired, failures, lapsed>>
    BY <2>1 DEF Start
  <2>3. /\ task'[p] = [kind |-> "createInvoice", doc |-> i]
        /\ pc'[p] = IF l = NoLine THEN "finish" ELSE "post"
        /\ \A q \in Slots \ {p} : pc'[q] = pc[q] /\ task'[q] = task[q]
    BY <2>2 DEF TypeInv, TypeOK
  <2>4. invoices'[i] = r /\ \A k \in Invoices \ {i} : invoices'[k] = invoices[k]
    BY <2>1 DEF TypeInv, TypeOK
  <2>5. ~OnOrder(p)' /\ Row(p)' = r
    BY <2>3, <2>4 DEF OnOrder, Row
  <2>b. Docs(p)' = {i} \cup ({o} \ {NoOrder})
    <3>1. Docs(p)' = {i} \cup IF r.order = NoOrder THEN {} ELSE {r.order}
      BY <2>3, <2>5 DEF Docs
    <3> QED
      BY <2>a, <3>1
  <2>6. p \notin expired /\ i \notin Orders
    BY <2>2, ProcurementAssumption DEF TypeInv, Control, ControlAt
  <2>7. Starts(p, i)
    <3>1. /\ ~Active(p) /\ p \notin expired /\ i \in Documents
          /\ \A q \in Slots \ {p} : pc'[q] = pc[q] /\ task'[q] = task[q]
          /\ UNCHANGED <<invoiced, commitment, consumption, got, expired, lapsed>>
          /\ task'[p].doc = i /\ task'[p].kind = "createInvoice"
          /\ pc'[p] \in {"post", "finish"}
          /\ pc'[p] = "finish" => Row(p)'.line = NoLine
      BY <2>2, <2>3, <2>5, <2>6, <2>a DEF Active, Documents
    <3>2. disturbed' = disturbed \cup (Docs(p)' \cap UNION {Docs(q) : q \in Slots})
      BY <2>2, <2>b
    <3>3. \A k \in Invoices :
            IF task'[p].kind = "createInvoice" /\ k = i
            THEN /\ invoices[k].status = "absent" /\ invoices'[k].status = "uncommitted"
                 /\ invoices'[k].order # NoOrder =>
                       orders[invoices'[k].order].status \in {"APPROVED", "CANCELLED"}
            ELSE invoices'[k] = invoices[k]
      BY <2>1, <2>3, <2>4, <2>a
    <3>4. \A k \in Orders : orders'[k] = orders[k]
      BY <2>1
    <3> QED
      BY <2>5, <2>6, <3>1, <3>2, <3>3, <3>4 DEF Starts
  <2> QED
    BY <2>7
<1>2. CASE CancelInvoice(p)
  <2>1. PICK i \in Invoices :
          /\ invoices[i].status = "VALIDATED"
          /\ Start(p, "cancelInvoice", i, {invoices[i].order} \ {NoOrder}, "update")
          /\ UNCHANGED <<orders, invoices>>
    BY <1>2 DEF CancelInvoice
  <2>2. /\ task' = [task EXCEPT ![p] = [kind |-> "cancelInvoice", doc |-> i]] /\ pc[p] = "idle"
        /\ pc' = [pc EXCEPT ![p] = "update"]
        /\ disturbed' = disturbed \cup
              (({i} \cup ({invoices[i].order} \ {NoOrder})) \cap UNION {Docs(q) : q \in Slots})
        /\ UNCHANGED <<invoiced, commitment, consumption, got, expired, failures, lapsed>>
    BY <2>1 DEF Start
  <2>3. /\ task'[p] = [kind |-> "cancelInvoice", doc |-> i]
        /\ pc'[p] = "update"
        /\ \A q \in Slots \ {p} : pc'[q] = pc[q] /\ task'[q] = task[q]
    BY <2>2 DEF TypeInv, TypeOK
  <2>4. ~OnOrder(p)' /\ Row(p)' = invoices[i]
    BY <2>1, <2>3 DEF OnOrder, Row
  <2>5. Docs(p)' = {i} \cup ({invoices[i].order} \ {NoOrder})
    <3>1. Docs(p)' = {i} \cup IF invoices[i].order = NoOrder THEN {} ELSE {invoices[i].order}
      BY <2>3, <2>4 DEF Docs
    <3> QED
      BY <3>1
  <2>6. p \notin expired /\ i \notin Orders
    BY <2>2, ProcurementAssumption DEF TypeInv, Control, ControlAt
  <2>7. Starts(p, i)
    <3>1. disturbed' = disturbed \cup (Docs(p)' \cap UNION {Docs(q) : q \in Slots})
      BY <2>2, <2>5
    <3> QED
      BY <2>1, <2>2, <2>3, <2>4, <2>6, <3>1 DEF Starts, Active, Documents
  <2> QED
    BY <2>7
<1> QED
  BY <1>1, <1>2

\* The documents of the other slots, and those of a slot that ends.
LEMMA DocsKept ==
    ASSUME TypeInv, NEW p \in Slots, \/ Works(p)
                                     \/ Rows /\ \E d \in Documents : Starts(p, d)
    PROVE  /\ \A q \in Slots \ {p} :
                /\ Docs(q)' = Docs(q) /\ Active(q)' = Active(q)
                /\ OnOrder(q)' = OnOrder(q) /\ Creating(q)' = Creating(q)
                /\ Active(q) => Row(q)'.line = Row(q).line /\ Row(q)'.amount = Row(q).amount
                /\ Active(q) /\ ~OnOrder(q) => Row(q)'.order = Row(q).order
           /\ Works(p) => Docs(p)' \subseteq Docs(p)
<1>1. ASSUME NEW q \in Slots, task'[q] = task[q], pc'[q] = pc[q] \/ (q = p /\ Works(p)), Active(q)
      PROVE  /\ Row(q)'.line = Row(q).line /\ Row(q)'.amount = Row(q).amount
             /\ ~OnOrder(q) => Row(q)'.order = Row(q).order
             /\ OnOrder(q)' = OnOrder(q)
             /\ pc'[q] # "idle" => Docs(q)' = Docs(q)
  <2>1. OnOrder(q)' = OnOrder(q)
    BY <1>1 DEF OnOrder
  <2>2. CASE OnOrder(q)
    <3>1. task[q].doc \in Orders /\ orders[task[q].doc].status # "absent"
      BY <1>1, <2>2, RowOf, BusyRow DEF TypeInv
    <3>2. /\ orders'[task[q].doc].line = orders[task[q].doc].line
          /\ orders'[task[q].doc].amount = orders[task[q].doc].amount
      BY <3>1 DEF Works, Starts
    <3>3. Row(q) = orders[task[q].doc] /\ Row(q)' = orders'[task[q].doc]
      BY <1>1, <2>1, <2>2 DEF Row
    <3>4. pc'[q] # "idle" => Docs(q)' = {task[q].doc}
      BY <1>1, <2>1, <2>2 DEF Docs
    <3>5. Docs(q) = {task[q].doc}
      BY <1>1, <2>2 DEF Docs, Active
    <3> QED
      BY <2>1, <2>2, <3>2, <3>3, <3>4, <3>5
  <2>3. CASE ~OnOrder(q)
    <3>1. task[q].doc \in Invoices /\ invoices[task[q].doc].status # "absent"
      BY <1>1, <2>3, RowOf, BusyRow DEF TypeInv
    <3>2. /\ invoices'[task[q].doc].line = invoices[task[q].doc].line
          /\ invoices'[task[q].doc].amount = invoices[task[q].doc].amount
          /\ invoices'[task[q].doc].order = invoices[task[q].doc].order
      BY <3>1 DEF Works, Starts
    <3>3. Row(q) = invoices[task[q].doc] /\ Row(q)' = invoices'[task[q].doc]
      BY <1>1, <2>1, <2>3 DEF Row
    <3>4. pc'[q] # "idle" => Docs(q)' = {task[q].doc} \cup
              IF Row(q)'.order = NoOrder THEN {} ELSE {Row(q)'.order}
      BY <1>1, <2>1, <2>3 DEF Docs
    <3>5. Docs(q) = {task[q].doc} \cup IF Row(q).order = NoOrder THEN {} ELSE {Row(q).order}
      BY <1>1, <2>3 DEF Docs, Active
    <3> QED
      BY <2>1, <3>2, <3>3, <3>4, <3>5
  <2> QED
    BY <2>2, <2>3
<1>2. ASSUME NEW q \in Slots \ {p}
      PROVE  /\ Docs(q)' = Docs(q) /\ Active(q)' = Active(q)
             /\ OnOrder(q)' = OnOrder(q) /\ Creating(q)' = Creating(q)
             /\ Active(q) => Row(q)'.line = Row(q).line /\ Row(q)'.amount = Row(q).amount
             /\ Active(q) /\ ~OnOrder(q) => Row(q)'.order = Row(q).order
  <2>1. pc'[q] = pc[q] /\ task'[q] = task[q]
    BY DEF Works, Starts
  <2>2. Active(q)' = Active(q) /\ Creating(q)' = Creating(q) /\ OnOrder(q)' = OnOrder(q)
    BY <2>1 DEF Active, Creating, OnOrder
  <2>3. CASE Active(q)
    BY <1>1, <2>1, <2>2, <2>3 DEF Active
  <2>4. CASE ~Active(q)
    BY <2>1, <2>2, <2>4 DEF Active, Docs
  <2> QED
    BY <2>3, <2>4
<1>3. ASSUME Works(p) PROVE Docs(p)' \subseteq Docs(p)
  <2>1. Active(p) /\ (pc'[p] = "idle" \/ task'[p] = task[p])
    BY <1>3 DEF Works
  <2>2. CASE pc'[p] = "idle"
    BY <2>2 DEF Docs
  <2>3. CASE pc'[p] # "idle"
    BY <1>1, <1>3, <2>1, <2>3
  <2> QED
    BY <2>2, <2>3
<1> QED
  BY <1>2, <1>3

\* What a slot depends on is there.
LEMMA DocsInserted ==
    ASSUME TypeInv, Rows, NEW q \in Slots, NEW d \in Docs(q)
    PROVE  /\ Active(q) /\ d \in Documents
           /\ d \in Orders => orders[d].status # "absent"
           /\ d \in Orders /\ d # task[q].doc =>
                 ~OnOrder(q) /\ Row(q).order = d /\ orders[d].status \in {"APPROVED", "CANCELLED"}
           /\ d \in Invoices =>
                 /\ d = task[q].doc /\ ~OnOrder(q) /\ Row(q) = invoices[d]
                 /\ invoices[d].status # "absent"
<1>1. Active(q)
  BY DEF Docs, Active
<1>2. d = task[q].doc \/ (~OnOrder(q) /\ Row(q).order # NoOrder /\ d = Row(q).order)
  BY DEF Docs
<1>3. CASE d = task[q].doc
  BY <1>1, <1>3, RowOf, BusyRow DEF TypeInv
<1>4. CASE ~OnOrder(q) /\ Row(q).order # NoOrder /\ d = Row(q).order
  <2>1. /\ Row(q) = invoices[task[q].doc] /\ task[q].doc \in Invoices /\ d \in Orders
    BY <1>1, <1>4, RowOf DEF TypeInv
  <2>2. orders[d].status \in {"APPROVED", "CANCELLED"}
    BY <1>4, <2>1 DEF Rows
  <2>3. d \notin Invoices
    BY <2>1, ProcurementAssumption
  <2> QED
    BY <1>1, <1>4, <2>1, <2>2, <2>3 DEF Documents
<1> QED
  BY <1>2, <1>3, <1>4

\* A slot that goes on keeps to its documents.
LEMMA ApartWorks ==
    ASSUME TypeInv, TypeOK', Apart, Rows, NEW p \in Slots, Works(p)
    PROVE  Apart'
<1>1. /\ \A q \in Slots \ {p} : Docs(q)' = Docs(q) /\ (q \in expired' <=> q \in expired)
      /\ Docs(p)' \subseteq Docs(p)
  BY DocsKept DEF Works
<1>2. disturbed \subseteq disturbed' /\ (disturbed' = disturbed \/ disturbed' = disturbed \cup Docs(p))
  BY DEF Works
<1>3. \A q, r \in Slots : q # r => Docs(q)' \cap Docs(r)' \subseteq disturbed'
  <2>1. \A q, r \in Slots : q # r => Docs(q) \cap Docs(r) \subseteq disturbed
    BY DEF Apart
  <2> QED
    BY <1>1, <1>2, <2>1
<1>4. \A q \in expired' : Docs(q)' \subseteq disturbed'
  <2>1. \A q \in expired : Docs(q) \subseteq disturbed /\ q \in Slots
    BY DEF Apart, TypeInv, TypeOK
  <2>2. p \in expired' => Docs(p) \subseteq disturbed'
    BY <1>2, <2>1 DEF Works
  <2>3. expired' \subseteq Slots
    BY DEF TypeOK
  <2> QED
    BY <1>1, <1>2, <2>1, <2>2, <2>3
<1>5. lapsed' \subseteq disturbed'
  <2>1. task[p].doc \in Docs(p)
    BY DEF Docs, Works, Active
  <2>2. lapsed \subseteq disturbed
    BY DEF Apart
  <2> QED
    BY <1>2, <2>1, <2>2 DEF Works
<1>6. ASSUME NEW i \in Invoices, i \in disturbed'
      PROVE  invoices'[i].order \in disturbed' \cup {NoOrder}
  <2>1. invoices'[i].order = invoices[i].order
    BY DEF Works
  <2>2. CASE i \in disturbed
    BY <1>2, <2>1, <2>2 DEF Apart
  <2>3. CASE i \notin disturbed
    <3>1. i \in Docs(p) /\ disturbed' = disturbed \cup Docs(p)
      BY <1>2, <1>6, <2>3
    <3>2. ~OnOrder(p) /\ Row(p) = invoices[i] /\ Active(p)
      BY <3>1, DocsInserted
    <3>3. invoices[i].order # NoOrder => invoices[i].order \in Docs(p)
      BY <3>2 DEF Docs, Active
    <3> QED
      BY <2>1, <3>1, <3>3
  <2> QED
    BY <2>2, <2>3
<1> QED
  BY <1>3, <1>4, <1>5, <1>6 DEF Apart

\* A row leaves "uncommitted" with its slot, and is disturbed if it was rolled back.
LEMMA RowsWorks ==
    ASSUME TypeInv, Rows, NEW p \in Slots, Works(p)
    PROVE  Rows'
<1>1. disturbed \subseteq disturbed' /\ (disturbed' = disturbed \/ disturbed' = disturbed \cup Docs(p))
  BY DEF Works
<1>2. Active(p) /\ task[p].doc \in Docs(p)
  BY DEF Docs, Works, Active
<1>3. ASSUME NEW o \in Orders
      PROVE  /\ orders'[o].status = "absent" => o \notin disturbed'
             /\ orders'[o].status = "rolledBack" => o \in disturbed'
             /\ orders[o].status \in {"APPROVED", "CANCELLED"} =>
                   orders'[o].status \in {"APPROVED", "CANCELLED"}
  <2>1. /\ orders[o].status = "absent" => o \notin disturbed /\ o \notin Docs(p)
        /\ orders[o].status = "rolledBack" => o \in disturbed
    BY DocsInserted DEF Rows
  <2>2. CASE orders'[o].status = orders[o].status
    BY <1>1, <2>1, <2>2
  <2>3. CASE orders'[o].status # orders[o].status
    <3>1. /\ OnOrder(p) /\ task[p].doc = o
          /\ \/ /\ Creating(p) /\ orders'[o].status = "rolledBack"
                /\ disturbed' = disturbed \cup Docs(p)
             \/ orders'[o].status \in {"APPROVED", "CANCELLED"}
      BY <2>3 DEF Works
    <3>2. Creating(p) => orders[o].status \in {"uncommitted", "rolledBack"}
      BY <1>2, <3>1, RowOf DEF TypeInv, Control, ControlAt
    <3> QED
      BY <1>2, <3>1, <3>2
  <2> QED
    BY <2>2, <2>3
<1>4. ASSUME NEW i \in Invoices
      PROVE  /\ invoices'[i].status = "absent" => i \notin disturbed' /\ invoices'[i].order = NoOrder
             /\ invoices'[i].status = "rolledBack" => i \in disturbed'
             /\ invoices'[i].order # NoOrder =>
                   orders'[invoices'[i].order].status \in {"APPROVED", "CANCELLED"}
  <2>1. /\ invoices[i].status = "absent" =>
              i \notin disturbed /\ i \notin Docs(p) /\ invoices[i].order = NoOrder
        /\ invoices[i].status = "rolledBack" => i \in disturbed
        /\ invoices[i].order # NoOrder =>
              orders[invoices[i].order].status \in {"APPROVED", "CANCELLED"}
    BY DocsInserted DEF Rows
  <2>2. invoices'[i].order = invoices[i].order /\ invoices[i].order \in Orders \cup {NoOrder}
    BY DEF Works, TypeInv, TypeOK
  <2>3. invoices'[i].order # NoOrder =>
            orders'[invoices'[i].order].status \in {"APPROVED", "CANCELLED"}
    BY <1>3, <2>1, <2>2
  <2>4. CASE invoices'[i].status = invoices[i].status
    BY <1>1, <2>1, <2>2, <2>3, <2>4
  <2>5. CASE invoices'[i].status # invoices[i].status
    <3>1. /\ task[p].doc = i
          /\ \/ /\ invoices'[i].status = "rolledBack" /\ disturbed' = disturbed \cup Docs(p)
             \/ invoices'[i].status \in {"VALIDATED", "CANCELLED"}
      BY <2>5 DEF Works
    <3> QED
      BY <1>2, <2>3, <3>1
  <2> QED
    BY <2>4, <2>5
<1> QED
  BY <1>3, <1>4 DEF Rows

\* A slot that starts on documents another works on disturbs them.
LEMMA ApartStarts ==
    ASSUME TypeInv, TypeOK', Apart, Rows, NEW p \in Slots, NEW d \in Documents, Starts(p, d)
    PROVE  Apart'
<1>1. \A q \in Slots \ {p} : Docs(q)' = Docs(q)
  BY DocsKept
<1>2. Docs(p) = {} /\ disturbed' = disturbed \cup (Docs(p)' \cap UNION {Docs(q) : q \in Slots})
  BY DEF Starts, Docs, Active
<1>3. \A q, r \in Slots : q # r => Docs(q)' \cap Docs(r)' \subseteq disturbed'
  <2>1. \A q, r \in Slots : q # r => Docs(q) \cap Docs(r) \subseteq disturbed
    BY DEF Apart
  <2>2. \A q \in Slots \ {p} : Docs(p)' \cap Docs(q)' \subseteq disturbed'
    BY <1>1, <1>2
  <2> QED
    BY <1>1, <1>2, <2>1, <2>2
<1>4. \A q \in expired' : Docs(q)' \subseteq disturbed'
  <2>1. expired' = expired /\ p \notin expired /\ expired \subseteq Slots
    BY DEF Starts, TypeInv, TypeOK
  <2>2. \A q \in expired : Docs(q) \subseteq disturbed
    BY DEF Apart
  <2> QED
    BY <1>1, <1>2, <2>1, <2>2
<1>5. lapsed' \subseteq disturbed'
  BY <1>2 DEF Apart, Starts
<1>6. ASSUME NEW i \in Invoices, i \in disturbed'
      PROVE  invoices'[i].order \in disturbed' \cup {NoOrder}
  <2>1. invoices[i].status # "absent" => invoices'[i] = invoices[i]
    BY DEF Starts
  <2>2. CASE i \in disturbed
    <3>1. invoices[i].status # "absent" /\ invoices[i].order \in disturbed \cup {NoOrder}
      BY <2>2 DEF Rows, Apart
    <3> QED
      BY <1>2, <2>1, <3>1
  <2>3. CASE i \notin disturbed
    <3>1. PICK q \in Slots : i \in Docs(q) /\ i \in Docs(p)'
      BY <1>2, <1>6, <2>3
    <3>2. Active(q) /\ ~OnOrder(q) /\ Row(q) = invoices[i] /\ invoices[i].status # "absent"
      BY <3>1, DocsInserted
    <3>3. invoices[i].order # NoOrder => invoices[i].order \in Docs(q)
      BY <3>2 DEF Docs, Active
    <3>4. d = i /\ task'[p].doc = i /\ ~OnOrder(p)'
      <4>1. task'[p].doc = d /\ (d \in Orders <=> OnOrder(p)') /\ pc'[p] # "idle"
        BY DEF Starts
      <4>2. i \notin Orders
        BY ProcurementAssumption
      <4>3. CASE d = i
        BY <4>1, <4>2, <4>3
      <4>4. CASE d # i
        <5>1. ~OnOrder(p)' /\ i = Row(p)'.order /\ i # NoOrder
          BY <3>1, <4>1, <4>4 DEF Docs
        <5>2. d \in Invoices /\ Row(p)' = invoices'[d]
          BY <4>1, <5>1 DEF Row, Documents
        <5>3. invoices'[d].order \in Orders \cup {NoOrder}
          BY <5>2 DEF TypeOK
        <5> QED
          BY <4>2, <5>1, <5>2, <5>3
      <4> QED
        BY <4>3, <4>4
    <3>5. Row(p)' = invoices[i] /\ pc'[p] # "idle"
      BY <2>1, <3>2, <3>4 DEF Row, Starts
    <3>6. invoices[i].order # NoOrder => invoices[i].order \in Docs(p)'
      BY <3>4, <3>5 DEF Docs
    <3> QED
      BY <1>2, <2>1, <3>2, <3>3, <3>6
  <2> QED
    BY <2>2, <2>3
<1> QED
  BY <1>3, <1>4, <1>5, <1>6 DEF Apart

\* A row that is inserted is disturbed by nobody yet, and of a committed order.
LEMMA RowsStarts ==
    ASSUME TypeInv, TypeOK', Rows, NEW p \in Slots, NEW d \in Documents, Starts(p, d)
    PROVE  Rows'
<1>1. disturbed' = disturbed \cup (Docs(p)' \cap UNION {Docs(q) : q \in Slots})
  BY DEF Starts
<1>2. ASSUME NEW o \in Orders
      PROVE  /\ orders'[o].status = "absent" => o \notin disturbed'
             /\ orders'[o].status = "rolledBack" => o \in disturbed'
             /\ orders[o].status \in {"APPROVED", "CANCELLED"} =>
                   orders'[o].status \in {"APPROVED", "CANCELLED"}
  <2>1. /\ orders[o].status = "absent" => o \notin disturbed
        /\ orders[o].status = "absent" => \A q \in Slots : o \notin Docs(q)
        /\ orders[o].status = "rolledBack" => o \in disturbed
    BY DocsInserted DEF Rows
  <2>2. \/ orders'[o] = orders[o]
        \/ orders[o].status = "absent" /\ orders'[o].status = "uncommitted"
    BY DEF Starts
  <2> QED
    BY <1>1, <2>1, <2>2
<1>3. ASSUME NEW i \in Invoices
      PROVE  /\ invoices'[i].status = "absent" => i \notin disturbed' /\ invoices'[i].order = NoOrder
             /\ invoices'[i].status = "rolledBack" => i \in disturbed'
             /\ invoices'[i].order # NoOrder =>
                   orders'[invoices'[i].order].status \in {"APPROVED", "CANCELLED"}
  <2>1. /\ invoices[i].status = "absent" => i \notin disturbed /\ invoices[i].order = NoOrder
        /\ invoices[i].status = "absent" => \A q \in Slots : i \notin Docs(q)
        /\ invoices[i].status = "rolledBack" => i \in disturbed
        /\ invoices[i].order # NoOrder =>
              orders[invoices[i].order].status \in {"APPROVED", "CANCELLED"}
    BY DocsInserted DEF Rows
  <2>2. invoices'[i].order \in Orders \cup {NoOrder}
    BY DEF TypeOK
  <2>3. \/ invoices'[i] = invoices[i]
        \/ /\ invoices'[i].status = "uncommitted"
           /\ invoices'[i].order # NoOrder =>
                 orders[invoices'[i].order].status \in {"APPROVED", "CANCELLED"}
    BY DEF Starts
  <2> QED
    BY <1>1, <1>2, <2>1, <2>2, <2>3
<1> QED
  BY <1>2, <1>3 DEF Rows

-------------------------------------------------------------------------------
(***************************************************************************)
(* What the invoices of an order bill                                      *)
(***************************************************************************)

\* A step of a slot at work moves no invoice to another order.
LEMMA InvoicesOfKept ==
    ASSUME NEW p \in Slots, Works(p), NEW o \in Orders
    PROVE  InvoicesOf(o)' = InvoicesOf(o)
  BY DEF Works, InvoicesOf

\* Billed is what the end of p changes in the billing of its invoice.
LEMMA BillingFinished ==
    ASSUME TypeInv, NEW p \in Slots, Finish(p)
    PROVE  \A i \in Invoices :
              /\ Billing(i) \in Int /\ Billing(i)' \in Int
              /\ Billing(i)' = Billing(i) + IF ~OnOrder(p) /\ i = task[p].doc THEN Billed(p) ELSE 0
<1>1. pc[p] = "finish" /\ Active(p)
  BY DEF Finish, Active
<1>2. \A i \in Invoices : invoices[i].amount \in Int
  BY DEF TypeInv, TypeOK
<1>3. CASE OnOrder(p)
  <2>1. \A i \in Invoices : invoices'[i] = invoices[i]
    BY <1>3 DEF Finish
  <2> QED
    BY <1>2, <1>3, <2>1 DEF Billing
<1>4. CASE ~OnOrder(p)
  <2>1. PICK d \in Invoices : d = task[p].doc /\ Row(p) = invoices[d]
    BY <1>1, <1>4, RowOf DEF TypeInv
  <2>2. invoices' = [invoices EXCEPT ![d].status = FinalStatus(p)]
    BY <1>4, <2>1 DEF Finish
  <2>3. \A i \in Invoices :
          /\ invoices'[i].amount = invoices[i].amount
          /\ invoices'[i].status = IF i = d THEN FinalStatus(p) ELSE invoices[i].status
    BY <2>1, <2>2 DEF TypeInv, TypeOK
  <2>4. /\ Creating(p) => invoices[d].status # "VALIDATED" /\ FinalStatus(p) = "VALIDATED"
        /\ ~Creating(p) => FinalStatus(p) = "CANCELLED"
    BY <1>1, <1>4, <2>1 DEF TypeInv, Control, ControlAt, FinalStatus
  <2>5. Billing(d)' = Billing(d) + Billed(p)
    <3>1. Billed(p) = IF Creating(p) THEN invoices[d].amount
                      ELSE IF invoices[d].status = "VALIDATED" THEN -invoices[d].amount ELSE 0
      BY <2>1 DEF Billed
    <3> QED
      BY <1>2, <2>1, <2>3, <2>4, <3>1 DEF Billing
  <2>6. \A i \in Invoices \ {d} : Billing(i)' = Billing(i)
    BY <2>3 DEF Billing
  <2>7. \A i \in Invoices : Billing(i) \in Int /\ Billing(i)' \in Int
    BY <1>2, <2>3 DEF Billing
  <2> QED
    BY <1>4, <2>1, <2>5, <2>6, <2>7
<1> QED
  BY <1>3, <1>4

\* No other step bills anything.
LEMMA BillingKept ==
    ASSUME TypeInv, NEW p \in Slots,
           \/ UpdateStatus(p) \/ PostCommitment(p) \/ PostConsumption(p) \/ ReadOpenCommitment(p)
           \/ ReadInvoiced(p) \/ ReadUnwound(p) \/ PostUnwind(p) \/ Rollback(p) \/ Expire(p)
    PROVE  /\ Works(p) /\ UNCHANGED invoiced
           /\ \A i \in Invoices : Billing(i)' = Billing(i)
<1>1. CASE Rollback(p) \/ Expire(p)
  <2>1. Works(p) /\ UNCHANGED invoiced /\ Active(p) /\ Discard(p)
    BY <1>1, WorksFail DEF Rollback, Expire, Active, Discard
  <2>2. \A i \in Invoices :
          /\ invoices'[i].amount = invoices[i].amount
          /\ \/ invoices'[i].status = invoices[i].status
             \/ Creating(p) /\ task[p].doc = i /\ invoices'[i].status = "rolledBack"
    BY <2>1, TypeDiscard
  <2>3. \A i \in Invoices : Creating(p) /\ task[p].doc = i => invoices[i].status # "VALIDATED"
    BY <2>1, BusyRow
  <2> QED
    BY <2>1, <2>2, <2>3 DEF Billing
<1>2. CASE ~(Rollback(p) \/ Expire(p))
  <2>1. Works(p) /\ UNCHANGED <<invoiced, invoices>>
    BY <1>2, WorksRead, WorksPost
  <2> QED
    BY <2>1 DEF Billing
<1> QED
  BY <1>1, <1>2

\* The status of an invoice and its order's invoiced sum change in one transaction.
LEMMA InvoicedWorks ==
    ASSUME TypeInv, InvoicedInv, NEW p \in Slots,
           \/ UpdateStatus(p) \/ PostCommitment(p) \/ PostConsumption(p) \/ ReadOpenCommitment(p)
           \/ ReadInvoiced(p) \/ ReadUnwound(p) \/ PostUnwind(p) \/ Rollback(p) \/ Expire(p)
           \/ Finish(p)
    PROVE  InvoicedInv'
<1> DEFINE w == [i \in Invoices |-> Billing(i)]
<1>0. SUFFICES ASSUME NEW o \in Orders
               PROVE  /\ IsFiniteSet(InvoicesOf(o)')
                      /\ invoiced'[o] = SumFunctionOnSet(w', InvoicesOf(o)')
  BY DEF InvoicedInv
<1>1. IsFiniteSet(InvoicesOf(o)) /\ invoiced[o] = SumFunctionOnSet(w, InvoicesOf(o))
  BY DEF InvoicedInv
<1>2. Works(p)
  BY BillingKept, WorksFinish
<1>3. InvoicesOf(o)' = InvoicesOf(o)
  BY <1>2, InvoicesOfKept
<1>4. CASE ~Finish(p)
  <2>1. UNCHANGED invoiced /\ \A i \in Invoices : Billing(i)' = Billing(i)
    BY <1>4, BillingKept
  <2>2. w' = w
    BY <2>1
  <2> QED
    BY <1>1, <1>3, <2>1, <2>2
<1>5. CASE Finish(p)
  <2> DEFINE S == InvoicesOf(o)
             d == task[p].doc
  <2>1. \A i \in S : w[i] \in Int /\ w'[i] \in Int
                     /\ w'[i] = w[i] + IF ~OnOrder(p) /\ i = d THEN Billed(p) ELSE 0
    BY <1>5, BillingFinished DEF InvoicesOf
  <2>2. CASE ~OnOrder(p) /\ d \in S
    <3>1. Row(p).order = o
      BY <2>2 DEF Row, InvoicesOf
    <3>2. o # NoOrder
      BY ProcurementAssumption
    <3>3. invoiced' = [invoiced EXCEPT ![o] = @ + Billed(p)]
      BY <1>5, <2>2, <3>1, <3>2 DEF Finish
    <3>4. invoiced'[o] = invoiced[o] + Billed(p) /\ invoiced[o] \in Int
      BY <3>3 DEF TypeInv, TypeOK
    <3>5. Billed(p) \in Int
      <4>1. Active(p)
        BY <1>5 DEF Finish, Active
      <4> QED
        BY <4>1, RowOf DEF TypeInv, Billed
    <3>6. SumFunctionOnSet(w', S) = SumFunctionOnSet(w, S) + Billed(p)
      <4> HIDE DEF w, S, d
      <4>1. \A i \in S : w[i] \in Int
        BY <2>1
      <4>2. \A i \in S : w'[i] = w[i] + IF i = d THEN Billed(p) ELSE 0
        BY <2>1, <2>2
      <4> QED
        BY <1>1, <2>2, <3>5, <4>1, <4>2, SumChange DEF S
    <3>7. SumFunctionOnSet(w', S) = invoiced'[o]
      BY <1>1, <3>4, <3>6
    <3> QED
      BY <1>1, <1>3, <3>7
  <2>3. CASE ~(~OnOrder(p) /\ d \in S)
    <3>1. invoiced'[o] = invoiced[o]
      <4>1. CASE ~OnOrder(p) /\ Row(p).order # NoOrder
        <5>1. d \in Invoices /\ Row(p) = invoices[d]
          BY <1>5, <4>1, RowOf DEF TypeInv, Finish, Active
        <5>2. Row(p).order # o
          BY <2>3, <4>1, <5>1 DEF InvoicesOf
        <5>3. invoiced' = [invoiced EXCEPT ![Row(p).order] = @ + Billed(p)]
          BY <1>5, <4>1 DEF Finish
        <5> QED
          BY <5>2, <5>3 DEF TypeInv, TypeOK
      <4>2. CASE ~(~OnOrder(p) /\ Row(p).order # NoOrder)
        BY <1>5, <4>2 DEF Finish
      <4> QED
        BY <4>1, <4>2
    <3>2. \A i \in S : w[i] = w'[i]
      <4> HIDE DEF w, S, d
      <4> QED
        BY <2>1, <2>3
    <3>3. SumFunctionOnSet(w, S) = SumFunctionOnSet(w', S)
      <4> HIDE DEF w
      <4> QED
        BY <1>1, <3>2, SumSame
    <3> QED
      BY <1>1, <1>3, <3>1, <3>3
  <2> QED
    BY <2>2, <2>3
<1> QED
  BY <1>4, <1>5

\* A new invoice weighs nothing on its order.
LEMMA InvoicesOfStarts ==
    ASSUME Rows, NEW p \in Slots, NEW d \in Documents, Starts(p, d), NEW o \in Orders
    PROVE  \/ InvoicesOf(o)' = InvoicesOf(o)
           \/ /\ d \in Invoices /\ d \notin InvoicesOf(o) /\ InvoicesOf(o)' = InvoicesOf(o) \cup {d}
              /\ invoices[d].status = "absent"
<1>1. CASE task'[p].kind = "createInvoice" /\ d \in Invoices
  <2>1. /\ invoices[d].status = "absent"
        /\ \A i \in Invoices \ {d} : invoices'[i] = invoices[i]
    BY <1>1 DEF Starts
  <2>2. invoices[d].order = NoOrder /\ o # NoOrder
    BY <1>1, <2>1, ProcurementAssumption DEF Rows
  <2> QED
    BY <1>1, <2>1, <2>2 DEF InvoicesOf
<1>2. CASE ~(task'[p].kind = "createInvoice" /\ d \in Invoices)
  <2>1. \A i \in Invoices : invoices'[i] = invoices[i]
    BY <1>2 DEF Starts
  <2> QED
    BY <2>1 DEF InvoicesOf
<1> QED
  BY <1>1, <1>2

\* A new invoice bills nothing until it commits.
LEMMA InvoicedStarts ==
    ASSUME TypeInv, Rows, InvoicedInv, NEW p \in Slots, NEW d \in Documents, Starts(p, d)
    PROVE  InvoicedInv'
<1> DEFINE w == [i \in Invoices |-> Billing(i)]
<1>0. SUFFICES ASSUME NEW o \in Orders
               PROVE  /\ IsFiniteSet(InvoicesOf(o)')
                      /\ invoiced'[o] = SumFunctionOnSet(w', InvoicesOf(o)')
  BY DEF InvoicedInv
<1>1. IsFiniteSet(InvoicesOf(o)) /\ invoiced[o] = SumFunctionOnSet(w, InvoicesOf(o))
  BY DEF InvoicedInv
<1>2. \A i \in Invoices : Billing(i)' = Billing(i)
  <2>1. \A i \in Invoices : \/ invoices'[i] = invoices[i]
                            \/ invoices[i].status = "absent" /\ invoices'[i].status = "uncommitted"
    BY DEF Starts
  <2> QED
    BY <2>1 DEF Billing
<1>3. w' = w
  BY <1>2
<1>4. invoiced'[o] = invoiced[o] /\ invoiced[o] \in Int
  BY DEF Starts, TypeInv, TypeOK
<1>5. CASE InvoicesOf(o)' = InvoicesOf(o)
  BY <1>1, <1>3, <1>4, <1>5
<1>6. CASE /\ d \in Invoices /\ d \notin InvoicesOf(o) /\ InvoicesOf(o)' = InvoicesOf(o) \cup {d}
           /\ invoices[d].status = "absent"
  <2> DEFINE S == InvoicesOf(o)
  <2>1. w[d] = 0 /\ \A i \in S \cup {d} : w[i] \in Int
    BY <1>6 DEF Billing, InvoicesOf, TypeInv, TypeOK
  <2>2. IsFiniteSet(S \cup {d}) /\ SumFunctionOnSet(w, S \cup {d}) = w[d] + SumFunctionOnSet(w, S)
    <3> HIDE DEF w
    <3> QED
      BY <1>1, <1>6, <2>1, SumAdd
  <2>3. SumFunctionOnSet(w, S \cup {d}) = invoiced[o]
    <3> HIDE DEF w
    <3> QED
      BY <1>1, <1>4, <2>1, <2>2
  <2> QED
    BY <1>3, <1>4, <1>6, <2>2, <2>3
<1> QED
  BY <1>5, <1>6, InvoicesOfStarts

-------------------------------------------------------------------------------
(***************************************************************************)
(* The accounts of the documents                                           *)
(***************************************************************************)

\* A slot other than p at work on a document nobody shares keeps its account.
LEMMA AccountOther ==
    ASSUME TypeInv, NEW q \in Slots, TaskAccount(q),
           pc'[q] = pc[q], task'[q] = task[q], disturbed \subseteq disturbed',
           Active(q) /\ task[q].doc \notin disturbed' =>
              /\ commitment'[task[q].doc] = commitment[task[q].doc]
              /\ consumption'[task[q].doc] = consumption[task[q].doc]
              /\ Row(q)'.status = Row(q).status /\ Row(q)'.line = Row(q).line
              /\ Row(q)'.amount = Row(q).amount
    PROVE  TaskAccount(q)'
<1>1. Active(q)' = Active(q) /\ OnOrder(q)' = OnOrder(q) /\ Creating(q)' = Creating(q)
  BY DEF Active, OnOrder, Creating
<1>2. SettledStatus(q)' = SettledStatus(q) /\ HasPosted(q)' = HasPosted(q)
  BY <1>1 DEF SettledStatus, HasPosted
<1>3. SUFFICES ASSUME Active(q), task[q].doc \notin disturbed'
               PROVE  /\ Row(q)'.status = SettledStatus(q)'
                      /\ \A l \in Lines :
                            PostedBy(q)'[l] = IF HasPosted(q)' /\ l = Row(q)'.line
                                              THEN Row(q)'.amount ELSE 0
                      /\ task'[q].kind = "cancelInvoice" /\ pc'[q] = "finish" =>
                            \A l \in Lines : commitment'[task'[q].doc][l] = 0
  BY <1>1 DEF TaskAccount
<1>4. PostedBy(q)' = PostedBy(q)
  BY <1>1, <1>3 DEF PostedBy
<1> QED
  BY <1>2, <1>3, <1>4 DEF TaskAccount

\* A document p does not work on, before and after a step of p.
LEMMA RowsElsewhere ==
    ASSUME TypeInv, NEW p \in Slots, Works(p), NEW d \in Documents, d # task[p].doc
    PROVE  /\ d \in Orders => orders'[d].status = orders[d].status
           /\ d \in Invoices => invoices'[d].status = invoices[d].status
           /\ commitment'[d] = commitment[d] /\ consumption'[d] = consumption[d]
           /\ WorkedOn(d)' <=> WorkedOn(d)
<1>1. /\ d \in Orders => orders'[d].status = orders[d].status
      /\ d \in Invoices => invoices'[d].status = invoices[d].status
      /\ commitment'[d] = commitment[d] /\ consumption'[d] = consumption[d]
  BY DEF Works
<1>2. /\ \A q \in Slots \ {p} : pc'[q] = pc[q] /\ task'[q] = task[q]
      /\ pc'[p] = "idle" \/ task'[p] = task[p]
  BY DEF Works
<1>3. WorkedOn(d)' <=> WorkedOn(d)
  BY <1>2 DEF WorkedOn, Active
<1> QED
  BY <1>1, <1>3

\* The documents and slots p does not touch.
LEMMA AccountsElsewhere ==
    ASSUME TypeInv, Apart, Accounts, NEW p \in Slots, Works(p)
    PROVE  /\ \A q \in Slots \ {p} : TaskAccount(q)'
           /\ \A o \in Orders : o # task[p].doc => OrderAtRest(o)'
           /\ \A i \in Invoices : i # task[p].doc => InvoiceAtRest(i)'
<1>1. disturbed \subseteq disturbed' /\ Active(p) /\ task[p].doc \in Docs(p)
  BY DEF Works, Active, Docs
<1>2. ASSUME NEW q \in Slots \ {p} PROVE TaskAccount(q)'
  <2>1. pc'[q] = pc[q] /\ task'[q] = task[q]
    BY DEF Works
  <2>2. ASSUME Active(q), task[q].doc \notin disturbed'
        PROVE  /\ commitment'[task[q].doc] = commitment[task[q].doc]
               /\ consumption'[task[q].doc] = consumption[task[q].doc]
               /\ Row(q)'.status = Row(q).status /\ Row(q)'.line = Row(q).line
               /\ Row(q)'.amount = Row(q).amount
    <3>1. task[q].doc \in Docs(q) /\ task[q].doc \in Documents
      BY <2>2, RowOf DEF TypeInv, Docs, Active
    <3>2. task[q].doc # task[p].doc
      BY <1>1, <2>2, <3>1 DEF Apart
    <3>3. OnOrder(q)' = OnOrder(q)
      BY <2>1 DEF OnOrder
    <3>4. OnOrder(q) => task[q].doc \in Orders /\ Row(q) = orders[task[q].doc]
                        /\ Row(q)' = orders'[task[q].doc]
      BY <2>1, <2>2, <3>3, RowOf DEF TypeInv, Row
    <3>5. ~OnOrder(q) => task[q].doc \in Invoices /\ Row(q) = invoices[task[q].doc]
                         /\ Row(q)' = invoices'[task[q].doc]
      BY <2>1, <2>2, <3>3, RowOf DEF TypeInv, Row
    <3> QED
      BY <3>1, <3>2, <3>4, <3>5 DEF Works
  <2>3. TaskAccount(q)
    BY DEF Accounts
  <2> QED
    BY <1>1, <2>1, <2>2, <2>3, AccountOther
<1>3. ASSUME NEW o \in Orders, o # task[p].doc PROVE OrderAtRest(o)'
  <2>1. OrderAtRest(o) /\ o \in Documents
    BY DEF Accounts, Documents
  <2>2. /\ orders'[o].status = orders[o].status /\ commitment'[o] = commitment[o]
        /\ WorkedOn(o)' <=> WorkedOn(o)
    BY <1>3, <2>1, RowsElsewhere
  <2>3. orders'[o].line = orders[o].line /\ orders'[o].amount = orders[o].amount
    BY DEF Works
  <2> QED
    BY <1>1, <2>1, <2>2, <2>3 DEF OrderAtRest
<1>4. ASSUME NEW i \in Invoices, i # task[p].doc PROVE InvoiceAtRest(i)'
  <2>1. InvoiceAtRest(i) /\ i \in Documents
    BY DEF Accounts, Documents
  <2>2. /\ invoices'[i].status = invoices[i].status /\ commitment'[i] = commitment[i]
        /\ consumption'[i] = consumption[i]
        /\ WorkedOn(i)' <=> WorkedOn(i)
    BY <1>4, <2>1, RowsElsewhere
  <2>3. invoices'[i].line = invoices[i].line /\ invoices'[i].amount = invoices[i].amount
    BY DEF Works
  <2> QED
    BY <1>1, <2>1, <2>2, <2>3 DEF InvoiceAtRest
<1> QED
  BY <1>2, <1>3, <1>4

\* The document of a slot that goes on is not at rest.
LEMMA AccountGoesOn ==
    ASSUME NEW p \in Slots, pc'[p] # "idle", task'[p] = task[p]
    PROVE  /\ \A o \in Orders : o = task[p].doc => OrderAtRest(o)'
           /\ \A i \in Invoices : i = task[p].doc => InvoiceAtRest(i)'
<1>1. ASSUME NEW d, d = task[p].doc PROVE WorkedOn(d)'
  BY <1>1 DEF WorkedOn, Active
<1> QED
  BY <1>1 DEF OrderAtRest, InvoiceAtRest

\* What is left to show of a step of p.
LEMMA AccountsDone ==
    ASSUME TypeInv, Apart, Accounts, NEW p \in Slots, Works(p), TaskAccount(p)',
           \/ pc'[p] # "idle" /\ task'[p] = task[p]
           \/ /\ \A o \in Orders : o = task[p].doc => OrderAtRest(o)'
              /\ \A i \in Invoices : i = task[p].doc => InvoiceAtRest(i)'
    PROVE  Accounts'
<1>1. /\ \A q \in Slots \ {p} : TaskAccount(q)'
      /\ \A o \in Orders : o # task[p].doc => OrderAtRest(o)'
      /\ \A i \in Invoices : i # task[p].doc => InvoiceAtRest(i)'
  BY AccountsElsewhere
<1>2. /\ \A o \in Orders : o = task[p].doc => OrderAtRest(o)'
      /\ \A i \in Invoices : i = task[p].doc => InvoiceAtRest(i)'
  BY AccountGoesOn
<1> QED
  BY <1>1, <1>2 DEF Accounts

\* A step that leaves its document disturbed.
LEMMA AccountsFail ==
    ASSUME TypeInv, Apart, Accounts, NEW p \in Slots, Works(p), task[p].doc \in disturbed'
    PROVE  Accounts'
<1>1. TaskAccount(p)'
  BY DEF Works, TaskAccount, Active
<1>2. /\ \A o \in Orders : o = task[p].doc => OrderAtRest(o)'
      /\ \A i \in Invoices : i = task[p].doc => InvoiceAtRest(i)'
  BY DEF OrderAtRest, InvoiceAtRest
<1> QED
  BY <1>1, <1>2, AccountsDone

\* The row of a slot that goes on, alone on its document.
LEMMA RowGoesOn ==
    ASSUME TypeInv, NEW p \in Slots, Works(p), pc'[p] # "idle", task[p].doc \notin disturbed'
    PROVE  /\ task'[p] = task[p] /\ SettledStatus(p)' = SettledStatus(p)
           /\ OnOrder(p)' = OnOrder(p) /\ Creating(p)' = Creating(p)
           /\ Row(p)'.status = Row(p).status /\ Row(p)'.line = Row(p).line
           /\ Row(p)'.amount = Row(p).amount
<1>1. /\ Active(p) /\ task'[p] = task[p] /\ task[p].doc \in Docs(p)
      /\ disturbed' # disturbed \cup Docs(p)
  BY DEF Works, Docs, Active
<1>2. /\ OnOrder(p)' = OnOrder(p) /\ Creating(p)' = Creating(p)
      /\ SettledStatus(p)' = SettledStatus(p)
  BY <1>1 DEF OnOrder, Creating, SettledStatus
<1>3. CASE OnOrder(p)
  <2>1. /\ task[p].doc \in Orders /\ Row(p) = orders[task[p].doc]
        /\ Row(p)' = orders'[task[p].doc]
    BY <1>1, <1>2, <1>3, RowOf DEF TypeInv, Row
  <2> QED
    BY <1>1, <1>2, <2>1 DEF Works
<1>4. CASE ~OnOrder(p)
  <2>1. /\ task[p].doc \in Invoices /\ Row(p) = invoices[task[p].doc]
        /\ Row(p)' = invoices'[task[p].doc]
    BY <1>1, <1>2, <1>4, RowOf DEF TypeInv, Row
  <2> QED
    BY <1>1, <1>2, <2>1 DEF Works
<1> QED
  BY <1>3, <1>4

\* The account of a slot that goes on, from what its step does to the sums.
LEMMA AccountKept ==
    ASSUME TypeInv, Apart, Accounts, NEW p \in Slots, Works(p),
           pc'[p] # "idle" /\ task[p].doc \notin disturbed' =>
              /\ \A l \in Lines :
                    (IF OnOrder(p) THEN commitment'[task[p].doc] ELSE consumption'[task[p].doc])[l]
                      = IF HasPosted(p)' /\ l = Row(p).line THEN Row(p).amount ELSE 0
              /\ task[p].kind = "cancelInvoice" /\ pc'[p] = "finish" =>
                    \A l \in Lines : commitment'[task[p].doc][l] = 0
    PROVE  TaskAccount(p)'
<1>1. SUFFICES ASSUME pc'[p] # "idle", task'[p].doc \notin disturbed'
               PROVE  /\ Row(p)'.status = SettledStatus(p)'
                      /\ \A l \in Lines :
                            PostedBy(p)'[l] = IF HasPosted(p)' /\ l = Row(p)'.line
                                              THEN Row(p)'.amount ELSE 0
                      /\ task'[p].kind = "cancelInvoice" /\ pc'[p] = "finish" =>
                            \A l \in Lines : commitment'[task'[p].doc][l] = 0
  BY DEF TaskAccount, Active
<1>2. task'[p] = task[p] /\ task[p].doc \notin disturbed'
  BY <1>1 DEF Works
<1>3. /\ SettledStatus(p)' = SettledStatus(p)
      /\ OnOrder(p)' = OnOrder(p) /\ Row(p)'.status = Row(p).status
      /\ Row(p)'.line = Row(p).line /\ Row(p)'.amount = Row(p).amount
  BY <1>1, <1>2, RowGoesOn
<1>4. Row(p).status = SettledStatus(p)
  BY <1>2 DEF Accounts, TaskAccount, Works
<1>5. PostedBy(p)' = IF OnOrder(p) THEN commitment'[task[p].doc] ELSE consumption'[task[p].doc]
  BY <1>2, <1>3 DEF PostedBy
<1> QED
  BY <1>1, <1>2, <1>3, <1>4, <1>5

\* A sum of an invoice whose unwinding is bounded, off the line of the invoice.
LEMMA NothingElsewhere ==
    ASSUME TypeInv, UnwindInv, NEW i \in Invoices, i \notin lapsed, NEW l \in Lines,
           l = invoices[i].line => commitment[i][l] = 0
    PROVE  commitment[i][l] = 0
<1>1. /\ commitment[i][l] <= 0
      /\ commitment[i][l] < 0 => l = invoices[i].line
  BY DEF UnwindInv, UnwindBounded
<1>2. commitment[i][l] \in Int
  BY DEF TypeInv, TypeOK, Documents
<1> QED
  BY <1>1, <1>2

\* A read posts nothing.
LEMMA AccountsRead ==
    ASSUME TypeInv, UnwindInv, Apart, Accounts, NEW p \in Slots,
           UpdateStatus(p) \/ ReadOpenCommitment(p) \/ ReadInvoiced(p) \/ ReadUnwound(p)
    PROVE  Accounts'
<1>1. /\ Works(p) /\ Active(p) /\ task' = task
      /\ UNCHANGED <<commitment, consumption, disturbed>>
  BY WorksRead DEF Works
<1>2. /\ UpdateStatus(p) => pc[p] = "update" /\ ~Creating(p)
              /\ pc'[p] = IF Row(p).line = NoLine THEN "finish" ELSE "post"
      /\ ReadOpenCommitment(p) \/ ReadInvoiced(p) =>
              /\ pc[p] \in {"readOpen", "readInvoiced"} /\ Creating(p)
              /\ task[p].kind = "createInvoice"
              /\ pc'[p] \in {"finish", "readInvoiced", "unwind"}
      /\ ReadUnwound(p) => /\ pc[p] = "readUnwound" /\ ~Creating(p)
              /\ pc'[p] = IF commitment[task[p].doc][Row(p).line] = 0 THEN "finish" ELSE "restore"
  <2>1. /\ pc[p] = "update" => ~Creating(p)
        /\ pc[p] \in {"readOpen", "readInvoiced"} => Creating(p) /\ task[p].kind = "createInvoice"
        /\ pc[p] = "readUnwound" => ~Creating(p)
    BY <1>1 DEF TypeInv, Control, ControlAt, Creating
  <2>2. UpdateStatus(p) => pc[p] = "update"
              /\ pc'[p] = IF Row(p).line = NoLine THEN "finish" ELSE "post"
    BY DEF UpdateStatus, Goto, TypeInv, TypeOK
  <2>3. /\ ReadOpenCommitment(p) => pc[p] = "readOpen" /\ pc'[p] \in {"finish", "readInvoiced"}
        /\ ReadInvoiced(p) => pc[p] = "readInvoiced" /\ pc'[p] \in {"finish", "unwind"}
    BY DEF ReadOpenCommitment, ReadInvoiced, Read, Goto, TypeInv, TypeOK
  <2>4. ReadUnwound(p) => /\ pc[p] = "readUnwound"
              /\ pc'[p] = IF commitment[task[p].doc][Row(p).line] = 0 THEN "finish" ELSE "restore"
    BY DEF ReadUnwound, Read, Goto, TypeInv, TypeOK
  <2> QED
    BY <2>1, <2>2, <2>3, <2>4
<1>3. Creating(p)' = Creating(p)
  BY <1>1 DEF Creating
<1>4. ASSUME task[p].doc \notin disturbed
      PROVE  /\ \A l \in Lines :
                  PostedBy(p)[l] = IF HasPosted(p)' /\ l = Row(p).line THEN Row(p).amount ELSE 0
             /\ task[p].kind = "cancelInvoice" /\ pc'[p] = "finish" =>
                  \A l \in Lines : commitment[task[p].doc][l] = 0
  <2>1. \A l \in Lines :
            PostedBy(p)[l] = IF HasPosted(p) /\ l = Row(p).line THEN Row(p).amount ELSE 0
    BY <1>1, <1>4 DEF Accounts, TaskAccount
  <2>2. HasPosted(p)' <=> HasPosted(p) /\ ~(UpdateStatus(p) /\ Row(p).line = NoLine)
    BY <1>2, <1>3 DEF HasPosted
  <2>3. NoLine \notin Lines
    BY ProcurementAssumption
  <2>4. ASSUME task[p].kind = "cancelInvoice", pc'[p] = "finish", NEW l \in Lines
        PROVE  commitment[task[p].doc][l] = 0
    <3>1. ~OnOrder(p)
      BY <2>4 DEF OnOrder
    <3>2. task[p].doc \in Invoices /\ Row(p) = invoices[task[p].doc]
      BY <1>1, <3>1, RowOf DEF TypeInv
    <3>3. task[p].doc \notin lapsed
      BY <1>4 DEF Apart
    <3>4. Row(p).line = NoLine \/ commitment[task[p].doc][Row(p).line] = 0
      BY <1>2, <2>4
    <3> QED
      BY <2>3, <3>2, <3>3, <3>4, NothingElsewhere
  <2> QED
    BY <2>1, <2>2, <2>3, <2>4
<1>5. TaskAccount(p)'
  <2>1. PostedBy(p) = IF OnOrder(p) THEN commitment'[task[p].doc] ELSE consumption'[task[p].doc]
    BY <1>1 DEF PostedBy
  <2>2. pc'[p] # "idle" /\ task[p].doc \notin disturbed' =>
              /\ \A l \in Lines :
                    (IF OnOrder(p) THEN commitment'[task[p].doc] ELSE consumption'[task[p].doc])[l]
                      = IF HasPosted(p)' /\ l = Row(p).line THEN Row(p).amount ELSE 0
              /\ task[p].kind = "cancelInvoice" /\ pc'[p] = "finish" =>
                    \A l \in Lines : commitment'[task[p].doc][l] = 0
    BY <1>1, <1>4, <2>1
  <2> QED
    BY <1>1, <2>2, AccountKept
<1>6. pc'[p] # "idle"
  BY <1>2
<1> QED
  BY <1>1, <1>5, <1>6, AccountsDone

\* A post is the one its slot's document was missing.
LEMMA AccountsPost ==
    ASSUME TypeInv, UnwindInv, Apart, Accounts, NEW p \in Slots,
           PostCommitment(p) \/ PostConsumption(p) \/ PostUnwind(p)
    PROVE  Accounts'
<1> DEFINE d == task[p].doc
<1>1. /\ Works(p) /\ Active(p) /\ UNCHANGED disturbed /\ d \in Docs(p) /\ d \in Documents
      /\ OnOrder(p) \/ (d \in Invoices /\ Row(p) = invoices[d])
  BY WorksPost, RowOf DEF Works, Docs, Active, TypeInv
<1>2. /\ Row(p).line \in Lines /\ Row(p).amount \in Int /\ Signed(p) \in Int /\ got[p] \in Int
      /\ -got[p] \in Int
  <2>1. pc[p] \in {"post", "unwind", "restore"}
    BY DEF PostCommitment, PostConsumption, PostUnwind
  <2>2. Row(p).line \in Lines /\ Row(p).amount \in Int
    BY <1>1, <2>1, RowOf DEF TypeInv, Control, ControlAt
  <2> QED
    BY <2>2 DEF Signed, TypeInv, TypeOK
<1>3. CASE p \in expired
  <2>1. d \in disturbed'
    BY <1>1, <1>3 DEF Apart
  <2> QED
    BY <1>1, <2>1, AccountsFail
<1>4. CASE p \notin expired
  <2>1. /\ task' = task /\ pc'[p] # "idle"
        /\ PostCommitment(p) \/ PostUnwind(p) => pc'[p] = "finish"
        /\ PostConsumption(p) => pc'[p] = AfterConsumption(p)
    BY <1>4 DEF PostCommitment, PostConsumption, PostUnwind, AfterPost, Goto, AfterConsumption,
                TypeInv, TypeOK
  <2>2. Creating(p)' = Creating(p)
    BY <2>1 DEF Creating
  <2>3. ASSUME d \notin disturbed'
        PROVE  /\ \A l \in Lines :
                  (IF OnOrder(p) THEN commitment'[d] ELSE consumption'[d])[l]
                      = IF HasPosted(p)' /\ l = Row(p).line THEN Row(p).amount ELSE 0
               /\ task[p].kind = "cancelInvoice" /\ pc'[p] = "finish" =>
                    \A l \in Lines : commitment'[d][l] = 0
    <3>1. \A l \in Lines :
            PostedBy(p)[l] = IF HasPosted(p) /\ l = Row(p).line THEN Row(p).amount ELSE 0
      BY <1>1, <2>3 DEF Accounts, TaskAccount
    <3>2. CASE PostCommitment(p)
      <4>1. OnOrder(p) /\ pc[p] = "post" /\ commitment' = Posted(p, commitment, Signed(p))
        BY <3>2 DEF PostCommitment
      <4>2. \A l \in Lines : commitment'[d][l] =
                commitment[d][l] + IF l = Row(p).line THEN Signed(p) ELSE 0
        <5>1. commitment \in [Documents -> [Lines -> Int]]
          BY DEF TypeInv, TypeOK
        <5>2. \A k \in Documents : \A l \in Lines :
                Posted(p, commitment, Signed(p))[k][l] =
                  commitment[k][l] + IF k = d /\ l = Row(p).line THEN Signed(p) ELSE 0
          BY <1>1, <1>2, <5>1, PostedSums
        <5> QED
          BY <1>1, <4>1, <5>2
      <4>3. /\ HasPosted(p) <=> ~Creating(p)
            /\ HasPosted(p)' <=> Creating(p)
        BY <2>1, <2>2, <3>2, <4>1 DEF HasPosted
      <4>4. \A l \in Lines : commitment[d][l] =
                IF ~Creating(p) /\ l = Row(p).line THEN Row(p).amount ELSE 0
        BY <3>1, <4>1, <4>3 DEF PostedBy
      <4>5. \A l \in Lines : commitment'[d][l] =
                IF Creating(p) /\ l = Row(p).line THEN Row(p).amount ELSE 0
        BY <1>2, <4>2, <4>4 DEF Signed
      <4>6. task[p].kind # "cancelInvoice"
        BY <4>1 DEF OnOrder
      <4> QED
        BY <4>1, <4>3, <4>5, <4>6
    <3>3. CASE PostConsumption(p)
      <4>1. ~OnOrder(p) /\ pc[p] = "post" /\ consumption' = Posted(p, consumption, Signed(p))
        BY <3>3 DEF PostConsumption
      <4>2. \A l \in Lines : consumption'[d][l] =
                consumption[d][l] + IF l = Row(p).line THEN Signed(p) ELSE 0
        <5>1. consumption \in [Documents -> [Lines -> Int]]
          BY DEF TypeInv, TypeOK
        <5>2. \A k \in Documents : \A l \in Lines :
                Posted(p, consumption, Signed(p))[k][l] =
                  consumption[k][l] + IF k = d /\ l = Row(p).line THEN Signed(p) ELSE 0
          BY <1>1, <1>2, <5>1, PostedSums
        <5> QED
          BY <1>1, <4>1, <5>2
      <4>3. /\ HasPosted(p) <=> ~Creating(p)
            /\ HasPosted(p)' <=> Creating(p)
            /\ pc'[p] = "finish" => Creating(p)
        BY <2>1, <2>2, <3>3, <4>1 DEF HasPosted, AfterConsumption
      <4>4. \A l \in Lines : consumption[d][l] =
                IF ~Creating(p) /\ l = Row(p).line THEN Row(p).amount ELSE 0
        BY <3>1, <4>1, <4>3 DEF PostedBy
      <4>5. \A l \in Lines : consumption'[d][l] =
                IF Creating(p) /\ l = Row(p).line THEN Row(p).amount ELSE 0
        BY <1>2, <4>2, <4>4 DEF Signed
      <4>6. ~(task[p].kind = "cancelInvoice" /\ pc'[p] = "finish")
        BY <4>3 DEF Creating
      <4> QED
        BY <4>1, <4>3, <4>5, <4>6
    <3>4. CASE PostUnwind(p)
      <4>1. /\ pc[p] \in {"unwind", "restore"} /\ commitment' = Posted(p, commitment, -got[p])
            /\ UNCHANGED consumption
        BY <3>4 DEF PostUnwind
      <4>2. ~OnOrder(p) /\ (Creating(p) <=> pc[p] = "unwind")
        BY <1>1, <4>1 DEF TypeInv, Control, ControlAt, OnOrder, Creating
      <4>3. HasPosted(p)' <=> HasPosted(p)
        BY <2>1, <2>2, <3>4, <4>1, <4>2 DEF HasPosted
      <4>4. \A l \in Lines : consumption'[d][l] =
                IF HasPosted(p)' /\ l = Row(p).line THEN Row(p).amount ELSE 0
        BY <3>1, <4>1, <4>2, <4>3 DEF PostedBy
      <4>5. ASSUME task[p].kind = "cancelInvoice", NEW l \in Lines
            PROVE  commitment'[d][l] = 0
        <5>1. pc[p] = "restore" /\ d \in Invoices \ lapsed
          BY <1>1, <2>3, <4>1, <4>2, <4>5 DEF Creating, Apart
        <5>2. got[p] = commitment[d][Row(p).line]
          BY <1>1, <4>2, <5>1 DEF UnwindInv, UnwindAt
        <5>3. commitment \in [Documents -> [Lines -> Int]]
          BY DEF TypeInv, TypeOK
        <5>4. \A k \in Documents : \A j \in Lines :
                Posted(p, commitment, -got[p])[k][j] =
                  commitment[k][j] + IF k = d /\ j = Row(p).line THEN -got[p] ELSE 0
          BY <1>1, <1>2, <5>3, PostedSums
        <5>5. commitment'[d][l] = commitment[d][l] + IF l = Row(p).line THEN -got[p] ELSE 0
          BY <1>1, <4>1, <5>4
        <5>6. l # Row(p).line => commitment[d][l] = 0
          BY <1>1, <4>2, <5>1, NothingElsewhere
        <5>7. commitment[d][l] \in Int
          BY <1>1, <5>3
        <5> QED
          BY <1>2, <5>2, <5>5, <5>6, <5>7
      <4> QED
        BY <4>2, <4>4, <4>5
    <3> QED
      BY <3>2, <3>3, <3>4
  <2>4. TaskAccount(p)'
    BY <1>1, <2>3, AccountKept
  <2> QED
    BY <1>1, <2>1, <2>4, AccountsDone
<1> QED
  BY <1>3, <1>4

\* A request that ends has posted all that its document's status says.
LEMMA AccountsFinish ==
    ASSUME TypeInv, Apart, Accounts, NEW p \in Slots, Finish(p)
    PROVE  Accounts'
<1> DEFINE d == task[p].doc
<1>1. /\ Works(p) /\ Active(p) /\ pc[p] = "finish" /\ pc'[p] = "idle"
      /\ UNCHANGED <<commitment, consumption, disturbed>>
  BY WorksFinish DEF Works
<1>2. TaskAccount(p)'
  BY <1>1 DEF TaskAccount, Active
<1>3. ASSUME d \notin disturbed
      PROVE  /\ \A l \in Lines :
                  PostedBy(p)[l] = IF Creating(p) /\ l = Row(p).line THEN Row(p).amount ELSE 0
             /\ task[p].kind = "cancelInvoice" => \A l \in Lines : commitment[d][l] = 0
  BY <1>1, <1>3 DEF Accounts, TaskAccount, HasPosted
<1>4. ASSUME NEW o \in Orders, o = d, o \notin disturbed
      PROVE  /\ orders'[o].status # "uncommitted"
             /\ \A l \in Lines :
                  commitment'[o][l] = IF orders'[o].status = "APPROVED" /\ l = orders'[o].line
                                      THEN orders'[o].amount ELSE 0
  <2>1. OnOrder(p) /\ Row(p) = orders[o]
    BY <1>1, <1>4, BusyRow, RowOf DEF TypeInv
  <2>2. orders' = [orders EXCEPT ![o].status = FinalStatus(p)]
    BY <1>4, <2>1 DEF Finish
  <2>3. /\ orders'[o].line = orders[o].line /\ orders'[o].amount = orders[o].amount
        /\ orders'[o].status = IF Creating(p) THEN "APPROVED" ELSE "CANCELLED"
    BY <2>1, <2>2 DEF TypeInv, TypeOK, FinalStatus
  <2>4. \A l \in Lines : commitment[o][l] = IF Creating(p) /\ l = Row(p).line THEN Row(p).amount ELSE 0
    BY <1>3, <1>4, <2>1 DEF PostedBy
  <2> QED
    BY <1>1, <2>1, <2>3, <2>4
<1>5. ASSUME NEW i \in Invoices, i = d, i \notin disturbed
      PROVE  /\ invoices'[i].status # "uncommitted"
             /\ \A l \in Lines :
                  /\ consumption'[i][l] = IF invoices'[i].status = "VALIDATED" /\ l = invoices'[i].line
                                          THEN invoices'[i].amount ELSE 0
                  /\ invoices'[i].status = "CANCELLED" => commitment'[i][l] = 0
  <2>1. ~OnOrder(p) /\ Row(p) = invoices[i]
    BY <1>1, <1>5, BusyRow, RowOf DEF TypeInv
  <2>2. invoices' = [invoices EXCEPT ![i].status = FinalStatus(p)]
    BY <1>5, <2>1 DEF Finish
  <2>3. /\ invoices'[i].line = invoices[i].line /\ invoices'[i].amount = invoices[i].amount
        /\ invoices'[i].status = IF Creating(p) THEN "VALIDATED" ELSE "CANCELLED"
    BY <2>1, <2>2 DEF TypeInv, TypeOK, FinalStatus
  <2>4. \A l \in Lines : consumption[i][l] = IF Creating(p) /\ l = Row(p).line THEN Row(p).amount ELSE 0
    BY <1>3, <1>5, <2>1 DEF PostedBy
  <2>5. ~Creating(p) => task[p].kind = "cancelInvoice"
    <3>1. task[p].kind # "none"
      BY <1>1 DEF TypeInv, Control, ControlAt
    <3>2. task[p] # Idle
      BY <3>1 DEF Idle
    <3> DEFINE OrderTask == [kind: {"createOrder", "cancelOrder"}, doc: Orders]
               InvoiceTask == [kind: {"createInvoice", "cancelInvoice"}, doc: Invoices]
    <3>3. task[p] \in {Idle} \cup OrderTask \cup InvoiceTask
      BY DEF TypeInv, TypeOK
    <3>4. task[p] \notin OrderTask
      BY <2>1 DEF OnOrder
    <3>5. task[p] \in InvoiceTask
      <4> HIDE DEF OrderTask, InvoiceTask
      <4> QED
        BY <3>2, <3>3, <3>4
    <3> QED
      BY <3>5 DEF Creating
  <2> QED
    BY <1>1, <1>3, <1>5, <2>1, <2>3, <2>4, <2>5
<1>6. /\ \A o \in Orders : o = d => OrderAtRest(o)'
      /\ \A i \in Invoices : i = d => InvoiceAtRest(i)'
  BY <1>1, <1>4, <1>5 DEF OrderAtRest, InvoiceAtRest
<1> QED
  BY <1>1, <1>2, <1>6, AccountsDone

\* A request that starts finds its document as the last one left it.
LEMMA AccountsStarts ==
    ASSUME TypeInv, Rows, Accounts, NEW p \in Slots, NEW d \in Documents, Starts(p, d)
    PROVE  Accounts'
<1>1. /\ ~Active(p) /\ disturbed \subseteq disturbed'
      /\ UNCHANGED <<commitment, consumption>>
      /\ \A q \in Slots \ {p} : pc'[q] = pc[q] /\ task'[q] = task[q]
      /\ task'[p].doc = d /\ pc'[p] # "idle"
  BY DEF Starts
<1>2. \A q \in Slots \ {p} : WorkedOn(task[q].doc) \/ ~Active(q)
  BY DEF WorkedOn
<1>3. \A k : WorkedOn(k) => WorkedOn(k)'
  BY <1>1 DEF WorkedOn, Active
<1>4. WorkedOn(d)'
  BY <1>1 DEF WorkedOn, Active
<1>5. WorkedOn(d) => d \in disturbed' \/ task'[p].kind \in {"createOrder", "createInvoice"}
  <2>1. ASSUME NEW q \in Slots, Active(q), task[q].doc = d PROVE d \in disturbed'
    <3>1. d \in Docs(q)
      BY <2>1 DEF Docs, Active
    <3>2. d \in Docs(p)'
      BY <1>1 DEF Docs
    <3> QED
      BY <3>1, <3>2 DEF Starts
  <2> QED
    BY <2>1 DEF WorkedOn
<1>6. ASSUME NEW q \in Slots \ {p} PROVE TaskAccount(q)'
  <2>1. ASSUME Active(q)
        PROVE  Row(q)' = Row(q)
    <3>1. OnOrder(q)' = OnOrder(q) /\ task'[q] = task[q]
      BY <1>1 DEF OnOrder
    <3>2. CASE OnOrder(q)
      <4>1. task[q].doc \in Orders /\ orders[task[q].doc].status # "absent"
        BY <2>1, <3>2, RowOf, BusyRow DEF TypeInv
      <4>2. orders'[task[q].doc] = orders[task[q].doc]
        BY <4>1 DEF Starts
      <4> QED
        BY <3>1, <3>2, <4>2 DEF Row
    <3>3. CASE ~OnOrder(q)
      <4>1. task[q].doc \in Invoices /\ invoices[task[q].doc].status # "absent"
        BY <2>1, <3>3, RowOf, BusyRow DEF TypeInv
      <4>2. invoices'[task[q].doc] = invoices[task[q].doc]
        BY <4>1 DEF Starts
      <4> QED
        BY <3>1, <3>3, <4>2 DEF Row
    <3> QED
      BY <3>2, <3>3
  <2>2. TaskAccount(q)
    BY DEF Accounts
  <2> QED
    BY <1>1, <2>1, <2>2, AccountOther
<1>7. ASSUME NEW o \in Orders PROVE OrderAtRest(o)'
  <2>1. SUFFICES ASSUME ~WorkedOn(o)', o \notin disturbed' PROVE OrderAtRest(o)'
    BY DEF OrderAtRest
  <2>2. o # d /\ ~WorkedOn(o) /\ o \notin disturbed
    BY <1>1, <1>3, <1>4, <2>1
  <2>3. orders'[o] = orders[o]
    BY <2>2 DEF Starts
  <2> QED
    BY <1>1, <2>2, <2>3 DEF Accounts, OrderAtRest
<1>8. ASSUME NEW i \in Invoices PROVE InvoiceAtRest(i)'
  <2>1. SUFFICES ASSUME ~WorkedOn(i)', i \notin disturbed' PROVE InvoiceAtRest(i)'
    BY DEF InvoiceAtRest
  <2>2. i # d /\ ~WorkedOn(i) /\ i \notin disturbed
    BY <1>1, <1>3, <1>4, <2>1
  <2>3. invoices'[i] = invoices[i]
    BY <2>2 DEF Starts
  <2> QED
    BY <1>1, <2>2, <2>3 DEF Accounts, InvoiceAtRest
<1>9. TaskAccount(p)'
  <2>1. SUFFICES ASSUME d \notin disturbed'
                 PROVE  /\ Row(p)'.status = SettledStatus(p)'
                        /\ \A l \in Lines :
                              PostedBy(p)'[l] = IF HasPosted(p)' /\ l = Row(p)'.line
                                                THEN Row(p)'.amount ELSE 0
                        /\ ~(task'[p].kind = "cancelInvoice" /\ pc'[p] = "finish")
    BY <1>1 DEF TaskAccount
  <2>2. /\ \/ task'[p].kind \in {"createOrder", "createInvoice"} /\ pc'[p] \in {"post", "finish"}
              /\ (pc'[p] = "finish" => Row(p)'.line = NoLine)
           \/ task'[p].kind \in {"cancelOrder", "cancelInvoice"} /\ pc'[p] = "update"
        /\ d \in Orders <=> OnOrder(p)'
    BY DEF Starts
  <2>3. CASE d \in Orders
    <3>1. OnOrder(p)' /\ Row(p)' = orders'[d] /\ PostedBy(p)' = commitment[d]
      BY <1>1, <2>2, <2>3 DEF Row, PostedBy
    <3>2. CASE task'[p].kind = "createOrder"
      <4>1. orders[d].status = "absent" /\ orders'[d].status = "uncommitted"
        BY <2>3, <3>2 DEF Starts
      <4>2. ~WorkedOn(d) /\ d \notin disturbed
        BY <1>1, <2>1, <2>3, <4>1, BusyRow DEF WorkedOn
      <4>3. \A l \in Lines : commitment[d][l] = 0
        BY <2>3, <4>1, <4>2 DEF Accounts, OrderAtRest
      <4>4. Creating(p)' /\ (HasPosted(p)' => Row(p)'.line \notin Lines)
        BY <2>2, <3>2, ProcurementAssumption DEF Creating, HasPosted
      <4> QED
        BY <3>1, <3>2, <4>1, <4>3, <4>4 DEF SettledStatus
    <3>3. CASE task'[p].kind = "cancelOrder"
      <4>1. orders[d].status = "APPROVED" /\ orders'[d] = orders[d]
        BY <2>3, <3>3 DEF Starts
      <4>2. ~WorkedOn(d) /\ d \notin disturbed
        BY <1>1, <1>5, <2>1, <3>3
      <4>3. \A l \in Lines : commitment[d][l] = IF l = orders[d].line THEN orders[d].amount ELSE 0
        BY <2>3, <4>1, <4>2 DEF Accounts, OrderAtRest
      <4>4. ~Creating(p)' /\ HasPosted(p)'
        BY <2>2, <3>3 DEF Creating, HasPosted
      <4> QED
        BY <3>1, <3>3, <4>1, <4>3, <4>4 DEF SettledStatus
    <3> QED
      BY <2>2, <3>1, <3>2, <3>3 DEF OnOrder
  <2>4. CASE d \notin Orders
    <3>0. d \in Invoices
      BY <2>4 DEF Documents
    <3>1. ~OnOrder(p)' /\ Row(p)' = invoices'[d] /\ PostedBy(p)' = consumption[d]
      BY <1>1, <2>2, <2>4 DEF Row, PostedBy
    <3>2. CASE task'[p].kind = "createInvoice"
      <4>1. invoices[d].status = "absent" /\ invoices'[d].status = "uncommitted"
        BY <3>0, <3>2 DEF Starts
      <4>2. ~WorkedOn(d) /\ d \notin disturbed
        BY <1>1, <2>1, <3>0, <4>1, BusyRow DEF WorkedOn
      <4>3. \A l \in Lines : consumption[d][l] = 0
        BY <3>0, <4>1, <4>2 DEF Accounts, InvoiceAtRest
      <4>4. Creating(p)' /\ (HasPosted(p)' => Row(p)'.line \notin Lines)
        BY <2>2, <3>2, ProcurementAssumption DEF Creating, HasPosted
      <4> QED
        BY <3>1, <3>2, <4>1, <4>3, <4>4 DEF SettledStatus
    <3>3. CASE task'[p].kind = "cancelInvoice"
      <4>1. invoices[d].status = "VALIDATED" /\ invoices'[d] = invoices[d]
        BY <3>0, <3>3 DEF Starts
      <4>2. ~WorkedOn(d) /\ d \notin disturbed
        BY <1>1, <1>5, <2>1, <3>3
      <4>3. \A l \in Lines : consumption[d][l] = IF l = invoices[d].line THEN invoices[d].amount ELSE 0
        BY <3>0, <4>1, <4>2 DEF Accounts, InvoiceAtRest
      <4>4. ~Creating(p)' /\ HasPosted(p)' /\ pc'[p] # "finish"
        BY <2>2, <3>3 DEF Creating, HasPosted
      <4> QED
        BY <3>1, <3>3, <4>1, <4>3, <4>4 DEF SettledStatus
    <3> QED
      BY <2>2, <3>1, <3>2, <3>3 DEF OnOrder
  <2> QED
    BY <2>3, <2>4
<1> QED
  BY <1>6, <1>7, <1>8, <1>9 DEF Accounts

-------------------------------------------------------------------------------
(***************************************************************************)
(* What an invoice unwinds is left on its order                            *)
(***************************************************************************)

\* What a slot has read of its order stays true: another on that order disturbs it.
LEMMA AffordableWorks ==
    ASSUME TypeInv, Apart, NEW p \in Slots, \A q \in Slots : Affordable(q),
           \/ UpdateStatus(p) \/ PostCommitment(p) \/ PostConsumption(p) \/ ReadOpenCommitment(p)
           \/ ReadInvoiced(p) \/ ReadUnwound(p) \/ PostUnwind(p) \/ Rollback(p) \/ Expire(p)
           \/ Finish(p),
           Rows
    PROVE  \A q \in Slots : Affordable(q)'
<1>1. Works(p)
  BY WorksRead, WorksPost, WorksFail, WorksFinish
<1>2. disturbed \subseteq disturbed'
  BY <1>1 DEF Works
<1>3. ASSUME NEW q \in Slots \ {p} PROVE Affordable(q)'
  <2>1. pc'[q] = pc[q] /\ got'[q] = got[q]
    BY <1>1 DEF Works
  <2>2. SUFFICES ASSUME pc[q] \in {"readInvoiced", "unwind"}, Row(q)'.order \notin disturbed'
                 PROVE  Affordable(q)'
    BY <2>1 DEF Affordable
  <2>3. Active(q) /\ ~OnOrder(q) /\ Row(q).order \in Orders
    BY <2>2 DEF TypeInv, Control, ControlAt, Active, OnOrder
  <2>4. Row(q)'.line = Row(q).line /\ Row(q)'.order = Row(q).order
    BY <1>1, <2>3, DocsKept
  <2>5. PICK o \in Orders : o = Row(q).order
    BY <2>3
  <2>6. o \in Docs(q) /\ o \notin disturbed
    <3>1. o # NoOrder
      BY ProcurementAssumption
    <3> QED
      BY <1>2, <2>2, <2>3, <2>4, <2>5, <3>1 DEF Docs, Active
  <2>7. o \notin Docs(p)
    BY <2>6 DEF Apart
  <2>8. invoiced'[o] = invoiced[o] /\ commitment'[o] = commitment[o]
    <3>1. o # task[p].doc
      BY <1>1, <2>7 DEF Works, Docs, Active
    <3> QED
      BY <1>1, <2>7, <3>1 DEF Works, Documents
  <2>9. Affordable(q)
    OBVIOUS
  <2> QED
    BY <2>1, <2>2, <2>4, <2>5, <2>6, <2>8, <2>9 DEF Affordable
<1>4. Affordable(p)'
  <2>1. CASE Rollback(p) \/ Expire(p)
    <3>1. SUFFICES ASSUME pc'[p] \in {"readInvoiced", "unwind"} PROVE Row(p)'.order \in disturbed'
      BY DEF Affordable
    <3>2. /\ disturbed' = disturbed \cup Docs(p) /\ pc' = pc /\ task' = task
      BY <2>1, <3>1, WorksFail DEF Rollback, Expire, Goto, Discard, TypeInv, TypeOK
    <3>3. Active(p) /\ ~OnOrder(p) /\ Row(p).order \in Orders /\ task[p].doc \in Invoices
      BY <3>1, <3>2, RowOf DEF TypeInv, Control, ControlAt, Active, OnOrder
    <3>4. Row(p)'.order = Row(p).order
      <4>1. Row(p)' = invoices'[task[p].doc] /\ Row(p) = invoices[task[p].doc]
        BY <3>2, <3>3 DEF Row, OnOrder
      <4> QED
        BY <1>1, <3>3, <4>1 DEF Works
    <3>5. Row(p).order # NoOrder
      BY <3>3, ProcurementAssumption
    <3>6. Row(p).order \in Docs(p)
      BY <3>3, <3>5 DEF Docs, Active
    <3> QED
      BY <3>2, <3>4, <3>6
  <2>2. CASE ReadOpenCommitment(p)
    <3>1. /\ pc[p] = "readOpen" /\ pc'[p] \in {"finish", "readInvoiced"}
          /\ got'[p] = commitment[Row(p).order][Row(p).line]
          /\ UNCHANGED <<commitment, orders, invoices, task>>
      BY <2>2 DEF ReadOpenCommitment, Read, Goto, TypeInv, TypeOK
    <3>2. Row(p)' = Row(p)
      BY <3>1 DEF Row, OnOrder
    <3> QED
      BY <3>1, <3>2 DEF Affordable
  <2>3. CASE ReadInvoiced(p)
    <3>1. /\ pc[p] = "readInvoiced" /\ pc'[p] \in {"finish", "unwind"}
          /\ got'[p] = CappedUnwind(p)
          /\ UNCHANGED <<commitment, invoiced, orders, invoices, task, disturbed>>
      BY <2>3, WorksRead DEF ReadInvoiced, Read, Goto, TypeInv, TypeOK
    <3>2. Row(p)' = Row(p)
      BY <3>1 DEF Row, OnOrder
    <3>3. Active(p) /\ Row(p).order \in Orders /\ Row(p).line \in Lines
      BY <3>1 DEF TypeInv, Control, ControlAt, Active
    <3>4. /\ invoiced[Row(p).order] \in Int /\ got[p] \in Int /\ Row(p).amount \in Int
      BY <3>3, RowOf DEF TypeInv, TypeOK
    <3>5. Row(p).order \notin disturbed => got[p] = commitment[Row(p).order][Row(p).line]
      BY <3>1 DEF Affordable
    <3>6. CappedUnwind(p) + invoiced[Row(p).order] <= got[p]
      BY <3>4 DEF CappedUnwind
    <3> QED
      BY <3>1, <3>2, <3>5, <3>6 DEF Affordable
  <2>4. CASE \/ UpdateStatus(p) \/ PostCommitment(p) \/ PostConsumption(p) \/ ReadUnwound(p)
             \/ PostUnwind(p) \/ Finish(p)
    <3>1. pc'[p] \notin {"readInvoiced", "unwind"}
      BY <2>4 DEF UpdateStatus, PostCommitment, PostConsumption, ReadUnwound, PostUnwind, Finish,
                  AfterPost, AfterConsumption, Read, Goto, TypeInv, TypeOK
    <3> QED
      BY <3>1 DEF Affordable
  <2> QED
    BY <2>1, <2>2, <2>3, <2>4
<1> QED
  BY <1>3, <1>4

\* A slot that starts has read nothing; it disturbs an order others work on.
LEMMA AffordableStarts ==
    ASSUME TypeInv, Rows, \A q \in Slots : Affordable(q), NEW p \in Slots, NEW d \in Documents,
           Starts(p, d)
    PROVE  \A q \in Slots : Affordable(q)'
<1>1. Affordable(p)'
  BY DEF Starts, Affordable
<1>2. ASSUME NEW q \in Slots \ {p} PROVE Affordable(q)'
  <2>1. /\ pc'[q] = pc[q] /\ UNCHANGED <<got, commitment, invoiced>> /\ disturbed \subseteq disturbed'
    BY DEF Starts
  <2>2. SUFFICES ASSUME pc[q] \in {"readInvoiced", "unwind"} PROVE Affordable(q)'
    BY <2>1 DEF Affordable
  <2>3. Active(q) /\ ~OnOrder(q)
    BY <2>2 DEF TypeInv, Control, ControlAt, Active, OnOrder
  <2>4. Row(q)'.line = Row(q).line /\ Row(q)'.order = Row(q).order
    BY <2>3, DocsKept
  <2>5. Affordable(q)
    OBVIOUS
  <2> QED
    BY <2>1, <2>2, <2>4, <2>5 DEF Affordable
<1> QED
  BY <1>1, <1>2

\* The sum of what the invoices of an order unwound on a line.
LEMMA OpenTypes ==
    ASSUME TypeInv, InvoicedInv, NEW o \in Orders, NEW l \in Lines
    PROVE  /\ IsFiniteSet(InvoicesOf(o)) /\ InvoicesOf(o) \subseteq Invoices
           /\ \A i \in Invoices : commitment[i][l] \in Int
           /\ SumFunctionOnSet([i \in Invoices |-> commitment[i][l]], InvoicesOf(o)) \in Int
           /\ commitment[o][l] \in Int /\ OpenCommitment(o, l) \in Int
<1> DEFINE w == [i \in Invoices |-> commitment[i][l]]
<1>1. IsFiniteSet(InvoicesOf(o)) /\ InvoicesOf(o) \subseteq Invoices
  BY DEF InvoicedInv, InvoicesOf
<1>2. commitment[o][l] \in Int /\ \A i \in Invoices : commitment[i][l] \in Int
  BY DEF TypeInv, TypeOK, Documents
<1>3. \A i \in InvoicesOf(o) : w[i] \in Int
  BY <1>1, <1>2
<1>4. SumFunctionOnSet(w, InvoicesOf(o)) \in Int
  <2> HIDE DEF w
  <2> QED
    BY <1>1, <1>3, SumType
<1> QED
  BY <1>1, <1>2, <1>4 DEF OpenCommitment

\* What an order leaves open does not move with the sums of other documents.
LEMMA OpenKept ==
    ASSUME TypeInv, TypeInv', InvoicedInv, NEW o \in Orders, NEW l \in Lines,
           InvoicesOf(o)' = InvoicesOf(o), commitment'[o] = commitment[o],
           \A i \in InvoicesOf(o) : commitment'[i] = commitment[i]
    PROVE  OpenCommitment(o, l)' = OpenCommitment(o, l)
<1> DEFINE w == [i \in Invoices |-> commitment[i][l]]
<1>1. \A i \in InvoicesOf(o) : w[i] = w'[i]
  BY DEF InvoicesOf
<1>2. SumFunctionOnSet(w, InvoicesOf(o)) = SumFunctionOnSet(w', InvoicesOf(o))
  <2>1. IsFiniteSet(InvoicesOf(o))
    BY DEF InvoicedInv
  <2> HIDE DEF w
  <2> QED
    BY <1>1, <2>1, SumSame
<1>3. OpenCommitment(o, l) = commitment[o][l] + SumFunctionOnSet(w, InvoicesOf(o))
  BY DEF OpenCommitment
<1>4. OpenCommitment(o, l)' = commitment'[o][l] + SumFunctionOnSet(w', InvoicesOf(o)')
  BY DEF OpenCommitment
<1> QED
  BY <1>2, <1>3, <1>4

\* An undisturbed invoice unwound no more than it bills, but for the one at work.
LEMMA UnwoundWithinBilling ==
    ASSUME TypeInv, UnwindInv, Apart, Rows, Accounts, NEW o \in Orders \ disturbed,
           NoCreditNotes(o), NEW p \in Slots, pc[p] = "unwind", p \notin expired,
           Row(p).order = o, NEW j \in InvoicesOf(o), NEW l \in Lines
    PROVE  /\ commitment[j][l] \in Int /\ Billing(j) \in Int
           /\ 0 <= commitment[j][l] + Billing(j)
<1>1. /\ j \in Invoices /\ invoices[j].order = o /\ invoices[j].amount >= 0
      /\ invoices[j].amount \in Int /\ commitment[j][l] \in Int
  BY DEF InvoicesOf, NoCreditNotes, TypeInv, TypeOK, Documents
<1>2. Billing(j) \in Int /\ Billing(j) >= 0
  BY <1>1 DEF Billing
<1>3. j \notin disturbed /\ j \notin lapsed
  <2>1. o # NoOrder
    BY ProcurementAssumption
  <2> QED
    BY <1>1, <2>1 DEF Apart
<1>4. /\ commitment[j][l] <= 0
      /\ commitment[j][l] < 0 => -commitment[j][l] <= invoices[j].amount
  BY <1>1, <1>3 DEF UnwindInv, UnwindBounded
<1>5. Active(p) /\ ~OnOrder(p) /\ Creating(p) /\ task[p].doc \in Invoices /\ o \in Docs(p)
  <2>1. Active(p) /\ ~OnOrder(p) /\ Creating(p)
    BY DEF TypeInv, Control, ControlAt, Active, OnOrder, Creating
  <2>2. o # NoOrder
    BY ProcurementAssumption
  <2> QED
    BY <2>1, <2>2, RowOf DEF TypeInv, Docs, Active
<1>6. CASE invoices[j].status = "VALIDATED"
  BY <1>1, <1>4, <1>6 DEF Billing
<1>7. CASE invoices[j].status # "VALIDATED"
  <2>1. SUFFICES commitment[j][l] = 0
    BY <1>2
  <2>2. CASE task[p].doc = j
    BY <1>1, <1>3, <1>5, <2>2 DEF UnwindInv, UnwindAt
  <2>3. CASE task[p].doc # j
    <3>1. ~WorkedOn(j)
      <4>1. SUFFICES ASSUME NEW q \in Slots, Active(q), task[q].doc = j PROVE FALSE
        BY DEF WorkedOn
      <4>2. ~OnOrder(q) /\ Row(q) = invoices[j]
        BY <1>1, <4>1, BusyRow, RowOf DEF TypeInv
      <4>3. o # NoOrder
        BY ProcurementAssumption
      <4>4. o \in Docs(q)
        BY <1>1, <4>1, <4>2, <4>3 DEF Docs, Active
      <4> QED
        BY <1>5, <2>3, <4>1, <4>4 DEF Apart
    <3>2. invoices[j].status \notin {"uncommitted", "rolledBack"}
      BY <1>1, <1>3, <3>1 DEF Accounts, InvoiceAtRest, Rows
    <3>3. CASE invoices[j].status = "absent"
      BY <1>1, <1>3, <3>3 DEF UnwindInv
    <3>4. CASE invoices[j].status = "CANCELLED"
      BY <1>1, <1>3, <3>1, <3>4 DEF Accounts, InvoiceAtRest
    <3> QED
      BY <1>1, <1>7, <3>2, <3>3, <3>4 DEF TypeInv, TypeOK, Statuses
  <2> QED
    BY <2>2, <2>3
<1> QED
  BY <1>1, <1>2, <1>6, <1>7

\* So the invoices of the order unwound no more than they bill together.
LEMMA UnwoundWithinInvoiced ==
    ASSUME TypeInv, UnwindInv, Apart, Rows, InvoicedInv, Accounts, NEW o \in Orders \ disturbed,
           NoCreditNotes(o), NEW p \in Slots, pc[p] = "unwind", p \notin expired,
           Row(p).order = o, NEW l \in Lines
    PROVE  OpenCommitment(o, l) >= commitment[o][l] - invoiced[o]
<1> DEFINE S == InvoicesOf(o)
           w == [i \in Invoices |-> commitment[i][l]]
           v == [i \in Invoices |-> Billing(i)]
           u == [i \in Invoices |-> commitment[i][l] + Billing(i)]
           z == [i \in Invoices |-> 0]
<1>1. \A j \in S : /\ w[j] \in Int /\ v[j] \in Int /\ u[j] = w[j] + v[j]
                   /\ u[j] \in Int /\ z[j] = 0 /\ z[j] \in Int /\ z[j] <= u[j]
  <2>1. \A j \in S : /\ j \in Invoices /\ commitment[j][l] \in Int /\ Billing(j) \in Int
                     /\ 0 <= commitment[j][l] + Billing(j)
    BY UnwoundWithinBilling DEF InvoicesOf
  <2> HIDE DEF S
  <2> QED
    BY <2>1
<1>2. /\ IsFiniteSet(S) /\ invoiced[o] = SumFunctionOnSet(v, S)
      /\ OpenCommitment(o, l) = commitment[o][l] + SumFunctionOnSet(w, S)
  BY DEF InvoicedInv, OpenCommitment
<1>3. commitment[o][l] \in Int
  BY DEF TypeInv, TypeOK, Documents
<1> HIDE DEF S, w, v, u, z
<1>4. SumFunctionOnSet(u, S) = SumFunctionOnSet(w, S) + SumFunctionOnSet(v, S)
  BY <1>1, <1>2, SumPlus
<1>5. SumFunctionOnSet(z, S) = 0 /\ SumFunctionOnSet(z, S) <= SumFunctionOnSet(u, S)
  BY <1>1, <1>2, SumZero, SumMonotone
<1>6. SumFunctionOnSet(w, S) \in Int /\ SumFunctionOnSet(v, S) \in Int
  BY <1>1, <1>2, SumType
<1> QED
  BY <1>2, <1>3, <1>4, <1>5, <1>6

-------------------------------------------------------------------------------
(***************************************************************************)
(* The commitment an order leaves open                                     *)
(***************************************************************************)

\* Notes and invoices of an order, and who withdraws it, on a step that keeps its row.
LEMMA WithdrawnKept ==
    ASSUME NEW p \in Slots, NEW o \in Orders, Withdrawn(o),
           \A q \in Slots \ {p} : pc'[q] = pc[q] /\ task'[q] = task[q],
           pc[p] # "finish" \/ task[p].doc # o
    PROVE  Withdrawn(o)'
  BY DEF Withdrawn, Creating

\* No step at work makes a credit note out of an invoice.
LEMMA NotesKept ==
    ASSUME NEW p \in Slots, Works(p), NEW o \in Orders, NoCreditNotes(o)'
    PROVE  NoCreditNotes(o)
<1>1. InvoicesOf(o)' = InvoicesOf(o)
  BY InvoicesOfKept
<1>2. /\ orders'[o].amount = orders[o].amount
      /\ \A i \in Invoices : invoices'[i].amount = invoices[i].amount
  BY DEF Works
<1> QED
  BY <1>1, <1>2 DEF NoCreditNotes, InvoicesOf

\* An order the slot at work does not depend on.
LEMMA OpenElsewhere ==
    ASSUME TypeInv, TypeInv', InvoicedInv, OpenInv, NEW p \in Slots, Works(p),
           NEW o \in Orders \ disturbed, o \notin Docs(p),
           orders'[o].status = "APPROVED", ~Withdrawn(o)', NoCreditNotes(o)', NEW l \in Lines
    PROVE  OpenCommitment(o, l)' >= 0
<1>1. task[p].doc \in Docs(p) /\ Active(p)
  BY DEF Works, Docs, Active
<1>2. orders[o].status = "APPROVED"
  BY <1>1 DEF Works
<1>3. ~Withdrawn(o)
  <2>1. \A q \in Slots \ {p} : pc'[q] = pc[q] /\ task'[q] = task[q]
    BY DEF Works
  <2> QED
    BY <1>1, <2>1, WithdrawnKept
<1>4. NoCreditNotes(o) /\ InvoicesOf(o)' = InvoicesOf(o)
  BY NotesKept, InvoicesOfKept
<1>5. commitment'[o] = commitment[o]
  BY <1>1 DEF Works, Documents
<1>6. ASSUME NEW i \in InvoicesOf(o) PROVE commitment'[i] = commitment[i]
  <2>1. i \in Invoices /\ invoices[i].order = o /\ o # NoOrder
    BY ProcurementAssumption DEF InvoicesOf
  <2>2. i # task[p].doc
    <3>1. SUFFICES ASSUME i = task[p].doc PROVE FALSE
      OBVIOUS
    <3>2. ~OnOrder(p) /\ Row(p) = invoices[i]
      BY <1>1, <2>1, <3>1, BusyRow, RowOf DEF TypeInv
    <3> QED
      BY <1>1, <2>1, <3>2 DEF Docs, Active
  <2> QED
    BY <2>1, <2>2 DEF Works, Documents
<1>7. OpenCommitment(o, l)' = OpenCommitment(o, l)
  BY <1>4, <1>5, <1>6, OpenKept
<1>8. OpenCommitment(o, l) >= 0
  BY <1>2, <1>3, <1>4 DEF OpenInv
<1> QED
  BY <1>7, <1>8

\* A step that posts no commitment.
LEMMA OpenUnposted ==
    ASSUME TypeInv, TypeInv', InvoicedInv, OpenInv, NEW p \in Slots, Works(p),
           NEW o \in Orders \ disturbed, orders'[o].status = orders[o].status,
           commitment' = commitment, pc[p] # "finish" \/ task[p].doc # o,
           orders'[o].status = "APPROVED", ~Withdrawn(o)', NoCreditNotes(o)', NEW l \in Lines
    PROVE  OpenCommitment(o, l)' >= 0
<1>1. ~Withdrawn(o)
  <2>1. \A q \in Slots \ {p} : pc'[q] = pc[q] /\ task'[q] = task[q]
    BY DEF Works
  <2> QED
    BY <2>1, WithdrawnKept
<1>2. NoCreditNotes(o) /\ InvoicesOf(o)' = InvoicesOf(o)
  BY NotesKept, InvoicesOfKept
<1>3. OpenCommitment(o, l)' = OpenCommitment(o, l)
  BY <1>2, OpenKept
<1>4. OpenCommitment(o, l) >= 0
  BY <1>1, <1>2 DEF OpenInv
<1> QED
  BY <1>3, <1>4

\* The unwinding, or its restoration, of an invoice of the order.
LEMMA OpenUnwind ==
    ASSUME TypeInv, TypeInv', UnwindInv, Apart, Rows, InvoicedInv, Accounts, OpenInv,
           NEW p \in Slots, Affordable(p), PostUnwind(p), NEW o \in Orders \ disturbed,
           o \in Docs(p), orders[o].status = "APPROVED", ~Withdrawn(o)', NoCreditNotes(o)',
           NEW l \in Lines
    PROVE  OpenCommitment(o, l)' >= 0
<1> DEFINE w == [i \in Invoices |-> commitment[i][l]]
           S == InvoicesOf(o)
           amount == IF l = Row(p).line THEN -got[p] ELSE 0
<1>1. /\ Works(p) /\ Active(p) /\ pc[p] \in {"unwind", "restore"}
      /\ commitment' = Posted(p, commitment, -got[p])
  BY WorksPost DEF PostUnwind, Active
<1>2. p \notin expired
  BY DEF Apart
<1>3. ~OnOrder(p)
  BY <1>1 DEF TypeInv, Control, ControlAt, OnOrder
<1>4. PICK d \in Invoices : d = task[p].doc /\ Row(p) = invoices[d]
  BY <1>1, <1>3, RowOf DEF TypeInv
<1>5. Row(p).order = o /\ o # d
  <2>1. d \notin Orders
    BY <1>4, ProcurementAssumption
  <2> QED
    BY <1>3, <1>4, <2>1 DEF Docs
<1>6. d \in S
  BY <1>4, <1>5 DEF InvoicesOf
<1>7. d \notin lapsed
  BY <1>4, <1>5, ProcurementAssumption DEF Apart
<1>8. /\ Row(p).line \in Lines /\ got[p] \in Int /\ -got[p] \in Int
  BY <1>1 DEF TypeInv, TypeOK, Control, ControlAt, Active
<1>9. \A k \in Documents :
          commitment'[k][l] = commitment[k][l] + IF k = d THEN amount ELSE 0
  <2>1. commitment \in [Documents -> [Lines -> Int]]
    BY DEF TypeInv, TypeOK
  <2>2. \A k \in Documents : \A j \in Lines :
            Posted(p, commitment, -got[p])[k][j] =
              commitment[k][j] + IF k = task[p].doc /\ j = Row(p).line THEN -got[p] ELSE 0
    BY <1>1, <1>8, <2>1, PostedSums
  <2> QED
    BY <1>1, <1>4, <2>2
<1>10. amount \in Int
  BY <1>8
<1>11. /\ IsFiniteSet(S) /\ S \subseteq Invoices /\ commitment[o][l] \in Int
       /\ \A i \in Invoices : commitment[i][l] \in Int
       /\ SumFunctionOnSet(w, S) \in Int
  BY OpenTypes
<1> HIDE DEF amount
<1>12. \A i \in S : /\ w[i] \in Int /\ w'[i] \in Int
                    /\ w'[i] = w[i] + IF i = d THEN amount ELSE 0
  <2>1. \A i \in Invoices : commitment'[i][l] = commitment[i][l] + IF i = d THEN amount ELSE 0
    BY <1>9 DEF Documents
  <2>2. \A i \in Invoices : commitment'[i][l] \in Int
    BY <1>10, <1>11, <2>1
  <2> HIDE DEF S
  <2> QED
    BY <1>11, <2>1, <2>2
<1>13. commitment'[o][l] = commitment[o][l]
  BY <1>5, <1>9, <1>11 DEF Documents
<1>14. S' = S /\ NoCreditNotes(o)
  BY <1>1, InvoicesOfKept, NotesKept
<1>15. SumFunctionOnSet(w', S) = SumFunctionOnSet(w, S) + amount
  <2> HIDE DEF w, S
  <2>1. \A i \in S : w[i] \in Int
    BY <1>12
  <2>2. \A i \in S : w'[i] = w[i] + IF i = d THEN amount ELSE 0
    BY <1>12
  <2>3. IsFiniteSet(S)
    BY <1>11
  <2> QED
    BY <1>6, <1>10, <2>1, <2>2, <2>3, SumChange
<1>16. OpenCommitment(o, l)' = OpenCommitment(o, l) + amount
  <2>1. OpenCommitment(o, l) = commitment[o][l] + SumFunctionOnSet(w, S)
    BY DEF OpenCommitment
  <2>2. OpenCommitment(o, l)' = commitment'[o][l] + SumFunctionOnSet(w', S')
    BY DEF OpenCommitment
  <2> HIDE DEF w, S
  <2> QED
    BY <1>10, <1>11, <1>13, <1>14, <1>15, <2>1, <2>2
<1>17. OpenCommitment(o, l) >= 0 /\ OpenCommitment(o, l) \in Int
  <2>1. ~Withdrawn(o)
    <3>1. \A q \in Slots \ {p} : pc'[q] = pc[q] /\ task'[q] = task[q]
      BY <1>1 DEF Works
    <3> QED
      BY <1>1, <3>1, WithdrawnKept
  <2>2. OpenCommitment(o, l) \in Int
    BY OpenTypes
  <2> QED
    BY <1>14, <2>1, <2>2 DEF OpenInv
<1>18. CASE amount >= 0
  BY <1>10, <1>16, <1>17, <1>18
<1>19. CASE ~(amount >= 0)
  <2>1. l = Row(p).line /\ amount = -got[p] /\ got[p] > 0
    BY <1>8, <1>19 DEF amount
  <2>2. pc[p] = "unwind"
    <3>1. SUFFICES ASSUME pc[p] = "restore" PROVE FALSE
      BY <1>1
    <3>2. got[p] = commitment[d][l]
      BY <1>1, <1>3, <1>4, <1>7, <2>1, <3>1 DEF UnwindInv, UnwindAt
    <3>3. commitment[d][l] <= 0
      BY <1>7 DEF UnwindInv, UnwindBounded
    <3> QED
      BY <1>8, <2>1, <3>2, <3>3
  <2>3. got[p] + invoiced[o] <= commitment[o][l]
    BY <1>5, <2>1, <2>2 DEF Affordable
  <2>4. OpenCommitment(o, l) >= commitment[o][l] - invoiced[o]
    BY <1>2, <1>5, <1>14, <2>2, UnwoundWithinInvoiced
  <2>5. invoiced[o] \in Int
    BY DEF TypeInv, TypeOK
  <2> QED
    BY <1>8, <1>11, <1>16, <1>17, <2>1, <2>3, <2>4, <2>5
<1> QED
  BY <1>18, <1>19

\* An order no invoice was inserted for.
LEMMA OpenCreated ==
    ASSUME TypeInv, TypeInv', Apart, Rows, Accounts, NEW p \in Slots, Finish(p),
           NEW o \in Orders \ disturbed, o = task[p].doc, orders'[o].status = "APPROVED",
           NoCreditNotes(o)', NEW l \in Lines
    PROVE  OpenCommitment(o, l)' >= 0
<1>1. /\ Works(p) /\ Active(p) /\ pc[p] = "finish" /\ commitment' = commitment
  BY WorksFinish DEF Works
<1>2. OnOrder(p) /\ Row(p) = orders[o]
  BY <1>1, BusyRow, RowOf DEF TypeInv
<1>3. Creating(p)
  <2>1. orders' = [orders EXCEPT ![o].status = FinalStatus(p)]
    BY <1>2 DEF Finish
  <2>2. FinalStatus(p) = "APPROVED"
    BY <2>1 DEF TypeInv, TypeOK
  <2> QED
    BY <2>2 DEF FinalStatus
<1>4. orders[o].status \in {"uncommitted", "rolledBack"}
  BY <1>1, <1>2, <1>3 DEF TypeInv, Control, ControlAt
<1>5. InvoicesOf(o)' = {}
  <2>1. InvoicesOf(o) = {}
    <3>1. SUFFICES ASSUME NEW i \in InvoicesOf(o) PROVE FALSE
      OBVIOUS
    <3>2. i \in Invoices /\ invoices[i].order = o /\ o # NoOrder
      BY <3>1, ProcurementAssumption DEF InvoicesOf
    <3> QED
      BY <1>4, <3>2 DEF Rows
  <2> QED
    BY <1>1, <2>1, InvoicesOfKept
<1>6. NoCreditNotes(o)
  BY <1>1, NotesKept
<1>7. commitment[o][l] >= 0 /\ commitment[o][l] \in Int
  <2>1. commitment[o][l] = IF l = orders[o].line THEN orders[o].amount ELSE 0
    BY <1>1, <1>2, <1>3 DEF Accounts, TaskAccount, PostedBy, HasPosted
  <2> QED
    BY <1>6, <2>1 DEF NoCreditNotes, TypeInv, TypeOK
<1>8. OpenCommitment(o, l)' =
        commitment'[o][l] + SumFunctionOnSet([i \in Invoices |-> commitment'[i][l]], {})
  BY <1>5 DEF OpenCommitment
<1>9. SumFunctionOnSet([i \in Invoices |-> commitment'[i][l]], {}) = 0
  BY SumEmpty
<1> QED
  BY <1>1, <1>7, <1>8, <1>9

\* An unwinding takes no more than is open, and a restoration adds.
LEMMA OpenWorks ==
    ASSUME TypeInv, TypeInv', UnwindInv, SettledInv, NEW p \in Slots,
           \/ UpdateStatus(p) \/ PostCommitment(p) \/ PostConsumption(p) \/ ReadOpenCommitment(p)
           \/ ReadInvoiced(p) \/ ReadUnwound(p) \/ PostUnwind(p) \/ Rollback(p) \/ Expire(p)
           \/ Finish(p)
    PROVE  OpenInv'
<1> USE DEF SettledInv
<1>1. Works(p) /\ disturbed \subseteq disturbed'
  <2>1. Works(p)
    BY WorksRead, WorksPost, WorksFail, WorksFinish
  <2> QED
    BY <2>1 DEF Works
<1>2. SUFFICES ASSUME NEW o \in Orders, o \notin disturbed', orders'[o].status = "APPROVED",
                      ~Withdrawn(o)', NoCreditNotes(o)', NEW l \in Lines
               PROVE  OpenCommitment(o, l)' >= 0
  BY DEF OpenInv
<1>3. o \in Orders \ disturbed
  BY <1>1, <1>2
<1>4. CASE o \notin Docs(p)
  BY <1>1, <1>2, <1>3, <1>4, OpenElsewhere
<1>5. CASE o \in Docs(p)
  <2>1. ~(Rollback(p) \/ Expire(p))
    BY <1>2, <1>5, WorksFail
  <2>2. Active(p) /\ p \notin expired
    BY <1>1, <1>3, <1>5 DEF Apart, Works
  <2>3. CASE \/ UpdateStatus(p) \/ ReadOpenCommitment(p) \/ ReadInvoiced(p) \/ ReadUnwound(p)
             \/ PostConsumption(p)
    <3>1. commitment' = commitment /\ orders' = orders
      BY <2>3, WorksRead, WorksPost DEF PostConsumption
    <3>2. pc[p] # "finish"
      BY <2>3 DEF UpdateStatus, ReadOpenCommitment, ReadInvoiced, ReadUnwound, PostConsumption
    <3> QED
      BY <1>1, <1>2, <1>3, <3>1, <3>2, OpenUnposted
  <2>4. CASE PostCommitment(p)
    <3>1. OnOrder(p) /\ orders' = orders /\ pc'[p] = "finish" /\ task' = task
      BY <2>2, <2>4, WorksPost DEF PostCommitment, AfterPost, Goto, TypeInv, TypeOK
    <3>2. o = task[p].doc /\ Row(p) = orders[o]
      BY <1>5, <3>1 DEF Docs, Row
    <3>3. ~Creating(p)
      BY <1>2, <2>2, <3>1, <3>2 DEF TypeInv, Control, ControlAt
    <3>4. Withdrawn(o)'
      BY <3>1, <3>2, <3>3 DEF Withdrawn, Creating
    <3> QED
      BY <1>2, <3>4
  <2>5. CASE PostUnwind(p)
    <3>1. orders' = orders
      BY <2>5, WorksPost
    <3> QED
      BY <1>2, <1>3, <1>5, <2>5, <3>1, OpenUnwind
  <2>6. CASE Finish(p)
    <3>1. CASE o = task[p].doc
      BY <1>2, <1>3, <2>6, <3>1, OpenCreated
    <3>2. CASE o # task[p].doc
      <4>1. commitment' = commitment /\ orders'[o].status = orders[o].status
        BY <1>1, <2>6, <3>2, WorksFinish DEF Works
      <4> QED
        BY <1>1, <1>2, <1>3, <3>2, <4>1, OpenUnposted
    <3> QED
      BY <3>1, <3>2
  <2> QED
    BY <2>1, <2>3, <2>4, <2>5, <2>6
<1> QED
  BY <1>4, <1>5

\* What is open of an order is untouched by a slot that starts.
LEMMA OpenStarts ==
    ASSUME TypeInv, TypeInv', UnwindInv, SettledInv, NEW p \in Slots, NEW d \in Documents,
           Starts(p, d)
    PROVE  OpenInv'
<1> USE DEF SettledInv
<1>1. SUFFICES ASSUME NEW o \in Orders, o \notin disturbed', orders'[o].status = "APPROVED",
                      ~Withdrawn(o)', NoCreditNotes(o)', NEW l \in Lines
               PROVE  OpenCommitment(o, l)' >= 0
  BY DEF OpenInv
<1>2. /\ commitment' = commitment /\ disturbed \subseteq disturbed' /\ ~Active(p)
      /\ \A q \in Slots \ {p} : pc'[q] = pc[q] /\ task'[q] = task[q]
      /\ orders'[o] = orders[o]
      /\ \A i \in Invoices : \/ invoices'[i] = invoices[i]
                             \/ invoices[i].status = "absent"
  BY <1>1 DEF Starts
<1>3. ~Withdrawn(o)
  BY <1>1, <1>2, WithdrawnKept DEF Active
<1>4. InvoicesOf(o) \subseteq InvoicesOf(o)'
  BY InvoicesOfStarts
<1>5. \A i \in InvoicesOf(o) : invoices'[i] = invoices[i]
  BY <1>2, ProcurementAssumption DEF Rows, InvoicesOf
<1>6. NoCreditNotes(o)
  BY <1>1, <1>2, <1>4, <1>5 DEF NoCreditNotes
<1>7. OpenCommitment(o, l) >= 0
  BY <1>1, <1>2, <1>3, <1>6 DEF OpenInv
<1>8. CASE InvoicesOf(o)' = InvoicesOf(o)
  <2>1. OpenCommitment(o, l)' = OpenCommitment(o, l)
    BY <1>2, <1>8, OpenKept
  <2> QED
    BY <1>7, <2>1
<1>9. CASE /\ d \in Invoices /\ d \notin InvoicesOf(o) /\ InvoicesOf(o)' = InvoicesOf(o) \cup {d}
           /\ invoices[d].status = "absent"
  <2> DEFINE w == [i \in Invoices |-> commitment[i][l]]
             S == InvoicesOf(o)
  <2>1. commitment[d][l] = 0
    <3>1. d \notin lapsed
      BY <1>9 DEF Rows, Apart
    <3> QED
      BY <1>9, <3>1 DEF UnwindInv
  <2>2. /\ IsFiniteSet(S) /\ S \subseteq Invoices /\ commitment[o][l] \in Int
        /\ \A i \in Invoices : commitment[i][l] \in Int
        /\ SumFunctionOnSet(w, S) \in Int
    BY OpenTypes
  <2>3. w[d] = 0 /\ \A i \in S \cup {d} : w[i] \in Int
    BY <1>9, <2>1, <2>2
  <2>4. SumFunctionOnSet(w, S \cup {d}) = w[d] + SumFunctionOnSet(w, S)
    <3> HIDE DEF w, S
    <3> QED
      BY <1>9, <2>2, <2>3, SumAdd DEF S
  <2>5. OpenCommitment(o, l)' = commitment[o][l] + SumFunctionOnSet(w, S \cup {d})
    BY <1>2, <1>9 DEF OpenCommitment
  <2>6. OpenCommitment(o, l) = commitment[o][l] + SumFunctionOnSet(w, S)
    BY DEF OpenCommitment
  <2> HIDE DEF w, S
  <2> QED
    BY <1>7, <2>2, <2>3, <2>4, <2>5, <2>6
<1> QED
  BY <1>8, <1>9, InvoicesOfStarts

-------------------------------------------------------------------------------
LEMMA SettledInit == Init => SettledInv
<1> SUFFICES ASSUME Init PROVE SettledInv
  OBVIOUS
<1>1. /\ disturbed = {} /\ lapsed = {} /\ expired = {}
      /\ \A p \in Slots : pc[p] = "idle" /\ ~Active(p) /\ Docs(p) = {}
      /\ \A o \in Orders : orders[o].status = "absent" /\ invoiced[o] = 0
      /\ \A i \in Invoices : invoices[i].status = "absent" /\ invoices[i].order = NoOrder
      /\ \A d \in Documents : \A l \in Lines : commitment[d][l] = 0 /\ consumption[d][l] = 0
  BY DEF Init, Active, Docs, NewOrder, NewInvoice, Nothing
<1>2. \A o \in Orders : InvoicesOf(o) = {}
  BY <1>1, ProcurementAssumption DEF InvoicesOf
<1>3. Apart /\ Rows
  BY <1>1 DEF Apart, Rows
<1>4. InvoicedInv
  BY <1>1, <1>2, SumEmpty, FS_EmptySet DEF InvoicedInv
<1>5. Accounts
  BY <1>1 DEF Accounts, TaskAccount, OrderAtRest, InvoiceAtRest, Documents
<1>6. (\A p \in Slots : Affordable(p)) /\ OpenInv
  BY <1>1 DEF Affordable, OpenInv
<1> QED
  BY <1>3, <1>4, <1>5, <1>6 DEF SettledInv

LEMMA SettledStep == SettledInv /\ IInv /\ [Next]_vars => SettledInv'
<1> SUFFICES ASSUME SettledInv, IInv, [Next]_vars PROVE SettledInv'
  OBVIOUS
<1>1. TypeInv /\ TypeInv' /\ TypeOK' /\ UnwindInv
  BY TypeStep DEF IInv, TypeInv
<1>2. /\ Apart /\ Rows /\ InvoicedInv /\ Accounts /\ OpenInv
      /\ \A p \in Slots : Affordable(p)
  BY DEF SettledInv
<1>3. ASSUME NEW p \in Slots,
             \/ UpdateStatus(p) \/ PostCommitment(p) \/ PostConsumption(p) \/ ReadOpenCommitment(p)
             \/ ReadInvoiced(p) \/ ReadUnwound(p) \/ PostUnwind(p) \/ Rollback(p) \/ Expire(p)
             \/ Finish(p)
      PROVE  SettledInv'
  <2>1. Works(p)
    BY <1>1, <1>3, WorksRead, WorksPost, WorksFail, WorksFinish
  <2>2. Apart' /\ Rows'
    BY <1>1, <1>2, <2>1, ApartWorks, RowsWorks
  <2>3. InvoicedInv'
    BY <1>1, <1>2, <1>3, InvoicedWorks
  <2>4. Accounts'
    <3>1. CASE Rollback(p) \/ Expire(p)
      <4>1. task[p].doc \in disturbed'
        BY <1>1, <2>1, <3>1, WorksFail DEF Works, Docs, Active
      <4> QED
        BY <1>1, <1>2, <2>1, <4>1, AccountsFail
    <3>2. CASE ~(Rollback(p) \/ Expire(p))
      BY <1>1, <1>2, <1>3, <3>2, AccountsRead, AccountsPost, AccountsFinish
    <3> QED
      BY <3>1, <3>2
  <2>5. \A q \in Slots : Affordable(q)'
    BY <1>1, <1>2, <1>3, AffordableWorks
  <2>6. OpenInv'
    BY <1>1, <1>3, OpenWorks
  <2> QED
    BY <2>2, <2>3, <2>4, <2>5, <2>6 DEF SettledInv
<1>4. ASSUME NEW p \in Slots,
             CreateOrder(p) \/ CancelOrder(p) \/ CreateInvoice(p) \/ CancelInvoice(p)
      PROVE  SettledInv'
  <2>1. PICK d \in Documents : Starts(p, d)
    BY <1>1, <1>4, StartsOrder, StartsInvoice DEF Documents
  <2>2. Apart' /\ Rows'
    BY <1>1, <1>2, <2>1, ApartStarts, RowsStarts
  <2>3. InvoicedInv'
    BY <1>1, <1>2, <2>1, InvoicedStarts
  <2>4. Accounts'
    BY <1>1, <1>2, <2>1, AccountsStarts
  <2>5. \A q \in Slots : Affordable(q)'
    BY <1>1, <1>2, <2>1, AffordableStarts
  <2>6. OpenInv'
    BY <1>1, <2>1, OpenStarts
  <2> QED
    BY <2>2, <2>3, <2>4, <2>5, <2>6 DEF SettledInv
<1>5. CASE UNCHANGED vars
  <2>1. Apart' /\ Rows' /\ InvoicedInv'
    BY <1>2, <1>5 DEF vars, Apart, Rows, InvoicedInv, Docs, OnOrder, Row, Billing, InvoicesOf
  <2>2. Accounts'
    BY <1>2, <1>5 DEF vars, Accounts, TaskAccount, OrderAtRest, InvoiceAtRest, Active, WorkedOn,
                      Row, OnOrder, SettledStatus, Creating, PostedBy, HasPosted
  <2>3. (\A p \in Slots : Affordable(p)') /\ OpenInv'
    BY <1>2, <1>5 DEF vars, Affordable, OpenInv, Withdrawn, NoCreditNotes, OpenCommitment,
                      InvoicesOf, Row, OnOrder, Creating
  <2> QED
    BY <2>1, <2>2, <2>3 DEF SettledInv
<1> QED
  BY <1>3, <1>4, <1>5 DEF Next, Step

\* What the invariant says of the purchases no slot works on.
LEMMA PurchasesAtRest == IInv /\ SettledInv => SettledPurchases
<1> SUFFICES ASSUME IInv, SettledInv PROVE SettledPurchases
  OBVIOUS
<1> USE DEF IInv, SettledInv
<1>1. \A d : Settled(d) => d \notin disturbed /\ ~WorkedOn(d) /\ \A p \in Slots : d \notin Docs(p)
  BY DEF Settled, InUse, WorkedOn, Docs, Active
<1>2. SettledInvoices
  BY <1>1 DEF SettledInvoices, Accounts, InvoiceAtRest
<1>3. ASSUME NEW o \in Orders, NEW l \in Lines, Settled(o), orders[o].status = "APPROVED",
             orders[o].amount >= 0, \A i \in InvoicesOf(o) : invoices[i].amount >= 0
      PROVE  OpenCommitment(o, l) \in 0 .. orders[o].amount
  <2> DEFINE S == InvoicesOf(o)
             w == [i \in Invoices |-> commitment[i][l]]
             z == [i \in Invoices |-> 0]
  <2>1. /\ IsFiniteSet(S) /\ S \subseteq Invoices
        /\ \A i \in Invoices : commitment[i][l] \in Int
        /\ SumFunctionOnSet(w, S) \in Int /\ commitment[o][l] \in Int
        /\ OpenCommitment(o, l) \in Int
    BY OpenTypes
  <2>2. \A i \in S : commitment[i][l] <= 0
    <3>1. ASSUME NEW i \in S PROVE i \notin lapsed
      <4>1. i \in Invoices /\ invoices[i].order = o /\ o # NoOrder
        BY <3>1, ProcurementAssumption DEF InvoicesOf
      <4> QED
        BY <1>1, <1>3, <4>1 DEF Apart
    <3> QED
      BY <2>1, <3>1 DEF UnwindInv, UnwindBounded
  <2>3. commitment[o][l] <= orders[o].amount /\ orders[o].amount \in Int
    BY <1>1, <1>3 DEF Accounts, OrderAtRest, TypeInv, TypeOK
  <2>4. \A i \in S : w[i] \in Int /\ z[i] \in Int /\ w[i] <= z[i] /\ z[i] = 0
    <3> HIDE DEF S
    <3> QED
      BY <2>1, <2>2
  <2>5. SumFunctionOnSet(w, S) <= 0
    <3> HIDE DEF S, w, z
    <3>1. SumFunctionOnSet(w, S) <= SumFunctionOnSet(z, S) /\ SumFunctionOnSet(z, S) = 0
      BY <2>1, <2>4, SumMonotone, SumZero
    <3> QED
      BY <3>1
  <2>6. OpenCommitment(o, l) = commitment[o][l] + SumFunctionOnSet(w, S)
    BY DEF OpenCommitment
  <2>7. OpenCommitment(o, l) >= 0
    <3>1. ~Withdrawn(o)
      BY <1>1, <1>3 DEF Withdrawn, Docs
    <3> QED
      BY <1>1, <1>3, <3>1 DEF OpenInv, NoCreditNotes
  <2> HIDE DEF S, w, z
  <2> QED
    BY <2>1, <2>3, <2>5, <2>6, <2>7
<1>4. SettledOrders
  BY <1>3 DEF SettledOrders
<1> QED
  BY <1>2, <1>4 DEF SettledPurchases

\* A purchase no two requests shared and none failed on is accounted for: its invoices
\* have consumed what they bill, its cancelled invoices weigh nothing, and what the order
\* leaves open is counted neither twice nor below zero, for any number of orders, invoices
\* and requests in flight.
THEOREM PurchasesSettle == Spec => []SettledPurchases
<1>1. Init => IInv
  BY TypeInit, HolderInit, UnwindInit DEF IInv
<1> QED
  BY <1>1, InvStep, SettledInit, SettledStep, PurchasesAtRest, PTL DEF Spec
===============================================================================
