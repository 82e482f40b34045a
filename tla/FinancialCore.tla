---------------------------- MODULE FinancialCore -----------------------------
(***************************************************************************)
(* The financial core: movements (events and allocations) are the source   *)
(* of truth of a budget line, and four columns of the line row, forecast,  *)
(* committed, consumed and remaining, are derived from them and stored.    *)
(*                                                                         *)
(* Requests run concurrently against PostgreSQL at READ COMMITTED.  Each   *)
(* statement sees the rows committed when it starts, plus its own          *)
(* transaction's rows; an UPDATE locks the row until the transaction ends. *)
(* A request is one of FinancialEventsService.create,                      *)
(* FinancialAllocationsService.create, BudgetReallocationService.create or *)
(* the amount change of BudgetLinesService.update, run statement by        *)
(* statement; a client that retries is another request.                    *)
(***************************************************************************)
EXTENDS Integers, Functions

CONSTANTS
    Requests,           \* the HTTP requests of a behaviour
    Lines,              \* the lines of one budget, same currency, all ACTIVE
    Operations,         \* the operations the requests may call
    EventTypes,         \* the FinancialEventType values clients post
    AllocationTypes,    \* the AllocationType values clients post
    EventAmounts,       \* amountHt of a posted event
    AllocationAmounts,  \* allocatedAmount of a posted allocation
    ReallocatedAmounts, \* amounts moved between lines
    BudgetAmounts,      \* initialAmount values a PATCH may set
    InitialAmount       \* initialAmount of every line at creation

ASSUME AmountsAssumption ==
    /\ Lines # {}
    /\ EventAmounts \subseteq Int
    /\ AllocationAmounts \subseteq Nat
    /\ ReallocatedAmounts \subseteq Nat \ {0}
    /\ BudgetAmounts \subseteq Nat
    /\ InitialAmount \in Nat

VARIABLES
    (***********************************************************************)
    (* Committed database state                                            *)
    (***********************************************************************)
    row,            \* BudgetLine amounts
    events,         \* FinancialEvent rows
    allocations,    \* FinancialAllocation rows
    budgetLocked,   \* Budget.status = LOCKED
    (***********************************************************************)
    (* Per request                                                         *)
    (***********************************************************************)
    pc,             \* the statement it is about to run
    req,            \* its input
    cur,            \* the line being recalculated
    seen,           \* what its reads returned
    held,           \* lines whose row it has updated, hence locked
    pending,        \* the uncommitted version of those rows
    (***********************************************************************)
    (* History                                                             *)
    (***********************************************************************)
    overtaken,      \* lines on which another request committed since it read
    exact           \* lines last written by a recalculation nobody overtook

db == <<row, events, allocations, budgetLocked>>
vars == <<row, events, allocations, budgetLocked, pc, req, cur, seen, held,
          pending, overtaken, exact>>

-------------------------------------------------------------------------------
(***************************************************************************)
(* Aggregation                                                             *)
(***************************************************************************)

On(rows, l) == {m \in rows : m.line = l}
Total(rows, type) == SumFunctionOnSet([m \in rows |-> m.amount], {m \in rows : m.type = type})

Forecast(allocs) == Total(allocs, "FORECAST")
Committed(evs, allocs) ==
    Total(allocs, "COMMITTED") + Total(evs, "COMMITMENT_REGISTERED")
Consumed(evs, allocs) ==
    Total(allocs, "CONSUMED") + Total(evs, "CONSUMPTION_REGISTERED")

\* aggregateBudgetLineAmounts, as the amounts of a line row.
AggregateBudgetLineAmounts(initial, evs, allocs) ==
    [initial   |-> initial,
     forecast  |-> Forecast(allocs),
     committed |-> Committed(evs, allocs),
     consumed  |-> Consumed(evs, allocs),
     remaining |-> initial + Total(evs, "REALLOCATION_DONE")
                     - Committed(evs, allocs) - Consumed(evs, allocs)]

RECALC_EVENT_TYPES == {"COMMITMENT_REGISTERED", "CONSUMPTION_REGISTERED"}

-------------------------------------------------------------------------------
(***************************************************************************)
(* Requests                                                                *)
(***************************************************************************)

Unset == [op |-> "none"]

EventRequest == [op: {"event"}, line: Lines, type: EventTypes, amount: EventAmounts]
\* Mutant: the DTO without its @Min(0).
AllocationRequestUnbounded ==
    [op: {"allocation"}, line: Lines, type: AllocationTypes, amount: EventAmounts]
AllocationRequest ==
    [op: {"allocation"}, line: Lines, type: AllocationTypes, amount: AllocationAmounts]
ReallocationRequest ==
    {r \in [op: {"reallocation"}, line: Lines, target: Lines, amount: ReallocatedAmounts] :
        r.line # r.target}
UpdateRequest == [op: {"update"}, line: Lines, initial: BudgetAmounts]

RequestInput ==
    EventRequest \cup AllocationRequest \cup ReallocationRequest \cup UpdateRequest

MovementTypes == EventTypes \cup AllocationTypes \cup {"REALLOCATION_DONE"}

MovementOf(p, l, type, amount) == [id |-> p, line |-> l, type |-> type, amount |-> amount]

\* Mutants: a reallocation that only debits its source, or credits both lines.
ReallocationEventsDebitOnly(p) ==
    {MovementOf(p, req[p].line, "REALLOCATION_DONE", -req[p].amount)}
ReallocationEventsCreditBoth(p) ==
    {MovementOf(p, l, "REALLOCATION_DONE", req[p].amount) : l \in {req[p].line, req[p].target}}

\* The two events of a reallocation: debit the source, credit the target.
ReallocationEvents(p) ==
    {MovementOf(p, req[p].line, "REALLOCATION_DONE", -req[p].amount),
     MovementOf(p, req[p].target, "REALLOCATION_DONE", req[p].amount)}

\* The movements a request inserts: invisible to the others until it commits.
OwnEvents(p) ==
    CASE req[p].op = "event" -> {MovementOf(p, req[p].line, req[p].type, req[p].amount)}
      [] req[p].op = "reallocation" -> ReallocationEvents(p)
      [] OTHER -> {}

OwnAllocations(p) ==
    IF req[p].op = "allocation"
    THEN {MovementOf(p, req[p].line, req[p].type, req[p].amount)}
    ELSE {}

\* Mutant: the calculator reads with this.prisma instead of the transaction.
VisibleEventsOutsideTx(p, l) == On(events, l)
VisibleEvents(p, l) == On(events \cup OwnEvents(p), l)
VisibleAllocations(p, l) == On(allocations \cup OwnAllocations(p), l)

\* The lines whose movements or amounts a commit of p changes.
Touched(p) == held[p] \cup {m.line : m \in OwnEvents(p) \cup OwnAllocations(p)}

\* The row lock of an UPDATE by another transaction.
LockedFor(p, l) == \E q \in Requests \ {p} : l \in held[q]

-------------------------------------------------------------------------------
(***************************************************************************)
(* Actions                                                                 *)
(***************************************************************************)

InitialRow == AggregateBudgetLineAmounts(InitialAmount, {}, {})
NothingSeen ==
    [initial |-> 0, allocations |-> {}, events |-> {}, committed |-> 0, consumed |-> 0]

NothingWritten == [l \in Lines |-> InitialRow]

Init ==
    /\ row = [l \in Lines |-> InitialRow]
    /\ events = {}
    /\ allocations = {}
    /\ budgetLocked = FALSE
    /\ pc = [p \in Requests |-> "idle"]
    /\ req = [p \in Requests |-> Unset]
    /\ cur = [p \in Requests |-> CHOOSE l \in Lines : TRUE]
    /\ seen = [p \in Requests |-> NothingSeen]
    /\ held = [p \in Requests |-> {}]
    /\ pending = [p \in Requests |-> NothingWritten]
    /\ overtaken = [p \in Requests |-> {}]
    /\ exact = Lines

\* The request is accepted and goes to statement `next`.
Accept(p, r, next) ==
    /\ pc[p] = "idle"
    /\ r.op \in Operations
    /\ req' = [req EXCEPT ![p] = r]
    /\ cur' = [cur EXCEPT ![p] = r.line]
    /\ pc' = [pc EXCEPT ![p] = next]
    /\ UNCHANGED <<db, held, pending, overtaken, exact>>

\* FinancialEventsService.create: insert; the types outside
\* RECALC_EVENT_TYPES commit without a recalculation.
CreateEvent(p) ==
    /\ \E r \in EventRequest :
          Accept(p, r, IF r.type \in RECALC_EVENT_TYPES THEN "readLine" ELSE "commit")
    /\ UNCHANGED seen

\* FinancialAllocationsService.create: insert, then always recalculate.
CreateAllocation(p) ==
    /\ \E r \in AllocationRequest : Accept(p, r, "readLine")
    /\ UNCHANGED seen

\* BudgetReallocationService.create: the remaining amount of the source is
\* checked on a read made before the transaction that inserts both events.
\* (Mutant first: without the LOCKED test.)
CheckReallocationUnlocked(p) ==
    /\ \E r \in ReallocationRequest :
          /\ r.amount <= row[r.line].remaining
          /\ Accept(p, r, "readLine")
    /\ UNCHANGED seen
CheckReallocation(p) ==
    /\ ~budgetLocked
    /\ \E r \in ReallocationRequest :
          /\ r.amount <= row[r.line].remaining
          /\ Accept(p, r, "readLine")
    /\ UNCHANGED seen

\* BudgetLinesService.update: `existing` is read before the transaction.
ReadExisting(p) ==
    /\ ~budgetLocked
    /\ \E r \in UpdateRequest :
          /\ Accept(p, r, "updateLine")
          /\ seen' = [seen EXCEPT ![p].committed = row[r.line].committed,
                                  ![p].consumed = row[r.line].consumed]

\* recalculateForBudgetLine: three reads on the transaction's connection,
\* each with its own snapshot.
ReadLine(p) ==
    /\ pc[p] = "readLine"
    /\ seen' = [seen EXCEPT ![p] = [NothingSeen EXCEPT !.initial = row[cur[p]].initial]]
    /\ overtaken' = [overtaken EXCEPT ![p] = @ \ {cur[p]}]
    /\ pc' = [pc EXCEPT ![p] = "readAllocations"]
    /\ UNCHANGED <<db, req, cur, held, pending, exact>>

ReadAllocations(p) ==
    /\ pc[p] = "readAllocations"
    /\ seen' = [seen EXCEPT ![p].allocations = VisibleAllocations(p, cur[p])]
    /\ pc' = [pc EXCEPT ![p] = "readEvents"]
    /\ UNCHANGED <<db, req, cur, held, pending, overtaken, exact>>

ReadEvents(p) ==
    /\ pc[p] = "readEvents"
    /\ seen' = [seen EXCEPT ![p].events = VisibleEvents(p, cur[p])]
    /\ pc' = [pc EXCEPT ![p] = "writeRow"]
    /\ UNCHANGED <<db, req, cur, held, pending, overtaken, exact>>

\* The amounts computed from what the three reads returned.
Recalculated(p) ==
    AggregateBudgetLineAmounts(seen[p].initial, seen[p].events, seen[p].allocations)

LockAndUpdate(p, l, amounts) ==
    /\ ~LockedFor(p, l)
    /\ held' = [held EXCEPT ![p] = @ \cup {l}]
    /\ pending' = [pending EXCEPT ![p][l] = amounts]

\* Mutants: the update outside the transaction; the target recalculated forever.
WriteRowAutocommitted(p) ==
    /\ pc[p] = "writeRow"
    /\ row' = [row EXCEPT ![cur[p]] = [Recalculated(p) EXCEPT !.initial = row[cur[p]].initial]]
    /\ pc' = [pc EXCEPT ![p] = "commit"]
    /\ UNCHANGED <<events, allocations, budgetLocked, req, cur, seen, held, pending,
                   overtaken, exact>>
WriteRowTargetForever(p) ==
    LET again == req[p].op = "reallocation" IN
    /\ pc[p] = "writeRow"
    /\ LockAndUpdate(p, cur[p], [Recalculated(p) EXCEPT !.initial = row[cur[p]].initial])
    /\ cur' = IF again THEN [cur EXCEPT ![p] = req[p].target] ELSE cur
    /\ pc' = [pc EXCEPT ![p] = IF again THEN "readLine" ELSE "commit"]
    /\ UNCHANGED <<db, req, seen, overtaken, exact>>

\* One BudgetLine UPDATE; a reallocation goes on from the source to the target.
WriteRow(p) ==
    LET l == cur[p]
        toTarget == req[p].op = "reallocation" /\ l = req[p].line
    IN
    /\ pc[p] = "writeRow"
    /\ LockAndUpdate(p, l, [Recalculated(p) EXCEPT !.initial = row[l].initial])
    /\ cur' = IF toTarget THEN [cur EXCEPT ![p] = req[p].target] ELSE cur
    /\ pc' = [pc EXCEPT ![p] = IF toTarget THEN "readLine" ELSE "commit"]
    /\ UNCHANGED <<db, req, seen, overtaken, exact>>

\* The amount columns a PATCH sets: remaining is floored at 0 and ignores
\* the reallocations, as the service computes it.
UpdateLine(p) ==
    LET l == cur[p]
        left == req[p].initial - seen[p].committed - seen[p].consumed
    IN
    /\ pc[p] = "updateLine"
    /\ LockAndUpdate(p, l, [row[l] EXCEPT !.initial = req[p].initial,
                                          !.remaining = IF left < 0 THEN 0 ELSE left])
    /\ pc' = [pc EXCEPT ![p] = "commit"]
    /\ UNCHANGED <<db, req, cur, seen, overtaken, exact>>

\* The request is over: its locks are released, its local state is gone.
End(p, outcome) ==
    /\ pc' = [pc EXCEPT ![p] = outcome]
    /\ held' = [held EXCEPT ![p] = {}]
    /\ seen' = [seen EXCEPT ![p] = NothingSeen]
    /\ pending' = [pending EXCEPT ![p] = NothingWritten]
    /\ UNCHANGED <<budgetLocked, req, cur>>

Commit(p) ==
    /\ pc[p] = "commit"
    /\ events' = events \cup OwnEvents(p)
    /\ allocations' = allocations \cup OwnAllocations(p)
    /\ row' = [l \in Lines |-> IF l \in held[p] THEN pending[p][l] ELSE row[l]]
    /\ overtaken' = [q \in Requests |->
                        IF pc[q] \in {"idle", "committed", "failed"} \/ q = p
                        THEN {} ELSE overtaken[q] \cup Touched(p)]
    /\ exact' = (exact \ Touched(p)) \cup
                    (IF req[p].op = "update" THEN {} ELSE held[p] \ overtaken[p])
    /\ End(p, "committed")

InTransaction(p) ==
    pc[p] \in {"readLine", "readAllocations", "readEvents", "writeRow", "updateLine", "commit"}

\* A statement error, the transaction timeout, a deadlock or a crash: the
\* database rolls the transaction back and releases its locks.
Rollback(p) ==
    /\ InTransaction(p)
    /\ overtaken' = [overtaken EXCEPT ![p] = {}]
    /\ End(p, "failed")
    /\ UNCHANGED <<row, events, allocations, exact>>

\* BudgetsService.update, VALIDATED -> LOCKED, as the line services see it.
LockBudget ==
    /\ ~budgetLocked
    /\ budgetLocked' = TRUE
    /\ UNCHANGED <<row, events, allocations, pc, req, cur, seen, held, pending,
                   overtaken, exact>>

Step(p) ==
    \/ CreateEvent(p) \/ CreateAllocation(p) \/ CheckReallocation(p) \/ ReadExisting(p)
    \/ ReadLine(p) \/ ReadAllocations(p) \/ ReadEvents(p) \/ WriteRow(p)
    \/ UpdateLine(p) \/ Commit(p)

Next == LockBudget \/ \E p \in Requests : Step(p) \/ Rollback(p)

Spec == Init /\ [][Next]_vars

(***************************************************************************)
(* Fairness: the API process keeps executing the statements of a request   *)
(* it accepted, and a transaction stuck on a row lock is ended by          *)
(* PostgreSQL's deadlock detector or by Prisma's transaction timeout.      *)
(* Clients owe nothing.                                                    *)
(***************************************************************************)
Statement(p) ==
    \/ ReadLine(p) \/ ReadAllocations(p) \/ ReadEvents(p) \/ WriteRow(p)
    \/ UpdateLine(p) \/ Commit(p)

Blocked(p) == pc[p] \in {"writeRow", "updateLine"} /\ LockedFor(p, cur[p])

Fairness ==
    \A p \in Requests : WF_vars(Statement(p)) /\ WF_vars(Blocked(p) /\ Rollback(p))

FairSpec == Spec /\ Fairness

-------------------------------------------------------------------------------
(***************************************************************************)
(* Properties                                                              *)
(***************************************************************************)

Movement == [id: Requests, line: Lines, type: MovementTypes, amount: Int]

\* The amount columns of a line row.
IsAmounts(r) ==
    r \in [initial: Int, forecast: {r.forecast}, committed: {r.committed},
           consumed: {r.consumed}, remaining: {r.remaining}]

\* Types of the tables and of the requests.  The derived columns of a row are
\* not typed here: AmountsFromCommitted says what they are sums of.  An
\* allocation is never negative (the DTO's @Min(0)).
TypeOK ==
    /\ row = [l \in Lines |-> row[l]]
    /\ \A l \in Lines : IsAmounts(row[l])
    /\ events \subseteq Movement
    /\ allocations \subseteq [id: Requests, line: Lines, type: MovementTypes, amount: Nat]
    /\ budgetLocked \in BOOLEAN
    /\ pc \in [Requests -> {"idle", "readLine", "readAllocations", "readEvents",
                             "writeRow", "updateLine", "commit", "committed", "failed"}]
    /\ req \in [Requests -> RequestInput \cup {Unset}]
    /\ cur \in [Requests -> Lines]
    /\ held \in [Requests -> SUBSET Lines]
    /\ overtaken \in [Requests -> SUBSET Lines]
    /\ exact \subseteq Lines

\* The derived amounts of a line never hold money no committed movement
\* accounts for: whatever interleaves, and whatever is rolled back, they are the
\* sums of some committed events and allocations of that line.
AmountsFromCommitted ==
    \A l \in Lines :
        \E evs \in SUBSET On(events, l), allocs \in SUBSET On(allocations, l) :
            /\ row[l].forecast = Forecast(allocs)
            /\ row[l].committed = Committed(evs, allocs)
            /\ row[l].consumed = Consumed(evs, allocs)

\* A recalculation that no other commit on the line overtook leaves the row
\* equal to the aggregate of all its movements, even when an earlier one had
\* lost an update: recalculateForBudgetLine repairs the row from its sources.
ExactLinesMatch ==
    \A l \in exact :
        row[l] = AggregateBudgetLineAmounts(row[l].initial, On(events, l), On(allocations, l))

\* A reallocation is all or nothing: what it takes from a line it gives to
\* another, at every instant and across rollbacks.
ReallocationsBalance ==
    \A p \in Requests :
        req[p].op = "reallocation" =>
            Total({m \in events : m.id = p}, "REALLOCATION_DONE") = 0

\* Once a budget is locked and the updates and reallocations admitted before
\* are over, none is in progress ever again and initialAmount is frozen.
Drained ==
    \A p \in Requests : req[p].op \in {"update", "reallocation"} => ~InTransaction(p)
LockedBudgetStaysDrained ==
    [][ budgetLocked /\ Drained =>
            /\ Drained'
            /\ \A l \in Lines : row'[l].initial = row[l].initial ]_vars

\* The movement tables implement the append-only journal.
Journal == INSTANCE FinancialJournal WITH Types <- MovementTypes
ImplementsJournal == Journal!JSpec

\* Every accepted request ends, committed or rolled back, even when two
\* opposite reallocations lock the same two rows in opposite orders.
RequestsEnd ==
    \A p \in Requests : (pc[p] # "idle") ~> (pc[p] \in {"committed", "failed"})

\* docs/modules/budget-mvp.md:54 - the stored amounts follow the movements
\* whenever no request is in progress.
AmountsFollowMovements ==
    (\A p \in Requests : ~InTransaction(p)) =>
        \A l \in Lines :
            row[l] = AggregateBudgetLineAmounts(row[l].initial, On(events, l), On(allocations, l))

\* RFC-017: a transfer larger than the source's remaining amount is refused.
NoOverdraft == \A l \in Lines : row[l].remaining >= 0
===============================================================================
