------------------------- MODULE FinancialCore_proofs -------------------------
(***************************************************************************)
(* Theorems about FinancialCore, for every set of requests and lines and   *)
(* every choice of amounts.                                                *)
(***************************************************************************)
EXTENDS FinancialCore, SumTheorems

-------------------------------------------------------------------------------
(***************************************************************************)
(* The inductive invariant                                                 *)
(***************************************************************************)

Recalculating == {"readLine", "readAllocations", "readEvents", "writeRow"}
Over == {"idle", "committed", "failed"}

\* The local state of a request is a record of the right shape, and an
\* uncommitted row has the columns of a row.
IsSeen(s) ==
    s \in [initial: {s.initial}, allocations: {s.allocations}, events: {s.events},
           committed: {s.committed}, consumed: {s.consumed}]

LocalTypeOK ==
    /\ seen = [p \in Requests |-> seen[p]]
    /\ \A p \in Requests : IsSeen(seen[p])
    /\ pending = [p \in Requests |-> [l \in Lines |-> pending[p][l]]]
    /\ \A p \in Requests, l \in Lines : IsAmounts(pending[p][l])

\* What the statement a request is about to run says of its input and its locks.
ControlOK ==
    \A p \in Requests :
        /\ pc[p] = "idle" => req[p] = Unset
        /\ pc[p] \in Over => held[p] = {}
        /\ pc[p] \in Recalculating =>
              /\ req[p].op \in {"event", "allocation", "reallocation"}
              /\ cur[p] \notin held[p]
              /\ cur[p] = req[p].line => held[p] = {}
        /\ pc[p] = "updateLine" => req[p].op = "update"

\* Until another commit on the line, what a recalculation has read is current.
SeenCurrentAt(p) ==
    cur[p] \notin overtaken[p] =>
        /\ pc[p] \in {"readEvents", "writeRow"} =>
              seen[p].allocations = VisibleAllocations(p, cur[p])
        /\ pc[p] = "writeRow" => seen[p].events = VisibleEvents(p, cur[p])
        /\ pc[p] \in {"readAllocations", "readEvents", "writeRow"} =>
              seen[p].initial = row[cur[p]].initial

\* ... and so is the row it has written and not yet committed.
PendingCurrentAt(p) ==
    \A l \in held[p] \ overtaken[p] :
        req[p].op # "update" =>
            pending[p][l] = AggregateBudgetLineAmounts(row[l].initial, VisibleEvents(p, l),
                                                       VisibleAllocations(p, l))

SeenCurrent == \A p \in Requests : SeenCurrentAt(p)
PendingCurrent == \A p \in Requests : PendingCurrentAt(p)

TypeInv == TypeOK /\ LocalTypeOK /\ ControlOK
IInv == TypeInv /\ SeenCurrent /\ PendingCurrent /\ ExactLinesMatch

\* What a recalculation has read, and what it has written and not committed,
\* comes from movements it can see: committed ones and its own.
SeenSourcedAt(p) ==
    /\ pc[p] \in {"readEvents", "writeRow"} =>
          seen[p].allocations \subseteq VisibleAllocations(p, cur[p])
    /\ pc[p] = "writeRow" => seen[p].events \subseteq VisibleEvents(p, cur[p])

Sourced(r, evs, allocs) ==
    \E e \in SUBSET evs, a \in SUBSET allocs :
        /\ r.forecast = Forecast(a)
        /\ r.committed = Committed(e, a)
        /\ r.consumed = Consumed(e, a)

PendingSourcedAt(p) ==
    \A l \in held[p] :
        Sourced(pending[p][l], VisibleEvents(p, l), VisibleAllocations(p, l))

SeenSourced == \A p \in Requests : SeenSourcedAt(p)
PendingSourced == \A p \in Requests : PendingSourcedAt(p)

SourceInv == TypeInv /\ SeenSourced /\ PendingSourced /\ AmountsFromCommitted

\* A row is locked by one request, and a recalculation leaves the budget alone.
LocksExclusive ==
    \A p, q \in Requests : p # q => held[p] \cap held[q] = {}
InitialKept ==
    \A p \in Requests : \A l \in held[p] :
        req[p].op # "update" => pending[p][l].initial = row[l].initial

LockInv == TypeInv /\ LocksExclusive /\ InitialKept

\* A request that has not committed has left nothing in the tables.
NothingPosted ==
    \A m \in events \cup allocations : pc[m.id] = "committed"

PostInv == TypeInv /\ NothingPosted

\* A request has posted all of its events or none, as it has committed or not.
EventsOf(p) == {m \in events : m.id = p}
PostedWhole ==
    \A p \in Requests : EventsOf(p) = IF pc[p] = "committed" THEN OwnEvents(p) ELSE {}

WholeInv == TypeInv /\ PostedWhole

-------------------------------------------------------------------------------
(***************************************************************************)
(* Lemmas                                                                  *)
(***************************************************************************)

\* The aggregate is a row of amounts whose budget is the one it was given.
LEMMA AggregateIsAmounts ==
    ASSUME NEW i \in Int, NEW evs, NEW allocs
    PROVE  /\ IsAmounts(AggregateBudgetLineAmounts(i, evs, allocs))
           /\ AggregateBudgetLineAmounts(i, evs, allocs).initial = i
  BY DEF IsAmounts, AggregateBudgetLineAmounts

\* Setting fields of a record of the right shape keeps its shape.
LEMMA SetSeen ==
    ASSUME NEW s, IsSeen(s), NEW x, NEW y
    PROVE  /\ IsSeen([s EXCEPT !.committed = x, !.consumed = y])
           /\ IsSeen([s EXCEPT !.allocations = x])
           /\ IsSeen([s EXCEPT !.events = x])
  BY DEF IsSeen

LEMMA SetAmounts ==
    ASSUME NEW r, IsAmounts(r), NEW i \in Int, NEW x
    PROVE  /\ IsAmounts([r EXCEPT !.initial = i, !.remaining = x])
           /\ IsAmounts([r EXCEPT !.initial = i])
  BY DEF IsAmounts

\* A request only inserts rows of its own, on its lines.
LEMMA OwnMovements ==
    ASSUME TypeOK, NEW p \in Requests
    PROVE  /\ OwnEvents(p) \subseteq Movement
           /\ OwnAllocations(p) \subseteq
                 [id: Requests, line: Lines, type: MovementTypes, amount: Nat]
           /\ Touched(p) \subseteq Lines
           /\ held[p] \subseteq Touched(p)
           /\ \A m \in OwnEvents(p) \cup OwnAllocations(p) : m.id = p /\ m.line \in Touched(p)
<1>1. req[p] \in RequestInput \cup {Unset}
  BY DEF TypeOK
<1>2. CASE req[p].op = "event"
  <2>1. req[p] \in EventRequest
    BY <1>1, <1>2 DEF RequestInput, EventRequest, AllocationRequest, ReallocationRequest,
       UpdateRequest, Unset
  <2>2. /\ OwnEvents(p) = {MovementOf(p, req[p].line, req[p].type, req[p].amount)}
        /\ OwnAllocations(p) = {}
    BY <1>2 DEF OwnEvents, OwnAllocations
  <2>3. MovementOf(p, req[p].line, req[p].type, req[p].amount) \in Movement
    BY <2>1, AmountsAssumption DEF MovementOf, Movement, MovementTypes, EventRequest
  <2> QED
    BY <2>1, <2>2, <2>3 DEF Touched, MovementOf, TypeOK, Movement
<1>3. CASE req[p].op = "allocation"
  <2>1. req[p] \in AllocationRequest
    BY <1>1, <1>3 DEF RequestInput, EventRequest, AllocationRequest, ReallocationRequest,
       UpdateRequest, Unset
  <2>2. /\ OwnAllocations(p) = {MovementOf(p, req[p].line, req[p].type, req[p].amount)}
        /\ OwnEvents(p) = {}
    BY <1>3 DEF OwnEvents, OwnAllocations
  <2>3. MovementOf(p, req[p].line, req[p].type, req[p].amount) \in
            [id: Requests, line: Lines, type: MovementTypes, amount: Nat]
    BY <2>1, AmountsAssumption DEF MovementOf, MovementTypes, AllocationRequest
  <2> QED
    BY <2>1, <2>2, <2>3 DEF Touched, MovementOf, TypeOK
<1>4. CASE req[p].op = "reallocation"
  <2>1. req[p] \in ReallocationRequest
    BY <1>1, <1>4 DEF RequestInput, EventRequest, AllocationRequest, ReallocationRequest,
       UpdateRequest, Unset
  <2>2. OwnEvents(p) = ReallocationEvents(p) /\ OwnAllocations(p) = {}
    BY <1>4 DEF OwnEvents, OwnAllocations
  <2>3. /\ req[p].line \in Lines /\ req[p].target \in Lines
        /\ req[p].amount \in ReallocatedAmounts
    BY <2>1 DEF ReallocationRequest
  <2>4. ReallocationEvents(p) \subseteq Movement
    <3>0. req[p].amount \in Nat
      BY <2>3, AmountsAssumption
    <3>1. req[p].amount \in Int /\ -req[p].amount \in Int
      BY <3>0
    <3>2. MovementOf(p, req[p].line, "REALLOCATION_DONE", -req[p].amount) \in Movement
      BY <2>3, <3>1 DEF MovementOf, Movement, MovementTypes
    <3>3. MovementOf(p, req[p].target, "REALLOCATION_DONE", req[p].amount) \in Movement
      BY <2>3, <3>1 DEF MovementOf, Movement, MovementTypes
    <3> QED
      BY <3>2, <3>3 DEF ReallocationEvents
  <2>5. \A m \in ReallocationEvents(p) : m.id = p
    BY DEF ReallocationEvents, MovementOf
  <2> QED
    BY <2>2, <2>4, <2>5 DEF Touched, TypeOK, Movement
<1>5. CASE req[p].op \notin {"event", "allocation", "reallocation"}
  <2>1. OwnEvents(p) = {} /\ OwnAllocations(p) = {}
    BY <1>5 DEF OwnEvents, OwnAllocations
  <2> QED
    BY <2>1 DEF Touched, TypeOK
<1> QED
  BY <1>2, <1>3, <1>4, <1>5

\* Every input a handler accepts is a request of its kind.
LEMMA Inputs ==
    /\ \A r \in EventRequest : r.op = "event" /\ r.line \in Lines
    /\ \A r \in AllocationRequest : r.op = "allocation" /\ r.line \in Lines
    /\ \A r \in ReallocationRequest :
          r.op = "reallocation" /\ r.line \in Lines /\ r.target \in Lines /\ r.line # r.target
    /\ \A r \in UpdateRequest : r.op = "update" /\ r.line \in Lines /\ r.initial \in Int
<1>1. \A r \in UpdateRequest : r.op = "update" /\ r.line \in Lines /\ r.initial \in Int
  <2> SUFFICES ASSUME NEW r \in UpdateRequest
               PROVE  r.op = "update" /\ r.line \in Lines /\ r.initial \in Int
    OBVIOUS
  <2>1. r.initial \in Nat
    BY AmountsAssumption DEF UpdateRequest
  <2> QED
    BY <2>1 DEF UpdateRequest
<1>2. /\ \A r \in EventRequest : r.op = "event" /\ r.line \in Lines
      /\ \A r \in AllocationRequest : r.op = "allocation" /\ r.line \in Lines
  BY DEF EventRequest, AllocationRequest
<1>3. \A r \in ReallocationRequest :
        r.op = "reallocation" /\ r.line \in Lines /\ r.target \in Lines /\ r.line # r.target
  BY DEF ReallocationRequest
<1> QED
  BY <1>1, <1>2, <1>3

\* A request whose operation is known is an input of that operation.
LEMMA InputOf ==
    ASSUME TypeOK, NEW p \in Requests
    PROVE  /\ req[p].op = "reallocation" => req[p] \in ReallocationRequest
           /\ req[p].op = "update" => req[p] \in UpdateRequest
<1>1. req[p] \in RequestInput \cup {Unset}
  BY DEF TypeOK
<1> QED
  BY <1>1 DEF RequestInput, EventRequest, AllocationRequest, ReallocationRequest,
     UpdateRequest, Unset

LEMMA TypeInit == Init => TypeInv
<1> SUFFICES ASSUME Init PROVE TypeInv
  OBVIOUS
<1> USE DEF Init
<1>1. IsAmounts(InitialRow) /\ InitialAmount \in Int
  BY AmountsAssumption, AggregateIsAmounts DEF InitialRow
<1>2. (CHOOSE l \in Lines : TRUE) \in Lines
  BY AmountsAssumption
<1>3. TypeOK
  BY <1>1, <1>2 DEF TypeOK, RequestInput, Unset
<1>4. LocalTypeOK
  BY <1>1 DEF LocalTypeOK, NothingSeen, NothingWritten, IsSeen
<1>5. ControlOK
  BY DEF ControlOK, Recalculating, Over, Unset
<1> QED
  BY <1>3, <1>4, <1>5 DEF TypeInv

\* Accepting a request of the right kind keeps the types.
LEMMA TypeAccept ==
    ASSUME TypeInv, NEW p \in Requests, NEW r \in RequestInput,
           NEW next \in {"readLine", "commit", "updateLine"},
           r.line \in Lines,
           next = "readLine" => r.op \in {"event", "allocation", "reallocation"},
           next = "updateLine" => r.op = "update",
           Accept(p, r, next)
    PROVE  TypeOK' /\ ControlOK'
<1> USE DEF Accept, db, TypeInv
<1>1. TypeOK'
  BY DEF TypeOK
<1>2. ControlOK'
  BY DEF TypeOK, ControlOK, Recalculating, Over
<1> QED
  BY <1>1, <1>2

\* The local records survive a step that leaves them alone.
LEMMA LocalUnchanged ==
    ASSUME LocalTypeOK, UNCHANGED <<seen, pending>>
    PROVE  LocalTypeOK'
  BY DEF LocalTypeOK, IsAmounts, IsSeen

\* ... and those that replace one of them by a record of the right shape.
LEMMA LocalSeen ==
    ASSUME LocalTypeOK, NEW p \in Requests, NEW s, IsSeen(s),
           seen' = [seen EXCEPT ![p] = s]
    PROVE  /\ seen' = [q \in Requests |-> seen'[q]]
           /\ \A q \in Requests : IsSeen(seen'[q])
<1>1. seen' = [q \in Requests |-> IF q = p THEN s ELSE seen[q]]
  BY DEF LocalTypeOK
<1> QED
  BY <1>1 DEF LocalTypeOK

LEMMA LocalPending ==
    ASSUME LocalTypeOK, NEW p \in Requests, NEW v,
           v = [l \in Lines |-> v[l]], \A l \in Lines : IsAmounts(v[l]),
           pending' = [pending EXCEPT ![p] = v]
    PROVE  /\ pending' = [q \in Requests |-> [l \in Lines |-> pending'[q][l]]]
           /\ \A q \in Requests, l \in Lines : IsAmounts(pending'[q][l])
<1>1. pending' = [q \in Requests |-> IF q = p THEN v ELSE pending[q]]
  BY DEF LocalTypeOK
<1>2. \A q \in Requests : pending'[q] = [l \in Lines |-> pending'[q][l]]
  BY <1>1 DEF LocalTypeOK
<1>3. \A q \in Requests, l \in Lines : IsAmounts(pending'[q][l])
  BY <1>1 DEF LocalTypeOK
<1> QED
  BY <1>1, <1>2, <1>3

LEMMA LocalWritten ==
    ASSUME LocalTypeOK, NEW p \in Requests, NEW l \in Lines, NEW w, IsAmounts(w),
           LockAndUpdate(p, l, w), UNCHANGED seen
    PROVE  LocalTypeOK'
<1> DEFINE v == [pending[p] EXCEPT ![l] = w]
<1>1. v = [k \in Lines |-> IF k = l THEN w ELSE pending[p][k]]
  BY DEF LocalTypeOK
<1>2. v = [k \in Lines |-> v[k]] /\ \A k \in Lines : IsAmounts(v[k])
  BY <1>1 DEF LocalTypeOK
<1>3. pending' = [pending EXCEPT ![p] = v]
  BY DEF LockAndUpdate
<1> HIDE DEF v
<1>4. /\ pending' = [q \in Requests |-> [k \in Lines |-> pending'[q][k]]]
      /\ \A q \in Requests, k \in Lines : IsAmounts(pending'[q][k])
  BY <1>2, <1>3, LocalPending
<1> QED
  BY <1>4 DEF LocalTypeOK

LEMMA LocalEnd ==
    ASSUME LocalTypeOK, NEW p \in Requests, NEW outcome, End(p, outcome)
    PROVE  LocalTypeOK'
<1>1. IsSeen(NothingSeen) /\ seen' = [seen EXCEPT ![p] = NothingSeen]
  BY DEF IsSeen, NothingSeen, End
<1>2. IsAmounts(InitialRow)
  BY AmountsAssumption, AggregateIsAmounts DEF InitialRow
<1>3. /\ NothingWritten = [l \in Lines |-> NothingWritten[l]]
      /\ \A l \in Lines : IsAmounts(NothingWritten[l])
  BY <1>2 DEF NothingWritten
<1>4. pending' = [pending EXCEPT ![p] = NothingWritten]
  BY DEF End
<1> QED
  BY <1>1, <1>3, <1>4, LocalSeen, LocalPending DEF LocalTypeOK

LEMMA TypeStep == TypeInv /\ [Next]_vars => TypeInv'
<1> SUFFICES ASSUME TypeInv, [Next]_vars PROVE TypeInv'
  OBVIOUS
<1> USE DEF TypeInv
<1>1. ASSUME NEW p \in Requests, CreateEvent(p)
      PROVE  TypeInv'
  <2>1. PICK r \in EventRequest :
            Accept(p, r, IF r.type \in RECALC_EVENT_TYPES THEN "readLine" ELSE "commit")
    BY <1>1 DEF CreateEvent
  <2>2. r.op = "event" /\ r.line \in Lines /\ r \in RequestInput
    BY Inputs DEF RequestInput
  <2>3. TypeOK' /\ ControlOK'
    BY <2>1, <2>2, TypeAccept
  <2>4. LocalTypeOK'
    BY <1>1, <2>1, LocalUnchanged DEF CreateEvent, Accept
  <2> QED
    BY <2>3, <2>4
<1>2. ASSUME NEW p \in Requests, CreateAllocation(p)
      PROVE  TypeInv'
  <2>1. PICK r \in AllocationRequest : Accept(p, r, "readLine")
    BY <1>2 DEF CreateAllocation
  <2>2. r.op = "allocation" /\ r.line \in Lines /\ r \in RequestInput
    BY Inputs DEF RequestInput
  <2>3. TypeOK' /\ ControlOK'
    BY <2>1, <2>2, TypeAccept
  <2>4. LocalTypeOK'
    BY <1>2, <2>1, LocalUnchanged DEF CreateAllocation, Accept
  <2> QED
    BY <2>3, <2>4
<1>3. ASSUME NEW p \in Requests, CheckReallocation(p)
      PROVE  TypeInv'
  <2>1. PICK r \in ReallocationRequest : Accept(p, r, "readLine")
    BY <1>3 DEF CheckReallocation
  <2>2. r.op = "reallocation" /\ r.line \in Lines /\ r \in RequestInput
    BY Inputs DEF RequestInput
  <2>3. TypeOK' /\ ControlOK'
    BY <2>1, <2>2, TypeAccept
  <2>4. LocalTypeOK'
    BY <1>3, <2>1, LocalUnchanged DEF CheckReallocation, Accept
  <2> QED
    BY <2>3, <2>4
<1>4. ASSUME NEW p \in Requests, ReadExisting(p)
      PROVE  TypeInv'
  <2>1. PICK r \in UpdateRequest :
            /\ Accept(p, r, "updateLine")
            /\ seen' = [seen EXCEPT ![p].committed = row[r.line].committed,
                                    ![p].consumed = row[r.line].consumed]
    BY <1>4 DEF ReadExisting
  <2>2. r.op = "update" /\ r.line \in Lines /\ r \in RequestInput
    BY Inputs DEF RequestInput
  <2>3. TypeOK' /\ ControlOK'
    BY <2>1, <2>2, TypeAccept
  <2>4. LocalTypeOK'
    <3> DEFINE s == [seen[p] EXCEPT !.committed = row[r.line].committed,
                                    !.consumed = row[r.line].consumed]
    <3>1. IsSeen(s)
      BY SetSeen DEF LocalTypeOK
    <3>2. seen' = [seen EXCEPT ![p] = s]
      BY <2>1
    <3> HIDE DEF s
    <3>3. UNCHANGED pending
      BY <2>1 DEF Accept
    <3> QED
      BY <3>1, <3>2, <3>3, LocalSeen DEF LocalTypeOK
  <2> QED
    BY <2>3, <2>4
<1>5. ASSUME NEW p \in Requests, ReadLine(p) \/ ReadAllocations(p) \/ ReadEvents(p)
      PROVE  TypeInv'
  <2> USE <1>5 DEF ReadLine, ReadAllocations, ReadEvents, db
  <2>1. TypeOK'
    BY DEF TypeOK
  <2>2. LocalTypeOK'
    <3>1. PICK s : IsSeen(s) /\ seen' = [seen EXCEPT ![p] = s]
      <4>1. CASE ReadLine(p)
        <5> WITNESS [NothingSeen EXCEPT !.initial = row[cur[p]].initial]
        <5> QED
          BY <4>1 DEF NothingSeen, IsSeen
      <4>2. CASE ReadAllocations(p)
        <5> WITNESS [seen[p] EXCEPT !.allocations = VisibleAllocations(p, cur[p])]
        <5> QED
          BY <4>2 DEF LocalTypeOK, IsSeen
      <4>3. CASE ReadEvents(p)
        <5> WITNESS [seen[p] EXCEPT !.events = VisibleEvents(p, cur[p])]
        <5> QED
          BY <4>3 DEF LocalTypeOK, IsSeen
      <4> QED
        BY <4>1, <4>2, <4>3
    <3>2. LocalTypeOK /\ UNCHANGED pending
      OBVIOUS
    <3> HIDE <1>5 DEF ReadLine, ReadAllocations, ReadEvents, TypeInv
    <3> QED
      BY <3>1, <3>2, LocalSeen DEF LocalTypeOK
  <2>3. ControlOK'
    BY DEF TypeOK, ControlOK, Recalculating, Over
  <2> QED
    BY <2>1, <2>2, <2>3
<1>6. ASSUME NEW p \in Requests, WriteRow(p)
      PROVE  TypeInv'
  <2> USE <1>6 DEF WriteRow, LockAndUpdate, db
  <2>0. cur[p] \in Lines /\ (req[p].op = "reallocation" =>
            req[p].target \in Lines /\ req[p].line # req[p].target)
    BY InputOf, Inputs DEF TypeOK
  <2>1. TypeOK'
    BY <2>0 DEF TypeOK
  <2>2. LocalTypeOK'
    <3>1. IsAmounts([Recalculated(p) EXCEPT !.initial = row[cur[p]].initial])
      BY <2>0 DEF Recalculated, AggregateBudgetLineAmounts, IsAmounts, TypeOK
    <3> QED
      BY <3>1, <2>0, LocalWritten
  <2>3. ControlOK'
    BY <2>0 DEF TypeOK, ControlOK, Recalculating, Over
  <2> QED
    BY <2>1, <2>2, <2>3
<1>7. ASSUME NEW p \in Requests, UpdateLine(p)
      PROVE  TypeInv'
  <2> USE <1>7 DEF UpdateLine, LockAndUpdate, db
  <2>0. cur[p] \in Lines /\ req[p].initial \in Int
    BY InputOf, Inputs DEF TypeOK, ControlOK
  <2>1. TypeOK'
    BY <2>0 DEF TypeOK
  <2>2. LocalTypeOK'
    <3> DEFINE left == req[p].initial - seen[p].committed - seen[p].consumed
               w == [row[cur[p]] EXCEPT !.initial = req[p].initial,
                                        !.remaining = IF left < 0 THEN 0 ELSE left]
    <3>1. IsAmounts(w)
      BY <2>0, SetAmounts DEF TypeOK
    <3>2. LockAndUpdate(p, cur[p], w)
      OBVIOUS
    <3> HIDE DEF w
    <3> QED
      BY <3>1, <3>2, <2>0, LocalWritten
  <2>3. ControlOK'
    BY <2>0 DEF TypeOK, ControlOK, Recalculating, Over
  <2> QED
    BY <2>1, <2>2, <2>3
<1>8. ASSUME NEW p \in Requests, Commit(p)
      PROVE  TypeInv'
  <2> USE <1>8 DEF Commit, End
  <2>1. TypeOK'
    <3>1. /\ events' \subseteq Movement
          /\ allocations' \subseteq [id: Requests, line: Lines, type: MovementTypes, amount: Nat]
      BY OwnMovements DEF TypeOK
    <3>2. row' = [l \in Lines |-> row'[l]] /\ \A l \in Lines : IsAmounts(row[l])'
      BY DEF TypeOK, LocalTypeOK, IsAmounts
    <3>3. overtaken' \in [Requests -> SUBSET Lines] /\ exact' \subseteq Lines
      BY OwnMovements DEF TypeOK
    <3> QED
      BY <3>1, <3>2, <3>3 DEF TypeOK
  <2>2. LocalTypeOK'
    BY LocalEnd
  <2>3. ControlOK'
    BY DEF TypeOK, ControlOK, Recalculating, Over
  <2> QED
    BY <2>1, <2>2, <2>3
<1>9. ASSUME NEW p \in Requests, Rollback(p)
      PROVE  TypeInv'
  <2> USE <1>9 DEF Rollback, End
  <2>1. TypeOK'
    BY DEF TypeOK
  <2>2. LocalTypeOK'
    BY LocalEnd
  <2>3. ControlOK'
    BY DEF TypeOK, ControlOK, Recalculating, Over
  <2> QED
    BY <2>1, <2>2, <2>3
<1>10. CASE LockBudget
  BY <1>10, LocalUnchanged DEF LockBudget, TypeOK, ControlOK
<1>11. CASE UNCHANGED vars
  BY <1>11, LocalUnchanged DEF vars, db, TypeOK, ControlOK, IsAmounts
<1> QED
  BY <1>1, <1>2, <1>3, <1>4, <1>5, <1>6, <1>7, <1>8, <1>9, <1>10, <1>11 DEF Next, Step

\* In every behaviour the tables, the requests and the rows keep their shape,
\* an allocation is never negative, and the control state of the services
\* agrees with the request they are serving.
THEOREM TypeCorrect == Spec => []TypeOK
<1>1. Spec => []TypeInv
  BY TypeInit, TypeStep, PTL DEF Spec
<1>2. TypeInv => TypeOK
  BY DEF TypeInv
<1> QED
  BY <1>1, <1>2, PTL

-------------------------------------------------------------------------------
(***************************************************************************)
(* Recalculations nobody overtakes are exact                               *)
(***************************************************************************)

\* A step of p other than a commit writes no table and is p's own business.
LEMMA Frame ==
    ASSUME TypeInv, NEW p \in Requests, (Step(p) /\ ~Commit(p)) \/ Rollback(p)
    PROVE  /\ UNCHANGED <<row, events, allocations, exact, budgetLocked>>
           /\ \A q \in Requests \ {p} :
                /\ req'[q] = req[q] /\ pc'[q] = pc[q] /\ cur'[q] = cur[q]
                /\ seen'[q] = seen[q] /\ held'[q] = held[q]
                /\ pending'[q] = pending[q] /\ overtaken'[q] = overtaken[q]
<1> USE DEF TypeInv, TypeOK, LocalTypeOK
<1>1. CASE CreateEvent(p)
  BY <1>1 DEF CreateEvent, Accept, db
<1>2. CASE CreateAllocation(p)
  BY <1>2 DEF CreateAllocation, Accept, db
<1>3. CASE CheckReallocation(p)
  BY <1>3 DEF CheckReallocation, Accept, db
<1>4. CASE ReadExisting(p)
  BY <1>4 DEF ReadExisting, Accept, db
<1>5. CASE ReadLine(p) \/ ReadAllocations(p) \/ ReadEvents(p)
  BY <1>5 DEF ReadLine, ReadAllocations, ReadEvents, db
<1>6. CASE WriteRow(p)
  BY <1>6 DEF WriteRow, LockAndUpdate, db
<1>7. CASE UpdateLine(p)
  BY <1>7 DEF UpdateLine, LockAndUpdate, db
<1>8. CASE Rollback(p)
  BY <1>8 DEF Rollback, End
<1> QED
  BY <1>1, <1>2, <1>3, <1>4, <1>5, <1>6, <1>7, <1>8 DEF Step

\* What a request sees depends on the tables and on its own input only.
LEMMA SameView ==
    ASSUME NEW q \in Requests, NEW l, UNCHANGED <<events, allocations>>, req'[q] = req[q]
    PROVE  /\ VisibleEvents(q, l)' = VisibleEvents(q, l)
           /\ VisibleAllocations(q, l)' = VisibleAllocations(q, l)
  BY DEF VisibleEvents, VisibleAllocations, OwnEvents, OwnAllocations, ReallocationEvents

\* The commit of p publishes exactly what p was seeing, and shows the other
\* requests nothing new on the lines it does not touch.
LEMMA CommitViews ==
    ASSUME TypeInv, NEW p \in Requests, Commit(p), NEW l \in Lines
    PROVE  /\ On(events', l) = VisibleEvents(p, l)
           /\ On(allocations', l) = VisibleAllocations(p, l)
           /\ l \notin Touched(p) =>
                /\ On(events', l) = On(events, l)
                /\ On(allocations', l) = On(allocations, l)
                /\ row'[l] = row[l]
                /\ \A q \in Requests \ {p} :
                      /\ VisibleEvents(q, l)' = VisibleEvents(q, l)
                      /\ VisibleAllocations(q, l)' = VisibleAllocations(q, l)
<1> USE DEF Commit, End
<1>1. /\ On(events', l) = VisibleEvents(p, l)
      /\ On(allocations', l) = VisibleAllocations(p, l)
  BY DEF VisibleEvents, VisibleAllocations
<1>2. ASSUME l \notin Touched(p)
      PROVE  \A m \in OwnEvents(p) \cup OwnAllocations(p) : m.line # l
  BY <1>2, OwnMovements DEF TypeInv
<1>3. ASSUME l \notin Touched(p)
      PROVE  /\ On(events', l) = On(events, l)
             /\ On(allocations', l) = On(allocations, l)
             /\ row'[l] = row[l]
  BY <1>2, <1>3 DEF On, Touched
<1>4. ASSUME l \notin Touched(p), NEW q \in Requests \ {p}
      PROVE  /\ VisibleEvents(q, l)' = VisibleEvents(q, l)
             /\ VisibleAllocations(q, l)' = VisibleAllocations(q, l)
  <2>1. OwnEvents(q)' = OwnEvents(q) /\ OwnAllocations(q)' = OwnAllocations(q)
    BY DEF OwnEvents, OwnAllocations, ReallocationEvents
  <2>2. On(events' \cup OwnEvents(q), l) = On(events \cup OwnEvents(q), l)
    BY <1>3, <1>4 DEF On
  <2>3. On(allocations' \cup OwnAllocations(q), l) = On(allocations \cup OwnAllocations(q), l)
    BY <1>3, <1>4 DEF On
  <2> QED
    BY <2>1, <2>2, <2>3 DEF VisibleEvents, VisibleAllocations
<1> QED
  BY <1>1, <1>3, <1>4

\* A request another one's step does not concern keeps what it has read and written.
LEMMA FrameCurrent ==
    ASSUME TypeInv, NEW q \in Requests, UNCHANGED <<row, events, allocations>>,
           req'[q] = req[q], pc'[q] = pc[q], cur'[q] = cur[q], seen'[q] = seen[q],
           held'[q] = held[q], pending'[q] = pending[q], overtaken'[q] = overtaken[q]
    PROVE  /\ SeenCurrentAt(q) => SeenCurrentAt(q)'
           /\ PendingCurrentAt(q) => PendingCurrentAt(q)'
<1>1. \A l : /\ VisibleEvents(q, l)' = VisibleEvents(q, l)
             /\ VisibleAllocations(q, l)' = VisibleAllocations(q, l)
  BY SameView
<1>2. SeenCurrentAt(q) => SeenCurrentAt(q)'
  BY <1>1 DEF SeenCurrentAt
<1>3. PendingCurrentAt(q) => PendingCurrentAt(q)'
  BY <1>1 DEF PendingCurrentAt
<1> QED
  BY <1>2, <1>3

\* A request p has just accepted has read nothing its recalculation relies on.
LEMMA AcceptCurrent ==
    ASSUME TypeInv, NEW p \in Requests, NEW r, NEW next \in {"readLine", "commit", "updateLine"},
           Accept(p, r, next)
    PROVE  SeenCurrentAt(p)' /\ PendingCurrentAt(p)'
<1>1. pc'[p] = next /\ held'[p] = {}
  BY DEF Accept, TypeInv, TypeOK, ControlOK, Over
<1> QED
  BY <1>1 DEF SeenCurrentAt, PendingCurrentAt

\* The statements of p's own transaction keep what it has read and written current.
LEMMA OwnStep ==
    ASSUME TypeInv, NEW p \in Requests, SeenCurrentAt(p), PendingCurrentAt(p),
           (Step(p) /\ ~Commit(p)) \/ Rollback(p)
    PROVE  SeenCurrentAt(p)' /\ PendingCurrentAt(p)'
<1> USE DEF TypeInv
<1>0. UNCHANGED <<row, events, allocations>>
  BY Frame
<1>1. CASE CreateEvent(p)
  BY <1>1, AcceptCurrent DEF CreateEvent
<1>2. CASE CreateAllocation(p)
  BY <1>2, AcceptCurrent DEF CreateAllocation
<1>3. CASE CheckReallocation(p)
  BY <1>3, AcceptCurrent DEF CheckReallocation
<1>4. CASE ReadExisting(p)
  BY <1>4, AcceptCurrent DEF ReadExisting
<1>5. ASSUME UNCHANGED req
      PROVE  \A l : /\ VisibleEvents(p, l)' = VisibleEvents(p, l)
                    /\ VisibleAllocations(p, l)' = VisibleAllocations(p, l)
  BY <1>0, <1>5, SameView
<1>6. CASE ReadLine(p) \/ ReadAllocations(p) \/ ReadEvents(p)
  <2>1. UNCHANGED <<req, cur, held, pending>>
    BY <1>6 DEF ReadLine, ReadAllocations, ReadEvents
  <2>2. SeenCurrentAt(p)'
    <3>1. CASE ReadLine(p)
      <4>1. pc'[p] = "readAllocations" /\ seen'[p].initial = row[cur[p]].initial
        BY <3>1 DEF ReadLine, TypeOK, LocalTypeOK, NothingSeen
      <4> QED
        BY <4>1, <2>1, <1>0 DEF SeenCurrentAt
    <3>2. CASE ReadAllocations(p)
      <4>1. /\ pc[p] = "readAllocations" /\ pc'[p] = "readEvents"
            /\ seen'[p].allocations = VisibleAllocations(p, cur[p])
            /\ seen'[p].initial = seen[p].initial
            /\ UNCHANGED overtaken
        BY <3>2 DEF ReadAllocations, TypeOK, LocalTypeOK, IsSeen
      <4> QED
        BY <4>1, <2>1, <1>0, <1>5 DEF SeenCurrentAt
    <3>3. CASE ReadEvents(p)
      <4>1. /\ pc[p] = "readEvents" /\ pc'[p] = "writeRow"
            /\ seen'[p].events = VisibleEvents(p, cur[p])
            /\ seen'[p].allocations = seen[p].allocations
            /\ seen'[p].initial = seen[p].initial
            /\ UNCHANGED overtaken
        BY <3>3 DEF ReadEvents, TypeOK, LocalTypeOK, IsSeen
      <4> QED
        BY <4>1, <2>1, <1>0, <1>5 DEF SeenCurrentAt
    <3> QED
      BY <1>6, <3>1, <3>2, <3>3
  <2>3. held'[p] \ overtaken'[p] \subseteq held[p] \ overtaken[p]
    BY <1>6, <2>1 DEF ReadLine, ReadAllocations, ReadEvents, TypeOK, ControlOK, Recalculating
  <2>4. PendingCurrentAt(p)'
    BY <2>1, <2>3, <1>0, <1>5 DEF PendingCurrentAt
  <2> QED
    BY <2>2, <2>4
<1>7. CASE WriteRow(p)
  <2> DEFINE l == cur[p]
             w == [Recalculated(p) EXCEPT !.initial = row[l].initial]
  <2>1. /\ pc[p] = "writeRow" /\ pc'[p] \in {"readLine", "commit"}
        /\ held'[p] = held[p] \cup {l} /\ l \notin held[p] /\ l \in Lines
        /\ pending'[p] = [pending[p] EXCEPT ![l] = w]
        /\ UNCHANGED <<req, overtaken>>
    BY <1>7 DEF WriteRow, LockAndUpdate, TypeOK, LocalTypeOK, ControlOK, Recalculating
  <2>2. SeenCurrentAt(p)'
    BY <2>1 DEF SeenCurrentAt
  <2>3. ASSUME l \notin overtaken[p]
        PROVE  w = AggregateBudgetLineAmounts(row[l].initial, VisibleEvents(p, l),
                                              VisibleAllocations(p, l))
    <3>1. Recalculated(p) = AggregateBudgetLineAmounts(row[l].initial, VisibleEvents(p, l),
                                                       VisibleAllocations(p, l))
      BY <2>1, <2>3 DEF SeenCurrentAt, Recalculated
    <3> QED
      BY <3>1 DEF AggregateBudgetLineAmounts
  <2>4. pending'[p][l] = w /\ \A k \in held[p] : pending'[p][k] = pending[p][k]
    BY <2>1 DEF LocalTypeOK, TypeOK
  <2> HIDE DEF w
  <2>5. PendingCurrentAt(p)'
    BY <2>1, <2>3, <2>4, <1>0, <1>5 DEF PendingCurrentAt
  <2> QED
    BY <2>2, <2>5
<1>8. CASE UpdateLine(p)
  <2>1. pc'[p] = "commit" /\ req'[p].op = "update"
    BY <1>8 DEF UpdateLine, TypeOK, ControlOK
  <2> QED
    BY <2>1 DEF SeenCurrentAt, PendingCurrentAt
<1>9. CASE Rollback(p)
  <2>1. pc'[p] = "failed" /\ held'[p] = {}
    BY <1>9 DEF Rollback, End, TypeOK
  <2> QED
    BY <2>1 DEF SeenCurrentAt, PendingCurrentAt
<1> QED
  BY <1>1, <1>2, <1>3, <1>4, <1>6, <1>7, <1>8, <1>9 DEF Step

\* A commit that leaves a request's line alone leaves what it has read current.
LEMMA CommitCurrent ==
    ASSUME TypeInv, SeenCurrent, PendingCurrent, NEW p \in Requests, Commit(p),
           NEW q \in Requests
    PROVE  SeenCurrentAt(q)' /\ PendingCurrentAt(q)'
<1> USE DEF TypeInv
<1>1. CASE q = p
  <2>1. pc'[q] = "committed" /\ held'[q] = {}
    BY <1>1 DEF Commit, End, TypeOK
  <2> QED
    BY <2>1 DEF SeenCurrentAt, PendingCurrentAt
<1>2. CASE q # p
  <2>1. /\ pc'[q] = pc[q] /\ req'[q] = req[q] /\ cur'[q] = cur[q]
        /\ seen'[q] = seen[q] /\ held'[q] = held[q] /\ pending'[q] = pending[q]
    BY <1>2 DEF Commit, End, TypeOK, LocalTypeOK
  <2>2. CASE pc[q] \in Over
    <3>1. pc'[q] \in Over /\ held'[q] = {}
      BY <2>1, <2>2 DEF ControlOK
    <3> QED
      BY <3>1 DEF SeenCurrentAt, PendingCurrentAt, Over
  <2>3. CASE pc[q] \notin Over
    <3>1. overtaken'[q] = overtaken[q] \cup Touched(p)
      BY <1>2, <2>3 DEF Commit, Over
    <3>2. \A l \in Lines \ Touched(p) :
            /\ row'[l] = row[l]
            /\ VisibleEvents(q, l)' = VisibleEvents(q, l)
            /\ VisibleAllocations(q, l)' = VisibleAllocations(q, l)
      BY <1>2, CommitViews
    <3>3. cur[q] \in Lines /\ held[q] \subseteq Lines
      BY DEF TypeOK
    <3>4. SeenCurrentAt(q)'
      BY <2>1, <3>1, <3>2, <3>3 DEF SeenCurrentAt, SeenCurrent
    <3>5. PendingCurrentAt(q)'
      BY <2>1, <3>1, <3>2, <3>3 DEF PendingCurrentAt, PendingCurrent
    <3> QED
      BY <3>4, <3>5
  <2> QED
    BY <2>2, <2>3
<1> QED
  BY <1>1, <1>2

LEMMA CurrentStep ==
    ASSUME TypeInv, SeenCurrent, PendingCurrent, [Next]_vars
    PROVE  SeenCurrent' /\ PendingCurrent'
<1> SUFFICES ASSUME NEW q \in Requests
             PROVE  SeenCurrentAt(q)' /\ PendingCurrentAt(q)'
  BY DEF SeenCurrent, PendingCurrent
<1>0. SeenCurrentAt(q) /\ PendingCurrentAt(q)
  BY DEF SeenCurrent, PendingCurrent
<1>1. ASSUME NEW p \in Requests, Commit(p)
      PROVE  SeenCurrentAt(q)' /\ PendingCurrentAt(q)'
  BY <1>1, CommitCurrent
<1>2. ASSUME NEW p \in Requests, (Step(p) /\ ~Commit(p)) \/ Rollback(p)
      PROVE  SeenCurrentAt(q)' /\ PendingCurrentAt(q)'
  <2>1. CASE q = p
    BY <1>0, <1>2, <2>1, OwnStep
  <2>2. CASE q # p
    BY <1>0, <1>2, <2>2, Frame, FrameCurrent
  <2> QED
    BY <2>1, <2>2
<1>3. CASE LockBudget \/ UNCHANGED vars
  BY <1>0, <1>3, FrameCurrent DEF LockBudget, vars
<1> QED
  BY <1>1, <1>2, <1>3 DEF Next

\* A committed recalculation that nobody overtook is exact, and a line nobody
\* commits on stays so.
LEMMA ExactStep ==
    ASSUME TypeInv, PendingCurrent, ExactLinesMatch, [Next]_vars
    PROVE  ExactLinesMatch'
<1>1. CASE UNCHANGED <<row, events, allocations, exact>>
  BY <1>1 DEF ExactLinesMatch
<1>2. ASSUME NEW p \in Requests, Commit(p)
      PROVE  ExactLinesMatch'
  <2> SUFFICES ASSUME NEW l \in exact'
               PROVE  row'[l] = AggregateBudgetLineAmounts(row'[l].initial, On(events', l),
                                                           On(allocations', l))
    BY DEF ExactLinesMatch
  <2>1. l \in Lines
    BY <1>2, TypeStep DEF TypeInv, TypeOK
  <2>2. CASE l \in exact \ Touched(p)
    BY <1>2, <2>1, <2>2, CommitViews DEF ExactLinesMatch
  <2>3. CASE l \notin exact \ Touched(p)
    <3>1. req[p].op # "update" /\ l \in held[p] \ overtaken[p]
      BY <1>2, <2>3 DEF Commit
    <3>2. row'[l] = pending[p][l]
      BY <1>2, <2>1, <3>1 DEF Commit
    <3>3. row'[l] = AggregateBudgetLineAmounts(row[l].initial, On(events', l),
                                               On(allocations', l))
      BY <1>2, <2>1, <3>1, <3>2, CommitViews DEF PendingCurrent, PendingCurrentAt
    <3> QED
      BY <3>3 DEF AggregateBudgetLineAmounts
  <2> QED
    BY <2>2, <2>3
<1>3. LockBudget \/ UNCHANGED vars => UNCHANGED <<row, events, allocations, exact>>
  BY DEF LockBudget, vars
<1> QED
  BY <1>1, <1>2, <1>3, Frame DEF Next

\* Whatever interleaves, and whatever is rolled back, a line last written by a
\* recalculation nobody overtook holds exactly the sums of its movements.
THEOREM ExactLines == Spec => []ExactLinesMatch
<1>1. Init => IInv
  <2> SUFFICES ASSUME Init PROVE IInv
    OBVIOUS
  <2>1. SeenCurrent /\ PendingCurrent
    BY DEF Init, SeenCurrent, SeenCurrentAt, PendingCurrent, PendingCurrentAt
  <2>2. \A l \in Lines : row[l] = AggregateBudgetLineAmounts(InitialAmount, {}, {})
    BY DEF Init, InitialRow
  <2>3. \A l : On({}, l) = {}
    BY DEF On
  <2>4. ExactLinesMatch
    BY <2>2, <2>3 DEF ExactLinesMatch, Init, AggregateBudgetLineAmounts
  <2> QED
    BY <2>1, <2>4, TypeInit DEF IInv
<1>2. IInv /\ [Next]_vars => IInv'
  BY TypeStep, CurrentStep, ExactStep DEF IInv
<1>3. IInv => ExactLinesMatch
  BY DEF IInv
<1> QED
  BY <1>1, <1>2, <1>3, PTL DEF Spec

-------------------------------------------------------------------------------
(***************************************************************************)
(* Stored amounts come from committed movements                            *)
(***************************************************************************)

\* Amounts that are sums of some movements are sums of some of a larger set,
\* and only the three derived columns matter.
LEMMA SourcedMore ==
    ASSUME NEW r, NEW s, NEW evs, NEW allocs, NEW evs2, NEW allocs2,
           Sourced(r, evs, allocs), evs \subseteq evs2, allocs \subseteq allocs2,
           s.forecast = r.forecast, s.committed = r.committed, s.consumed = r.consumed
    PROVE  Sourced(s, evs2, allocs2)
<1>1. PICK e \in SUBSET evs, a \in SUBSET allocs :
          /\ r.forecast = Forecast(a)
          /\ r.committed = Committed(e, a)
          /\ r.consumed = Consumed(e, a)
  BY DEF Sourced
<1>2. e \in SUBSET evs2 /\ a \in SUBSET allocs2
  OBVIOUS
<1> QED
  BY <1>1, <1>2 DEF Sourced

\* The aggregate of some movements comes from them.
LEMMA AggregateSourced ==
    ASSUME NEW i, NEW evs, NEW allocs, NEW j
    PROVE  Sourced([AggregateBudgetLineAmounts(i, evs, allocs) EXCEPT !.initial = j], evs, allocs)
  BY DEF Sourced, AggregateBudgetLineAmounts

LEMMA CommittedSourced ==
    AmountsFromCommitted <=>
        \A l \in Lines : Sourced(row[l], On(events, l), On(allocations, l))
  BY DEF AmountsFromCommitted, Sourced

\* What is committed is visible to everyone.
LEMMA CommittedVisible ==
    ASSUME NEW p, NEW l
    PROVE  /\ On(events, l) \subseteq VisibleEvents(p, l)
           /\ On(allocations, l) \subseteq VisibleAllocations(p, l)
  BY DEF On, VisibleEvents, VisibleAllocations

\* If what q sees only grows, and q does nothing, what it has read and written
\* still comes from what it sees.
LEMMA FrameSourced ==
    ASSUME NEW q \in Requests, pc'[q] = pc[q], cur'[q] = cur[q], seen'[q] = seen[q],
           held'[q] = held[q], pending'[q] = pending[q],
           \A l : /\ VisibleEvents(q, l) \subseteq VisibleEvents(q, l)'
                  /\ VisibleAllocations(q, l) \subseteq VisibleAllocations(q, l)',
           SeenSourcedAt(q), PendingSourcedAt(q)
    PROVE  SeenSourcedAt(q)' /\ PendingSourcedAt(q)'
<1>1. SeenSourcedAt(q)'
  BY DEF SeenSourcedAt
<1>2. ASSUME NEW l \in held[q]
      PROVE  Sourced(pending'[q][l], VisibleEvents(q, l)', VisibleAllocations(q, l)')
  BY <1>2, SourcedMore DEF PendingSourcedAt
<1>3. PendingSourcedAt(q)'
  BY <1>2 DEF PendingSourcedAt, Sourced
<1> QED
  BY <1>1, <1>3

LEMMA AcceptSourced ==
    ASSUME TypeInv, NEW p \in Requests, NEW r, NEW next \in {"readLine", "commit", "updateLine"},
           Accept(p, r, next)
    PROVE  SeenSourcedAt(p)' /\ PendingSourcedAt(p)'
<1>1. pc'[p] = next /\ held'[p] = {}
  BY DEF Accept, TypeInv, TypeOK, ControlOK, Over
<1> QED
  BY <1>1 DEF SeenSourcedAt, PendingSourcedAt

\* An UPDATE of amounts that come from what p sees keeps p's writes sourced.
LEMMA WriteSourced ==
    ASSUME TypeInv, NEW p \in Requests, NEW l \in Lines, NEW w, LockAndUpdate(p, l, w),
           UNCHANGED <<events, allocations, req>>, PendingSourcedAt(p),
           Sourced(w, VisibleEvents(p, l), VisibleAllocations(p, l))
    PROVE  PendingSourcedAt(p)'
<1>1. \A k : /\ VisibleEvents(p, k)' = VisibleEvents(p, k)
             /\ VisibleAllocations(p, k)' = VisibleAllocations(p, k)
  BY SameView
<1>2. held'[p] = held[p] \cup {l} /\ held[p] \subseteq Lines
  BY DEF LockAndUpdate, TypeInv, TypeOK
<1>3. pending'[p][l] = w /\ \A k \in Lines \ {l} : pending'[p][k] = pending[p][k]
  BY DEF LockAndUpdate, TypeInv, LocalTypeOK
<1>4. ASSUME NEW k \in held'[p]
      PROVE  Sourced(pending'[p][k], VisibleEvents(p, k)', VisibleAllocations(p, k)')
  BY <1>1, <1>2, <1>3 DEF PendingSourcedAt
<1> QED
  BY <1>4 DEF PendingSourcedAt, Sourced

LEMMA OwnSourced ==
    ASSUME TypeInv, AmountsFromCommitted, NEW p \in Requests,
           SeenSourcedAt(p), PendingSourcedAt(p), (Step(p) /\ ~Commit(p)) \/ Rollback(p)
    PROVE  SeenSourcedAt(p)' /\ PendingSourcedAt(p)'
<1> USE DEF TypeInv
<1>0. UNCHANGED <<row, events, allocations>>
  BY Frame
<1>1. CASE CreateEvent(p)
  BY <1>1, AcceptSourced DEF CreateEvent
<1>2. CASE CreateAllocation(p)
  BY <1>2, AcceptSourced DEF CreateAllocation
<1>3. CASE CheckReallocation(p)
  BY <1>3, AcceptSourced DEF CheckReallocation
<1>4. CASE ReadExisting(p)
  BY <1>4, AcceptSourced DEF ReadExisting
<1>5. ASSUME UNCHANGED req
      PROVE  \A l : /\ VisibleEvents(p, l)' = VisibleEvents(p, l)
                    /\ VisibleAllocations(p, l)' = VisibleAllocations(p, l)
  BY <1>0, <1>5, SameView
<1>6. CASE ReadLine(p) \/ ReadAllocations(p) \/ ReadEvents(p)
  <2>1. UNCHANGED <<req, cur, held, pending>>
    BY <1>6 DEF ReadLine, ReadAllocations, ReadEvents
  <2>2. SeenSourcedAt(p)'
    <3>1. CASE ReadLine(p)
      <4>1. pc'[p] = "readAllocations"
        BY <3>1 DEF ReadLine, TypeOK
      <4> QED
        BY <4>1 DEF SeenSourcedAt
    <3>2. CASE ReadAllocations(p)
      <4>1. /\ pc'[p] = "readEvents"
            /\ seen'[p].allocations = VisibleAllocations(p, cur[p])
        BY <3>2 DEF ReadAllocations, TypeOK, LocalTypeOK, IsSeen
      <4> QED
        BY <4>1, <2>1, <1>5 DEF SeenSourcedAt
    <3>3. CASE ReadEvents(p)
      <4>1. /\ pc[p] = "readEvents" /\ pc'[p] = "writeRow"
            /\ seen'[p].events = VisibleEvents(p, cur[p])
            /\ seen'[p].allocations = seen[p].allocations
        BY <3>3 DEF ReadEvents, TypeOK, LocalTypeOK, IsSeen
      <4> QED
        BY <4>1, <2>1, <1>5 DEF SeenSourcedAt
    <3> QED
      BY <1>6, <3>1, <3>2, <3>3
  <2>3. PendingSourcedAt(p)'
    BY <2>1, <1>5 DEF PendingSourcedAt, Sourced
  <2> QED
    BY <2>2, <2>3
<1>7. CASE WriteRow(p)
  <2> DEFINE l == cur[p]
             w == [Recalculated(p) EXCEPT !.initial = row[l].initial]
  <2>1. /\ pc[p] = "writeRow" /\ pc'[p] \in {"readLine", "commit"}
        /\ l \in Lines /\ LockAndUpdate(p, l, w) /\ UNCHANGED req
    BY <1>7 DEF WriteRow, TypeOK
  <2>2. SeenSourcedAt(p)'
    BY <2>1 DEF SeenSourcedAt
  <2>3. Sourced(w, seen[p].events, seen[p].allocations)
    BY AggregateSourced DEF Recalculated
  <2> HIDE DEF w
  <2>4. Sourced(w, VisibleEvents(p, l), VisibleAllocations(p, l))
    BY <2>1, <2>3, SourcedMore DEF SeenSourcedAt
  <2> QED
    BY <2>1, <2>2, <2>4, <1>0, WriteSourced
<1>8. CASE UpdateLine(p)
  <2> DEFINE l == cur[p]
             left == req[p].initial - seen[p].committed - seen[p].consumed
             w == [row[l] EXCEPT !.initial = req[p].initial,
                                 !.remaining = IF left < 0 THEN 0 ELSE left]
  <2>1. /\ pc'[p] = "commit" /\ l \in Lines /\ LockAndUpdate(p, l, w) /\ UNCHANGED req
    BY <1>8 DEF UpdateLine, TypeOK
  <2>2. SeenSourcedAt(p)'
    BY <2>1 DEF SeenSourcedAt
  <2>3. /\ w.forecast = row[l].forecast /\ w.committed = row[l].committed
        /\ w.consumed = row[l].consumed
    <3> HIDE DEF left
    <3> QED
      BY <2>1 DEF TypeOK, IsAmounts
  <2> HIDE DEF w
  <2>4. Sourced(w, VisibleEvents(p, l), VisibleAllocations(p, l))
    BY <2>1, <2>3, CommittedSourced, CommittedVisible, SourcedMore
  <2> QED
    BY <2>1, <2>2, <2>4, <1>0, WriteSourced
<1>9. CASE Rollback(p)
  <2>1. pc'[p] = "failed" /\ held'[p] = {}
    BY <1>9 DEF Rollback, End, TypeOK
  <2> QED
    BY <2>1 DEF SeenSourcedAt, PendingSourcedAt
<1> QED
  BY <1>1, <1>2, <1>3, <1>4, <1>6, <1>7, <1>8, <1>9 DEF Step

LEMMA CommitSourced ==
    ASSUME SourceInv, NEW p \in Requests, Commit(p)
    PROVE  SeenSourced' /\ PendingSourced' /\ AmountsFromCommitted'
<1> USE DEF SourceInv, TypeInv
<1>1. ASSUME NEW q \in Requests
      PROVE  SeenSourcedAt(q)' /\ PendingSourcedAt(q)'
  <2>1. CASE q = p
    <3>1. pc'[q] = "committed" /\ held'[q] = {}
      BY <2>1 DEF Commit, End, TypeOK
    <3> QED
      BY <3>1 DEF SeenSourcedAt, PendingSourcedAt
  <2>2. CASE q # p
    <3>1. /\ pc'[q] = pc[q] /\ req'[q] = req[q] /\ cur'[q] = cur[q]
          /\ seen'[q] = seen[q] /\ held'[q] = held[q] /\ pending'[q] = pending[q]
      BY <2>2 DEF Commit, End, TypeOK, LocalTypeOK
    <3>2. OwnEvents(q)' = OwnEvents(q) /\ OwnAllocations(q)' = OwnAllocations(q)
      BY <3>1 DEF OwnEvents, OwnAllocations, ReallocationEvents
    <3>3. events \subseteq events' /\ allocations \subseteq allocations'
      BY DEF Commit
    <3>4. \A l : /\ VisibleEvents(q, l) \subseteq VisibleEvents(q, l)'
                 /\ VisibleAllocations(q, l) \subseteq VisibleAllocations(q, l)'
      BY <3>2, <3>3 DEF VisibleEvents, VisibleAllocations, On
    <3> QED
      BY <3>1, <3>4, FrameSourced DEF SeenSourced, PendingSourced
  <2> QED
    BY <2>1, <2>2
<1>2. ASSUME NEW l \in Lines
      PROVE  Sourced(row'[l], On(events', l), On(allocations', l))
  <2>1. /\ On(events', l) = VisibleEvents(p, l)
        /\ On(allocations', l) = VisibleAllocations(p, l)
    BY CommitViews
  <2>2. CASE l \in held[p]
    <3>1. row'[l] = pending[p][l]
      BY <2>2 DEF Commit
    <3> QED
      BY <2>1, <2>2, <3>1 DEF PendingSourced, PendingSourcedAt
  <2>3. CASE l \notin held[p]
    <3>1. row'[l] = row[l]
      BY <2>3 DEF Commit
    <3> QED
      BY <2>1, <3>1, CommittedSourced, CommittedVisible, SourcedMore
  <2> QED
    BY <2>2, <2>3
<1>3. AmountsFromCommitted'
  BY <1>2 DEF AmountsFromCommitted, Sourced
<1> QED
  BY <1>1, <1>3 DEF SeenSourced, PendingSourced

LEMMA SourceStep == SourceInv /\ [Next]_vars => SourceInv'
<1> SUFFICES ASSUME SourceInv, [Next]_vars PROVE SourceInv'
  OBVIOUS
<1>0. TypeInv'
  BY TypeStep DEF SourceInv
<1>1. ASSUME NEW p \in Requests, Commit(p)
      PROVE  SourceInv'
  BY <1>0, <1>1, CommitSourced DEF SourceInv
<1>2. ASSUME NEW p \in Requests, (Step(p) /\ ~Commit(p)) \/ Rollback(p)
      PROVE  SourceInv'
  <2>1. UNCHANGED <<row, events, allocations>>
    BY <1>2, Frame DEF SourceInv
  <2>2. AmountsFromCommitted'
    BY <2>1 DEF AmountsFromCommitted, SourceInv
  <2>3. SeenSourcedAt(p)' /\ PendingSourcedAt(p)'
    BY <1>2, OwnSourced DEF SourceInv, SeenSourced, PendingSourced
  <2>4. ASSUME NEW q \in Requests \ {p}
        PROVE  SeenSourcedAt(q)' /\ PendingSourcedAt(q)'
    <3>1. /\ pc'[q] = pc[q] /\ req'[q] = req[q] /\ cur'[q] = cur[q]
          /\ seen'[q] = seen[q] /\ held'[q] = held[q] /\ pending'[q] = pending[q]
      BY <1>2, <2>4, Frame DEF SourceInv
    <3>2. \A l : /\ VisibleEvents(q, l)' = VisibleEvents(q, l)
                 /\ VisibleAllocations(q, l)' = VisibleAllocations(q, l)
      BY <2>1, <3>1, SameView
    <3> QED
      BY <3>1, <3>2, FrameSourced DEF SourceInv, SeenSourced, PendingSourced
  <2> QED
    BY <1>0, <2>2, <2>3, <2>4 DEF SourceInv, SeenSourced, PendingSourced
<1>3. CASE LockBudget \/ UNCHANGED vars
  <2>1. UNCHANGED <<row, events, allocations, pc, req, cur, seen, held, pending>>
    BY <1>3 DEF LockBudget, vars
  <2>2. \A q \in Requests : \A l : /\ VisibleEvents(q, l)' = VisibleEvents(q, l)
                                  /\ VisibleAllocations(q, l)' = VisibleAllocations(q, l)
    BY <2>1, SameView
  <2>3. SeenSourced' /\ PendingSourced'
    BY <2>1, <2>2, FrameSourced DEF SourceInv, SeenSourced, PendingSourced
  <2>4. AmountsFromCommitted'
    BY <2>1 DEF AmountsFromCommitted, SourceInv
  <2> QED
    BY <1>0, <2>3, <2>4 DEF SourceInv
<1> QED
  BY <1>1, <1>2, <1>3 DEF Next

\* Lost updates may leave a stored amount stale, but never wrong money: it is
\* always a sum of committed movements of its line, whatever is rolled back.
THEOREM AmountsSourced == Spec => []AmountsFromCommitted
<1>1. Init => SourceInv
  <2> SUFFICES ASSUME Init PROVE SourceInv
    OBVIOUS
  <2>1. SeenSourced /\ PendingSourced
    BY DEF Init, SeenSourced, SeenSourcedAt, PendingSourced, PendingSourcedAt
  <2>2. \A l \in Lines : row[l] = AggregateBudgetLineAmounts(InitialAmount, {}, {})
    BY DEF Init, InitialRow
  <2>3. AmountsFromCommitted
    BY <2>2 DEF AmountsFromCommitted, AggregateBudgetLineAmounts
  <2> QED
    BY <2>1, <2>3, TypeInit DEF SourceInv
<1>2. SourceInv => AmountsFromCommitted
  BY DEF SourceInv
<1> QED
  BY <1>1, <1>2, SourceStep, PTL DEF Spec

-------------------------------------------------------------------------------
(***************************************************************************)
(* A locked budget                                                         *)
(***************************************************************************)

LEMMA LocksStep ==
    ASSUME TypeInv, LocksExclusive, [Next]_vars
    PROVE  LocksExclusive'
<1> USE DEF TypeInv
<1>1. ASSUME NEW p \in Requests, NEW l \in Lines, NEW w, LockAndUpdate(p, l, w)
      PROVE  LocksExclusive'
  BY <1>1 DEF LockAndUpdate, LocksExclusive, LockedFor, TypeOK
<1>2. ASSUME NEW p \in Requests, NEW outcome, End(p, outcome)
      PROVE  LocksExclusive'
  BY <1>2 DEF End, LocksExclusive, TypeOK
<1>3. CASE UNCHANGED held
  BY <1>3 DEF LocksExclusive
<1>4. ASSUME NEW p \in Requests, WriteRow(p) \/ UpdateLine(p)
      PROVE  LocksExclusive'
  BY <1>1, <1>4 DEF WriteRow, UpdateLine, TypeOK
<1>5. ASSUME NEW p \in Requests, Commit(p) \/ Rollback(p)
      PROVE  LocksExclusive'
  BY <1>2, <1>5 DEF Commit, Rollback
<1>6. ASSUME NEW p \in Requests, Step(p), ~WriteRow(p), ~UpdateLine(p), ~Commit(p)
      PROVE  UNCHANGED held
  BY <1>6 DEF Step, CreateEvent, CreateAllocation, CheckReallocation, ReadExisting, Accept,
     ReadLine, ReadAllocations, ReadEvents
<1>7. LockBudget \/ UNCHANGED vars => UNCHANGED held
  BY DEF LockBudget, vars
<1> QED
  BY <1>3, <1>4, <1>5, <1>6, <1>7 DEF Next

LEMMA InitialStep ==
    ASSUME LockInv, [Next]_vars
    PROVE  InitialKept'
<1> USE DEF LockInv, TypeInv
<1> SUFFICES ASSUME NEW q \in Requests, NEW l \in held'[q], req'[q].op # "update"
             PROVE  pending'[q][l].initial = row'[l].initial
  BY DEF InitialKept
<1>1. ASSUME NEW p \in Requests, Commit(p)
      PROVE  pending'[q][l].initial = row'[l].initial
  <2>1. q # p /\ held'[q] = held[q] /\ req'[q] = req[q] /\ pending'[q] = pending[q]
    BY <1>1 DEF Commit, End, TypeOK, LocalTypeOK
  <2>2. l \in Lines /\ l \notin held[p]
    BY <2>1 DEF LocksExclusive, TypeOK
  <2>3. row'[l] = row[l]
    BY <1>1, <2>2 DEF Commit
  <2> QED
    BY <2>1, <2>3 DEF InitialKept
<1>2. ASSUME NEW p \in Requests, (Step(p) /\ ~Commit(p)) \/ Rollback(p)
      PROVE  pending'[q][l].initial = row'[l].initial
  <2>0. UNCHANGED row
    BY <1>2, Frame
  <2>1. CASE q # p
    BY <1>2, <2>0, <2>1, Frame DEF InitialKept
  <2>2. CASE q = p /\ WriteRow(p)
    <3> DEFINE w == [Recalculated(p) EXCEPT !.initial = row[cur[p]].initial]
    <3>1. /\ held'[q] = held[q] \cup {cur[p]} /\ cur[p] \in Lines /\ UNCHANGED req
          /\ pending'[q] = [pending[q] EXCEPT ![cur[p]] = w]
      BY <2>2 DEF WriteRow, LockAndUpdate, TypeOK, LocalTypeOK
    <3>2. w.initial = row[cur[p]].initial
      BY DEF Recalculated, AggregateBudgetLineAmounts
    <3>3. pending'[q][cur[p]] = w /\ \A k \in Lines \ {cur[p]} : pending'[q][k] = pending[q][k]
      BY <3>1 DEF LocalTypeOK
    <3> HIDE DEF w
    <3>4. CASE l = cur[p]
      BY <2>0, <3>2, <3>3, <3>4
    <3>5. CASE l # cur[p]
      <4>1. l \in held[q] /\ l \in Lines /\ req[q].op # "update"
        BY <3>1, <3>5 DEF TypeOK
      <4>2. pending'[q][l] = pending[q][l]
        BY <3>3, <3>5, <4>1
      <4>3. pending[q][l].initial = row[l].initial
        BY <4>1 DEF InitialKept
      <4> QED
        BY <2>0, <4>2, <4>3
    <3> QED
      BY <3>4, <3>5
  <2>3. CASE q = p /\ UpdateLine(p)
    <3>1. UNCHANGED req /\ req[p].op = "update"
      BY <2>3 DEF UpdateLine, ControlOK
    <3> QED
      BY <2>3, <3>1
  <2>4. CASE q = p /\ (ReadLine(p) \/ ReadAllocations(p) \/ ReadEvents(p))
    <3>1. UNCHANGED <<req, held, pending>>
      BY <2>4 DEF ReadLine, ReadAllocations, ReadEvents
    <3> QED
      BY <2>0, <3>1 DEF InitialKept
  <2>5. CASE q = p /\ Rollback(p)
    BY <2>5 DEF Rollback, End, TypeOK
  <2>6. ASSUME q = p, NEW r, NEW next, Accept(p, r, next)
        PROVE  FALSE
    BY <2>6 DEF Accept, TypeOK, ControlOK, Over
  <2>7. CASE q = p /\ (CreateEvent(p) \/ CreateAllocation(p) \/ CheckReallocation(p)
                         \/ ReadExisting(p))
    BY <2>6, <2>7 DEF CreateEvent, CreateAllocation, CheckReallocation, ReadExisting
  <2> QED
    BY <1>2, <2>1, <2>2, <2>3, <2>4, <2>5, <2>7 DEF Step
<1>3. CASE LockBudget \/ UNCHANGED vars
  BY <1>3 DEF LockBudget, vars, InitialKept
<1> QED
  BY <1>1, <1>2, <1>3 DEF Next

LEMMA DrainedStep ==
    ASSUME LockInv, [Next]_vars, budgetLocked, Drained
    PROVE  Drained' /\ \A l \in Lines : row'[l].initial = row[l].initial
<1> USE DEF LockInv, TypeInv
<1>1. ASSUME NEW p \in Requests, Step(p) \/ Rollback(p)
      PROVE  \/ InTransaction(p) /\ req' = req
             \/ \E r \in EventRequest \cup AllocationRequest : req' = [req EXCEPT ![p] = r]
  <2>1. CASE CreateEvent(p) \/ CreateAllocation(p)
    BY <2>1 DEF CreateEvent, CreateAllocation, Accept
  <2>2. ~CheckReallocation(p) /\ ~ReadExisting(p)
    BY DEF CheckReallocation, ReadExisting
  <2>3. CASE \/ ReadLine(p) \/ ReadAllocations(p) \/ ReadEvents(p) \/ WriteRow(p)
             \/ UpdateLine(p) \/ Commit(p) \/ Rollback(p)
    BY <2>3 DEF ReadLine, ReadAllocations, ReadEvents, WriteRow, UpdateLine, Commit, Rollback,
       End, InTransaction
  <2> QED
    BY <1>1, <2>1, <2>2, <2>3 DEF Step
<1>2. ASSUME NEW p \in Requests, Step(p) \/ Rollback(p)
      PROVE  Drained'
  <2>1. \A q \in Requests \ {p} : pc'[q] = pc[q]
    BY <1>2, Frame DEF Commit, End, TypeOK
  <2>2. CASE InTransaction(p) /\ req' = req
    BY <2>1, <2>2 DEF Drained, InTransaction
  <2>3. ASSUME NEW r \in EventRequest \cup AllocationRequest, req' = [req EXCEPT ![p] = r]
        PROVE  Drained'
    <3>1. req'[p].op \notin {"update", "reallocation"}
      BY <2>3, Inputs DEF TypeOK
    <3>2. \A q \in Requests \ {p} : req'[q] = req[q]
      BY <2>3 DEF TypeOK
    <3> QED
      BY <2>1, <3>1, <3>2 DEF Drained, InTransaction
  <2> QED
    BY <1>1, <1>2, <2>2, <2>3
<1>3. ASSUME NEW p \in Requests, Commit(p), NEW l \in Lines
      PROVE  row'[l].initial = row[l].initial
  <2>1. req[p].op # "update"
    BY <1>3 DEF Commit, Drained, InTransaction
  <2> QED
    BY <1>3, <2>1 DEF Commit, InitialKept
<1>4. ASSUME NEW p \in Requests, (Step(p) /\ ~Commit(p)) \/ Rollback(p)
      PROVE  UNCHANGED row
  BY <1>4, Frame
<1>5. CASE UNCHANGED vars
  BY <1>5 DEF vars, Drained, InTransaction
<1>6. ~LockBudget
  BY DEF LockBudget
<1> QED
  BY <1>2, <1>3, <1>4, <1>5, <1>6 DEF Next, Step

\* Once the budget is locked and the updates and reallocations admitted before
\* it are over, no other one starts and no initialAmount changes.
THEOREM LockHolds == Spec => LockedBudgetStaysDrained
<1>1. Init => LockInv
  <2> SUFFICES ASSUME Init PROVE LockInv
    OBVIOUS
  <2>1. LocksExclusive /\ InitialKept
    BY DEF Init, LocksExclusive, InitialKept
  <2> QED
    BY <2>1, TypeInit DEF LockInv
<1>2. LockInv /\ [Next]_vars => LockInv'
  BY TypeStep, LocksStep, InitialStep DEF LockInv
<1>3. LockInv /\ [Next]_vars =>
        [budgetLocked /\ Drained =>
            Drained' /\ \A l \in Lines : row'[l].initial = row[l].initial]_vars
  BY DrainedStep
<1> QED
  BY <1>1, <1>2, <1>3, PTL DEF Spec, LockedBudgetStaysDrained

-------------------------------------------------------------------------------
(***************************************************************************)
(* The tables implement the append-only journal                            *)
(***************************************************************************)

LEMMA PostStep ==
    ASSUME PostInv, [Next]_vars
    PROVE  NothingPosted'
<1> USE DEF PostInv, TypeInv
<1>1. ASSUME NEW p \in Requests, Commit(p)
      PROVE  NothingPosted'
  <2>1. pc'[p] = "committed" /\ \A q \in Requests \ {p} : pc'[q] = pc[q]
    BY <1>1 DEF Commit, End, TypeOK
  <2>2. \A m \in events \cup allocations : m.id \in Requests
    BY DEF TypeOK, Movement
  <2>3. \A m \in OwnEvents(p) \cup OwnAllocations(p) : m.id = p
    BY OwnMovements
  <2> QED
    BY <1>1, <2>1, <2>2, <2>3 DEF Commit, NothingPosted
<1>2. ASSUME NEW p \in Requests, (Step(p) /\ ~Commit(p)) \/ Rollback(p)
      PROVE  NothingPosted'
  <2>1. UNCHANGED <<events, allocations>> /\ \A q \in Requests \ {p} : pc'[q] = pc[q]
    BY <1>2, Frame
  <2>2. pc[p] # "committed"
    BY <1>2 DEF Step, CreateEvent, CreateAllocation, CheckReallocation, ReadExisting, Accept,
       ReadLine, ReadAllocations, ReadEvents, WriteRow, UpdateLine, Rollback, InTransaction
  <2>3. \A m \in events \cup allocations : m.id \in Requests
    BY DEF TypeOK, Movement
  <2> QED
    BY <2>1, <2>2, <2>3 DEF NothingPosted
<1>3. CASE LockBudget \/ UNCHANGED vars
  BY <1>3 DEF LockBudget, vars, NothingPosted
<1> QED
  BY <1>1, <1>2, <1>3 DEF Next

\* What the commit of p appends is what the journal lets p post.
LEMMA CommitPosts ==
    ASSUME PostInv, NEW p \in Requests, Commit(p)
    PROVE  Journal!Post(p) \/ UNCHANGED <<events, allocations>>
<1> USE DEF PostInv, TypeInv
<1>1. /\ events' = events \cup OwnEvents(p)
      /\ allocations' = allocations \cup OwnAllocations(p)
      /\ pc[p] = "commit"
  BY DEF Commit
<1>2. \A m \in events \cup allocations : m.id # p
  BY <1>1 DEF NothingPosted
<1>3. /\ Journal!Movements(p, events) = {}
      /\ Journal!Movements(p, allocations) = {}
  BY <1>2 DEF Journal!Movements
<1>4. /\ OwnEvents(p) \subseteq Journal!Movement
      /\ \A m \in OwnEvents(p) \cup OwnAllocations(p) : m.id = p
  BY OwnMovements DEF Movement, Journal!Movement
<1>5. /\ events' \ events = OwnEvents(p)
      /\ allocations' \ allocations = OwnAllocations(p)
  BY <1>1, <1>2, <1>4
<1>6. CASE req[p].op = "event"
  <2> DEFINE m == MovementOf(p, req[p].line, req[p].type, req[p].amount)
  <2>1. OwnEvents(p) = {m} /\ OwnAllocations(p) = {}
    BY <1>6 DEF OwnEvents, OwnAllocations
  <2> HIDE DEF m
  <2>2. Journal!Postable(p, events' \ events)
    BY <1>4, <1>5, <2>1 DEF Journal!Postable
  <2> QED
    BY <1>1, <1>3, <2>1, <2>2 DEF Journal!Post
<1>7. CASE req[p].op = "reallocation"
  <2> DEFINE a == MovementOf(p, req[p].line, "REALLOCATION_DONE", -req[p].amount)
             b == MovementOf(p, req[p].target, "REALLOCATION_DONE", req[p].amount)
  <2>1. OwnEvents(p) = {a, b} /\ OwnAllocations(p) = {}
    BY <1>7 DEF OwnEvents, OwnAllocations, ReallocationEvents
  <2>2. req[p].line # req[p].target
    BY <1>7, InputOf, Inputs
  <2>3. Journal!Halves(a, b)
    BY <2>2 DEF Journal!Halves, MovementOf
  <2> HIDE DEF a, b
  <2>4. Journal!Postable(p, events' \ events)
    BY <1>4, <1>5, <2>1, <2>3 DEF Journal!Postable
  <2> QED
    BY <1>1, <1>3, <2>1, <2>4 DEF Journal!Post
<1>8. CASE req[p].op = "allocation"
  <2> DEFINE m == MovementOf(p, req[p].line, req[p].type, req[p].amount)
  <2>1. OwnEvents(p) = {} /\ OwnAllocations(p) = {m}
    BY <1>8 DEF OwnEvents, OwnAllocations
  <2>2. m \in Journal!Movement /\ m.id = p
    <3>1. OwnAllocations(p) \subseteq Journal!Movement
      <4>1. [id: Requests, line: Lines, type: MovementTypes, amount: Nat]
                \subseteq Journal!Movement
        BY DEF Journal!Movement
      <4> QED
        BY <4>1, OwnMovements
    <3> QED
      BY <1>4, <2>1, <3>1
  <2> HIDE DEF m
  <2> QED
    BY <1>1, <1>3, <1>5, <2>1, <2>2 DEF Journal!Post
<1>9. CASE req[p].op \notin {"event", "reallocation", "allocation"}
  BY <1>1, <1>9 DEF OwnEvents, OwnAllocations
<1> QED
  BY <1>6, <1>7, <1>8, <1>9

\* The services implement the journal: the tables only grow, a request writes
\* to them at most once, and both halves of a reallocation appear together.
THEOREM JournalImplemented == Spec => ImplementsJournal
<1>1. Init => PostInv /\ Journal!JInit
  <2> SUFFICES ASSUME Init PROVE PostInv /\ Journal!JInit
    OBVIOUS
  <2>1. NothingPosted /\ Journal!JInit
    BY DEF Init, NothingPosted, Journal!JInit
  <2> QED
    BY <2>1, TypeInit DEF PostInv
<1>2. PostInv /\ [Next]_vars => PostInv'
  BY TypeStep, PostStep DEF PostInv
<1>3. PostInv /\ [Next]_vars => [Journal!JNext]_(Journal!journal)
  <2> SUFFICES ASSUME PostInv, [Next]_vars
               PROVE  Journal!JNext \/ UNCHANGED <<events, allocations>>
    BY DEF Journal!journal
  <2>1. ASSUME NEW p \in Requests, Commit(p)
        PROVE  Journal!JNext \/ UNCHANGED <<events, allocations>>
    BY <2>1, CommitPosts DEF Journal!JNext
  <2>2. ASSUME NEW p \in Requests, (Step(p) /\ ~Commit(p)) \/ Rollback(p)
        PROVE  UNCHANGED <<events, allocations>>
    BY <2>2, Frame DEF PostInv
  <2>3. LockBudget \/ UNCHANGED vars => UNCHANGED <<events, allocations>>
    BY DEF LockBudget, vars
  <2> QED
    BY <2>1, <2>2, <2>3 DEF Next
<1> QED
  BY <1>1, <1>2, <1>3, PTL DEF Spec, ImplementsJournal, Journal!JSpec
-------------------------------------------------------------------------------
(***************************************************************************)
(* A reallocation is all or nothing                                        *)
(***************************************************************************)

\* The events a request inserts depend on its input only.
LEMMA OwnEventsKept ==
    ASSUME NEW p \in Requests, req'[p] = req[p]
    PROVE  OwnEvents(p)' = OwnEvents(p)
  BY DEF OwnEvents, ReallocationEvents

LEMMA WholeStep ==
    ASSUME WholeInv, [Next]_vars
    PROVE  PostedWhole'
<1> USE DEF WholeInv, TypeInv
<1>1. ASSUME NEW p \in Requests, Commit(p)
      PROVE  PostedWhole'
  <2>1. /\ pc[p] = "commit" /\ pc'[p] = "committed"
        /\ \A q \in Requests \ {p} : pc'[q] = pc[q]
        /\ events' = events \cup OwnEvents(p)
        /\ UNCHANGED req
    BY <1>1 DEF Commit, End, TypeOK
  <2>2. \A m \in OwnEvents(p) : m.id = p
    BY OwnMovements
  <2>3. EventsOf(p) = {}
    BY <2>1 DEF PostedWhole
  <2>4. EventsOf(p)' = OwnEvents(p)
    BY <2>1, <2>2, <2>3 DEF EventsOf
  <2>5. \A q \in Requests \ {p} : EventsOf(q)' = EventsOf(q)
    BY <2>1, <2>2 DEF EventsOf
  <2>6. \A q \in Requests : OwnEvents(q)' = OwnEvents(q)
    BY <2>1, OwnEventsKept
  <2> QED
    BY <2>1, <2>4, <2>5, <2>6 DEF PostedWhole
<1>2. ASSUME NEW p \in Requests, (Step(p) /\ ~Commit(p)) \/ Rollback(p)
      PROVE  PostedWhole'
  <2>1. /\ UNCHANGED events
        /\ \A q \in Requests \ {p} : pc'[q] = pc[q] /\ req'[q] = req[q]
    BY <1>2, Frame
  <2>2. pc[p] # "committed" /\ pc'[p] # "committed"
    BY <1>2 DEF Step, CreateEvent, CreateAllocation, CheckReallocation, ReadExisting, Accept,
       ReadLine, ReadAllocations, ReadEvents, WriteRow, UpdateLine, Rollback, End,
       InTransaction, TypeOK
  <2>3. \A q \in Requests : EventsOf(q)' = EventsOf(q)
    BY <2>1 DEF EventsOf
  <2>4. \A q \in Requests \ {p} : OwnEvents(q)' = OwnEvents(q)
    BY <2>1, OwnEventsKept
  <2> QED
    BY <2>1, <2>2, <2>3, <2>4 DEF PostedWhole
<1>3. CASE LockBudget \/ UNCHANGED vars
  <2>1. UNCHANGED <<events, pc, req>>
    BY <1>3 DEF LockBudget, vars
  <2>2. \A q \in Requests : OwnEvents(q)' = OwnEvents(q)
    BY <2>1, OwnEventsKept
  <2> QED
    BY <2>1, <2>2 DEF PostedWhole, EventsOf
<1> QED
  BY <1>1, <1>2, <1>3 DEF Next

\* What one movement takes and another gives sums to nothing.
LEMMA OppositesCancel ==
    ASSUME NEW a, NEW b, a # b, a.type = b.type, a.amount \in Int, b.amount = -a.amount
    PROVE  Total({a, b}, a.type) = 0
<1> DEFINE w == [m \in {a, b} |-> m.amount]
<1>1. Total({a, b}, a.type) = SumFunctionOnSet(w, {a, b})
  <2>1. {m \in {a, b} : m.type = a.type} = {a, b}
    OBVIOUS
  <2> QED
    BY <2>1 DEF Total
<1>2. w[a] = a.amount /\ w[b] = -a.amount
  OBVIOUS
<1> HIDE DEF w
<1>3. SumFunctionOnSet(w, {}) = 0 /\ IsFiniteSet({})
  BY SumEmpty, FS_EmptySet
<1>4. IsFiniteSet({a}) /\ SumFunctionOnSet(w, {a}) = a.amount
  <2>1. \A y \in {} \cup {a} : w[y] \in Int
    BY <1>2
  <2>2. {} \cup {a} = {a}
    OBVIOUS
  <2>3. IsFiniteSet({} \cup {a}) /\ SumFunctionOnSet(w, {} \cup {a}) = w[a] + SumFunctionOnSet(w, {})
    BY <1>3, <2>1, SumAdd
  <2> QED
    BY <1>2, <1>3, <2>2, <2>3
<1>5. SumFunctionOnSet(w, {a, b}) = -a.amount + SumFunctionOnSet(w, {a})
  <2>1. \A y \in {a} \cup {b} : w[y] \in Int
    BY <1>2
  <2>2. {a} \cup {b} = {a, b} /\ b \notin {a}
    OBVIOUS
  <2>3. SumFunctionOnSet(w, {a} \cup {b}) = w[b] + SumFunctionOnSet(w, {a})
    BY <1>4, <2>1, <2>2, SumAdd
  <2> QED
    BY <1>2, <2>2, <2>3
<1> QED
  BY <1>1, <1>4, <1>5

LEMMA WholeBalances == WholeInv => ReallocationsBalance
<1> SUFFICES ASSUME WholeInv, NEW p \in Requests, req[p].op = "reallocation"
             PROVE  Total(EventsOf(p), "REALLOCATION_DONE") = 0
  BY DEF ReallocationsBalance, EventsOf
<1> USE DEF WholeInv, TypeInv
<1>1. CASE pc[p] # "committed"
  <2>1. EventsOf(p) = {}
    BY <1>1 DEF PostedWhole
  <2>2. {m \in EventsOf(p) : m.type = "REALLOCATION_DONE"} = {}
    BY <2>1
  <2> QED
    BY <2>2, SumEmpty DEF Total
<1>2. CASE pc[p] = "committed"
  <2> DEFINE a == MovementOf(p, req[p].line, "REALLOCATION_DONE", -req[p].amount)
             b == MovementOf(p, req[p].target, "REALLOCATION_DONE", req[p].amount)
  <2>1. EventsOf(p) = {a, b}
    BY <1>2 DEF PostedWhole, OwnEvents, ReallocationEvents
  <2>2. req[p].line # req[p].target
    BY InputOf, Inputs
  <2>3. req[p].amount \in Int
    <3>1. req[p].amount \in ReallocatedAmounts
      BY InputOf DEF ReallocationRequest
    <3>2. req[p].amount \in Nat
      BY <3>1, AmountsAssumption
    <3> QED
      BY <3>2
  <2>4. /\ a # b /\ a.type = "REALLOCATION_DONE" /\ a.type = b.type
        /\ a.amount \in Int /\ b.amount = -a.amount
    BY <2>2, <2>3 DEF MovementOf
  <2> HIDE DEF a, b
  <2> QED
    BY <2>1, <2>4, OppositesCancel
<1> QED
  BY <1>1, <1>2

\* Whatever interleaves and whatever is rolled back, the events of a
\* reallocation sum to nothing: no budget is created or lost.
THEOREM ReallocationsBalanced == Spec => []ReallocationsBalance
<1>1. Init => WholeInv
  <2> SUFFICES ASSUME Init PROVE WholeInv
    OBVIOUS
  <2>1. PostedWhole
    BY DEF Init, PostedWhole, EventsOf
  <2> QED
    BY <2>1, TypeInit DEF WholeInv
<1>2. WholeInv /\ [Next]_vars => WholeInv'
  BY TypeStep, WholeStep DEF WholeInv
<1> QED
  BY <1>1, <1>2, WholeBalances, PTL DEF Spec
===============================================================================
