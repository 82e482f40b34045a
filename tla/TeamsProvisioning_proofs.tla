----------------------- MODULE TeamsProvisioning_proofs -----------------------
(***************************************************************************)
(* Theorems about TeamsProvisioning, for any number of runs, workers,      *)
(* requests, retries, attempts and faults.                                 *)
(***************************************************************************)
EXTENDS TeamsProvisioning, TLAPS

-------------------------------------------------------------------------------
(***************************************************************************)
(* Types                                                                   *)
(***************************************************************************)
\* The steps from which a worker changes what is known of the Team.
WorkSteps ==
    {"request", "post", "record", "poll", "attach", "channels", "complete"}
WorkerSteps ==
    {"idle", "read", "heartbeat", "unclear", "error", "completed", "failed"} \cup WorkSteps
AskSteps == {"idle", "findBlocking", "create"}
RetrySteps == {"getJob", "reserve", "reserveSame", "requeue", "enqueueRetry", "compensate",
               "reviveActive", "reviveWaiting"}
FoundSteps == {"attachFound", "recordFound"}
CallerSteps ==
    AskSteps \cup RetrySteps \cup FoundSteps
    \cup {"enqueue", "note", "unavailable", "confirmNotCreated"}

Rows == [status : Statuses, error : Errors, requested : BOOLEAN,
         op : Nat, team : Nat, job : {None} \cup (0 .. MaxRetries),
         retries : 0 .. MaxRetries, resolved : Resolutions, stale : BOOLEAN]
JobRows == [state : JobStates, failed : 0 .. MaxAttempts,
            stalls : 0 .. MaxStalls, worker : Workers \cup {None}]
Views == [requested : BOOLEAN, op : Nat, team : Nat, saved : Nat]
Reads == [job : {None} \cup (0 .. MaxRetries), retries : 0 .. MaxRetries,
          team : {None} \cup (Runs \X Nat)]

RowsTyped ==
    /\ run \in [Runs -> Rows]
    /\ job \in [Jobs -> JobRows]
    /\ posts \in [Runs -> Nat]
    /\ doomed \in SUBSET (Runs \X Nat)
    /\ link \in {None} \cup (Runs \X Nat)
    /\ overlapped \in SUBSET Runs
    /\ unseen \in SUBSET Runs
    /\ faults \in 0 .. MaxFaults

WorkersTyped ==
    /\ step \in [Workers -> WorkerSteps]
    /\ on \in [Workers -> Jobs \cup {None}]
    /\ view \in [Workers -> Views]
    /\ error \in [Workers -> Exceptions]
    /\ \A w \in Workers : step[w] # "idle" => on[w] \in Jobs

CallersTyped ==
    /\ at \in [Callers -> CallerSteps]
    /\ about \in [Callers -> Runs \cup {None}]
    /\ known \in [Callers -> Reads]
    /\ \A c \in Callers :
        /\ at[c] \in AskSteps <=> about[c] = None
        /\ at[c] \in {"getJob", "reserve"} => known[c].retries < MaxRetries
        /\ at[c] \in {"reserveSame", "requeue"} => known[c].job # None
        /\ at[c] = "enqueueRetry" => known[c].job \in 1 .. MaxRetries
        /\ at[c] \in FoundSteps => known[c].team \in Made(about[c])

TeamsTyped == RowsTyped /\ WorkersTyped /\ CallersTyped

-------------------------------------------------------------------------------
(***************************************************************************)
(* The inductive invariant                                                 *)
(***************************************************************************)
\* (A worker that has only its job left to move is not busy with the run.)
Busy(w, r) == Working(w) /\ Run(w) = r

\* Nothing exists of a run that has not been created.
AbsentIsNew(r) ==
    run[r].status = "absent" =>
        /\ posts[r] = 0 /\ ~run[r].requested
        /\ run[r].error # "UNKNOWN" /\ run[r].resolved = "none"
        /\ \A k \in 0 .. MaxRetries : job[<<r, k>>].state = "none"
        /\ \A c \in Callers : about[c] # r

\* The first job of a run is added once.
FirstJobIsNew ==
    \A c \in Callers : at[c] = "enqueue" =>
        /\ job[<<about[c], 0>>].state = "none"
        /\ \A d \in Callers \ {c} : at[d] = "enqueue" => about[d] # about[c]

\* A worker has the lock of the job it is at.
LocksHeld == \A w \in Workers : step[w] # "idle" => HoldsLock(w)

OneWorker(r) == \A w, x \in Workers : Busy(w, r) /\ Busy(x, r) => w = x

\* Team k of a run exists, or is the one it names without an operation.
Sound(r, k) == Team(r, k) \in Made(r) \/ (Unwatched(r) /\ k = run[r].team)

\* The row tells what Graph was asked for.
RowTruthful(r) ==
    /\ posts[r] <= 1
    /\ ~run[r].requested => posts[r] = 0 /\ run[r].team = 0 /\ run[r].resolved = "none"
    /\ run[r].op <= posts[r]
    /\ run[r].op # 0 => run[r].team \in {0, run[r].op}
    /\ run[r].op = 0 /\ run[r].team # 0 => Sound(r, run[r].team)
    /\ link # None /\ link[1] = r => link \in Made(r) \/ Unwatched(r)

InDoubt(r) == Unknown(run[r])
Closed(r) == run[r].resolved = "CONFIRMED_NOT_CREATED"

\* A creation was asked for, and either nothing is known of it or the
\* operation that made the Team did not name it.
Doubtful(r) ==
    /\ run[r].requested
    /\ (run[r].op = 0 /\ run[r].team = 0) \/ Team(r, run[r].op) \in Made(r)

\* A run declared unknown is doubtful; once closed, nothing is known of it.
DoubtHolds(r) ==
    /\ InDoubt(r) => Doubtful(r)
    /\ Closed(r) => Unclear(run[r]) /\ run[r].status \notin {"COMPLETED", "PARTIAL"}

\* What the worker of a run has read, and how far it is.
WorkerTruthful(w) ==
    LET r == Run(w)
        v == view[w]
    IN
    /\ step[w] = "heartbeat" =>
          /\ v.requested = run[r].requested
          /\ run[r].resolved # "TEAM_FOUND" => v.team = run[r].team
    /\ step[w] = "unclear" /\ run[r].resolved # "TEAM_FOUND" => Doubtful(r)
    /\ step[w] \in WorkSteps => ~run[r].stale /\ ~Closed(r)
    /\ step[w] \in {"request", "post", "record"} => ~InDoubt(r) /\ run[r].resolved = "none"
    /\ step[w] = "request" => ~run[r].requested
    /\ step[w] = "post" => run[r].requested /\ posts[r] = 0 /\ run[r].team = 0
    /\ step[w] = "record" =>
          /\ run[r].requested /\ v.op # 0 /\ v.op <= posts[r]
          /\ run[r].op = 0 /\ run[r].team = 0
    /\ step[w] \in {"heartbeat", "poll", "attach", "channels", "complete"} =>
          /\ v.op = run[r].op
          /\ v.op # 0 => v.team \in {0, v.op}
          /\ v.op = 0 /\ v.team # 0 => Sound(r, v.team)
    /\ step[w] = "poll" => v.op # 0
    /\ step[w] \in {"attach", "channels", "complete"} => v.team # 0 /\ Sound(r, v.team)

Truthful(r) ==
    r \notin overlapped =>
        /\ OneWorker(r)
        /\ RowTruthful(r)
        /\ DoubtHolds(r)
        /\ \A w \in Workers : Busy(w, r) => WorkerTruthful(w)

TeamsInv ==
    /\ TeamsTyped
    /\ \A r \in Runs : AbsentIsNew(r)
    /\ FirstJobIsNew
    /\ LocksHeld
    /\ \A r \in Runs : Truthful(r)

\* A user who has found no Team will find none.
Denied(r) ==
    /\ run[r].requested
    /\ Made(r) = {}
    /\ \A w \in Workers : Busy(w, r) => step[w] # "post"

ConfirmHolds ==
    \A c \in Callers :
        at[c] = "confirmNotCreated" /\ about[c] \notin overlapped => Denied(about[c])

-------------------------------------------------------------------------------
(***************************************************************************)
(* Lemmas about the ways rows and requests are written                     *)
(***************************************************************************)
LEMMA WriteRow ==
    ASSUME RowsTyped, NEW r \in Runs, NEW row \in Rows, Write(r, row)
    PROVE  /\ run' \in [Runs -> Rows]
           /\ \A q \in Runs \ {r} : run'[q] = run[q]
           /\ run'[r] = [row EXCEPT !.stale = FALSE]
           /\ run'[r].status = row.status /\ run'[r].error = row.error
           /\ run'[r].requested = row.requested /\ run'[r].op = row.op
           /\ run'[r].team = row.team /\ run'[r].job = row.job
           /\ run'[r].retries = row.retries /\ run'[r].resolved = row.resolved
           /\ run'[r].stale = FALSE
  BY DEF Write, RowsTyped, Rows

LEMMA FailedRow ==
    ASSUME NEW row \in Rows, NEW code \in Errors
    PROVE  /\ Failed(row, code) \in Rows
           /\ Failed(row, code).status = "FAILED" /\ Failed(row, code).error = code
           /\ Failed(row, code).requested = row.requested /\ Failed(row, code).op = row.op
           /\ Failed(row, code).team = row.team /\ Failed(row, code).resolved = row.resolved
  BY DEF Failed, Rows, Statuses

LEMMA ReservedRow ==
    ASSUME NEW row \in Rows
    PROVE  /\ Reserved(row) \in Rows
           /\ Reserved(row).status = "PENDING" /\ Reserved(row).error = "none"
           /\ Reserved(row).requested = row.requested /\ Reserved(row).op = row.op
           /\ Reserved(row).team = row.team /\ Reserved(row).resolved = row.resolved
           /\ Reserved(row).retries = row.retries
  BY DEF Reserved, Rows, Statuses, Active, Errors

\* What a request at next about r, having read what, satisfies.
Fits(next, r, what) ==
    /\ next \in CallerSteps /\ r \in Runs \cup {None} /\ what \in Reads
    /\ next \in AskSteps <=> r = None
    /\ next \in {"getJob", "reserve"} => what.retries < MaxRetries
    /\ next \in {"reserveSame", "requeue"} => what.job # None
    /\ next = "enqueueRetry" => what.job \in 1 .. MaxRetries
    /\ next \in FoundSteps => what.team \in Made(r)

Moved(c, next, r, what) ==
    /\ at'[c] = next /\ about'[c] = r /\ known'[c] = what
    /\ \A d \in Callers \ {c} : at'[d] = at[d] /\ about'[d] = about[d] /\ known'[d] = known[d]

LEMMA AskMoves ==
    ASSUME CallersTyped, NEW c \in Callers, NEW next, NEW r, NEW what, Fits(next, r, what),
           \A q \in Runs : Made(q) \subseteq Made(q)', Ask(c, next, r, what)
    PROVE  CallersTyped' /\ Moved(c, next, r, what)
  <1>1. Moved(c, next, r, what)
    BY DEF Ask, CallersTyped, Moved
  <1>2. /\ at' \in [Callers -> CallerSteps]
        /\ about' \in [Callers -> Runs \cup {None}]
        /\ known' \in [Callers -> Reads]
    BY DEF Ask, CallersTyped, Fits
  <1>3. ASSUME NEW d \in Callers
        PROVE  /\ at'[d] \in AskSteps <=> about'[d] = None
               /\ at'[d] \in {"getJob", "reserve"} => known'[d].retries < MaxRetries
               /\ at'[d] \in {"reserveSame", "requeue"} => known'[d].job # None
               /\ at'[d] = "enqueueRetry" => known'[d].job \in 1 .. MaxRetries
               /\ at'[d] \in FoundSteps => known'[d].team \in Made(about[d])'
    <2>1. CASE d = c
      <3>1. at'[d] \in FoundSteps => r \in Runs /\ what.team \in Made(r)'
        BY <1>1, <2>1, TeamsAssumption DEF Moved, Fits, FoundSteps, AskSteps
      <3> QED BY <1>1, <2>1, <3>1 DEF Moved, Fits, Made
    <2>2. CASE d # c
      <3>1. at[d] \in FoundSteps => about[d] \in Runs
        BY TeamsAssumption DEF CallersTyped, FoundSteps, AskSteps
      <3>2. at[d] \in FoundSteps => known[d].team \in Made(about[d])
        BY DEF CallersTyped
      <3>3. at[d] \in FoundSteps => about'[d] = about[d] /\ known[d].team \in Made(about[d])'
        BY <1>1, <2>2, <3>1, <3>2 DEF Moved, Made
      <3> QED BY <1>1, <2>2, <3>3 DEF Moved, CallersTyped
    <2> QED BY <2>1, <2>2
  <1> QED BY <1>1, <1>2, <1>3 DEF CallersTyped

LEMMA GoMoves ==
    ASSUME CallersTyped, NEW c \in Callers, NEW next, Fits(next, about[c], known[c]),
           \A q \in Runs : Made(q) \subseteq Made(q)', Go(c, next)
    PROVE  CallersTyped' /\ Moved(c, next, about[c], known[c])
  <1>1. Ask(c, next, about[c], known[c])
    BY DEF Go, Ask, CallersTyped
  <1> QED BY <1>1, AskMoves

LEMMA AnswerMoves ==
    ASSUME CallersTyped, NEW c \in Callers,
           \A q \in Runs : Made(q) \subseteq Made(q)', Answer(c)
    PROVE  CallersTyped' /\ Moved(c, "idle", None, Nothing)
  <1>1. Nothing \in Reads
    BY TeamsAssumption DEF Nothing, Reads
  <1>2. Fits("idle", None, Nothing)
    BY <1>1 DEF Fits, CallerSteps, AskSteps, FoundSteps
  <1> QED BY <1>2, AskMoves DEF Answer

LEMMA StillMoves ==
    ASSUME CallersTyped, UNCHANGED request, \A q \in Runs : Made(q) \subseteq Made(q)'
    PROVE  CallersTyped'
  <1>1. at' = at /\ about' = about /\ known' = known
    BY DEF request
  <1>2. ASSUME NEW c \in Callers, at[c] \in FoundSteps
        PROVE  known'[c].team \in Made(about[c])'
    <2>1. about[c] \in Runs /\ known[c].team \in Made(about[c])
      BY <1>2, TeamsAssumption DEF CallersTyped, FoundSteps, AskSteps
    <2> QED BY <1>1, <2>1
  <1> QED BY <1>1, <1>2 DEF CallersTyped

LEMMA GraphKept == ASSUME UNCHANGED graph PROVE \A q \in Runs : Made(q)' = Made(q)
  BY DEF graph, Made

\* (The request of a caller in a step of a run is about a run.)
LEMMA AboutRun ==
    ASSUME CallersTyped, NEW c \in Callers, at[c] \notin AskSteps
    PROVE  about[c] \in Runs /\ known[c] \in Reads
  BY DEF CallersTyped

-------------------------------------------------------------------------------
(***************************************************************************)
(* Steps that leave alone what the rows tell of Graph                      *)
(***************************************************************************)
MildRow(r) ==
    /\ run'[r].requested = run[r].requested /\ run'[r].op = run[r].op
    /\ run'[r].team = run[r].team /\ run'[r].resolved = run[r].resolved
    /\ run'[r].status = "absent" <=> run[r].status = "absent"
    /\ run'[r].error = "UNKNOWN" => run[r].error = "UNKNOWN"
    /\ run'[r].status \in {"COMPLETED", "PARTIAL"} => run[r].status \in {"COMPLETED", "PARTIAL"}
    /\ run'[r].stale => run[r].stale

\* No job is taken from a worker, and none is made for a run that is not.
MildJobs ==
    \A j \in Jobs :
        /\ job[j].state = "active" => job'[j] = job[j]
        /\ run[j[1]].status = "absent" => job'[j] = job[j]

MildCallers ==
    \A c \in Callers : \/ about'[c] = about[c] \/ about'[c] = None
                       \/ run[about'[c]].status # "absent"

LEMMA MildRowKept ==
    ASSUME RowsTyped, NEW r \in Runs, run'[r] = run[r]
    PROVE  MildRow(r)
  BY DEF MildRow

LEMMA JobsOfRuns ==
    \A r \in Runs, k \in 0 .. MaxRetries : <<r, k>> \in Jobs /\ <<r, k>>[1] = r
  BY DEF Jobs

LEMMA AbsentKept ==
    ASSUME TeamsInv, NEW r \in Runs, UNCHANGED posts, MildRow(r), MildJobs, MildCallers
    PROVE  AbsentIsNew(r)'
  <1>1. r # None
    BY TeamsAssumption
  <1>2. \A k \in 0 .. MaxRetries : <<r, k>> \in Jobs /\ <<r, k>>[1] = r
    BY JobsOfRuns
  <1>3. AbsentIsNew(r)
    BY DEF TeamsInv
  <1> QED BY <1>1, <1>2, <1>3 DEF AbsentIsNew, MildRow, MildJobs, MildCallers

LEMMA LocksKept ==
    ASSUME TeamsInv, UNCHANGED worker, MildJobs
    PROVE  LocksHeld'
  <1> SUFFICES ASSUME NEW w \in Workers, step[w] # "idle" PROVE HoldsLock(w)'
    BY DEF LocksHeld, worker
  <1>1. on[w] \in Jobs /\ HoldsLock(w) /\ on'[w] = on[w]
    BY DEF TeamsInv, TeamsTyped, WorkersTyped, LocksHeld, worker
  <1> QED BY <1>1 DEF HoldsLock, MildJobs

LEMMA BusyRun ==
    ASSUME TeamsInv, NEW w \in Workers, step[w] # "idle"
    PROVE  Run(w) \in Runs /\ on[w] \in Jobs
  BY DEF TeamsInv, TeamsTyped, WorkersTyped, Jobs, Run

\* What is said of a run whose row tells the same.
LEMMA ToldKept ==
    ASSUME NEW r \in Runs, posts'[r] = posts[r], Made(r)' = Made(r),
           run'[r].requested = run[r].requested, run'[r].op = run[r].op,
           run'[r].team = run[r].team, run'[r].resolved = run[r].resolved
    PROVE  /\ Unwatched(r)' <=> Unwatched(r)
           /\ Doubtful(r)' <=> Doubtful(r)
           /\ Closed(r)' <=> Closed(r)
           /\ Unclear(run[r])' <=> Unclear(run[r])
           /\ \A k : Sound(r, k)' <=> Sound(r, k)
  <1>2. Unwatched(r)' <=> Unwatched(r)
    BY DEF Unwatched
  <1>3. Doubtful(r)' <=> Doubtful(r)
    BY DEF Doubtful
  <1>4. (Closed(r)' <=> Closed(r)) /\ (Unclear(run[r])' <=> Unclear(run[r]))
    BY DEF Closed, Unclear
  <1>5. \A k : Sound(r, k)' <=> Sound(r, k)
    BY <1>2 DEF Sound
  <1> QED BY <1>2, <1>3, <1>4, <1>5

\* A worker of a run whose row tells the same, and that is no more in doubt.
LEMMA WorkerToldKept ==
    ASSUME NEW r \in Runs, NEW w \in Workers, Busy(w, r), WorkerTruthful(w),
           posts'[r] = posts[r], Made(r)' = Made(r),
           step'[w] = step[w], on'[w] = on[w], view'[w] = view[w],
           run'[r].requested = run[r].requested, run'[r].op = run[r].op,
           run'[r].team = run[r].team, run'[r].resolved = run[r].resolved,
           InDoubt(r)' => InDoubt(r), run'[r].stale => run[r].stale
    PROVE  WorkerTruthful(w)'
  <1>1. /\ Run(w) = r /\ Run(w)' = r /\ step'[w] = step[w] /\ view'[w] = view[w]
    BY DEF Busy, Run
  <1>2. /\ Unwatched(r)' <=> Unwatched(r)
        /\ Doubtful(r)' <=> Doubtful(r)
        /\ Closed(r)' <=> Closed(r)
        /\ \A k : Sound(r, k)' <=> Sound(r, k)
    BY ToldKept
  <1> QED BY <1>1, <1>2 DEF WorkerTruthful

LEMMA TruthKept ==
    ASSUME TeamsInv, NEW r \in Runs, MildRow(r),
           UNCHANGED <<graph, worker, link>>, overlapped \subseteq overlapped'
    PROVE  Truthful(r)'
  <1> SUFFICES ASSUME r \notin overlapped
               PROVE  /\ OneWorker(r)' /\ RowTruthful(r)' /\ DoubtHolds(r)'
                      /\ \A w \in Workers : Busy(w, r)' => WorkerTruthful(w)'
    BY DEF Truthful
  <1>1. /\ OneWorker(r) /\ RowTruthful(r) /\ DoubtHolds(r)
        /\ \A w \in Workers : Busy(w, r) => WorkerTruthful(w)
    BY DEF TeamsInv, Truthful
  <1>2. /\ posts' = posts /\ doomed' = doomed /\ link' = link
        /\ step' = step /\ on' = on /\ view' = view
        /\ Made(r)' = Made(r)
    BY GraphKept DEF graph, worker
  <1>3. OneWorker(r)'
    BY <1>1, <1>2 DEF OneWorker, Busy, Working, Run
  <1>7. /\ Unwatched(r)' <=> Unwatched(r)
        /\ Doubtful(r)' <=> Doubtful(r)
        /\ Closed(r)' <=> Closed(r)
        /\ Unclear(run[r])' <=> Unclear(run[r])
        /\ \A k : Sound(r, k)' <=> Sound(r, k)
    BY <1>2, ToldKept DEF MildRow
  <1>8. InDoubt(r)' => InDoubt(r)
    BY DEF InDoubt, Unknown, MildRow
  <1>4. RowTruthful(r)'
    BY <1>1, <1>2, <1>7 DEF RowTruthful, MildRow
  <1>5. DoubtHolds(r)'
    BY <1>1, <1>7, <1>8 DEF DoubtHolds, MildRow
  <1>6. ASSUME NEW w \in Workers, Busy(w, r)'
        PROVE  WorkerTruthful(w)'
    <2>1. Busy(w, r) /\ Run(w) = r /\ Run(w)' = r
      BY <1>2, <1>6 DEF Busy, Working, Run
    <2>2. WorkerTruthful(w)
      BY <1>1, <2>1
    <2> QED BY <1>2, <1>8, <2>1, <2>2, WorkerToldKept DEF MildRow
  <1> QED BY <1>3, <1>4, <1>5, <1>6

\* A step of a request, or of the maintenance, that does no more than that.
LEMMA MildKeeps ==
    ASSUME TeamsInv, RowsTyped', CallersTyped', FirstJobIsNew',
           UNCHANGED <<graph, worker, link, overlapped>>,
           \A r \in Runs : MildRow(r), MildJobs, MildCallers
    PROVE  TeamsInv'
  <1>1. WorkersTyped'
    BY DEF TeamsInv, TeamsTyped, WorkersTyped, worker
  <1>2. UNCHANGED posts
    BY DEF graph
  <1> QED BY <1>1, <1>2, AbsentKept, LocksKept, TruthKept DEF TeamsInv, TeamsTyped

\* The first job stays to be added.
LEMMA FirstJobKept ==
    ASSUME TeamsInv, NEW c \in Callers, NEW next, NEW r, NEW what, Moved(c, next, r, what),
           next # "enqueue", NEW j,
           \A i \in Jobs : i # j => job'[i] = job[i],
           job'[j] = job[j] \/ job[j].state # "none" \/ j[2] # 0
             \/ (at[c] = "enqueue" /\ j = <<about[c], 0>>)
    PROVE  FirstJobIsNew'
  <1> SUFFICES ASSUME NEW d \in Callers, at'[d] = "enqueue"
               PROVE  /\ job'[<<about'[d], 0>>].state = "none"
                      /\ \A e \in Callers \ {d} : at'[e] = "enqueue" => about'[e] # about'[d]
    BY DEF FirstJobIsNew
  <1>1. d # c /\ at[d] = "enqueue" /\ about'[d] = about[d]
    BY DEF Moved
  <1>2. about[d] \in Runs
    BY <1>1, AboutRun DEF TeamsInv, TeamsTyped, AskSteps
  <1>3. <<about[d], 0>> \in Jobs
    BY <1>2, JobsOfRuns, TeamsAssumption
  <1>4. job[<<about[d], 0>>].state = "none"
    BY <1>1 DEF TeamsInv, FirstJobIsNew
  <1>5. at[c] = "enqueue" => about[c] # about[d]
    BY <1>1 DEF TeamsInv, FirstJobIsNew
  <1>6. job'[<<about[d], 0>>] = job[<<about[d], 0>>]
    <2>1. CASE <<about[d], 0>> = j
      BY <1>4, <1>5, <2>1
    <2>2. CASE <<about[d], 0>> # j
      BY <1>3, <2>2
    <2> QED BY <2>1, <2>2
  <1>7. ASSUME NEW e \in Callers \ {d}, at'[e] = "enqueue" PROVE about'[e] # about'[d]
    <2>1. (at[e] = "enqueue" /\ about'[e] = about[e]) \/ e = c
      BY <1>1, <1>7 DEF Moved
    <2> QED BY <1>1, <1>7, <2>1 DEF Moved, TeamsInv, FirstJobIsNew
  <1> QED BY <1>1, <1>4, <1>6, <1>7

LEMMA CallerKeeps ==
    ASSUME TeamsInv, RowsTyped', CallersTyped',
           NEW c \in Callers, NEW next, NEW r, NEW what, Moved(c, next, r, what),
           next # "enqueue", r = None \/ r = about[c] \/ run[r].status # "absent",
           UNCHANGED <<graph, worker, link, overlapped>>,
           \A q \in Runs : MildRow(q),
           NEW j, \A i \in Jobs : i # j => job'[i] = job[i],
           \/ job'[j] = job[j]
           \/ /\ job[j].state # "active"
              /\ run[j[1]].status # "absent"
              /\ \/ job[j].state # "none" \/ j[2] # 0
                 \/ at[c] = "enqueue" /\ j = <<about[c], 0>>
    PROVE  TeamsInv'
  <1>1. FirstJobIsNew'
    BY FirstJobKept
  <1>2. MildJobs
    BY DEF MildJobs
  <1>3. MildCallers
    BY DEF MildCallers, Moved
  <1> QED BY <1>1, <1>2, <1>3, MildKeeps

\* The same, when no job changes.
LEMMA CallerKeepsJobs ==
    ASSUME TeamsInv, RowsTyped', CallersTyped',
           NEW c \in Callers, NEW next, NEW r, NEW what, Moved(c, next, r, what),
           next # "enqueue", r = None \/ r = about[c] \/ run[r].status # "absent",
           UNCHANGED <<graph, worker, link, overlapped>>, UNCHANGED job,
           \A q \in Runs : MildRow(q)
    PROVE  TeamsInv'
  BY CallerKeeps

LEMMA FaultTyped == ASSUME RowsTyped, Fault PROVE faults' \in 0 .. MaxFaults
  BY TeamsAssumption DEF RowsTyped, Fault

\* A row written by a request that is about it.
LEMMA WriteIsMild ==
    ASSUME TeamsInv, NEW r \in Runs, NEW row \in Rows, Write(r, row),
           run[r].status # "absent", row.status # "absent",
           row.requested = run[r].requested, row.op = run[r].op, row.team = run[r].team,
           row.resolved = run[r].resolved,
           row.error = "UNKNOWN" => run[r].error = "UNKNOWN",
           row.status \in {"COMPLETED", "PARTIAL"} => run[r].status \in {"COMPLETED", "PARTIAL"}
    PROVE  run' \in [Runs -> Rows] /\ \A q \in Runs : MildRow(q)
  <1>1. RowsTyped
    BY DEF TeamsInv, TeamsTyped
  <1>2. /\ run' \in [Runs -> Rows]
        /\ \A q \in Runs \ {r} : run'[q] = run[q]
        /\ run'[r].status = row.status /\ run'[r].error = row.error
        /\ run'[r].requested = row.requested /\ run'[r].op = row.op
        /\ run'[r].team = row.team /\ run'[r].resolved = row.resolved
        /\ run'[r].stale = FALSE
    BY <1>1, WriteRow
  <1>3. MildRow(r)
    BY <1>2 DEF MildRow
  <1> QED BY <1>1, <1>2, <1>3, MildRowKept

LEMMA SameIsMild ==
    ASSUME TeamsInv, UNCHANGED run
    PROVE  run' \in [Runs -> Rows] /\ \A q \in Runs : MildRow(q)
  BY MildRowKept DEF TeamsInv, TeamsTyped, RowsTyped

LEMMA NotAbsent ==
    ASSUME TeamsInv, NEW c \in Callers, at[c] \notin AskSteps
    PROVE  /\ about[c] \in Runs /\ known[c] \in Reads
           /\ run[about[c]] \in Rows /\ run[about[c]].status # "absent"
  BY AboutRun DEF TeamsInv, TeamsTyped, RowsTyped, AbsentIsNew

LEMMA FailIsMild ==
    ASSUME TeamsInv, NEW r \in Runs, NEW code \in Errors \ {"UNKNOWN"}, FailIfActive(r, code)
    PROVE  run' \in [Runs -> Rows] /\ \A q \in Runs : MildRow(q)
  <1>1. run[r] \in Rows
    BY DEF TeamsInv, TeamsTyped, RowsTyped
  <1>2. CASE run[r].status \in Active
    <2>1. Write(r, Failed(run[r], code)) /\ run[r].status # "absent"
      BY <1>2 DEF FailIfActive, Active
    <2> QED BY <1>1, <2>1, FailedRow, WriteIsMild
  <1>3. CASE run[r].status \notin Active
    BY <1>3, SameIsMild DEF FailIfActive
  <1> QED BY <1>2, <1>3

-------------------------------------------------------------------------------
(***************************************************************************)
(* Requests                                                                *)
(***************************************************************************)
LEMMA StartKeeps == ASSUME TeamsInv, NEW c \in Callers, StartProvisioning(c) PROVE TeamsInv'
  <1>1. at[c] = "idle" /\ Go(c, "findBlocking") /\ UNCHANGED <<rows, graph, worker, history>>
    BY DEF StartProvisioning
  <1>2. Fits("findBlocking", about[c], known[c])
    BY <1>1 DEF TeamsInv, TeamsTyped, CallersTyped, Fits, CallerSteps, AskSteps, FoundSteps
  <1>3. CallersTyped' /\ Moved(c, "findBlocking", about[c], known[c])
    BY <1>1, <1>2, GoMoves, GraphKept DEF TeamsInv, TeamsTyped
  <1>4. RowsTyped'
    BY <1>1 DEF TeamsInv, TeamsTyped, RowsTyped, rows, graph, history
  <1> QED BY <1>1, <1>3, <1>4, SameIsMild, CallerKeepsJobs DEF rows, history

LEMMA FindBlockingKeeps ==
    ASSUME TeamsInv, NEW c \in Callers, FindBlockingRun(c) PROVE TeamsInv'
  <1>1. /\ at[c] = "findBlocking" /\ UNCHANGED <<rows, graph, worker, history>>
        /\ Answer(c) \/ Go(c, "create")
    BY DEF FindBlockingRun
  <1>2. Fits("create", about[c], known[c])
    BY <1>1 DEF TeamsInv, TeamsTyped, CallersTyped, Fits, CallerSteps, AskSteps, FoundSteps
  <1>3. RowsTyped'
    BY <1>1 DEF TeamsInv, TeamsTyped, RowsTyped, rows, graph, history
  <1>4. CASE Answer(c)
    <2>1. CallersTyped' /\ Moved(c, "idle", None, Nothing)
      BY <1>1, <1>4, AnswerMoves, GraphKept DEF TeamsInv, TeamsTyped
    <2> QED BY <1>1, <1>3, <2>1, SameIsMild, CallerKeepsJobs DEF rows, history
  <1>5. CASE Go(c, "create")
    <2>1. CallersTyped' /\ Moved(c, "create", about[c], known[c])
      BY <1>1, <1>2, <1>5, GoMoves, GraphKept DEF TeamsInv, TeamsTyped
    <2> QED BY <1>1, <1>3, <2>1, SameIsMild, CallerKeepsJobs DEF rows, history
  <1> QED BY <1>1, <1>4, <1>5

LEMMA EnqueueFirstKeeps ==
    ASSUME TeamsInv, NEW c \in Callers, EnqueueFirst(c) PROVE TeamsInv'
  <1> DEFINE j == <<about[c], 0>>
  <1>1. /\ at[c] = "enqueue" /\ UNCHANGED <<run, link, graph, worker, overlapped, unseen>>
        /\ job' = [job EXCEPT ![j].state = "waiting"] \/ job' = job
        /\ UNCHANGED faults \/ Fault
    BY DEF EnqueueFirst
  <1>2. PICK next \in {"note", "unavailable"} : Go(c, next)
    BY DEF EnqueueFirst
  <1>3. /\ about[c] \in Runs /\ run[about[c]].status # "absent" /\ about[c] # None
    BY <1>1, NotAbsent, TeamsAssumption DEF AskSteps
  <1>4. Fits(next, about[c], known[c])
    BY <1>2, <1>3 DEF TeamsInv, TeamsTyped, CallersTyped, Fits, CallerSteps, AskSteps, FoundSteps
  <1>5. CallersTyped' /\ Moved(c, next, about[c], known[c])
    BY <1>1, <1>2, <1>4, GoMoves, GraphKept DEF TeamsInv, TeamsTyped
  <1>6. j \in Jobs /\ j[1] = about[c] /\ j[2] = 0
    BY <1>3, JobsOfRuns, TeamsAssumption
  <1> HIDE DEF j
  <1>7. /\ job' \in [Jobs -> JobRows]
        /\ \A i \in Jobs : i # j => job'[i] = job[i]
    BY <1>1, <1>6 DEF TeamsInv, TeamsTyped, RowsTyped, JobRows, JobStates
  <1>8. RowsTyped'
    BY <1>1, <1>7, FaultTyped DEF TeamsInv, TeamsTyped, RowsTyped, graph
  <1>9. job[j].state # "active" /\ j = <<about[c], 0>>
    BY <1>1 DEF TeamsInv, FirstJobIsNew, j
  <1>10. \A q \in Runs : MildRow(q)
    BY <1>1, SameIsMild
  <1> QED BY <1>1, <1>3, <1>5, <1>6, <1>7, <1>8, <1>9, <1>10, CallerKeeps

LEMMA NoteJobKeeps == ASSUME TeamsInv, NEW c \in Callers, NoteJob(c) PROVE TeamsInv'
  <1> DEFINE r == about[c]
  <1>1. /\ at[c] = "note" /\ UNCHANGED <<job, link, graph, worker, overlapped>>
        /\ unseen' \in {unseen, unseen \cup {r}}
        /\ Write(r, [run[r] EXCEPT !.job = 0]) \/ UNCHANGED run
        /\ UNCHANGED faults \/ Fault
        /\ Answer(c) \/ Go(c, "unavailable")
    BY DEF NoteJob
  <1>2. /\ r \in Runs /\ known[c] \in Reads
        /\ run[r] \in Rows /\ run[r].status # "absent" /\ r # None
    BY <1>1, NotAbsent, TeamsAssumption DEF AskSteps
  <1>3. Fits("unavailable", r, known[c])
    BY <1>2 DEF Fits, CallerSteps, AskSteps, FoundSteps
  <1>4. \A q \in Runs : Made(q)' = Made(q)
    BY <1>1, GraphKept
  <1>5. run' \in [Runs -> Rows] /\ \A q \in Runs : MildRow(q)
    <2> DEFINE row == [run[r] EXCEPT !.job = 0]
    <2>1. /\ row \in Rows
          /\ row.status = run[r].status /\ row.error = run[r].error
          /\ row.requested = run[r].requested /\ row.op = run[r].op
          /\ row.team = run[r].team /\ row.resolved = run[r].resolved
      BY <1>2, TeamsAssumption DEF Rows
    <2>2. Write(r, row) \/ UNCHANGED run
      BY <1>1
    <2> HIDE DEF row
    <2> QED BY <1>2, <2>1, <2>2, WriteIsMild, SameIsMild
  <1>6. RowsTyped'
    BY <1>1, <1>2, <1>5, FaultTyped DEF TeamsInv, TeamsTyped, RowsTyped, graph
  <1>7. CASE Answer(c)
    <2>1. CallersTyped' /\ Moved(c, "idle", None, Nothing)
      BY <1>4, <1>7, AnswerMoves DEF TeamsInv, TeamsTyped
    <2> QED BY <1>1, <1>5, <1>6, <2>1, CallerKeepsJobs
  <1>8. CASE Go(c, "unavailable")
    <2>1. CallersTyped' /\ Moved(c, "unavailable", r, known[c])
      BY <1>3, <1>4, <1>8, GoMoves DEF TeamsInv, TeamsTyped
    <2> QED BY <1>1, <1>2, <1>5, <1>6, <2>1, CallerKeepsJobs
  <1> QED BY <1>1, <1>7, <1>8

\* A request that writes its run mildly, or not, and answers.
LEMMA AnswerKeeps ==
    ASSUME TeamsInv, NEW c \in Callers, Answer(c),
           run' \in [Runs -> Rows], \A q \in Runs : MildRow(q),
           UNCHANGED <<job, link, graph, worker, overlapped>>,
           unseen' \in SUBSET Runs, faults' \in 0 .. MaxFaults
    PROVE  TeamsInv'
  <1>1. CallersTyped' /\ Moved(c, "idle", None, Nothing)
    BY AnswerMoves, GraphKept DEF TeamsInv, TeamsTyped
  <1>2. RowsTyped'
    BY DEF TeamsInv, TeamsTyped, RowsTyped, graph
  <1> QED BY <1>1, <1>2, CallerKeepsJobs

\* The same, when it goes on.
LEMMA GoKeeps ==
    ASSUME TeamsInv, NEW c \in Callers, NEW next, next # "enqueue",
           Fits(next, about[c], known[c]), Go(c, next),
           run' \in [Runs -> Rows], \A q \in Runs : MildRow(q),
           UNCHANGED <<job, link, graph, worker, overlapped>>,
           unseen' \in SUBSET Runs, faults' \in 0 .. MaxFaults
    PROVE  TeamsInv'
  <1>1. CallersTyped' /\ Moved(c, next, about[c], known[c])
    BY GoMoves, GraphKept DEF TeamsInv, TeamsTyped
  <1>2. RowsTyped'
    BY DEF TeamsInv, TeamsTyped, RowsTyped, graph
  <1> QED BY <1>1, <1>2, CallerKeepsJobs

LEMMA Unwritten ==
    ASSUME TeamsInv
    PROVE  /\ unseen \in SUBSET Runs /\ faults \in 0 .. MaxFaults
           /\ Fault => faults' \in 0 .. MaxFaults
  BY FaultTyped DEF TeamsInv, TeamsTyped, RowsTyped

LEMMA QueueUnavailableKeeps ==
    ASSUME TeamsInv, NEW c \in Callers, QueueUnavailable(c) PROVE TeamsInv'
  <1>1. /\ Write(about[c], Failed(run[about[c]], "RETRYABLE")) /\ Answer(c)
        /\ UNCHANGED <<job, link, graph, worker, overlapped>> /\ at[c] = "unavailable"
        /\ unseen' = unseen /\ faults' = faults
    BY DEF QueueUnavailable, history
  <1>2. /\ about[c] \in Runs /\ run[about[c]] \in Rows /\ run[about[c]].status # "absent"
    BY <1>1, NotAbsent DEF AskSteps
  <1>3. run' \in [Runs -> Rows] /\ \A q \in Runs : MildRow(q)
    BY <1>1, <1>2, FailedRow, WriteIsMild DEF Errors
  <1> QED BY <1>1, <1>3, AnswerKeeps, Unwritten

LEMMA RetryKeeps == ASSUME TeamsInv, NEW c \in Callers, RetryProvisioning(c) PROVE TeamsInv'
  <1>1. PICK r \in Runs :
            /\ Retryable(run[r]) /\ run[r].retries < MaxRetries
            /\ Ask(c, "getJob", r, [Nothing EXCEPT !.job = run[r].job, !.retries = run[r].retries])
    BY DEF RetryProvisioning
  <1> DEFINE what == [Nothing EXCEPT !.job = run[r].job, !.retries = run[r].retries]
  <1>2. UNCHANGED <<rows, graph, worker, history>>
    BY DEF RetryProvisioning
  <1>3. run[r] \in Rows
    BY DEF TeamsInv, TeamsTyped, RowsTyped
  <1>4. what \in Reads /\ what.retries < MaxRetries
    BY <1>1, <1>3 DEF Nothing, Reads, Rows
  <1>5. Ask(c, "getJob", r, what)
    BY <1>1
  <1> HIDE DEF what
  <1>6. Fits("getJob", r, what)
    BY <1>4, TeamsAssumption DEF Fits, CallerSteps, RetrySteps, AskSteps, FoundSteps
  <1>7. CallersTyped' /\ Moved(c, "getJob", r, what)
    BY <1>2, <1>5, <1>6, AskMoves, GraphKept DEF TeamsInv, TeamsTyped
  <1>8. RowsTyped'
    BY <1>2 DEF TeamsInv, TeamsTyped, RowsTyped, rows, graph, history
  <1>9. run[r].status # "absent"
    BY <1>1 DEF Retryable
  <1> QED BY <1>2, <1>7, <1>8, <1>9, SameIsMild, CallerKeepsJobs DEF rows, history

LEMMA GetJobKeeps == ASSUME TeamsInv, NEW c \in Callers, GetJob(c) PROVE TeamsInv'
  <1> DEFINE r == about[c]
             k == known[c].job
  <1>1. /\ at[c] = "getJob" /\ UNCHANGED <<job, link, graph, worker, overlapped>>
        /\ unseen' \in {unseen, unseen \cup {r}}
        /\ UNCHANGED faults \/ Fault
    BY DEF GetJob
  <1>2. /\ r \in Runs /\ r # None /\ k \in {None} \cup (0 .. MaxRetries) /\ known[c] \in Reads
        /\ known[c].retries < MaxRetries
    BY <1>1, NotAbsent, TeamsAssumption DEF AskSteps, Reads, TeamsInv, TeamsTyped, CallersTyped
  <1>3. \/ Go(c, "reserve") /\ UNCHANGED run
        \/ k # None /\ Go(c, "reserveSame") /\ UNCHANGED run
        \/ Go(c, "reviveActive") /\ UNCHANGED run
        \/ Go(c, "reviveWaiting") /\ UNCHANGED run
        \/ FailIfActive(r, "RETRYABLE") /\ Answer(c)
    BY DEF GetJob
  <1>4. unseen' \in SUBSET Runs /\ faults' \in 0 .. MaxFaults
    BY <1>1, <1>2, Unwritten
  <1>5. /\ Fits("reserve", r, known[c])
        /\ k # None => Fits("reserveSame", r, known[c])
        /\ Fits("reviveActive", r, known[c]) /\ Fits("reviveWaiting", r, known[c])
    BY <1>2 DEF Fits, CallerSteps, RetrySteps, AskSteps, FoundSteps
  <1>6. CASE UNCHANGED run
    BY <1>1, <1>3, <1>4, <1>5, <1>6, SameIsMild, GoKeeps, AnswerKeeps
  <1>7. CASE FailIfActive(r, "RETRYABLE") /\ Answer(c)
    BY <1>1, <1>2, <1>4, <1>7, FailIsMild, AnswerKeeps DEF Errors
  <1> QED BY <1>3, <1>6, <1>7

LEMMA ReserveSameKeeps ==
    ASSUME TeamsInv, NEW c \in Callers, ReserveSame(c) PROVE TeamsInv'
  <1> DEFINE r == about[c]
             row == [Reserved(run[r]) EXCEPT !.retries = @ + 1]
  <1>1. /\ at[c] = "reserveSame" /\ UNCHANGED <<job, link, graph, worker, overlapped>>
        /\ unseen' = unseen /\ faults' = faults
        /\ \/ Write(r, row) /\ Go(c, "requeue") /\ run[r].retries < MaxRetries
           \/ Answer(c) /\ UNCHANGED run
    BY DEF ReserveSame, history
  <1>2. /\ r \in Runs /\ r # None /\ known[c] \in Reads
        /\ run[r] \in Rows /\ run[r].status # "absent"
        /\ known[c].job # None
    BY <1>1, NotAbsent, TeamsAssumption DEF AskSteps, TeamsInv, TeamsTyped, CallersTyped
  <1>3. CASE Answer(c) /\ UNCHANGED run
    BY <1>1, <1>3, SameIsMild, AnswerKeeps, Unwritten
  <1>4. CASE Write(r, row) /\ Go(c, "requeue") /\ run[r].retries < MaxRetries
    <2>1. /\ row \in Rows /\ row.status = "PENDING" /\ row.error = "none"
          /\ row.requested = run[r].requested /\ row.op = run[r].op
          /\ row.team = run[r].team /\ row.resolved = run[r].resolved
      BY <1>2, <1>4, ReservedRow, TeamsAssumption DEF Rows
    <2> HIDE DEF row
    <2>2. run' \in [Runs -> Rows] /\ \A q \in Runs : MildRow(q)
      BY <1>2, <1>4, <2>1, WriteIsMild
    <2>3. Fits("requeue", r, known[c])
      BY <1>2 DEF Fits, CallerSteps, RetrySteps, AskSteps, FoundSteps
    <2> QED BY <1>1, <1>4, <2>2, <2>3, GoKeeps, Unwritten
  <1> QED BY <1>1, <1>3, <1>4

LEMMA RequeueKeeps == ASSUME TeamsInv, NEW c \in Callers, Requeue(c) PROVE TeamsInv'
  <1> DEFINE r == about[c]
             j == <<about[c], known[c].job>>
  <1>1. /\ at[c] = "requeue" /\ UNCHANGED <<run, link, graph, worker, overlapped, unseen>>
        /\ UNCHANGED faults \/ Fault
        /\ \/ job[j].state = "failed" /\ job' = [job EXCEPT ![j].state = "waiting"] /\ Answer(c)
           \/ Go(c, "compensate") /\ UNCHANGED job
    BY DEF Requeue
  <1>2. /\ r \in Runs /\ r # None /\ known[c] \in Reads
        /\ run[r] \in Rows /\ run[r].status # "absent"
        /\ known[c].job # None
    BY <1>1, NotAbsent, TeamsAssumption DEF AskSteps, TeamsInv, TeamsTyped, CallersTyped
  <1>3. CASE Go(c, "compensate") /\ UNCHANGED job
    <2>1. Fits("compensate", r, known[c])
      BY <1>2 DEF Fits, CallerSteps, RetrySteps, AskSteps, FoundSteps
    <2> QED BY <1>1, <1>3, <2>1, SameIsMild, GoKeeps, Unwritten
  <1>4. CASE job[j].state = "failed" /\ job' = [job EXCEPT ![j].state = "waiting"] /\ Answer(c)
    <2>1. j \in Jobs /\ j[1] = r
      BY <1>2 DEF Jobs, Reads
    <2> HIDE DEF j
    <2>2. /\ job' \in [Jobs -> JobRows]
          /\ \A i \in Jobs : i # j => job'[i] = job[i]
      BY <1>4, <2>1 DEF TeamsInv, TeamsTyped, RowsTyped, JobRows, JobStates
    <2>3. RowsTyped'
      BY <1>1, <2>2, FaultTyped DEF TeamsInv, TeamsTyped, RowsTyped, graph
    <2>4. CallersTyped' /\ Moved(c, "idle", None, Nothing)
      BY <1>1, <1>4, AnswerMoves, GraphKept DEF TeamsInv, TeamsTyped
    <2>5. \A q \in Runs : MildRow(q)
      BY <1>1, SameIsMild
    <2> QED BY <1>1, <1>2, <1>4, <2>1, <2>2, <2>3, <2>4, <2>5, CallerKeeps
  <1> QED BY <1>1, <1>3, <1>4

LEMMA ReviveKeeps == ASSUME TeamsInv, NEW c \in Callers, Revive(c) PROVE TeamsInv'
  <1> DEFINE r == about[c]
             to == IF at[c] = "reviveActive" THEN "IN_PROGRESS" ELSE "PENDING"
             row == [run[r] EXCEPT !.status = to, !.error = "none"]
  <1>1. /\ at[c] \in {"reviveActive", "reviveWaiting"} /\ Answer(c)
        /\ UNCHANGED <<job, link, graph, worker, overlapped>>
        /\ unseen' = unseen /\ faults' = faults
        /\ Write(r, row) \/ UNCHANGED run
    BY DEF Revive, history
  <1>2. r \in Runs /\ run[r] \in Rows /\ run[r].status # "absent"
    BY <1>1, NotAbsent DEF AskSteps
  <1>3. CASE UNCHANGED run
    BY <1>1, <1>3, SameIsMild, AnswerKeeps, Unwritten
  <1>4. CASE Write(r, row)
    <2>1. /\ row \in Rows /\ row.status \in Active /\ row.error = "none"
          /\ row.requested = run[r].requested /\ row.op = run[r].op
          /\ row.team = run[r].team /\ row.resolved = run[r].resolved
      BY <1>2 DEF Rows, Statuses, Active, Errors
    <2> HIDE DEF row
    <2>2. run' \in [Runs -> Rows] /\ \A q \in Runs : MildRow(q)
      BY <1>2, <1>4, <2>1, WriteIsMild DEF Active
    <2> QED BY <1>1, <2>2, AnswerKeeps, Unwritten
  <1> QED BY <1>1, <1>3, <1>4

LEMMA ReserveKeeps == ASSUME TeamsInv, NEW c \in Callers, Reserve(c) PROVE TeamsInv'
  <1> DEFINE r == about[c]
             k == known[c].retries + 1
             row == [Reserved(run[r]) EXCEPT !.retries = k, !.job = k]
             what == [known[c] EXCEPT !.job = k]
  <1>1. /\ at[c] = "reserve" /\ UNCHANGED <<job, link, graph, worker, overlapped>>
        /\ unseen' = unseen /\ faults' = faults
        /\ \/ Write(r, row) /\ Ask(c, "enqueueRetry", r, what)
           \/ Answer(c) /\ UNCHANGED run
    BY DEF Reserve, history
  <1>2. /\ r \in Runs /\ r # None /\ known[c] \in Reads
        /\ run[r] \in Rows /\ run[r].status # "absent"
        /\ known[c].retries < MaxRetries
    BY <1>1, NotAbsent, TeamsAssumption DEF AskSteps, TeamsInv, TeamsTyped, CallersTyped
  <1>3. CASE Answer(c) /\ UNCHANGED run
    BY <1>1, <1>3, SameIsMild, AnswerKeeps, Unwritten
  <1>4. CASE Write(r, row) /\ Ask(c, "enqueueRetry", r, what)
    <2>1. k \in 1 .. MaxRetries
      BY <1>2, TeamsAssumption DEF Reads
    <2>2. what \in Reads /\ what.job = k
      BY <1>2, <2>1 DEF Reads
    <2>3. /\ row \in Rows /\ row.status = "PENDING" /\ row.error = "none"
          /\ row.requested = run[r].requested /\ row.op = run[r].op
          /\ row.team = run[r].team /\ row.resolved = run[r].resolved
      <3>1. k \in 0 .. MaxRetries
        BY <2>1, TeamsAssumption
      <3> HIDE DEF k
      <3> QED BY <1>2, <3>1, ReservedRow DEF Rows
    <2> HIDE DEF row, what
    <2>4. run' \in [Runs -> Rows] /\ \A q \in Runs : MildRow(q)
      BY <1>2, <1>4, <2>3, WriteIsMild
    <2>5. Fits("enqueueRetry", r, what)
      BY <1>2, <2>1, <2>2 DEF Fits, CallerSteps, RetrySteps, AskSteps, FoundSteps
    <2>6. CallersTyped' /\ Moved(c, "enqueueRetry", r, what)
      BY <1>1, <1>4, <2>5, AskMoves, GraphKept DEF TeamsInv, TeamsTyped
    <2>7. RowsTyped'
      BY <1>1, <2>4 DEF TeamsInv, TeamsTyped, RowsTyped, graph
    <2> QED BY <1>1, <2>4, <2>6, <2>7, CallerKeepsJobs
  <1> QED BY <1>1, <1>3, <1>4

LEMMA EnqueueRetryKeeps ==
    ASSUME TeamsInv, NEW c \in Callers, EnqueueRetry(c) PROVE TeamsInv'
  <1> DEFINE r == about[c]
             j == <<about[c], known[c].job>>
  <1>1. /\ at[c] = "enqueueRetry"
        /\ UNCHANGED <<run, link, graph, worker, overlapped, unseen>>
        /\ UNCHANGED faults \/ Fault
        /\ Answer(c) \/ Go(c, "compensate")
        /\ \/ UNCHANGED job
           \/ job[j].state = "none" /\ job' = [job EXCEPT ![j].state = "waiting"]
    BY DEF EnqueueRetry
  <1>2. /\ r \in Runs /\ r # None /\ known[c] \in Reads
        /\ run[r] \in Rows /\ run[r].status # "absent"
        /\ known[c].job \in 1 .. MaxRetries
    BY <1>1, NotAbsent, TeamsAssumption DEF AskSteps, TeamsInv, TeamsTyped, CallersTyped
  <1>3. j \in Jobs /\ j[1] = r /\ j[2] # 0
    BY <1>2, TeamsAssumption DEF Jobs
  <1> HIDE DEF j
  <1>4. /\ job' \in [Jobs -> JobRows]
        /\ \A i \in Jobs : i # j => job'[i] = job[i]
        /\ job'[j] = job[j] \/ job[j].state = "none"
    BY <1>1, <1>3 DEF TeamsInv, TeamsTyped, RowsTyped, JobRows, JobStates
  <1>5. RowsTyped'
    BY <1>1, <1>4, FaultTyped DEF TeamsInv, TeamsTyped, RowsTyped, graph
  <1>6. \A q \in Runs : MildRow(q)
    BY <1>1, SameIsMild
  <1>7. CASE Answer(c)
    <2>1. CallersTyped' /\ Moved(c, "idle", None, Nothing)
      BY <1>1, <1>7, AnswerMoves, GraphKept DEF TeamsInv, TeamsTyped
    <2> QED BY <1>1, <1>2, <1>3, <1>4, <1>5, <1>6, <2>1, CallerKeeps
  <1>8. CASE Go(c, "compensate")
    <2>1. Fits("compensate", r, known[c])
      BY <1>2 DEF Fits, CallerSteps, RetrySteps, AskSteps, FoundSteps
    <2>2. CallersTyped' /\ Moved(c, "compensate", r, known[c])
      BY <1>1, <1>8, <2>1, GoMoves, GraphKept DEF TeamsInv, TeamsTyped
    <2> QED BY <1>1, <1>2, <1>3, <1>4, <1>5, <1>6, <2>2, CallerKeeps
  <1> QED BY <1>1, <1>7, <1>8

LEMMA CompensateKeeps == ASSUME TeamsInv, NEW c \in Callers, Compensate(c) PROVE TeamsInv'
  <1>1. /\ at[c] = "compensate" /\ Answer(c)
        /\ UNCHANGED <<job, link, graph, worker, overlapped>>
        /\ unseen' = unseen /\ faults' = faults
        /\ Write(about[c], Failed(run[about[c]], "RETRYABLE")) \/ UNCHANGED run
    BY DEF Compensate, history
  <1>2. /\ about[c] \in Runs /\ run[about[c]] \in Rows /\ run[about[c]].status # "absent"
    BY <1>1, NotAbsent DEF AskSteps
  <1>3. run' \in [Runs -> Rows] /\ \A q \in Runs : MildRow(q)
    BY <1>1, <1>2, FailedRow, WriteIsMild, SameIsMild DEF Errors
  <1> QED BY <1>1, <1>3, AnswerKeeps, Unwritten

LEMMA MadeTeams == ASSUME TeamsInv, NEW r \in Runs PROVE Made(r) \in SUBSET (Runs \X Nat)
  BY DEF TeamsInv, TeamsTyped, RowsTyped, Made, Team

LEMMA ResolveKeeps == ASSUME TeamsInv, NEW c \in Callers, ResolveUnknown(c) PROVE TeamsInv'
  <1>1. PICK r \in Runs :
            /\ Unknown(run[r])
            /\ \/ Ask(c, "confirmNotCreated", r, Nothing)
               \/ \E t \in Made(r) : Ask(c, "attachFound", r, [Nothing EXCEPT !.team = t])
    BY DEF ResolveUnknown
  <1>2. UNCHANGED <<rows, graph, worker, history>>
    BY DEF ResolveUnknown
  <1>3. PICK next \in {"confirmNotCreated", "attachFound"}, what \in Reads :
            Fits(next, r, what) /\ Ask(c, next, r, what)
    <2>1. Nothing \in Reads
      BY TeamsAssumption DEF Nothing, Reads
    <2>2. Fits("confirmNotCreated", r, Nothing)
      BY <2>1, TeamsAssumption DEF Fits, CallerSteps, RetrySteps, AskSteps, FoundSteps
    <2>3. ASSUME NEW t \in Made(r)
          PROVE  /\ [Nothing EXCEPT !.team = t] \in Reads
                 /\ Fits("attachFound", r, [Nothing EXCEPT !.team = t])
      <3>1. [Nothing EXCEPT !.team = t] \in Reads /\ [Nothing EXCEPT !.team = t].team = t
        BY <2>1, MadeTeams DEF Nothing, Reads
      <3> QED BY <3>1, TeamsAssumption
              DEF Fits, CallerSteps, RetrySteps, AskSteps, FoundSteps
    <2> QED BY <1>1, <2>1, <2>2, <2>3
  <1>4. CallersTyped' /\ Moved(c, next, r, what)
    BY <1>2, <1>3, AskMoves, GraphKept DEF TeamsInv, TeamsTyped
  <1>5. RowsTyped'
    BY <1>2 DEF TeamsInv, TeamsTyped, RowsTyped, rows, graph, history
  <1>6. run[r].status # "absent"
    BY <1>1 DEF TeamsInv, AbsentIsNew, Unknown
  <1> QED BY <1>2, <1>4, <1>5, <1>6, SameIsMild, CallerKeepsJobs DEF rows, history

LEMMA CallerCrashKeeps == ASSUME TeamsInv, NEW c \in Callers, CallerCrash(c) PROVE TeamsInv'
  <1>1. /\ at[c] \notin AskSteps /\ Answer(c) /\ Fault
        /\ UNCHANGED <<run, job, link, graph, worker, overlapped>>
        /\ unseen' \in {unseen, unseen \cup {about[c]}}
    BY DEF CallerCrash, AskSteps, rows
  <1>2. unseen' \in SUBSET Runs
    BY <1>1, NotAbsent, Unwritten
  <1> QED BY <1>1, <1>2, SameIsMild, AnswerKeeps, Unwritten

-------------------------------------------------------------------------------
(***************************************************************************)
(* Steps that change one run                                               *)
(***************************************************************************)
\* What a step on run r leaves of the others.
OnlyRun(r) ==
    /\ \A q \in Runs \ {r} :
        /\ run'[q] = run[q] /\ posts'[q] = posts[q] /\ Made(q)' = Made(q)
    /\ link' = link \/ link'[1] = r
    /\ \A j \in Jobs : j[1] # r => job'[j] = job[j]
    /\ overlapped \subseteq overlapped'
    /\ \A w \in Workers :
        \/ step'[w] = step[w] /\ on'[w] = on[w] /\ view'[w] = view[w]
        \/ \A q \in Runs \ {r} : ~Busy(w, q) /\ ~Busy(w, q)'

LEMMA OthersTruthful ==
    ASSUME TeamsInv, NEW r \in Runs, OnlyRun(r), NEW q \in Runs, q # r
    PROVE  Truthful(q)'
  <1> SUFFICES ASSUME q \notin overlapped
               PROVE  /\ OneWorker(q)' /\ RowTruthful(q)' /\ DoubtHolds(q)'
                      /\ \A w \in Workers : Busy(w, q)' => WorkerTruthful(w)'
    BY DEF Truthful, OnlyRun
  <1>1. /\ OneWorker(q) /\ RowTruthful(q) /\ DoubtHolds(q)
        /\ \A w \in Workers : Busy(w, q) => WorkerTruthful(w)
    BY DEF TeamsInv, Truthful
  <1>2. /\ run'[q] = run[q] /\ posts'[q] = posts[q] /\ Made(q)' = Made(q)
        /\ link' = link \/ link'[1] # q
    BY DEF OnlyRun
  <1>3. ASSUME NEW w \in Workers, Busy(w, q)'
        PROVE  Busy(w, q) /\ step'[w] = step[w] /\ on'[w] = on[w] /\ view'[w] = view[w]
    BY <1>3 DEF OnlyRun, Busy, Working, Run
  <1>4. OneWorker(q)'
    <2> SUFFICES ASSUME NEW w \in Workers, NEW x \in Workers, Busy(w, q)', Busy(x, q)'
                 PROVE  w = x
      BY DEF OneWorker
    <2> QED BY <1>1, <1>3 DEF OneWorker
  <1>8. /\ Unwatched(q)' <=> Unwatched(q)
        /\ Doubtful(q)' <=> Doubtful(q)
        /\ Closed(q)' <=> Closed(q)
        /\ Unclear(run[q])' <=> Unclear(run[q])
        /\ \A k : Sound(q, k)' <=> Sound(q, k)
    BY <1>2, ToldKept
  <1>5. RowTruthful(q)'
    BY <1>1, <1>2, <1>8 DEF RowTruthful
  <1>6. DoubtHolds(q)'
    BY <1>1, <1>2, <1>8 DEF DoubtHolds, InDoubt
  <1>7. ASSUME NEW w \in Workers, Busy(w, q)' PROVE WorkerTruthful(w)'
    <2>1. /\ Busy(w, q) /\ step'[w] = step[w] /\ on'[w] = on[w] /\ view'[w] = view[w]
      BY <1>3, <1>7
    <2>2. WorkerTruthful(w) /\ (InDoubt(q)' => InDoubt(q))
      BY <1>1, <1>2, <2>1 DEF InDoubt
    <2> QED BY <1>2, <2>1, <2>2, WorkerToldKept
  <1> QED BY <1>4, <1>5, <1>6, <1>7

LEMMA RunKeeps ==
    ASSUME TeamsInv, NEW r \in Runs, OnlyRun(r), TeamsTyped', FirstJobIsNew', LocksHeld',
           run'[r].status # "absent", \A c \in Callers : about'[c] \in {about[c], None, r},
           Truthful(r)'
    PROVE  TeamsInv'
  <1>1. \A q \in Runs : Truthful(q)'
    BY OthersTruthful
  <1>2. ASSUME NEW q \in Runs PROVE AbsentIsNew(q)'
    <2>1. CASE q = r
      BY <2>1 DEF AbsentIsNew
    <2>2. CASE q # r
      <3>1. \A k \in 0 .. MaxRetries : <<q, k>> \in Jobs /\ <<q, k>>[1] = q
        BY JobsOfRuns
      <3>2. AbsentIsNew(q) /\ q # None
        BY TeamsAssumption DEF TeamsInv
      <3> QED BY <2>2, <3>1, <3>2 DEF AbsentIsNew, OnlyRun
    <2> QED BY <2>1, <2>2
  <1> QED BY <1>1, <1>2 DEF TeamsInv

LEMMA FirstJobStill ==
    ASSUME TeamsInv, UNCHANGED request,
           \A j \in Jobs : job[j].state = "none" => job'[j] = job[j]
    PROVE  FirstJobIsNew'
  <1> SUFFICES ASSUME NEW c \in Callers, at'[c] = "enqueue"
               PROVE  /\ job'[<<about'[c], 0>>].state = "none"
                      /\ \A d \in Callers \ {c} : at'[d] = "enqueue" => about'[d] # about'[c]
    BY DEF FirstJobIsNew
  <1>1. at' = at /\ about' = about
    BY DEF request
  <1>2. <<about[c], 0>> \in Jobs
    BY <1>1, AboutRun, JobsOfRuns, TeamsAssumption DEF TeamsInv, TeamsTyped, AskSteps
  <1> QED BY <1>1, <1>2 DEF TeamsInv, FirstJobIsNew

LEMMA BusyIsStarted ==
    ASSUME TeamsInv, NEW w \in Workers, step[w] # "idle"
    PROVE  /\ Run(w) \in Runs /\ on[w] \in Jobs /\ (Working(w) => Busy(w, Run(w)))
           /\ run[Run(w)] \in Rows /\ run[Run(w)].status # "absent"
           /\ job[on[w]].state = "active" /\ job[on[w]].worker = w /\ job[on[w]] \in JobRows
           /\ view[w] \in Views
  <1>1. Run(w) \in Runs /\ on[w] \in Jobs /\ HoldsLock(w)
    BY BusyRun DEF TeamsInv, LocksHeld
  <1>2. PICK k \in 0 .. MaxRetries : on[w] = <<Run(w), k>>
    BY <1>1 DEF Jobs, Run
  <1>3. job[<<Run(w), k>>].state # "none"
    BY <1>1, <1>2 DEF HoldsLock
  <1>4. run[Run(w)].status # "absent"
    BY <1>1, <1>3 DEF TeamsInv, AbsentIsNew
  <1> QED BY <1>1, <1>4 DEF TeamsInv, TeamsTyped, RowsTyped, WorkersTyped, HoldsLock, Busy

\* A worker goes on with the job it has.
LEMMA WorkerStays ==
    ASSUME TeamsInv, NEW w \in Workers, Working(w),
           NEW next \in WorkerSteps \ {"idle"}, Continue(w, next),
           UNCHANGED <<on, job, request, overlapped>>,
           view' \in [Workers -> Views], \A x \in Workers \ {w} : view'[x] = view[x],
           error' \in [Workers -> Exceptions], RowsTyped',
           NEW r, r = Run(w),
           \A q \in Runs \ {r} : run'[q] = run[q] /\ posts'[q] = posts[q] /\ Made(q)' = Made(q),
           Made(r) \subseteq Made(r)', link' = link \/ link'[1] = r,
           run'[r].status # "absent",
           r \notin overlapped /\ Truthful(r) /\ WorkerTruthful(w) =>
               RowTruthful(r)' /\ DoubtHolds(r)' /\ WorkerTruthful(w)'
    PROVE  TeamsInv'
  <1>1. r \in Runs /\ Busy(w, r) /\ step[w] # "idle"
    BY BusyIsStarted DEF Working
  <1>2. /\ step' = [step EXCEPT ![w] = next] /\ step \in [Workers -> WorkerSteps]
        /\ \A x \in Workers : step[x] # "idle" => on[x] \in Jobs
        /\ step'[w] = next
    BY DEF Continue, TeamsInv, TeamsTyped, WorkersTyped
  <1>3. WorkersTyped'
    BY <1>1, <1>2 DEF TeamsInv, TeamsTyped, WorkersTyped
  <1>4. \A q \in Runs : Made(q) \subseteq Made(q)'
    OBVIOUS
  <1>5. CallersTyped'
    BY <1>4, StillMoves DEF TeamsInv, TeamsTyped
  <1>6. FirstJobIsNew'
    BY FirstJobStill
  <1>7. LocksHeld'
    BY <1>1, <1>2 DEF TeamsInv, LocksHeld, HoldsLock
  <1>8. \A x \in Workers, q \in Runs : Busy(x, q)' => Busy(x, q)
    BY <1>2 DEF Busy, Working, Run
  <1>9. OnlyRun(r)
    <2>1. \A q \in Runs \ {r} : ~Busy(w, q) /\ ~Busy(w, q)'
      BY <1>1, <1>8 DEF Busy
    <2>2. \A x \in Workers \ {w} : step'[x] = step[x] /\ on'[x] = on[x] /\ view'[x] = view[x]
      BY <1>2
    <2> QED BY <2>1, <2>2 DEF OnlyRun
  <1>10. Truthful(r)'
    <2> SUFFICES ASSUME r \notin overlapped
                 PROVE  /\ OneWorker(r)' /\ RowTruthful(r)' /\ DoubtHolds(r)'
                        /\ \A x \in Workers : Busy(x, r)' => WorkerTruthful(x)'
      BY DEF Truthful
    <2>1. Truthful(r) /\ OneWorker(r) /\ WorkerTruthful(w)
      BY <1>1 DEF TeamsInv, Truthful
    <2>2. OneWorker(r)'
      BY <1>1, <1>8, <2>1 DEF OneWorker
    <2>3. \A x \in Workers : Busy(x, r)' => x = w
      BY <1>1, <1>8, <2>1 DEF OneWorker
    <2> QED BY <2>1, <2>2, <2>3
  <1>11. \A c \in Callers : about'[c] = about[c]
    BY DEF request
  <1> QED BY <1>1, <1>3, <1>5, <1>6, <1>7, <1>9, <1>10, <1>11, RunKeeps DEF TeamsTyped

LEMMA OutcomesTyped ==
    ASSUME NEW j \in JobRows
    PROVE  /\ Completed(j) \in JobRows /\ GivenUp(j) \in JobRows /\ Retried(j) \in JobRows
           /\ Redelivered(j) \in JobRows
  <1>1. Completed(j) \in JobRows
    BY TeamsAssumption DEF JobRows, JobStates, Completed, NoJob
  <1>2. Attempted(j) \in JobRows
    <2> DEFINE n == IF j.failed < MaxAttempts THEN j.failed + 1 ELSE j.failed
    <2>1. n \in 0 .. MaxAttempts
      BY TeamsAssumption DEF JobRows
    <2>2. Attempted(j) = [j EXCEPT !.failed = n, !.worker = None]
      BY DEF Attempted
    <2> HIDE DEF n
    <2> QED BY <2>1, <2>2 DEF JobRows
  <1>3. \A a \in JobRows, s \in JobStates : [a EXCEPT !.state = s] \in JobRows
    BY DEF JobRows
  <1>4. GivenUp(j) \in JobRows
    BY <1>2, <1>3 DEF GivenUp, JobStates
  <1>5. Retried(j) \in JobRows
    <2> DEFINE s == IF AttemptsRemain(j) THEN "waiting" ELSE "failed"
    <2>1. s \in JobStates /\ Retried(j) = [Attempted(j) EXCEPT !.state = s]
      BY DEF JobStates, Retried
    <2> HIDE DEF s
    <2> QED BY <1>2, <1>3, <2>1
  <1>6. Redelivered(j) \in JobRows
    <2>1. CASE j.stalls < MaxStalls
      <3> DEFINE n == j.stalls + 1
      <3>1. n \in 0 .. MaxStalls
        BY <2>1, TeamsAssumption DEF JobRows
      <3>2. Redelivered(j) = [j EXCEPT !.state = "waiting", !.stalls = n, !.worker = None]
        BY <2>1 DEF Redelivered
      <3> HIDE DEF n
      <3> QED BY <3>1, <3>2 DEF JobRows, JobStates
    <2>2. CASE ~(j.stalls < MaxStalls)
      BY <2>2 DEF JobRows, JobStates, Redelivered
    <2> QED BY <2>1, <2>2
  <1> QED BY <1>1, <1>4, <1>5, <1>6

\* A worker is done with the job it has: nothing else changes.
LEMMA WorkerEnds ==
    ASSUME TeamsInv, NEW w \in Workers, step[w] # "idle",
           NEW outcome \in JobRows, EndJob(w, outcome),
           UNCHANGED <<run, link, graph, request, overlapped, unseen>>,
           faults' \in 0 .. MaxFaults
    PROVE  TeamsInv'
  <1>0. PICK r : r = Run(w)
    OBVIOUS
  <1>1. /\ r \in Runs /\ on[w] \in Jobs /\ on[w][1] = r /\ run[r].status # "absent"
        /\ job[on[w]].state = "active" /\ job[on[w]].worker = w
    BY <1>0, BusyIsStarted DEF Run
  <1>2. job' = [job EXCEPT ![on[w]] = outcome]
    BY <1>1 DEF EndJob, HoldsLock
  <1>3. /\ job' \in [Jobs -> JobRows]
        /\ \A j \in Jobs : j # on[w] => job'[j] = job[j]
    BY <1>1, <1>2 DEF TeamsInv, TeamsTyped, RowsTyped
  <1>4. RowsTyped'
    BY <1>3 DEF TeamsInv, TeamsTyped, RowsTyped, graph
  <1>5. /\ step'[w] = "idle" /\ step' \in [Workers -> WorkerSteps]
        /\ \A x \in Workers \ {w} :
              step'[x] = step[x] /\ on'[x] = on[x] /\ view'[x] = view[x]
    BY DEF EndJob, TeamsInv, TeamsTyped, WorkersTyped, WorkerSteps
  <1>6. WorkersTyped'
    <2>1. NoView \in Views
      BY DEF NoView, Views
    <2>2. /\ on' \in [Workers -> Jobs \cup {None}]
          /\ view' \in [Workers -> Views] /\ error' \in [Workers -> Exceptions]
      BY <2>1 DEF EndJob, TeamsInv, TeamsTyped, WorkersTyped, Exceptions
    <2> QED BY <1>5, <2>2 DEF TeamsInv, TeamsTyped, WorkersTyped
  <1>7. \A q \in Runs : Made(q)' = Made(q)
    BY GraphKept
  <1>8. CallersTyped'
    BY <1>7, StillMoves DEF TeamsInv, TeamsTyped
  <1>9. FirstJobIsNew'
    BY <1>1, <1>3, FirstJobStill
  <1>10. LocksHeld'
    <2> SUFFICES ASSUME NEW x \in Workers, step'[x] # "idle" PROVE HoldsLock(x)'
      BY DEF LocksHeld
    <2>1. x # w /\ step[x] # "idle" /\ on'[x] = on[x]
      BY <1>5
    <2>2. on[x] \in Jobs /\ job[on[x]].state = "active" /\ job[on[x]].worker = x
      BY <2>1, BusyIsStarted
    <2>3. on[x] # on[w]
      BY <1>1, <2>1, <2>2
    <2> QED BY <1>3, <2>1, <2>2, <2>3 DEF HoldsLock
  <1>11. \A x \in Workers, q \in Runs : Busy(x, q)' => Busy(x, q) /\ x # w
    BY <1>5 DEF Busy, Working, Run
  <1>12. OnlyRun(r)
    <2>1. \A q \in Runs \ {r} : ~Busy(w, q) /\ ~Busy(w, q)'
      BY <1>0, <1>11 DEF Busy
    <2>2. \A q \in Runs : posts'[q] = posts[q]
      BY DEF graph
    <2> QED BY <1>1, <1>3, <1>5, <1>7, <2>1, <2>2 DEF OnlyRun
  <1>13. Truthful(r)'
    <2> SUFFICES ASSUME r \notin overlapped
                 PROVE  /\ OneWorker(r)' /\ RowTruthful(r)' /\ DoubtHolds(r)'
                        /\ \A x \in Workers : Busy(x, r)' => WorkerTruthful(x)'
      BY DEF Truthful
    <2>1. Truthful(r) /\ OneWorker(r) /\ RowTruthful(r) /\ DoubtHolds(r)
      BY <1>1 DEF TeamsInv, Truthful
    <2>2. /\ Unwatched(r)' <=> Unwatched(r)
          /\ Doubtful(r)' <=> Doubtful(r)
          /\ Closed(r)' <=> Closed(r)
          /\ Unclear(run[r])' <=> Unclear(run[r])
          /\ InDoubt(r)' <=> InDoubt(r)
          /\ \A k : Sound(r, k)' <=> Sound(r, k)
          /\ posts' = posts /\ Made(r)' = Made(r)
      BY <1>1, <1>7, ToldKept DEF graph, InDoubt
    <2>3. RowTruthful(r)' /\ DoubtHolds(r)'
      BY <2>1, <2>2 DEF RowTruthful, DoubtHolds
    <2>4. OneWorker(r)'
      BY <1>1, <1>11, <2>1 DEF OneWorker
    <2>5. ASSUME NEW x \in Workers, Busy(x, r)' PROVE WorkerTruthful(x)'
      <3>1. Busy(x, r) /\ x # w
        BY <1>1, <1>11, <2>5
      <3>2. WorkerTruthful(x)
        BY <2>1, <3>1 DEF Truthful
      <3> QED BY <1>1, <1>5, <2>2, <3>1, <3>2, WorkerToldKept
    <2> QED BY <2>3, <2>4, <2>5
  <1>14. \A c \in Callers : about'[c] = about[c]
    BY DEF request
  <1> QED BY <1>1, <1>4, <1>6, <1>8, <1>9, <1>10, <1>12, <1>13, <1>14, RunKeeps DEF TeamsTyped

-------------------------------------------------------------------------------
(***************************************************************************)
(* Workers                                                                 *)
(***************************************************************************)
LEMMA RowTells ==
    ASSUME NEW r \in Runs, RowTruthful(r), DoubtHolds(r), UNCHANGED <<graph, link>>,
           run'[r].requested = run[r].requested, run'[r].op = run[r].op,
           run'[r].team = run[r].team, run'[r].resolved = run[r].resolved,
           run'[r].error = "UNKNOWN" /\ run[r].resolved = "none" => Doubtful(r),
           run'[r].status \in {"COMPLETED", "PARTIAL"} =>
               run[r].status \in {"COMPLETED", "PARTIAL"}
    PROVE  RowTruthful(r)' /\ DoubtHolds(r)'
  <1>1. Made(r)' = Made(r) /\ posts' = posts
    BY GraphKept DEF graph
  <1>4. /\ Unwatched(r)' <=> Unwatched(r)
        /\ Doubtful(r)' <=> Doubtful(r)
        /\ Closed(r)' <=> Closed(r)
        /\ Unclear(run[r])' <=> Unclear(run[r])
        /\ \A k : Sound(r, k)' <=> Sound(r, k)
    BY <1>1, ToldKept
  <1>2. RowTruthful(r)'
    BY <1>1, <1>4 DEF RowTruthful
  <1>3. DoubtHolds(r)'
    BY <1>4 DEF DoubtHolds, InDoubt, Unknown
  <1> QED BY <1>2, <1>3

LEMMA WorkerThrows ==
    ASSUME TeamsInv, NEW w \in Workers, Working(w), NEW e \in Exceptions, Throw(w, e),
           UNCHANGED <<run, job, link, graph, on, view, request, overlapped, unseen>>,
           faults' \in 0 .. MaxFaults
    PROVE  TeamsInv'
  <1>1. PICK r \in Runs : r = Run(w) /\ run[r] \in Rows /\ run[r].status # "absent"
    BY BusyIsStarted DEF Working
  <1>2. /\ Continue(w, "error") /\ error' \in [Workers -> Exceptions]
        /\ view' \in [Workers -> Views] /\ "error" \in WorkerSteps \ {"idle"}
        /\ step'[w] = "error"
    BY DEF Throw, Continue, TeamsInv, TeamsTyped, WorkersTyped, WorkerSteps
  <1>3. RowsTyped'
    BY DEF TeamsInv, TeamsTyped, RowsTyped, graph
  <1>4. \A q \in Runs : run'[q] = run[q] /\ posts'[q] = posts[q] /\ Made(q)' = Made(q)
    BY GraphKept DEF graph
  <1>5. r \notin overlapped /\ Truthful(r) => RowTruthful(r)' /\ DoubtHolds(r)'
    <2> HAVE r \notin overlapped /\ Truthful(r)
    <2>1. RowTruthful(r) /\ DoubtHolds(r)
      BY DEF Truthful
    <2> QED BY <1>1, <1>4, <2>1, RowTells DEF DoubtHolds, InDoubt, Unknown
  <1>6. WorkerTruthful(w)'
    BY <1>2 DEF WorkerTruthful, WorkSteps
  <1> QED BY <1>1, <1>2, <1>3, <1>4, <1>5, <1>6, WorkerStays

\* A call that came to nothing.
LEMMA RefusedThrows ==
    ASSUME TeamsInv, NEW w \in Workers, Working(w),
           Refused(w) \/ (Fault /\ Throw(w, "obscure")),
           UNCHANGED <<run, job, link, graph, on, view, request, overlapped, unseen>>
    PROVE  TeamsInv'
  <1>1. PICK e \in {"obscure", "refused", "clear"} : Throw(w, e)
    BY DEF Refused
  <1>2. faults' \in 0 .. MaxFaults
    BY Unwritten DEF Refused
  <1> QED BY <1>1, <1>2, WorkerThrows DEF Exceptions

LEMMA ReadRunKeeps == ASSUME TeamsInv, NEW w \in Workers, ReadRun(w) PROVE TeamsInv'
  <1>0. PICK r : r = Run(w)
    OBVIOUS
  <1> DEFINE v == [requested |-> run[r].requested, op |-> run[r].op,
                   team |-> run[r].team, saved |-> run[r].team]
  <1>1. /\ step[w] = "read" /\ UNCHANGED <<rows, graph, on, request, overlapped, unseen>>
        /\ \/ /\ view' = [view EXCEPT ![w] = v] /\ Continue(w, "heartbeat")
              /\ UNCHANGED <<error, faults>>
           \/ Fault /\ Throw(w, "obscure") /\ UNCHANGED view
    BY <1>0 DEF ReadRun
  <1>4. Working(w)
    BY <1>1 DEF Working, Outcomes
  <1>2. CASE Fault /\ Throw(w, "obscure") /\ UNCHANGED view
    BY <1>1, <1>2, <1>4, RefusedThrows DEF rows
  <1>3. CASE /\ view' = [view EXCEPT ![w] = v] /\ Continue(w, "heartbeat")
             /\ UNCHANGED <<error, faults>>
    <2>1. r \in Runs /\ run[r] \in Rows /\ run[r].status # "absent"
      BY <1>0, <1>1, BusyIsStarted
    <2>2. v \in Views /\ "heartbeat" \in WorkerSteps \ {"idle"}
      BY <2>1 DEF Rows, Views, WorkerSteps
    <2>3. /\ view' \in [Workers -> Views] /\ error' \in [Workers -> Exceptions]
          /\ view'[w] = v /\ \A x \in Workers \ {w} : view'[x] = view[x]
          /\ step'[w] = "heartbeat" /\ Run(w)' = r
      BY <1>0, <1>1, <1>3, <2>2 DEF Continue, Run, TeamsInv, TeamsTyped, WorkersTyped
    <2>4. /\ v.requested = run[r].requested /\ v.op = run[r].op
          /\ v.team = run[r].team /\ v.saved = run[r].team
      OBVIOUS
    <2>5. RowsTyped'
      BY <1>1, <1>3 DEF TeamsInv, TeamsTyped, RowsTyped, rows, graph
    <2>6. /\ \A q \in Runs : run'[q] = run[q] /\ posts'[q] = posts[q] /\ Made(q)' = Made(q)
          /\ UNCHANGED <<graph, link, job, run>>
      BY <1>1, GraphKept DEF graph, rows
    <2>7. ASSUME r \notin overlapped, Truthful(r)
          PROVE  RowTruthful(r)' /\ DoubtHolds(r)' /\ WorkerTruthful(w)'
      <3>1. RowTruthful(r) /\ DoubtHolds(r)
        BY <2>7 DEF Truthful
      <3>2. RowTruthful(r)' /\ DoubtHolds(r)'
        <4> HIDE DEF v
        <4> QED BY <2>1, <2>6, <3>1, RowTells DEF DoubtHolds, InDoubt, Unknown
      <3>3. WorkerTruthful(w)'
        <4> HIDE DEF v
        <4>1. \A k : Sound(r, k)' <=> Sound(r, k)
          BY <2>1, <2>6, ToldKept
        <4> QED BY <2>1, <2>3, <2>4, <2>6, <3>1, <4>1 DEF WorkerTruthful, RowTruthful, WorkSteps
      <3> QED BY <3>2, <3>3
    <2> QED BY <1>0, <1>1, <1>3, <1>4, <2>1, <2>2, <2>3, <2>5, <2>6, <2>7, WorkerStays
  <1> QED BY <1>1, <1>2, <1>3

LEMMA HeartbeatKeeps == ASSUME TeamsInv, NEW w \in Workers, Heartbeat(w) PROVE TeamsInv'
  <1>0. PICK r : r = Run(w)
    OBVIOUS
  <1> DEFINE v == view[w]
             row == [run[r] EXCEPT !.status = "IN_PROGRESS"]
             next == IF Unclear(v) THEN "unclear"
                     ELSE IF v.op # 0 THEN "poll"
                     ELSE IF v.team # 0 THEN "attach" ELSE "request"
  <1>1. /\ step[w] = "heartbeat" /\ UNCHANGED <<job, link, graph, on, view, request, history>>
        /\ \/ Write(r, row) /\ Continue(w, next) /\ UNCHANGED error
           \/ Throw(w, "obscure") /\ UNCHANGED run
    BY <1>0 DEF Heartbeat
  <1>2. /\ r \in Runs /\ run[r] \in Rows /\ run[r].status # "absent" /\ v \in Views
    BY <1>0, <1>1, BusyIsStarted
  <1>3. UNCHANGED <<overlapped, unseen, faults>> /\ Working(w)
    BY <1>1 DEF history, Working, Outcomes
  <1>4. CASE Throw(w, "obscure") /\ UNCHANGED run
    BY <1>1, <1>3, <1>4, WorkerThrows, Unwritten DEF Exceptions
  <1>5. CASE Write(r, row) /\ Continue(w, next) /\ UNCHANGED error
    <2>1. /\ row \in Rows /\ row.status = "IN_PROGRESS" /\ row.error = run[r].error
          /\ row.requested = run[r].requested /\ row.op = run[r].op
          /\ row.team = run[r].team /\ row.resolved = run[r].resolved
      BY <1>2 DEF Rows, Statuses, Active
    <2>2. next \in WorkerSteps \ {"idle"} /\ next # "error" /\ next # "read"
      BY DEF WorkerSteps, WorkSteps
    <2>3. /\ next = "unclear" <=> Unclear(v)
          /\ next = "poll" => v.op # 0
          /\ next = "attach" => v.op = 0 /\ v.team # 0
          /\ next = "request" => v.op = 0 /\ v.team = 0 /\ ~v.requested
          /\ next \in {"unclear", "poll", "attach", "request"}
      BY <1>2 DEF Unclear, Views
    <2> HIDE DEF row, next
    <2>4. /\ run' \in [Runs -> Rows] /\ \A q \in Runs \ {r} : run'[q] = run[q]
          /\ run'[r].requested = run[r].requested /\ run'[r].op = run[r].op
          /\ run'[r].team = run[r].team /\ run'[r].resolved = run[r].resolved
          /\ run'[r].error = run[r].error /\ run'[r].status = "IN_PROGRESS"
          /\ run'[r].stale = FALSE
      BY <1>2, <1>5, <2>1, WriteRow DEF TeamsInv, TeamsTyped
    <2>5. RowsTyped'
      BY <1>1, <1>3, <2>4 DEF TeamsInv, TeamsTyped, RowsTyped, graph
    <2>6. /\ \A q \in Runs : posts'[q] = posts[q] /\ Made(q)' = Made(q)
          /\ view' = view /\ on' = on /\ error' = error
      BY <1>1, <1>5, GraphKept DEF graph
    <2>7. step'[w] = next /\ Run(w)' = r
      BY <1>0, <1>5, <2>6 DEF Continue, Run, TeamsInv, TeamsTyped, WorkersTyped
    <2>8. ASSUME Truthful(r), r \notin overlapped, WorkerTruthful(w)
          PROVE  RowTruthful(r)' /\ DoubtHolds(r)' /\ WorkerTruthful(w)'
      <3>1. RowTruthful(r) /\ DoubtHolds(r)
        BY <2>8 DEF Truthful
      <3>2. /\ v.requested = run[r].requested /\ v.op = run[r].op
            /\ run[r].resolved # "TEAM_FOUND" => v.team = run[r].team
            /\ v.op # 0 => v.team \in {0, v.op}
            /\ v.op = 0 /\ v.team # 0 => Sound(r, v.team)
        BY <1>0, <1>1, <2>8 DEF WorkerTruthful
      <3>3. RowTruthful(r)' /\ DoubtHolds(r)'
        BY <1>1, <1>2, <2>4, <3>1, RowTells DEF DoubtHolds, InDoubt, Unknown
      <3>4. next = "unclear" /\ run[r].resolved # "TEAM_FOUND" => Doubtful(r)'
        BY <1>2, <2>3, <2>4, <3>2 DEF Unclear, Doubtful
      <3>5. next # "unclear" => ~Closed(r)'
        BY <1>2, <2>3, <2>4, <3>1, <3>2 DEF DoubtHolds, Closed, Unclear
      <3>11. next = "request" => ~InDoubt(r)' /\ run'[r].resolved = "none"
        BY <1>2, <2>3, <2>4, <3>1, <3>2
           DEF DoubtHolds, InDoubt, Unknown, Doubtful, RowTruthful
      <3>6. v' = v /\ posts' = posts /\ Made(r)' = Made(r) /\ \A k : Sound(r, k)' <=> Sound(r, k)
        BY <1>1, <1>2, <2>4, <2>6, ToldKept DEF graph
      <3>7. CASE next = "unclear"
        BY <2>7, <3>3, <3>4, <3>7, <2>4 DEF WorkerTruthful, WorkSteps
      <3>8. CASE next = "poll"
        BY <2>3, <2>4, <2>7, <3>2, <3>3, <3>5, <3>6, <3>8 DEF WorkerTruthful, WorkSteps
      <3>9. CASE next = "attach"
        BY <2>3, <2>4, <2>7, <3>2, <3>3, <3>5, <3>6, <3>9 DEF WorkerTruthful, WorkSteps
      <3>10. CASE next = "request"
        BY <2>3, <2>4, <2>7, <3>2, <3>3, <3>5, <3>10, <3>11 DEF WorkerTruthful, WorkSteps
      <3> QED BY <2>3, <3>7, <3>8, <3>9, <3>10
    <2>9. error' \in [Workers -> Exceptions] /\ view' \in [Workers -> Views]
      BY <2>6 DEF TeamsInv, TeamsTyped, WorkersTyped
    <2> QED BY <1>0, <1>1, <1>2, <1>3, <1>5, <2>2, <2>4, <2>5, <2>6, <2>8, <2>9, WorkerStays
  <1> QED BY <1>1, <1>4, <1>5

\* failRunIfNotTerminal leaves what the row tells, and says UNKNOWN of a doubtful run.
LEMMA FailTells ==
    ASSUME TeamsInv, NEW r \in Runs, NEW code \in Errors, FailIfActive(r, code) \/ UNCHANGED run,
           run[r].status # "absent", UNCHANGED <<graph, link>>
    PROVE  /\ run' \in [Runs -> Rows] /\ \A q \in Runs \ {r} : run'[q] = run[q]
           /\ run'[r].status # "absent"
           /\ RowTruthful(r) /\ DoubtHolds(r)
                 /\ (code = "UNKNOWN" /\ run[r].resolved = "none" => Doubtful(r))
              => RowTruthful(r)' /\ DoubtHolds(r)'
  <1>1. RowsTyped /\ run[r] \in Rows
    BY DEF TeamsInv, TeamsTyped, RowsTyped
  <1>2. \/ Write(r, Failed(run[r], code))
        \/ UNCHANGED run
    BY DEF FailIfActive
  <1>3. /\ run' \in [Runs -> Rows] /\ \A q \in Runs \ {r} : run'[q] = run[q]
        /\ run'[r].requested = run[r].requested /\ run'[r].op = run[r].op
        /\ run'[r].team = run[r].team /\ run'[r].resolved = run[r].resolved
        /\ run'[r].error \in {code, run[r].error}
        /\ run'[r].status \in {"FAILED", run[r].status}
    <2>1. CASE Write(r, Failed(run[r], code))
      <3> DEFINE row == Failed(run[r], code)
      <3>1. /\ row \in Rows /\ row.status = "FAILED" /\ row.error = code
            /\ row.requested = run[r].requested /\ row.op = run[r].op
            /\ row.team = run[r].team /\ row.resolved = run[r].resolved
        BY <1>1, FailedRow
      <3>2. Write(r, row)
        BY <2>1
      <3> HIDE DEF row
      <3> QED BY <1>1, <3>1, <3>2, WriteRow
    <2>2. CASE UNCHANGED run
      BY <1>1, <2>2 DEF RowsTyped
    <2> QED BY <1>2, <2>1, <2>2
  <1>4. ASSUME RowTruthful(r), DoubtHolds(r),
               code = "UNKNOWN" /\ run[r].resolved = "none" => Doubtful(r)
        PROVE  RowTruthful(r)' /\ DoubtHolds(r)'
    <2>1. run'[r].error = "UNKNOWN" /\ run[r].resolved = "none" => Doubtful(r)
      BY <1>3, <1>4 DEF DoubtHolds, InDoubt, Unknown
    <2> QED BY <1>3, <1>4, <2>1, RowTells
  <1> QED BY <1>3, <1>4

\* An attempt is over, and its job is still to be moved.
LEMMA WorkerOver ==
    ASSUME TeamsInv, NEW w \in Workers, Working(w),
           NEW next \in {"completed", "failed"}, Continue(w, next),
           UNCHANGED <<job, link, graph, on, view, error, request, overlapped, unseen>>,
           faults' \in 0 .. MaxFaults,
           NEW r, r = Run(w), run' \in [Runs -> Rows],
           \A q \in Runs \ {r} : run'[q] = run[q], run'[r].status # "absent",
           r \notin overlapped /\ Truthful(r) /\ WorkerTruthful(w) =>
               RowTruthful(r)' /\ DoubtHolds(r)'
    PROVE  TeamsInv'
  <1>1. r \in Runs
    BY BusyIsStarted DEF Working
  <1>2. RowsTyped'
    BY DEF TeamsInv, TeamsTyped, RowsTyped, graph
  <1>3. \A q \in Runs : posts'[q] = posts[q] /\ Made(q)' = Made(q)
    BY GraphKept DEF graph
  <1>4. /\ error' \in [Workers -> Exceptions] /\ view' \in [Workers -> Views]
        /\ next \in WorkerSteps \ {"idle"} /\ step'[w] = next
    BY DEF TeamsInv, TeamsTyped, WorkersTyped, WorkerSteps, Continue
  <1>5. WorkerTruthful(w)'
    BY <1>4 DEF WorkerTruthful, WorkSteps
  <1> QED BY <1>1, <1>2, <1>3, <1>4, <1>5, WorkerStays

LEMMA DeclareUnknownKeeps ==
    ASSUME TeamsInv, NEW w \in Workers, DeclareUnknown(w) PROVE TeamsInv'
  <1>0. PICK r : r = Run(w)
    OBVIOUS
  <1>1. /\ step[w] = "unclear" /\ FailIfActive(r, "UNKNOWN") /\ Continue(w, "completed")
        /\ UNCHANGED <<job, link, graph, on, view, error, request, overlapped, unseen>>
        /\ faults' = faults /\ Working(w)
    BY <1>0 DEF DeclareUnknown, history, Working, Outcomes
  <1>2. /\ r \in Runs /\ run[r] \in Rows /\ run[r].status # "absent"
    BY <1>0, <1>1, BusyIsStarted
  <1>3. /\ run' \in [Runs -> Rows] /\ \A q \in Runs \ {r} : run'[q] = run[q]
        /\ run'[r].status # "absent"
        /\ RowTruthful(r) /\ DoubtHolds(r) /\ (run[r].resolved = "none" => Doubtful(r))
              => RowTruthful(r)' /\ DoubtHolds(r)'
    BY <1>1, <1>2, FailTells DEF Errors
  <1>4. r \notin overlapped /\ Truthful(r) /\ WorkerTruthful(w) =>
            RowTruthful(r)' /\ DoubtHolds(r)'
    BY <1>0, <1>1, <1>3 DEF Truthful, WorkerTruthful
  <1> QED BY <1>0, <1>1, <1>3, <1>4, WorkerOver, Unwritten

LEMMA RequestCreationKeeps ==
    ASSUME TeamsInv, NEW w \in Workers, RequestCreation(w) PROVE TeamsInv'
  <1>0. PICK r : r = Run(w)
    OBVIOUS
  <1> DEFINE row == [run[r] EXCEPT !.requested = TRUE]
  <1>1. /\ step[w] = "request"
        /\ UNCHANGED <<job, link, graph, on, view, request, overlapped, unseen>>
        /\ \/ Write(r, row) /\ Continue(w, "post") /\ UNCHANGED <<error, faults>>
           \/ Fault /\ Throw(w, "obscure") /\ UNCHANGED run
    BY <1>0 DEF RequestCreation
  <1>5. Working(w)
    BY <1>1 DEF Working, Outcomes
  <1>2. /\ r \in Runs /\ run[r] \in Rows /\ run[r].status # "absent"
    BY <1>0, <1>1, BusyIsStarted
  <1>3. CASE Fault /\ Throw(w, "obscure") /\ UNCHANGED run
    BY <1>1, <1>3, <1>5, RefusedThrows
  <1>4. CASE Write(r, row) /\ Continue(w, "post") /\ UNCHANGED <<error, faults>>
    <2>1. /\ row \in Rows /\ row.status = run[r].status /\ row.error = run[r].error
          /\ row.requested = TRUE /\ row.op = run[r].op
          /\ row.team = run[r].team /\ row.resolved = run[r].resolved
      BY <1>2 DEF Rows
    <2> HIDE DEF row
    <2>2. /\ run' \in [Runs -> Rows] /\ \A q \in Runs \ {r} : run'[q] = run[q]
          /\ run'[r].requested = TRUE /\ run'[r].op = run[r].op
          /\ run'[r].team = run[r].team /\ run'[r].resolved = run[r].resolved
          /\ run'[r].error = run[r].error /\ run'[r].status = run[r].status
          /\ run'[r].stale = FALSE
      BY <1>2, <1>4, <2>1, WriteRow DEF TeamsInv, TeamsTyped
    <2>3. RowsTyped'
      BY <1>1, <1>4, <2>2 DEF TeamsInv, TeamsTyped, RowsTyped, graph
    <2>4. /\ \A q \in Runs : posts'[q] = posts[q] /\ Made(q)' = Made(q)
          /\ view' = view /\ on' = on /\ error' = error
      BY <1>1, <1>4, GraphKept DEF graph
    <2>5. step'[w] = "post" /\ Run(w)' = r
      BY <1>0, <1>4, <2>4 DEF Continue, Run, TeamsInv, TeamsTyped, WorkersTyped
    <2>6. ASSUME Truthful(r), r \notin overlapped, WorkerTruthful(w)
          PROVE  RowTruthful(r)' /\ DoubtHolds(r)' /\ WorkerTruthful(w)'
      <3>1. RowTruthful(r) /\ DoubtHolds(r)
        BY <2>6 DEF Truthful
      <3>2. ~InDoubt(r) /\ ~Closed(r) /\ ~run[r].requested /\ run[r].resolved = "none"
        BY <1>0, <1>1, <2>6 DEF WorkerTruthful, WorkSteps
      <3>3. posts[r] = 0 /\ run[r].team = 0 /\ run[r].op = 0
        BY <1>2, <3>1, <3>2 DEF RowTruthful, Rows
      <3>7. Unwatched(r)' <=> Unwatched(r)
        BY <2>2 DEF Unwatched
      <3>4. RowTruthful(r)'
        BY <1>1, <1>2, <2>2, <2>4, <3>1, <3>2, <3>3, <3>7 DEF RowTruthful
      <3>5. ~InDoubt(r)' /\ ~Closed(r)'
        BY <2>2, <3>2 DEF InDoubt, Unknown, Closed
      <3>6. WorkerTruthful(w)'
        BY <1>2, <2>2, <2>4, <2>5, <3>2, <3>3, <3>5 DEF WorkerTruthful, WorkSteps
      <3> QED BY <3>4, <3>5, <3>6 DEF DoubtHolds
    <2>7. error' \in [Workers -> Exceptions] /\ view' \in [Workers -> Views]
      BY <2>4 DEF TeamsInv, TeamsTyped, WorkersTyped
    <2>8. "post" \in WorkerSteps \ {"idle"}
      BY DEF WorkerSteps, WorkSteps
    <2> QED BY <1>0, <1>1, <1>2, <1>4, <1>5, <2>2, <2>3, <2>4, <2>6, <2>7, <2>8, WorkerStays
  <1> QED BY <1>1, <1>3, <1>4

\* What Graph accepts of one run adds to its Teams only.
LEMMA AcceptAdds ==
    ASSUME RowsTyped, NEW r \in Runs, Accept(r)
    PROVE  /\ posts' \in [Runs -> Nat] /\ doomed' \in SUBSET (Runs \X Nat)
           /\ posts'[r] = posts[r] + 1 /\ Made(r) \subseteq Made(r)'
           /\ \A q \in Runs \ {r} : posts'[q] = posts[q] /\ Made(q)' = Made(q)
  <1>1. /\ posts \in [Runs -> Nat] /\ doomed \in SUBSET (Runs \X Nat)
        /\ posts' = [posts EXCEPT ![r] = @ + 1]
        /\ doomed' \in {doomed, doomed \cup {Team(r, posts[r] + 1)}}
    BY DEF RowsTyped, Accept
  <1>2. posts[r] \in Nat /\ Team(r, posts[r] + 1) \in Runs \X Nat
    BY <1>1 DEF Team
  <1>3. /\ posts' \in [Runs -> Nat] /\ posts'[r] = posts[r] + 1
        /\ \A q \in Runs \ {r} : posts'[q] = posts[q]
    BY <1>1, <1>2
  <1>4. doomed' \in SUBSET (Runs \X Nat)
    BY <1>1, <1>2
  <1>5. Made(r) \subseteq Made(r)'
    <2> SUFFICES ASSUME NEW k \in 1 .. posts[r], Team(r, k) \notin doomed
                 PROVE  k \in 1 .. posts'[r] /\ Team(r, k) \notin doomed'
      BY DEF Made
    <2>1. k # posts[r] + 1 /\ k \in 1 .. posts'[r]
      BY <1>2, <1>3
    <2> QED BY <1>1, <2>1 DEF Team
  <1>6. ASSUME NEW q \in Runs \ {r} PROVE Made(q)' = Made(q)
    <2>1. \A k \in 1 .. posts[q] : Team(q, k) # Team(r, posts[r] + 1)
      BY <1>6 DEF Team
    <2>2. \A k \in 1 .. posts[q] : Team(q, k) \in doomed' <=> Team(q, k) \in doomed
      BY <1>1, <2>1
    <2> QED BY <1>3, <1>6, <2>2 DEF Made
  <1> QED BY <1>3, <1>4, <1>5, <1>6

LEMMA CreateTeamKeeps == ASSUME TeamsInv, NEW w \in Workers, CreateTeam(w) PROVE TeamsInv'
  <1>0. PICK r : r = Run(w)
    OBVIOUS
  <1>1. /\ step[w] = "post" /\ UNCHANGED <<rows, on, request, overlapped, unseen>>
        /\ \/ /\ Accept(r) /\ view' = [view EXCEPT ![w].op = posts[r] + 1]
              /\ Continue(w, "record") /\ UNCHANGED <<error, faults>>
           \/ Fault /\ Accept(r) /\ Throw(w, "obscure") /\ UNCHANGED view
           \/ Refused(w) /\ UNCHANGED <<graph, view>>
    BY <1>0 DEF CreateTeam
  <1>5. Working(w)
    BY <1>1 DEF Working, Outcomes
  <1>2. /\ r \in Runs /\ run[r] \in Rows /\ run[r].status # "absent" /\ view[w] \in Views
    BY <1>0, <1>1, BusyIsStarted
  <1>3. CASE Refused(w) /\ UNCHANGED <<graph, view>>
    BY <1>1, <1>3, <1>5, RefusedThrows DEF rows
  <1>4. CASE Accept(r) /\ ~(Refused(w) /\ UNCHANGED <<graph, view>>)
    <2>1. PICK next \in {"record", "error"} :
              /\ Continue(w, next)
              /\ next = "record" => view' = [view EXCEPT ![w].op = posts[r] + 1]
              /\ next = "error" => UNCHANGED view
              /\ error' \in [Workers -> Exceptions] /\ faults' \in 0 .. MaxFaults
      <3>1. error \in [Workers -> Exceptions] /\ faults \in 0 .. MaxFaults
        BY DEF TeamsInv, TeamsTyped, RowsTyped, WorkersTyped
      <3>2. CASE /\ view' = [view EXCEPT ![w].op = posts[r] + 1]
                 /\ Continue(w, "record") /\ UNCHANGED <<error, faults>>
        BY <3>1, <3>2
      <3>3. CASE Fault /\ Throw(w, "obscure") /\ UNCHANGED view
        BY <3>1, <3>3, Unwritten DEF Throw, Exceptions
      <3> QED BY <1>1, <1>4, <3>2, <3>3
    <2>2. /\ posts' \in [Runs -> Nat] /\ doomed' \in SUBSET (Runs \X Nat)
          /\ posts'[r] = posts[r] + 1 /\ Made(r) \subseteq Made(r)'
          /\ \A q \in Runs \ {r} : posts'[q] = posts[q] /\ Made(q)' = Made(q)
          /\ posts[r] \in Nat
      BY <1>2, <1>4, AcceptAdds DEF TeamsInv, TeamsTyped, RowsTyped
    <2>3. run' = run /\ job' = job /\ link' = link /\ on' = on /\ overlapped' = overlapped
      BY <1>1 DEF rows
    <2>4. RowsTyped'
      BY <1>1, <2>1, <2>2, <2>3 DEF TeamsInv, TeamsTyped, RowsTyped
    <2>5. /\ view' \in [Workers -> Views] /\ \A x \in Workers \ {w} : view'[x] = view[x]
          /\ next = "record" => view'[w].op = posts[r] + 1
      BY <1>2, <2>1, <2>2 DEF TeamsInv, TeamsTyped, WorkersTyped, Views
    <2>6. step'[w] = next /\ Run(w)' = r
      BY <1>0, <2>1, <2>3 DEF Continue, Run, TeamsInv, TeamsTyped, WorkersTyped
    <2>7. ASSUME Truthful(r), r \notin overlapped, WorkerTruthful(w)
          PROVE  RowTruthful(r)' /\ DoubtHolds(r)' /\ WorkerTruthful(w)'
      <3>1. RowTruthful(r) /\ DoubtHolds(r)
        BY <2>7 DEF Truthful
      <3>2. /\ ~run[r].stale /\ ~InDoubt(r) /\ ~Closed(r) /\ run[r].requested /\ posts[r] = 0
            /\ run[r].team = 0 /\ run[r].resolved = "none"
        BY <1>0, <1>1, <2>7 DEF WorkerTruthful, WorkSteps
      <3>9. run[r].op = 0 /\ ~Unwatched(r) /\ ~Unwatched(r)'
        BY <1>2, <2>3, <3>1, <3>2 DEF RowTruthful, Rows, Unwatched
      <3>3. Made(r) = {}
        BY <3>2 DEF Made
      <3>4. posts'[r] = 1
        BY <2>2, <3>2
      <3>5. RowTruthful(r)'
        BY <1>2, <2>3, <3>1, <3>2, <3>3, <3>4, <3>9 DEF RowTruthful, Rows
      <3>6. ~InDoubt(r)' /\ ~Closed(r)'
        BY <2>3, <3>2 DEF InDoubt, Unknown, Closed
      <3>7. CASE next = "record"
        <4>1. view'[w].op = 1
          BY <2>5, <3>2, <3>7
        <4>2. WorkerTruthful(w)'
          BY <2>3, <2>6, <3>2, <3>4, <3>6, <3>7, <3>9, <4>1 DEF WorkerTruthful, WorkSteps
        <4> QED BY <3>5, <3>6, <4>2 DEF DoubtHolds
      <3>8. CASE next = "error"
        <4>1. WorkerTruthful(w)'
          BY <2>6, <3>8 DEF WorkerTruthful, WorkSteps
        <4> QED BY <3>5, <3>6, <4>1 DEF DoubtHolds
      <3> QED BY <2>1, <3>7, <3>8
    <2>8. next \in WorkerSteps \ {"idle"}
      BY <2>1 DEF WorkerSteps, WorkSteps
    <2> QED BY <1>0, <1>1, <1>2, <1>5, <2>1, <2>2, <2>3, <2>4, <2>5, <2>7, <2>8, WorkerStays
  <1> QED BY <1>1, <1>3, <1>4

LEMMA RecordCreationKeeps ==
    ASSUME TeamsInv, NEW w \in Workers, RecordCreation(w) PROVE TeamsInv'
  <1>0. PICK r, k : r = Run(w) /\ k = view[w].op
    OBVIOUS
  <1> DEFINE recorded(op, id) ==
               /\ Write(r, [run[r] EXCEPT !.op = op, !.team = id])
               /\ view' = [view EXCEPT ![w].op = op, ![w].team = id]
               /\ Continue(w, Pursued([op |-> op, team |-> id]))
               /\ UNCHANGED <<error, faults>>
  <1>1. /\ step[w] = "record" /\ UNCHANGED <<job, link, graph, on, request, overlapped, unseen>>
        /\ \/ \E op \in {0, k}, id \in {0, k} : recorded(op, id)
           \/ Fault /\ Throw(w, "obscure") /\ UNCHANGED <<run, view>>
    BY <1>0 DEF RecordCreation
  <1>2. /\ r \in Runs /\ run[r] \in Rows /\ run[r].status # "absent" /\ view[w] \in Views
    BY <1>0, <1>1, BusyIsStarted
  <1>5. Working(w)
    BY <1>1 DEF Working, Outcomes
  <1>3. CASE Fault /\ Throw(w, "obscure") /\ UNCHANGED <<run, view>>
    BY <1>1, <1>3, <1>5, RefusedThrows
  <1>4. ASSUME NEW op \in {0, k}, NEW id \in {0, k}, recorded(op, id) PROVE TeamsInv'
    <2> DEFINE row == [run[r] EXCEPT !.op = op, !.team = id]
    <2>1. k \in Nat /\ op \in Nat /\ id \in Nat
      BY <1>0, <1>2 DEF Views
    <2>2. Write(r, row) /\ UNCHANGED <<error, faults>>
      BY <1>4
    <2>0. PICK next \in {"poll", "attach", "unclear"} :
              /\ Continue(w, next)
              /\ next = "poll" => op # 0
              /\ next = "attach" => op = 0 /\ id # 0
              /\ next = "unclear" => op = 0 /\ id = 0
      BY <1>4 DEF Pursued
    <2>3. /\ row \in Rows /\ row.status = run[r].status /\ row.error = run[r].error
          /\ row.requested = run[r].requested /\ row.op = op
          /\ row.team = id /\ row.resolved = run[r].resolved
      BY <1>2, <2>1 DEF Rows
    <2>8. /\ view' \in [Workers -> Views] /\ \A x \in Workers \ {w} : view'[x] = view[x]
          /\ view'[w].op = op /\ view'[w].team = id
      BY <1>2, <1>4, <2>1 DEF TeamsInv, TeamsTyped, WorkersTyped, Views
    <2> HIDE DEF row, recorded
    <2>4. /\ run' \in [Runs -> Rows] /\ \A q \in Runs \ {r} : run'[q] = run[q]
          /\ run'[r].requested = run[r].requested /\ run'[r].op = op
          /\ run'[r].team = id /\ run'[r].resolved = run[r].resolved
          /\ run'[r].error = run[r].error /\ run'[r].status = run[r].status
          /\ run'[r].stale = FALSE
      BY <1>2, <2>3, <2>2, WriteRow DEF TeamsInv, TeamsTyped
    <2>5. RowsTyped'
      BY <1>1, <2>2, <2>4 DEF TeamsInv, TeamsTyped, RowsTyped, graph
    <2>6. /\ \A q \in Runs : posts'[q] = posts[q] /\ Made(q)' = Made(q)
          /\ on' = on /\ error' = error /\ link' = link
      BY <1>1, <2>2, GraphKept DEF graph
    <2>7. step'[w] = next /\ Run(w)' = r
      BY <1>0, <2>0, <2>6 DEF Continue, Run, TeamsInv, TeamsTyped, WorkersTyped
    <2>9. ASSUME Truthful(r), r \notin overlapped, WorkerTruthful(w)
          PROVE  RowTruthful(r)' /\ DoubtHolds(r)' /\ WorkerTruthful(w)'
      <3>1. RowTruthful(r) /\ DoubtHolds(r)
        BY <2>9 DEF Truthful
      <3>2. /\ ~InDoubt(r) /\ ~Closed(r) /\ run[r].resolved = "none"
            /\ k # 0 /\ k <= posts[r]
            /\ run[r].requested /\ run[r].op = 0 /\ run[r].team = 0
        BY <1>0, <1>1, <2>9 DEF WorkerTruthful, WorkSteps
      <3>3. ~Unwatched(r) /\ (op = 0 /\ id # 0 => Unwatched(r)' /\ Sound(r, id)')
        BY <2>4, <3>2 DEF Unwatched, Sound
      <3>4. op <= posts[r]
        BY <1>2, <2>1, <3>2 DEF TeamsInv, TeamsTyped, RowsTyped
      <3>5. RowTruthful(r)'
        BY <1>2, <2>4, <2>6, <3>1, <3>2, <3>3, <3>4 DEF RowTruthful
      <3>6. ~InDoubt(r)' /\ ~Closed(r)'
        BY <2>4, <3>2 DEF InDoubt, Unknown, Closed
      <3>7. next = "unclear" => Doubtful(r)'
        BY <2>0, <2>4, <3>2 DEF Doubtful
      <3>8. WorkerTruthful(w)'
        BY <2>0, <2>4, <2>7, <2>8, <3>3, <3>6, <3>7 DEF WorkerTruthful, WorkSteps
      <3> QED BY <3>5, <3>6, <3>8 DEF DoubtHolds
    <2>10. error' \in [Workers -> Exceptions] /\ next \in WorkerSteps \ {"idle"}
      BY <2>6 DEF TeamsInv, TeamsTyped, WorkersTyped, WorkerSteps, WorkSteps
    <2> QED BY <1>0, <1>1, <1>2, <1>5, <2>0, <2>4, <2>5, <2>6, <2>8, <2>9, <2>10, WorkerStays
  <1> QED BY <1>1, <1>3, <1>4

LEMMA PollKeeps == ASSUME TeamsInv, NEW w \in Workers, Poll(w) PROVE TeamsInv'
  <1>0. PICK r, v : r = Run(w) /\ v = view[w]
    OBVIOUS
  <1> DEFINE found(id) ==
               /\ view' = [view EXCEPT ![w].team = id]
               /\ (Write(r, [run[r] EXCEPT !.team = id]) /\ id # 0) \/ UNCHANGED run
               /\ Continue(w, IF id # 0 THEN "attach" ELSE "unclear")
               /\ UNCHANGED <<error, faults>>
  <1>1. /\ step[w] = "poll" /\ UNCHANGED <<job, link, graph, on, request, overlapped, unseen>>
        /\ \/ /\ Team(r, v.op) \notin doomed
              /\ \E id \in IF v.team # 0 THEN {v.team} ELSE {0, v.op} : found(id)
           \/ Throw(w, "asyncFailed") /\ UNCHANGED <<run, view, faults>>
           \/ Refused(w) /\ UNCHANGED <<run, view>>
    BY <1>0 DEF Poll
  <1>2. /\ r \in Runs /\ run[r] \in Rows /\ run[r].status # "absent" /\ v \in Views
    BY <1>0, <1>1, BusyIsStarted
  <1>6. Working(w)
    BY <1>1 DEF Working, Outcomes
  <1>3. CASE Refused(w) /\ UNCHANGED <<run, view>>
    BY <1>1, <1>3, <1>6, RefusedThrows
  <1>4. CASE Throw(w, "asyncFailed") /\ UNCHANGED <<run, view, faults>>
    BY <1>1, <1>4, <1>6, WorkerThrows, Unwritten DEF Exceptions
  <1>5. ASSUME Team(r, v.op) \notin doomed,
               NEW id \in IF v.team # 0 THEN {v.team} ELSE {0, v.op}, found(id)
        PROVE  TeamsInv'
    <2>1. /\ v.op \in Nat /\ v.team \in Nat /\ id \in Nat
          /\ v.team \in {0, v.op} => id \in {0, v.op}
      BY <1>2 DEF Views
    <2> DEFINE row == [run[r] EXCEPT !.team = id]
    <2>2. /\ row \in Rows /\ row.status = run[r].status /\ row.error = run[r].error
          /\ row.requested = run[r].requested /\ row.op = run[r].op
          /\ row.team = id /\ row.resolved = run[r].resolved
      BY <1>2, <2>1 DEF Rows
    <2>0. PICK next \in {"attach", "unclear"} : Continue(w, next) /\ (next = "attach" <=> id # 0)
      BY <1>5
    <2>3. Write(r, row) \/ UNCHANGED run
      BY <1>5
    <2>8. /\ view' \in [Workers -> Views] /\ \A x \in Workers \ {w} : view'[x] = view[x]
          /\ view'[w].op = v.op /\ view'[w].team = id
      BY <1>0, <1>2, <1>5, <2>1 DEF TeamsInv, TeamsTyped, WorkersTyped, Views
    <2>11. UNCHANGED <<error, faults>>
      BY <1>5
    <2> HIDE DEF row, found
    <2>4. /\ run' \in [Runs -> Rows] /\ \A q \in Runs \ {r} : run'[q] = run[q]
          /\ run'[r].requested = run[r].requested /\ run'[r].op = run[r].op
          /\ run'[r].team \in {id, run[r].team} /\ run'[r].resolved = run[r].resolved
          /\ run'[r].error = run[r].error /\ run'[r].status = run[r].status
          /\ run[r].stale = FALSE => run'[r].stale = FALSE
      BY <1>2, <2>2, <2>3, WriteRow DEF TeamsInv, TeamsTyped, RowsTyped
    <2>5. RowsTyped'
      BY <1>1, <2>4, <2>11 DEF TeamsInv, TeamsTyped, RowsTyped, graph
    <2>6. /\ \A q \in Runs : posts'[q] = posts[q] /\ Made(q)' = Made(q)
          /\ on' = on /\ error' = error /\ link' = link
      BY <1>1, <2>11, GraphKept DEF graph
    <2>7. step'[w] = next /\ Run(w)' = r
      BY <1>0, <2>0, <2>6 DEF Continue, Run, TeamsInv, TeamsTyped, WorkersTyped
    <2>9. ASSUME Truthful(r), r \notin overlapped, WorkerTruthful(w)
          PROVE  RowTruthful(r)' /\ DoubtHolds(r)' /\ WorkerTruthful(w)'
      <3>1. RowTruthful(r) /\ DoubtHolds(r)
        BY <2>9 DEF Truthful
      <3>2. /\ ~run[r].stale /\ ~Closed(r)
            /\ v.op # 0 /\ v.op = run[r].op /\ v.team \in {0, v.op}
        BY <1>0, <1>1, <2>9 DEF WorkerTruthful, WorkSteps
      <3>3. id \in {0, v.op} /\ run[r].op <= posts[r] /\ posts[r] \in Nat
        BY <1>2, <2>1, <3>1, <3>2 DEF RowTruthful, TeamsInv, TeamsTyped, RowsTyped
      <3>4. Team(r, v.op) \in Made(r)
        <4>1. v.op \in 1 .. posts[r]
          BY <2>1, <3>2, <3>3
        <4> QED BY <1>5, <4>1 DEF Made
      <3>5. run[r].requested
        BY <2>1, <3>1, <3>2, <3>3 DEF RowTruthful
      <3>6. ~Unwatched(r) /\ ~Unwatched(r)'
        BY <2>4, <3>2 DEF Unwatched
      <3>7. RowTruthful(r)'
        BY <1>2, <2>4, <2>6, <3>1, <3>2, <3>3, <3>5, <3>6 DEF RowTruthful
      <3>8. Doubtful(r)' /\ Sound(r, v.op)'
        BY <1>2, <2>4, <2>6, <3>2, <3>4, <3>5 DEF Doubtful, Sound
      <3>9. ~Closed(r)' /\ ~run'[r].stale
        BY <1>2, <2>4, <3>2 DEF Closed, Rows
      <3>10. WorkerTruthful(w)'
        BY <2>0, <2>4, <2>7, <2>8, <3>2, <3>3, <3>8, <3>9 DEF WorkerTruthful, WorkSteps
      <3> QED BY <3>7, <3>8, <3>9, <3>10 DEF DoubtHolds
    <2>10. error' \in [Workers -> Exceptions] /\ next \in WorkerSteps \ {"idle"}
      BY <2>6 DEF TeamsInv, TeamsTyped, WorkersTyped, WorkerSteps, WorkSteps
    <2> QED BY <1>0, <1>1, <1>2, <1>6, <2>0, <2>4, <2>5, <2>6, <2>8, <2>9, <2>10, WorkerStays
  <1> QED BY <1>1, <1>3, <1>4, <1>5

LEMMA AttachKeeps == ASSUME TeamsInv, NEW w \in Workers, Attach(w) PROVE TeamsInv'
  <1>0. PICK r : r = Run(w)
    OBVIOUS
  <1> DEFINE next == IF step[w] = "attach" THEN "channels" ELSE "complete"
             attached == /\ link' = Team(r, view[w].team) /\ Write(r, run[r])
                         /\ Continue(w, next) /\ UNCHANGED <<error, faults>>
  <1>1. /\ step[w] \in {"attach", "channels"}
        /\ UNCHANGED <<job, graph, on, view, request, overlapped, unseen>>
        /\ \/ attached
           \/ Throw(w, "clear") /\ UNCHANGED <<run, link, faults>>
           \/ Refused(w) /\ UNCHANGED <<run, link>>
    BY <1>0 DEF Attach
  <1>5. Working(w)
    BY <1>1 DEF Working, Outcomes
  <1>2. /\ r \in Runs /\ run[r] \in Rows /\ run[r].status # "absent" /\ view[w] \in Views
    BY <1>0, <1>1, BusyIsStarted
  <1>3. CASE Refused(w) /\ UNCHANGED <<run, link>>
    BY <1>1, <1>3, <1>5, RefusedThrows
  <1>6. CASE Throw(w, "clear") /\ UNCHANGED <<run, link, faults>>
    BY <1>1, <1>5, <1>6, WorkerThrows, Unwritten DEF Exceptions
  <1>4. CASE attached
    <2>1. /\ run' \in [Runs -> Rows] /\ \A q \in Runs \ {r} : run'[q] = run[q]
          /\ run'[r].requested = run[r].requested /\ run'[r].op = run[r].op
          /\ run'[r].team = run[r].team /\ run'[r].resolved = run[r].resolved
          /\ run'[r].error = run[r].error /\ run'[r].status = run[r].status
          /\ run'[r].stale = FALSE
      BY <1>2, <1>4, WriteRow DEF TeamsInv, TeamsTyped
    <2>2. link' \in Runs \X Nat /\ link'[1] = r
      BY <1>2, <1>4 DEF Team, Views
    <2>3. RowsTyped'
      BY <1>1, <1>4, <2>1, <2>2 DEF TeamsInv, TeamsTyped, RowsTyped, graph
    <2>4. /\ \A q \in Runs : posts'[q] = posts[q] /\ Made(q)' = Made(q)
          /\ on' = on /\ error' = error /\ view' = view
      BY <1>1, <1>4, GraphKept DEF graph
    <2>5. PICK n \in {"channels", "complete"} : n = next
      OBVIOUS
    <2>6. step'[w] = n /\ Run(w)' = r /\ Continue(w, n)
      BY <1>0, <1>4, <2>4, <2>5 DEF Continue, Run, TeamsInv, TeamsTyped, WorkersTyped
    <2>7. ASSUME Truthful(r), r \notin overlapped, WorkerTruthful(w)
          PROVE  RowTruthful(r)' /\ DoubtHolds(r)' /\ WorkerTruthful(w)'
      <3>1. RowTruthful(r) /\ DoubtHolds(r)
        BY <2>7 DEF Truthful
      <3>2. /\ ~Closed(r) /\ view[w].team # 0 /\ Sound(r, view[w].team)
            /\ view[w].op = run[r].op /\ (view[w].op # 0 => view[w].team \in {0, view[w].op})
        BY <1>0, <1>1, <2>7 DEF WorkerTruthful, WorkSteps
      <3>6. /\ Unwatched(r)' <=> Unwatched(r)
            /\ Doubtful(r)' <=> Doubtful(r)
            /\ Closed(r)' <=> Closed(r)
            /\ \A k : Sound(r, k)' <=> Sound(r, k)
        BY <1>2, <2>1, <2>4, ToldKept
      <3>7. link' \in Made(r) \/ Unwatched(r)
        BY <1>4, <3>2 DEF Sound
      <3>3. RowTruthful(r)'
        BY <1>2, <2>1, <2>4, <3>1, <3>6, <3>7 DEF RowTruthful
      <3>4. (InDoubt(r)' => InDoubt(r)) /\ ~Closed(r)'
        BY <2>1, <3>2 DEF InDoubt, Unknown, Closed
      <3>5. WorkerTruthful(w)'
        BY <1>2, <2>1, <2>4, <2>6, <3>2, <3>4, <3>6 DEF WorkerTruthful, WorkSteps
      <3> QED BY <3>1, <3>3, <3>4, <3>5, <3>6 DEF DoubtHolds
    <2>8. /\ error' \in [Workers -> Exceptions] /\ view' \in [Workers -> Views]
          /\ n \in WorkerSteps \ {"idle"}
      BY <2>4 DEF TeamsInv, TeamsTyped, WorkersTyped, WorkerSteps, WorkSteps
    <2> QED BY <1>0, <1>1, <1>2, <1>5, <2>1, <2>2, <2>3, <2>4, <2>6, <2>7, <2>8, WorkerStays
  <1> QED BY <1>1, <1>3, <1>4, <1>6

LEMMA CompleteKeeps == ASSUME TeamsInv, NEW w \in Workers, Complete(w) PROVE TeamsInv'
  <1>0. PICK r : r = Run(w)
    OBVIOUS
  <1> DEFINE row(code) == [run[r] EXCEPT
                 !.status = IF code = "none" THEN "COMPLETED" ELSE "PARTIAL",
                 !.error = code, !.team = view[w].team]
             done(code) == /\ Write(r, row(code))
                           /\ Continue(w, "completed") /\ UNCHANGED <<error, faults>>
  <1>1. /\ step[w] = "complete"
        /\ UNCHANGED <<job, link, graph, on, view, request, overlapped, unseen>>
        /\ \/ \E code \in {"none", "RETRYABLE"} : done(code)
           \/ Fault /\ Throw(w, "obscure") /\ UNCHANGED run
    BY <1>0 DEF Complete
  <1>2. /\ r \in Runs /\ run[r] \in Rows /\ run[r].status # "absent" /\ view[w] \in Views
    BY <1>0, <1>1, BusyIsStarted
  <1>5. Working(w)
    BY <1>1 DEF Working, Outcomes
  <1>3. CASE Fault /\ Throw(w, "obscure") /\ UNCHANGED run
    BY <1>1, <1>3, <1>5, RefusedThrows
  <1>4. ASSUME NEW code \in {"none", "RETRYABLE"}, done(code) PROVE TeamsInv'
    <2> DEFINE written == row(code)
    <2>1. /\ written \in Rows /\ written.status \in {"COMPLETED", "PARTIAL"}
          /\ written.error = code /\ written.requested = run[r].requested
          /\ written.op = run[r].op /\ written.team = view[w].team
          /\ written.resolved = run[r].resolved
      BY <1>2 DEF Rows, Views, Statuses, Errors
    <2>2. Write(r, written) /\ Continue(w, "completed") /\ UNCHANGED <<error, faults>>
      BY <1>4
    <2> HIDE DEF written, row
    <2>3. /\ run' \in [Runs -> Rows] /\ \A q \in Runs \ {r} : run'[q] = run[q]
          /\ run'[r].requested = run[r].requested /\ run'[r].op = run[r].op
          /\ run'[r].team = view[w].team /\ run'[r].resolved = run[r].resolved
          /\ run'[r].error = code /\ run'[r].status \in {"COMPLETED", "PARTIAL"}
      BY <1>2, <2>1, <2>2, WriteRow DEF TeamsInv, TeamsTyped
    <2>4. posts' = posts /\ Made(r)' = Made(r)
      BY <1>1, <1>2, GraphKept DEF graph
    <2>5. ASSUME Truthful(r), r \notin overlapped, WorkerTruthful(w)
          PROVE  RowTruthful(r)' /\ DoubtHolds(r)'
      <3>1. RowTruthful(r)
        BY <2>5 DEF Truthful
      <3>2. /\ ~Closed(r) /\ view[w].op = run[r].op
            /\ view[w].op # 0 => view[w].team \in {0, view[w].op}
            /\ view[w].team # 0 /\ Sound(r, view[w].team)
        BY <1>0, <1>1, <2>5 DEF WorkerTruthful, WorkSteps
      <3>5. Unwatched(r) => Unwatched(r)'
        BY <2>3, <3>2 DEF Unwatched
      <3>6. Sound(r, view[w].team)'
        BY <1>1, <2>3, <2>4, <3>2, <3>5 DEF Sound
      <3>7. run[r].requested
        <4>1. ~run[r].requested => Made(r) = {} /\ run[r].team = 0
          BY <3>1 DEF RowTruthful, Made
        <4> QED BY <1>2, <3>2, <4>1 DEF Sound, Unwatched, Rows
      <3>3. RowTruthful(r)'
        BY <1>1, <2>3, <2>4, <3>1, <3>2, <3>5, <3>6, <3>7 DEF RowTruthful
      <3>4. ~InDoubt(r)' /\ ~Closed(r)'
        BY <2>3, <3>2 DEF InDoubt, Unknown, Closed
      <3> QED BY <3>3, <3>4 DEF DoubtHolds
    <2> QED BY <1>0, <1>1, <1>5, <2>2, <2>3, <2>5, WorkerOver, Unwritten
  <1> QED BY <1>1, <1>3, <1>4

LEMMA HandleErrorKeeps == ASSUME TeamsInv, NEW w \in Workers, HandleError(w) PROVE TeamsInv'
  <1>0. PICK r : r = Run(w)
    OBVIOUS
  <1>1. /\ step[w] = "error" /\ UNCHANGED <<link, graph, request, overlapped, unseen>>
        /\ faults' = faults \/ Fault
        /\ Working(w)
    BY DEF HandleError, Working, Outcomes
  <1>2. \/ EndJob(w, Retried(job[on[w]])) /\ UNCHANGED run
        \/ \E code \in Errors :
              /\ FailIfActive(r, code) /\ (code = "UNKNOWN" => Unclear(run[r]))
              /\ Continue(w, "failed") /\ UNCHANGED <<job, on, view, error>>
    BY <1>0 DEF HandleError, Errors
  <1>3. /\ r \in Runs /\ run[r] \in Rows /\ run[r].status # "absent"
        /\ Retried(job[on[w]]) \in JobRows /\ faults' \in 0 .. MaxFaults
    BY <1>0, <1>1, BusyIsStarted, OutcomesTyped, Unwritten
  <1>4. CASE EndJob(w, Retried(job[on[w]])) /\ UNCHANGED run
    BY <1>1, <1>3, <1>4, WorkerEnds
  <1>5. ASSUME NEW code \in Errors, FailIfActive(r, code), code = "UNKNOWN" => Unclear(run[r]),
               Continue(w, "failed"), UNCHANGED <<job, on, view, error>>
        PROVE  TeamsInv'
    <2>1. code = "UNKNOWN" => Doubtful(r)
      BY <1>5 DEF Unclear, Doubtful
    <2>2. /\ run' \in [Runs -> Rows] /\ \A q \in Runs \ {r} : run'[q] = run[q]
          /\ run'[r].status # "absent"
          /\ RowTruthful(r) /\ DoubtHolds(r) => RowTruthful(r)' /\ DoubtHolds(r)'
      BY <1>1, <1>3, <1>5, <2>1, FailTells
    <2>3. r \notin overlapped /\ Truthful(r) => RowTruthful(r)' /\ DoubtHolds(r)'
      BY <2>2 DEF Truthful
    <2> QED BY <1>0, <1>1, <1>3, <1>5, <2>2, <2>3, WorkerOver
  <1> QED BY <1>2, <1>4, <1>5

LEMMA AcknowledgeKeeps == ASSUME TeamsInv, NEW w \in Workers, Acknowledge(w) PROVE TeamsInv'
  <1>1. PICK outcome \in {Completed(job[on[w]]), GivenUp(job[on[w]])} :
            /\ step[w] # "idle" /\ EndJob(w, outcome)
            /\ UNCHANGED <<run, link, graph, request, overlapped, unseen>> /\ faults' = faults
    BY DEF Acknowledge, history
  <1> QED BY <1>1, BusyIsStarted, OutcomesTyped, WorkerEnds, Unwritten

LEMMA CrashKeeps == ASSUME TeamsInv, NEW w \in Workers, Crash(w) PROVE TeamsInv'
  BY BusyIsStarted, WorkerEnds, Unwritten DEF Crash

-------------------------------------------------------------------------------
(***************************************************************************)
(* The job queue                                                           *)
(***************************************************************************)
LEMMA RedeliverKeeps == ASSUME TeamsInv, NEW j \in Jobs, Redeliver(j) PROVE TeamsInv'
  <1>1. /\ job[j].state = "active" /\ on[job[j].worker] # j
        /\ job' = [job EXCEPT ![j] = Redelivered(job[j])]
        /\ UNCHANGED <<run, link, graph, worker, request, overlapped, unseen>>
        /\ faults' = faults
    BY DEF Redeliver, history
  <1>2. PICK r \in Runs, k \in 0 .. MaxRetries : j = <<r, k>>
    BY DEF Jobs
  <1>3. run[r].status # "absent"
    BY <1>1, <1>2 DEF TeamsInv, AbsentIsNew
  <1>4. /\ job' \in [Jobs -> JobRows]
        /\ \A i \in Jobs : i # j => job'[i] = job[i]
    BY <1>1, OutcomesTyped DEF TeamsInv, TeamsTyped, RowsTyped
  <1>5. TeamsTyped'
    <2>1. RowsTyped'
      BY <1>1, <1>4 DEF TeamsInv, TeamsTyped, RowsTyped, graph
    <2>2. WorkersTyped'
      BY <1>1 DEF TeamsInv, TeamsTyped, WorkersTyped, worker
    <2>3. CallersTyped'
      BY <1>1, StillMoves, GraphKept DEF TeamsInv, TeamsTyped
    <2> QED BY <2>1, <2>2, <2>3 DEF TeamsTyped
  <1>6. FirstJobIsNew'
    BY <1>1, <1>4, FirstJobStill
  <1>7. LocksHeld'
    <2> SUFFICES ASSUME NEW w \in Workers, step[w] # "idle" PROVE HoldsLock(w)'
      BY <1>1 DEF LocksHeld, worker
    <2>1. on[w] \in Jobs /\ job[on[w]].state = "active" /\ job[on[w]].worker = w
      BY BusyIsStarted
    <2>2. on[w] # j /\ on' = on
      BY <1>1, <2>1 DEF worker
    <2> QED BY <1>4, <2>1, <2>2 DEF HoldsLock
  <1>8. MildRow(r)
    BY <1>1, SameIsMild
  <1>9. Truthful(r)'
    BY <1>1, <1>8, TruthKept
  <1>10. OnlyRun(r)
    <2>1. \A q \in Runs : posts'[q] = posts[q] /\ Made(q)' = Made(q)
      BY <1>1, GraphKept DEF graph
    <2> QED BY <1>1, <1>2, <1>4, <2>1 DEF OnlyRun, worker
  <1>11. \A c \in Callers : about'[c] = about[c]
    BY <1>1 DEF request
  <1> QED BY <1>1, <1>3, <1>5, <1>6, <1>7, <1>9, <1>10, <1>11, RunKeeps

LEMMA TakeKeeps == ASSUME TeamsInv, NEW w \in Workers, Take(w) PROVE TeamsInv'
  <1>1. PICK j \in Jobs :
            /\ step[w] = "idle" /\ job[j].state = "waiting"
            /\ job' = [job EXCEPT ![j].state = "active", ![j].worker = w]
            /\ on' = [on EXCEPT ![w] = j] /\ step' = [step EXCEPT ![w] = "read"]
            /\ overlapped' = IF \E x \in Workers : Working(x) /\ Run(x) = j[1]
                             THEN overlapped \cup {j[1]} ELSE overlapped
            /\ UNCHANGED <<run, link, graph, view, error, request, unseen, faults>>
    BY DEF Take
  <1>2. PICK r \in Runs, k \in 0 .. MaxRetries : j = <<r, k>>
    BY DEF Jobs
  <1>3. run[r].status # "absent" /\ j[1] = r
    BY <1>1, <1>2 DEF TeamsInv, AbsentIsNew
  <1>4. /\ job' \in [Jobs -> JobRows]
        /\ \A i \in Jobs : i # j => job'[i] = job[i]
        /\ job'[j].state = "active" /\ job'[j].worker = w
    BY <1>1 DEF TeamsInv, TeamsTyped, RowsTyped, JobRows, JobStates
  <1>5. /\ step' \in [Workers -> WorkerSteps] /\ step'[w] = "read" /\ on'[w] = j
        /\ on' \in [Workers -> Jobs \cup {None}]
        /\ \A x \in Workers \ {w} : step'[x] = step[x] /\ on'[x] = on[x]
        /\ view' = view
    BY <1>1 DEF TeamsInv, TeamsTyped, WorkersTyped, WorkerSteps
  <1>6. TeamsTyped'
    <2>1. overlapped' \in SUBSET Runs
      BY <1>1, <1>3 DEF TeamsInv, TeamsTyped, RowsTyped
    <2>2. RowsTyped'
      BY <1>1, <1>4, <2>1 DEF TeamsInv, TeamsTyped, RowsTyped, graph
    <2>3. WorkersTyped'
      BY <1>1, <1>5 DEF TeamsInv, TeamsTyped, WorkersTyped
    <2>4. CallersTyped'
      BY <1>1, StillMoves, GraphKept DEF TeamsInv, TeamsTyped
    <2> QED BY <2>2, <2>3, <2>4 DEF TeamsTyped
  <1>7. FirstJobIsNew'
    BY <1>1, <1>4, FirstJobStill
  <1>8. LocksHeld'
    <2> SUFFICES ASSUME NEW x \in Workers, step'[x] # "idle" PROVE HoldsLock(x)'
      BY DEF LocksHeld
    <2>1. CASE x = w
      BY <1>4, <1>5, <2>1 DEF HoldsLock
    <2>2. CASE x # w
      <3>1. step[x] # "idle" /\ on'[x] = on[x]
        BY <1>5, <2>2
      <3>2. on[x] \in Jobs /\ job[on[x]].state = "active" /\ job[on[x]].worker = x
        BY <3>1, BusyIsStarted
      <3> QED BY <1>1, <1>4, <3>1, <3>2 DEF HoldsLock
    <2> QED BY <2>1, <2>2
  <1>9. \A x \in Workers, q \in Runs : Busy(x, q)' <=> Busy(x, q) \/ (x = w /\ q = r)
    <2>1. \A x \in Workers \ {w}, q \in Runs : Busy(x, q)' <=> Busy(x, q)
      BY <1>5 DEF Busy, Working, Run
    <2>2. \A q \in Runs : ~Busy(w, q)
      BY <1>1 DEF Busy, Working
    <2>3. \A q \in Runs : Busy(w, q)' <=> q = r
      BY <1>3, <1>5 DEF Busy, Working, Outcomes, Run
    <2> QED BY <2>1, <2>2, <2>3
  <1>10. overlapped \subseteq overlapped'
    BY <1>1
  <1>11. Truthful(r)'
    <2> SUFFICES ASSUME r \notin overlapped'
                 PROVE  /\ OneWorker(r)' /\ RowTruthful(r)' /\ DoubtHolds(r)'
                        /\ \A x \in Workers : Busy(x, r)' => WorkerTruthful(x)'
      BY DEF Truthful
    <2>1. \A x \in Workers : ~Busy(x, r)
      BY <1>1, <1>3 DEF Busy
    <2>2. RowTruthful(r) /\ DoubtHolds(r)
      BY <1>10 DEF TeamsInv, Truthful
    <2>3. UNCHANGED <<graph, link, run>>
      BY <1>1
    <2>4. RowTruthful(r)' /\ DoubtHolds(r)'
      BY <2>2, <2>3, RowTells DEF DoubtHolds, InDoubt, Unknown
    <2>5. OneWorker(r)'
      BY <1>9, <2>1 DEF OneWorker
    <2>6. WorkerTruthful(w)'
      BY <1>5 DEF WorkerTruthful, WorkSteps
    <2> QED BY <1>9, <2>1, <2>4, <2>5, <2>6
  <1>12. OnlyRun(r)
    <2>1. \A q \in Runs : posts'[q] = posts[q] /\ Made(q)' = Made(q)
      BY <1>1, GraphKept DEF graph
    <2>2. \A q \in Runs \ {r} : ~Busy(w, q) /\ ~Busy(w, q)'
      BY <1>1, <1>9 DEF Busy, Working
    <2> QED BY <1>1, <1>3, <1>4, <1>5, <1>10, <2>1, <2>2 DEF OnlyRun
  <1>13. \A c \in Callers : about'[c] = about[c]
    BY <1>1 DEF request
  <1> QED BY <1>1, <1>3, <1>6, <1>7, <1>8, <1>11, <1>12, <1>13, RunKeeps

-------------------------------------------------------------------------------
(***************************************************************************)
(* Requests and maintenance that change what a run tells                   *)
(***************************************************************************)
LEMMA RowKeeps ==
    ASSUME TeamsInv, RowsTyped', CallersTyped', FirstJobIsNew', NEW r \in Runs,
           UNCHANGED <<job, graph, worker, overlapped>>, link' = link \/ link'[1] = r,
           \A q \in Runs \ {r} : run'[q] = run[q], run'[r].status # "absent",
           \A c \in Callers : about'[c] \in {about[c], None, r},
           r \notin overlapped /\ Truthful(r) =>
               /\ RowTruthful(r)' /\ DoubtHolds(r)'
               /\ \A w \in Workers : Busy(w, r) /\ WorkerTruthful(w) => WorkerTruthful(w)'
    PROVE  TeamsInv'
  <1>1. step' = step /\ on' = on /\ view' = view /\ error' = error /\ posts' = posts
    BY DEF worker, graph
  <1>2. TeamsTyped'
    BY <1>1 DEF TeamsInv, TeamsTyped, WorkersTyped
  <1>3. LocksHeld'
    BY <1>1 DEF TeamsInv, LocksHeld, HoldsLock
  <1>4. OnlyRun(r)
    BY <1>1, GraphKept DEF OnlyRun
  <1>5. \A w \in Workers : Busy(w, r)' <=> Busy(w, r)
    BY <1>1 DEF Busy, Working, Run
  <1>6. Truthful(r)'
    <2> SUFFICES ASSUME r \notin overlapped
                 PROVE  /\ OneWorker(r)' /\ RowTruthful(r)' /\ DoubtHolds(r)'
                        /\ \A w \in Workers : Busy(w, r)' => WorkerTruthful(w)'
      BY DEF Truthful
    <2>1. Truthful(r) /\ OneWorker(r)
      BY DEF TeamsInv, Truthful
    <2>2. OneWorker(r)'
      BY <1>5, <2>1 DEF OneWorker
    <2>3. \A w \in Workers : Busy(w, r) => WorkerTruthful(w)
      BY <2>1 DEF Truthful
    <2> QED BY <1>5, <2>1, <2>2, <2>3
  <1> QED BY <1>2, <1>3, <1>4, <1>6, RunKeeps

\* A worker of a run that is resolved or given up under it.
LEMMA DoubtfulWorker ==
    ASSUME NEW r \in Runs, NEW w \in Workers, Busy(w, r), WorkerTruthful(w),
           UNCHANGED <<graph, worker>>,
           run'[r].requested = run[r].requested, run'[r].op = run[r].op,
           run'[r].resolved # "TEAM_FOUND" =>
               /\ run[r].resolved # "TEAM_FOUND" /\ run'[r].team = run[r].team
               /\ Doubtful(r) => Doubtful(r)',
           \A k : Sound(r, k) => Sound(r, k)',
           step[w] \notin WorkSteps \/ (InDoubt(r) /\ ~Closed(r)' /\ ~run'[r].stale)
    PROVE  WorkerTruthful(w)'
  <1>1. /\ step' = step /\ view' = view /\ Run(w) = r /\ Run(w)' = r
    BY DEF worker, Busy, Run
  <1>2. CASE step[w] \notin WorkSteps
    BY <1>1, <1>2 DEF WorkerTruthful, WorkSteps
  <1>3. CASE step[w] \in WorkSteps
    <2>1. step[w] \notin {"request", "post", "record", "heartbeat", "unclear"}
      BY <1>1, <1>3 DEF WorkerTruthful, WorkSteps
    <2> QED BY <1>1, <1>3, <2>1 DEF WorkerTruthful
  <1> QED BY <1>2, <1>3

LEMMA ConfirmKeeps ==
    ASSUME TeamsInv, ConfirmHolds, NEW c \in Callers, ConfirmNotCreated(c) PROVE TeamsInv'
  <1>0. PICK r : r = about[c]
    OBVIOUS
  <1> DEFINE row == [run[r] EXCEPT !.error = "CONFIRMED_NOT_CREATED",
                                   !.resolved = "CONFIRMED_NOT_CREATED"]
  <1>1. /\ at[c] = "confirmNotCreated" /\ Answer(c)
        /\ UNCHANGED <<job, link, graph, worker, overlapped>>
        /\ unseen' = unseen /\ faults' = faults
        /\ (Unresolved(run[r]) /\ Write(r, row)) \/ UNCHANGED run
    BY <1>0 DEF ConfirmNotCreated, history
  <1>2. /\ r \in Runs /\ run[r] \in Rows /\ run[r].status # "absent"
    BY <1>0, <1>1, NotAbsent DEF AskSteps
  <1>3. CASE UNCHANGED run
    BY <1>1, <1>3, SameIsMild, AnswerKeeps, Unwritten
  <1>4. CASE Unresolved(run[r]) /\ Write(r, row)
    <2>1. /\ row \in Rows /\ row.status = run[r].status
          /\ row.error = "CONFIRMED_NOT_CREATED" /\ row.resolved = "CONFIRMED_NOT_CREATED"
          /\ row.requested = run[r].requested /\ row.op = run[r].op /\ row.team = run[r].team
      BY <1>2 DEF Rows, Errors, Resolutions
    <2> HIDE DEF row
    <2>2. /\ run' \in [Runs -> Rows] /\ \A q \in Runs \ {r} : run'[q] = run[q]
          /\ run'[r].requested = run[r].requested /\ run'[r].op = run[r].op
          /\ run'[r].team = run[r].team /\ run'[r].resolved = "CONFIRMED_NOT_CREATED"
          /\ run'[r].error = "CONFIRMED_NOT_CREATED" /\ run'[r].status = run[r].status
      BY <1>2, <1>4, <2>1, WriteRow DEF TeamsInv, TeamsTyped
    <2>3. RowsTyped'
      BY <1>1, <2>2 DEF TeamsInv, TeamsTyped, RowsTyped, graph
    <2>4. CallersTyped' /\ Moved(c, "idle", None, Nothing)
      BY <1>1, AnswerMoves, GraphKept DEF TeamsInv, TeamsTyped
    <2>5. FirstJobIsNew'
      BY <1>1, <2>4, FirstJobKept
    <2>6. \A d \in Callers : about'[d] \in {about[d], None, r}
      BY <2>4 DEF Moved
    <2>7. InDoubt(r) /\ run[r].status = "FAILED" /\ run[r].resolved = "none"
      BY <1>4 DEF Unresolved, InDoubt, Unknown
    <2>8. ASSUME r \notin overlapped, Truthful(r)
          PROVE  /\ RowTruthful(r)' /\ DoubtHolds(r)'
                 /\ \A w \in Workers : Busy(w, r) /\ WorkerTruthful(w) => WorkerTruthful(w)'
      <3>1. RowTruthful(r) /\ DoubtHolds(r)
        BY <2>8 DEF Truthful
      <3>2. posts' = posts /\ Made(r)' = Made(r)
        BY <1>1, <1>2, GraphKept DEF graph
      <3>3. run[r].requested /\ Made(r) = {}
        BY <1>0, <1>1, <2>8 DEF ConfirmHolds, Denied
      <3>4. run[r].op = 0 /\ run[r].team = 0
        BY <2>7, <3>1, <3>3 DEF DoubtHolds, Doubtful
      <3>5. ~Unwatched(r) /\ ~Unwatched(r)' /\ \A k : ~Sound(r, k)
        BY <2>2, <3>3, <3>4 DEF Unwatched, Sound
      <3>6. RowTruthful(r)'
        BY <1>1, <2>2, <3>1, <3>2, <3>3, <3>4, <3>5 DEF RowTruthful
      <3>7. DoubtHolds(r)'
        BY <2>2, <2>7, <3>3, <3>4 DEF DoubtHolds, InDoubt, Unknown, Closed, Unclear
      <3>8. ASSUME NEW w \in Workers, Busy(w, r), WorkerTruthful(w) PROVE WorkerTruthful(w)'
        <4>1. Run(w) = r
          BY <3>8 DEF Busy
        <4>2. step[w] \notin WorkSteps
          BY <2>7, <3>4, <3>5, <3>8, <4>1 DEF WorkerTruthful, WorkSteps
        <4>3. Doubtful(r) => Doubtful(r)'
          BY <2>2, <3>4 DEF Doubtful
        <4> QED BY <1>1, <1>2, <2>2, <2>7, <3>5, <3>8, <4>2, <4>3, DoubtfulWorker
      <3> QED BY <3>6, <3>7, <3>8
    <2> QED BY <1>1, <1>2, <2>2, <2>3, <2>4, <2>5, <2>6, <2>7, <2>8, RowKeeps
  <1> QED BY <1>1, <1>3, <1>4

LEMMA AttachFoundKeeps ==
    ASSUME TeamsInv, NEW c \in Callers, AttachFound(c) PROVE TeamsInv'
  <1>0. PICK r, what : r = about[c] /\ what = known[c]
    OBVIOUS
  <1>1. /\ at[c] = "attachFound" /\ link' = what.team /\ Go(c, "recordFound")
        /\ UNCHANGED <<run, job, graph, worker, overlapped>>
        /\ unseen' = unseen /\ faults' = faults
    BY <1>0 DEF AttachFound, history
  <1>2. /\ r \in Runs /\ run[r] \in Rows /\ run[r].status # "absent" /\ what \in Reads
    BY <1>0, <1>1, NotAbsent DEF AskSteps
  <1>3. what.team \in Made(r)
    BY <1>0, <1>1 DEF TeamsInv, TeamsTyped, CallersTyped, FoundSteps
  <1>4. what.team \in Runs \X Nat /\ what.team[1] = r
    BY <1>2, <1>3, MadeTeams DEF Made, Team
  <1>5. Fits("recordFound", r, what)
    BY <1>2, <1>3, TeamsAssumption DEF Fits, CallerSteps, RetrySteps, AskSteps, FoundSteps
  <1>6. CallersTyped' /\ Moved(c, "recordFound", r, what)
    BY <1>0, <1>1, <1>5, GoMoves, GraphKept DEF TeamsInv, TeamsTyped
  <1>7. RowsTyped'
    BY <1>1, <1>4 DEF TeamsInv, TeamsTyped, RowsTyped, graph
  <1>8. FirstJobIsNew'
    BY <1>1, <1>6, FirstJobKept
  <1>9. \A d \in Callers : about'[d] \in {about[d], None, r}
    BY <1>6 DEF Moved
  <1>10. ASSUME r \notin overlapped, Truthful(r)
         PROVE  /\ RowTruthful(r)' /\ DoubtHolds(r)'
                /\ \A w \in Workers : Busy(w, r) /\ WorkerTruthful(w) => WorkerTruthful(w)'
    <2>1. RowTruthful(r) /\ DoubtHolds(r)
      BY <1>10 DEF Truthful
    <2>2. /\ posts' = posts /\ Made(r)' = Made(r)
          /\ step' = step /\ on' = on /\ view' = view
      BY <1>1, <1>2, GraphKept DEF graph, worker
    <2>3. /\ Unwatched(r)' <=> Unwatched(r)
          /\ Doubtful(r)' <=> Doubtful(r)
          /\ Closed(r)' <=> Closed(r)
          /\ Unclear(run[r])' <=> Unclear(run[r])
          /\ \A k : Sound(r, k)' <=> Sound(r, k)
      BY <1>1, <1>2, <2>2, ToldKept
    <2>4. InDoubt(r)' <=> InDoubt(r)
      BY <1>1 DEF InDoubt, Unknown
    <2>5. RowTruthful(r)'
      BY <1>1, <1>3, <2>1, <2>2, <2>3 DEF RowTruthful
    <2>6. DoubtHolds(r)'
      BY <1>1, <2>1, <2>3, <2>4 DEF DoubtHolds
    <2>7. \A w \in Workers : Busy(w, r) /\ WorkerTruthful(w) => WorkerTruthful(w)'
      BY <1>1, <1>2, <2>2, <2>4, WorkerToldKept
    <2> QED BY <2>5, <2>6, <2>7
  <1> QED BY <1>1, <1>2, <1>4, <1>6, <1>7, <1>8, <1>9, <1>10, RowKeeps

LEMMA RecordFoundKeeps ==
    ASSUME TeamsInv, NEW c \in Callers, RecordFound(c) PROVE TeamsInv'
  <1>0. PICK r, t : r = about[c] /\ t = known[c].team
    OBVIOUS
  <1> DEFINE row(code) == [run[r] EXCEPT
                 !.status = IF code = "none" THEN "COMPLETED" ELSE "PARTIAL",
                 !.error = code, !.team = t[2], !.resolved = "TEAM_FOUND"]
  <1>1. /\ at[c] = "recordFound" /\ Answer(c)
        /\ UNCHANGED <<job, link, graph, worker, overlapped>>
        /\ unseen' = unseen /\ faults' = faults
        /\ \/ Unresolved(run[r]) /\ \E code \in {"none", "RETRYABLE"} : Write(r, row(code))
           \/ UNCHANGED run
    BY <1>0 DEF RecordFound, history
  <1>2. /\ r \in Runs /\ run[r] \in Rows /\ run[r].status # "absent"
    BY <1>0, <1>1, NotAbsent DEF AskSteps
  <1>3. CASE UNCHANGED run
    BY <1>1, <1>3, SameIsMild, AnswerKeeps, Unwritten
  <1>4. ASSUME Unresolved(run[r]), NEW code \in {"none", "RETRYABLE"}, Write(r, row(code))
        PROVE  TeamsInv'
    <2> DEFINE written == row(code)
    <2>1. t \in Made(r)
      BY <1>0, <1>1 DEF TeamsInv, TeamsTyped, CallersTyped, FoundSteps
    <2>2. t[2] \in Nat /\ t = Team(r, t[2])
      BY <1>2, <2>1, MadeTeams DEF Made, Team
    <2>3. /\ written \in Rows /\ written.status \in {"COMPLETED", "PARTIAL"}
          /\ written.error = code /\ written.resolved = "TEAM_FOUND"
          /\ written.requested = run[r].requested /\ written.op = run[r].op
          /\ written.team = t[2] /\ Write(r, written)
      <3>1. PICK status \in {"COMPLETED", "PARTIAL"} :
                written = [run[r] EXCEPT !.status = status, !.error = code, !.team = t[2],
                                         !.resolved = "TEAM_FOUND"]
        OBVIOUS
      <3>2. Write(r, written)
        BY <1>4
      <3> HIDE DEF written, row
      <3> QED BY <1>2, <2>2, <3>1, <3>2 DEF Rows, Errors, Resolutions, Statuses
    <2> HIDE DEF written, row
    <2>4. /\ run' \in [Runs -> Rows] /\ \A q \in Runs \ {r} : run'[q] = run[q]
          /\ run'[r].requested = run[r].requested /\ run'[r].op = run[r].op
          /\ run'[r].team = t[2] /\ run'[r].resolved = "TEAM_FOUND"
          /\ run'[r].error = code /\ run'[r].status \in {"COMPLETED", "PARTIAL"}
      BY <1>2, <2>3, WriteRow DEF TeamsInv, TeamsTyped
    <2>5. RowsTyped'
      BY <1>1, <2>4 DEF TeamsInv, TeamsTyped, RowsTyped, graph
    <2>6. CallersTyped' /\ Moved(c, "idle", None, Nothing)
      BY <1>1, AnswerMoves, GraphKept DEF TeamsInv, TeamsTyped
    <2>7. FirstJobIsNew'
      BY <1>1, <2>6, FirstJobKept
    <2>8. \A d \in Callers : about'[d] \in {about[d], None, r}
      BY <2>6 DEF Moved
    <2>9. InDoubt(r) /\ run[r].resolved = "none"
      BY <1>4 DEF Unresolved, InDoubt, Unknown
    <2>10. ASSUME r \notin overlapped, Truthful(r)
           PROVE  /\ RowTruthful(r)' /\ DoubtHolds(r)'
                  /\ \A w \in Workers : Busy(w, r) /\ WorkerTruthful(w) => WorkerTruthful(w)'
      <3>1. RowTruthful(r) /\ DoubtHolds(r)
        BY <2>10 DEF Truthful
      <3>2. posts' = posts /\ Made(r)' = Made(r)
        BY <1>1, <1>2, GraphKept DEF graph
      <3>3. Doubtful(r) /\ run[r].op \in Nat /\ run[r].team \in Nat /\ posts[r] \in Nat
        BY <1>2, <2>9, <3>1 DEF DoubtHolds, Rows, TeamsInv, TeamsTyped, RowsTyped
      <3>4. t[2] \in 1 .. posts[r]
        BY <1>2, <2>1, <2>2, <3>3 DEF Made, Team
      <3>5. ~Unwatched(r)
        BY <1>2, <3>3, <2>2 DEF Doubtful, Unwatched, Made, Team
      <3>6. run[r].op # 0 => t[2] = run[r].op
        BY <3>1, <3>3, <3>4 DEF RowTruthful
      <3>7. ~Unwatched(r)' /\ \A k : Sound(r, k)' <=> Sound(r, k)
        BY <2>4, <3>2, <3>5 DEF Unwatched, Sound
      <3>8. Sound(r, t[2])'
        BY <2>1, <2>2, <3>2 DEF Sound
      <3>9. RowTruthful(r)'
        BY <1>1, <2>4, <3>1, <3>2, <3>3, <3>5, <3>6, <3>7, <3>8 DEF RowTruthful, Doubtful
      <3>10. DoubtHolds(r)'
        BY <2>4 DEF DoubtHolds, InDoubt, Unknown, Closed
      <3>11. ~Closed(r)' /\ run'[r].stale = FALSE
        <4>1. run'[r].stale = FALSE
          BY <1>2, <2>3, WriteRow DEF TeamsInv, TeamsTyped
        <4> QED BY <2>4, <4>1 DEF Closed
      <3>12. \A w \in Workers : Busy(w, r) /\ WorkerTruthful(w) => WorkerTruthful(w)'
        BY <1>1, <1>2, <2>4, <2>9, <3>7, <3>11, DoubtfulWorker
      <3> QED BY <3>9, <3>10, <3>12
    <2> QED BY <1>1, <1>2, <2>4, <2>5, <2>6, <2>7, <2>8, <2>10, RowKeeps
  <1> QED BY <1>1, <1>3, <1>4

\* Nobody is at a run that does not exist.
LEMMA AbsentIsIdle ==
    ASSUME TeamsInv, NEW r \in Runs, run[r].status = "absent"
    PROVE  \A w \in Workers : ~Busy(w, r)
  BY BusyIsStarted DEF Busy, Working

LEMMA CreateRunKeeps == ASSUME TeamsInv, NEW c \in Callers, CreateRun(c) PROVE TeamsInv'
  <1> DEFINE row == [NoRun EXCEPT !.status = "PENDING"]
  <1>1. /\ at[c] = "create" /\ UNCHANGED <<job, link, graph, worker, overlapped>>
        /\ unseen' = unseen /\ faults' = faults
        /\ \/ \E r \in Runs :
                run[r].status = "absent" /\ Write(r, row) /\ Ask(c, "enqueue", r, Nothing)
           \/ Answer(c) /\ UNCHANGED run
    BY DEF CreateRun, history
  <1>2. CASE Answer(c) /\ UNCHANGED run
    BY <1>1, <1>2, SameIsMild, AnswerKeeps, Unwritten
  <1>3. ASSUME NEW r \in Runs, run[r].status = "absent", Write(r, row),
               Ask(c, "enqueue", r, Nothing)
        PROVE  TeamsInv'
    <2>1. /\ row \in Rows /\ row.status = "PENDING" /\ row.error = "none"
          /\ row.requested = FALSE /\ row.op = 0 /\ row.team = 0 /\ row.resolved = "none"
      <3>1. NoRun \in Rows /\ NoRun.error = "none" /\ NoRun.requested = FALSE
            /\ NoRun.op = 0 /\ NoRun.team = 0 /\ NoRun.resolved = "none"
        <4>1. 0 \in 0 .. MaxRetries
          BY TeamsAssumption
        <4> QED BY <4>1 DEF NoRun, Rows, Statuses, Errors, Resolutions
      <3> HIDE DEF NoRun
      <3> QED BY <3>1 DEF Rows, Statuses, Active
    <2> HIDE DEF row
    <2>2. /\ run' \in [Runs -> Rows] /\ \A q \in Runs \ {r} : run'[q] = run[q]
          /\ run'[r].requested = FALSE /\ run'[r].op = 0
          /\ run'[r].team = 0 /\ run'[r].resolved = "none"
          /\ run'[r].error = "none" /\ run'[r].status = "PENDING"
      BY <1>3, <2>1, WriteRow DEF TeamsInv, TeamsTyped
    <2>3. RowsTyped'
      BY <1>1, <2>2 DEF TeamsInv, TeamsTyped, RowsTyped, graph
    <2>4. Fits("enqueue", r, Nothing)
      BY TeamsAssumption DEF Fits, CallerSteps, AskSteps, RetrySteps, FoundSteps, Nothing, Reads
    <2>5. CallersTyped' /\ Moved(c, "enqueue", r, Nothing)
      BY <1>1, <1>3, <2>4, AskMoves, GraphKept DEF TeamsInv, TeamsTyped
    <2>6. /\ posts[r] = 0 /\ ~run[r].requested /\ run[r].resolved = "none"
          /\ \A d \in Callers : about[d] # r
          /\ job[<<r, 0>>].state = "none"
      BY <1>3, TeamsAssumption DEF TeamsInv, AbsentIsNew
    <2>7. FirstJobIsNew'
      BY <1>1, <2>5, <2>6 DEF TeamsInv, FirstJobIsNew, Moved
    <2>8. \A d \in Callers : about'[d] \in {about[d], None, r}
      BY <2>5 DEF Moved
    <2>9. ASSUME r \notin overlapped, Truthful(r)
          PROVE  /\ RowTruthful(r)' /\ DoubtHolds(r)'
                 /\ \A w \in Workers : Busy(w, r) /\ WorkerTruthful(w) => WorkerTruthful(w)'
      <3>1. RowTruthful(r)
        BY <2>9 DEF Truthful
      <3>2. posts' = posts /\ Made(r)' = Made(r)
        BY <1>1, GraphKept DEF graph
      <3>3. RowTruthful(r)'
        <4>1. run[r].team = 0 /\ ~Unwatched(r)
          BY <2>6, <3>1 DEF RowTruthful, Unwatched
        <4> QED BY <1>1, <2>2, <2>6, <3>1, <3>2, <4>1 DEF RowTruthful
      <3>4. DoubtHolds(r)'
        BY <2>2 DEF DoubtHolds, InDoubt, Unknown, Closed
      <3> QED BY <1>3, <3>3, <3>4, AbsentIsIdle
    <2> QED BY <1>1, <2>2, <2>3, <2>5, <2>7, <2>8, <2>9, RowKeeps
  <1> QED BY <1>1, <1>2, <1>3

\* A run is found stale once its worker has died.
LEMMA GrowStaleKeeps == ASSUME TeamsInv, NEW r \in Runs, GrowStale(r) PROVE TeamsInv'
  <1>1. /\ run[r].status \in Active /\ run' = [run EXCEPT ![r].stale = TRUE]
        /\ \A w \in Workers : step[w] # "idle" /\ Run(w) = r => ~HoldsLock(w)
        /\ UNCHANGED <<job, link, graph, worker, request, overlapped, unseen>>
        /\ faults' = faults
    BY DEF GrowStale, history
  <1>2. /\ run' \in [Runs -> Rows] /\ \A q \in Runs \ {r} : run'[q] = run[q]
        /\ run'[r].requested = run[r].requested /\ run'[r].op = run[r].op
        /\ run'[r].team = run[r].team /\ run'[r].resolved = run[r].resolved
        /\ run'[r].error = run[r].error /\ run'[r].status = run[r].status
        /\ run'[r].status # "absent"
    <2>1. run \in [Runs -> Rows]
      BY DEF TeamsInv, TeamsTyped, RowsTyped
    <2>2. run'[r] = [run[r] EXCEPT !.stale = TRUE] /\ run[r] \in Rows
      BY <1>1, <2>1
    <2>3. run'[r] \in Rows
      BY <2>2 DEF Rows
    <2> QED BY <1>1, <2>1, <2>2, <2>3 DEF Rows, Active
  <1>3. RowsTyped'
    BY <1>1, <1>2 DEF TeamsInv, TeamsTyped, RowsTyped, graph
  <1>4. CallersTyped' /\ FirstJobIsNew'
    BY <1>1, StillMoves, GraphKept, FirstJobStill DEF TeamsInv, TeamsTyped
  <1>5. \A w \in Workers : ~Busy(w, r)
    BY <1>1 DEF TeamsInv, LocksHeld, Busy, Working
  <1>6. ASSUME r \notin overlapped, Truthful(r) PROVE RowTruthful(r)' /\ DoubtHolds(r)'
    <2>1. RowTruthful(r) /\ DoubtHolds(r)
      BY <1>6 DEF Truthful
    <2> QED BY <1>1, <1>2, <2>1, RowTells DEF DoubtHolds, InDoubt, Unknown
  <1>7. \A c \in Callers : about'[c] = about[c]
    BY <1>1 DEF request
  <1> QED BY <1>1, <1>2, <1>3, <1>4, <1>5, <1>6, <1>7, RowKeeps

LEMMA FailStaleInProgressKeeps ==
    ASSUME TeamsInv, NEW r \in Runs, FailStaleInProgress(r) PROVE TeamsInv'
  <1>1. PICK code \in {"UNKNOWN", "RETRYABLE"} :
            /\ run[r].status = "IN_PROGRESS" /\ run[r].stale
            /\ Write(r, Failed(run[r], code)) /\ (code = "UNKNOWN" => Unclear(run[r]))
            /\ UNCHANGED <<job, link, graph, worker, request, overlapped, unseen>>
            /\ faults' = faults
    BY DEF FailStaleInProgress, history
  <1>2. run[r] \in Rows /\ FailIfActive(r, code) /\ code \in Errors
    BY <1>1 DEF TeamsInv, TeamsTyped, RowsTyped, FailIfActive, Active, Errors
  <1>3. /\ run' \in [Runs -> Rows] /\ \A q \in Runs \ {r} : run'[q] = run[q]
        /\ run'[r].status # "absent"
        /\ RowTruthful(r) /\ DoubtHolds(r) => RowTruthful(r)' /\ DoubtHolds(r)'
    <2>1. code = "UNKNOWN" => Doubtful(r)
      BY <1>1 DEF Unclear, Doubtful
    <2> QED BY <1>1, <1>2, <2>1, FailTells
  <1>4. /\ run'[r].requested = run[r].requested /\ run'[r].op = run[r].op
        /\ run'[r].team = run[r].team /\ run'[r].resolved = run[r].resolved
    <2> DEFINE row == Failed(run[r], code)
    <2>1. /\ row \in Rows /\ row.requested = run[r].requested /\ row.op = run[r].op
          /\ row.team = run[r].team /\ row.resolved = run[r].resolved
      BY <1>2, FailedRow
    <2>2. Write(r, row)
      BY <1>1
    <2> HIDE DEF row
    <2> QED BY <2>1, <2>2, WriteRow DEF TeamsInv, TeamsTyped
  <1>5. RowsTyped'
    BY <1>1, <1>3 DEF TeamsInv, TeamsTyped, RowsTyped, graph
  <1>6. CallersTyped' /\ FirstJobIsNew'
    BY <1>1, StillMoves, GraphKept, FirstJobStill DEF TeamsInv, TeamsTyped
  <1>7. ASSUME r \notin overlapped, Truthful(r)
        PROVE  /\ RowTruthful(r)' /\ DoubtHolds(r)'
               /\ \A w \in Workers : Busy(w, r) /\ WorkerTruthful(w) => WorkerTruthful(w)'
    <2>1. RowTruthful(r)' /\ DoubtHolds(r)'
      BY <1>3, <1>7 DEF Truthful
    <2>2. (Doubtful(r)' <=> Doubtful(r)) /\ \A k : Sound(r, k)' <=> Sound(r, k)
      BY <1>1, <1>4, GraphKept, ToldKept DEF graph
    <2>3. \A w \in Workers : Busy(w, r) /\ WorkerTruthful(w) => step[w] \notin WorkSteps
      BY <1>1 DEF Busy, WorkerTruthful
    <2> QED BY <1>1, <1>4, <2>1, <2>2, <2>3, DoubtfulWorker
  <1>8. \A c \in Callers : about'[c] = about[c]
    BY <1>1 DEF request
  <1> QED BY <1>1, <1>3, <1>5, <1>6, <1>7, <1>8, RowKeeps

LEMMA FailStalePendingKeeps ==
    ASSUME TeamsInv, NEW r \in Runs, FailStalePending(r) PROVE TeamsInv'
  <1>1. /\ run[r].status = "PENDING" /\ Write(r, Failed(run[r], "RETRYABLE"))
        /\ UNCHANGED <<job, link, graph, worker, request, overlapped, unseen>>
        /\ UNCHANGED faults \/ Fault
    BY DEF FailStalePending
  <1>2. FailIfActive(r, "RETRYABLE")
    BY <1>1 DEF FailIfActive, Active
  <1>3. run' \in [Runs -> Rows] /\ \A q \in Runs : MildRow(q)
    BY <1>2, FailIsMild DEF Errors
  <1>4. RowsTyped'
    BY <1>1, <1>3, FaultTyped DEF TeamsInv, TeamsTyped, RowsTyped, graph
  <1>5. CallersTyped' /\ FirstJobIsNew'
    BY <1>1, StillMoves, GraphKept, FirstJobStill DEF TeamsInv, TeamsTyped
  <1>6. MildJobs /\ MildCallers
    BY <1>1 DEF MildJobs, MildCallers, request
  <1> QED BY <1>1, <1>3, <1>4, <1>5, <1>6, MildKeeps

-------------------------------------------------------------------------------
(***************************************************************************)
(* The invariant of the specification                                      *)
(***************************************************************************)
LEMMA InitTruthful == Init => TeamsInv
  <1> SUFFICES ASSUME Init PROVE TeamsInv
    OBVIOUS
  <1>1. RowsTyped
    <2>1. NoRun \in Rows /\ NoJob \in JobRows
      <3>1. 0 \in 0 .. MaxRetries /\ 0 \in 0 .. MaxAttempts /\ 0 \in 0 .. MaxStalls
        BY TeamsAssumption
      <3> QED BY <3>1
              DEF NoRun, Rows, Statuses, Errors, Resolutions, NoJob, JobRows, JobStates
    <2>2. 0 \in 0 .. MaxFaults
      BY TeamsAssumption
    <2> QED BY <2>1, <2>2 DEF Init, RowsTyped
  <1>2. WorkersTyped
    BY DEF Init, WorkersTyped, WorkerSteps, NoView, Views, Exceptions
  <1>3. CallersTyped
    <2>1. Nothing \in Reads
      BY TeamsAssumption DEF Nothing, Reads
    <2> QED BY <2>1 DEF Init, CallersTyped, CallerSteps, AskSteps, FoundSteps
  <1>4. \A r \in Runs : AbsentIsNew(r)
    BY JobsOfRuns, TeamsAssumption DEF Init, AbsentIsNew, NoRun, NoJob
  <1>5. FirstJobIsNew /\ LocksHeld
    BY DEF Init, FirstJobIsNew, LocksHeld
  <1>6. ASSUME NEW r \in Runs PROVE Truthful(r)
    <2>1. \A w \in Workers : ~Busy(w, r)
      BY DEF Init, Busy, Working
    <2>2. RowTruthful(r) /\ DoubtHolds(r)
      BY DEF Init, RowTruthful, DoubtHolds, InDoubt, Unknown, Closed, NoRun
    <2> QED BY <2>1, <2>2 DEF Truthful, OneWorker
  <1> QED BY <1>1, <1>2, <1>3, <1>4, <1>5, <1>6 DEF TeamsInv, TeamsTyped

LEMMA StutterKeeps == ASSUME TeamsInv, UNCHANGED vars PROVE TeamsInv'
  <1>1. UNCHANGED <<run, job, link, graph, worker, request, history>>
    BY DEF vars, rows
  <1>2. RowsTyped'
    BY <1>1 DEF TeamsInv, TeamsTyped, RowsTyped, graph, history
  <1>3. CallersTyped' /\ FirstJobIsNew'
    BY <1>1, StillMoves, GraphKept, FirstJobStill DEF TeamsInv, TeamsTyped
  <1>4. MildJobs /\ MildCallers /\ overlapped' = overlapped
    BY <1>1 DEF MildJobs, MildCallers, request, history
  <1> QED BY <1>1, <1>2, <1>3, <1>4, SameIsMild, MildKeeps

LEMMA RequestKeeps ==
    ASSUME TeamsInv, ConfirmHolds, NEW c \in Callers, Request(c) \/ Pursue(c) PROVE TeamsInv'
  <1>1. CASE Request(c)
    BY <1>1, StartKeeps, RetryKeeps, ResolveKeeps DEF Request
  <1>2. CASE \/ FindBlockingRun(c) \/ CreateRun(c) \/ EnqueueFirst(c) \/ NoteJob(c)
             \/ QueueUnavailable(c)
    BY <1>2, FindBlockingKeeps, CreateRunKeeps, EnqueueFirstKeeps, NoteJobKeeps,
       QueueUnavailableKeeps
  <1>3. CASE \/ GetJob(c) \/ ReserveSame(c) \/ Requeue(c) \/ Revive(c)
             \/ Reserve(c) \/ EnqueueRetry(c) \/ Compensate(c)
    BY <1>3, GetJobKeeps, ReserveSameKeeps, RequeueKeeps, ReviveKeeps, ReserveKeeps,
       EnqueueRetryKeeps, CompensateKeeps
  <1>4. CASE ConfirmNotCreated(c) \/ AttachFound(c) \/ RecordFound(c) \/ CallerCrash(c)
    BY <1>4, ConfirmKeeps, AttachFoundKeeps, RecordFoundKeeps, CallerCrashKeeps
  <1> QED BY <1>1, <1>2, <1>3, <1>4 DEF Pursue

LEMMA WorkerKeeps ==
    ASSUME TeamsInv, NEW w \in Workers, Take(w) \/ Process(w) \/ Crash(w) PROVE TeamsInv'
  <1>1. CASE Take(w) \/ Crash(w)
    BY <1>1, TakeKeeps, CrashKeeps
  <1>2. CASE ReadRun(w) \/ Heartbeat(w) \/ DeclareUnknown(w)
    BY <1>2, ReadRunKeeps, HeartbeatKeeps, DeclareUnknownKeeps
  <1>3. CASE RequestCreation(w) \/ CreateTeam(w) \/ RecordCreation(w)
    BY <1>3, RequestCreationKeeps, CreateTeamKeeps, RecordCreationKeeps
  <1>4. CASE Poll(w) \/ Attach(w) \/ Complete(w)
    BY <1>4, PollKeeps, AttachKeeps, CompleteKeeps
  <1>5. CASE HandleError(w) \/ Acknowledge(w)
    BY <1>5, HandleErrorKeeps, AcknowledgeKeeps
  <1> QED BY <1>1, <1>2, <1>3, <1>4, <1>5 DEF Process

-------------------------------------------------------------------------------
(***************************************************************************)
(* What is recorded of a run stays recorded, and what a user has looked up *)
(* stays so until the confirmation is written                              *)
(***************************************************************************)
RecordKept(r) ==
    /\ run[r].requested => run'[r].requested
    /\ run[r].resolved # "none" => run'[r].resolved = run[r].resolved

LEMMA SameRecord == ASSUME NEW r, run'[r] = run[r] PROVE RecordKept(r)
  BY DEF RecordKept

LEMMA WriteRecord ==
    ASSUME RowsTyped, NEW r \in Runs, NEW q \in Runs, NEW row \in Rows, Write(q, row),
           run[q].requested => row.requested,
           run[q].resolved # "none" => row.resolved = run[q].resolved
    PROVE  RecordKept(r)
  <1>1. /\ run'[q].requested = row.requested /\ run'[q].resolved = row.resolved
        /\ q # r => run'[r] = run[r]
    BY WriteRow
  <1> QED BY <1>1 DEF RecordKept

LEMMA FailRecord ==
    ASSUME RowsTyped, NEW r \in Runs, NEW q \in Runs, NEW code \in Errors,
           FailIfActive(q, code) \/ Write(q, Failed(run[q], code)) \/ UNCHANGED run
    PROVE  RecordKept(r)
  <1> DEFINE row == Failed(run[q], code)
  <1>1. row \in Rows /\ row.requested = run[q].requested /\ row.resolved = run[q].resolved
    BY FailedRow DEF RowsTyped
  <1>2. Write(q, row) \/ UNCHANGED run
    BY DEF FailIfActive
  <1> HIDE DEF row
  <1> QED BY <1>1, <1>2, WriteRecord, SameRecord

LEMMA RequestsKeepRecord ==
    ASSUME TeamsInv, NEW r \in Runs, run[r].status # "absent",
           NEW c \in Callers, Request(c) \/ Pursue(c)
    PROVE  RecordKept(r) /\ UNCHANGED graph
  <1> DEFINE q == about[c]
  <1>0. UNCHANGED graph
    BY DEF Request, Pursue, StartProvisioning, RetryProvisioning, ResolveUnknown,
           FindBlockingRun, CreateRun, EnqueueFirst, NoteJob, QueueUnavailable, GetJob,
           ReserveSame, Requeue, Revive, Reserve, EnqueueRetry, Compensate, ConfirmNotCreated,
           AttachFound, RecordFound, CallerCrash
  <1>1. RowsTyped /\ run[r] \in Rows
    BY DEF TeamsInv, TeamsTyped, RowsTyped
  <1>2. /\ at[c] \notin AskSteps => q \in Runs /\ known[c] \in Reads /\ run[q] \in Rows
        /\ at[c] = "reserve" => known[c].retries < MaxRetries
    BY <1>1, AboutRun DEF TeamsInv, TeamsTyped, RowsTyped, CallersTyped
  <1>3. CASE \/ Request(c) \/ FindBlockingRun(c) \/ EnqueueFirst(c) \/ Requeue(c)
             \/ EnqueueRetry(c) \/ AttachFound(c) \/ CallerCrash(c)
    <2>1. UNCHANGED run
      BY <1>3 DEF Request, StartProvisioning, RetryProvisioning, ResolveUnknown, FindBlockingRun,
                  EnqueueFirst, Requeue, EnqueueRetry, AttachFound, CallerCrash, rows
    <2> QED BY <1>0, <2>1, SameRecord
  <1>4. CASE CreateRun(c)
    <2>1. \/ UNCHANGED run
          \/ \E x \in Runs : /\ run[x].status = "absent"
                             /\ Write(x, [NoRun EXCEPT !.status = "PENDING"])
      BY <1>4 DEF CreateRun
    <2>2. \A x \in Runs : \A row : x # r /\ Write(x, row) => run'[r] = run[r]
      BY <1>1 DEF Write, RowsTyped
    <2>3. run'[r] = run[r]
      BY <2>1, <2>2
    <2> QED BY <1>0, <2>3, SameRecord
  <1>5. CASE QueueUnavailable(c) \/ GetJob(c) \/ Compensate(c)
    <2>1. q \in Runs
      BY <1>2, <1>5 DEF QueueUnavailable, GetJob, Compensate, AskSteps
    <2>2. \/ FailIfActive(q, "RETRYABLE") \/ Write(q, Failed(run[q], "RETRYABLE")) \/ UNCHANGED run
      BY <1>5 DEF QueueUnavailable, GetJob, Compensate
    <2> QED BY <1>0, <1>1, <2>1, <2>2, FailRecord DEF Errors
  <1>6. CASE NoteJob(c)
    <2> DEFINE row == [run[q] EXCEPT !.job = 0]
    <2>1. q \in Runs /\ run[q] \in Rows /\ (Write(q, row) \/ UNCHANGED run)
      BY <1>2, <1>6 DEF NoteJob, AskSteps
    <2>2. row \in Rows /\ row.requested = run[q].requested /\ row.resolved = run[q].resolved
      BY <2>1, TeamsAssumption DEF Rows
    <2> HIDE DEF row
    <2> QED BY <1>0, <1>1, <2>1, <2>2, WriteRecord, SameRecord
  <1>7. CASE Revive(c)
    <2>1. q \in Runs /\ run[q] \in Rows
      BY <1>2, <1>7 DEF Revive, AskSteps
    <2>2. \/ UNCHANGED run
          \/ \E s \in Active : Write(q, [run[q] EXCEPT !.status = s, !.error = "none"])
      BY <1>7 DEF Revive, Active
    <2>3. ASSUME NEW s \in Active, Write(q, [run[q] EXCEPT !.status = s, !.error = "none"])
          PROVE  RecordKept(r)
      <3> DEFINE row == [run[q] EXCEPT !.status = s, !.error = "none"]
      <3>1. row \in Rows /\ row.requested = run[q].requested /\ row.resolved = run[q].resolved
            /\ Write(q, row)
        BY <2>1, <2>3 DEF Rows, Statuses, Active, Errors
      <3> HIDE DEF row
      <3> QED BY <1>1, <2>1, <3>1, WriteRecord
    <2> QED BY <1>0, <2>2, <2>3, SameRecord
  <1>8. CASE ReserveSame(c) \/ Reserve(c)
    <2>1. q \in Runs /\ run[q] \in Rows
      BY <1>2, <1>8 DEF ReserveSame, Reserve, AskSteps
    <2> DEFINE k == known[c].retries + 1
               same == [Reserved(run[q]) EXCEPT !.retries = @ + 1]
               new == [Reserved(run[q]) EXCEPT !.retries = k, !.job = k]
    <2>2. \/ UNCHANGED run
          \/ Write(q, same) /\ run[q].retries < MaxRetries
          \/ Write(q, new) /\ at[c] = "reserve"
      BY <1>8 DEF ReserveSame, Reserve
    <2>3. Write(q, same) /\ run[q].retries < MaxRetries => RecordKept(r)
      <3>1. run[q].retries < MaxRetries =>
               same \in Rows /\ same.requested = run[q].requested /\ same.resolved = run[q].resolved
        BY <2>1, ReservedRow, TeamsAssumption DEF Rows
      <3> HIDE DEF same
      <3> QED BY <1>1, <2>1, <3>1, WriteRecord
    <2>4. Write(q, new) /\ at[c] = "reserve" => RecordKept(r)
      <3>1. at[c] = "reserve" => k \in 0 .. MaxRetries
        BY <1>2, TeamsAssumption DEF AskSteps, Reads
      <3> HIDE DEF k
      <3>2. at[c] = "reserve" =>
               new \in Rows /\ new.requested = run[q].requested /\ new.resolved = run[q].resolved
        BY <2>1, <3>1, ReservedRow DEF Rows
      <3> HIDE DEF new
      <3> QED BY <1>1, <2>1, <3>2, WriteRecord
    <2> QED BY <1>0, <2>2, <2>3, <2>4, SameRecord
  <1>9. CASE ConfirmNotCreated(c)
    <2> DEFINE row == [run[q] EXCEPT !.error = "CONFIRMED_NOT_CREATED",
                                     !.resolved = "CONFIRMED_NOT_CREATED"]
    <2>1. /\ q \in Runs /\ run[q] \in Rows
          /\ (Unresolved(run[q]) /\ Write(q, row)) \/ UNCHANGED run
      BY <1>2, <1>9 DEF ConfirmNotCreated, AskSteps
    <2>2. row \in Rows /\ row.requested = run[q].requested
      BY <2>1 DEF Rows, Errors, Resolutions
    <2>3. Unresolved(run[q]) => run[q].resolved = "none"
      BY DEF Unresolved, Unknown
    <2> HIDE DEF row
    <2> QED BY <1>0, <1>1, <2>1, <2>2, <2>3, WriteRecord, SameRecord
  <1>10. CASE RecordFound(c)
    <2>1. /\ q \in Runs /\ run[q] \in Rows /\ known[c].team[2] \in Nat
          /\ Unresolved(run[q]) => run[q].resolved = "none"
      <3>1. at[c] = "recordFound"
        BY <1>10 DEF RecordFound
      <3>2. q \in Runs /\ known[c].team \in Made(q)
        BY <1>2, <3>1 DEF AskSteps, FoundSteps, TeamsInv, TeamsTyped, CallersTyped
      <3>3. known[c].team \in Runs \X Nat
        BY <3>2, MadeTeams
      <3> QED BY <1>2, <3>1, <3>2, <3>3 DEF AskSteps, Unresolved, Unknown
    <2>2. \/ UNCHANGED run
          \/ /\ Unresolved(run[q])
             /\ \E s \in {"COMPLETED", "PARTIAL"}, code \in {"none", "RETRYABLE"} :
                  Write(q, [run[q] EXCEPT !.status = s, !.error = code,
                                          !.team = known[c].team[2], !.resolved = "TEAM_FOUND"])
      BY <1>10 DEF RecordFound
    <2>3. ASSUME NEW s \in {"COMPLETED", "PARTIAL"}, NEW code \in {"none", "RETRYABLE"},
                 Unresolved(run[q]),
                 Write(q, [run[q] EXCEPT !.status = s, !.error = code,
                                         !.team = known[c].team[2], !.resolved = "TEAM_FOUND"])
          PROVE  RecordKept(r)
      <3> DEFINE row == [run[q] EXCEPT !.status = s, !.error = code,
                                       !.team = known[c].team[2], !.resolved = "TEAM_FOUND"]
      <3>1. row \in Rows /\ row.requested = run[q].requested
        BY <2>1 DEF Rows, Statuses, Errors, Resolutions
      <3>2. Write(q, row)
        BY <2>3
      <3> HIDE DEF row
      <3> QED BY <1>1, <2>1, <2>3, <3>1, <3>2, WriteRecord
    <2> QED BY <1>0, <2>2, <2>3, SameRecord
  <1> QED BY <1>3, <1>4, <1>5, <1>6, <1>7, <1>8, <1>9, <1>10 DEF Pursue

\* A worker, too, and only at its POST does it change what Graph has of a run.
LEMMA WorkersKeepRecord ==
    ASSUME TeamsInv, NEW r \in Runs, NEW w \in Workers, Take(w) \/ Process(w) \/ Crash(w)
    PROVE  /\ RecordKept(r)
           /\ \/ Busy(w, r) /\ step[w] = "post"
              \/ posts'[r] = posts[r] /\ Made(r)' = Made(r)
  <1> DEFINE q == Run(w)
  <1>1. RowsTyped /\ run[r] \in Rows
    BY DEF TeamsInv, TeamsTyped, RowsTyped
  <1>2. step[w] # "idle" => q \in Runs /\ run[q] \in Rows /\ view[w] \in Views
    BY BusyIsStarted
  <1>3. UNCHANGED graph => posts'[r] = posts[r] /\ Made(r)' = Made(r)
    BY GraphKept DEF graph
  <1>4. CASE Take(w) \/ Crash(w) \/ ReadRun(w) \/ Acknowledge(w)
    <2>1. UNCHANGED run /\ UNCHANGED graph
      BY <1>4 DEF Take, Crash, ReadRun, Acknowledge, rows
    <2> QED BY <1>3, <2>1, SameRecord
  <1>5. CASE DeclareUnknown(w) \/ HandleError(w)
    <2>1. UNCHANGED graph /\ q \in Runs
      BY <1>2, <1>5 DEF DeclareUnknown, HandleError
    <2>2. UNCHANGED run \/ \E code \in Errors : FailIfActive(q, code)
      BY <1>5 DEF DeclareUnknown, HandleError, Errors
    <2> QED BY <1>1, <1>3, <2>1, <2>2, FailRecord, SameRecord
  <1>6. CASE CreateTeam(w)
    <2>1. UNCHANGED run /\ step[w] = "post" /\ (Accept(q) \/ UNCHANGED graph)
      BY <1>6 DEF CreateTeam, rows
    <2>2. q = r => Busy(w, r)
      BY <2>1 DEF Busy, Working, Outcomes
    <2>3. Accept(q) /\ q # r => posts'[r] = posts[r] /\ Made(r)' = Made(r)
      BY <1>1, <1>2, <2>1, AcceptAdds
    <2> QED BY <1>3, <2>1, <2>2, <2>3, SameRecord
  <1>7. CASE \/ Heartbeat(w) \/ RequestCreation(w) \/ RecordCreation(w)
             \/ Poll(w) \/ Attach(w) \/ Complete(w)
    <2>1. UNCHANGED graph /\ q \in Runs /\ run[q] \in Rows /\ view[w] \in Views
      BY <1>2, <1>7 DEF Heartbeat, RequestCreation, RecordCreation, Poll, Attach, Complete
    <2>2. view[w].op \in Nat /\ view[w].team \in Nat
      BY <2>1 DEF Views
    <2>3. \/ UNCHANGED run
          \/ Write(q, run[q])
          \/ Write(q, [run[q] EXCEPT !.status = "IN_PROGRESS"])
          \/ Write(q, [run[q] EXCEPT !.requested = TRUE])
          \/ \E op, id \in Nat : Write(q, [run[q] EXCEPT !.op = op, !.team = id])
          \/ \E id \in Nat : Write(q, [run[q] EXCEPT !.team = id])
          \/ \E s \in {"COMPLETED", "PARTIAL"}, code \in {"none", "RETRYABLE"} :
                Write(q, [run[q] EXCEPT !.status = s, !.error = code, !.team = view[w].team])
      <3>1. CASE Heartbeat(w) \/ RequestCreation(w) \/ Attach(w) \/ Complete(w)
        BY <3>1 DEF Heartbeat, RequestCreation, Attach, Complete
      <3>2. CASE RecordCreation(w)
        <4>1. \/ UNCHANGED run
              \/ \E op \in {0, view[w].op}, id \in {0, view[w].op} :
                    Write(q, [run[q] EXCEPT !.op = op, !.team = id])
          BY <3>2 DEF RecordCreation
        <4>2. \A id \in {0, view[w].op} : id \in Nat
          BY <2>2
        <4> QED BY <4>1, <4>2
      <3>3. CASE Poll(w)
        <4>1. \/ UNCHANGED run
              \/ \E id \in {0, view[w].team, view[w].op} :
                    Write(q, [run[q] EXCEPT !.team = id])
          BY <3>3 DEF Poll
        <4>2. \A id \in {0, view[w].team, view[w].op} : id \in Nat
          BY <2>2
        <4> QED BY <4>1, <4>2
      <3> QED BY <1>7, <3>1, <3>2, <3>3
    <2>4. CASE UNCHANGED run \/ Write(q, run[q])
      BY <1>1, <1>3, <2>1, <2>4, WriteRecord, SameRecord
    <2>5. CASE Write(q, [run[q] EXCEPT !.status = "IN_PROGRESS"])
      <3> DEFINE row == [run[q] EXCEPT !.status = "IN_PROGRESS"]
      <3>1. Write(q, row)
        BY <2>5
      <3>2. row \in Rows /\ row.requested = run[q].requested /\ row.resolved = run[q].resolved
        BY <2>1 DEF Rows, Statuses, Active
      <3> HIDE DEF row
      <3> QED BY <1>1, <1>3, <2>1, <3>1, <3>2, WriteRecord
    <2>6. CASE Write(q, [run[q] EXCEPT !.requested = TRUE])
      <3> DEFINE row == [run[q] EXCEPT !.requested = TRUE]
      <3>1. Write(q, row)
        BY <2>6
      <3>2. row \in Rows /\ row.requested = TRUE /\ row.resolved = run[q].resolved
        BY <2>1 DEF Rows
      <3> HIDE DEF row
      <3> QED BY <1>1, <1>3, <2>1, <3>1, <3>2, WriteRecord
    <2>7. CASE \E op, id \in Nat : Write(q, [run[q] EXCEPT !.op = op, !.team = id])
      <3>1. PICK op \in Nat, id \in Nat : Write(q, [run[q] EXCEPT !.op = op, !.team = id])
        BY <2>7
      <3> DEFINE row == [run[q] EXCEPT !.op = op, !.team = id]
      <3>2. Write(q, row)
        BY <3>1
      <3>3. row \in Rows /\ row.requested = run[q].requested /\ row.resolved = run[q].resolved
        BY <2>1 DEF Rows
      <3> HIDE DEF row
      <3> QED BY <1>1, <1>3, <2>1, <3>2, <3>3, WriteRecord
    <2>8. CASE \E id \in Nat : Write(q, [run[q] EXCEPT !.team = id])
      <3>1. PICK id \in Nat : Write(q, [run[q] EXCEPT !.team = id])
        BY <2>8
      <3> DEFINE row == [run[q] EXCEPT !.team = id]
      <3>2. Write(q, row)
        BY <3>1
      <3>3. row \in Rows /\ row.requested = run[q].requested /\ row.resolved = run[q].resolved
        BY <2>1 DEF Rows
      <3> HIDE DEF row
      <3> QED BY <1>1, <1>3, <2>1, <3>2, <3>3, WriteRecord
    <2>9. CASE \E s \in {"COMPLETED", "PARTIAL"}, code \in {"none", "RETRYABLE"} :
                 Write(q, [run[q] EXCEPT !.status = s, !.error = code, !.team = view[w].team])
      <3>1. PICK s \in {"COMPLETED", "PARTIAL"}, code \in {"none", "RETRYABLE"} :
                  Write(q, [run[q] EXCEPT !.status = s, !.error = code, !.team = view[w].team])
        BY <2>9
      <3> DEFINE row == [run[q] EXCEPT !.status = s, !.error = code, !.team = view[w].team]
      <3>2. Write(q, row)
        BY <3>1
      <3>3. row \in Rows /\ row.requested = run[q].requested /\ row.resolved = run[q].resolved
        BY <2>1, <2>2 DEF Rows, Statuses, Errors
      <3> HIDE DEF row
      <3> QED BY <1>1, <1>3, <2>1, <3>2, <3>3, WriteRecord
    <2> QED BY <2>3, <2>4, <2>5, <2>6, <2>7, <2>8, <2>9
  <1> QED BY <1>4, <1>5, <1>6, <1>7 DEF Process

LEMMA OthersKeepRecord ==
    ASSUME TeamsInv, NEW r \in Runs,
           \/ \E j \in Jobs : Redeliver(j)
           \/ \E q \in Runs : GrowStale(q) \/ Maintain(q)
           \/ UNCHANGED vars
    PROVE  RecordKept(r) /\ UNCHANGED <<graph, worker, request>>
  <1>0. UNCHANGED <<graph, worker, request>>
    BY DEF Redeliver, GrowStale, Maintain, FailStaleInProgress, FailStalePending, vars
  <1>1. RowsTyped /\ run[r] \in Rows
    BY DEF TeamsInv, TeamsTyped, RowsTyped
  <1>2. CASE \E j \in Jobs : Redeliver(j)
    BY <1>0, <1>2, SameRecord DEF Redeliver
  <1>3. CASE \E q \in Runs : GrowStale(q)
    <2>1. PICK q \in Runs : run' = [run EXCEPT ![q].stale = TRUE]
      BY <1>3 DEF GrowStale
    <2>2. run'[r].requested = run[r].requested /\ run'[r].resolved = run[r].resolved
      BY <1>1, <2>1 DEF RowsTyped, Rows
    <2> QED BY <1>0, <2>2 DEF RecordKept
  <1>4. CASE \E q \in Runs : Maintain(q)
    <2>1. PICK q \in Runs, code \in Errors : Write(q, Failed(run[q], code))
      BY <1>4 DEF Maintain, FailStaleInProgress, FailStalePending, Errors
    <2> QED BY <1>0, <1>1, <2>1, FailRecord
  <1>5. CASE UNCHANGED vars
    BY <1>0, <1>5, SameRecord DEF vars, rows
  <1> QED BY <1>2, <1>3, <1>4, <1>5

\* A step of anyone.
LEMMA StepsKeepRecord ==
    ASSUME TeamsInv, [Next]_vars, NEW r \in Runs, run[r].status # "absent"
    PROVE  /\ RecordKept(r)
           /\ \/ \E w \in Workers : Busy(w, r) /\ step[w] = "post"
              \/ posts'[r] = posts[r] /\ Made(r)' = Made(r)
  <1>1. UNCHANGED graph => posts'[r] = posts[r] /\ Made(r)' = Made(r)
    BY GraphKept DEF graph
  <1>2. CASE \E c \in Callers : Request(c) \/ Pursue(c)
    BY <1>1, <1>2, RequestsKeepRecord
  <1>3. CASE \E w \in Workers : Take(w) \/ Process(w) \/ Crash(w)
    BY <1>3, WorkersKeepRecord
  <1>4. CASE \/ \E j \in Jobs : Redeliver(j)
             \/ \E q \in Runs : GrowStale(q) \/ Maintain(q)
             \/ UNCHANGED vars
    BY <1>1, <1>4, OthersKeepRecord
  <1> QED BY <1>2, <1>3, <1>4 DEF Next

LEMMA OverlappedGrows == ASSUME [Next]_vars PROVE overlapped \subseteq overlapped'
  <1>1. CASE \E w \in Workers : Take(w)
    BY <1>1 DEF Take
  <1>2. CASE ~\E w \in Workers : Take(w)
    BY <1>2 DEF Next, Request, Pursue, Process, Maintain, StartProvisioning,
       RetryProvisioning, ResolveUnknown, FindBlockingRun, CreateRun, EnqueueFirst,
       NoteJob, QueueUnavailable, GetJob, ReserveSame, Requeue, Revive, Reserve,
       EnqueueRetry, Compensate, ConfirmNotCreated, AttachFound, RecordFound,
       CallerCrash, ReadRun, Heartbeat, DeclareUnknown, RequestCreation, CreateTeam,
       RecordCreation, Poll, Attach, Complete, HandleError, Acknowledge, Crash,
       Redeliver, GrowStale, FailStaleInProgress, FailStalePending, vars, history
  <1> QED BY <1>1, <1>2

\* A worker comes to its POST by recording that it will.
LEMMA PostEntered ==
    ASSUME TeamsInv, NEW w \in Workers, Take(w) \/ Process(w) \/ Crash(w)
    PROVE  /\ \A x \in Workers \ {w} : step'[x] = step[x] /\ on'[x] = on[x]
           /\ step'[w] = "post" => step[w] = "request" /\ on'[w] = on[w]
  <1>1. step \in [Workers -> WorkerSteps] /\ on \in [Workers -> Jobs \cup {None}]
    BY DEF TeamsInv, TeamsTyped, WorkersTyped
  <1>2. \/ /\ on' = on
           /\ \E to : step' = [step EXCEPT ![w] = to] /\ (to = "post" => step[w] = "request")
        \/ /\ \E j : on' = [on EXCEPT ![w] = j]
           /\ \E to : step' = [step EXCEPT ![w] = to] /\ to # "post"
    <2>1. CASE Take(w)
      BY <2>1 DEF Take
    <2>2. CASE Crash(w) \/ Acknowledge(w)
      BY <2>2 DEF Crash, Acknowledge, EndJob
    <2>3. CASE ReadRun(w) \/ Heartbeat(w) \/ DeclareUnknown(w) \/ RequestCreation(w)
      BY <2>3 DEF ReadRun, Heartbeat, DeclareUnknown, RequestCreation, Continue, Throw
    <2>4. CASE CreateTeam(w) \/ Attach(w) \/ Complete(w)
      BY <2>4 DEF CreateTeam, Attach, Complete, Continue, Throw, Refused
    <2>5. CASE RecordCreation(w) \/ Poll(w)
      <3>1. on' = on /\ \E to \in {"poll", "attach", "unclear", "error"} : Continue(w, to)
        BY <2>5 DEF RecordCreation, Poll, Throw, Refused, Pursued
      <3> QED BY <3>1 DEF Continue
    <2>6. CASE HandleError(w)
      BY <2>6 DEF HandleError, Continue, EndJob
    <2> QED BY <2>1, <2>2, <2>3, <2>4, <2>5, <2>6 DEF Process
  <1> QED BY <1>1, <1>2

\* What a user did not find stays absent.
LEMMA DeniedStays ==
    ASSUME TeamsInv, [Next]_vars, NEW r \in Runs, r \notin overlapped, Denied(r)
    PROVE  Denied(r)'
  <1>1. run[r].requested /\ Made(r) = {} /\ \A x \in Workers : Busy(x, r) => step[x] # "post"
    BY DEF Denied
  <1>2. run[r].status # "absent"
    BY <1>1 DEF TeamsInv, AbsentIsNew
  <1>3. run'[r].requested /\ Made(r)' = {}
    BY <1>1, <1>2, StepsKeepRecord DEF RecordKept
  <1>4. ASSUME NEW x \in Workers, Busy(x, r)' PROVE step'[x] # "post"
    <2>1. Busy(x, r) /\ step[x] = "request" => FALSE
      BY <1>1 DEF TeamsInv, Truthful, WorkerTruthful, Busy
    <2>2. CASE UNCHANGED worker
      <3>1. Busy(x, r)
        BY <1>4, <2>2 DEF worker, Busy, Working, Run
      <3> QED BY <1>1, <2>2, <3>1 DEF worker
    <2>3. ASSUME NEW w \in Workers, Take(w) \/ Process(w) \/ Crash(w), step'[x] = "post"
          PROVE  FALSE
      <3>1. on'[x] = on[x] /\ step[x] \in {"post", "request"}
        BY <2>3, PostEntered
      <3>2. Busy(x, r)
        BY <1>4, <3>1 DEF Busy, Working, Outcomes, Run
      <3> QED BY <1>1, <2>1, <2>3, <3>1, <3>2, PostEntered
    <2>4. (\E c \in Callers : Request(c) \/ Pursue(c)) => UNCHANGED worker
      BY DEF Request, Pursue, StartProvisioning, RetryProvisioning, ResolveUnknown,
             FindBlockingRun, CreateRun, EnqueueFirst, NoteJob, QueueUnavailable, GetJob,
             ReserveSame, Requeue, Revive, Reserve, EnqueueRetry, Compensate,
             ConfirmNotCreated, AttachFound, RecordFound, CallerCrash
    <2> QED BY <2>2, <2>3, <2>4, OthersKeepRecord DEF Next
  <1> QED BY <1>3, <1>4 DEF Denied

LEMMA AskIs ==
    ASSUME TeamsInv, NEW c \in Callers, NEW next, NEW q, NEW what, Ask(c, next, q, what)
    PROVE  Moved(c, next, q, what)
  BY DEF Ask, TeamsInv, TeamsTyped, CallersTyped, Moved

LEMMA GoIs ==
    ASSUME TeamsInv, NEW c \in Callers, NEW next, Go(c, next)
    PROVE  Moved(c, next, about[c], known[c])
  BY DEF Go, TeamsInv, TeamsTyped, CallersTyped, Moved

LEMMA AnswerIs ==
    ASSUME TeamsInv, NEW c \in Callers, Answer(c)
    PROVE  Moved(c, "idle", None, Nothing)
  BY AskIs DEF Answer

\* A request comes to its confirmation by finding no Team of a run in doubt.
LEMMA ConfirmEntered ==
    ASSUME TeamsInv, NEW c \in Callers, Request(c) \/ Pursue(c)
    PROVE  \E next, p, what :
              /\ Moved(c, next, p, what)
              /\ next = "confirmNotCreated" =>
                    /\ p \in Runs /\ InDoubt(p) /\ Made(p) = {}
                    /\ UNCHANGED <<run, graph, worker>>
  <1>1. CASE Answer(c)
    BY <1>1, AnswerIs
  <1>2. CASE \E next : next # "confirmNotCreated" /\ Go(c, next)
    BY <1>2, GoIs
  <1>3. CASE \E next, p, what : next # "confirmNotCreated" /\ Ask(c, next, p, what)
    BY <1>3, AskIs
  <1>4. CASE /\ UNCHANGED <<run, graph, worker>>
             /\ \E p \in Runs : /\ InDoubt(p) /\ Made(p) = {}
                                /\ Ask(c, "confirmNotCreated", p, Nothing)
    BY <1>4, AskIs
  <1>5. CASE GetJob(c)
    <2>1. \/ Answer(c)
          \/ \E next \in {"reserve", "reserveSame", "reviveActive", "reviveWaiting"} : Go(c, next)
      BY <1>5 DEF GetJob
    <2> QED BY <1>1, <1>2, <2>1
  <1>6. CASE ResolveUnknown(c)
    BY <1>3, <1>4, <1>6 DEF ResolveUnknown, InDoubt, rows
  <1>7. CASE \/ StartProvisioning(c) \/ FindBlockingRun(c) \/ EnqueueFirst(c) \/ NoteJob(c)
             \/ ReserveSame(c) \/ Requeue(c) \/ EnqueueRetry(c) \/ AttachFound(c)
    BY <1>1, <1>2, <1>7 DEF StartProvisioning, FindBlockingRun, EnqueueFirst, NoteJob,
       ReserveSame, Requeue, EnqueueRetry, AttachFound
  <1>8. CASE \/ QueueUnavailable(c) \/ Revive(c) \/ Compensate(c) \/ ConfirmNotCreated(c)
             \/ RecordFound(c) \/ CallerCrash(c)
    BY <1>1, <1>8 DEF QueueUnavailable, Revive, Compensate, ConfirmNotCreated, RecordFound,
       CallerCrash
  <1>9. CASE RetryProvisioning(c) \/ CreateRun(c) \/ Reserve(c)
    BY <1>1, <1>3, <1>9 DEF RetryProvisioning, CreateRun, Reserve
  <1> QED BY <1>5, <1>6, <1>7, <1>8, <1>9 DEF Request, Pursue

LEMMA ConfirmStays == ASSUME TeamsInv, ConfirmHolds, [Next]_vars PROVE ConfirmHolds'
  <1> SUFFICES ASSUME NEW c \in Callers, at'[c] = "confirmNotCreated", about'[c] \notin overlapped'
               PROVE  Denied(about[c])'
    BY DEF ConfirmHolds
  <1>1. PICK r : r = about'[c]
    OBVIOUS
  <1>2. r \notin overlapped
    BY <1>1, OverlappedGrows
  <1>3. at[c] = "confirmNotCreated" /\ about[c] = r => Denied(r)'
    <2> SUFFICES ASSUME at[c] = "confirmNotCreated", about[c] = r PROVE Denied(r)'
      OBVIOUS
    <2>1. r \in Runs /\ Denied(r)
      BY <1>2, NotAbsent DEF ConfirmHolds, AskSteps
    <2> QED BY <1>2, <2>1, DeniedStays
  <1>4. UNCHANGED request => Denied(r)'
    BY <1>1, <1>3 DEF request
  <1>5. ASSUME NEW d \in Callers, Request(d) \/ Pursue(d) PROVE Denied(r)'
    <2>1. PICK next, p, what :
              /\ Moved(d, next, p, what)
              /\ next = "confirmNotCreated" =>
                    /\ p \in Runs /\ InDoubt(p) /\ Made(p) = {}
                    /\ UNCHANGED <<run, graph, worker>>
      BY <1>5, ConfirmEntered
    <2>2. CASE c # d
      BY <1>1, <1>3, <2>1, <2>2 DEF Moved
    <2>3. CASE c = d
      <3>1. /\ p = r /\ r \in Runs /\ InDoubt(r) /\ Made(r) = {}
            /\ UNCHANGED <<run, graph, worker>>
        BY <1>1, <2>1, <2>3 DEF Moved
      <3>2. run[r].requested
        BY <1>2, <3>1 DEF TeamsInv, Truthful, DoubtHolds, Doubtful
      <3>3. \A w \in Workers : Busy(w, r) => step[w] # "post"
        BY <1>2, <3>1 DEF TeamsInv, Truthful, WorkerTruthful, Busy
      <3>4. Made(r)' = Made(r)
        BY <3>1, GraphKept
      <3>5. \A w \in Workers : Busy(w, r)' => Busy(w, r)
        BY <3>1 DEF worker, Busy, Working, Run
      <3> QED BY <3>1, <3>2, <3>3, <3>4, <3>5 DEF Denied, worker
    <2> QED BY <2>2, <2>3
  <1>6. (\E w \in Workers : Take(w) \/ Process(w) \/ Crash(w)) => UNCHANGED request
    BY DEF Take, Process, Crash, ReadRun, Heartbeat, DeclareUnknown, RequestCreation, CreateTeam,
           RecordCreation, Poll, Attach, Complete, HandleError, Acknowledge
  <1>7. (\/ \E j \in Jobs : Redeliver(j)
         \/ \E q \in Runs : GrowStale(q) \/ Maintain(q)
         \/ UNCHANGED vars) => UNCHANGED request
    BY DEF Redeliver, GrowStale, Maintain, FailStaleInProgress, FailStalePending, vars
  <1>8. Denied(r)'
    <2>1. \/ UNCHANGED request
          \/ \E d \in Callers : Request(d) \/ Pursue(d)
      BY <1>6, <1>7 DEF Next
    <2> QED BY <1>4, <1>5, <2>1
  <1> QED BY <1>1, <1>8 DEF Denied, Made, Busy, Working, Run

-------------------------------------------------------------------------------
(***************************************************************************)
(* The theorems                                                            *)
(***************************************************************************)
LEMMA NextKeeps == TeamsInv /\ ConfirmHolds /\ [Next]_vars => TeamsInv' /\ ConfirmHolds'
  <1> SUFFICES ASSUME TeamsInv, ConfirmHolds, [Next]_vars PROVE TeamsInv' /\ ConfirmHolds'
    OBVIOUS
  <1>1. ConfirmHolds'
    BY ConfirmStays
  <1>2. CASE UNCHANGED vars
    BY <1>1, <1>2, StutterKeeps
  <1>3. CASE \E c \in Callers : Request(c) \/ Pursue(c)
    BY <1>1, <1>3, RequestKeeps
  <1>4. CASE \E w \in Workers : Take(w) \/ Process(w) \/ Crash(w)
    BY <1>1, <1>4, WorkerKeeps
  <1>5. CASE \E j \in Jobs : Redeliver(j)
    BY <1>1, <1>5, RedeliverKeeps
  <1>6. CASE \E r \in Runs : GrowStale(r) \/ Maintain(r)
    BY <1>1, <1>6, GrowStaleKeeps, FailStaleInProgressKeeps, FailStalePendingKeeps DEF Maintain
  <1> QED BY <1>2, <1>3, <1>4, <1>5, <1>6 DEF Next

LEMMA InitConfirms == Init => ConfirmHolds
  BY DEF Init, ConfirmHolds

\* The rows tell what Graph was asked for, and each worker knows where it is.
THEOREM TruthfulRows == Spec => []TeamsInv
  <1>1. Init => TeamsInv /\ ConfirmHolds
    BY InitTruthful, InitConfirms
  <1> QED BY <1>1, NextKeeps, PTL DEF Spec

\* Every variable keeps its type, in every state of every behaviour.
THEOREM TeamsTypes == Spec => []TypeOK
  <1>1. TeamsInv => TypeOK
    BY DEF TeamsInv, TeamsTyped, RowsTyped, WorkersTyped, CallersTyped, TypeOK,
           Rows, JobRows, Views
  <1> QED BY <1>1, TruthfulRows, PTL

\* At most one POST of a run is accepted (createTeam is reached once).
THEOREM OnePost == Spec => []PostedOnce
  <1>1. TeamsInv => PostedOnce
    BY DEF TeamsInv, Truthful, RowTruthful, PostedOnce
  <1> QED BY <1>1, TruthfulRows, PTL

\* The Team attached to the project is one Graph has made, unless Graph named
\* no operation to wait for and the run went on with the Team's id alone.
THEOREM AttachedExists == Spec => []AttachedTeamExists
  <1>1. TeamsInv => AttachedTeamExists
    <2> SUFFICES ASSUME TeamsInv, NEW r \in Runs \ overlapped, NEW k \in 1 .. posts[r],
                        link = Team(r, k)
                 PROVE  link \in Made(r) \/ Unwatched(r)
      BY DEF AttachedTeamExists
    <2>1. RowTruthful(r) /\ k \in Nat
      BY DEF TeamsInv, TeamsTyped, RowsTyped, Truthful
    <2>2. link # None /\ link[1] = r
      BY <2>1, TeamsAssumption DEF Team
    <2> QED BY <2>1, <2>2 DEF RowTruthful
  <1> QED BY <1>1, TruthfulRows, PTL

\* Nothing a step does reopens a run a user has closed.
THEOREM ClosedStaysClosed == Spec => ClosedForGood
  <1>1. TeamsInv /\ TeamsInv' /\ [Next]_vars => [\A r \in Runs \ overlapped' : StaysClosed(r)]_vars
    <2> SUFFICES ASSUME TeamsInv, TeamsInv', Next, NEW r \in Runs \ overlapped', Closed(r)
                 PROVE  /\ run'[r].resolved = "CONFIRMED_NOT_CREATED"
                        /\ run'[r].status \notin {"COMPLETED", "PARTIAL"}
                        /\ posts'[r] = posts[r]
      BY DEF StaysClosed, Closed
    <2>1. r \in Runs /\ r \notin overlapped
      BY OverlappedGrows
    <2>2. run[r].status # "absent" /\ run[r].resolved = "CONFIRMED_NOT_CREATED"
      BY <2>1 DEF TeamsInv, AbsentIsNew, Closed
    <2>3. \A w \in Workers : Busy(w, r) => step[w] # "post"
      BY <2>1 DEF TeamsInv, Truthful, Busy, WorkerTruthful, WorkSteps
    <2>4. run'[r].resolved = run[r].resolved /\ posts'[r] = posts[r]
      BY <2>1, <2>2, <2>3, StepsKeepRecord DEF RecordKept
    <2>5. DoubtHolds(r)' /\ Closed(r)'
      BY <2>1, <2>2, <2>4 DEF TeamsInv, Truthful, Closed
    <2> QED BY <2>2, <2>4, <2>5 DEF DoubtHolds, Closed
  <1> QED BY <1>1, TruthfulRows, PTL DEF Spec, ClosedForGood

-------------------------------------------------------------------------------
(***************************************************************************)
(* The jobs of a run: one is live at a time, for any number of runs,       *)
(* workers, requests, retries, attempts and faults.                        *)
(***************************************************************************)
Numbers == 0 .. MaxRetries

State(r, k) == job[<<r, k>>].state

\* The number of the job a run is at: its first one until currentJobId is set.
Current(r) == IF run[r].job = None THEN 0 ELSE run[r].job

\* Requests adding the first job of a run, and requests retrying it.
Adding(c, r) == at[c] \in {"enqueue", "note", "unavailable"} /\ about[c] = r
Retrying(c, r) == at[c] \in RetrySteps /\ about[c] = r

\* No job is ahead of the row, and none behind it is live.
Numbered(r) ==
    /\ \A k \in Numbers : State(r, k) # "none" => k <= Current(r)
    /\ \A k \in Numbers : State(r, k) \in Live => k = Current(r)
    /\ Current(r) <= run[r].retries

\* A job the row does not name yet is one a request is about to note.
FirstNoted(r) ==
    run[r].job = None /\ State(r, 0) # "none" =>
        \E c \in Callers : at[c] = "note" /\ about[c] = r

\* One request adds the first job, to a run that is still as it made it.
FirstAdded(r) ==
    \A c \in Callers : Adding(c, r) =>
        /\ ~run[r].stale
        /\ at[c] # "note" =>
              /\ run[r].job = None
              /\ run[r].status = "PENDING"
              /\ \A k \in Numbers : State(r, k) = "none"
              /\ \A d \in Callers : ~Retrying(d, r)
        /\ \A d \in Callers : Adding(d, r) => d = c

\* What is true of a job a request has reserved and is about to add.
Reserves(c, r) ==
    /\ run[r].status = "PENDING"
    /\ ~run[r].stale
    /\ run[r].job = known[c].job
    /\ State(r, known[c].job) = "none"
    /\ \A d \in Callers \ {c} : Retrying(d, r) => known[d].job # known[c].job

\* What a request that retries a run knows of the job it has read.
RetryKnows(c, r) ==
    LET k == known[c].job IN
    /\ k # None => run[r].job # None /\ k <= run[r].job
    /\ at[c] \in {"getJob", "reserve"} /\ k # None => k <= known[c].retries
    /\ at[c] = "reserve" /\ k # None => State(r, k) \in {"none", "completed"}
    /\ at[c] = "reserve" /\ k = None /\ run[r].job = None => State(r, 0) \notin Live
    /\ at[c] \in {"reserveSame", "requeue"} => State(r, k) # "none"
    /\ at[c] = "requeue" => State(r, k) = "completed" \/ k = run[r].job
    /\ at[c] = "compensate" => k # None
    /\ at[c] = "enqueueRetry" => Reserves(c, r)

JobsOrdered(r) ==
    r \notin unseen =>
        /\ Numbered(r)
        /\ FirstNoted(r)
        /\ FirstAdded(r)
        /\ \A c \in Callers : Retrying(c, r) => RetryKnows(c, r)

JobsInv ==
    /\ TeamsInv
    /\ ConfirmHolds
    /\ \A r \in Runs : JobsOrdered(r)
    /\ overlapped \subseteq unseen

-------------------------------------------------------------------------------
(***************************************************************************)
(* Steps that add no job and renumber none                                 *)
(***************************************************************************)
\* A job only leaves the live states, or moves among them.
JobsEnd(r) ==
    \A k \in Numbers :
        \/ State(r, k)' = State(r, k)
        \/ State(r, k) \in Live /\ State(r, k)' \in {"waiting", "active", "completed", "failed"}

SameRequest(d) == at'[d] = at[d] /\ about'[d] = about[d] /\ known'[d] = known[d]

\* The row stays as the requests that are adding a job to it need it.
RowHeld(r) ==
    \A d \in Callers :
        /\ Adding(d, r)' => ~run'[r].stale
        /\ (Adding(d, r)' /\ at'[d] # "note") \/ (at'[d] = "enqueueRetry" /\ about'[d] = r)
              => ~run'[r].stale /\ run'[r].status = run[r].status

\* Where the request that moves comes from, and goes.
MovesOn(c, r) ==
    /\ Adding(c, r)' => SameRequest(c)
    /\ at[c] = "note" /\ about[c] = r =>
          \/ at'[c] = "note" /\ about'[c] = r
          \/ run[r].job # None
          \/ State(r, 0) = "none"
    /\ Retrying(c, r)' =>
          /\ RetryKnows(c, r)'
          /\ \A d \in Callers \ {c} :
                at[d] = "enqueueRetry" /\ about[d] = r => known'[c].job # known[d].job
          /\ \A d \in Callers \ {c} : Adding(d, r) => at[d] = "note"

LEMMA ZeroIsNumber == 0 \in Numbers
  BY TeamsAssumption DEF Numbers

LEMMA JobsKept ==
    ASSUME TeamsInv, TeamsInv', NEW r \in Runs, JobsOrdered(r), r \notin unseen,
           run'[r].job = run[r].job, run'[r].retries >= run[r].retries,
           JobsEnd(r), RowHeld(r), NEW c,
           \A d \in Callers \ {c} : SameRequest(d), c \in Callers => MovesOn(c, r)
    PROVE  JobsOrdered(r)'
  <1>1. /\ Numbered(r) /\ FirstNoted(r) /\ FirstAdded(r)
        /\ \A d \in Callers : Retrying(d, r) => RetryKnows(d, r)
    BY DEF JobsOrdered
  <1>2. run[r] \in Rows /\ run'[r] \in Rows /\ Current(r) \in Numbers /\ Current(r)' = Current(r)
    BY TeamsAssumption DEF TeamsInv, TeamsTyped, RowsTyped, Rows, Current, Numbers
  <1>3. Numbered(r)'
    <2>1. Current(r)' <= run'[r].retries
      BY <1>1, <1>2, TeamsAssumption DEF Numbered, Rows, Numbers
    <2>2. ASSUME NEW k \in Numbers
          PROVE  /\ State(r, k)' # "none" => State(r, k) # "none"
                 /\ State(r, k)' \in Live => State(r, k) \in Live
      BY DEF JobsEnd, Live
    <2> QED BY <1>1, <1>2, <2>1, <2>2 DEF Numbered
  <1>4. FirstNoted(r)'
    <2>1. SUFFICES ASSUME run[r].job = None, State(r, 0)' # "none"
                   PROVE  \E d \in Callers : at'[d] = "note" /\ about'[d] = r
      BY DEF FirstNoted
    <2>2. State(r, 0) # "none"
      BY <2>1, ZeroIsNumber DEF JobsEnd, Live
    <2>3. PICK d \in Callers : at[d] = "note" /\ about[d] = r
      BY <1>1, <2>1, <2>2 DEF FirstNoted
    <2> QED BY <2>1, <2>2, <2>3 DEF SameRequest, MovesOn
  <1>5. FirstAdded(r)'
    <2>1. ASSUME NEW d \in Callers, Adding(d, r)' PROVE SameRequest(d) /\ Adding(d, r)
      <3>1. SameRequest(d)
        BY <2>1 DEF MovesOn
      <3> QED BY <2>1, <3>1 DEF SameRequest, Adding
    <2>2. ASSUME NEW d \in Callers, Adding(d, r)', at'[d] # "note"
          PROVE  /\ run'[r].job = None /\ run'[r].status = "PENDING"
                 /\ \A k \in Numbers : State(r, k)' = "none"
                 /\ \A e \in Callers : ~Retrying(e, r)'
      <3>1. /\ run[r].job = None /\ run[r].status = "PENDING"
            /\ \A k \in Numbers : State(r, k) = "none"
            /\ \A e \in Callers : ~Retrying(e, r)
        BY <1>1, <2>1, <2>2 DEF FirstAdded, SameRequest
      <3>2. ASSUME NEW e \in Callers, Retrying(e, r)' PROVE FALSE
        <4>1. CASE e = c
          <5>1. d # c
            BY <2>2, <3>2, <4>1 DEF Adding, Retrying, RetrySteps
          <5> QED BY <2>1, <2>2, <3>2, <4>1, <5>1 DEF MovesOn, SameRequest
        <4>2. CASE e # c
          BY <3>1, <3>2, <4>2 DEF SameRequest, Retrying
        <4> QED BY <4>1, <4>2
      <3> QED BY <2>2, <3>1, <3>2 DEF RowHeld, JobsEnd, Live
    <2> QED BY <1>1, <2>1, <2>2 DEF FirstAdded, RowHeld
  <1>6. ASSUME NEW d \in Callers, Retrying(d, r)' PROVE RetryKnows(d, r)'
    <2>1. CASE d = c
      BY <1>6, <2>1 DEF MovesOn
    <2>2. CASE d # c
      <3>1. /\ SameRequest(d) /\ Retrying(d, r) /\ RetryKnows(d, r) /\ known[d] \in Reads
        BY <1>1, <1>6, <2>2 DEF SameRequest, Retrying, TeamsInv, TeamsTyped, CallersTyped
      <3> DEFINE k == known[d].job
      <3>2. /\ at[d] \in {"reserveSame", "requeue", "enqueueRetry"} => k \in Numbers
            /\ k # None => k \in Numbers
        BY <3>1, TeamsAssumption DEF TeamsInv, TeamsTyped, CallersTyped, Reads, Numbers
      <3>3. \A m \in Numbers :
                /\ State(r, m) = "none" => job'[<<r, m>>].state = "none"
                /\ State(r, m) # "none" => job'[<<r, m>>].state # "none"
                /\ State(r, m) = "completed" => job'[<<r, m>>].state = "completed"
                /\ State(r, m) \notin Live => job'[<<r, m>>].state \notin Live
        BY DEF JobsEnd, Live, State
      <3>4. ASSUME at[d] = "enqueueRetry" PROVE Reserves(d, r)'
        <4>1. Reserves(d, r)
          BY <3>1, <3>4 DEF RetryKnows
        <4>2. run'[r].status = "PENDING" /\ ~run'[r].stale
          BY <3>1, <3>4, <4>1 DEF Reserves, RowHeld, SameRequest, Retrying
        <4>3. ASSUME NEW e \in Callers \ {d}, Retrying(e, r)' PROVE known'[e].job # known'[d].job
          <5>1. CASE e = c
            BY <3>1, <3>4, <4>3, <5>1 DEF MovesOn, SameRequest, Retrying
          <5>2. CASE e # c
            BY <3>1, <4>1, <4>3, <5>2 DEF SameRequest, Retrying, Reserves
          <5> QED BY <5>1, <5>2
        <4>4. job'[<<r, k>>].state = "none"
          BY <3>2, <3>3, <3>4, <4>1 DEF Reserves
        <4> QED BY <3>1, <4>1, <4>2, <4>3, <4>4 DEF Reserves, SameRequest, State
      <3> QED BY <3>1, <3>2, <3>3, <3>4, ZeroIsNumber DEF RetryKnows, SameRequest, State
    <2> QED BY <2>1, <2>2
  <1> QED BY <1>3, <1>4, <1>5, <1>6 DEF JobsOrdered

\* What a run keeps for the requests that are adding a job to it.
LEMMA AddingHolds ==
    ASSUME NEW r \in Runs, JobsOrdered(r), r \notin unseen, NEW d \in Callers
    PROVE  /\ Adding(d, r) => ~run[r].stale
           /\ at[d] = "enqueueRetry" /\ about[d] = r => Reserves(d, r)
  BY DEF JobsOrdered, FirstAdded, RetryKnows, Retrying, RetrySteps

\* While a job of a run is live, no request is adding one.
LEMMA LiveAlone ==
    ASSUME TeamsInv, NEW r \in Runs, JobsOrdered(r), r \notin unseen,
           NEW k \in Numbers, State(r, k) \in Live
    PROVE  /\ k = Current(r)
           /\ \A d \in Callers :
                /\ Adding(d, r) => at[d] = "note"
                /\ about[d] = r => at[d] # "enqueueRetry"
  <1>1. k = Current(r) /\ State(r, k) # "none"
    BY DEF JobsOrdered, Numbered, Live
  <1>2. ASSUME NEW d \in Callers, Adding(d, r) PROVE at[d] = "note"
    BY <1>1, <1>2 DEF JobsOrdered, FirstAdded
  <1>3. ASSUME NEW d \in Callers, about[d] = r, at[d] = "enqueueRetry" PROVE FALSE
    <2>1. Reserves(d, r) /\ known[d].job \in 1 .. MaxRetries
      BY <1>3, AddingHolds DEF TeamsInv, TeamsTyped, CallersTyped
    <2>2. Current(r) = known[d].job
      BY <2>1, TeamsAssumption DEF Reserves, Current, TeamsInv, TeamsTyped, RowsTyped, Rows
    <2> QED BY <1>1, <2>1, <2>2 DEF Reserves
  <1> QED BY <1>1, <1>2, <1>3

\* A step that is about another run.
LEMMA ApartKept ==
    ASSUME TeamsInv, TeamsInv', NEW r \in Runs, JobsOrdered(r), r \notin unseen,
           run'[r] = run[r], \A k \in Numbers : job'[<<r, k>>] = job[<<r, k>>],
           NEW c, \A d \in Callers \ {c} : SameRequest(d),
           c \in Callers => about[c] # r /\ about'[c] # r
    PROVE  JobsOrdered(r)'
  <1>1. JobsEnd(r)
    BY DEF JobsEnd, State
  <1>2. c \in Callers => MovesOn(c, r)
    BY DEF MovesOn, Adding, Retrying
  <1>3. RowHeld(r)
    <2> SUFFICES ASSUME NEW d \in Callers, about'[d] = r
                 PROVE  /\ Adding(d, r)' => ~run'[r].stale
                        /\ at'[d] = "enqueueRetry" => ~run'[r].stale
      BY DEF RowHeld, Adding
    <2>1. Adding(d, r)' => Adding(d, r)
      BY DEF Adding, SameRequest
    <2>2. at'[d] = "enqueueRetry" => at[d] = "enqueueRetry" /\ about[d] = r
      BY DEF SameRequest
    <2> QED BY <2>1, <2>2, AddingHolds DEF Reserves
  <1>4. run'[r].retries >= run[r].retries
    BY TeamsAssumption DEF TeamsInv, TeamsTyped, RowsTyped, Rows
  <1> QED BY <1>1, <1>2, <1>3, <1>4, JobsKept

\* A step of a live job: it goes on, or leaves the row as it was.
LEMMA LiveStepKept ==
    ASSUME TeamsInv, TeamsInv', NEW r \in Runs, JobsOrdered(r), r \notin unseen,
           UNCHANGED request,
           run'[r].job = run[r].job, run'[r].retries = run[r].retries,
           run'[r].stale => run[r].stale,
           NEW k \in Numbers, State(r, k) \in Live,
           State(r, k)' \in {"waiting", "active", "completed", "failed"},
           \A m \in Numbers \ {k} : State(r, m)' = State(r, m)
    PROVE  JobsOrdered(r)'
  <1>1. JobsEnd(r)
    BY DEF JobsEnd
  <1>2. \A d \in Callers : SameRequest(d)
    BY DEF SameRequest, request
  <1>3. RowHeld(r)
    <2> SUFFICES ASSUME NEW d \in Callers
                 PROVE  /\ Adding(d, r)' => ~run'[r].stale
                        /\ ~(Adding(d, r)' /\ at'[d] # "note")
                        /\ ~(at'[d] = "enqueueRetry" /\ about'[d] = r)
      BY DEF RowHeld
    <2>1. Adding(d, r)' <=> Adding(d, r)
      BY <1>2 DEF Adding, SameRequest
    <2> QED BY <1>2, <2>1, LiveAlone, AddingHolds DEF SameRequest
  <1>4. run'[r].retries >= run[r].retries
    BY TeamsAssumption DEF TeamsInv, TeamsTyped, RowsTyped, Rows
  <1>5. PICK c : c \notin Callers
    BY NoSetContainsEverything
  <1> QED BY <1>1, <1>2, <1>3, <1>4, <1>5, JobsKept

-------------------------------------------------------------------------------
(***************************************************************************)
(* Workers and the queue                                                   *)
(***************************************************************************)
\* A row written with its numbers as they were.
RowGoesOn(q) ==
    /\ \A r \in Runs \ {q} : run'[r] = run[r]
    /\ run'[q].job = run[q].job /\ run'[q].retries = run[q].retries
    /\ run'[q].stale => run[q].stale

LEMMA WriteGoesOn ==
    ASSUME RowsTyped, NEW q \in Runs, NEW row \in Rows, Write(q, row),
           row.job = run[q].job, row.retries = run[q].retries
    PROVE  RowGoesOn(q) /\ run'[q].status = row.status
  BY WriteRow DEF RowGoesOn

LEMMA SameGoesOn ==
    ASSUME UNCHANGED run, NEW q
    PROVE  RowGoesOn(q) /\ run'[q].status = run[q].status
  BY DEF RowGoesOn

LEMMA FailedNumbers ==
    ASSUME NEW row \in Rows, NEW code \in Errors
    PROVE  Failed(row, code).job = row.job /\ Failed(row, code).retries = row.retries
  BY DEF Failed, Rows

LEMMA FailGoesOn ==
    ASSUME RowsTyped, NEW q \in Runs, NEW code \in Errors, FailIfActive(q, code)
    PROVE  RowGoesOn(q)
  <1>1. run[q] \in Rows
    BY DEF RowsTyped
  <1> DEFINE row == Failed(run[q], code)
  <1>2. row \in Rows /\ row.job = run[q].job /\ row.retries = run[q].retries
    BY <1>1, FailedRow, FailedNumbers
  <1>3. Write(q, row) \/ UNCHANGED run
    BY DEF FailIfActive
  <1> HIDE DEF row
  <1> QED BY <1>2, <1>3, WriteGoesOn, SameGoesOn

\* What a worker does to the job it is at and to its row.
WorkerMoves(w) ==
    /\ RowGoesOn(Run(w))
    /\ \/ job' = job
       \/ \E o : /\ job' = [job EXCEPT ![on[w]] = o]
                 /\ o.state \in {"waiting", "active", "completed", "failed"}

LEMMA EndsWith ==
    ASSUME NEW j \in JobRows
    PROVE  /\ Completed(j).state = "completed" /\ GivenUp(j).state = "failed"
           /\ Retried(j).state \in {"waiting", "failed"}
  BY DEF Completed, NoJob, GivenUp, Retried, Attempted, JobRows

LEMMA EndMoves ==
    ASSUME TeamsInv, NEW w \in Workers, step[w] # "idle", UNCHANGED run,
           NEW o, EndJob(w, o), o.state \in {"waiting", "active", "completed", "failed"}
    PROVE  WorkerMoves(w)
  <1>1. HoldsLock(w) /\ RowGoesOn(Run(w))
    BY SameGoesOn DEF TeamsInv, LocksHeld
  <1> QED BY <1>1 DEF EndJob, WorkerMoves

LEMMA StaysMoves ==
    ASSUME RowsTyped, NEW w \in Workers, Run(w) \in Runs, UNCHANGED job,
           NEW row \in Rows, Write(Run(w), row),
           row.job = run[Run(w)].job, row.retries = run[Run(w)].retries
    PROVE  WorkerMoves(w)
  BY WriteGoesOn DEF WorkerMoves

LEMMA SilentMoves ==
    ASSUME NEW w \in Workers, UNCHANGED <<run, job>>
    PROVE  WorkerMoves(w)
  BY SameGoesOn DEF WorkerMoves

LEMMA WorkersMove ==
    ASSUME TeamsInv, NEW w \in Workers, Process(w) \/ Crash(w)
    PROVE  WorkerMoves(w)
  <1> DEFINE q == Run(w)
             v == view[w]
             j == job[on[w]]
  <1>1. step[w] # "idle"
    BY DEF Process, Crash, ReadRun, Heartbeat, DeclareUnknown, RequestCreation, CreateTeam,
           RecordCreation, Poll, Attach, Complete, HandleError, Acknowledge
  <1>2. /\ RowsTyped /\ q \in Runs /\ run[q] \in Rows /\ v \in Views /\ j \in JobRows
        /\ j.state = "active"
    BY <1>1, BusyIsStarted DEF TeamsInv, TeamsTyped
  <1>3. v.op \in Nat /\ v.team \in Nat
    BY <1>2 DEF Views
  <1>4. CASE ReadRun(w) \/ CreateTeam(w)
    BY <1>4, SilentMoves DEF ReadRun, CreateTeam, rows
  <1>5. CASE Heartbeat(w)
    <2> DEFINE row == [run[q] EXCEPT !.status = "IN_PROGRESS"]
    <2>1. row \in Rows /\ row.job = run[q].job /\ row.retries = run[q].retries
      BY <1>2 DEF Rows, Statuses, Active
    <2>2. (Write(q, row) \/ UNCHANGED run) /\ UNCHANGED job
      BY <1>5 DEF Heartbeat
    <2> HIDE DEF row
    <2> QED BY <1>2, <2>1, <2>2, StaysMoves, SilentMoves
  <1>6. CASE RequestCreation(w)
    <2> DEFINE row == [run[q] EXCEPT !.requested = TRUE]
    <2>1. row \in Rows /\ row.job = run[q].job /\ row.retries = run[q].retries
      BY <1>2 DEF Rows
    <2>2. (Write(q, row) \/ UNCHANGED run) /\ UNCHANGED job
      BY <1>6 DEF RequestCreation
    <2> HIDE DEF row
    <2> QED BY <1>2, <2>1, <2>2, StaysMoves, SilentMoves
  <1>7. CASE RecordCreation(w)
    <2>1. ASSUME NEW op \in {0, v.op}, NEW id \in {0, v.op},
                 Write(q, [run[q] EXCEPT !.op = op, !.team = id])
          PROVE  WorkerMoves(w)
      <3> DEFINE row == [run[q] EXCEPT !.op = op, !.team = id]
      <3>1. op \in Nat /\ id \in Nat
        BY <1>3
      <3>2. row \in Rows /\ row.job = run[q].job /\ row.retries = run[q].retries
        BY <1>2, <3>1 DEF Rows
      <3>3. Write(q, row) /\ UNCHANGED job
        BY <1>7, <2>1 DEF RecordCreation
      <3> HIDE DEF row
      <3> QED BY <1>2, <3>2, <3>3, StaysMoves
    <2>2. UNCHANGED job
      BY <1>7 DEF RecordCreation
    <2>3. \/ UNCHANGED run
          \/ \E op \in {0, v.op}, id \in {0, v.op} :
                Write(q, [run[q] EXCEPT !.op = op, !.team = id])
      BY <1>7 DEF RecordCreation
    <2> QED BY <2>1, <2>2, <2>3, SilentMoves
  <1>8. CASE Poll(w)
    <2>1. ASSUME NEW id \in {0, v.team, v.op}, Write(q, [run[q] EXCEPT !.team = id])
          PROVE  WorkerMoves(w)
      <3> DEFINE row == [run[q] EXCEPT !.team = id]
      <3>1. id \in Nat
        BY <1>3
      <3>2. row \in Rows /\ row.job = run[q].job /\ row.retries = run[q].retries
        BY <1>2, <3>1 DEF Rows
      <3>3. Write(q, row) /\ UNCHANGED job
        BY <1>8, <2>1 DEF Poll
      <3> HIDE DEF row
      <3> QED BY <1>2, <3>2, <3>3, StaysMoves
    <2>2. UNCHANGED job
      BY <1>8 DEF Poll
    <2>3. \/ UNCHANGED run
          \/ \E id \in {0, v.team, v.op} : Write(q, [run[q] EXCEPT !.team = id])
      BY <1>8 DEF Poll
    <2> QED BY <2>1, <2>2, <2>3, SilentMoves
  <1>9. CASE Attach(w)
    <2>1. (Write(q, run[q]) \/ UNCHANGED run) /\ UNCHANGED job
      BY <1>9 DEF Attach
    <2> QED BY <1>2, <2>1, StaysMoves, SilentMoves
  <1>10. CASE Complete(w)
    <2>1. ASSUME NEW s \in {"COMPLETED", "PARTIAL"}, NEW code \in {"none", "RETRYABLE"},
                 Write(q, [run[q] EXCEPT !.status = s, !.error = code, !.team = v.team])
          PROVE  WorkerMoves(w)
      <3> DEFINE row == [run[q] EXCEPT !.status = s, !.error = code, !.team = v.team]
      <3>1. s \in Statuses /\ code \in Errors
        BY DEF Statuses, Errors
      <3>2. row \in Rows /\ row.job = run[q].job /\ row.retries = run[q].retries
        BY <1>2, <1>3, <3>1 DEF Rows
      <3>3. Write(q, row) /\ UNCHANGED job
        BY <1>10, <2>1 DEF Complete
      <3> HIDE DEF row
      <3> QED BY <1>2, <3>2, <3>3, StaysMoves
    <2>2. UNCHANGED job
      BY <1>10 DEF Complete
    <2>3. \/ UNCHANGED run
          \/ \E s \in {"COMPLETED", "PARTIAL"}, code \in {"none", "RETRYABLE"} :
                Write(q, [run[q] EXCEPT !.status = s, !.error = code, !.team = v.team])
      BY <1>10 DEF Complete
    <2> QED BY <2>1, <2>2, <2>3, SilentMoves
  <1>11. CASE DeclareUnknown(w) \/ HandleError(w)
    <2>1. CASE EndJob(w, Retried(j)) /\ UNCHANGED run
      BY <1>1, <1>2, <2>1, EndsWith, EndMoves
    <2>2. CASE UNCHANGED job /\ \E code \in Errors : FailIfActive(q, code)
      BY <1>2, <2>2, FailGoesOn DEF WorkerMoves
    <2>3. {"UNKNOWN", "RETRYABLE", "GRAPH_ASYNC_FAILED"} \subseteq Errors
      BY DEF Errors
    <2> QED BY <1>11, <2>1, <2>2, <2>3 DEF DeclareUnknown, HandleError
  <1>12. CASE Acknowledge(w)
    <2>1. \E o \in {Completed(j), GivenUp(j)} : EndJob(w, o) /\ UNCHANGED run
      BY <1>12 DEF Acknowledge
    <2> QED BY <1>1, <1>2, <2>1, EndsWith, EndMoves
  <1>13. CASE Crash(w)
    <2>1. EndJob(w, j) /\ UNCHANGED run
      BY <1>13 DEF Crash
    <2> QED BY <1>1, <1>2, <2>1, EndMoves
  <1> QED BY <1>4, <1>5, <1>6, <1>7, <1>8, <1>9, <1>10, <1>11, <1>12, <1>13 DEF Process

LEMMA WorkersUnseen ==
    ASSUME NEW w \in Workers, Process(w) \/ Crash(w)
    PROVE  UNCHANGED <<request, unseen, overlapped>>
  BY DEF Process, Crash, ReadRun, Heartbeat, DeclareUnknown, RequestCreation, CreateTeam,
         RecordCreation, Poll, Attach, Complete, HandleError, Acknowledge, history

LEMMA WorkersOrdered ==
    ASSUME TeamsInv, TeamsInv', NEW w \in Workers, Process(w) \/ Crash(w),
           NEW r \in Runs, JobsOrdered(r)
    PROVE  JobsOrdered(r)'
  <1> DEFINE q == Run(w)
  <1> SUFFICES ASSUME r \notin unseen PROVE JobsOrdered(r)'
    BY WorkersUnseen DEF JobsOrdered
  <1>1. WorkerMoves(w) /\ UNCHANGED request
    BY WorkersMove, WorkersUnseen
  <1>2. step[w] # "idle"
    BY DEF Process, Crash, ReadRun, Heartbeat, DeclareUnknown, RequestCreation, CreateTeam,
           RecordCreation, Poll, Attach, Complete, HandleError, Acknowledge
  <1>3. q \in Runs /\ on[w] \in Jobs /\ job[on[w]].state = "active"
    BY <1>2, BusyIsStarted
  <1>4. PICK k \in Numbers : on[w] = <<q, k>>
    BY <1>3 DEF Jobs, Run, Numbers
  <1>5. \A j \in Jobs \ {on[w]} : job'[j] = job[j]
    BY <1>1 DEF WorkerMoves, TeamsInv, TeamsTyped, RowsTyped
  <1>6. CASE q # r
    <2>1. \A k2 \in Numbers : <<r, k2>> \in Jobs /\ <<r, k2>> # on[w]
      BY <1>4, <1>6, JobsOfRuns DEF Numbers
    <2>2. run'[r] = run[r]
      BY <1>1, <1>6 DEF WorkerMoves, RowGoesOn
    <2>3. PICK c : c \notin Callers
      BY NoSetContainsEverything
    <2>4. \A d \in Callers \ {c} : SameRequest(d)
      BY <1>1 DEF SameRequest, request
    <2> QED BY <1>5, <2>1, <2>2, <2>3, <2>4, ApartKept
  <1>7. CASE q = r
    <2>1. \A m \in Numbers \ {k} : <<r, m>> \in Jobs /\ <<r, m>> # on[w]
      BY <1>4, <1>7, JobsOfRuns DEF Numbers
    <2>2. \A m \in Numbers \ {k} : State(r, m)' = State(r, m)
      BY <1>5, <2>1 DEF State
    <2>3. State(r, k) \in Live
      BY <1>3, <1>4, <1>7 DEF State, Live
    <2>4. job' = job \/ job'[on[w]].state \in {"waiting", "active", "completed", "failed"}
      BY <1>1, <1>3, <1>7 DEF WorkerMoves, TeamsInv, TeamsTyped, RowsTyped
    <2>5. State(r, k)' \in {"waiting", "active", "completed", "failed"}
      BY <1>3, <1>4, <1>7, <2>4 DEF State
    <2>6. /\ run'[r].job = run[r].job /\ run'[r].retries = run[r].retries
          /\ run'[r].stale => run[r].stale
      BY <1>1, <1>7 DEF WorkerMoves, RowGoesOn
    <2> QED BY <1>1, <2>2, <2>3, <2>5, <2>6, LiveStepKept
  <1> QED BY <1>6, <1>7

\* The queue hands a live job over, or takes it back.
LEMMA QueueOrdered ==
    ASSUME TeamsInv, TeamsInv', NEW j \in Jobs, job[j].state \in Live,
           job'[j].state \in {"waiting", "active", "failed"},
           \A i \in Jobs \ {j} : job'[i] = job[i],
           UNCHANGED <<run, request, unseen>>, NEW r \in Runs, JobsOrdered(r)
    PROVE  JobsOrdered(r)'
  <1> SUFFICES ASSUME r \notin unseen PROVE JobsOrdered(r)'
    BY DEF JobsOrdered
  <1>1. PICK q \in Runs, k \in Numbers : j = <<q, k>>
    BY DEF Jobs, Numbers
  <1>2. \A m \in Numbers : <<r, m>> \in Jobs /\ (<<r, m>> = j => r = q /\ m = k)
    BY <1>1, JobsOfRuns DEF Numbers
  <1>3. CASE q # r
    <2>1. \A m \in Numbers : job'[<<r, m>>] = job[<<r, m>>]
      BY <1>2, <1>3
    <2>2. PICK c : c \notin Callers
      BY NoSetContainsEverything
    <2>3. \A d \in Callers \ {c} : SameRequest(d)
      BY DEF SameRequest, request
    <2> QED BY <2>1, <2>2, <2>3, ApartKept
  <1>4. CASE q = r
    <2>1. \A m \in Numbers \ {k} : State(r, m)' = State(r, m)
      BY <1>2 DEF State
    <2>2. State(r, k) \in Live /\ State(r, k)' \in {"waiting", "active", "completed", "failed"}
      BY <1>1, <1>4 DEF State
    <2> QED BY <2>1, <2>2, LiveStepKept
  <1> QED BY <1>3, <1>4

LEMMA RedeliverOrdered ==
    ASSUME TeamsInv, TeamsInv', NEW j \in Jobs, Redeliver(j), NEW r \in Runs, JobsOrdered(r)
    PROVE  JobsOrdered(r)' /\ UNCHANGED <<unseen, overlapped>>
  <1>1. /\ job[j].state = "active" /\ job' = [job EXCEPT ![j] = Redelivered(@)]
        /\ UNCHANGED <<run, request, unseen, overlapped>>
    BY DEF Redeliver, history
  <1>2. job \in [Jobs -> JobRows]
    BY DEF TeamsInv, TeamsTyped, RowsTyped
  <1>3. job'[j] = Redelivered(job[j]) /\ \A i \in Jobs \ {j} : job'[i] = job[i]
    BY <1>1, <1>2
  <1>4. Redelivered(job[j]).state \in {"waiting", "active", "failed"}
    BY <1>2 DEF Redelivered, JobRows
  <1> QED BY <1>1, <1>3, <1>4, QueueOrdered DEF Live

\* Two workers have a run only if it has had two live jobs.
LEMMA TakeOrdered ==
    ASSUME JobsInv, TeamsInv', NEW w \in Workers, Take(w)
    PROVE  (\A r \in Runs : JobsOrdered(r)') /\ overlapped' \subseteq unseen'
  <1>1. PICK j \in Jobs :
            /\ job[j].state = "waiting"
            /\ job' = [job EXCEPT ![j].state = "active", ![j].worker = w]
            /\ overlapped' = IF \E x \in Workers : Working(x) /\ Run(x) = j[1]
                             THEN overlapped \cup {j[1]} ELSE overlapped
            /\ UNCHANGED <<run, request, unseen>>
    BY DEF Take
  <1>2. job \in [Jobs -> JobRows]
    BY DEF JobsInv, TeamsInv, TeamsTyped, RowsTyped
  <1>3. job'[j].state = "active" /\ \A i \in Jobs \ {j} : job'[i] = job[i]
    BY <1>1, <1>2 DEF JobRows
  <1>4. \A r \in Runs : JobsOrdered(r)'
    BY <1>1, <1>3, QueueOrdered DEF JobsInv, Live
  <1>5. PICK q \in Runs, k \in Numbers : j = <<q, k>>
    BY DEF Jobs, Numbers
  <1>6. ASSUME NEW x \in Workers, Working(x), Run(x) = q PROVE q \in unseen
    <2> SUFFICES ASSUME q \notin unseen PROVE FALSE
      OBVIOUS
    <2>1. on[x] \in Jobs /\ job[on[x]].state = "active"
      BY <1>6, BusyIsStarted DEF JobsInv, Working
    <2>2. PICK m \in Numbers : on[x] = <<q, m>>
      BY <1>6, <2>1 DEF Jobs, Run, Numbers
    <2>3. State(q, m) \in Live /\ State(q, k) \in Live /\ State(q, m) # State(q, k)
      BY <1>1, <1>5, <2>1, <2>2 DEF State, Live
    <2> QED BY <2>3, LiveAlone DEF JobsInv
  <1> QED BY <1>1, <1>4, <1>5, <1>6 DEF JobsInv

-------------------------------------------------------------------------------
(***************************************************************************)
(* The maintenance                                                         *)
(***************************************************************************)
LEMMA MaintenanceOrdered ==
    ASSUME TeamsInv, TeamsInv', NEW q \in Runs, UNCHANGED <<job, request, unseen>>,
           \A r \in Runs \ {q} : run'[r] = run[r],
           run'[q].job = run[q].job, run'[q].retries = run[q].retries,
           \/ run[q].stale
           \/ run'[q].status = run[q].status /\ \A c \in Callers : about[c] # q,
           NEW r \in Runs, JobsOrdered(r)
    PROVE  JobsOrdered(r)'
  <1> SUFFICES ASSUME r \notin unseen PROVE JobsOrdered(r)'
    BY DEF JobsOrdered
  <1>1. PICK c : c \notin Callers
    BY NoSetContainsEverything
  <1>2. \A d \in Callers \ {c} : SameRequest(d)
    BY DEF SameRequest, request
  <1>3. CASE r # q
    BY <1>1, <1>2, <1>3, ApartKept
  <1>4. CASE r = q
    <2>1. ASSUME NEW d \in Callers
          PROVE  ~Adding(d, r) /\ ~(at[d] = "enqueueRetry" /\ about[d] = r)
      BY <1>4, AddingHolds DEF Adding, Reserves
    <2>2. RowHeld(r)
      BY <1>1, <1>2, <2>1 DEF RowHeld, Adding, SameRequest
    <2>3. JobsEnd(r)
      BY DEF JobsEnd, State
    <2>4. run'[r].retries >= run[r].retries
      BY <1>4, TeamsAssumption DEF TeamsInv, TeamsTyped, RowsTyped, Rows
    <2> QED BY <1>1, <1>2, <1>4, <2>2, <2>3, <2>4, JobsKept
  <1> QED BY <1>3, <1>4

LEMMA MaintainOrdered ==
    ASSUME TeamsInv, TeamsInv', NEW q \in Runs, GrowStale(q) \/ Maintain(q),
           NEW r \in Runs, JobsOrdered(r)
    PROVE  JobsOrdered(r)' /\ UNCHANGED <<unseen, overlapped>>
  <1>1. RowsTyped /\ run[q] \in Rows
    BY DEF TeamsInv, TeamsTyped, RowsTyped
  <1>2. CASE GrowStale(q)
    <2>1. /\ run' = [run EXCEPT ![q].stale = TRUE] /\ \A c \in Callers : about[c] # q
          /\ UNCHANGED <<job, request, unseen, overlapped>>
      BY <1>2 DEF GrowStale, history
    <2>2. /\ \A x \in Runs \ {q} : run'[x] = run[x]
          /\ run'[q].job = run[q].job /\ run'[q].retries = run[q].retries
          /\ run'[q].status = run[q].status
      BY <1>1, <2>1 DEF RowsTyped, Rows
    <2> QED BY <2>1, <2>2, MaintenanceOrdered
  <1>3. CASE Maintain(q)
    <2>1. PICK code \in Errors : Write(q, Failed(run[q], code))
      BY <1>3 DEF Maintain, FailStaleInProgress, FailStalePending, Errors
    <2>2. run[q].stale /\ UNCHANGED <<job, request, unseen, overlapped>>
      BY <1>3 DEF Maintain, FailStaleInProgress, FailStalePending, history
    <2> DEFINE row == Failed(run[q], code)
    <2>3. row \in Rows /\ row.job = run[q].job /\ row.retries = run[q].retries /\ Write(q, row)
      BY <1>1, <2>1, FailedRow, FailedNumbers
    <2> HIDE DEF row
    <2>4. RowGoesOn(q)
      BY <1>1, <2>3, WriteGoesOn
    <2> QED BY <2>2, <2>4, MaintenanceOrdered DEF RowGoesOn
  <1> QED BY <1>2, <1>3

-------------------------------------------------------------------------------
(***************************************************************************)
(* Requests that add no job                                                *)
(***************************************************************************)
\* What a request does leaves the other runs alone.
LEMMA ElsewhereOrdered ==
    ASSUME TeamsInv, TeamsInv', NEW r \in Runs, JobsOrdered(r), r \notin unseen,
           NEW c \in Callers, NEW next, NEW q, NEW what, Moved(c, next, q, what),
           about[c] # r, q # r,
           run'[r] = run[r], \A k \in Numbers : job'[<<r, k>>] = job[<<r, k>>]
    PROVE  JobsOrdered(r)'
  <1>1. \A d \in Callers \ {c} : SameRequest(d)
    BY DEF Moved, SameRequest
  <1>2. about'[c] = q
    BY DEF Moved
  <1> QED BY <1>1, <1>2, ApartKept

\* No request is adding a job to a run whose outcome is known.
LEMMA SettledAlone ==
    ASSUME NEW r \in Runs, JobsOrdered(r), r \notin unseen, NEW d \in Callers,
           run[r].status # "PENDING"
    PROVE  /\ Adding(d, r) => at[d] = "note"
           /\ about[d] = r => at[d] # "enqueueRetry"
  BY AddingHolds DEF JobsOrdered, FirstAdded, Reserves

\* A request that moves among the steps of a retry, or ends, and leaves the
\* row as it is or shows a settled run as going on.
LEMMA MoveOrdered ==
    ASSUME TeamsInv, TeamsInv', NEW r \in Runs, JobsOrdered(r), r \notin unseen,
           NEW c \in Callers, NEW next, NEW q, NEW what, Moved(c, next, q, what),
           next \notin {"enqueue", "note", "unavailable", "enqueueRetry"},
           at[c] = "note" /\ about[c] = r => run[r].job # None,
           UNCHANGED job,
           run'[r].job = run[r].job, run'[r].retries >= run[r].retries,
           run'[r].stale => run[r].stale,
           run'[r].status = run[r].status \/ run[r].status \notin Active,
           Retrying(c, r)' =>
              /\ Retrying(c, r) \/ run[r].status # "PENDING"
              /\ RetryKnows(c, r)'
              /\ \A d \in Callers \ {c} :
                    at[d] = "enqueueRetry" /\ about[d] = r => what.job # known[d].job
    PROVE  JobsOrdered(r)'
  <1>1. \A d \in Callers \ {c} : SameRequest(d)
    BY DEF Moved, SameRequest
  <1>2. at'[c] = next /\ known'[c] = what
    BY DEF Moved
  <1>3. JobsEnd(r)
    BY DEF JobsEnd, State
  <1>4. MovesOn(c, r)
    <2>1. Retrying(c, r)' => \A d \in Callers : Adding(d, r) => at[d] = "note"
      BY SettledAlone DEF JobsOrdered, FirstAdded
    <2> QED BY <1>2, <2>1 DEF MovesOn, Adding
  <1>5. RowHeld(r)
    <2> SUFFICES ASSUME NEW d \in Callers
                 PROVE  /\ Adding(d, r)' => ~run'[r].stale
                        /\ (Adding(d, r)' /\ at'[d] # "note")
                              \/ (at'[d] = "enqueueRetry" /\ about'[d] = r)
                           => ~run'[r].stale /\ run'[r].status = run[r].status
      BY DEF RowHeld
    <2>1. CASE d = c
      BY <1>2, <2>1 DEF Adding
    <2>2. CASE d # c
      <3>1. (Adding(d, r)' => Adding(d, r)) /\ at'[d] = at[d] /\ about'[d] = about[d]
        BY <1>1, <2>2 DEF Adding, SameRequest
      <3>2. ASSUME Adding(d, r) \/ (at[d] = "enqueueRetry" /\ about[d] = r)
            PROVE  ~run'[r].stale
        BY <3>2, AddingHolds DEF Reserves
      <3>3. ASSUME (Adding(d, r) /\ at[d] # "note") \/ (at[d] = "enqueueRetry" /\ about[d] = r)
            PROVE  run'[r].status = run[r].status
        BY <3>3, SettledAlone DEF Active
      <3> QED BY <3>1, <3>2, <3>3
    <2> QED BY <2>1, <2>2
  <1> QED BY <1>1, <1>3, <1>4, <1>5, JobsKept

\* A request that has nothing to do with the job of a run, or is done with it.
LEMMA QuietOrdered ==
    ASSUME TeamsInv, TeamsInv', NEW c \in Callers, NEW next, NEW p, NEW what,
           Moved(c, next, p, what),
           next \notin {"enqueue", "note", "unavailable"} \cup RetrySteps,
           UNCHANGED job, NEW q \in Runs, RowGoesOn(q),
           run'[q].status = run[q].status \/ run[q].status \notin Active,
           NEW r \in Runs, JobsOrdered(r), unseen \subseteq unseen',
           at[c] = "note" /\ about[c] = r /\ r \notin unseen' => run[r].job # None
    PROVE  JobsOrdered(r)'
  <1> SUFFICES ASSUME r \notin unseen' PROVE JobsOrdered(r)'
    BY DEF JobsOrdered
  <1>1. /\ run'[r].job = run[r].job /\ run'[r].retries = run[r].retries
        /\ run'[r].stale => run[r].stale
        /\ run'[r].status = run[r].status \/ run[r].status \notin Active
    BY DEF RowGoesOn
  <1>2. run'[r].retries >= run[r].retries
    BY <1>1, TeamsAssumption DEF TeamsInv, TeamsTyped, RowsTyped, Rows
  <1>3. ~Retrying(c, r)'
    BY DEF Retrying, Moved
  <1>4. next \notin {"enqueue", "note", "unavailable", "enqueueRetry"}
    BY DEF RetrySteps
  <1> QED BY <1>1, <1>2, <1>3, <1>4, MoveOrdered

QuietSteps(c) ==
    \/ StartProvisioning(c) \/ FindBlockingRun(c) \/ ResolveUnknown(c)
    \/ ConfirmNotCreated(c) \/ AttachFound(c) \/ RecordFound(c)
    \/ Revive(c) \/ CallerCrash(c)

LEMMA QuietStepsOrdered ==
    ASSUME TeamsInv, TeamsInv', NEW c \in Callers, QuietSteps(c),
           NEW r \in Runs, JobsOrdered(r)
    PROVE  JobsOrdered(r)'
  <1> DEFINE q == about[c]
             Quiet(n) == n \notin {"enqueue", "note", "unavailable"} \cup RetrySteps
  <1>1. /\ UNCHANGED job /\ unseen \subseteq unseen'
        /\ at[c] = "note" => q \in unseen'
    BY DEF QuietSteps, StartProvisioning, FindBlockingRun, ResolveUnknown, ConfirmNotCreated,
           AttachFound, RecordFound, Revive, CallerCrash, rows, history
  <1>2. PICK next, p, what : Quiet(next) /\ Moved(c, next, p, what)
    <2>1. /\ Quiet("idle") /\ Quiet("findBlocking") /\ Quiet("create") /\ Quiet("attachFound")
          /\ Quiet("recordFound") /\ Quiet("confirmNotCreated")
      BY DEF RetrySteps
    <2>2. CASE Answer(c)
      BY <2>1, <2>2, AnswerIs
    <2>3. CASE Go(c, "findBlocking") \/ Go(c, "create") \/ Go(c, "recordFound")
      BY <2>1, <2>3, GoIs
    <2>4. CASE \E x, w : Ask(c, "confirmNotCreated", x, w) \/ Ask(c, "attachFound", x, w)
      BY <2>1, <2>4, AskIs
    <2> HIDE DEF Quiet
    <2> QED BY <2>2, <2>3, <2>4
            DEF QuietSteps, StartProvisioning, FindBlockingRun, ResolveUnknown,
                ConfirmNotCreated, AttachFound, RecordFound, Revive, CallerCrash
  <1>3. RowsTyped
    BY DEF TeamsInv, TeamsTyped
  <1>4. CASE UNCHANGED run
    <2>1. RowGoesOn(r) /\ run'[r].status = run[r].status
      BY <1>4, SameGoesOn
    <2> QED BY <1>1, <1>2, <2>1, QuietOrdered
  <1>5. ASSUME NEW row \in Rows, Write(q, row), q \in Runs, run[q].status \notin Active,
               row.job = run[q].job, row.retries = run[q].retries
        PROVE  JobsOrdered(r)'
    <2>1. RowGoesOn(q)
      BY <1>3, <1>5, WriteGoesOn
    <2> QED BY <1>1, <1>2, <1>5, <2>1, QuietOrdered
  <1>6. at[c] \notin AskSteps => q \in Runs /\ known[c] \in Reads /\ run[q] \in Rows
    BY NotAbsent
  <1>7. CASE ConfirmNotCreated(c)
    <2> DEFINE row == [run[q] EXCEPT !.error = "CONFIRMED_NOT_CREATED",
                                     !.resolved = "CONFIRMED_NOT_CREATED"]
    <2>1. q \in Runs /\ run[q] \in Rows
      BY <1>6, <1>7 DEF ConfirmNotCreated, AskSteps
    <2>2. row \in Rows /\ row.job = run[q].job /\ row.retries = run[q].retries
      BY <2>1 DEF Rows, Errors, Resolutions
    <2>3. UNCHANGED run \/ (Write(q, row) /\ run[q].status \notin Active)
      BY <1>7 DEF ConfirmNotCreated, Unresolved, Active
    <2> HIDE DEF row
    <2> QED BY <1>4, <1>5, <2>1, <2>2, <2>3
  <1>8. CASE RecordFound(c)
    <2>1. q \in Runs /\ run[q] \in Rows /\ known[c].team[2] \in Nat
      <3>1. at[c] = "recordFound"
        BY <1>8 DEF RecordFound
      <3>2. q \in Runs /\ known[c].team \in Made(q)
        BY <1>6, <3>1 DEF AskSteps, FoundSteps, TeamsInv, TeamsTyped, CallersTyped
      <3>3. known[c].team \in Runs \X Nat
        BY <3>2, MadeTeams
      <3> QED BY <1>6, <3>1, <3>2, <3>3 DEF AskSteps
    <2>2. \/ UNCHANGED run
          \/ /\ run[q].status \notin Active
             /\ \E s \in {"COMPLETED", "PARTIAL"}, code \in {"none", "RETRYABLE"} :
                  Write(q, [run[q] EXCEPT !.status = s, !.error = code,
                                          !.team = known[c].team[2], !.resolved = "TEAM_FOUND"])
      BY <1>8 DEF RecordFound, Unresolved, Active
    <2>3. ASSUME NEW s \in {"COMPLETED", "PARTIAL"}, NEW code \in {"none", "RETRYABLE"},
                 run[q].status \notin Active,
                 Write(q, [run[q] EXCEPT !.status = s, !.error = code,
                                         !.team = known[c].team[2], !.resolved = "TEAM_FOUND"])
          PROVE  JobsOrdered(r)'
      <3> DEFINE row == [run[q] EXCEPT !.status = s, !.error = code,
                                       !.team = known[c].team[2], !.resolved = "TEAM_FOUND"]
      <3>1. row \in Rows /\ row.job = run[q].job /\ row.retries = run[q].retries
        BY <2>1 DEF Rows, Statuses, Errors, Resolutions
      <3>2. Write(q, row)
        BY <2>3
      <3> HIDE DEF row
      <3> QED BY <1>5, <2>1, <2>3, <3>1, <3>2
    <2> QED BY <1>4, <2>2, <2>3
  <1>9. CASE Revive(c)
    <2>1. q \in Runs /\ run[q] \in Rows
      BY <1>6, <1>9 DEF Revive, AskSteps
    <2>2. \/ UNCHANGED run
          \/ /\ run[q].status \notin Active
             /\ \E s \in Active : Write(q, [run[q] EXCEPT !.status = s, !.error = "none"])
      BY <1>9 DEF Revive, Active
    <2>3. ASSUME NEW s \in Active, run[q].status \notin Active,
                 Write(q, [run[q] EXCEPT !.status = s, !.error = "none"])
          PROVE  JobsOrdered(r)'
      <3> DEFINE row == [run[q] EXCEPT !.status = s, !.error = "none"]
      <3>1. row \in Rows /\ row.job = run[q].job /\ row.retries = run[q].retries
        BY <2>1 DEF Rows, Statuses, Active, Errors
      <3>2. Write(q, row)
        BY <2>3
      <3> HIDE DEF row
      <3> QED BY <1>5, <2>1, <2>3, <3>1, <3>2
    <2> QED BY <1>4, <2>2, <2>3
  <1>10. CASE \/ StartProvisioning(c) \/ FindBlockingRun(c) \/ ResolveUnknown(c)
              \/ AttachFound(c) \/ CallerCrash(c)
    BY <1>4, <1>10 DEF StartProvisioning, FindBlockingRun, ResolveUnknown, AttachFound,
                       CallerCrash, rows
  <1> QED BY <1>7, <1>8, <1>9, <1>10 DEF QuietSteps

-------------------------------------------------------------------------------
(***************************************************************************)
(* Requests that retry a run                                               *)
(***************************************************************************)
\* A request in a step of a retry.
LEMMA RetryStep ==
    ASSUME TeamsInv, NEW c \in Callers, at[c] \in RetrySteps
    PROVE  /\ about[c] \in Runs /\ about[c] # None /\ run[about[c]] \in Rows
           /\ run[about[c]].status # "absent"
           /\ known[c] \in Reads /\ known[c].job \in {None} \cup Numbers
           /\ at[c] \in {"reserveSame", "requeue", "enqueueRetry"} => known[c].job \in Numbers
           /\ Retrying(c, about[c])
           /\ JobsOrdered(about[c]) /\ about[c] \notin unseen => RetryKnows(c, about[c])
  <1>1. at[c] \notin AskSteps
    BY DEF RetrySteps, AskSteps
  <1>2. /\ about[c] \in Runs /\ known[c] \in Reads
        /\ run[about[c]] \in Rows /\ run[about[c]].status # "absent"
    BY <1>1, NotAbsent
  <1>3. known[c].job \in {None} \cup Numbers /\ about[c] # None
    BY <1>2, TeamsAssumption DEF Reads, Numbers
  <1>4. at[c] \in {"reserveSame", "requeue", "enqueueRetry"} => known[c].job \in Numbers
    BY <1>3, TeamsAssumption DEF TeamsInv, TeamsTyped, CallersTyped, Numbers
  <1>5. Retrying(c, about[c])
    BY DEF Retrying
  <1> QED BY <1>2, <1>3, <1>4, <1>5 DEF JobsOrdered

\* Its row keeps its job, unless it is another's.
LEMMA RetryElsewhere ==
    ASSUME TeamsInv, TeamsInv', NEW c \in Callers, at[c] \in RetrySteps,
           NEW next, NEW p, NEW what, Moved(c, next, p, what), p \in {about[c], None},
           NEW r \in Runs, JobsOrdered(r), r # about[c], unseen \subseteq unseen',
           run'[r] = run[r], \A k \in Numbers : job'[<<r, k>>] = job[<<r, k>>]
    PROVE  JobsOrdered(r)'
  <1>1. p # r
    BY RetryStep, TeamsAssumption
  <1> QED BY <1>1, ElsewhereOrdered DEF JobsOrdered

LEMMA RetryOrdered ==
    ASSUME TeamsInv, TeamsInv', NEW c \in Callers, RetryProvisioning(c),
           NEW r \in Runs, JobsOrdered(r)
    PROVE  JobsOrdered(r)'
  <1>1. PICK q \in Runs :
            /\ Retryable(run[q])
            /\ Ask(c, "getJob", q, [Nothing EXCEPT !.job = run[q].job, !.retries = run[q].retries])
    BY DEF RetryProvisioning
  <1>2. at[c] = "idle" /\ UNCHANGED <<run, job, unseen>>
    BY DEF RetryProvisioning, rows, history
  <1> DEFINE what == [Nothing EXCEPT !.job = run[q].job, !.retries = run[q].retries]
  <1>3. run[q] \in Rows /\ run[r] \in Rows
    BY DEF TeamsInv, TeamsTyped, RowsTyped
  <1>4. what.job = run[q].job /\ what.retries = run[q].retries
    BY DEF Nothing
  <1>5. Ask(c, "getJob", q, what)
    BY <1>1
  <1> HIDE DEF what
  <1>6. Moved(c, "getJob", q, what)
    BY <1>5, AskIs
  <1> SUFFICES ASSUME r \notin unseen PROVE JobsOrdered(r)'
    BY <1>2 DEF JobsOrdered
  <1>7. CASE r # q
    <2>1. about[c] # r
      BY <1>2, TeamsAssumption DEF TeamsInv, TeamsTyped, CallersTyped, AskSteps
    <2> QED BY <1>2, <1>6, <1>7, <2>1, ElsewhereOrdered
  <1>8. CASE r = q
    <2>1. RetryKnows(c, r)'
      <3>1. Current(r) <= run[r].retries /\ run[r].retries \in Nat
        BY <1>3, TeamsAssumption DEF JobsOrdered, Numbered, Rows
      <3>2. run[r].job # None => run[r].job \in Nat /\ run[r].job <= run[r].retries
        BY <1>3, <3>1, TeamsAssumption DEF Current, Rows
      <3> QED BY <1>2, <1>4, <1>6, <1>8, <3>1, <3>2 DEF RetryKnows, Moved
    <2>2. ASSUME NEW d \in Callers \ {c}
          PROVE  ~(at[d] = "enqueueRetry" /\ about[d] = r)
      BY <1>1, <1>8, SettledAlone DEF Retryable
    <2>3. run'[r].retries >= run[r].retries
      BY <1>2, <1>3, TeamsAssumption DEF Rows
    <2>4. run[r].status # "PENDING"
      BY <1>1, <1>8 DEF Retryable
    <2> QED BY <1>2, <1>6, <2>1, <2>2, <2>3, <2>4, MoveOrdered
  <1> QED BY <1>7, <1>8

LEMMA GetJobOrdered ==
    ASSUME TeamsInv, TeamsInv', NEW c \in Callers, GetJob(c), NEW r \in Runs, JobsOrdered(r)
    PROVE  JobsOrdered(r)'
  <1> DEFINE q == about[c]
             k == known[c].job
  <1>1. at[c] = "getJob" /\ UNCHANGED job /\ unseen \subseteq unseen'
    BY DEF GetJob
  <1>2. /\ q \in Runs /\ run[q] \in Rows /\ k \in {None} \cup Numbers
        /\ JobsOrdered(q) /\ q \notin unseen => RetryKnows(c, q)
    BY <1>1, RetryStep DEF RetrySteps
  <1> SUFFICES ASSUME r \notin unseen' PROVE JobsOrdered(r)'
    BY DEF JobsOrdered
  <1>3. r \notin unseen
    BY <1>1
  <1>4. CASE FailIfActive(q, "RETRYABLE") /\ Answer(c)
             /\ unseen' = IF run[q].status \in Active THEN unseen \cup {q} ELSE unseen
    <2>1. Moved(c, "idle", None, Nothing) /\ RowGoesOn(q)
      BY <1>2, <1>4, AnswerIs, FailGoesOn DEF TeamsInv, TeamsTyped, Errors
    <2>2. CASE r # q
      BY <1>1, <1>3, <2>1, <2>2, RetryElsewhere DEF RowGoesOn, RetrySteps
    <2>3. CASE r = q
      <3>1. run' = run
        BY <1>4, <2>3 DEF FailIfActive
      <3>2. "idle" \notin {"enqueue", "note", "unavailable"} \cup RetrySteps
        BY DEF RetrySteps
      <3> QED BY <1>1, <1>2, <2>1, <2>3, <3>1, <3>2, QuietOrdered
    <2> QED BY <2>2, <2>3
  <1>5. ASSUME NEW next, Go(c, next), UNCHANGED run,
               next \in {"reserve", "reserveSame", "reviveActive", "reviveWaiting"},
               next = "reserve" /\ k # None /\ r = q => State(q, k) \in {"none", "completed"},
               next = "reserve" /\ k = None /\ r = q => State(q, 0) \notin Live,
               next = "reserveSame" => k # None /\ State(q, k) # "none"
        PROVE  JobsOrdered(r)'
    <2>1. Moved(c, next, q, known[c])
      BY <1>5, GoIs
    <2>2. CASE r # q
      BY <1>1, <1>5, <2>1, <2>2, RetryElsewhere DEF RetrySteps
    <2>3. CASE r = q
      <3>1. RetryKnows(c, r)
        BY <1>2, <1>3, <2>3
      <3>2. RetryKnows(c, r)'
        BY <1>1, <1>5, <2>1, <2>3, <3>1 DEF RetryKnows, Moved, State
      <3>3. ASSUME NEW d \in Callers \ {c}, at[d] = "enqueueRetry", about[d] = r
            PROVE  known[c].job # known[d].job
        <4>1. Reserves(d, r)
          BY <1>3, <3>3, AddingHolds
        <4> QED BY <1>1, <2>3, <4>1 DEF Reserves, Retrying, RetrySteps
      <3>4. run'[r].retries >= run[r].retries
        BY <1>2, <1>5, <2>3, TeamsAssumption DEF Rows
      <3>5. Retrying(c, r)
        BY <1>1, <2>3 DEF Retrying, RetrySteps
      <3> QED BY <1>1, <1>3, <1>5, <2>1, <3>2, <3>3, <3>4, <3>5, MoveOrdered
    <2> QED BY <2>2, <2>3
  <1>6. CASE /\ UNCHANGED run
             /\ unseen' = IF k = None /\ job[<<q, 0>>].state \in Live THEN unseen \cup {q}
                          ELSE unseen
             /\ Go(c, IF k = None THEN "reserve"
                      ELSE CASE job[<<q, k>>].state = "failed" -> "reserveSame"
                             [] job[<<q, k>>].state = "active" -> "reviveActive"
                             [] job[<<q, k>>].state = "waiting" -> "reviveWaiting"
                             [] OTHER -> "reserve")
    <2>1. k # None => job[<<q, k>>].state \in JobStates
      BY <1>2, JobsOfRuns DEF TeamsInv, TeamsTyped, RowsTyped, JobRows, Numbers
    <2> DEFINE next == IF k = None THEN "reserve"
                       ELSE CASE job[<<q, k>>].state = "failed" -> "reserveSame"
                              [] job[<<q, k>>].state = "active" -> "reviveActive"
                              [] job[<<q, k>>].state = "waiting" -> "reviveWaiting"
                              [] OTHER -> "reserve"
    <2>2. /\ next \in {"reserve", "reserveSame", "reviveActive", "reviveWaiting"}
          /\ next = "reserve" /\ k # None => State(q, k) \in {"none", "completed"}
          /\ next = "reserve" /\ k = None /\ r = q => State(q, 0) \notin Live
          /\ next = "reserveSame" => k # None /\ State(q, k) # "none"
      BY <1>6, <2>1 DEF JobStates, State
    <2>3. Go(c, next) /\ UNCHANGED run
      BY <1>6
    <2> HIDE DEF next
    <2> QED BY <1>5, <2>2, <2>3
  <1>7. CASE k # None /\ unseen' = unseen \cup {q} /\ Go(c, "reserve") /\ UNCHANGED run
    BY <1>5, <1>7
  <1> QED BY <1>4, <1>6, <1>7 DEF GetJob

\* A retry that changes nothing of its row and its jobs, and ends.
LEMMA GiveUpOrdered ==
    ASSUME TeamsInv, TeamsInv', NEW c \in Callers, at[c] \in RetrySteps, Answer(c),
           UNCHANGED <<run, job, unseen>>, NEW r \in Runs, JobsOrdered(r)
    PROVE  JobsOrdered(r)'
  <1>1. Moved(c, "idle", None, Nothing)
    BY AnswerIs
  <1>2. RowGoesOn(r) /\ run'[r].status = run[r].status
    BY SameGoesOn
  <1>3. "idle" \notin {"enqueue", "note", "unavailable"} \cup RetrySteps /\ at[c] # "note"
    BY DEF RetrySteps
  <1> QED BY <1>1, <1>2, <1>3, QuietOrdered

\* A retry that goes on to compensate what it has reserved.
LEMMA ToCompensateOrdered ==
    ASSUME TeamsInv, TeamsInv', NEW c \in Callers, at[c] \in {"requeue", "enqueueRetry"},
           Go(c, "compensate"), UNCHANGED <<run, job, unseen>>, NEW r \in Runs, JobsOrdered(r)
    PROVE  JobsOrdered(r)'
  <1> DEFINE q == about[c]
  <1> SUFFICES ASSUME r \notin unseen PROVE JobsOrdered(r)'
    BY DEF JobsOrdered
  <1>1. Moved(c, "compensate", q, known[c])
    BY GoIs
  <1>2. at[c] \in RetrySteps
    BY DEF RetrySteps
  <1>3. CASE r # q
    BY <1>1, <1>2, <1>3, RetryElsewhere
  <1>4. CASE r = q
    <2>1. RetryKnows(c, r) /\ Retrying(c, r) /\ known[c].job \in Numbers /\ run[r] \in Rows
      BY <1>2, <1>4, RetryStep
    <2>2. known[c].job # None
      BY <2>1, TeamsAssumption DEF Numbers
    <2>3. RetryKnows(c, r)'
      BY <1>1, <2>1, <2>2 DEF RetryKnows, Moved
    <2>4. ASSUME NEW d \in Callers \ {c}, at[d] = "enqueueRetry", about[d] = r
          PROVE  known[c].job # known[d].job
      BY <2>1, <2>4, AddingHolds DEF Reserves
    <2>5. run'[r].retries >= run[r].retries
      BY <2>1, TeamsAssumption DEF Rows
    <2> QED BY <1>1, <2>1, <2>3, <2>4, <2>5, MoveOrdered
  <1> QED BY <1>3, <1>4

LEMMA ReservedNumbers ==
    ASSUME NEW row \in Rows
    PROVE  Reserved(row) \in Rows /\ Reserved(row).job = row.job
           /\ Reserved(row).retries = row.retries /\ Reserved(row).status = "PENDING"
  BY ReservedRow DEF Reserved, Rows

LEMMA ReserveSameOrdered ==
    ASSUME TeamsInv, TeamsInv', NEW c \in Callers, ReserveSame(c),
           NEW r \in Runs, JobsOrdered(r)
    PROVE  JobsOrdered(r)'
  <1> DEFINE q == about[c]
             row == [Reserved(run[q]) EXCEPT !.retries = @ + 1]
  <1>1. /\ at[c] = "reserveSame" /\ at[c] \in RetrySteps /\ UNCHANGED <<job, unseen>>
        /\ \/ /\ Write(q, row) /\ Go(c, "requeue")
              /\ run[q].retries < MaxRetries /\ Reservable(c)
           \/ Answer(c) /\ UNCHANGED run
    BY DEF ReserveSame, history, RetrySteps
  <1>2. CASE Answer(c) /\ UNCHANGED run
    BY <1>1, <1>2, GiveUpOrdered
  <1>3. CASE Write(q, row) /\ Go(c, "requeue") /\ run[q].retries < MaxRetries /\ Reservable(c)
    <2> SUFFICES ASSUME r \notin unseen PROVE JobsOrdered(r)'
      BY <1>1 DEF JobsOrdered
    <2>1. /\ q \in Runs /\ run[q] \in Rows /\ RowsTyped
          /\ JobsOrdered(q) /\ q \notin unseen => RetryKnows(c, q)
      BY <1>1, RetryStep DEF TeamsInv, TeamsTyped
    <2>2. /\ row \in Rows /\ row.job = run[q].job /\ row.status = "PENDING"
          /\ row.retries = run[q].retries + 1
      BY <1>3, <2>1, ReservedNumbers, TeamsAssumption DEF Rows
    <2>3. Write(q, row) /\ Retryable(run[q]) /\ run[q].job = known[c].job
      BY <1>3 DEF Reservable
    <2> HIDE DEF row
    <2>4. /\ \A x \in Runs \ {q} : run'[x] = run[x]
          /\ run'[q].job = run[q].job /\ run'[q].retries = run[q].retries + 1
          /\ run'[q].stale = FALSE
      BY <2>1, <2>2, <2>3, WriteRow
    <2>5. Moved(c, "requeue", q, known[c])
      BY <1>3, GoIs
    <2>6. CASE r # q
      BY <1>1, <2>4, <2>5, <2>6, RetryElsewhere
    <2>7. CASE r = q
      <3>1. RetryKnows(c, r)'
        BY <1>1, <2>1, <2>3, <2>4, <2>5, <2>7 DEF RetryKnows, Moved, State
      <3>2. run[r].status \notin Active
        BY <2>3, <2>7 DEF Retryable, Active
      <3>3. ASSUME NEW d \in Callers \ {c}
            PROVE  ~(at[d] = "enqueueRetry" /\ about[d] = r)
        BY <3>2, SettledAlone DEF Active
      <3>4. run'[r].retries >= run[r].retries
        BY <2>1, <2>4, <2>7, TeamsAssumption DEF Rows
      <3>5. run[r].status # "PENDING"
        BY <3>2 DEF Active
      <3> QED BY <1>1, <2>4, <2>5, <2>7, <3>1, <3>2, <3>3, <3>4, <3>5, MoveOrdered
    <2> QED BY <2>6, <2>7
  <1> QED BY <1>1, <1>2, <1>3

\* The row may be failed again: nobody else counts on this job.
LEMMA CompensateOrdered ==
    ASSUME TeamsInv, TeamsInv', NEW c \in Callers, Compensate(c),
           NEW r \in Runs, JobsOrdered(r)
    PROVE  JobsOrdered(r)'
  <1> DEFINE q == about[c]
             row == Failed(run[q], "RETRYABLE")
  <1>1. /\ at[c] = "compensate" /\ at[c] \in RetrySteps /\ UNCHANGED <<job, unseen>> /\ Answer(c)
        /\ \/ Write(q, row) /\ run[q].job = known[c].job
           \/ UNCHANGED run
    BY DEF Compensate, history, RetrySteps
  <1>2. CASE UNCHANGED run
    BY <1>1, <1>2, GiveUpOrdered
  <1>3. CASE Write(q, row) /\ run[q].job = known[c].job
    <2> SUFFICES ASSUME r \notin unseen PROVE JobsOrdered(r)'
      BY <1>1 DEF JobsOrdered
    <2>1. /\ q \in Runs /\ run[q] \in Rows /\ RowsTyped /\ Retrying(c, q)
          /\ JobsOrdered(q) /\ q \notin unseen => RetryKnows(c, q)
      BY <1>1, RetryStep DEF TeamsInv, TeamsTyped
    <2>2. row \in Rows /\ row.job = run[q].job /\ row.retries = run[q].retries
      BY <2>1, FailedRow, FailedNumbers DEF Errors
    <2>3. Write(q, row)
      BY <1>3
    <2> HIDE DEF row
    <2>4. RowGoesOn(q)
      BY <2>1, <2>2, <2>3, WriteGoesOn
    <2>5. Moved(c, "idle", None, Nothing)
      BY <1>1, AnswerIs
    <2>6. CASE r # q
      BY <1>1, <2>4, <2>5, <2>6, RetryElsewhere DEF RowGoesOn
    <2>7. CASE r = q
      <3>1. run[r].job # None
        BY <1>1, <1>3, <2>1, <2>7 DEF RetryKnows
      <3>2. \A d \in Callers \ {c} : SameRequest(d)
        BY <2>5 DEF Moved, SameRequest
      <3>3. RowHeld(r)
        <4> SUFFICES ASSUME NEW d \in Callers
                     PROVE  /\ Adding(d, r)' => ~run'[r].stale
                            /\ ~(Adding(d, r)' /\ at'[d] # "note")
                            /\ ~(at'[d] = "enqueueRetry" /\ about'[d] = r)
          BY DEF RowHeld
        <4>1. CASE d = c
          BY <2>5, <4>1 DEF Moved, Adding
        <4>2. CASE d # c
          <5>1. Adding(d, r)' = Adding(d, r) /\ at'[d] = at[d] /\ about'[d] = about[d]
            BY <3>2, <4>2 DEF SameRequest, Adding
          <5>2. Adding(d, r) => at[d] = "note"
            BY <3>1 DEF JobsOrdered, FirstAdded
          <5>3. ~(at[d] = "enqueueRetry" /\ about[d] = r)
            BY <1>3, <2>1, <2>7, <4>2, AddingHolds DEF Reserves
          <5>4. Adding(d, r) => ~run'[r].stale
            BY <2>4, <2>7, AddingHolds DEF RowGoesOn
          <5> QED BY <5>1, <5>2, <5>3, <5>4
        <4> QED BY <4>1, <4>2
      <3>4. MovesOn(c, r)
        BY <1>1, <2>5 DEF MovesOn, Moved, Adding, Retrying, RetrySteps
      <3>5. JobsEnd(r)
        BY <1>1 DEF JobsEnd, State
      <3>6. run'[r].job = run[r].job /\ run'[r].retries >= run[r].retries
        BY <2>1, <2>4, <2>7, TeamsAssumption DEF RowGoesOn, Rows
      <3> QED BY <3>1, <3>2, <3>3, <3>4, <3>5, <3>6, JobsKept
    <2> QED BY <2>6, <2>7
  <1> QED BY <1>1, <1>2, <1>3

\* A retry makes the job its row names live: no other request is at that job.
LEMMA AddsJob ==
    ASSUME TeamsInv, TeamsInv', NEW r \in Runs, JobsOrdered(r), r \notin unseen,
           NEW c \in Callers, at[c] \in RetrySteps, about[c] = r,
           NEW next \in {"idle", "compensate"}, NEW p, NEW what, Moved(c, next, p, what),
           next = "compensate" => what = known[c],
           run'[r] = run[r], NEW k \in Numbers, known[c].job = k, run[r].job = k,
           job'[<<r, k>>].state = "waiting",
           \A m \in Numbers \ {k} : job'[<<r, m>>] = job[<<r, m>>],
           \A d \in Callers \ {c} :
              at[d] \in {"enqueueRetry", "reserve"} /\ about[d] = r => known[d].job # k
    PROVE  JobsOrdered(r)'
  <1>1. /\ Numbered(r) /\ FirstNoted(r) /\ FirstAdded(r)
        /\ \A d \in Callers : Retrying(d, r) => RetryKnows(d, r)
    BY DEF JobsOrdered
  <1>2. k # None /\ Current(r) = k /\ Current(r)' = k
    BY TeamsAssumption DEF Numbers, Current
  <1>3. \A m \in Numbers : m = k \/ State(r, m)' = State(r, m)
    BY DEF State
  <1>4. Numbered(r)'
    <2>1. ASSUME NEW m \in Numbers PROVE /\ State(r, m)' # "none" => m <= k
                                         /\ State(r, m)' \in Live => m = k
      BY <1>1, <1>2, <1>3, TeamsAssumption DEF Numbered, Numbers
    <2> QED BY <1>1, <1>2, <2>1 DEF Numbered
  <1>5. FirstNoted(r)'
    BY <1>2 DEF FirstNoted
  <1>6. FirstAdded(r)'
    <2>1. ASSUME NEW d \in Callers, Adding(d, r)' PROVE Adding(d, r) /\ at'[d] = at[d]
      BY <2>1 DEF Adding, Moved
    <2>2. \A d \in Callers : Adding(d, r) => at[d] = "note" /\ ~run[r].stale
      BY <1>1, <1>2 DEF FirstAdded
    <2>3. \A d, e \in Callers : Adding(d, r) /\ Adding(e, r) => d = e
      BY <1>1 DEF FirstAdded
    <2> QED BY <2>1, <2>2, <2>3 DEF FirstAdded
  <1>7. ASSUME NEW d \in Callers, Retrying(d, r)' PROVE RetryKnows(d, r)'
    <2>1. CASE d = c
      <3>1. at'[c] = "compensate" /\ known'[c] = known[c]
        BY <1>7, <2>1 DEF Moved, Retrying, RetrySteps
      <3>2. k <= k
        BY TeamsAssumption DEF Numbers
      <3> QED BY <1>2, <2>1, <3>1, <3>2 DEF RetryKnows
    <2>2. CASE d # c
      <3>1. at'[d] = at[d] /\ about'[d] = about[d] /\ known'[d] = known[d]
        BY <2>2 DEF Moved
      <3>2. RetryKnows(d, r) /\ at[d] \in RetrySteps /\ about[d] = r
        BY <1>1, <1>7, <3>1 DEF Retrying
      <3>3. known[d].job \in {None} \cup Numbers
        BY <3>2, RetryStep
      <3>4. at[d] # "enqueueRetry"
        BY <2>2, <3>2 DEF RetryKnows, Reserves
      <3>5. at[d] \in {"reserveSame", "requeue"} => known[d].job \in Numbers
        BY <3>2, RetryStep
      <3>6. \A m \in Numbers : m # k => job'[<<r, m>>] = job[<<r, m>>]
        OBVIOUS
      <3>7. run'[r].job # None
        BY <1>2
      <3> QED BY <2>2, <3>1, <3>2, <3>3, <3>4, <3>5, <3>6, <3>7 DEF RetryKnows, State
    <2> QED BY <2>1, <2>2
  <1> QED BY <1>4, <1>5, <1>6, <1>7 DEF JobsOrdered

LEMMA RequeueOrdered ==
    ASSUME TeamsInv, TeamsInv', NEW c \in Callers, Requeue(c), NEW r \in Runs, JobsOrdered(r)
    PROVE  JobsOrdered(r)'
  <1> DEFINE q == about[c]
             k == known[c].job
             j == <<q, k>>
  <1>1. /\ at[c] = "requeue" /\ at[c] \in RetrySteps /\ UNCHANGED <<run, unseen>>
        /\ \/ /\ job[j].state = "failed" /\ job' = [job EXCEPT ![j].state = "waiting"]
              /\ Answer(c)
           \/ Go(c, "compensate") /\ UNCHANGED job
    BY DEF Requeue, RetrySteps
  <1>2. CASE Go(c, "compensate") /\ UNCHANGED job
    BY <1>1, <1>2, ToCompensateOrdered
  <1>3. CASE job[j].state = "failed" /\ job' = [job EXCEPT ![j].state = "waiting"] /\ Answer(c)
    <2> SUFFICES ASSUME r \notin unseen PROVE JobsOrdered(r)'
      BY <1>1 DEF JobsOrdered
    <2>1. /\ q \in Runs /\ k \in Numbers /\ j \in Jobs
          /\ JobsOrdered(q) /\ q \notin unseen => RetryKnows(c, q)
      BY <1>1, RetryStep, JobsOfRuns DEF Numbers
    <2>2. PICK n \in Numbers : n = k
      BY <2>1
    <2>3. /\ job'[<<q, n>>].state = "waiting"
          /\ \A i \in Jobs : i # <<q, n>> => job'[i] = job[i]
      BY <1>3, <2>1, <2>2 DEF TeamsInv, TeamsTyped, RowsTyped, JobRows
    <2>4. Moved(c, "idle", None, Nothing)
      BY <1>3, AnswerIs
    <2>5. CASE r # q
      <3>1. \A m \in Numbers : <<r, m>> \in Jobs /\ <<r, m>> # <<q, n>>
        BY <2>5, JobsOfRuns DEF Numbers
      <3> QED BY <1>1, <2>3, <2>4, <2>5, <3>1, RetryElsewhere
    <2>6. CASE r = q
      <3>1. \A m \in Numbers \ {n} : job'[<<r, m>>] = job[<<r, m>>]
        BY <2>3, <2>6, JobsOfRuns DEF Numbers
      <3>2. State(r, n) = "failed" /\ run[r].job = n
        BY <1>1, <1>3, <2>1, <2>2, <2>6 DEF RetryKnows, State
      <3>3. ASSUME NEW d \in Callers \ {c}, at[d] \in {"enqueueRetry", "reserve"}, about[d] = r
            PROVE  known[d].job # n
        <4>1. RetryKnows(d, r)
          BY <3>3, RetryStep DEF RetrySteps
        <4>2. n # None
          BY TeamsAssumption DEF Numbers
        <4> QED BY <3>2, <3>3, <4>1, <4>2 DEF RetryKnows, Reserves
      <3> QED BY <1>1, <2>2, <2>3, <2>4, <2>6, <3>1, <3>2, <3>3, AddsJob
    <2> QED BY <2>5, <2>6
  <1> QED BY <1>1, <1>2, <1>3

LEMMA EnqueueRetryOrdered ==
    ASSUME TeamsInv, TeamsInv', NEW c \in Callers, EnqueueRetry(c),
           NEW r \in Runs, JobsOrdered(r)
    PROVE  JobsOrdered(r)'
  <1> DEFINE q == about[c]
             k == known[c].job
             j == <<q, k>>
  <1>1. /\ at[c] = "enqueueRetry" /\ at[c] \in RetrySteps /\ UNCHANGED <<run, unseen>>
        /\ \/ /\ job' = [job EXCEPT ![j].state = "waiting"]
              /\ Answer(c) \/ Go(c, "compensate")
           \/ Answer(c) /\ UNCHANGED job
           \/ Go(c, "compensate") /\ UNCHANGED job
    BY DEF EnqueueRetry, RetrySteps
  <1>2. CASE Go(c, "compensate") /\ UNCHANGED job
    BY <1>1, <1>2, ToCompensateOrdered
  <1>3. CASE Answer(c) /\ UNCHANGED job
    BY <1>1, <1>3, GiveUpOrdered
  <1>4. CASE job' = [job EXCEPT ![j].state = "waiting"] /\ (Answer(c) \/ Go(c, "compensate"))
    <2> SUFFICES ASSUME r \notin unseen PROVE JobsOrdered(r)'
      BY <1>1 DEF JobsOrdered
    <2>1. q \in Runs /\ k \in Numbers /\ j \in Jobs
      BY <1>1, RetryStep, JobsOfRuns DEF Numbers
    <2>2. PICK n \in Numbers : n = k
      BY <2>1
    <2>3. /\ job'[<<q, n>>].state = "waiting"
          /\ \A i \in Jobs : i # <<q, n>> => job'[i] = job[i]
      BY <1>4, <2>1, <2>2 DEF TeamsInv, TeamsTyped, RowsTyped, JobRows
    <2>4. \E next, p, what : p \in {q, None} /\ Moved(c, next, p, what)
      <3>1. CASE Answer(c)
        BY <3>1, AnswerIs
      <3>2. CASE Go(c, "compensate")
        BY <3>2, GoIs
      <3> QED BY <1>4, <3>1, <3>2
    <2>5. CASE r # q
      <3>1. \A m \in Numbers : <<r, m>> \in Jobs /\ <<r, m>> # <<q, n>>
        BY <2>5, JobsOfRuns DEF Numbers
      <3> QED BY <1>1, <2>3, <2>4, <2>5, <3>1, RetryElsewhere
    <2>6. CASE r = q
      <3>1. \A m \in Numbers \ {n} : job'[<<r, m>>] = job[<<r, m>>]
        BY <2>3, <2>6, JobsOfRuns DEF Numbers
      <3>2. Reserves(c, r)
        BY <1>1, <2>6, AddingHolds
      <3>3. ASSUME NEW d \in Callers \ {c}, at[d] \in {"enqueueRetry", "reserve"}, about[d] = r
            PROVE  known[d].job # n
        BY <2>2, <2>6, <3>2, <3>3 DEF Reserves, Retrying, RetrySteps
      <3>4. /\ run[r].job = n /\ run'[r] = run[r]
            /\ at[c] \in RetrySteps /\ about[c] = r /\ known[c].job = n
        BY <1>1, <2>2, <2>6, <3>2 DEF Reserves
      <3>5. job'[<<r, n>>].state = "waiting"
        BY <2>3, <2>6
      <3>6. CASE Answer(c)
        <4>1. Moved(c, "idle", None, Nothing)
          BY <3>6, AnswerIs
        <4> QED BY <3>1, <3>3, <3>4, <3>5, <4>1, AddsJob
      <3>7. CASE Go(c, "compensate")
        <4>1. Moved(c, "compensate", q, known[c])
          BY <3>7, GoIs
        <4> DEFINE what == known[c]
        <4>2. Moved(c, "compensate", q, what) /\ what = known[c]
          BY <4>1
        <4> HIDE DEF j, k, q, what
        <4> QED BY <3>1, <3>3, <3>4, <3>5, <4>2, AddsJob, SMTT(40)
      <3> QED BY <1>4, <3>6, <3>7
    <2> QED BY <2>5, <2>6
  <1> QED BY <1>1, <1>2, <1>3, <1>4

\* The next job of a run: its number is new, and no job of the run is live.
LEMMA ReserveOrdered ==
    ASSUME TeamsInv, TeamsInv', NEW c \in Callers, Reserve(c), NEW r \in Runs, JobsOrdered(r)
    PROVE  JobsOrdered(r)'
  <1> DEFINE q == about[c]
             k == known[c].retries + 1
             what == [known[c] EXCEPT !.job = k]
             row == [Reserved(run[q]) EXCEPT !.retries = k, !.job = k]
  <1>1. /\ at[c] = "reserve" /\ at[c] \in RetrySteps /\ UNCHANGED <<job, unseen>>
        /\ \/ Write(q, row) /\ Ask(c, "enqueueRetry", q, what) /\ Reservable(c)
           \/ Answer(c) /\ UNCHANGED run
    BY DEF Reserve, history, RetrySteps
  <1>2. CASE Answer(c) /\ UNCHANGED run
    BY <1>1, <1>2, GiveUpOrdered
  <1>3. CASE Write(q, row) /\ Ask(c, "enqueueRetry", q, what) /\ Reservable(c)
    <2> SUFFICES ASSUME r \notin unseen PROVE JobsOrdered(r)'
      BY <1>1 DEF JobsOrdered
    <2>1. /\ q \in Runs /\ run[q] \in Rows /\ RowsTyped /\ known[c] \in Reads
          /\ known[c].retries < MaxRetries
          /\ JobsOrdered(q) /\ q \notin unseen => RetryKnows(c, q)
      BY <1>1, RetryStep DEF TeamsInv, TeamsTyped, CallersTyped
    <2>2. k \in Numbers /\ k # 0 /\ k # None /\ known[c].retries \in Nat
      BY <2>1, TeamsAssumption DEF Reads, Numbers
    <2>3. what.job = k
      BY <2>1 DEF Reads
    <2>4. row \in Rows /\ row.job = k /\ row.retries = k /\ row.status = "PENDING"
      <3> DEFINE was == Reserved(run[q])
      <3>1. was \in Rows /\ was.status = "PENDING"
        BY <2>1, ReservedNumbers
      <3>2. row = [was EXCEPT !.retries = k, !.job = k]
        OBVIOUS
      <3> HIDE DEF was, row
      <3> QED BY <2>2, <3>1, <3>2 DEF Rows, Numbers
    <2>5. Write(q, row) /\ Retryable(run[q]) /\ run[q].job = known[c].job
      BY <1>3 DEF Reservable
    <2>6. Ask(c, "enqueueRetry", q, what)
      BY <1>3
    <2> HIDE DEF row, what
    <2>7. /\ \A x \in Runs \ {q} : run'[x] = run[x]
          /\ run'[q].job = k /\ run'[q].retries = k
          /\ run'[q].stale = FALSE /\ run'[q].status = "PENDING"
      BY <2>1, <2>4, <2>5, WriteRow
    <2>8. Moved(c, "enqueueRetry", q, what)
      BY <2>6, AskIs
    <2>9. CASE r # q
      BY <1>1, <2>7, <2>8, <2>9, RetryElsewhere
    <2>10. CASE r = q
      <3>1. /\ Numbered(r) /\ FirstNoted(r) /\ FirstAdded(r) /\ RetryKnows(c, r)
            /\ run[r].status \notin Active /\ run[r].status # "PENDING"
        BY <2>1, <2>5, <2>10 DEF JobsOrdered, Retryable, Active
      <3>2. Current(r) \in Nat /\ Current(r) < k
        BY <1>1, <2>1, <2>2, <2>5, <2>10, <3>1, TeamsAssumption
           DEF RetryKnows, Current, Rows, Numbers
      <3>3. ASSUME NEW m \in Numbers PROVE State(r, m) \notin Live
        BY <1>1, <2>5, <2>10, <3>1 DEF Numbered, RetryKnows, Current, Live
      <3>4. \A m \in Numbers : State(r, m)' = State(r, m)
        BY <1>1 DEF State
      <3>5. Current(r)' = k
        BY <2>2, <2>7, <2>10 DEF Current
      <3>6. Numbered(r)'
        <4>1. ASSUME NEW m \in Numbers PROVE State(r, m)' # "none" => m <= k
          BY <2>2, <3>1, <3>2, <3>4, TeamsAssumption DEF Numbered, Numbers
        <4>2. k <= run'[r].retries
          BY <2>2, <2>7, <2>10 DEF Numbers
        <4> QED BY <3>3, <3>4, <3>5, <4>1, <4>2 DEF Numbered
      <3>7. FirstNoted(r)'
        BY <2>2, <2>7, <2>10 DEF FirstNoted
      <3>8. FirstAdded(r)'
        <4>1. ASSUME NEW d \in Callers, Adding(d, r)' PROVE Adding(d, r) /\ at'[d] = at[d]
          BY <2>8, <4>1 DEF Adding, Moved
        <4>2. \A d \in Callers : Adding(d, r) => at[d] = "note"
          BY <3>1, SettledAlone
        <4>3. \A d, e \in Callers : Adding(d, r) /\ Adding(e, r) => d = e
          BY <3>1 DEF FirstAdded
        <4> QED BY <2>7, <2>10, <4>1, <4>2, <4>3 DEF FirstAdded
      <3>9. ASSUME NEW d \in Callers \ {c}, Retrying(d, r)
            PROVE  /\ at[d] # "enqueueRetry" /\ RetryKnows(d, r)
                   /\ known[d].job \in {None} \cup Numbers
                   /\ known[d].job # None => run[r].job # None /\ known[d].job < k
                   /\ at[d] \in {"reserveSame", "requeue"} => known[d].job \in Numbers
        <4>1. at[d] \in RetrySteps /\ about[d] = r
          BY <3>9 DEF Retrying
        <4>2. /\ RetryKnows(d, r) /\ known[d].job \in {None} \cup Numbers
              /\ at[d] \in {"reserveSame", "requeue"} => known[d].job \in Numbers
          BY <4>1, RetryStep
        <4>3. at[d] # "enqueueRetry"
          BY <3>1, <4>1, SettledAlone
        <4>4. known[d].job # None => run[r].job # None /\ known[d].job < k
          BY <2>2, <3>2, <4>2, TeamsAssumption DEF RetryKnows, Current, Numbers
        <4> QED BY <4>2, <4>3, <4>4
      <3>10. ASSUME NEW d \in Callers, Retrying(d, r)' PROVE RetryKnows(d, r)'
        <4>1. CASE d = c
          <5>1. at'[c] = "enqueueRetry" /\ about'[c] = r /\ known'[c].job = k
            BY <2>3, <2>8, <2>10 DEF Moved
          <5>2. job'[<<r, k>>].state = "none"
            <6>1. State(r, k) = "none"
              BY <2>2, <3>1, <3>2 DEF Numbered, Numbers
            <6> QED BY <1>1, <6>1 DEF State
          <5>3. ASSUME NEW e \in Callers \ {c}, Retrying(e, r)' PROVE known'[e].job # k
            <6>1. Retrying(e, r) /\ known'[e] = known[e]
              BY <2>8, <5>3 DEF Moved, Retrying
            <6>2. known[e].job \in {None} \cup Numbers /\ (known[e].job # None => known[e].job < k)
              BY <3>9, <6>1
            <6>3. known[e].job # k
              BY <2>2, <6>2, TeamsAssumption DEF Numbers
            <6> QED BY <6>1, <6>3
          <5>4. Reserves(c, r)'
            BY <2>7, <2>10, <5>1, <5>2, <5>3 DEF Reserves, State
          <5>5. run'[r].job # None /\ k <= run'[r].job
            BY <2>2, <2>7, <2>10 DEF Numbers
          <5> QED BY <2>2, <4>1, <5>1, <5>4, <5>5 DEF RetryKnows
        <4>2. CASE d # c
          <5>1. Retrying(d, r) /\ SameRequest(d)
            BY <2>8, <3>10, <4>2 DEF Moved, Retrying, SameRequest
          <5>2. /\ at[d] # "enqueueRetry" /\ RetryKnows(d, r)
                /\ known[d].job \in {None} \cup Numbers
                /\ known[d].job # None => known[d].job < k
                /\ at[d] \in {"reserveSame", "requeue"} => known[d].job \in Numbers
            BY <3>9, <4>2, <5>1
          <5>3. known[d].job # None => run'[r].job # None /\ known[d].job <= run'[r].job
            BY <2>2, <2>7, <2>10, <5>2, TeamsAssumption DEF Numbers
          <5>4. at[d] = "requeue" => State(r, known[d].job) = "completed"
            BY <1>1, <2>2, <2>5, <2>10, <3>1, <5>2, TeamsAssumption DEF RetryKnows, Numbers
          <5>5. run'[r].job # None
            BY <2>2, <2>7, <2>10
          <5> QED BY <1>1, <5>1, <5>2, <5>3, <5>4, <5>5 DEF RetryKnows, SameRequest, State
        <4> QED BY <4>1, <4>2
      <3> QED BY <3>6, <3>7, <3>8, <3>10 DEF JobsOrdered
    <2> QED BY <2>9, <2>10
  <1> QED BY <1>1, <1>2, <1>3

-------------------------------------------------------------------------------
(***************************************************************************)
(* Requests that add the first job                                         *)
(***************************************************************************)
\* Before a row names a job, no retry of the run has one.
LEMMA BeforeFirst ==
    ASSUME TeamsInv, NEW r \in Runs, JobsOrdered(r), r \notin unseen, run[r].job = None,
           NEW d \in Callers, Retrying(d, r)
    PROVE  /\ known[d].job = None
           /\ at[d] \notin {"reserveSame", "requeue", "compensate", "enqueueRetry"}
  <1>1. at[d] \in RetrySteps /\ about[d] = r
    BY DEF Retrying
  <1>2. /\ RetryKnows(d, r)
        /\ at[d] \in {"reserveSame", "requeue", "enqueueRetry"} => known[d].job \in Numbers
    BY <1>1, RetryStep
  <1>3. None \notin Numbers
    BY TeamsAssumption DEF Numbers
  <1> QED BY <1>2, <1>3 DEF RetryKnows

LEMMA FirstStep ==
    ASSUME TeamsInv, NEW c \in Callers, at[c] \in {"enqueue", "note", "unavailable"}
    PROVE  /\ about[c] \in Runs /\ about[c] # None /\ run[about[c]] \in Rows
           /\ Adding(c, about[c]) /\ RowsTyped
  BY NotAbsent, TeamsAssumption DEF AskSteps, Adding, TeamsInv, TeamsTyped

\* What is left to show when the request that moves is the one adding a job.
LEMMA FirstMoves ==
    ASSUME TeamsInv, TeamsInv', NEW r \in Runs, JobsOrdered(r), r \notin unseen,
           NEW c \in Callers, Adding(c, r), NEW next, NEW p, NEW what, Moved(c, next, p, what),
           next \notin RetrySteps, run[r].job = None,
           run'[r].job \in {None, 0}, run'[r].retries = run[r].retries,
           \A m \in Numbers \ {0} : State(r, m)' = State(r, m),
           FirstNoted(r)', State(r, 0)' = State(r, 0) \/ at[c] # "note",
           Adding(c, r)' =>
              /\ ~run'[r].stale
              /\ next # "note" =>
                    /\ at[c] # "note"
                    /\ run'[r].job = None
                    /\ run'[r].status = "PENDING"
                    /\ \A k \in Numbers : State(r, k)' = "none"
    PROVE  JobsOrdered(r)'
  <1>1. /\ Numbered(r) /\ FirstAdded(r) /\ Current(r) = 0
        /\ \A d \in Callers : Retrying(d, r) => RetryKnows(d, r)
    BY DEF JobsOrdered, Current
  <1>2. Current(r)' = 0 /\ run[r].retries \in Nat /\ 0 <= run[r].retries
    BY TeamsAssumption DEF Current, TeamsInv, TeamsTyped, RowsTyped, Rows
  <1>3. Numbered(r)'
    <2>1. ASSUME NEW m \in Numbers PROVE /\ State(r, m)' # "none" => m <= 0
                                         /\ State(r, m)' \in Live => m = 0
      BY <1>1, TeamsAssumption DEF Numbered, Numbers
    <2> QED BY <1>2, <2>1 DEF Numbered
  <1>4. FirstAdded(r)'
    <2>1. ASSUME NEW d \in Callers, Adding(d, r)' PROVE d = c
      <3>1. d # c => Adding(d, r)
        BY <2>1 DEF Adding, Moved
      <3> QED BY <1>1, <3>1 DEF FirstAdded
    <2>2. at'[c] = next
      BY DEF Moved
    <2>3. at[c] # "note" => \A d \in Callers : ~Retrying(d, r)'
      <3>1. at[c] # "note" => \A d \in Callers : ~Retrying(d, r)
        BY <1>1 DEF FirstAdded
      <3> QED BY <2>2, <3>1 DEF Retrying, Moved
    <2> QED BY <2>1, <2>2, <2>3 DEF FirstAdded
  <1>5. ASSUME NEW d \in Callers, Retrying(d, r)' PROVE RetryKnows(d, r)'
    <2>1. d # c
      BY <1>5 DEF Retrying, Moved
    <2>2. Retrying(d, r) /\ SameRequest(d)
      BY <1>5, <2>1 DEF Retrying, Moved, SameRequest
    <2>3. /\ known[d].job = None /\ RetryKnows(d, r)
          /\ at[d] \notin {"reserveSame", "requeue", "compensate", "enqueueRetry"}
      BY <1>1, <2>2, BeforeFirst
    <2>4. at[c] = "note"
      BY <1>1, <2>2 DEF FirstAdded
    <2> QED BY <2>2, <2>3, <2>4 DEF RetryKnows, SameRequest
  <1> QED BY <1>3, <1>4, <1>5 DEF JobsOrdered

LEMMA EnqueueFirstOrdered ==
    ASSUME TeamsInv, TeamsInv', NEW c \in Callers, EnqueueFirst(c),
           NEW r \in Runs, JobsOrdered(r)
    PROVE  JobsOrdered(r)'
  <1> DEFINE q == about[c]
  <1>1. /\ at[c] = "enqueue" /\ UNCHANGED <<run, unseen>>
        /\ \/ job' = [job EXCEPT ![<<q, 0>>].state = "waiting"] /\ Go(c, "note")
           \/ Go(c, "unavailable") /\ UNCHANGED job
    BY DEF EnqueueFirst
  <1> SUFFICES ASSUME r \notin unseen PROVE JobsOrdered(r)'
    BY <1>1 DEF JobsOrdered
  <1>2. q \in Runs /\ run[q] \in Rows /\ Adding(c, q)
    BY <1>1, FirstStep
  <1>3. PICK next \in {"note", "unavailable"} : Moved(c, next, q, known[c])
    BY <1>1, GoIs
  <1>4. \A i \in Jobs : i # <<q, 0>> => job'[i] = job[i]
    BY <1>1 DEF TeamsInv, TeamsTyped, RowsTyped
  <1>5. CASE r # q
    <2>1. \A m \in Numbers : <<r, m>> \in Jobs /\ <<r, m>> # <<q, 0>>
      BY <1>5, JobsOfRuns DEF Numbers
    <2> QED BY <1>1, <1>3, <1>4, <1>5, <2>1, ElsewhereOrdered
  <1>6. CASE r = q
    <2>1. /\ run[r].job = None /\ run[r].status = "PENDING" /\ ~run[r].stale
          /\ \A k \in Numbers : State(r, k) = "none"
      BY <1>1, <1>2, <1>6 DEF JobsOrdered, FirstAdded
    <2>2. \A m \in Numbers \ {0} : State(r, m)' = State(r, m)
      BY <1>4, <1>6, JobsOfRuns DEF State, Numbers
    <2>3. next = "note" \/ UNCHANGED job
      BY <1>1, <1>3 DEF Go, Moved, TeamsInv, TeamsTyped, CallersTyped
    <2>4. FirstNoted(r)'
      <3>1. CASE next = "note"
        BY <1>3, <1>6, <3>1 DEF FirstNoted, Moved
      <3>2. CASE UNCHANGED job
        BY <2>1, <3>2, ZeroIsNumber DEF FirstNoted, State
      <3> QED BY <2>3, <3>1, <3>2
    <2>5. UNCHANGED job => \A k \in Numbers : State(r, k)' = "none"
      BY <2>1 DEF State
    <2>6. next \notin RetrySteps
      BY DEF RetrySteps
    <2> QED BY <1>1, <1>2, <1>3, <1>6, <2>1, <2>2, <2>3, <2>4, <2>5, <2>6, FirstMoves
  <1> QED BY <1>5, <1>6

LEMMA NoteJobOrdered ==
    ASSUME TeamsInv, TeamsInv', NEW c \in Callers, NoteJob(c), NEW r \in Runs, JobsOrdered(r)
    PROVE  JobsOrdered(r)'
  <1> DEFINE q == about[c]
             row == [run[q] EXCEPT !.job = 0]
  <1>1. /\ at[c] = "note" /\ UNCHANGED job
        /\ \/ /\ Write(q, row) /\ Answer(c)
              /\ unseen' = IF run[q].job = None THEN unseen ELSE unseen \cup {q}
           \/ unseen' = unseen \cup {q} /\ Go(c, "unavailable") /\ UNCHANGED run
    BY DEF NoteJob
  <1> SUFFICES ASSUME r \notin unseen' PROVE JobsOrdered(r)'
    BY DEF JobsOrdered
  <1>2. q \in Runs /\ q # None /\ run[q] \in Rows /\ Adding(c, q) /\ RowsTyped
    BY <1>1, FirstStep
  <1>3. r \notin unseen
    BY <1>1
  <1>4. row \in Rows /\ row.job = 0 /\ row.retries = run[q].retries /\ row.status = run[q].status
    BY <1>2, TeamsAssumption DEF Rows
  <1>5. Write(q, row) \/ UNCHANGED run
    BY <1>1
  <1>6. (Write(q, row) /\ Answer(c) /\ run[q].job = None) \/ q \in unseen'
    BY <1>1
  <1>7. PICK next \in {"idle", "unavailable"}, p \in {q, None}, what \in {Nothing, known[c]} :
              Moved(c, next, p, what)
    BY <1>1, AnswerIs, GoIs
  <1> HIDE DEF row
  <1>8. CASE r # q
    <2>1. run'[r] = run[r] /\ p # r
      <3>1. run'[r] = run[r]
        BY <1>2, <1>4, <1>5, <1>8, WriteRow
      <3> QED BY <1>2, <1>8, <3>1, TeamsAssumption
    <2> QED BY <1>1, <1>3, <1>7, <1>8, <2>1, ElsewhereOrdered
  <1>9. CASE r = q
    <2>1. Write(q, row) /\ Answer(c) /\ run[q].job = None
      BY <1>6, <1>9
    <2>2. Moved(c, "idle", None, Nothing)
      BY <2>1, AnswerIs
    <2>3. run'[r].job = 0 /\ run'[r].retries = run[r].retries
      BY <1>2, <1>4, <1>9, <2>1, WriteRow
    <2>4. FirstNoted(r)'
      BY <2>3, TeamsAssumption DEF FirstNoted
    <2>5. "idle" \notin RetrySteps /\ ~Adding(c, r)'
      BY <2>2 DEF RetrySteps, Adding, Moved
    <2>6. /\ \A m \in Numbers \ {0} : State(r, m)' = State(r, m)
          /\ State(r, 0)' = State(r, 0)
      BY <1>1 DEF State
    <2> QED BY <1>2, <1>3, <1>9, <2>1, <2>2, <2>3, <2>4, <2>5, <2>6, FirstMoves
  <1> QED BY <1>8, <1>9

LEMMA QueueUnavailableOrdered ==
    ASSUME TeamsInv, TeamsInv', NEW c \in Callers, QueueUnavailable(c),
           NEW r \in Runs, JobsOrdered(r)
    PROVE  JobsOrdered(r)'
  <1> DEFINE q == about[c]
             row == Failed(run[q], "RETRYABLE")
  <1>1. at[c] = "unavailable" /\ UNCHANGED <<job, unseen>> /\ Write(q, row) /\ Answer(c)
    BY DEF QueueUnavailable, history
  <1> SUFFICES ASSUME r \notin unseen PROVE JobsOrdered(r)'
    BY <1>1 DEF JobsOrdered
  <1>2. q \in Runs /\ q # None /\ run[q] \in Rows /\ Adding(c, q) /\ RowsTyped
    BY <1>1, FirstStep
  <1>3. row \in Rows /\ row.job = run[q].job /\ row.retries = run[q].retries
    BY <1>2, FailedRow, FailedNumbers DEF Errors
  <1>4. Moved(c, "idle", None, Nothing) /\ Write(q, row)
    BY <1>1, AnswerIs
  <1> HIDE DEF row
  <1>5. RowGoesOn(q)
    BY <1>2, <1>3, <1>4, WriteGoesOn
  <1>6. CASE r # q
    BY <1>1, <1>4, <1>5, <1>6, ElsewhereOrdered, TeamsAssumption DEF RowGoesOn
  <1>7. CASE r = q
    <2>1. run[r].job = None /\ \A k \in Numbers : State(r, k) = "none"
      BY <1>1, <1>2, <1>7 DEF JobsOrdered, FirstAdded
    <2>2. \A k \in Numbers : State(r, k)' = State(r, k)
      BY <1>1 DEF State
    <2>3. run'[r].job = None /\ run'[r].retries = run[r].retries
      BY <1>5, <1>7, <2>1 DEF RowGoesOn
    <2>4. FirstNoted(r)'
      BY <2>1, <2>2, ZeroIsNumber DEF FirstNoted
    <2>5. "idle" \notin RetrySteps /\ ~Adding(c, r)' /\ at[c] # "note"
      BY <1>1, <1>4 DEF RetrySteps, Adding, Moved
    <2> QED BY <1>2, <1>4, <1>7, <2>1, <2>2, <2>3, <2>4, <2>5, FirstMoves
  <1> QED BY <1>6, <1>7

LEMMA CreateRunOrdered ==
    ASSUME TeamsInv, TeamsInv', NEW c \in Callers, CreateRun(c), NEW r \in Runs, JobsOrdered(r)
    PROVE  JobsOrdered(r)'
  <1>1. at[c] = "create" /\ UNCHANGED <<job, unseen>>
    BY DEF CreateRun, history
  <1> SUFFICES ASSUME r \notin unseen PROVE JobsOrdered(r)'
    BY <1>1 DEF JobsOrdered
  <1>2. about[c] = None
    BY <1>1 DEF TeamsInv, TeamsTyped, CallersTyped, AskSteps
  <1>3. CASE Answer(c) /\ UNCHANGED run
    BY <1>1, <1>2, <1>3, AnswerIs, ElsewhereOrdered, TeamsAssumption
  <1>4. ASSUME NEW q \in Runs, run[q].status = "absent",
               Write(q, [NoRun EXCEPT !.status = "PENDING"]), Ask(c, "enqueue", q, Nothing)
        PROVE  JobsOrdered(r)'
    <2> DEFINE row == [NoRun EXCEPT !.status = "PENDING"]
    <2>1. /\ row \in Rows /\ row.status = "PENDING" /\ row.job = None /\ row.retries = 0
      <3>1. NoRun \in Rows /\ NoRun.job = None /\ NoRun.retries = 0
        BY ZeroIsNumber DEF NoRun, Rows, Statuses, Errors, Resolutions, Numbers
      <3> HIDE DEF NoRun
      <3> QED BY <3>1 DEF Rows, Statuses, Active
    <2>2. Write(q, row) /\ RowsTyped
      BY <1>4 DEF TeamsInv, TeamsTyped
    <2> HIDE DEF row
    <2>3. /\ \A x \in Runs \ {q} : run'[x] = run[x]
          /\ run'[q].status = "PENDING" /\ run'[q].job = None /\ run'[q].retries = 0
          /\ run'[q].stale = FALSE
      BY <2>1, <2>2, WriteRow
    <2>4. Moved(c, "enqueue", q, Nothing)
      BY <1>4, AskIs
    <2>5. CASE r # q
      BY <1>1, <1>2, <2>3, <2>4, <2>5, ElsewhereOrdered, TeamsAssumption
    <2>6. CASE r = q
      <3>1. /\ \A k \in Numbers : State(r, k) = "none"
            /\ \A d \in Callers : about[d] # r
        BY <1>4, <2>6 DEF TeamsInv, AbsentIsNew, State, Numbers
      <3>2. \A k \in Numbers : State(r, k)' = "none"
        BY <1>1, <3>1 DEF State
      <3>3. Numbered(r)'
        <4>1. Current(r)' = 0
          BY <2>3, <2>6 DEF Current
        <4> QED BY <2>3, <2>6, <3>2, <4>1 DEF Numbered, Live
      <3>4. FirstNoted(r)'
        BY <3>2, ZeroIsNumber DEF FirstNoted
      <3>5. \A d \in Callers : ~Retrying(d, r)'
        BY <2>4, <3>1 DEF Retrying, Moved, RetrySteps
      <3>6. FirstAdded(r)'
        <4>1. ASSUME NEW d \in Callers, Adding(d, r)' PROVE d = c
          BY <2>4, <3>1, <4>1 DEF Adding, Moved
        <4> QED BY <2>3, <2>6, <3>2, <3>5, <4>1 DEF FirstAdded
      <3> QED BY <3>3, <3>4, <3>5, <3>6 DEF JobsOrdered
    <2> QED BY <2>5, <2>6
  <1> QED BY <1>3, <1>4 DEF CreateRun

-------------------------------------------------------------------------------
(***************************************************************************)
(* The theorem                                                             *)
(***************************************************************************)
LEMMA RequestsOrdered ==
    ASSUME TeamsInv, TeamsInv', NEW c \in Callers, Request(c) \/ Pursue(c),
           NEW r \in Runs, JobsOrdered(r)
    PROVE  JobsOrdered(r)'
  BY QuietStepsOrdered, RetryOrdered, GetJobOrdered, ReserveSameOrdered, RequeueOrdered,
     ReserveOrdered, EnqueueRetryOrdered, CompensateOrdered, EnqueueFirstOrdered,
     NoteJobOrdered, QueueUnavailableOrdered, CreateRunOrdered
     DEF Request, Pursue, QuietSteps

LEMMA RequestsUnseen ==
    ASSUME NEW c \in Callers, Request(c) \/ Pursue(c)
    PROVE  overlapped' = overlapped /\ unseen \subseteq unseen'
  BY DEF Request, Pursue, StartProvisioning, RetryProvisioning, ResolveUnknown,
         FindBlockingRun, CreateRun, EnqueueFirst, NoteJob, QueueUnavailable, GetJob,
         ReserveSame, Requeue, Revive, Reserve, EnqueueRetry, Compensate, ConfirmNotCreated,
         AttachFound, RecordFound, CallerCrash, history

LEMMA InitOrdered == Init => JobsInv
  <1> SUFFICES ASSUME Init PROVE JobsInv
    OBVIOUS
  <1>1. TeamsInv /\ ConfirmHolds
    BY InitTruthful, InitConfirms
  <1>2. ASSUME NEW r \in Runs PROVE JobsOrdered(r)
    <2>1. run[r].job = None /\ run[r].retries = 0 /\ \A k \in Numbers : State(r, k) = "none"
      BY JobsOfRuns DEF Init, NoRun, NoJob, State, Numbers
    <2>2. \A c \in Callers : ~Adding(c, r) /\ ~Retrying(c, r)
      BY DEF Init, Adding, Retrying, RetrySteps
    <2>3. Numbered(r)
      BY <2>1 DEF Numbered, Current, Live
    <2>4. FirstNoted(r)
      BY <2>1, ZeroIsNumber DEF FirstNoted
    <2> QED BY <2>2, <2>3, <2>4 DEF JobsOrdered, FirstAdded
  <1> QED BY <1>1, <1>2 DEF JobsInv, Init

LEMMA NextOrdered == JobsInv /\ [Next]_vars => JobsInv'
  <1> SUFFICES ASSUME JobsInv, [Next]_vars PROVE JobsInv'
    OBVIOUS
  <1>1. TeamsInv /\ TeamsInv' /\ ConfirmHolds' /\ \A r \in Runs : JobsOrdered(r)
    BY NextKeeps DEF JobsInv
  <1>2. CASE \E c \in Callers : Request(c) \/ Pursue(c)
    BY <1>1, <1>2, RequestsOrdered, RequestsUnseen DEF JobsInv
  <1>3. CASE \E w \in Workers : Take(w)
    BY <1>1, <1>3, TakeOrdered DEF JobsInv
  <1>4. CASE \E w \in Workers : Process(w) \/ Crash(w)
    BY <1>1, <1>4, WorkersOrdered, WorkersUnseen DEF JobsInv
  <1>5. CASE \E j \in Jobs : Redeliver(j)
    <2>1. PICK j \in Jobs : Redeliver(j)
      BY <1>5
    <2>2. UNCHANGED <<unseen, overlapped>>
      BY <2>1 DEF Redeliver, history
    <2> QED BY <1>1, <2>1, <2>2, RedeliverOrdered DEF JobsInv
  <1>6. CASE \E q \in Runs : GrowStale(q) \/ Maintain(q)
    <2>1. PICK q \in Runs : GrowStale(q) \/ Maintain(q)
      BY <1>6
    <2>2. UNCHANGED <<unseen, overlapped>>
      BY <2>1 DEF GrowStale, Maintain, FailStaleInProgress, FailStalePending, history
    <2> QED BY <1>1, <2>1, <2>2, MaintainOrdered DEF JobsInv
  <1>7. CASE UNCHANGED vars
    <2>1. \A r \in Runs : JobsOrdered(r)'
      <3> SUFFICES ASSUME NEW r \in Runs, r \notin unseen PROVE JobsOrdered(r)'
        BY <1>7 DEF vars, history, JobsOrdered
      <3>1. /\ run' = run /\ job' = job /\ at' = at /\ about' = about /\ known' = known
        BY <1>7 DEF vars, rows, request
      <3>2. JobsOrdered(r)
        BY <1>1
      <3>3. PICK c : c \notin Callers
        BY NoSetContainsEverything
      <3>4. \A d \in Callers \ {c} : SameRequest(d)
        BY <3>1 DEF SameRequest
      <3> QED BY <1>1, <3>1, <3>2, <3>3, <3>4, ApartKept
    <2> QED BY <1>1, <1>7, <2>1 DEF JobsInv, vars, history
  <1> QED BY <1>2, <1>3, <1>4, <1>5, <1>6, <1>7 DEF Next

\* A run has at most one live job, and one worker, as long as the API has not
\* failed to see a job of it.
THEOREM OneJobAtATime == Spec => []OneLiveJob
  <1>1. JobsInv => OneLiveJob
    <2> SUFFICES ASSUME JobsInv, NEW r \in Runs, r \notin unseen,
                        NEW k \in Numbers, NEW m \in Numbers,
                        State(r, k) \in Live, State(r, m) \in Live
                 PROVE  k = m
      BY DEF OneLiveJob, JobsInv, State, Numbers
    <2> QED BY LiveAlone DEF JobsInv
  <1> QED BY <1>1, InitOrdered, NextOrdered, PTL DEF Spec
===============================================================================
