-------------------------- MODULE TeamsProvisioning ---------------------------
(***************************************************************************)
(* The creation of a Microsoft Team for a project, in the background: a    *)
(* run (ProjectMicrosoftTeamsProvisioning) per attempt, BullMQ jobs per    *)
(* run (one per retry), workers that ask Microsoft Graph for the Team, wait *)
(* for it and attach it to the project, users who start, retry and resolve *)
(* runs, and the maintenance of runs whose heartbeat stopped.              *)
(*                                                                         *)
(* Graph offers no idempotent creation: a POST whose answer is lost may    *)
(* have made a Team nobody knows.  Everything the code records before and  *)
(* after the POST is there to never send a second one.                     *)
(***************************************************************************)
EXTENDS Integers, FiniteSets

CONSTANTS
    Runs,           \* ProjectMicrosoftTeamsProvisioning ids of one project
    Workers,        \* worker processes (one job at a time each)
    Callers,        \* requests of users handled at the same time
    None,           \* no job, no worker, no run
    MaxRetries,     \* retries of a run (bound)
    MaxAttempts,    \* PROJECT_MICROSOFT_TEAMS_PROVISIONING_QUEUE_RETRY_ATTEMPTS
    MaxStalls,      \* BullMQ's maxStalledCount
    MaxFaults       \* crashes, refusals and lost answers of a behaviour (bound)

ASSUME TeamsAssumption ==
    /\ None \notin Runs \cup Workers \cup (Runs \X Nat) \cup Nat
    /\ MaxRetries \in Nat
    /\ MaxAttempts \in Nat \ {0}
    /\ MaxStalls \in Nat
    /\ MaxFaults \in Nat

VARIABLES
    run,            \* the rows
    job,            \* the BullMQ job of each run and retry
    posts,          \* POST /teams Graph has accepted, by run
    doomed,         \* accepted creations that fail in the end
    link,           \* ProjectMicrosoftLink.teamId
    step,           \* the statement each worker is about to run
    on,             \* the job it works on
    view,           \* its copy of the run
    error,          \* the exception it handles
    at,             \* the statement each request is about to run
    about,          \* the run it is about
    known,          \* what it has read of that run
    overlapped,     \* history: runs two workers had, or one without its lock
    unseen,         \* history: runs with a job the API failed to see
    faults          \* faults so far

rows == <<run, job, link>>
graph == <<posts, doomed>>
worker == <<step, on, view, error>>
request == <<at, about, known>>
history == <<overlapped, unseen, faults>>
vars == <<rows, graph, worker, request, history>>

Jobs == Runs \X (0 .. MaxRetries)

\* The Teams of a run are numbered by the POST that made them.
Team(r, k) == <<r, k>>

Active == {"PENDING", "IN_PROGRESS"}
Statuses == Active \cup {"absent", "COMPLETED", "PARTIAL", "FAILED"}

\* The codes of RETRYABLE_PROVISIONING_ERROR_CODES are RETRYABLE.
Errors == {"none", "UNKNOWN", "CONFIRMED_NOT_CREATED", "GRAPH_ASYNC_FAILED", "RETRYABLE"}
Resolutions == {"none", "CONFIRMED_NOT_CREATED", "TEAM_FOUND"}
Exceptions == {"none", "obscure", "refused", "clear", "asyncFailed"}
JobStates == {"none", "waiting", "active", "completed", "failed"}
Live == {"waiting", "active"}

NoRun == [status |-> "absent", error |-> "none", requested |-> FALSE, op |-> 0,
          team |-> 0, job |-> None, retries |-> 0, resolved |-> "none", stale |-> FALSE]
NoJob == [state |-> "none", failed |-> 0, stalls |-> 0, worker |-> None]
NoView == [requested |-> FALSE, op |-> 0, team |-> 0, saved |-> 0]
Nothing == [job |-> None, retries |-> 0, team |-> None]

Init ==
    /\ run = [r \in Runs |-> NoRun]
    /\ job = [j \in Jobs |-> NoJob]
    /\ posts = [r \in Runs |-> 0]
    /\ doomed = {}
    /\ link = None
    /\ step = [w \in Workers |-> "idle"]
    /\ on = [w \in Workers |-> None]
    /\ view = [w \in Workers |-> NoView]
    /\ error = [w \in Workers |-> "none"]
    /\ at = [c \in Callers |-> "idle"]
    /\ about = [c \in Callers |-> None]
    /\ known = [c \in Callers |-> Nothing]
    /\ overlapped = {}
    /\ unseen = {}
    /\ faults = 0

Started == {r \in Runs : run[r].status # "absent"}

\* (A bound: faults, failed channels and answers of Graph that lack what they
\* may lack are all met before a second run is started.)
FirstRun == Cardinality(Started) <= 1

Fault ==
    /\ FirstRun
    /\ faults < MaxFaults
    /\ faults' = faults + 1

\* The partial unique index: one PENDING or IN_PROGRESS run per project.
IndexAllows(r) == \A q \in Runs \ {r} : run[q].status \notin Active

\* Every statement that writes a run sets its heartbeat too.
Write(r, row) == run' = [run EXCEPT ![r] = [row EXCEPT !.stale = FALSE]]

Failed(row, code) == [row EXCEPT !.status = "FAILED", !.error = code]

\* failRunIfNotTerminal
FailIfActive(r, code) ==
    IF run[r].status \in Active THEN Write(r, Failed(run[r], code)) ELSE UNCHANGED run

-------------------------------------------------------------------------------
(***************************************************************************)
(* Requests                                                                *)
(***************************************************************************)
Ask(c, next, r, what) ==
    /\ at' = [at EXCEPT ![c] = next]
    /\ about' = [about EXCEPT ![c] = r]
    /\ known' = [known EXCEPT ![c] = what]

Go(c, next) == at' = [at EXCEPT ![c] = next] /\ UNCHANGED <<about, known>>

Answer(c) == Ask(c, "idle", None, Nothing)

\* (A bound: requests do not cross once a second run is started.)
Alone(c) == \A d \in Callers \ {c} : at[d] = "idle"

\* startProvisioning: a project with a Team needs none.
StartProvisioning(c) ==
    /\ at[c] = "idle"
    /\ link = None
    /\ Go(c, "findBlocking")
    /\ UNCHANGED <<rows, graph, worker, history>>

Blocking(r) ==
    \/ run[r].status \in Active
    \/ run[r].status = "PARTIAL" /\ run[r].team # 0
    \/ run[r].status = "FAILED" /\ run[r].error = "UNKNOWN" /\ run[r].resolved = "none"

FindBlockingRun(c) ==
    /\ at[c] = "findBlocking"
    /\ IF \E r \in Runs : Blocking(r) THEN Answer(c) ELSE Go(c, "create")
    /\ UNCHANGED <<rows, graph, worker, history>>

\* (A behaviour that has used all of Runs creates none: a bound.)
CreateRun(c) ==
    /\ at[c] = "create"
    /\ \/ \E r \in Runs :
            /\ run[r].status = "absent"
            /\ IndexAllows(r)
            /\ Started # {} => Alone(c)
            /\ Write(r, [NoRun EXCEPT !.status = "PENDING"])
            /\ Ask(c, "enqueue", r, Nothing)
       \/ /\ \A r \in Runs : run[r].status # "absent" \/ ~IndexAllows(r)
          /\ Answer(c)
          /\ UNCHANGED run
    /\ UNCHANGED <<job, link, graph, worker, history>>

EnqueueFirst(c) ==
    LET j == <<about[c], 0>> IN
    /\ at[c] = "enqueue"
    /\ \/ /\ job' = [job EXCEPT ![j].state = "waiting"]
          /\ Go(c, "note")
          /\ UNCHANGED faults
       \/ Fault /\ Go(c, "unavailable") /\ UNCHANGED job
    /\ UNCHANGED <<run, link, graph, worker, overlapped, unseen>>

\* currentJobId, once the job has an id: too late if a retry has its own.
NoteJob(c) ==
    LET r == about[c] IN
    /\ at[c] = "note"
    /\ \/ /\ Write(r, [run[r] EXCEPT !.job = 0])
          /\ unseen' = IF run[r].job = None THEN unseen ELSE unseen \cup {r}
          /\ Answer(c)
          /\ UNCHANGED faults
       \/ /\ Fault
          /\ unseen' = unseen \cup {r}
          /\ Go(c, "unavailable")
          /\ UNCHANGED run
    /\ UNCHANGED <<job, link, graph, worker, overlapped>>

\* By id, whatever a worker has made of the run meanwhile.
QueueUnavailable(c) ==
    LET r == about[c] IN
    /\ at[c] = "unavailable"
    /\ Write(r, Failed(run[r], "RETRYABLE"))
    /\ Answer(c)
    /\ UNCHANGED <<job, link, graph, worker, history>>

Retryable(row) ==
    /\ row.status \in {"FAILED", "PARTIAL"}
    /\ row.error = "RETRYABLE"

\* retryProvisioning: the checks, and what is read for the update.
RetryProvisioning(c) ==
    /\ at[c] = "idle"
    /\ \E r \in Runs :
        /\ Retryable(run[r])
        /\ run[r].resolved # "CONFIRMED_NOT_CREATED"
        /\ run[r].retries < MaxRetries
        /\ Ask(c, "getJob", r, [Nothing EXCEPT !.job = run[r].job, !.retries = run[r].retries])
    /\ UNCHANGED <<rows, graph, worker, history>>

GetJobNotWaiting(c) ==
    LET r == about[c]
        k == known[c].job
    IN
    /\ at[c] = "getJob"
    /\ Go(c, IF k = None THEN "reserve"
             ELSE CASE job[<<r, k>>].state = "failed" -> "reserveSame"
                    [] job[<<r, k>>].state = "active" -> "reviveActive"
                    [] OTHER -> "reserve")
    /\ UNCHANGED <<rows, graph, worker, history>>

\* queue.getJob fails: as if there were none.  getState fails: the run too.
GetJob(c) ==
    LET r == about[c]
        k == known[c].job
    IN
    /\ at[c] = "getJob"
    /\ \/ /\ Go(c, IF k = None THEN "reserve"
                   ELSE CASE job[<<r, k>>].state = "failed" -> "reserveSame"
                          [] job[<<r, k>>].state = "active" -> "reviveActive"
                          [] job[<<r, k>>].state = "waiting" -> "reviveWaiting"
                          [] OTHER -> "reserve")
          /\ unseen' = IF k = None /\ job[<<r, 0>>].state \in Live THEN unseen \cup {r}
                       ELSE unseen
          /\ UNCHANGED <<run, faults>>
       \/ /\ k # None
          /\ Fault
          /\ unseen' = unseen \cup {r}
          /\ Go(c, "reserve")
          /\ UNCHANGED run
       \/ /\ k # None
          /\ Fault
          /\ FailIfActive(r, "RETRYABLE")
          /\ unseen' = IF run[r].status \in Active THEN unseen \cup {r} ELSE unseen
          /\ Answer(c)
    /\ UNCHANGED <<job, link, graph, worker, overlapped>>

\* The where clause of the two conditional updates of a retry.
Reservable(c) ==
    /\ Retryable(run[about[c]])
    /\ run[about[c]].job = known[c].job

\* Its data, retryCount aside; the index may refuse the status.
Reserved(row) == [row EXCEPT !.status = "PENDING", !.error = "none"]

\* reserveRetryTransition
ReserveSame(c) ==
    LET r == about[c] IN
    /\ at[c] = "reserveSame"
    /\ IF Reservable(c) /\ IndexAllows(r) /\ run[r].retries < MaxRetries
       THEN Write(r, [Reserved(run[r]) EXCEPT !.retries = @ + 1]) /\ Go(c, "requeue")
       ELSE Answer(c) /\ UNCHANGED run
    /\ UNCHANGED <<job, link, graph, worker, history>>

\* job.retry('failed'); it throws on a job that no longer is.
Requeue(c) ==
    LET j == <<about[c], known[c].job>> IN
    /\ at[c] = "requeue"
    /\ \/ /\ job[j].state = "failed"
          /\ job' = [job EXCEPT ![j].state = "waiting"]
          /\ Answer(c)
          /\ UNCHANGED faults
       \/ /\ IF job[j].state = "failed" THEN Fault ELSE UNCHANGED faults
          /\ Go(c, "compensate")
          /\ UNCHANGED job
    /\ UNCHANGED <<run, link, graph, worker, overlapped, unseen>>

\* A live job will do: the run is only shown as going on.
Revive(c) ==
    LET r == about[c] IN
    /\ at[c] \in {"reviveActive", "reviveWaiting"}
    /\ IF run[r].status \in {"FAILED", "PARTIAL"} /\ IndexAllows(r)
       THEN Write(r, [run[r] EXCEPT
                !.status = IF at[c] = "reviveActive" THEN "IN_PROGRESS" ELSE "PENDING",
                !.error = "none"])
       ELSE UNCHANGED run
    /\ Answer(c)
    /\ UNCHANGED <<job, link, graph, worker, history>>

ReserveCountingTwice(c) ==
    LET r == about[c]
        k == known[c].retries + 1
    IN
    /\ at[c] = "reserve"
    /\ IF Reservable(c) /\ IndexAllows(r)
       THEN /\ Write(r, [Reserved(run[r]) EXCEPT !.retries = k + 1, !.job = k])
            /\ Ask(c, "enqueueRetry", r, [known[c] EXCEPT !.job = k])
       ELSE Answer(c) /\ UNCHANGED run
    /\ UNCHANGED <<job, link, graph, worker, history>>

\* A job of its own for this retry, named before it exists.
Reserve(c) ==
    LET r == about[c]
        k == known[c].retries + 1
    IN
    /\ at[c] = "reserve"
    /\ IF Reservable(c) /\ IndexAllows(r)
       THEN /\ Write(r, [Reserved(run[r]) EXCEPT !.retries = k, !.job = k])
            /\ Ask(c, "enqueueRetry", r, [known[c] EXCEPT !.job = k])
       ELSE Answer(c) /\ UNCHANGED run
    /\ UNCHANGED <<job, link, graph, worker, history>>

\* A failed add is compensated, whether or not Redis took the job.
EnqueueRetry(c) ==
    LET j == <<about[c], known[c].job>> IN
    /\ at[c] = "enqueueRetry"
    /\ \/ /\ job[j].state = "none"
          /\ job' = [job EXCEPT ![j].state = "waiting"]
          /\ \/ Answer(c) /\ UNCHANGED faults
             \/ Fault /\ Go(c, "compensate")
       \/ /\ job[j].state \in Live
          /\ Answer(c)
          /\ UNCHANGED <<job, faults>>
       \/ /\ IF job[j].state \in {"completed", "failed"} THEN UNCHANGED faults ELSE Fault
          /\ Go(c, "compensate")
          /\ UNCHANGED job
    /\ UNCHANGED <<run, link, graph, worker, overlapped, unseen>>

\* compensateRetryEnqueueFailure
Compensate(c) ==
    LET r == about[c] IN
    /\ at[c] = "compensate"
    /\ IF run[r].status = "PENDING" /\ run[r].job = known[c].job
       THEN Write(r, Failed(run[r], "RETRYABLE"))
       ELSE UNCHANGED run
    /\ Answer(c)
    /\ UNCHANGED <<job, link, graph, worker, history>>

Unknown(row) == row.error = "UNKNOWN" /\ row.resolved = "none"
Unresolved(row) == row.status = "FAILED" /\ Unknown(row)

Made(r) == {Team(r, k) : k \in 1 .. posts[r]} \ doomed

\* resolveUnknown: the user has looked in Teams, and says what is there.
\* (The request reads the error code only; its update wants a FAILED run.)
ResolveUnknown(c) ==
    /\ at[c] = "idle"
    /\ \E r \in Runs :
        /\ Unknown(run[r])
        /\ \/ Made(r) = {} /\ Ask(c, "confirmNotCreated", r, Nothing)
           \/ \E t \in Made(r) :
                /\ link \in {None, t}
                /\ Ask(c, "attachFound", r, [Nothing EXCEPT !.team = t])
    /\ UNCHANGED <<rows, graph, worker, history>>

ConfirmNotCreated(c) ==
    LET r == about[c] IN
    /\ at[c] = "confirmNotCreated"
    /\ IF Unresolved(run[r])
       THEN Write(r, [run[r] EXCEPT !.error = "CONFIRMED_NOT_CREATED",
                                    !.resolved = "CONFIRMED_NOT_CREATED"])
       ELSE UNCHANGED run
    /\ Answer(c)
    /\ UNCHANGED <<job, link, graph, worker, history>>

AttachFound(c) ==
    /\ at[c] = "attachFound"
    /\ link' = known[c].team
    /\ Go(c, "recordFound")
    /\ UNCHANGED <<run, job, graph, worker, history>>

\* PARTIAL when the primary channel could not be read.
RecordFound(c) ==
    LET r == about[c] IN
    /\ at[c] = "recordFound"
    /\ IF Unresolved(run[r])
       THEN \E code \in {"none", "RETRYABLE"} :
              Write(r, [run[r] EXCEPT
                !.status = IF code = "none" THEN "COMPLETED" ELSE "PARTIAL",
                !.error = code, !.team = known[c].team[2], !.resolved = "TEAM_FOUND"])
       ELSE UNCHANGED run
    /\ Answer(c)
    /\ UNCHANGED <<job, link, graph, worker, history>>

\* The request dies with its process; before it has written anything, it might
\* as well not have been made.
CallerCrash(c) ==
    /\ at[c] \in {"enqueue", "note", "unavailable", "requeue", "enqueueRetry", "compensate",
                  "recordFound"}
    /\ Fault
    /\ unseen' = IF at[c] = "note" THEN unseen \cup {about[c]} ELSE unseen
    /\ Answer(c)
    /\ UNCHANGED <<rows, graph, worker, overlapped>>

-------------------------------------------------------------------------------
(***************************************************************************)
(* The job queue                                                           *)
(***************************************************************************)
Run(w) == on[w][1]

\* What is left to an attempt once it is over: BullMQ is to be told.
Outcomes == {"completed", "failed"}

Working(w) == step[w] \notin {"idle"} \cup Outcomes

HoldsLock(w) == job[on[w]].state = "active" /\ job[on[w]].worker = w

\* The job of a worker that died: once more, until it has stalled too often.
Redelivered(j) ==
    IF j.stalls < MaxStalls
    THEN [j EXCEPT !.state = "waiting", !.stalls = @ + 1, !.worker = None]
    ELSE [j EXCEPT !.state = "failed", !.worker = None]

\* attemptsMade, counted no further than MaxAttempts.
Attempted(j) == [j EXCEPT !.failed = IF @ < MaxAttempts THEN @ + 1 ELSE @, !.worker = None]

\* A completed job is never taken again.
Completed(j) == [NoJob EXCEPT !.state = "completed"]

\* UnrecoverableError, or the last attempt.
GivenUp(j) == [Attempted(j) EXCEPT !.state = "failed"]

AttemptsRemain(j) == j.failed + 1 < MaxAttempts

Retried(j) == [Attempted(j) EXCEPT !.state = IF AttemptsRemain(j) THEN "waiting" ELSE "failed"]

\* The worker is done; a worker that lost the lock cannot move the job.
EndJob(w, outcome) ==
    /\ job' = IF HoldsLock(w) THEN [job EXCEPT ![on[w]] = outcome] ELSE job
    /\ step' = [step EXCEPT ![w] = "idle"]
    /\ on' = [on EXCEPT ![w] = None]
    /\ view' = [view EXCEPT ![w] = NoView]
    /\ error' = [error EXCEPT ![w] = "none"]

Take(w) ==
    \E j \in Jobs :
        /\ step[w] = "idle"
        /\ job[j].state = "waiting"
        /\ job' = [job EXCEPT ![j].state = "active", ![j].worker = w]
        /\ on' = [on EXCEPT ![w] = j]
        /\ step' = [step EXCEPT ![w] = "read"]
        /\ overlapped' = IF \E x \in Workers : Working(x) /\ Run(x) = j[1]
                         THEN overlapped \cup {j[1]} ELSE overlapped
        /\ UNCHANGED <<run, link, graph, view, error, request, unseen, faults>>

\* The stalled check finds an active job whose worker died.
Redeliver(j) ==
    /\ job[j].state = "active"
    /\ on[job[j].worker] # j
    /\ job' = [job EXCEPT ![j] = Redelivered(@)]
    /\ UNCHANGED <<run, link, graph, worker, request, history>>

Crash(w) ==
    /\ step[w] # "idle"
    /\ Fault
    /\ EndJob(w, job[on[w]])
    /\ UNCHANGED <<run, link, graph, request, overlapped, unseen>>

-------------------------------------------------------------------------------
(***************************************************************************)
(* The worker side: processProvisioningJob                                 *)
(***************************************************************************)
Continue(w, next) == step' = [step EXCEPT ![w] = next]

Throw(w, e) == Continue(w, "error") /\ error' = [error EXCEPT ![w] = e]

\* A call to Graph that comes to nothing: throttled, refused (401, 403), or
\* without an answer worth the name.
Refused(w) == Fault /\ \E e \in {"obscure", "refused", "clear"} : Throw(w, e)

\* Everything an attempt decides on is this copy of the row.
ReadRun(w) ==
    LET row == run[Run(w)] IN
    /\ step[w] = "read"
    /\ \/ /\ view' = [view EXCEPT ![w] = [requested |-> row.requested, op |-> row.op,
                                         team |-> row.team, saved |-> row.team]]
          /\ Continue(w, "heartbeat")
          /\ UNCHANGED <<error, faults>>
       \/ Fault /\ Throw(w, "obscure") /\ UNCHANGED view
    /\ UNCHANGED <<rows, graph, on, request, overlapped, unseen>>

\* A creation was asked for, and nothing of it is known.
Unclear(v) == v.requested /\ v.op = 0 /\ v.team = 0

HeartbeatAsksAgain(w) ==
    LET v == view[w] IN
    /\ step[w] = "heartbeat"
    /\ Write(Run(w), [run[Run(w)] EXCEPT !.status = "IN_PROGRESS"])
    /\ Continue(w, IF v.op # 0 THEN "poll" ELSE IF v.team # 0 THEN "attach" ELSE "request")
    /\ UNCHANGED <<job, link, graph, on, view, error, request, history>>

\* touchHeartbeat by id, whatever the status has become; the index may refuse.
Heartbeat(w) ==
    LET v == view[w] IN
    /\ step[w] = "heartbeat"
    /\ IF IndexAllows(Run(w))
       THEN /\ Write(Run(w), [run[Run(w)] EXCEPT !.status = "IN_PROGRESS"])
            /\ Continue(w, IF Unclear(v) THEN "unclear"
                           ELSE IF v.op # 0 THEN "poll"
                           ELSE IF v.team # 0 THEN "attach" ELSE "request")
            /\ UNCHANGED error
       ELSE Throw(w, "obscure") /\ UNCHANGED run
    /\ UNCHANGED <<job, link, graph, on, view, request, history>>

DeclareUnknown(w) ==
    /\ step[w] = "unclear"
    /\ FailIfActive(Run(w), "UNKNOWN")
    /\ Continue(w, "completed")
    /\ UNCHANGED <<job, link, graph, on, view, error, request, history>>

RequestCreationUnrecorded(w) ==
    /\ step[w] = "request"
    /\ Continue(w, "post")
    /\ UNCHANGED <<rows, graph, on, view, error, request, history>>

\* graphCreateRequestedAt, before the POST.
RequestCreation(w) ==
    LET r == Run(w) IN
    /\ step[w] = "request"
    /\ \/ /\ Write(r, [run[r] EXCEPT !.requested = TRUE])
          /\ Continue(w, "post")
          /\ UNCHANGED <<error, faults>>
       \/ Fault /\ Throw(w, "obscure") /\ UNCHANGED run
    /\ UNCHANGED <<job, link, graph, on, view, request, overlapped, unseen>>

\* Graph accepts: one more Team, unless the creation fails in the end.
Accept(r) ==
    /\ posts' = [posts EXCEPT ![r] = @ + 1]
    /\ doomed' \in {doomed, doomed \cup {Team(r, posts[r] + 1)}}

\* POST /teams, never repeated by the client: accepted, accepted with the
\* answer lost, or not accepted, be it for want of a token or an answer.
CreateTeam(w) ==
    LET r == Run(w) IN
    /\ step[w] = "post"
    /\ \/ /\ Accept(r)
          /\ view' = [view EXCEPT ![w].op = posts[r] + 1]
          /\ Continue(w, "record")
          /\ UNCHANGED <<error, faults>>
       \/ Fault /\ Accept(r) /\ Throw(w, "obscure") /\ UNCHANGED view
       \/ /\ Refused(w)
          /\ UNCHANGED <<graph, view>>
    /\ UNCHANGED <<rows, on, request, overlapped, unseen>>

\* What an attempt goes on with: the operation to wait for or, without one,
\* the Team.  With neither, the outcome is unknown.
Pursued(v) == IF v.op # 0 THEN "poll" ELSE IF v.team # 0 THEN "attach" ELSE "unclear"

\* Location gives the operation and Content-Location the Team's id.  Either
\* header may be missing from the answer.
RecordCreation(w) ==
    LET r == Run(w)
        k == view[w].op
    IN
    /\ step[w] = "record"
    /\ \/ \E op \in {0, k}, id \in {0, k} :
            /\ op = 0 \/ id = 0 => FirstRun
            /\ Write(r, [run[r] EXCEPT !.op = op, !.team = id])
            /\ view' = [view EXCEPT ![w].op = op, ![w].team = id]
            /\ Continue(w, Pursued([op |-> op, team |-> id]))
            /\ UNCHANGED <<error, faults>>
       \/ Fault /\ Throw(w, "obscure") /\ UNCHANGED <<run, view>>
    /\ UNCHANGED <<job, link, graph, on, request, overlapped, unseen>>

PollUnlessKnown(w) ==
    LET r == Run(w) IN
    /\ step[w] = "poll"
    /\ view[w].team # 0 \/ Team(r, view[w].op) \notin doomed
    /\ view' = [view EXCEPT ![w].team = view[w].op]
    /\ Write(r, [run[r] EXCEPT !.team = view[w].op])
    /\ Continue(w, "attach")
    /\ UNCHANGED <<job, link, graph, on, error, request, history>>

\* pollAsyncOperation, even when the id is already known.  An operation that
\* has succeeded may not name its Team.
Poll(w) ==
    LET r == Run(w)
        v == view[w]
    IN
    /\ step[w] = "poll"
    /\ \/ /\ Team(r, v.op) \notin doomed
          /\ \E id \in IF v.team # 0 THEN {v.team} ELSE {0, v.op} :
                /\ id = 0 => FirstRun
                /\ view' = [view EXCEPT ![w].team = id]
                /\ IF v.saved = 0 /\ id # 0 THEN Write(r, [run[r] EXCEPT !.team = id])
                   ELSE UNCHANGED run
                /\ Continue(w, IF id # 0 THEN "attach" ELSE "unclear")
          /\ UNCHANGED <<error, faults>>
       \/ /\ Team(r, view[w].op) \in doomed
          /\ Throw(w, "asyncFailed")
          /\ UNCHANGED <<run, view, faults>>
       \/ Refused(w) /\ UNCHANGED <<run, view>>
    /\ UNCHANGED <<job, link, graph, on, request, overlapped, unseen>>

\* getTeam and the first upsert of the link; then the channels, and the
\* second upsert with the channel.  A Team that fails in the end may answer
\* before it does.
Attach(w) ==
    LET r == Run(w) IN
    /\ step[w] \in {"attach", "channels"}
    /\ \/ /\ link' = Team(r, view[w].team)
          /\ Write(r, run[r])
          /\ Continue(w, IF step[w] = "attach" THEN "channels" ELSE "complete")
          /\ UNCHANGED <<error, faults>>
       \/ /\ Team(r, view[w].team) \in doomed
          /\ Throw(w, "clear")
          /\ UNCHANGED <<run, link, faults>>
       \/ Refused(w) /\ UNCHANGED <<run, link>>
    /\ UNCHANGED <<job, graph, on, view, request, overlapped, unseen>>

\* PARTIAL when a channel could not be made.
Complete(w) ==
    LET r == Run(w) IN
    /\ step[w] = "complete"
    /\ \/ /\ \E code \in {"none", "RETRYABLE"} :
              /\ code = "RETRYABLE" => FirstRun
              /\ Write(r, [run[r] EXCEPT
                    !.status = IF code = "none" THEN "COMPLETED" ELSE "PARTIAL",
                    !.error = code, !.team = view[w].team])
          /\ Continue(w, "completed")
          /\ UNCHANGED <<error, faults>>
       \/ Fault /\ Throw(w, "obscure") /\ UNCHANGED run
    /\ UNCHANGED <<job, link, graph, on, view, request, overlapped, unseen>>

Settled(row) ==
    \/ row.status \in {"COMPLETED", "PARTIAL"}
    \/ row.status = "FAILED" /\ row.error # "none"

\* handleProvisioningJobError: what becomes of the run, then of the job.  A
\* job that is only to be tried again has nothing written before.
HandleError(w) ==
    LET r == Run(w)
        j == job[on[w]]
        again == EndJob(w, Retried(j)) /\ UNCHANGED run
        fail(code) == /\ FailIfActive(r, code)
                      /\ Continue(w, "failed")
                      /\ UNCHANGED <<job, on, view, error>>
    IN
    /\ step[w] = "error"
    /\ \/ /\ IF Settled(run[r]) THEN again
             ELSE IF Unclear(run[r]) /\ error[w] = "obscure" THEN fail("UNKNOWN")
             ELSE IF error[w] = "refused" THEN fail("RETRYABLE")
             ELSE IF error[w] = "asyncFailed" THEN fail("GRAPH_ASYNC_FAILED")
             ELSE IF AttemptsRemain(j) THEN again
             ELSE fail("RETRYABLE")
          /\ UNCHANGED faults
       \/ Fault /\ again
    /\ UNCHANGED <<link, graph, request, overlapped, unseen>>

\* BullMQ is told, once the run has been written.
Acknowledge(w) ==
    /\ \/ step[w] = "completed" /\ EndJob(w, Completed(job[on[w]]))
       \/ step[w] = "failed" /\ EndJob(w, GivenUp(job[on[w]]))
    /\ UNCHANGED <<run, link, graph, request, history>>

-------------------------------------------------------------------------------
(***************************************************************************)
(* The maintenance of stale runs                                           *)
(***************************************************************************)

\* The threshold (15 min) exceeds what an attempt (8 min) or a request may
\* last: only runs nobody attends to reach it.
GrowStale(r) ==
    /\ run[r].status \in Active
    /\ ~run[r].stale
    /\ \A w \in Workers : step[w] # "idle" /\ Run(w) = r => ~HoldsLock(w)
    /\ \A c \in Callers : about[c] # r
    /\ run' = [run EXCEPT ![r].stale = TRUE]
    /\ UNCHANGED <<job, link, graph, worker, request, history>>

FailStaleInProgress(r) ==
    /\ run[r].status = "IN_PROGRESS"
    /\ run[r].stale
    /\ Write(r, Failed(run[r], IF Unclear(run[r]) THEN "UNKNOWN" ELSE "RETRYABLE"))
    /\ UNCHANGED <<job, link, graph, worker, request, history>>

FailStalePendingWithJob(r) ==
    /\ run[r].status = "PENDING"
    /\ run[r].stale
    /\ run[r].job # None
    /\ job[<<r, run[r].job>>].state \in {"completed", "failed"}
    /\ Write(r, Failed(run[r], "RETRYABLE"))
    /\ UNCHANGED <<job, link, graph, worker, request, history>>

\* A PENDING run with a live job is left to it, unless Redis does not answer.
FailStalePending(r) ==
    LET k == run[r].job IN
    /\ run[r].status = "PENDING"
    /\ run[r].stale
    /\ IF k # None /\ job[<<r, k>>].state \in Live THEN Fault ELSE UNCHANGED faults
    /\ Write(r, Failed(run[r], "RETRYABLE"))
    /\ UNCHANGED <<job, link, graph, worker, request, overlapped, unseen>>

-------------------------------------------------------------------------------
Request(c) ==
    /\ Cardinality(Started) > 1 => Alone(c)
    /\ StartProvisioning(c) \/ RetryProvisioning(c) \/ ResolveUnknown(c)

Pursue(c) ==
    \/ FindBlockingRun(c) \/ CreateRun(c) \/ EnqueueFirst(c) \/ NoteJob(c)
    \/ QueueUnavailable(c)
    \/ GetJob(c) \/ ReserveSame(c) \/ Requeue(c) \/ Revive(c)
    \/ Reserve(c) \/ EnqueueRetry(c) \/ Compensate(c)
    \/ ConfirmNotCreated(c) \/ AttachFound(c) \/ RecordFound(c)
    \/ CallerCrash(c)

Process(w) ==
    \/ ReadRun(w) \/ Heartbeat(w) \/ DeclareUnknown(w)
    \/ RequestCreation(w) \/ CreateTeam(w) \/ RecordCreation(w)
    \/ Poll(w) \/ Attach(w) \/ Complete(w)
    \/ HandleError(w) \/ Acknowledge(w)

Maintain(r) == FailStaleInProgress(r) \/ FailStalePending(r)

Next ==
    \/ \E c \in Callers : Request(c) \/ Pursue(c)
    \/ \E w \in Workers : Take(w) \/ Process(w) \/ Crash(w)
    \/ \E j \in Jobs : Redeliver(j)
    \/ \E r \in Runs : GrowStale(r) \/ Maintain(r)

Spec == Init /\ [][Next]_vars

\* A request goes on once made; workers take jobs and go on; lost jobs are
\* redelivered; time passes and the maintenance runs every five minutes.
FairSpec ==
    /\ Spec
    /\ \A c \in Callers : WF_vars(Pursue(c))
    /\ \A w \in Workers : WF_vars(Take(w)) /\ WF_vars(Process(w))
    /\ \A j \in Jobs : WF_vars(Redeliver(j))
    /\ \A r \in Runs : WF_vars(GrowStale(r)) /\ WF_vars(Maintain(r))

-------------------------------------------------------------------------------
(***************************************************************************)
(* Properties                                                              *)
(***************************************************************************)
TypeOK ==
    /\ run \in [Runs -> [status : Statuses, error : Errors, requested : BOOLEAN,
                         op : Nat, team : Nat, job : {None} \cup (0 .. MaxRetries),
                         retries : 0 .. MaxRetries, resolved : Resolutions, stale : BOOLEAN]]
    /\ job \in [Jobs -> [state : JobStates, failed : 0 .. MaxAttempts,
                         stalls : 0 .. MaxStalls, worker : Workers \cup {None}]]
    /\ posts \in [Runs -> Nat]
    /\ doomed \subseteq Runs \X Nat
    /\ link \in {None} \cup (Runs \X Nat)
    /\ on \in [Workers -> Jobs \cup {None}]
    /\ view \in [Workers -> [requested : BOOLEAN, op : Nat, team : Nat, saved : Nat]]
    /\ error \in [Workers -> Exceptions]
    /\ about \in [Callers -> Runs \cup {None}]
    /\ overlapped \subseteq Runs
    /\ unseen \subseteq Runs
    /\ faults \in 0 .. MaxFaults

\* Graph is asked for at most one Team per run, whatever crashes, lost
\* answers and retries, unless two workers had the run at once: what
\* graphCreateRequestedAt, written before the POST, is for.
PostedOnce == \A r \in Runs \ overlapped : posts[r] <= 1

\* Graph named the Team of this run and no operation to wait for.
Unwatched(r) == run[r].op = 0 /\ run[r].team # 0 /\ run[r].resolved # "TEAM_FOUND"

\* The Team a project shows exists in Teams, its creation having succeeded:
\* it is attached after the operation that makes it, not when its id is known.
\* The exception is a run with no operation to wait for, attached on the id.
AttachedTeamExists ==
    \A r \in Runs \ overlapped :
        link \in {Team(r, k) : k \in 1 .. posts[r]} => link \in Made(r) \/ Unwatched(r)

\* A run has one live job, and one worker, at a time, whoever retries it and
\* however a retry fails, unless the API failed to see the job it had.
OneLiveJob ==
    /\ overlapped \subseteq unseen
    /\ \A r \in Runs \ unseen : \A k, m \in 0 .. MaxRetries :
          job[<<r, k>>].state \in Live /\ job[<<r, m>>].state \in Live => k = m

\* What a step leaves of a closed run.
StaysClosed(r) ==
    run[r].resolved = "CONFIRMED_NOT_CREATED" =>
        /\ run'[r].resolved = "CONFIRMED_NOT_CREATED"
        /\ run'[r].status \notin {"COMPLETED", "PARTIAL"}
        /\ posts'[r] = posts[r]

\* A run whose creation a user has confirmed absent is closed: it never asks
\* for a Team, completes, or is resolved again, even if its job comes back.
ClosedForGood == [][\A r \in Runs \ overlapped' : StaysClosed(r)]_vars

\* No run stays PENDING or IN_PROGRESS for ever: its job, its caller or the
\* maintenance brings it to an outcome the user can act on.
RunsSettle == \A r \in Runs : run[r].status \in Active ~> run[r].status \notin Active
===============================================================================
