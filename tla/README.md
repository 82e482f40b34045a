# Verification of Starium Orchestra

Starium Orchestra is a multi-tenant web application in which part-time CIOs
run budgets, purchases, projects and governance for several client companies: a
NestJS API (`src/apps/api`), a Next.js interface (`src/apps/web`), PostgreSQL
through Prisma, and Redis with BullMQ for background jobs run by a worker
process (`apps/api/src/worker`).

This directory holds TLA+ models of the parts of the API where money, messages
and concurrency meet, TLC configurations that check them, and theorems about
them checked by TLAPS. `PROJECT.json` lists the components, the runs, the
mutants, the source lines of each definition, the hazards and the findings.

Paths below are relative to `src/apps/api/src/modules` unless they say otherwise.

## Facts about the platform the models rest on

* PostgreSQL runs at its default, READ COMMITTED. Each *statement* sees what is
  committed when it starts, plus its own transaction's writes. No service uses
  `SELECT ... FOR UPDATE`: the only row locks are those of `UPDATE`, held until
  the transaction ends.
* A Prisma interactive transaction (`$transaction(async tx => ...)`) has the
  default timeout of 5 s: after it, its statements throw and it is rolled back.
  A call that goes through `this.prisma` rather than `tx` is **not** part of
  it; a service that opens its own `$transaction` inside another one commits on
  its own.
* Several API processes may run. What a process keeps in memory (the `running`
  flag of a scheduler) protects nothing from the others.
* A BullMQ job is delivered at least once: a worker that dies or stops renewing
  its lock has its job redelivered, up to a number of stalls; a processor that
  throws is retried, up to a number of attempts.

## Inventory

State, operations, interactions, what is hard, and what must hold. The
components that are modelled come first.

### Financial core (`financial-core`)

*State*: `FinancialEvent` and `FinancialAllocation` rows (the movements, never
updated or deleted) and four derived columns of `BudgetLine` (forecast,
committed, consumed, remaining).
*Operations*: `FinancialEventsService.create`, `FinancialAllocationsService.create`,
`BudgetLineCalculatorService.recalculateForBudgetLine`, which reads the line,
its allocations and its events and writes the four columns.
*Interactions*: called by reallocation, procurement and the HTTP API; its columns
are read by alerts, dashboards, forecasts and reports.
*Hard*: read-then-write of derived columns without a lock; a rolled-back request
must leave nothing; a request sees its own uncommitted movement and nobody else's.
*Correct when*: the stored columns are the aggregate of the movements.

### Budget reallocation (`budget-reallocation`)

*State*: pairs of `REALLOCATION_DONE` events. *Operations*: `create` checks
currencies, statuses and the remaining amount of the source **before** its
transaction, then inserts a debit and a credit and recalculates both lines.
*Hard*: the check is stale in the transaction; two opposite reallocations lock two
rows in opposite orders. *Correct when*: debits and credits balance, no line is
overdrawn, every request ends.

### Budget lines, workflow and snapshots (`budget-management`, `budget-snapshots`)

*State*: status of budgets, envelopes and lines; initial amounts; cost-centre
splits. *Operations*: creation, PATCH (a change of `initialAmount` recomputes
`remaining`), bulk status updates, and the transitions of a budget
(DRAFT, SUBMITTED, REVISED, VALIDATED, LOCKED, ARCHIVED), two of which cascade to
envelopes and lines. *Interactions*: LOCKED and ARCHIVED budgets refuse PATCHes and
reallocations; milestones create snapshots. *Hard*: statuses and counts read before
the transaction that uses them; lines created during a cascade.
A milestone (SUBMITTED, VALIDATED) takes a snapshot of the lines after the commit.
*Correct when*: a locked budget stops moving once what had begun is over; a transition
follows its table, leaves no child behind, and its snapshot shows it.

### Budget versioning (`budget-versioning`)

*State*: the versions of a set (DRAFT, ACTIVE, SUPERSEDED, ARCHIVED), each a budget of
its own, and the set's `activeBudgetId`. *Operations*: baseline, revision, activate,
archive. *Interactions*: SUPERSEDED and ARCHIVED versions refuse every update of the
budget and its children. *Hard*: the active version and the counts are read before the
write that rests on them. *Correct when*: one ACTIVE version per set, the one the
pointer names; archived versions stay so.

### Teams provisioning (`microsoft`)

*State*: the runs of a project (PENDING, IN_PROGRESS, COMPLETED, PARTIAL, FAILED with a
code), with what they recorded of their request to Microsoft Graph; one BullMQ job per
attempt series; the project's link. *Operations*: start, retry and manual resolution by
users; `processProvisioningJob` and its error handler in the worker; the maintenance of
stale runs every five minutes. *Hard*: a POST whose answer is lost; a crash between the
POST and its record; retries against the queue's own redelivery; a worker's copy of a row
that others change; maintenance against slow workers.
*Correct when*: a run creates one Team at most, attaches it when it exists, has one job,
and always comes to an outcome a user can act on.

### Procurement (`procurement/purchase-orders`, `procurement/invoices`)

*State*: `PurchaseOrder` and `Invoice` rows, and the movements they are the source
of. *Operations*: create and cancel. An order commits its amount on its line; an
invoice consumes its own and takes the order's commitment down by as much as is
left; cancellations reverse both. *Interactions*: every movement is posted through
`FinancialEventsService.create`, hence in a **nested, independent transaction**.
*Hard*: a movement survives the rollback of its document; the amount already
invoiced is a sum over visible rows; statuses are tested on unlocked reads; a
timeout can strike while a nested transaction is under way.
*Correct when*: documents are accounted for exactly once, and an order never has
less than nothing left.

### E-mail (`email`, `queue`)

*State*: `EmailDelivery` rows (PENDING, RETRYING, SENT, FAILED) and BullMQ jobs.
*Operations*: `queueGenericEmail` (row, then job), `processEmailDelivery` in a
worker (read, conditional claim, SMTP, record). *Interactions*: alerts, meetings and
project reviews ask for e-mails. *Hard*: crash between any two steps, redelivery while
the first worker still runs, SMTP answers that are lost, updates that fail after the
message has left. *Correct when*: a message leaves once, and is not lost.

### Alerts and notifications (`alerts`, `notifications`)

*State*: `Alert` rows (ACTIVE, RESOLVED, DISMISSED), `Notification` rows.
*Operations*: an evaluation per client (hourly cron on every API instance, and on
demand) reads conditions, `upsertAlert`s and fans out one notification and, if
CRITICAL, one e-mail per recipient, then resolves stale alerts; users resolve, dismiss
and clear. *Hard*: concurrent evaluations, uniqueness by partial indexes, evaluations
cut in the middle of a fan-out, decisions on an old reading of the condition.
*Correct when*: every recipient is reached whichever evaluation fails, on each channel;
alerts follow the condition.

### Licences and subscriptions (`licenses`)

*State*: subscriptions of a client (status, limit of seats, `endsAt`, `graceEndsAt`) and
the licence each membership (`ClientUser`) carries. *Operations*: assignments by
administrators, PATCH and transitions of subscriptions, status and removal of members; an
hourly job that expires subscriptions, downgrades the members of those whose grace is over,
and ends evaluation and support licences; a guard that reads both rows before every write.
*Hard*: seats are counted before the transaction that takes one; the job reads rows and
updates them by id, on a clock an hour ahead; it may die half way.
*Correct when*: seats stay within the limit, a licence is taken away when it is due and
then only, nobody writes on what has ended.

### Not modelled yet, in the order of interest

| Component | State and operations | What is hard |
|---|---|---|
| Project requests | draft, submit, decision, routing, conversion to a project | a project created outside the transaction that links it |
| Project scenarios | one SELECTED per project; select archives the others | partial unique index against concurrent selections; synchronisation after commit |
| Governance cycles | instances planned, opened, closed; agendas and decisions | closing propagates decisions to items and budgets |
| Timesheets | a month submitted and unlocked; entries | an entry written while its month is being submitted |
| Microsoft OAuth | connection, tokens, single-use state | refresh under a per-process lock |
| Project budget links, budget import, capacity | shares, rows and allocations | sums to 100 %, matching of rows, overlaps |

Left aside: authentication, access control and roles (decisions over stored grants,
outside the scope of this project); tenants, users, organisation, people, strategy,
meetings, projects and tasks, contracts and suppliers (edits of one row at a time);
dashboards, forecasts, reports, search and compliance (read-only); audit logs (a failure
outside a transaction is swallowed, `audit-logs/audit-logs.service.ts`, so they change
no outcome there); the web application (no state of the system).

## Modules

| Module | What it is |
|---|---|
| `FinancialJournal` | abstract: what the two movement tables promise |
| `FinancialCore` | events, allocations, reallocations, PATCH of the amount, recalculation, lock; refines `FinancialJournal` |
| `MCFinancialCore` | its instances for TLC |
| `FinancialCore_proofs` | its theorems |
| `SumTheorems` | lemmas about sums over finite sets, for the two modules that add amounts |
| `Procurement` | orders and invoices over the journal's movements |
| `MCProcurement`, `Procurement_proofs` | instances, theorems |
| `EmailOutbox` | abstract: what the e-mail service promises its callers |
| `EmailDelivery` | rows, jobs, workers; refines `EmailOutbox` |
| `EmailDelivery_proofs` | its theorems |
| `AlertDelivery` | evaluations, alerts, notifications, over `EmailOutbox` |
| `MCAlertDelivery`, `AlertDelivery_proofs` | instances, theorems |
| `BudgetVersions` | the versions of one set |
| `BudgetLifecycle` | one budget of that set, its envelopes, lines and snapshots, over `BudgetVersions` |
| `BudgetLifecycle_proofs` | theorems of both |
| `TeamsProvisioning` | runs, requests, jobs, worker, Microsoft Graph, maintenance |
| `TeamsProvisioning_proofs` | its theorems: rows, workers, Graph, jobs |
| `Licences` | subscriptions, memberships, assignments, the expiration scan, the write guard |
| `Licences_proofs` | its theorems |

The two abstract modules are what lets the components be composed without
multiplying their states: `Procurement` posts a movement in one step because
`FinancialCore` implements the journal; `AlertDelivery` EXTENDS `EmailOutbox`, which
`EmailDelivery` implements (theorem `OutboxImplemented`). `BudgetLifecycle` EXTENDS
`BudgetVersions`: a caller is busy with one request, on the versions or on the budget
`Subject`, and the two meet where the code meets, in `Closed` (a budget that is locked,
archived, or whose version is frozen).

### How the code became actions

One action is one statement as PostgreSQL sees it, with the control that follows it.
A request (or slot, worker, evaluation) is a `pc` and the values its reads returned.
Rows it has inserted are invisible to others until it commits; a row it has updated is
locked.

**FinancialCore.** `CreateEvent`, `CreateAllocation`, `CheckReallocation` and
`ReadExisting` are the four entry points up to their first write; `ReadLine`,
`ReadAllocations`, `ReadEvents` are the three reads of `recalculateForBudgetLine` (a
`Promise.all` on one connection, each with its own snapshot; the model takes them in
the order of the array), `WriteRow` its update; `UpdateLine` the PATCH's;
`Commit` and `Rollback` the ends. `pending` is the uncommitted version of the rows
in `held`. A reallocation runs the four recalculation steps twice, source first.
`events` and `allocations` hold what is committed: what a request has inserted is a
function of its input (`OwnEvents`, `OwnAllocations`), and is added by `Commit`.
`LockBudget` is the part of the budget's workflow that lines can see.

**Procurement.** `CreateOrder`/`CreateInvoice` insert, `CancelOrder`/`CancelInvoice`
read; `UpdateStatus` is the cancelling update, which waits for the row;
`PostCommitment`, `PostConsumption` and `PostUnwind` are nested `events.create` calls,
committed at once; `ReadOpenCommitment`, `ReadInvoiced`, `ReadUnwound` are the
aggregates of `unwindPurchaseOrderCommitment` and `restorePurchaseOrderCommitment`;
`Finish` commits the document. `Expire` is Prisma's timeout under a nested post: the
movement stays and the next statement throws. The code reads movements only as sums per
source document, line and type, so the model keeps those sums; `invoiced` is likewise
the sum over VALIDATED invoices of an order.

**EmailDelivery.** `CreateDelivery`, `Enqueue`, `EnqueueFails` are
`queueGenericEmail`; `Take`, `ReadDelivery`, `Claim`, `SendMail`, `MarkSent`,
`MarkFailed` and their failing variants are `processEmailDelivery` in the worker;
`Throws` is every exception the `catch` does not record: a read, claim or update the
database refuses, the HTML of a report that is missing after the claim (line 333). The
queue is external, modelled from its use: attempts, stalls, locks, redelivery. `Age` is
the clock: a RETRYING row grows older than `EMAIL_STALE_RETRYING_MS`. Log-only mode and
the inline mode of development are left out.

**AlertDelivery.** One CRITICAL rule on one entity. `Evaluate` reads the condition;
`FindActive`, `CreateAlert` are `upsertAlert`; `FindNotification` to `EnqueueEmail` are
`fanOutAlertChannels`; `FindStale`, `ResolveStale` are `resolveStaleByRule`; `Abort` is
an exception or a crash, which leaves what was written. An alert id is one occurrence;
CLOSED stands for RESOLVED and DISMISSED, which no code distinguishes. The rows of the
unique indexes are enforced by `Duplicate` and by `notifications` being a set: that one alert
is ACTIVE is given by the index, and no property restates it. `readers` are the users with
`alerts.read`, read at the start of each diffusion; `Appoint` adds one at any time, whom the
comment of `fanOutAlertChannels` promises a notification at the next evaluation. Users who
lose the permission are left out.

**BudgetVersions and BudgetLifecycle.** `Update` to `WriteStatus` are `BudgetsService.update`
without a cascade: the reads and the policy, the counts, the requirement on envelopes, the
update by id. The four counts are four queries of a `Promise.all` outside any transaction,
each with its own snapshot: `Count` runs one of them, in any order, with the steps of others
in between, and `Decide` comes when those that decide (`Decisive`) have run. `counted` is what
has run, `found` what was not zero. `ListChildren`, `ReadChild`, `SetChild`,
`RecheckEnvelopes`, `CommitCascade` are the transaction with one, pass by pass and child by
child; `written` is what it has written and not committed, `Free` the row locks, and two
cascades that lock each other's rows end by `Fail`, as PostgreSQL ends one of them.
`TakeSnapshot` is the milestone snapshot, which a crash may lose; it keeps the line statuses
it shows. `CreateChild`/`InsertChild` and `UpdateChild`/`WriteChild` are the two services of
envelopes and lines, each a read and a write. An update that resends the unchanged status is
modelled, because the code writes it back. `bulkUpdateStatus` is `Update` once per budget,
with no confirmed cascade. `CreateRevision`/`Revise`,
`ActivateVersion`/`FindPreviousActive`/`Activate`, `ArchiveVersion`/`CountVersions`/ `Archive`
are the operations on versions; `VersionsInit` is what `createBaseline` leaves, with some
revisions made. The contents of versions, the amounts of snapshots and snapshots made by users
are left out. `Fail` is offered only where a request has something to lose: a failed read is a
request that was not made.

**TeamsProvisioning.** `StartProvisioning` to `QueueUnavailable`,
`RetryProvisioning` to `Compensate` and `ResolveUnknown` to `RecordFound` are the three
requests, statement by statement; `ReadRun` to `Complete` the attempt, which decides on the
copy of the row it read first (`view`); `HandleError` its error handler; `Acknowledge` the
end of the job in Redis, after the last write in the database: a crash between the two has the
job delivered again for a run that is over. Graph's answer to a POST may lack the operation
(`Location`), the id (`Content-Location`) or both: `RecordCreation` records what there is, and
`Pursued` is what the code does with it, poll, attach on the id alone, or give up as
TEAM_CREATION_OUTCOME_UNKNOWN (as after a `Poll` that yields no id).

`FailStaleInProgress` and `FailStalePending` the maintenance; `IndexAllows` the partial
unique index on active runs. Graph is `posts`, the creations it accepted, and `doomed`,
those whose operation fails in the end. `Take`, `Redeliver`, `Crash`, `EndJob` are BullMQ.
`stale` abstracts the clock, and every write of the row resets it, as `@updatedAt` does.
The conditional updates of the maintenance and of the error handler are merged with
the read before them, which repeats their condition. All codes of
`RETRYABLE_PROVISIONING_ERROR_CODES` are one code; a user who resolves an unknown outcome
says what is true; links made by hand are left out. A worker does not lose its lock while it
runs: its attempt ends after 8 minutes, the lock lasts 9.

**Licences.** `RequestLicence`, `CheckSubscription`, `CheckQuota` and `Assign` are an
assignment: the membership and the DTO's rules, the two reads, the transaction.
`UpdateSubscription`, `SetMemberStatus` and `SetMembership` are the other writers of these
rows. `StartScan`, `ReadSubscription`, `ExpireSubscription`, `ReadLinkedLicences`,
`DowngradeLinked`, `FindEndedLicences`, `ReadLicence`, `DowngradeLicence` and `ScanIsOver`
are `runScan` with its two transactions; the update of a subscription is seen by others
when its transaction commits. A date is what the code can tell of it: none, after this
hour, later in this hour, past; `TimePasses` moves it. A scan is taken to end within its
hour, its candidates are one page, a quota check's two simultaneous reads are one step, and
the members of a subscription are downgraded in one step (an assignment that meets the
loop comes before or after it). A membership that was removed is created anew only when no
request or scan holds its old id, which would then find nothing. `CanWrite` is the guard.
SUSPENDED also stands for CANCELED (subscriptions) and INVITED (members), which this code
treats alike. Audit rows and notifications to administrators are left out.

## Runs

| Run | Question | Answer |
|---|---|---|
| `FinancialCore` | whatever interleaves and rolls back, are stored amounts sourced, exact when not overtaken, balanced, and still after a lock? does the journal hold? | yes (about 500 000 states) |
| `FinancialCoreLiveness` | does every accepted request end, opposite reallocations included? | yes (about 120 000 states) |
| `LostRecalculation` | do stored amounts follow the movements (`docs/modules/budget-mvp.md`)? | **no**: two movements at once, one is missed |
| `Overdraft` | is a transfer above the remaining amount refused (RFC-017)? | **no**: two transfers pass the same check |
| `Procurement` | are unwindings bounded, and undisturbed documents accounted for exactly? | yes (about 1 050 000 states) |
| `OverUnwind` | is an invoice's unwinding capped by what its order has left (`docs/API.md`)? | **no**: two invoices at once |
| `EmailDelivery` | sent once, never dropped, final when SENT, settled, and as the outbox promises? | yes, outside the named exceptions (about 252 000 states) |
| `AlertDelivery` | whichever evaluations cross or die, is everybody notified, and mailed? do alerts settle with the condition? | yes, but for an e-mail whose own enqueue failed (about 680 000 states) |
| `LostEmail` | does a CRITICAL alert have a job for every recipient (RFC-038)? | **no**: an enqueue that failed is never repeated |
| `TeamsProvisioning` | one Team and one job per run, attached when it exists, closed when resolved, settled in the end? | yes, outside the named exceptions (about 513 000 states) |
| `BudgetLifecycle` | whatever crosses: one active version, policies, cascades, requirement, freeze, snapshots? | yes, outside the named exceptions (about 1 730 000 states) |
| `Licences` | what puts a subscription over its limit, which licences may the scan take, and what ends in the end? | only the named causes, only those due, all that should (about 1 040 000 states) |

The exceptions are part of what the runs show: where a hazard is real, the property of that
hazard excepts its wrong case by name, and shows that nothing else breaks it. It would not
notice that case getting worse; the note of the hazard in `PROJECT.json` says which it is.
`SentOnce` and `SentStays` exclude *doubtful* rows: reclaimed as stale, or whose sending was
not recorded (the relay's answer lost, or the update to SENT refused). `NothingDropped` and
`EmailsSettle` exclude *interrupted* rows (crash, lost lock, failed enqueue, unrecorded
exception): a worker that dies after its claim leaves a RETRYING row that the redelivered job
declines, because redelivery comes before the row is stale; the exception of a missing HTML
ends the same way. Even then the job itself ends (`EmailsSettle`). `ExactLinesMatch` speaks of
lines whose last recalculation nobody overtook, `SettledPurchases` of documents that no two
requests shared and on which none failed; `UnwindBounded` holds under any interleaving, and
excludes only documents whose transaction timed out. The violation runs are what happens when
the exclusion is taken away. In `BudgetLifecycle`, `outrun` is an activation or an archiving
whose reads were no longer true when it wrote, `touched` a request under which another gave a
child a status whose count had run, `slipped` one under which an envelope went into DRAFT
after it had checked the envelopes, `early` a request older than the freeze, `overwrote` a row
written over a status its writer had not read. In `TeamsProvisioning`, `overlapped` is a run
two workers had at once, `unseen` one whose job the API failed to see, or that was retried
before its first request had noted its job; `AttachedTeamExists` excepts the run attached on
an id with no operation to watch (`Unwatched`). In `Licences`, `excused` is a subscription
that got over its limit when a suspended member came back, when its limit was lowered or when
an assignment landed whose quota check had become stale (`raced`), and is so until it is
within the limit again; `edited` are the rows others wrote since the scan began.

Deadlock is checked in `Licences` only, whose scan comes back for ever: in the other models
the system may stop, when every request has been served, every e-mail settled or a bound is
reached.

### Bounds, and why they are enough

* *Requests, slots, workers, evaluators*: three requests in `FinancialCore`, two
  elsewhere. The races of this code are between two actors; a third request lets a
  recalculation repair, or fail to repair, what two others did. The theorems remove
  the bound for the properties they prove.
* *Lines*: two, which is what a reallocation involves. *Orders*: one, since an invoice
  has one order. *Invoices*: two, which is what it takes to over-unwind.
* *Amounts*: a commitment of 2 and a cancellation of -1 on an initial amount of 3, so
  that two reallocations of 2 do not both fit and cancellations meet signs; orders of 3
  with invoices of 2 and a credit note of -1, so that two invoices exceed the order.
  `AllocationAmounts` are natural numbers because the DTO says `@Min(0)`. Amounts are
  integers: roundings are not modelled.
* *Movement types*: in `FinancialCore.cfg`, COMMITMENT_REGISTERED (recalculated) and
  ADJUSTMENT (not recalculated), CONSUMED allocations, and the reallocations' own type.
* `MaxFailures` (1), `MaxFaults` (3 for e-mail, 1 for alerts), `MaxAttempts` (2),
  `MaxStalls` (1, BullMQ's default): several faults can meet on one e-mail, both
  attempts can be used up. In `FinancialCore` rollbacks are unbounded.
* *Alerts*: two occurrences and one change of the condition (from either value); an
  alert created, closed and created again. One recipient to begin with, a second one
  appointed at any time: an evaluation may die between the two, or meet the other's rows
  half way. `MaxDeliveries` (2) bounds recipients times occurrences: two recipients of one
  alert, or two alerts to one recipient. When all occurrences have been used (`Spent`), an
  evaluation that would create another ends: `AlertsFollowCondition` names that bound.
* *Versions*: three, one made during the run; one envelope and one line, enough for a
  cascade of four passes where each can be written between; three requests by two users,
  with at most one failure. `BudgetVersions` bounds what users ask by `MaxRequests` only.
* *Teams*: two runs, of which the second meets the index and the blocking rule; one retry
  of a run besides its two attempts; one fault (crash, lost answer, refusal, unreachable
  queue), an answer of Graph that lacks something and failed channels, met before a second run is
started (`FirstRun`); requests do not cross once it is. One
  worker process, whose concurrency is BullMQ's default of 1: two would only have two jobs
  of one run at once, which they have only for a run in `unseen` (proved). The invariants of
  the proofs were also model-checked with two workers and one run.
* *Licences*: licences are assigned with no end or one in the future, though the DTO accepts
  any date: time brings it near and past. One subscription; two members, of whom as many as
  there are seats (one or two) may hold one from the start; one assignment, one other edit and
  one scan that dies. A subscription is never the subject of two transactions of the scan,
  which is sequential. Two assignments that cross need a second request: up to two callers and
  two assignments, without liveness, were also model-checked (3.45 million states up to
  symmetry), and the theorems bound neither.
* `SYMMETRY` is declared in `FinancialCore` and `Procurement` runs only, over ids that
  the models treat alike; neither checks liveness.

### Fairness

* `FinancialCoreLiveness`: a process goes on with the statements of a request it
  accepted, and a transaction blocked on a row is ended by PostgreSQL's deadlock
  detector or Prisma's timeout. Nothing is assumed of clients, nor that a transaction
  that is not blocked ever fails.
* `EmailDelivery`: workers go on and BullMQ's stalled check runs; a caller that has
  created a row goes on to enqueue it or fail to. Neither the clock (`Age`) nor any
  fault is fair.
* `AlertDelivery`: the cron comes back and an evaluation goes on, step by step
  (`WF` on `EvaluationStep`); users, workers and faults are not fair. Faults are bounded,
  so some evaluation runs to its end.
* `TeamsProvisioning`: a request goes on once made, a worker takes jobs and goes on,
  BullMQ's stalled check redelivers, time passes (`GrowStale`) and the maintenance runs
  every five minutes (`upsertJobScheduler`). Nothing is assumed of users, and no fault is
  fair.
* `Licences`: the cron starts a scan every hour and a worker carries it on
  (`WF` on `Scan`). Time need not pass, requests need not go on, and scans die a bounded
  number of times.
* `BudgetLifecycle` has safety properties only and states no fairness.

### Mutants

Every property of every passing run has a mutant: an operator next to the original
(`...Unlocked`, `...Swallowed`, `...Forever`), with a mistake that this code could have
had, under which TLC finds the property violated.

## Theorems

TLAPS checks every step. Assumptions are those declared with the constants
(`AmountsAssumption`, `ProcurementAssumption`, `EmailAssumption`, `VersionsAssumption`,
`LifecycleAssumption`, `AlertAssumption`, `TeamsAssumption`, `LicencesAssumption`): amounts are integers
or naturals, ids do not collide, bounds are naturals, a client has finitely many members.
Nothing bounds the number of requests, lines, documents, rows, members or workers.

**SumTheorems.** The models add amounts with `SumFunctionOnSet` of the community modules, a
recursive function on the subsets of a set. The provers cannot instantiate an induction
theorem, but they can use that strict inclusion is well-founded on the subsets of a finite
set: the claim is made of a *set* of subsets, and the smallest subset outside it is a
contradiction (`SubsetInduction`). So the equation has one solution (`SumsUnique`), and the
lemmas follow that the proofs cite: elements may be added in any order (`SumRemove`,
`SumAdd`), a sum depends on its values only (`SumSame`), is monotone, and changes by what
one of them changes by (`SumChange`).

**FinancialCore_proofs.** `TypeCorrect`, `AmountsSourced`, `ExactLines`, `LockHolds`,
`JournalImplemented`, `ReallocationsBalanced`. The types alone are inductive. The stored
amounts are sourced because what a request is about to write is the aggregate of what it has
*seen*, and what it has seen is made of committed movements and its own: the invariant relates
`seen` and `pending` to the tables for each value of `pc`, and survives the commits of others
because the tables only grow. Exactness adds that, for a request that was not overtaken on a
line, what it saw is *all* that is committed there, besides its own. `LockHolds` is an action
property: `budgetLocked` closes the two entry points, and `Drained` says that nothing that
entered before is left. `JournalImplemented` needs that a request which has not committed has
no movement in the tables; then its commit is a `Post` and every other step a stutter.
`ReallocationsBalanced` needs the converse too (`PostedWhole`): the events of a request are
all those of its input once it has committed, and none before; the two of a reallocation are
on distinct lines and opposite.

**Procurement_proofs.** `ProcurementTypes`, `UnwindNeverExceeds` and `PurchasesSettle`.
For the first two the inductive
invariant is `TypeInv /\ HolderAlone /\ UnwindInv`. `HolderAlone`: at most one slot is past
the `update` of a document, by the row lock. `UnwindInv`: what is committed for an
invoice lies between minus its amount and zero and on its line only, and a slot about to
unwind or restore holds in `got` an amount that keeps it so. Without `HolderAlone`
two restorations could both have read the same unwinding.

`PurchasesSettle` rests on `SettledInv`. As long as a document is not in `disturbed`, one
request at most works on it (`Apart`); what it has posted follows from its status when no
request does (`OrderAtRest`, `InvoiceAtRest`) and from the statement reached when one does
(`TaskAccount`). `invoiced` is the sum of what the invoices of an order bill
(`InvoicedInv`), so that what an unwinding is capped by, read in two statements, is still
what the order has left when it is posted (`Affordable`). That the order's open commitment
never goes below zero (`OpenInv`) then follows, one document's change at a time, by
`SumChange`. TLC checked `SettledInv` on the instance of `MCProcurement` before it was
proved.

**EmailDelivery_proofs.** `EmailTypes`, `SentAtMostOnce`, `SentIsFinal`,
`NeverDropped`, `OutboxImplemented`. The inductive invariant is
`TypeInv /\ SentInv /\ DropInv`. `TypeInv` relates steps, jobs and rows: attempts are left
while a job lives, a worker past its claim sees its row RETRYING, SENT or FAILED.
`SentInv` says that a row that is not doubtful has one sender, whose step tells how often
the message has gone (`OneSender`); the conditional claim preserves it since a row
being sent is RETRYING and not stale. `SentIsFinal` follows: a worker about to mark
FAILED is the only sender of its row, which is therefore not SENT. `DropInv` says that
a row that was not interrupted is worked on by the worker that holds its job's lock,
so that every state of the row has somebody, or some job, to take it further.

**AlertDelivery_proofs.** `AlertTypes`, `MailedAfterNotified`. `InHand`
says what an evaluation holds where it stands in the loop over the recipients: an alert, a
recipient, and from `findEmail` on, that this recipient was notified; `Told`, that a
notification row stands for somebody who was. The second is needed because the loop skips
the creation when it finds a row, which may have been another evaluation's. The e-mails are
those of `EmailOutbox`, so that the theorem holds of `EmailDelivery`'s workers too.

**BudgetLifecycle_proofs.** `SoundVersionSet`, `VersionsArchivedForGood`, from `VersionsInv`:
while nothing was outrun, what an activation has read is still true, since any write that
falsifies it sets `outrun` or is the activation's own. `LifecycleTypes`, `CascadeLeavesNone`,
`PoliciesFollowed`, `ClosedIsKept`, `SnapshotsSettled`, from `WorkflowInv`, which says for
each caller what its request may still rely on (`Followed`): what it decided is in the policy
(`Decided`), how far its cascade has come, pass by pass (`InCascade`), that a count which has
run and found nothing has nothing to find unless `touched` (`Counting`), that it is older than
the freeze (`Unclosed`), that no child is left (`Complete`) and that the requirement held when
checked (`Rechecked`), each unless the history says another wrote in between; and that no row
is written by two transactions at once (`Exclusive`). A lemma per action shows that it keeps
its caller's part; one frame lemma shows that it keeps the others'.

**TeamsProvisioning_proofs.** `TruthfulRows` is the invariant (`TeamsInv`), `TeamsTypes`,
`OnePost`, `AttachedExists` and `ClosedStaysClosed` follow. For a run two workers never had at
once: its row never says less than was asked of Graph (`RowTruthful`: no
`graphCreateRequestedAt`, no POST; an operation on record, one POST; a Team linked is one that
was made, or one attached with no operation to watch), a worker's copy may be out of date only
in ways that do not matter to its step (`WorkerTruthful`), and a run in doubt stays in doubt
until a user resolves it (`DoubtHolds`). It is inductive together with `ConfirmHolds`: what a
user who has found no Team is about to confirm is still so. Types alone do not say why a
second attempt does not POST; `WorkerTruthful` at step "post" does.

`OneJobAtATime`. `JobsInv` adds to `TeamsInv`, for a run with no job
the API failed to see: no job is ahead of the row, and only the one the row names is live
(`Numbered`); until the row names one, the first job is there only while its request is
about to note it (`FirstNoted`, `FirstAdded`); and for each step of a retry, what its read of
`currentJobId` still says (`RetryKnows`). The heart of it is a retry between its two
statements: the run is PENDING under a number whose job does not exist, and no other retry
has that number (`Reserves`), which is what the conditional update and the id named before
the job are for. One lemma (`JobsKept`) serves every step that adds no job. That two workers
have a run only if it is in `unseen` comes with it, so `PostedOnce`, `AttachedTeamExists` and
`ClosedForGood` hold of every run outside `unseen`.

**Licences_proofs.** `TypeCorrect`, `QuotaIsKept`, `DowngradesAreEarned`. For the quota,
`QuotaInv` adds to it that the check of a request about to assign still holds, unless
`raced` names the request: another assignment, a member's return and a lowered limit
falsify it, and set `raced`; everything else only takes seats away. For the scan, `ScanInv`
says for each value of `at` what is still true of the rows it has read and nobody has
edited: the candidates are candidates, the grace of the current one is over, the linked
members hold seats on it, the temporary licence has ended. Dates only come nearer, which
none of it minds.

### Model-checked only

* Liveness (`RequestsEnd`, `EmailsSettle`, `EverybodyNotified`, `OnlyLostUnmailed`,
  `AlertsFollowCondition`, `RunsSettle`, `TemporaryLicencesEnd`, `SeatsReleased`,
  `EndedStopsWriting`): fairness and ENABLED are beyond the prover.

Every other property of a passing run is a theorem.

## Findings

Four runs end in a violation, each of a statement in the repository's own documentation;
`PROJECT.json` quotes them. They are races between two requests, or a failure between two
steps: `LostRecalculation`, `Overdraft`, `OverUnwind`, which would end with a row lock taken
first in the transaction, and `LostEmail`, with a retry of PENDING rows that have no job.

The models also show the following, as the named exceptions of their properties; each is
a step the code takes, with what a document says of it.

* **Two active versions.** RFC-019 (`docs/RFC/RFC-019 — Budget Versioning.md`) says "une
  seule version active par ensemble". Two activations that cross both supersede the
  version they read as active (`budget-versioning.service.ts:403`, before the transaction
  of line 411), and leave two ACTIVE; an archiving that crosses an activation leaves the
  pointer on an archived version. This is `outrun`.
* **Statuses written over.** `BudgetsService.update` decides on a read
  (`budgets.service.ts:481`) and updates by id (731): of two requests, the second may
  bring a LOCKED budget back, and a form that resends the status unchanged does so without
  any transition. This is `overwrote` and `early`.
* **Children that escape.** The comment of `update-budget.dto.ts:68-71` makes the confirmation
  mandatory as long as envelopes or lines remain to be moved. A line created as DRAFT while its
  budget is being submitted is not in the cascade (counts at 560-581, update at 731). A line
  that goes from DRAFT to PENDING after the pending lines were counted and before the drafts
  are is in neither count: no cascade runs, the budget is VALIDATED and its snapshot taken with
  that line PENDING, although nothing was written after the counts. This is `touched`; an
  envelope made after the last check is `slipped`.
* **A transition nobody can take.** The policy allows LOCKED to ARCHIVED
  (`budget-status-transitions.ts:17`), and `update` refuses every change of a LOCKED budget
  first (`budgets.service.ts:490`).
* **A refused creation left in doubt.** A POST that Graph clearly refused (403, 401, 429)
  leaves `graphCreateRequestedAt` set: the retry that RFC-PROJ-INT-010 allows declares
  TEAM_CREATION_OUTCOME_UNKNOWN instead of asking again.
* **A second Team.** `findBlockingRun` does not block on a FAILED run whose POST was
  accepted and whose code is retryable: a new run makes another Team. `PostedOnce` speaks
  of each run, not of the project.
* **Two live jobs.** The late note of `currentJobId` by `startProvisioning` (line 197) may
  overwrite the id a retry has given; a `getState` that fails marks FAILED a run whose
  other retry is under way. This is `unseen`.
* **Attached on the id alone.** The comment at
  `project-microsoft-teams-provisioning.service.ts:768` says to always wait for the end of
  Graph's asynchronous operation before the channels; line 770 polls only if there is an
  operation. Without one, the Team of `Content-Location` is attached though its creation may
  still fail. This is `Unwatched`.
* **A leftover job.** The job of a FAILED run may still run and overwrite the link of a
  later one: `AttachedTeamExists` says that the linked Team exists, not whose it is.
* **Cancelled twice.** The unit tests say a second cancellation changes nothing
  (`purchase-orders.service.spec.ts:167`, `invoices.service.spec.ts:192`). CANCELLED is tested
  on an unlocked read and the update is by id (`purchase-orders.service.ts:280-293`,
  `invoices.service.ts:296-312`): of two concurrent cancellations, the second posts the
  reversal again. These documents are among those `SettledPurchases` leaves
  out; `UnwindBounded` holds of them too.
* **Seats beyond the limit.** RFC-ACL-001 says "dépassement quota refusé." Two assignments
  that both count the seats (`license.service.ts:334`) before either writes take the last one
  twice. This is `raced` and `excused`.
* **Taken before its end.** RFC-ACL-009 says "expiration abonnement (`ACTIVE -> EXPIRED`) si
  `endsAt` dépassé". The scan's clock is the end of its window, which the scheduler sets one
  hour ahead (`license-expiration-scheduler.service.ts:18`). This is `Ended`.
* **Taken under an edit.** RFC-ACL-009 asks to avoid races between manual changes and the job.
  The scan updates by id what it has read (`license-expiration-runner.service.ts:220` and
  `318`): a licence assigned in between is lost. A subscription renewed after it was listed,
  which keeps its old `graceEndsAt`, loses its licences although it is ACTIVE: `isGraceEnded`
  does not look at the status. This is `edited`.
* **A member's return.** `UsersService.update` makes a suspended member ACTIVE again with a
  licence whose seat may have been given away (`users.service.ts:873`). This is `excused`.
* **Seats nobody releases.** A seat assigned while its subscription is being expired escapes
  the downgrade; if there is no `graceEndsAt`, no later scan lists the subscription. The
  guard refuses its writes (`EndedStopsWriting`), the seat stays counted.
* **Two rules for DRAFT.** A DRAFT subscription with a running grace passes
  `LicenseWriteGuard` and not `validateWriteAccess` (`license.service.ts:363`).

## Plan

1. **AlertDelivery**: what should be said of e-mails that failed for good, and of
   notifications cleared under an alert still ACTIVE; the model does both.
2. **Project requests**: conversion and its nested creation, after `Procurement`; scenarios
   and timesheets.
3. Pure operators: the tax calculator's rounding, the amounts of a PATCH.

### Not modelled

Most of the repository is the web application, controllers, DTOs, read-only views and
edits of one row, which have no behaviour a model checker could say something about; the
models follow the code that keeps money, workflow, messages and external effects
consistent.
