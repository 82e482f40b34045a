---------------------------- MODULE EmailDelivery -----------------------------
(***************************************************************************)
(* E-mails sent in the background: a row per e-mail, a BullMQ job per row, *)
(* and workers that claim the row, talk to the SMTP relay and record the   *)
(* outcome.                                                                *)
(*                                                                         *)
(* The mode is that of production (queue and worker process); a job is     *)
(* redelivered when its worker dies or stops renewing its lock, and a row  *)
(* left RETRYING may be claimed again once it is EMAIL_STALE_RETRYING_MS   *)
(* old.                                                                    *)
(***************************************************************************)
EXTENDS Integers, FiniteSets

CONSTANTS
    Deliveries,     \* EmailDelivery ids
    Workers,        \* worker processes (one job at a time each)
    Nobody,         \* no worker
    NoDelivery,     \* no row
    MaxAttempts,    \* EMAIL_QUEUE_RETRY_ATTEMPTS
    MaxStalls,      \* BullMQ's maxStalledCount
    MaxFaults       \* crashes, refusals and lost answers of a run (bound)

ASSUME EmailAssumption ==
    /\ Nobody \notin Workers
    /\ NoDelivery \notin Deliveries
    /\ MaxAttempts \in Nat \ {0}
    /\ MaxStalls \in Nat
    /\ MaxFaults \in Nat

VARIABLES
    emails,         \* EmailDelivery.status
    aged,           \* RETRYING rows not updated for EMAIL_STALE_RETRYING_MS
    queueing,       \* rows just created, not enqueued yet
    job,            \* the BullMQ job of each row
    step,           \* the statement each worker is about to run
    on,             \* the row it works on
    sent,           \* history: how many times the relay took the message
    doubtful,       \* history: rows sent again, or whose sending went unrecorded
    interrupted,    \* history: rows whose processing was cut short
    faults          \* faults so far

emailVars == <<emails, aged, queueing, job, step, on, sent, doubtful,
               interrupted, faults>>

Statuses == {"absent", "PENDING", "RETRYING", "SENT", "FAILED"}
Steps == {"idle", "read", "claim", "send", "markSent", "markFailed"}
JobStates == {"none", "waiting", "active", "completed", "failed"}

NewJob == [state |-> "none", failed |-> 0, stalls |-> 0, worker |-> Nobody]

Init ==
    /\ emails = [d \in Deliveries |-> "absent"]
    /\ aged = {}
    /\ queueing = {}
    /\ job = [d \in Deliveries |-> NewJob]
    /\ step = [w \in Workers |-> "idle"]
    /\ on = [w \in Workers |-> NoDelivery]
    /\ sent = [d \in Deliveries |-> 0]
    /\ doubtful = {}
    /\ interrupted = {}
    /\ faults = 0

-------------------------------------------------------------------------------
(***************************************************************************)
(* The API side: EmailService.queueGenericEmail                            *)
(***************************************************************************)

\* The row is created PENDING; the unique index refuses a second one.
CreateDelivery(d) ==
    /\ emails[d] = "absent"
    /\ emails' = [emails EXCEPT ![d] = "PENDING"]
    /\ queueing' = queueing \cup {d}
    /\ UNCHANGED <<aged, job, step, on, sent, doubtful, interrupted, faults>>

\* QueueService.enqueueSendEmail.
Enqueue(d) ==
    /\ d \in queueing
    /\ queueing' = queueing \ {d}
    /\ job' = [job EXCEPT ![d].state = "waiting"]
    /\ UNCHANGED <<emails, aged, step, on, sent, doubtful, interrupted, faults>>

Fault == faults < MaxFaults /\ faults' = faults + 1

\* Redis refuses the job, or the API dies: the row keeps its status.
EnqueueFails(d) ==
    /\ d \in queueing
    /\ Fault
    /\ queueing' = queueing \ {d}
    /\ interrupted' = interrupted \cup {d}
    /\ UNCHANGED <<emails, aged, job, step, on, sent, doubtful>>

-------------------------------------------------------------------------------
(***************************************************************************)
(* The job queue                                                           *)
(***************************************************************************)

HoldsLock(w) == job[on[w]].state = "active" /\ job[on[w]].worker = w

\* A job whose lock was lost: once more, until it has stalled too often.
Redelivered(j) ==
    IF j.stalls < MaxStalls
    THEN [j EXCEPT !.state = "waiting", !.stalls = @ + 1, !.worker = Nobody]
    ELSE [j EXCEPT !.state = "failed", !.worker = Nobody]

RetriedForever(j) ==
    [j EXCEPT !.state = "waiting", !.failed = @ + 1, !.worker = Nobody]

RetriedSwallowed(j) ==
    [j EXCEPT !.state = "completed", !.worker = Nobody]

\* A processor that threw: retried after the backoff while attempts remain.
Retried(j) ==
    [j EXCEPT !.state = IF j.failed + 1 < MaxAttempts THEN "waiting" ELSE "failed",
              !.failed = @ + 1, !.worker = Nobody]

\* The worker is done; a worker that lost the lock cannot move the job.
EndJob(w, outcome) ==
    /\ job' = IF HoldsLock(w) THEN [job EXCEPT ![on[w]] = outcome] ELSE job
    /\ step' = [step EXCEPT ![w] = "idle"]
    /\ on' = [on EXCEPT ![w] = NoDelivery]

Completed(j) == [j EXCEPT !.state = "completed", !.worker = Nobody]

Go(w, next) == step' = [step EXCEPT ![w] = next]

Take(w) ==
    \E d \in Deliveries :
        /\ step[w] = "idle"
        /\ job[d].state = "waiting"
        /\ job' = [job EXCEPT ![d].state = "active", ![d].worker = w]
        /\ on' = [on EXCEPT ![w] = d]
        /\ Go(w, "read")
        /\ UNCHANGED <<emails, aged, queueing, sent, doubtful, interrupted, faults>>

\* The stalled check finds an active job whose worker died.
Redeliver(d) ==
    /\ job[d].state = "active"
    /\ on[job[d].worker] # d
    /\ job' = [job EXCEPT ![d] = Redelivered(@)]
    /\ UNCHANGED <<emails, aged, queueing, step, on, sent, doubtful, interrupted, faults>>

\* A worker too busy to renew its lock goes on, and its job is redelivered.
LoseLock(w) ==
    /\ step[w] # "idle"
    /\ HoldsLock(w)
    /\ Fault
    /\ job' = [job EXCEPT ![on[w]] = Redelivered(@)]
    /\ interrupted' = interrupted \cup {on[w]}
    /\ UNCHANGED <<emails, aged, queueing, step, on, sent, doubtful>>

Crash(w) ==
    /\ step[w] # "idle"
    /\ Fault
    /\ step' = [step EXCEPT ![w] = "idle"]
    /\ on' = [on EXCEPT ![w] = NoDelivery]
    /\ interrupted' = interrupted \cup {on[w]}
    /\ UNCHANGED <<emails, aged, queueing, job, sent, doubtful>>

-------------------------------------------------------------------------------
(***************************************************************************)
(* The worker side: EmailService.processEmailDelivery                      *)
(***************************************************************************)

\* A row already SENT is left alone.
ReadDelivery(w) ==
    /\ step[w] = "read"
    /\ IF emails[on[w]] = "SENT"
       THEN EndJob(w, Completed(job[on[w]]))
       ELSE Go(w, "claim") /\ UNCHANGED <<job, on>>
    /\ UNCHANGED <<emails, aged, queueing, sent, doubtful, interrupted, faults>>

ClaimableUnlessSent(d) == emails[d] # "SENT"

ClaimableOnlyPending(d) ==
    \/ emails[d] = "PENDING"
    \/ emails[d] = "RETRYING" /\ d \in aged

ClaimableSent(d) ==
    \/ emails[d] \in {"PENDING", "FAILED", "SENT"}
    \/ emails[d] = "RETRYING" /\ d \in aged

Claimable(d) ==
    \/ emails[d] \in {"PENDING", "FAILED"}
    \/ emails[d] = "RETRYING" /\ d \in aged

\* The conditional update; a row somebody else claimed ends the job.
Claim(w) ==
    LET d == on[w] IN
    /\ step[w] = "claim"
    /\ IF Claimable(d)
       THEN /\ emails' = [emails EXCEPT ![d] = "RETRYING"]
            /\ doubtful' = IF d \in aged THEN doubtful \cup {d} ELSE doubtful
            /\ aged' = aged \ {d}
            /\ Go(w, "send")
            /\ UNCHANGED <<job, on>>
       ELSE /\ EndJob(w, Completed(job[d]))
            /\ UNCHANGED <<emails, doubtful, aged>>
    /\ UNCHANGED <<queueing, sent, interrupted, faults>>

\* EMAIL_STALE_RETRYING_MS go by without an update of the row.
Age(d) ==
    /\ emails[d] = "RETRYING"
    /\ d \notin aged
    /\ aged' = aged \cup {d}
    /\ UNCHANGED <<emails, queueing, job, step, on, sent, doubtful, interrupted, faults>>

SendMail(w) ==
    /\ step[w] = "send"
    /\ sent' = [sent EXCEPT ![on[w]] = @ + 1]
    /\ Go(w, "markSent")
    /\ UNCHANGED <<emails, aged, queueing, job, on, doubtful, interrupted, faults>>

SendMailFailsSwallowed(w) ==
    /\ step[w] = "send"
    /\ Fault
    /\ Go(w, "markSent")
    /\ UNCHANGED <<emails, aged, queueing, job, on, sent, doubtful, interrupted>>

\* sendMail throws: the relay refused, or took the message and did not say so.
SendMailFails(w) ==
    /\ step[w] = "send"
    /\ Fault
    /\ \/ UNCHANGED <<sent, doubtful>>
       \/ /\ sent' = [sent EXCEPT ![on[w]] = @ + 1]
          /\ doubtful' = doubtful \cup {on[w]}
    /\ Go(w, "markFailed")
    /\ UNCHANGED <<emails, aged, queueing, job, on, interrupted>>

MarkSent(w) ==
    /\ step[w] = "markSent"
    /\ emails' = [emails EXCEPT ![on[w]] = "SENT"]
    /\ aged' = aged \ {on[w]}
    /\ EndJob(w, Completed(job[on[w]]))
    /\ UNCHANGED <<queueing, sent, doubtful, interrupted, faults>>

\* The update of the row fails after the message has gone.
MarkSentFails(w) ==
    /\ step[w] = "markSent"
    /\ Fault
    /\ doubtful' = doubtful \cup {on[w]}
    /\ Go(w, "markFailed")
    /\ UNCHANGED <<emails, aged, queueing, job, on, sent, interrupted>>

MarkFailedPending(w) ==
    /\ step[w] = "markFailed"
    /\ emails' = [emails EXCEPT ![on[w]] = "PENDING"]
    /\ aged' = aged \ {on[w]}
    /\ EndJob(w, Retried(job[on[w]]))
    /\ UNCHANGED <<queueing, sent, doubtful, interrupted, faults>>

MarkFailed(w) ==
    /\ step[w] = "markFailed"
    /\ emails' = [emails EXCEPT ![on[w]] = "FAILED"]
    /\ aged' = aged \ {on[w]}
    /\ EndJob(w, Retried(job[on[w]]))
    /\ UNCHANGED <<queueing, sent, doubtful, interrupted, faults>>

\* An exception outside the try block, or in its handler: the row cannot be
\* read, claimed or marked FAILED, or the HTML of a report is missing once the
\* row is claimed.  The row keeps its status, and the job is retried.
Throws(w) ==
    /\ step[w] \in {"read", "claim", "send", "markFailed"}
    /\ Fault
    /\ interrupted' = interrupted \cup {on[w]}
    /\ EndJob(w, Retried(job[on[w]]))
    /\ UNCHANGED <<emails, aged, queueing, sent, doubtful>>

-------------------------------------------------------------------------------
Caller(d) == CreateDelivery(d) \/ Enqueue(d) \/ EnqueueFails(d)

Process(w) ==
    \/ Take(w) \/ ReadDelivery(w) \/ Claim(w)
    \/ SendMail(w) \/ SendMailFails(w)
    \/ MarkSent(w) \/ MarkSentFails(w)
    \/ MarkFailed(w) \/ Throws(w)

Disturb(w) == LoseLock(w) \/ Crash(w)

\* Workers, queue and clock: what runs whoever creates the rows.
Background ==
    \/ \E w \in Workers : Process(w) \/ Disturb(w)
    \/ \E d \in Deliveries : Redeliver(d) \/ Age(d)

Next == Background \/ \E d \in Deliveries : Caller(d)

Spec == Init /\ [][Next]_emailVars

\* Workers go on, lost jobs are redelivered, and a caller that has created a
\* row goes on to its job.
FairSpec ==
    /\ Spec
    /\ \A w \in Workers : WF_emailVars(Process(w))
    /\ \A d \in Deliveries :
        WF_emailVars(Redeliver(d)) /\ WF_emailVars(Enqueue(d) \/ EnqueueFails(d))

-------------------------------------------------------------------------------
(***************************************************************************)
(* Properties                                                              *)
(***************************************************************************)

EmailTypeOK ==
    /\ emails \in [Deliveries -> Statuses]
    /\ aged \subseteq Deliveries
    /\ queueing \subseteq Deliveries
    /\ job \in [Deliveries -> [state : JobStates, failed : 0 .. MaxAttempts,
                               stalls : 0 .. MaxStalls, worker : Workers \cup {Nobody}]]
    /\ step \in [Workers -> Steps]
    /\ on \in [Workers -> Deliveries \cup {NoDelivery}]
    /\ sent \in [Deliveries -> Nat]
    /\ doubtful \subseteq Deliveries
    /\ interrupted \subseteq Deliveries
    /\ faults \in 0 .. MaxFaults

SentWasTransmitted == \A d \in Deliveries : emails[d] = "SENT" => sent[d] > 0

\* A row says SENT only if the relay took the message, and a message leaves at
\* most once, whatever crashes and redeliveries, unless its row was claimed
\* again as stale or its sending went unrecorded: what the conditional claim
\* of processEmailDelivery is for.
SentOnce ==
    /\ SentWasTransmitted
    /\ \A d \in Deliveries \ doubtful : sent[d] <= 1

\* A message whose processing was never cut short is not lost: its job ends
\* with the row SENT, or FAILED after the last attempt; while the row waits or
\* is being sent, somebody is about to take it further.
NothingDropped ==
    \A d \in Deliveries \ interrupted :
        /\ job[d].state = "completed" => emails[d] = "SENT"
        /\ job[d].state = "failed" => emails[d] = "FAILED" /\ job[d].failed = MaxAttempts
        /\ emails[d] = "PENDING" => d \in queueing \/ job[d].state \in {"waiting", "active"}
        /\ emails[d] = "RETRYING" =>
             \E w \in Workers : on[w] = d /\ step[w] \in {"send", "markSent", "markFailed"}

\* A row that is SENT stays SENT: no late worker marks it FAILED, unless the
\* row is one SentOnce excludes.
SentStays ==
    [][\A d \in Deliveries \ doubtful' : emails[d] = "SENT" => emails'[d] = "SENT"]_emailVars

\* The service its callers rely on (EmailOutbox): queue, claims, redeliveries
\* and crashes only ever show them a row's status going forward.
Outbox == INSTANCE EmailOutbox WITH asked <- {d \in Deliveries : job[d].state # "none"}

ImplementsOutbox == Outbox!OutboxSpec

\* Every job ends, whatever cuts it short; one that nothing cut short ends
\* with its row SENT, or FAILED for good.
EmailsSettle ==
    \A d \in Deliveries :
        job[d].state # "none" ~>
            /\ job[d].state \in {"completed", "failed"}
            /\ d \notin interrupted =>
                  emails[d] = IF job[d].state = "failed" THEN "FAILED" ELSE "SENT"
===============================================================================
