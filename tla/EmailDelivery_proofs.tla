------------------------- MODULE EmailDelivery_proofs -------------------------
(***************************************************************************)
(* Theorems about EmailDelivery, for any number of rows and workers.       *)
(***************************************************************************)
EXTENDS EmailDelivery, TLAPS

-------------------------------------------------------------------------------
(***************************************************************************)
(* The inductive invariant                                                 *)
(***************************************************************************)

\* A worker between its claim of the row and the end of its job.
Sending(w) == step[w] \in {"send", "markSent", "markFailed"}

\* What a worker's step says of its row and job.
WorkerControl ==
    \A w \in Workers :
        /\ step[w] = "idle" <=> on[w] \notin Deliveries
        /\ step[w] # "idle" => job[on[w]].state # "none"
        /\ Sending(w) => emails[on[w]] \in {"RETRYING", "SENT", "FAILED"}
        /\ step[w] = "markSent" => sent[on[w]] > 0

\* What the state of a job says of its row.
JobControl ==
    \A d \in Deliveries :
        /\ job[d].state \in {"none", "waiting", "active"} => job[d].failed < MaxAttempts
        /\ job[d].state = "active" => job[d].worker \in Workers
        /\ d \in queueing => job[d].state = "none" /\ emails[d] = "PENDING"
        /\ job[d].state # "none" => emails[d] # "absent"
        /\ d \in aged => emails[d] = "RETRYING"

TypeInv == EmailTypeOK /\ WorkerControl /\ JobControl

\* A row that is not doubtful has one sender, and has gone at most once.
OneSender ==
    \A d \in Deliveries \ doubtful :
        /\ \A v, w \in Workers : Sending(v) /\ Sending(w) /\ on[v] = d /\ on[w] = d => v = w
        /\ \A w \in Workers : Sending(w) /\ on[w] = d =>
              /\ emails[d] = "RETRYING"
              /\ step[w] \in {"send", "markFailed"} => sent[d] = 0
              /\ step[w] = "markSent" => sent[d] = 1
        /\ emails[d] \in {"absent", "PENDING", "FAILED"} => sent[d] = 0
        /\ sent[d] <= 1

\* A row that was not interrupted is worked on by the holder of its lock.
UnderLock ==
    \A d \in Deliveries \ interrupted :
        /\ \A w \in Workers : step[w] # "idle" /\ on[w] = d =>
              job[d].state = "active" /\ job[d].worker = w
        /\ job[d].state = "active" => on[job[d].worker] = d
        /\ \A w \in Workers : Sending(w) /\ on[w] = d => emails[d] = "RETRYING"

SentInv == SentWasTransmitted /\ OneSender
DropInv == UnderLock /\ NothingDropped
IInv == TypeInv /\ SentInv /\ DropInv

-------------------------------------------------------------------------------
(***************************************************************************)
(* Jobs                                                                    *)
(***************************************************************************)
Job == [state : JobStates, failed : 0 .. MaxAttempts,
        stalls : 0 .. MaxStalls, worker : Workers \cup {Nobody}]

\* What the queue makes of a job, field by field.
LEMMA JobOutcomes ==
    ASSUME NEW j \in Job
    PROVE  /\ Completed(j) \in Job /\ Completed(j).state = "completed"
           /\ Completed(j).failed = j.failed
           /\ j.failed < MaxAttempts =>
                /\ Retried(j) \in Job /\ Retried(j).failed = j.failed + 1
                /\ \/ Retried(j).state = "waiting" /\ j.failed + 1 < MaxAttempts
                   \/ Retried(j).state = "failed" /\ j.failed + 1 = MaxAttempts
           /\ Redelivered(j) \in Job /\ Redelivered(j).failed = j.failed
           /\ Redelivered(j).state \in {"waiting", "failed"}
<1> USE EmailAssumption
<1>1. /\ j.state \in JobStates /\ j.failed \in 0 .. MaxAttempts
      /\ j.stalls \in 0 .. MaxStalls /\ j.worker \in Workers \cup {Nobody}
      /\ j = [state |-> j.state, failed |-> j.failed, stalls |-> j.stalls, worker |-> j.worker]
  BY DEF Job
<1>2. Completed(j) \in Job /\ Completed(j).state = "completed" /\ Completed(j).failed = j.failed
  <2> DEFINE k == Completed(j)
  <2>1. k = [j EXCEPT !.state = "completed", !.worker = Nobody]
    BY DEF Completed
  <2>2. /\ k = [state |-> k.state, failed |-> k.failed, stalls |-> k.stalls, worker |-> k.worker]
        /\ k.state = "completed" /\ k.failed = j.failed /\ k.stalls = j.stalls /\ k.worker = Nobody
    BY <1>1, <2>1
  <2> QED
    BY <1>1, <2>2 DEF Job, JobStates
<1>3. ASSUME j.failed < MaxAttempts
      PROVE  /\ Retried(j) \in Job /\ Retried(j).failed = j.failed + 1
             /\ Retried(j).state = IF j.failed + 1 < MaxAttempts THEN "waiting" ELSE "failed"
  <2> DEFINE k == Retried(j)
  <2>1. k = [j EXCEPT !.state = IF j.failed + 1 < MaxAttempts THEN "waiting" ELSE "failed",
                      !.failed = @ + 1, !.worker = Nobody]
    BY DEF Retried
  <2>2. /\ k = [state |-> k.state, failed |-> k.failed, stalls |-> k.stalls, worker |-> k.worker]
        /\ k.state = IF j.failed + 1 < MaxAttempts THEN "waiting" ELSE "failed"
        /\ k.failed = j.failed + 1 /\ k.stalls = j.stalls /\ k.worker = Nobody
    BY <1>1, <2>1
  <2>3. k.failed \in 0 .. MaxAttempts /\ k.state \in JobStates
    BY <1>1, <1>3, <2>2 DEF JobStates
  <2> QED
    BY <1>1, <2>2, <2>3 DEF Job
<1>4. CASE j.stalls < MaxStalls
  <2>1. Redelivered(j) = [state |-> "waiting", failed |-> j.failed,
                          stalls |-> j.stalls + 1, worker |-> Nobody]
    BY <1>1, <1>4 DEF Redelivered
  <2> QED
    BY <1>1, <1>2, <1>3, <1>4, <2>1 DEF Job, JobStates
<1>5. CASE ~(j.stalls < MaxStalls)
  <2>1. Redelivered(j) = [state |-> "failed", failed |-> j.failed,
                          stalls |-> j.stalls, worker |-> Nobody]
    BY <1>1, <1>5 DEF Redelivered
  <2> QED
    BY <1>1, <1>2, <1>3, <2>1 DEF Job, JobStates
<1> QED
  BY <1>4, <1>5

\* The end of a worker's turn: only its own job moves, if it holds the lock.
LEMMA EndJobEffect ==
    ASSUME TypeInv, NEW w \in Workers, step[w] # "idle",
           NEW outcome \in Job, EndJob(w, outcome)
    PROVE  /\ on[w] \in Deliveries
           /\ job' \in [Deliveries -> Job]
           /\ job'[on[w]] = IF HoldsLock(w) THEN outcome ELSE job[on[w]]
           /\ \A d \in Deliveries \ {on[w]} : job'[d] = job[d]
           /\ step' \in [Workers -> Steps] /\ on' \in [Workers -> Deliveries \cup {NoDelivery}]
           /\ step'[w] = "idle" /\ on'[w] = NoDelivery
           /\ \A v \in Workers \ {w} : step'[v] = step[v] /\ on'[v] = on[v]
<1>1. on[w] \in Deliveries
  BY DEF TypeInv, WorkerControl
<1>2. job \in [Deliveries -> Job]
  BY DEF TypeInv, EmailTypeOK, Job
<1>3. CASE HoldsLock(w)
  BY <1>1, <1>2, <1>3 DEF EndJob, TypeInv, EmailTypeOK, Steps
<1>4. CASE ~HoldsLock(w)
  BY <1>1, <1>2, <1>4 DEF EndJob, TypeInv, EmailTypeOK, Steps
<1> QED
  BY <1>3, <1>4

-------------------------------------------------------------------------------
(***************************************************************************)
(* Types and control                                                       *)
(***************************************************************************)
LEMMA TypeInit == Init => TypeInv
  BY EmailAssumption DEF Init, TypeInv, EmailTypeOK, WorkerControl, JobControl, Sending,
     Statuses, Steps, JobStates, NewJob

\* Without the lock, the outcome a worker has for its job does not matter.
LEMMA TurnEnds ==
    ASSUME TypeInv, NEW w \in Workers, step[w] # "idle",
           EndJob(w, Completed(job[on[w]])) \/ EndJob(w, Retried(job[on[w]]))
    PROVE  \E outcome \in Job :
              /\ EndJob(w, outcome)
              /\ \/ outcome.state = "completed"
                 \/ outcome.state = "waiting" /\ outcome.failed < MaxAttempts
                 \/ outcome.state = "failed" /\ outcome.failed = MaxAttempts
<1> DEFINE j == job[on[w]]
<1>1. j \in Job
  BY DEF TypeInv, EmailTypeOK, WorkerControl, Job
<1>2. /\ Completed(j) \in Job /\ Completed(j).state = "completed"
      /\ j.failed < MaxAttempts =>
           /\ Retried(j) \in Job /\ Retried(j).failed = j.failed + 1
           /\ \/ Retried(j).state = "waiting" /\ j.failed + 1 < MaxAttempts
              \/ Retried(j).state = "failed" /\ j.failed + 1 = MaxAttempts
  BY <1>1, JobOutcomes
<1>3. CASE EndJob(w, Completed(j))
  BY <1>2, <1>3
<1>4. CASE EndJob(w, Retried(j)) /\ HoldsLock(w)
  <2>1. j.failed < MaxAttempts
    BY <1>4 DEF TypeInv, WorkerControl, JobControl, HoldsLock
  <2> QED
    BY <1>2, <1>4, <2>1
<1>5. CASE EndJob(w, Retried(j)) /\ ~HoldsLock(w)
  <2>1. EndJob(w, Completed(j))
    BY <1>5 DEF EndJob
  <2> QED
    BY <1>2, <2>1
<1> QED
  BY <1>3, <1>4, <1>5

\* The end of a turn, whether or not the row got an outcome.
LEMMA TypeEndJob ==
    ASSUME TypeInv, NEW w \in Workers, step[w] # "idle", NEW outcome \in Job,
           outcome.state # "none", outcome.state # "active",
           outcome.state = "waiting" => outcome.failed < MaxAttempts,
           EndJob(w, outcome),
           UNCHANGED <<queueing, sent>>,
           doubtful' \subseteq Deliveries, interrupted' \subseteq Deliveries,
           faults' \in 0 .. MaxFaults, aged' \subseteq aged \cap Deliveries,
           \/ UNCHANGED emails
           \/ /\ emails' = [emails EXCEPT ![on[w]] = "SENT"] \/ emails' = [emails EXCEPT ![on[w]] = "FAILED"]
              /\ on[w] \notin aged'
    PROVE  TypeInv'
<1> USE EmailAssumption
<1>1. /\ on[w] \in Deliveries
      /\ job' \in [Deliveries -> Job]
      /\ job'[on[w]] = IF HoldsLock(w) THEN outcome ELSE job[on[w]]
      /\ \A d \in Deliveries \ {on[w]} : job'[d] = job[d]
      /\ step' \in [Workers -> Steps] /\ on' \in [Workers -> Deliveries \cup {NoDelivery}]
      /\ step'[w] = "idle" /\ on'[w] = NoDelivery
      /\ \A v \in Workers \ {w} : step'[v] = step[v] /\ on'[v] = on[v]
  BY EndJobEffect
<1>2. job[on[w]].state # "none" /\ emails[on[w]] # "absent"
  BY <1>1 DEF TypeInv, WorkerControl, JobControl
<1>3. /\ emails' \in [Deliveries -> Statuses]
      /\ \A d \in Deliveries \ {on[w]} : emails'[d] = emails[d]
      /\ emails'[on[w]] \in {emails[on[w]], "SENT", "FAILED"}
  BY <1>1 DEF TypeInv, EmailTypeOK, Statuses
<1>4. EmailTypeOK'
  BY <1>1, <1>3 DEF TypeInv, EmailTypeOK, Job
<1>5. \A d \in Deliveries : job'[d].state # "none" <=> job[d].state # "none"
  BY <1>1, <1>2
<1>6. WorkerControl'
  <2> SUFFICES ASSUME NEW v \in Workers
               PROVE  /\ step'[v] = "idle" <=> on'[v] \notin Deliveries
                      /\ step'[v] # "idle" => job'[on'[v]].state # "none"
                      /\ Sending(v)' => emails'[on'[v]] \in {"RETRYING", "SENT", "FAILED"}
                      /\ step'[v] = "markSent" => sent'[on'[v]] > 0
    BY DEF WorkerControl
  <2>1. CASE v = w
    BY <1>1, <2>1 DEF Sending
  <2>2. CASE v # w
    <3>1. step'[v] = step[v] /\ on'[v] = on[v]
      BY <1>1, <2>2
    <3>2. step[v] # "idle" => on[v] \in Deliveries
      BY DEF TypeInv, WorkerControl
    <3> QED
      BY <1>3, <1>5, <3>1, <3>2 DEF TypeInv, WorkerControl, Sending
  <2> QED
    BY <2>1, <2>2
<1>7. JobControl'
  <2> SUFFICES ASSUME NEW d \in Deliveries
               PROVE  /\ job'[d].state \in {"none", "waiting", "active"} => job'[d].failed < MaxAttempts
                      /\ job'[d].state = "active" => job'[d].worker \in Workers
                      /\ d \in queueing' => job'[d].state = "none" /\ emails'[d] = "PENDING"
                      /\ job'[d].state # "none" => emails'[d] # "absent"
                      /\ d \in aged' => emails'[d] = "RETRYING"
    BY DEF JobControl
  <2>1. CASE d = on[w]
    BY <1>1, <1>2, <1>3, <2>1 DEF TypeInv, JobControl
  <2>2. CASE d # on[w]
    BY <1>1, <1>3, <2>2 DEF TypeInv, JobControl
  <2> QED
    BY <2>1, <2>2
<1> QED
  BY <1>4, <1>6, <1>7 DEF TypeInv

LEMMA TypeStep == TypeInv /\ [Next]_emailVars => TypeInv'
<1> SUFFICES ASSUME TypeInv, [Next]_emailVars PROVE TypeInv'
  OBVIOUS
<1> USE EmailAssumption
<1> USE DEF Statuses, Steps, JobStates
<1>1. ASSUME NEW d \in Deliveries, CreateDelivery(d) PROVE TypeInv'
  BY <1>1 DEF CreateDelivery, TypeInv, EmailTypeOK, WorkerControl, JobControl, Sending
<1>2. ASSUME NEW d \in Deliveries, Enqueue(d) PROVE TypeInv'
  BY <1>2 DEF Enqueue, TypeInv, EmailTypeOK, WorkerControl, JobControl, Sending
<1>3. ASSUME NEW d \in Deliveries, EnqueueFails(d) PROVE TypeInv'
  BY <1>3 DEF EnqueueFails, Fault, TypeInv, EmailTypeOK, WorkerControl, JobControl, Sending
<1>4. ASSUME NEW d \in Deliveries, Age(d) PROVE TypeInv'
  BY <1>4 DEF Age, TypeInv, EmailTypeOK, WorkerControl, JobControl, Sending
<1>5. ASSUME NEW d \in Deliveries, Redeliver(d) PROVE TypeInv'
  <2>1. /\ Redelivered(job[d]) \in Job /\ Redelivered(job[d]).failed = job[d].failed
        /\ Redelivered(job[d]).state \in {"waiting", "failed"} /\ job[d].failed < MaxAttempts
    BY <1>5, JobOutcomes DEF Redeliver, TypeInv, EmailTypeOK, JobControl, Job
  <2>2. job' = [job EXCEPT ![d] = Redelivered(job[d])]
    BY <1>5 DEF Redeliver
  <2> QED
    BY <1>5, <2>1, <2>2 DEF Redeliver, TypeInv, EmailTypeOK, WorkerControl, JobControl, Sending, Job
<1>6. ASSUME NEW w \in Workers, Take(w) PROVE TypeInv'
  <2>1. PICK d \in Deliveries :
          /\ step[w] = "idle"
          /\ job[d].state = "waiting"
          /\ job' = [job EXCEPT ![d].state = "active", ![d].worker = w]
          /\ on' = [on EXCEPT ![w] = d]
          /\ Go(w, "read")
    BY <1>6 DEF Take
  <2>2. UNCHANGED <<emails, aged, queueing, sent, doubtful, interrupted, faults>>
    BY <1>6 DEF Take
  <2> DEFINE j == job'[d]
  <2>3. /\ j \in Job /\ j.state = "active" /\ j.worker = w /\ j.failed = job[d].failed
        /\ \A c \in Deliveries \ {d} : job'[c] = job[c]
    <3>1. job[d] \in Job /\ job \in [Deliveries -> Job]
      BY DEF TypeInv, EmailTypeOK, Job
    <3>2. j = [job[d] EXCEPT !.state = "active", !.worker = w]
      BY <2>1, <3>1 DEF Job
    <3>3. \A c \in Deliveries \ {d} : job'[c] = job[c]
      BY <2>1, <3>1
    <3> QED
      BY <3>1, <3>2, <3>3 DEF Job
  <2>4. job' \in [Deliveries -> Job]
    BY <2>1, <2>3 DEF TypeInv, EmailTypeOK, Job
  <2> HIDE DEF j
  <2>5. /\ step' = [step EXCEPT ![w] = "read"]
        /\ job'[d].state = "active" /\ job'[d].worker = w /\ job'[d].failed = job[d].failed
    BY <2>1, <2>3 DEF Go, j
  <2>6. EmailTypeOK'
    BY <2>1, <2>2, <2>4, <2>5 DEF TypeInv, EmailTypeOK, Job
  <2>7. WorkerControl'
    BY <2>1, <2>2, <2>3, <2>5 DEF TypeInv, EmailTypeOK, WorkerControl, JobControl, Sending
  <2>8. JobControl'
    BY <2>1, <2>2, <2>3, <2>5 DEF TypeInv, EmailTypeOK, JobControl
  <2> QED
    BY <2>6, <2>7, <2>8 DEF TypeInv
<1>7. ASSUME NEW w \in Workers, step[w] # "idle"
      PROVE  /\ on[w] \in Deliveries /\ job[on[w]] \in Job
  BY <1>7 DEF TypeInv, EmailTypeOK, WorkerControl, Job
<1>8. ASSUME NEW w \in Workers, LoseLock(w) PROVE TypeInv'
  <2>1. /\ Redelivered(job[on[w]]) \in Job /\ Redelivered(job[on[w]]).failed = job[on[w]].failed
        /\ Redelivered(job[on[w]]).state \in {"waiting", "failed"} /\ job[on[w]].failed < MaxAttempts
    BY <1>7, <1>8, JobOutcomes DEF LoseLock, HoldsLock, TypeInv, JobControl
  <2>2. job' = [job EXCEPT ![on[w]] = Redelivered(job[on[w]])] /\ on[w] \in Deliveries
    BY <1>7, <1>8 DEF LoseLock
  <2> QED
    BY <1>8, <2>1, <2>2 DEF LoseLock, Fault, TypeInv, EmailTypeOK, WorkerControl, JobControl, Sending, Job
<1>9. ASSUME NEW w \in Workers, Crash(w) PROVE TypeInv'
  BY <1>7, <1>9 DEF Crash, Fault, TypeInv, EmailTypeOK, WorkerControl, JobControl, Sending
<1>10. ASSUME NEW w \in Workers, SendMail(w) PROVE TypeInv'
  <2>1. on[w] \in Deliveries
    BY <1>7, <1>10 DEF SendMail
  <2>2. sent[on[w]] \in Nat /\ sent' \in [Deliveries -> Nat] /\ sent'[on[w]] = sent[on[w]] + 1
        /\ \A d \in Deliveries : sent[d] > 0 => sent'[d] > 0
    BY <1>10, <2>1 DEF SendMail, TypeInv, EmailTypeOK
  <2> QED
    BY <1>10, <2>1, <2>2 DEF SendMail, Go, TypeInv, EmailTypeOK, WorkerControl, JobControl, Sending
<1>11. ASSUME NEW w \in Workers, SendMailFails(w) PROVE TypeInv'
  <2>1. on[w] \in Deliveries
    BY <1>7, <1>11 DEF SendMailFails
  <2>2. /\ sent' \in [Deliveries -> Nat] /\ doubtful' \subseteq Deliveries
        /\ \A d \in Deliveries : sent[d] > 0 => sent'[d] > 0
    BY <1>11, <2>1 DEF SendMailFails, TypeInv, EmailTypeOK
  <2> QED
    BY <1>11, <2>1, <2>2 DEF SendMailFails, Fault, Go, TypeInv, EmailTypeOK, WorkerControl, JobControl, Sending
<1>12. ASSUME NEW w \in Workers, MarkSentFails(w) PROVE TypeInv'
  BY <1>7, <1>12 DEF MarkSentFails, Fault, Go, TypeInv, EmailTypeOK, WorkerControl, JobControl, Sending
<1>13. ASSUME NEW w \in Workers, ReadDelivery(w) PROVE TypeInv'
  <2>1. CASE emails[on[w]] = "SENT"
    <3>1. step[w] # "idle" /\ EndJob(w, Completed(job[on[w]]))
      BY <1>13, <2>1 DEF ReadDelivery
    <3>2. UNCHANGED <<emails, aged, queueing, sent, doubtful, interrupted, faults>>
      BY <1>13 DEF ReadDelivery
    <3> QED
      BY <3>1, <3>2, TurnEnds, TypeEndJob DEF TypeInv, EmailTypeOK
  <2>2. CASE emails[on[w]] # "SENT"
    BY <1>7, <1>13, <2>2 DEF ReadDelivery, Go, TypeInv, EmailTypeOK, WorkerControl, JobControl, Sending
  <2> QED
    BY <2>1, <2>2
<1>14. ASSUME NEW w \in Workers, Claim(w) PROVE TypeInv'
  <2>1. step[w] = "claim" /\ on[w] \in Deliveries /\ UNCHANGED <<queueing, sent, interrupted, faults>>
    BY <1>7, <1>14 DEF Claim
  <2>2. CASE Claimable(on[w])
    <3>1. /\ emails' = [emails EXCEPT ![on[w]] = "RETRYING"]
          /\ doubtful' \subseteq Deliveries /\ aged' = aged \ {on[w]}
          /\ step' = [step EXCEPT ![w] = "send"] /\ UNCHANGED <<job, on>>
      BY <1>14, <2>1, <2>2 DEF Claim, Go, TypeInv, EmailTypeOK
    <3>2. emails[on[w]] \in {"PENDING", "FAILED", "RETRYING"} /\ on[w] \notin queueing
      BY <2>1, <2>2 DEF Claimable, TypeInv, WorkerControl, JobControl
    <3> QED
      BY <2>1, <3>1, <3>2 DEF TypeInv, EmailTypeOK, WorkerControl, JobControl, Sending
  <2>3. CASE ~Claimable(on[w])
    <3>1. EndJob(w, Completed(job[on[w]])) /\ UNCHANGED <<emails, doubtful, aged>>
      BY <1>14, <2>3 DEF Claim
    <3> QED
      BY <2>1, <3>1, TurnEnds, TypeEndJob DEF TypeInv, EmailTypeOK
  <2> QED
    BY <2>2, <2>3
<1>15. ASSUME NEW w \in Workers, MarkSent(w) PROVE TypeInv'
  <2>1. /\ step[w] # "idle" /\ EndJob(w, Completed(job[on[w]]))
        /\ emails' = [emails EXCEPT ![on[w]] = "SENT"] /\ aged' = aged \ {on[w]}
        /\ UNCHANGED <<queueing, sent, doubtful, interrupted, faults>>
    BY <1>15 DEF MarkSent
  <2> QED
    BY <2>1, TurnEnds, TypeEndJob DEF TypeInv, EmailTypeOK
<1>16. ASSUME NEW w \in Workers, MarkFailed(w) PROVE TypeInv'
  <2>1. /\ step[w] # "idle" /\ EndJob(w, Retried(job[on[w]]))
        /\ emails' = [emails EXCEPT ![on[w]] = "FAILED"] /\ aged' = aged \ {on[w]}
        /\ UNCHANGED <<queueing, sent, doubtful, interrupted, faults>>
    BY <1>16 DEF MarkFailed
  <2> QED
    BY <2>1, TurnEnds, TypeEndJob DEF TypeInv, EmailTypeOK
<1>17. ASSUME NEW w \in Workers, Throws(w) PROVE TypeInv'
  <2>1. /\ step[w] # "idle" /\ EndJob(w, Retried(job[on[w]]))
        /\ UNCHANGED <<emails, aged, queueing, sent, doubtful>>
        /\ interrupted' \subseteq Deliveries /\ faults' \in 0 .. MaxFaults
    BY <1>7, <1>17 DEF Throws, Fault, TypeInv, EmailTypeOK
  <2> QED
    BY <2>1, TurnEnds, TypeEndJob DEF TypeInv, EmailTypeOK
<1>18. CASE UNCHANGED emailVars
  BY <1>18 DEF emailVars, TypeInv, EmailTypeOK, WorkerControl, JobControl, Sending
<1> QED
  BY <1>1, <1>2, <1>3, <1>4, <1>5, <1>6, <1>8, <1>9, <1>10, <1>11, <1>12, <1>13, <1>14,
     <1>15, <1>16, <1>17, <1>18 DEF Next, Background, Caller, Process, Disturb

\* Rows, jobs, workers and history stay of their types.
THEOREM EmailTypes == Spec => []EmailTypeOK
<1>1. TypeInv => EmailTypeOK
  BY DEF TypeInv
<1> QED
  BY TypeInit, TypeStep, <1>1, PTL DEF Spec

-------------------------------------------------------------------------------
(***************************************************************************)
(* A message leaves once                                                   *)
(***************************************************************************)
LEMMA SentInit == Init => SentInv
  BY DEF Init, SentInv, SentWasTransmitted, OneSender, Sending

\* A step that sends nothing, moves no row and makes no sender.
SentAlike ==
    /\ UNCHANGED <<emails, sent>>
    /\ doubtful \subseteq doubtful'
    /\ \A v \in Workers : Sending(v)' /\ on'[v] \notin doubtful' =>
          /\ Sending(v) /\ on'[v] = on[v]
          /\ step'[v] = step[v] \/ (step[v] = "send" /\ step'[v] = "markFailed")

LEMMA SentFrame == SentInv /\ SentAlike => SentInv'
<1> SUFFICES ASSUME SentInv, SentAlike PROVE SentInv'
  OBVIOUS
<1> USE DEF SentAlike
<1>1. SentWasTransmitted'
  BY DEF SentInv, SentWasTransmitted
<1>2. OneSender'
  <2> SUFFICES ASSUME NEW d \in Deliveries \ doubtful'
               PROVE  /\ \A v, w \in Workers :
                            Sending(v)' /\ Sending(w)' /\ on'[v] = d /\ on'[w] = d => v = w
                      /\ \A w \in Workers : Sending(w)' /\ on'[w] = d =>
                            /\ emails'[d] = "RETRYING"
                            /\ step'[w] \in {"send", "markFailed"} => sent'[d] = 0
                            /\ step'[w] = "markSent" => sent'[d] = 1
                      /\ emails'[d] \in {"absent", "PENDING", "FAILED"} => sent'[d] = 0
                      /\ sent'[d] <= 1
    BY DEF OneSender
  <2>1. \A v, w \in Workers : Sending(v) /\ Sending(w) /\ on[v] = d /\ on[w] = d => v = w
    BY DEF SentInv, OneSender
  <2>2. \A w \in Workers : Sending(w) /\ on[w] = d =>
           /\ emails[d] = "RETRYING"
           /\ step[w] \in {"send", "markFailed"} => sent[d] = 0
           /\ step[w] = "markSent" => sent[d] = 1
    BY DEF SentInv, OneSender
  <2>3. /\ emails[d] \in {"absent", "PENDING", "FAILED"} => sent[d] = 0
        /\ sent[d] <= 1
    BY DEF SentInv, OneSender
  <2> QED
    BY <2>1, <2>2, <2>3
<1> QED
  BY <1>1, <1>2 DEF SentInv

\* The end of a turn that leaves the row as it is.
LEMMA SentEndJob ==
    ASSUME TypeInv, SentInv, NEW w \in Workers, step[w] # "idle", NEW outcome,
           EndJob(w, outcome), UNCHANGED <<emails, sent, doubtful>>
    PROVE  SentInv'
<1>1. /\ step'[w] = "idle"
      /\ \A v \in Workers \ {w} : step'[v] = step[v] /\ on'[v] = on[v]
  BY DEF EndJob, TypeInv, EmailTypeOK
<1>2. ~Sending(w)' /\ \A v \in Workers \ {w} : Sending(v)' <=> Sending(v)
  BY <1>1 DEF Sending
<1>3. SentAlike
  BY <1>1, <1>2 DEF SentAlike
<1> QED
  BY <1>3, SentFrame

LEMMA SentStep == TypeInv /\ SentInv /\ [Next]_emailVars => SentInv'
<1> SUFFICES ASSUME TypeInv, SentInv, [Next]_emailVars PROVE SentInv'
  OBVIOUS
<1>0. ASSUME NEW w \in Workers, step[w] # "idle" PROVE on[w] \in Deliveries
  BY <1>0 DEF TypeInv, WorkerControl
<1>1. ASSUME NEW d \in Deliveries, CreateDelivery(d) PROVE SentInv'
  BY <1>1 DEF CreateDelivery, TypeInv, EmailTypeOK, WorkerControl, SentInv, SentWasTransmitted,
     OneSender, Sending
<1>2. ASSUME NEW d \in Deliveries, Enqueue(d) PROVE SentInv'
  <2>1. SentAlike
    BY <1>2 DEF SentAlike, Enqueue, Sending
  <2> QED
    BY <2>1, SentFrame
<1>3. ASSUME NEW d \in Deliveries, EnqueueFails(d) PROVE SentInv'
  <2>1. SentAlike
    BY <1>3 DEF SentAlike, EnqueueFails, Sending
  <2> QED
    BY <2>1, SentFrame
<1>4. ASSUME NEW d \in Deliveries, Age(d) PROVE SentInv'
  <2>1. SentAlike
    BY <1>4 DEF SentAlike, Age, Sending
  <2> QED
    BY <2>1, SentFrame
<1>5. ASSUME NEW d \in Deliveries, Redeliver(d) PROVE SentInv'
  <2>1. SentAlike
    BY <1>5 DEF SentAlike, Redeliver, Sending
  <2> QED
    BY <2>1, SentFrame
<1>6. ASSUME NEW w \in Workers, Take(w) PROVE SentInv'
  <2>1. SentAlike
    BY <1>6 DEF SentAlike, Take, Go, Sending, TypeInv, EmailTypeOK
  <2> QED
    BY <2>1, SentFrame
<1>7. ASSUME NEW w \in Workers, LoseLock(w) PROVE SentInv'
  <2>1. SentAlike
    BY <1>7 DEF SentAlike, LoseLock, Sending
  <2> QED
    BY <2>1, SentFrame
<1>8. ASSUME NEW w \in Workers, Crash(w) PROVE SentInv'
  <2>1. SentAlike
    BY <1>8 DEF SentAlike, Crash, Sending, TypeInv, EmailTypeOK
  <2> QED
    BY <2>1, SentFrame
<1>9. ASSUME NEW w \in Workers, SendMail(w) PROVE SentInv'
  <2>1. on[w] \in Deliveries /\ step[w] = "send" /\ sent[on[w]] \in Nat
    BY <1>0, <1>9 DEF SendMail, TypeInv, EmailTypeOK
  <2>2. /\ sent' = [sent EXCEPT ![on[w]] = @ + 1] /\ step' = [step EXCEPT ![w] = "markSent"]
        /\ UNCHANGED <<emails, on, doubtful>>
    BY <1>9 DEF SendMail, Go
  <2>3. SentWasTransmitted'
    BY <2>1, <2>2 DEF SentInv, SentWasTransmitted, TypeInv, EmailTypeOK
  <2>4. on[w] \notin doubtful =>
           /\ sent[on[w]] = 0 /\ emails[on[w]] = "RETRYING"
           /\ \A v \in Workers : Sending(v) /\ on[v] = on[w] => v = w
    BY <2>1 DEF SentInv, OneSender, Sending
  <2>5. \A v \in Workers : Sending(v)' <=> Sending(v)
    BY <2>1, <2>2 DEF Sending, TypeInv, EmailTypeOK
  <2>6. OneSender'
    BY <2>1, <2>2, <2>4, <2>5 DEF SentInv, OneSender, TypeInv, EmailTypeOK
  <2> QED
    BY <2>3, <2>6 DEF SentInv
<1>10. ASSUME NEW w \in Workers, SendMailFails(w) PROVE SentInv'
  <2>1. on[w] \in Deliveries /\ step[w] = "send" /\ sent[on[w]] \in Nat
    BY <1>0, <1>10 DEF SendMailFails, TypeInv, EmailTypeOK
  <2>2. step' = [step EXCEPT ![w] = "markFailed"] /\ UNCHANGED <<emails, on>>
    BY <1>10 DEF SendMailFails, Go
  <2>3. \A v \in Workers : Sending(v)' <=> Sending(v)
    BY <2>1, <2>2 DEF Sending, TypeInv, EmailTypeOK
  <2>4. CASE UNCHANGED <<sent, doubtful>>
    <3>1. SentAlike
      BY <2>1, <2>2, <2>3, <2>4 DEF SentAlike, TypeInv, EmailTypeOK
    <3> QED
      BY <3>1, SentFrame
  <2>5. CASE sent' = [sent EXCEPT ![on[w]] = @ + 1] /\ doubtful' = doubtful \cup {on[w]}
    <3>1. SentWasTransmitted'
      BY <2>1, <2>2, <2>5 DEF SentInv, SentWasTransmitted, TypeInv, EmailTypeOK
    <3>2. OneSender'
      BY <2>1, <2>2, <2>3, <2>5 DEF SentInv, OneSender, TypeInv, EmailTypeOK
    <3> QED
      BY <3>1, <3>2 DEF SentInv
  <2> QED
    BY <1>10, <2>4, <2>5 DEF SendMailFails
<1>11. ASSUME NEW w \in Workers, MarkSentFails(w) PROVE SentInv'
  <2>1. SentAlike
    BY <1>11 DEF SentAlike, MarkSentFails, Go, Sending, TypeInv, EmailTypeOK
  <2> QED
    BY <2>1, SentFrame
<1>12. ASSUME NEW w \in Workers, ReadDelivery(w) PROVE SentInv'
  <2>1. CASE emails[on[w]] = "SENT"
    BY <1>12, <2>1, SentEndJob DEF ReadDelivery
  <2>2. CASE emails[on[w]] # "SENT"
    <3>1. SentAlike
      BY <1>12, <2>2 DEF SentAlike, ReadDelivery, Go, Sending, TypeInv, EmailTypeOK
    <3> QED
      BY <3>1, SentFrame
  <2> QED
    BY <2>1, <2>2
<1>13. ASSUME NEW w \in Workers, Claim(w) PROVE SentInv'
  <2>1. step[w] = "claim" /\ on[w] \in Deliveries /\ UNCHANGED sent
    BY <1>0, <1>13 DEF Claim
  <2>2. CASE Claimable(on[w])
    <3>1. /\ emails' = [emails EXCEPT ![on[w]] = "RETRYING"]
          /\ doubtful' = IF on[w] \in aged THEN doubtful \cup {on[w]} ELSE doubtful
          /\ step' = [step EXCEPT ![w] = "send"] /\ UNCHANGED on
      BY <1>13, <2>2 DEF Claim, Go
    <3>2. on[w] \notin doubtful' => emails[on[w]] \in {"PENDING", "FAILED"}
      BY <2>2, <3>1 DEF Claimable
    <3>3. on[w] \notin doubtful' =>
             /\ on[w] \notin doubtful /\ sent[on[w]] = 0
             /\ \A v \in Workers : ~(Sending(v) /\ on[v] = on[w])
      BY <2>1, <3>1, <3>2 DEF SentInv, OneSender
    <3>4. \A v \in Workers \ {w} : (Sending(v)' <=> Sending(v)) /\ step'[v] = step[v]
      BY <3>1 DEF Sending, TypeInv, EmailTypeOK
    <3>5. SentWasTransmitted'
      BY <2>1, <3>1 DEF SentInv, SentWasTransmitted, TypeInv, EmailTypeOK
    <3>6. step'[w] = "send"
      BY <3>1 DEF TypeInv, EmailTypeOK
    <3>7. OneSender'
      BY <2>1, <3>1, <3>3, <3>4, <3>6 DEF SentInv, OneSender, TypeInv, EmailTypeOK
    <3> QED
      BY <3>5, <3>7 DEF SentInv
  <2>3. CASE ~Claimable(on[w])
    BY <1>13, <2>1, <2>3, SentEndJob DEF Claim
  <2> QED
    BY <2>2, <2>3
<1>14. ASSUME NEW w \in Workers, NEW status \in {"SENT", "FAILED"}, step[w] # "idle",
              emails' = [emails EXCEPT ![on[w]] = status], UNCHANGED <<sent, doubtful>>,
              step' = [step EXCEPT ![w] = "idle"], on' = [on EXCEPT ![w] = NoDelivery],
              Sending(w), status = "SENT" => step[w] = "markSent", status = "FAILED" => step[w] = "markFailed"
       PROVE  SentInv'
  <2>1. on[w] \in Deliveries
    BY <1>0, <1>14
  <2>2. /\ ~Sending(w)'
        /\ \A v \in Workers \ {w} : (Sending(v)' <=> Sending(v)) /\ step'[v] = step[v] /\ on'[v] = on[v]
    BY <1>14 DEF Sending, TypeInv, EmailTypeOK
  <2>3. SentWasTransmitted'
    BY <1>14, <2>1 DEF SentInv, SentWasTransmitted, TypeInv, EmailTypeOK, WorkerControl
  <2>4. on[w] \notin doubtful =>
           /\ \A v \in Workers : Sending(v) /\ on[v] = on[w] => v = w
           /\ status = "FAILED" => sent[on[w]] = 0
           /\ sent[on[w]] <= 1
    BY <1>14, <2>1 DEF SentInv, OneSender
  <2>5. emails'[on[w]] = status /\ \A d \in Deliveries \ {on[w]} : emails'[d] = emails[d]
    BY <1>14, <2>1 DEF TypeInv, EmailTypeOK
  <2>6. OneSender'
    BY <1>14, <2>1, <2>2, <2>4, <2>5 DEF SentInv, OneSender
  <2> QED
    BY <2>3, <2>6 DEF SentInv
<1>15. ASSUME NEW w \in Workers, MarkSent(w) PROVE SentInv'
  BY <1>14, <1>15 DEF MarkSent, EndJob, Sending
<1>16. ASSUME NEW w \in Workers, MarkFailed(w) PROVE SentInv'
  BY <1>14, <1>16 DEF MarkFailed, EndJob, Sending
<1>17. ASSUME NEW w \in Workers, Throws(w) PROVE SentInv'
  BY <1>17, SentEndJob DEF Throws
<1>18. CASE UNCHANGED emailVars
  <2>1. SentAlike
    BY <1>18 DEF SentAlike, emailVars, Sending
  <2> QED
    BY <2>1, SentFrame
<1> QED
  BY <1>1, <1>2, <1>3, <1>4, <1>5, <1>6, <1>7, <1>8, <1>9, <1>10, <1>11, <1>12, <1>13,
     <1>15, <1>16, <1>17, <1>18 DEF Next, Background, Caller, Process, Disturb

\* A row is SENT only after the relay took the message, and a message leaves
\* at most once: the claim lets one worker at a time send a
\* row, and the row it leaves tells the next one not to.
THEOREM SentAtMostOnce == Spec => []SentOnce
<1>1. SentInv => SentOnce
  BY DEF SentInv, OneSender, SentOnce
<1> QED
  BY TypeInit, TypeStep, SentInit, SentStep, <1>1, PTL DEF Spec

-------------------------------------------------------------------------------
(***************************************************************************)
(* Nothing is dropped                                                      *)
(***************************************************************************)
LEMMA DropInit == Init => DropInv
  BY DEF Init, DropInv, UnderLock, NothingDropped, Sending, NewJob

\* UnderLock and NothingDropped, row by row.
DropAt(d) ==
    /\ \A w \in Workers : step[w] # "idle" /\ on[w] = d =>
          job[d].state = "active" /\ job[d].worker = w
    /\ job[d].state = "active" => on[job[d].worker] = d
    /\ \A w \in Workers : Sending(w) /\ on[w] = d => emails[d] = "RETRYING"
    /\ job[d].state = "completed" => emails[d] = "SENT"
    /\ job[d].state = "failed" => emails[d] = "FAILED" /\ job[d].failed = MaxAttempts
    /\ emails[d] = "PENDING" => d \in queueing \/ job[d].state \in {"waiting", "active"}
    /\ emails[d] = "RETRYING" => \E w \in Workers : on[w] = d /\ Sending(w)

LEMMA DropRows == DropInv <=> \A d \in Deliveries \ interrupted : DropAt(d)
  BY DEF DropInv, UnderLock, NothingDropped, DropAt, Sending

\* A step that leaves row d, its job and its workers as they are.
DropAlike(d) ==
    /\ emails'[d] = emails[d] /\ job'[d] = job[d]
    /\ d \in queueing' <=> d \in queueing
    /\ \A v \in Workers :
          /\ on'[v] = d <=> on[v] = d
          /\ on[v] = d => (step'[v] = "idle" <=> step[v] = "idle") /\ (Sending(v)' <=> Sending(v))

LEMMA DropFrame ==
    ASSUME TypeInv, NEW d \in Deliveries, DropAt(d), DropAlike(d)
    PROVE  DropAt(d)'
<1>1. job[d].state = "active" => job[d].worker \in Workers
  BY DEF TypeInv, JobControl
<1> QED
  BY <1>1 DEF DropAt, DropAlike

\* The end of the turn of the worker that holds the lock of row d.
LEMMA DropEndJob ==
    ASSUME TypeInv, NEW w \in Workers, step[w] # "idle",
           NEW d \in Deliveries, on[w] = d, DropAt(d),
           NEW outcome \in Job, EndJob(w, outcome),
           \/ outcome.state = "completed" /\ emails'[d] = "SENT"
           \/ outcome.state = "waiting" /\ emails'[d] = "FAILED"
           \/ outcome.state = "failed" /\ outcome.failed = MaxAttempts /\ emails'[d] = "FAILED"
    PROVE  DropAt(d)'
<1>1. /\ job'[d] = IF HoldsLock(w) THEN outcome ELSE job[d]
      /\ step'[w] = "idle" /\ on'[w] = NoDelivery
      /\ \A v \in Workers \ {w} : step'[v] = step[v] /\ on'[v] = on[v]
  BY EndJobEffect
<1>2. HoldsLock(w) /\ \A v \in Workers : step[v] # "idle" /\ on[v] = d => v = w
  BY DEF DropAt, HoldsLock
<1>3. \A v \in Workers : step[v] = "idle" => on[v] # d
  BY DEF TypeInv, WorkerControl
<1>4. \A v \in Workers : on'[v] # d
  BY <1>1, <1>2, <1>3, EmailAssumption
<1>5. job'[d] = outcome
  BY <1>1, <1>2
<1> QED
  BY <1>4, <1>5 DEF DropAt

\* What the end of a turn leaves alone.
LEMMA OthersEndJob ==
    ASSUME TypeInv, NEW w \in Workers, step[w] # "idle", NEW outcome \in Job, EndJob(w, outcome),
           UNCHANGED queueing, NEW d \in Deliveries, on[w] # d, emails'[d] = emails[d]
    PROVE  DropAlike(d)
<1>1. /\ job'[d] = job[d]
      /\ step'[w] = "idle" /\ on'[w] = NoDelivery
      /\ \A v \in Workers \ {w} : step'[v] = step[v] /\ on'[v] = on[v]
  BY EndJobEffect
<1> QED
  BY <1>1, EmailAssumption DEF DropAlike, Sending

LEMMA DropStep == TypeInv /\ DropInv /\ [Next]_emailVars => DropInv'
<1> SUFFICES ASSUME TypeInv, DropInv, [Next]_emailVars,
                    NEW d \in Deliveries, d \notin interrupted'
             PROVE  DropAt(d)'
  BY DEF DropInv, UnderLock, NothingDropped, DropAt, Sending
<1>0. ASSUME interrupted \subseteq interrupted' PROVE DropAt(d)
  BY <1>0, DropRows
<1>t. /\ \A w \in Workers : step[w] # "idle" <=> on[w] \in Deliveries
      /\ \A w \in Workers : step[w] # "idle" => emails[on[w]] # "absent"
      /\ job[d] \in Job /\ job \in [Deliveries -> Job]
      /\ emails \in [Deliveries -> Statuses] /\ on \in [Workers -> Deliveries \cup {NoDelivery}]
      /\ step \in [Workers -> Steps]
      /\ job[d].state = "active" => job[d].worker \in Workers
  BY DEF TypeInv, EmailTypeOK, WorkerControl, JobControl, Job
<1>1. ASSUME NEW c \in Deliveries, CreateDelivery(c) PROVE DropAt(d)'
  <2>1. CASE c = d
    <3>1. job[d].state = "none" /\ \A w \in Workers : on[w] # d
      BY <1>1, <1>t, <2>1 DEF CreateDelivery, TypeInv, JobControl
    <3> QED
      BY <1>1, <1>t, <2>1, <3>1 DEF CreateDelivery, DropAt, Sending
  <2>2. CASE c # d
    <3>1. DropAlike(d)
      BY <1>1, <1>t, <2>2 DEF CreateDelivery, DropAlike, Sending
    <3> QED
      BY <1>0, <1>1, <3>1, DropFrame DEF CreateDelivery
  <2> QED
    BY <2>1, <2>2
<1>2. ASSUME NEW c \in Deliveries, Enqueue(c) PROVE DropAt(d)'
  <2>1. CASE c = d
    <3>1. /\ job[d].state = "none" /\ emails[d] = "PENDING"
          /\ \A w \in Workers : on[w] # d
      BY <1>2, <1>t, <2>1 DEF Enqueue, TypeInv, JobControl, WorkerControl
    <3>2. job'[d].state = "waiting"
      BY <1>2, <1>t, <2>1 DEF Enqueue, Job
    <3> QED
      BY <1>2, <2>1, <3>1, <3>2 DEF Enqueue, DropAt, Sending
  <2>2. CASE c # d
    <3>1. DropAlike(d)
      BY <1>2, <1>t, <2>2 DEF Enqueue, DropAlike, Sending
    <3> QED
      BY <1>0, <1>2, <3>1, DropFrame DEF Enqueue
  <2> QED
    BY <2>1, <2>2
<1>3. ASSUME NEW c \in Deliveries, EnqueueFails(c) PROVE DropAt(d)'
  <2>1. DropAlike(d)
    BY <1>3 DEF EnqueueFails, DropAlike, Sending
  <2> QED
    BY <1>0, <1>3, <2>1, DropFrame DEF EnqueueFails
<1>4. ASSUME NEW c \in Deliveries, Age(c) PROVE DropAt(d)'
  <2>1. DropAlike(d)
    BY <1>4 DEF Age, DropAlike, Sending
  <2> QED
    BY <1>0, <1>4, <2>1, DropFrame DEF Age
<1>5. ASSUME NEW c \in Deliveries, Redeliver(c) PROVE DropAt(d)'
  <2>1. DropAt(d)
    BY <1>0, <1>5 DEF Redeliver
  <2>2. c # d
    BY <1>5, <2>1 DEF Redeliver, DropAt
  <2>3. DropAlike(d)
    BY <1>5, <1>t, <2>2 DEF Redeliver, DropAlike, Sending
  <2> QED
    BY <2>1, <2>3, DropFrame
<1>6. ASSUME NEW w \in Workers, Take(w) PROVE DropAt(d)'
  <2>1. PICK c \in Deliveries :
          /\ step[w] = "idle" /\ job[c].state = "waiting"
          /\ job' = [job EXCEPT ![c].state = "active", ![c].worker = w]
          /\ on' = [on EXCEPT ![w] = c] /\ step' = [step EXCEPT ![w] = "read"]
    BY <1>6 DEF Take, Go
  <2>2. UNCHANGED <<emails, queueing, interrupted>> /\ DropAt(d)
    BY <1>0, <1>6 DEF Take
  <2>3. on[w] # d /\ ~Sending(w) /\ ~Sending(w)' /\ \A v \in Workers \ {w} : Sending(v)' <=> Sending(v)
    BY <1>t, <2>1 DEF Sending
  <2>4. CASE c = d
    <3>1. job'[d] = [job[d] EXCEPT !.state = "active", !.worker = w]
      BY <1>t, <2>1, <2>4
    <3>2. job'[d].state = "active" /\ job'[d].worker = w
      BY <1>t, <3>1 DEF Job
    <3>3. on'[w] = d /\ \A v \in Workers \ {w} : on'[v] = on[v] /\ step'[v] = step[v]
      BY <1>t, <2>1, <2>4
    <3>4. \A v \in Workers \ {w} : on[v] # d
      BY <1>t, <2>1, <2>2, <2>4 DEF DropAt
    <3> QED
      BY <2>2, <2>3, <3>2, <3>3, <3>4 DEF DropAt
  <2>5. CASE c # d
    <3>1. job'[d] = job[d]
      BY <1>t, <2>1, <2>5
    <3>2. DropAlike(d)
      BY <1>t, <2>1, <2>2, <2>3, <2>5, <3>1 DEF DropAlike
    <3> QED
      BY <2>2, <3>2, DropFrame
  <2> QED
    BY <2>4, <2>5
<1>7. ASSUME NEW w \in Workers, LoseLock(w) PROVE DropAt(d)'
  <2>1. on[w] # d
    BY <1>7 DEF LoseLock
  <2>2. DropAlike(d)
    BY <1>7, <1>t, <2>1 DEF LoseLock, DropAlike, Sending
  <2> QED
    BY <1>0, <1>7, <2>2, DropFrame DEF LoseLock
<1>8. ASSUME NEW w \in Workers, Crash(w) PROVE DropAt(d)'
  <2>1. on[w] # d
    BY <1>8 DEF Crash
  <2>2. DropAlike(d)
    BY <1>8, <1>t, <2>1, EmailAssumption DEF Crash, DropAlike, Sending
  <2> QED
    BY <1>0, <1>8, <2>2, DropFrame DEF Crash
<1>9. ASSUME NEW w \in Workers, SendMail(w) \/ SendMailFails(w) \/ MarkSentFails(w) PROVE DropAt(d)'
  <2>1. DropAlike(d)
    BY <1>9, <1>t DEF SendMail, SendMailFails, MarkSentFails, Go, DropAlike, Sending
  <2> QED
    BY <1>0, <1>9, <2>1, DropFrame DEF SendMail, SendMailFails, MarkSentFails
<1>10. ASSUME NEW w \in Workers, step[w] # "idle",
              EndJob(w, Completed(job[on[w]])) \/ EndJob(w, Retried(job[on[w]])),
              UNCHANGED queueing, on[w] # d, emails'[d] = emails[d], DropAt(d)
       PROVE  DropAt(d)'
  <2>1. PICK outcome \in Job : EndJob(w, outcome)
    BY <1>10, TurnEnds
  <2>2. DropAlike(d)
    BY <1>10, <2>1, OthersEndJob
  <2> QED
    BY <1>10, <2>2, DropFrame
<1>11. ASSUME NEW w \in Workers, step[w] # "idle", on[w] = d, DropAt(d),
              EndJob(w, Completed(job[d])), emails'[d] = "SENT"
       PROVE  DropAt(d)'
  <2>1. Completed(job[d]) \in Job /\ Completed(job[d]).state = "completed"
    BY <1>t, JobOutcomes
  <2> QED
    BY <1>11, <2>1, DropEndJob
<1>12. ASSUME NEW w \in Workers, ReadDelivery(w) PROVE DropAt(d)'
  <2>1. CASE emails[on[w]] = "SENT"
    <3>1. /\ step[w] # "idle" /\ EndJob(w, Completed(job[on[w]])) /\ DropAt(d)
          /\ UNCHANGED <<emails, queueing>>
      BY <1>0, <1>12, <2>1 DEF ReadDelivery
    <3> QED
      BY <1>10, <1>11, <2>1, <3>1
  <2>2. CASE emails[on[w]] # "SENT"
    <3>1. DropAlike(d)
      BY <1>12, <1>t, <2>2 DEF ReadDelivery, Go, DropAlike, Sending
    <3> QED
      BY <1>0, <1>12, <3>1, DropFrame DEF ReadDelivery
  <2> QED
    BY <2>1, <2>2
<1>13. ASSUME NEW w \in Workers, Claim(w) PROVE DropAt(d)'
  <2>1. step[w] = "claim" /\ UNCHANGED <<queueing, interrupted>> /\ DropAt(d)
    BY <1>0, <1>13 DEF Claim
  <2>2. CASE Claimable(on[w])
    <3>1. /\ emails' = [emails EXCEPT ![on[w]] = "RETRYING"]
          /\ step' = [step EXCEPT ![w] = "send"] /\ UNCHANGED <<job, on>>
      BY <1>13, <2>2 DEF Claim, Go
    <3>2. CASE on[w] = d
      <4>1. /\ job[d].state = "active" /\ job[d].worker = w
            /\ \A v \in Workers \ {w} : on[v] # d
        BY <1>t, <2>1, <3>2 DEF DropAt
      <4>2. emails'[d] = "RETRYING" /\ Sending(w)'
        BY <1>t, <3>1, <3>2 DEF Sending
      <4> QED
        BY <2>1, <3>1, <3>2, <4>1, <4>2 DEF DropAt
    <3>3. CASE on[w] # d
      <4>1. DropAlike(d)
        BY <1>t, <2>1, <3>1, <3>3 DEF DropAlike, Sending
      <4> QED
        BY <2>1, <4>1, DropFrame
    <3> QED
      BY <3>2, <3>3
  <2>3. CASE ~Claimable(on[w])
    <3>1. EndJob(w, Completed(job[on[w]])) /\ UNCHANGED emails
      BY <1>13, <2>3 DEF Claim
    <3>2. CASE on[w] = d
      <4>1. /\ job[d].state = "active" /\ job[d].worker = w
            /\ \A v \in Workers \ {w} : on[v] # d
        BY <1>t, <2>1, <3>2 DEF DropAt
      <4>2. emails[d] # "RETRYING"
        BY <2>1, <4>1 DEF DropAt, Sending
      <4>3. emails[d] = "SENT"
        BY <1>t, <2>1, <2>3, <3>2, <4>2 DEF Claimable, Statuses
      <4> QED
        BY <1>11, <2>1, <3>1, <3>2, <4>3
    <3>3. CASE on[w] # d
      BY <1>10, <2>1, <3>1, <3>3
    <3> QED
      BY <3>2, <3>3
  <2> QED
    BY <2>2, <2>3
<1>14. ASSUME NEW w \in Workers, MarkSent(w) PROVE DropAt(d)'
  <2>1. /\ step[w] # "idle" /\ EndJob(w, Completed(job[on[w]])) /\ DropAt(d)
        /\ emails' = [emails EXCEPT ![on[w]] = "SENT"] /\ UNCHANGED queueing
    BY <1>0, <1>14 DEF MarkSent
  <2>2. CASE on[w] = d
    BY <1>11, <1>t, <2>1, <2>2
  <2>3. CASE on[w] # d
    BY <1>10, <1>t, <2>1, <2>3
  <2> QED
    BY <2>2, <2>3
<1>15. ASSUME NEW w \in Workers, MarkFailed(w) PROVE DropAt(d)'
  <2>1. /\ step[w] # "idle" /\ EndJob(w, Retried(job[on[w]])) /\ DropAt(d)
        /\ emails' = [emails EXCEPT ![on[w]] = "FAILED"] /\ UNCHANGED queueing
    BY <1>0, <1>15 DEF MarkFailed
  <2>2. CASE on[w] = d
    <3>1. job[d].state = "active" /\ emails'[d] = "FAILED"
      BY <1>t, <2>1, <2>2 DEF DropAt
    <3>2. job[d].failed < MaxAttempts
      BY <3>1 DEF TypeInv, JobControl
    <3>3. /\ Retried(job[d]) \in Job
          /\ \/ Retried(job[d]).state = "waiting"
             \/ Retried(job[d]).state = "failed" /\ Retried(job[d]).failed = MaxAttempts
      BY <1>t, <3>2, JobOutcomes
    <3> QED
      BY <2>1, <2>2, <3>1, <3>3, DropEndJob
  <2>3. CASE on[w] # d
    BY <1>10, <1>t, <2>1, <2>3
  <2> QED
    BY <2>2, <2>3
<1>16. ASSUME NEW w \in Workers, Throws(w) PROVE DropAt(d)'
  <2>1. /\ step[w] # "idle" /\ EndJob(w, Retried(job[on[w]])) /\ DropAt(d)
        /\ UNCHANGED <<emails, queueing>> /\ on[w] # d
    BY <1>0, <1>16 DEF Throws
  <2> QED
    BY <1>10, <2>1
<1>17. CASE UNCHANGED emailVars
  <2>1. DropAlike(d)
    BY <1>17 DEF emailVars, DropAlike, Sending
  <2> QED
    BY <1>0, <1>17, <2>1, DropFrame DEF emailVars
<1> QED
  BY <1>1, <1>2, <1>3, <1>4, <1>5, <1>6, <1>7, <1>8, <1>9, <1>12, <1>13,
     <1>14, <1>15, <1>16, <1>17 DEF Next, Background, Caller, Process, Disturb

\* A message whose processing was not cut short is never lost between the
\* row, the job and the worker.
THEOREM NeverDropped == Spec => []NothingDropped
<1>1. DropInv => NothingDropped
  BY DEF DropInv
<1> QED
  BY TypeInit, TypeStep, DropInit, DropStep, <1>1, PTL DEF Spec

-------------------------------------------------------------------------------
(***************************************************************************)
(* A row that is SENT stays SENT                                           *)
(***************************************************************************)

\* The steps that leave every SENT row as it is, whatever the invariants.
LEMMA OtherStatuses ==
    ASSUME [Next]_emailVars, NEW d \in Deliveries, emails[d] = "SENT", emails'[d] # "SENT"
    PROVE  \E w \in Workers : step[w] = "markFailed" /\ on[w] = d /\ MarkFailed(w)
<1>t. CASE emails' = emails
  BY <1>t
<1>1. ASSUME NEW c \in Deliveries, CreateDelivery(c) PROVE emails'[d] = emails[d]
  BY <1>1 DEF CreateDelivery
<1>2. ASSUME NEW w \in Workers, Claim(w) PROVE emails'[d] = emails[d]
  <2>1. CASE Claimable(on[w])
    <3>1. on[w] # d
      BY <2>1 DEF Claimable
    <3>2. emails' = [emails EXCEPT ![on[w]] = "RETRYING"]
      BY <1>2, <2>1 DEF Claim
    <3> QED
      BY <3>1, <3>2
  <2>2. CASE ~Claimable(on[w])
    BY <1>2, <2>2 DEF Claim
  <2> QED
    BY <2>1, <2>2
<1>3. ASSUME NEW w \in Workers, MarkSent(w) PROVE emails'[d] = emails[d]
  BY <1>3 DEF MarkSent
<1>4. ASSUME NEW w \in Workers, MarkFailed(w) PROVE on[w] = d /\ step[w] = "markFailed"
  BY <1>4 DEF MarkFailed
<1>5. CASE UNCHANGED emailVars
  BY <1>5 DEF emailVars
<1>6. ASSUME NEW c \in Deliveries, Enqueue(c) \/ EnqueueFails(c) \/ Redeliver(c) \/ Age(c)
      PROVE  emails' = emails
  BY <1>6 DEF Enqueue, EnqueueFails, Redeliver, Age
<1>7. ASSUME NEW w \in Workers,
             \/ Take(w) \/ ReadDelivery(w) \/ SendMail(w) \/ SendMailFails(w)
             \/ MarkSentFails(w) \/ Throws(w) \/ LoseLock(w) \/ Crash(w)
      PROVE  emails' = emails
  BY <1>7 DEF Take, ReadDelivery, SendMail, SendMailFails, MarkSentFails, Throws,
              LoseLock, Crash
<1> QED
  BY <1>1, <1>2, <1>3, <1>4, <1>5, <1>6, <1>7 DEF Next, Background, Caller, Process, Disturb

\* A late worker never marks FAILED a row another one has sent: the worker
\* that still has a row to mark FAILED is its only sender, and has not sent it.
THEOREM SentIsFinal == Spec => SentStays
<1>1. TypeInv /\ SentInv /\ [Next]_emailVars =>
          [\A d \in Deliveries \ doubtful' : emails[d] = "SENT" => emails'[d] = "SENT"]_emailVars
  <2> SUFFICES ASSUME TypeInv, SentInv, [Next]_emailVars,
                      NEW d \in Deliveries, d \notin doubtful',
                      emails[d] = "SENT", emails'[d] # "SENT"
               PROVE  FALSE
    OBVIOUS
  <2>1. PICK w \in Workers : step[w] = "markFailed" /\ on[w] = d /\ MarkFailed(w)
    BY OtherStatuses
  <2>2. d \notin doubtful
    BY <2>1 DEF MarkFailed
  <2>3. emails[d] = "RETRYING"
    BY <2>1, <2>2 DEF SentInv, OneSender, Sending
  <2> QED
    BY <2>3
<1> QED
  BY TypeInit, TypeStep, SentInit, SentStep, <1>1, PTL DEF Spec, SentStays

-------------------------------------------------------------------------------
(***************************************************************************)
(* The service its callers rely on                                         *)
(***************************************************************************)
Asked == {d \in Deliveries : job[d].state # "none"}

\* A step of a worker, of the queue or of the clock that leaves the rows'
\* statuses alone is invisible to the callers.
LEMMA Invisible ==
    ASSUME UNCHANGED <<emails, queueing>>, Asked' = Asked
    PROVE  UNCHANGED Outbox!outbox
  BY DEF Outbox!outbox, Asked

\* The end of a worker's turn takes no job back.
LEMMA AskedEndJob ==
    ASSUME TypeInv, NEW w \in Workers, step[w] # "idle",
           NEW outcome \in Job, outcome.state # "none", EndJob(w, outcome)
    PROVE  Asked' = Asked /\ on[w] \in Asked
<1>1. /\ on[w] \in Deliveries /\ job[on[w]].state # "none"
      /\ job'[on[w]] = outcome \/ job'[on[w]] = job[on[w]]
      /\ \A d \in Deliveries \ {on[w]} : job'[d] = job[d]
  BY EndJobEffect DEF TypeInv, WorkerControl
<1>2. \A d \in Deliveries : job'[d].state # "none" <=> job[d].state # "none"
  BY <1>1
<1> QED
  BY <1>1, <1>2 DEF Asked

LEMMA TurnAsked ==
    ASSUME TypeInv, NEW w \in Workers, step[w] # "idle",
           EndJob(w, Completed(job[on[w]])) \/ EndJob(w, Retried(job[on[w]]))
    PROVE  Asked' = Asked /\ on[w] \in Asked
<1>1. PICK outcome \in Job : outcome.state # "none" /\ EndJob(w, outcome)
  BY TurnEnds
<1> QED
  BY <1>1, AskedEndJob

\* A change of a row's status that the callers expect.
LEMMA Visible ==
    ASSUME TypeInv, NEW d \in Asked, NEW status \in Statuses,
           <<emails[d], status>> \in Outbox!Transitions,
           emails' = [emails EXCEPT ![d] = status], Asked' = Asked, UNCHANGED queueing
    PROVE  Outbox!OutboxNext
<1>1. Outbox!Progress(d)
  BY DEF Outbox!Progress, Outbox!Statuses, Statuses, Asked
<1> QED
  BY <1>1 DEF Outbox!OutboxNext, Asked

\* Queue, claims, redeliveries and crashes implement the service of
\* EmailOutbox: a row moves only once its job exists, along its transitions.
LEMMA OutboxStep ==
    ASSUME TypeInv, [Next]_emailVars
    PROVE  Outbox!OutboxNext \/ UNCHANGED Outbox!outbox
<1>t. /\ job \in [Deliveries -> Job] /\ emails \in [Deliveries -> Statuses]
      /\ \A w \in Workers : step[w] # "idle" =>
            on[w] \in Deliveries /\ job[on[w]].state # "none" /\ emails[on[w]] # "absent"
      /\ \A w \in Workers : Sending(w) => emails[on[w]] \in {"RETRYING", "SENT", "FAILED"}
  BY DEF TypeInv, EmailTypeOK, WorkerControl, JobControl, Job
<1>1. ASSUME NEW d \in Deliveries, CreateDelivery(d) PROVE Outbox!OutboxNext
  <2>1. Asked' = Asked
    BY <1>1 DEF CreateDelivery, Asked
  <2> QED
    BY <1>1, <2>1 DEF CreateDelivery, Outbox!OutboxNext, Outbox!Create, Asked
<1>2. ASSUME NEW d \in Deliveries, Enqueue(d) PROVE Outbox!OutboxNext
  <2>1. job' = [job EXCEPT ![d].state = "waiting"]
    BY <1>2 DEF Enqueue
  <2>2. job'[d].state = "waiting" /\ \A c \in Deliveries \ {d} : job'[c] = job[c]
    BY <1>t, <2>1 DEF Job
  <2>3. Asked' = Asked \cup {d}
    BY <2>2 DEF Asked
  <2> QED
    BY <1>2, <2>3 DEF Enqueue, Outbox!OutboxNext, Outbox!HandOver, Asked
<1>3. ASSUME NEW d \in Deliveries, EnqueueFails(d) PROVE Outbox!OutboxNext
  <2>1. Asked' = Asked
    BY <1>3 DEF EnqueueFails, Asked
  <2> QED
    BY <1>3, <2>1 DEF EnqueueFails, Outbox!OutboxNext, Outbox!GiveUp, Asked
<1>4. ASSUME NEW d \in Deliveries, Redeliver(d) PROVE UNCHANGED Outbox!outbox
  <2>1. Redelivered(job[d]).state # "none"
    BY <1>t, JobOutcomes
  <2>2. job'[d].state # "none" /\ \A c \in Deliveries \ {d} : job'[c] = job[c]
    BY <1>4, <1>t, <2>1 DEF Redeliver
  <2>3. Asked' = Asked
    BY <1>4, <2>2 DEF Redeliver, Asked
  <2> QED
    BY <1>4, <2>3, Invisible DEF Redeliver
<1>5. ASSUME NEW w \in Workers, Take(w) PROVE UNCHANGED Outbox!outbox
  <2>1. PICK d \in Deliveries :
           /\ job[d].state = "waiting"
           /\ job' = [job EXCEPT ![d].state = "active", ![d].worker = w]
    BY <1>5 DEF Take
  <2>2. job'[d].state = "active" /\ \A c \in Deliveries \ {d} : job'[c] = job[c]
    BY <1>t, <2>1 DEF Job
  <2>3. Asked' = Asked
    BY <2>1, <2>2 DEF Asked
  <2> QED
    BY <1>5, <2>3, Invisible DEF Take
<1>6. ASSUME NEW w \in Workers, LoseLock(w) PROVE UNCHANGED Outbox!outbox
  <2>1. on[w] \in Deliveries /\ job[on[w]].state # "none"
    BY <1>6, <1>t DEF LoseLock
  <2>2. Redelivered(job[on[w]]).state # "none"
    BY <1>t, <2>1, JobOutcomes
  <2>3. job'[on[w]].state # "none" /\ \A c \in Deliveries \ {on[w]} : job'[c] = job[c]
    BY <1>6, <1>t, <2>1, <2>2 DEF LoseLock
  <2>4. Asked' = Asked
    BY <2>1, <2>3 DEF Asked
  <2> QED
    BY <1>6, <2>4, Invisible DEF LoseLock
<1>7. ASSUME NEW w \in Workers,
             \/ Crash(w) \/ SendMail(w) \/ SendMailFails(w) \/ MarkSentFails(w)
      PROVE  UNCHANGED Outbox!outbox
  <2>1. job' = job /\ UNCHANGED <<emails, queueing>>
    BY <1>7 DEF Crash, SendMail, SendMailFails, MarkSentFails
  <2> QED
    BY <2>1, Invisible DEF Asked
<1>8. ASSUME NEW d \in Deliveries, Age(d) PROVE UNCHANGED Outbox!outbox
  <2>1. Asked' = Asked
    BY <1>8 DEF Age, Asked
  <2> QED
    BY <1>8, <2>1, Invisible DEF Age
<1>9. ASSUME NEW w \in Workers, ReadDelivery(w) PROVE UNCHANGED Outbox!outbox
  <2>1. Asked' = Asked
    <3>1. step[w] # "idle" /\ (EndJob(w, Completed(job[on[w]])) \/ job' = job)
      BY <1>9 DEF ReadDelivery
    <3> QED
      BY <3>1, TurnAsked DEF Asked
  <2> QED
    BY <1>9, <2>1, Invisible DEF ReadDelivery
<1>10. ASSUME NEW w \in Workers, Claim(w) PROVE Outbox!OutboxNext \/ UNCHANGED Outbox!outbox
  <2>1. /\ on[w] \in Asked /\ step[w] # "idle"
        /\ UNCHANGED queueing
    BY <1>10, <1>t DEF Claim, Asked
  <2>2. CASE ~Claimable(on[w])
    <3>1. Asked' = Asked
      BY <1>10, <2>1, <2>2, TurnAsked DEF Claim
    <3> QED
      BY <1>10, <2>2, <3>1, Invisible DEF Claim
  <2>3. CASE Claimable(on[w])
    <3>1. emails' = [emails EXCEPT ![on[w]] = "RETRYING"] /\ job' = job
      BY <1>10, <2>3 DEF Claim
    <3>2. Asked' = Asked
      BY <3>1 DEF Asked
    <3>3. CASE emails[on[w]] = "RETRYING"
      <4>1. emails' = emails
        BY <1>t, <3>1, <3>3
      <4> QED
        BY <2>1, <3>2, <4>1, Invisible
    <3>4. CASE emails[on[w]] \in {"PENDING", "FAILED"}
      BY <2>1, <3>1, <3>2, <3>4, Visible DEF Outbox!Transitions, Statuses
    <3> QED
      BY <2>3, <3>3, <3>4 DEF Claimable
  <2> QED
    BY <2>2, <2>3
<1>11. ASSUME NEW w \in Workers, MarkSent(w) \/ MarkFailed(w)
       PROVE  Outbox!OutboxNext \/ UNCHANGED Outbox!outbox
  <2>1. PICK status \in {"SENT", "FAILED"} : emails' = [emails EXCEPT ![on[w]] = status]
    BY <1>11 DEF MarkSent, MarkFailed
  <2>2. Asked' = Asked /\ on[w] \in Asked
    BY <1>11, TurnAsked DEF MarkSent, MarkFailed
  <2>3. UNCHANGED queueing /\ emails[on[w]] \in {"RETRYING", "SENT", "FAILED"}
    BY <1>11, <1>t DEF MarkSent, MarkFailed, Sending
  <2>4. CASE emails[on[w]] = status
    <3>1. emails' = emails
      BY <1>t, <2>1, <2>4
    <3> QED
      BY <2>2, <2>3, <3>1, Invisible
  <2>5. CASE emails[on[w]] # status
    <3>1. <<emails[on[w]], status>> \in Outbox!Transitions
      BY <2>3, <2>5 DEF Outbox!Transitions
    <3> QED
      BY <2>1, <2>2, <2>3, <3>1, Visible DEF Statuses
  <2> QED
    BY <2>4, <2>5
<1>12. ASSUME NEW w \in Workers, Throws(w) PROVE UNCHANGED Outbox!outbox
  <2>1. Asked' = Asked
    BY <1>12, TurnAsked DEF Throws
  <2> QED
    BY <1>12, <2>1, Invisible DEF Throws
<1>13. CASE UNCHANGED emailVars
  BY <1>13, Invisible DEF emailVars, Asked
<1> QED
  BY <1>1, <1>2, <1>3, <1>4, <1>5, <1>6, <1>7, <1>8, <1>9, <1>10, <1>11, <1>12, <1>13
     DEF Next, Background, Caller, Process, Disturb

\* Every behaviour of rows, queue and workers is one of the outbox that
\* AlertDelivery is built on.
THEOREM OutboxImplemented == Spec => ImplementsOutbox
<1>1. Init => Outbox!OutboxInit
  BY DEF Init, NewJob, Outbox!OutboxInit
<1>2. TypeInv /\ [Next]_emailVars => [Outbox!OutboxNext]_(Outbox!outbox)
  BY OutboxStep
<1> QED
  BY TypeInit, TypeStep, <1>1, <1>2, PTL DEF Spec, ImplementsOutbox, Outbox!OutboxSpec
===============================================================================
