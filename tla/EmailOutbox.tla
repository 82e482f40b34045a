----------------------------- MODULE EmailOutbox ------------------------------
(***************************************************************************)
(* What the e-mail service promises to the services that send e-mails: a   *)
(* row per e-mail, created PENDING, handed to the queue in a second step   *)
(* that may fail, and moved by the background only once it was handed      *)
(* over.  A row never returns to PENDING, and nothing else retries one     *)
(* whose handing over failed.                                              *)
(*                                                                         *)
(* EmailDelivery implements it; AlertDelivery uses it.                     *)
(***************************************************************************)
CONSTANT Deliveries     \* EmailDelivery ids

VARIABLES
    emails,         \* EmailDelivery.status
    queueing,       \* rows just created, not enqueued yet
    asked           \* rows the queue accepted a job for

outbox == <<emails, queueing, asked>>

Statuses == {"absent", "PENDING", "RETRYING", "SENT", "FAILED"}

OutboxInit ==
    /\ emails = [d \in Deliveries |-> "absent"]
    /\ queueing = {}
    /\ asked = {}

\* queueGenericEmail: the row; the unique index refuses a second one.
Create(d) ==
    /\ emails[d] = "absent"
    /\ emails' = [emails EXCEPT ![d] = "PENDING"]
    /\ queueing' = queueing \cup {d}
    /\ UNCHANGED asked

\* ... and its job, ...
HandOver(d) ==
    /\ d \in queueing
    /\ queueing' = queueing \ {d}
    /\ asked' = asked \cup {d}
    /\ UNCHANGED emails

\* ... which Redis may refuse, or a crash prevent.
GiveUp(d) ==
    /\ d \in queueing
    /\ queueing' = queueing \ {d}
    /\ UNCHANGED <<emails, asked>>

\* The steps of a row's status: a worker claims it, then records an outcome,
\* perhaps over that of another worker that claimed it as stale.
Transitions == {
    <<"PENDING", "RETRYING">>, <<"FAILED", "RETRYING">>,
    <<"RETRYING", "SENT">>, <<"RETRYING", "FAILED">>,
    <<"FAILED", "SENT">>, <<"SENT", "FAILED">>}

Progress(d) ==
    /\ d \in asked
    /\ \E status \in Statuses :
        /\ <<emails[d], status>> \in Transitions
        /\ emails' = [emails EXCEPT ![d] = status]
    /\ UNCHANGED <<queueing, asked>>

OutboxNext ==
    \E d \in Deliveries : Create(d) \/ HandOver(d) \/ GiveUp(d) \/ Progress(d)

OutboxSpec == OutboxInit /\ [][OutboxNext]_outbox
===============================================================================
