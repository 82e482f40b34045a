---------------------------- MODULE AlertDelivery -----------------------------
(***************************************************************************)
(* Alerts and the channels that carry them: the evaluation of one CRITICAL *)
(* rule on one entity (a budget line over its forecast), run at the same   *)
(* time by several API instances and by POST /api/alerts/evaluate; the     *)
(* alert it keeps up to date; one notification and one e-mail per          *)
(* recipient.  An alert id is an occurrence: once closed, the condition    *)
(* coming back makes another alert.                                        *)
(*                                                                         *)
(* The e-mails are those of EmailOutbox, which EmailDelivery implements.    *)
(***************************************************************************)
EXTENDS EmailOutbox, Naturals, FiniteSets

CONSTANTS
    Alerts,         \* Alert ids (bound: how many may be created)
    Recipients,     \* users of the client
    Readers,        \* those with alerts.read when the run begins
    Evaluators,     \* evaluations the API instances run at the same time
    None,           \* no alert, no recipient
    MaxChanges,     \* how often the condition changes (bound)
    MaxFaults,      \* crashes and refusals of a run (bound)
    MaxDeliveries   \* recipients of all the alerts of a run, added up (bound)

ASSUME AlertAssumption ==
    /\ Deliveries = Alerts \X Recipients
    /\ Readers \subseteq Recipients
    /\ None \notin Alerts \cup Recipients
    /\ MaxChanges \in Nat
    /\ MaxFaults \in Nat
    /\ MaxDeliveries \in Nat

VARIABLES
    over,           \* the line is engaged beyond its forecast
    changes,        \* changes of the condition so far
    readers,        \* users with alerts.read
    alerts,         \* Alert.status; CLOSED stands for RESOLVED and DISMISSED
    notifications,  \* Notification rows, by alert and user
    notified,       \* history: users an alert was notified to
    pc,             \* the statement each evaluation is about to run
    alert,          \* the alert it diffuses
    todo,           \* the recipients it has left
    who,            \* the recipient it is at
    found,          \* the stale alerts it has read
    faults          \* faults so far

context == <<over, changes, readers>>
evaluation == <<pc, alert, todo, who, found>>
alertVars == <<context, alerts, notifications, notified, evaluation, faults>>
vars == <<outbox, alertVars>>

Init ==
    /\ OutboxInit
    /\ over \in BOOLEAN
    /\ changes = 0
    /\ readers = Readers
    /\ alerts = [a \in Alerts |-> "absent"]
    /\ notifications = {}
    /\ notified = {}
    /\ pc = [e \in Evaluators |-> "idle"]
    /\ alert = [e \in Evaluators |-> None]
    /\ todo = [e \in Evaluators |-> {}]
    /\ who = [e \in Evaluators |-> None]
    /\ found = [e \in Evaluators |-> {}]
    /\ faults = 0

Active == {a \in Alerts : alerts[a] = "ACTIVE"}

Delivery(e) == <<alert[e], who[e]>>

-------------------------------------------------------------------------------
(***************************************************************************)
(* AlertsTriggerService.evaluateBudgetAlerts                               *)
(***************************************************************************)
JumpTo(e, next) == pc' = [pc EXCEPT ![e] = next]

\* The lines are read once; only an evaluation that sees the condition gone
\* has anything to resolve.
Evaluate(e) ==
    /\ pc[e] = "idle"
    /\ JumpTo(e, IF over THEN "findActive" ELSE "findStale")
    /\ UNCHANGED <<context, alerts, notifications, notified, alert, todo, who, found>>
    /\ UNCHANGED <<outbox, faults>>

\* An exception ends the evaluation; its variables die with it.
End(e) ==
    /\ JumpTo(e, "idle")
    /\ alert' = [alert EXCEPT ![e] = None]
    /\ todo' = [todo EXCEPT ![e] = {}]
    /\ who' = [who EXCEPT ![e] = None]
    /\ found' = [found EXCEPT ![e] = {}]

\* fanOutAlertChannels begins: the recipients are read.
FanOut(e, a) ==
    /\ JumpTo(e, "findNotification")
    /\ alert' = [alert EXCEPT ![e] = a]
    /\ todo' = [todo EXCEPT ![e] = readers]
    /\ UNCHANGED <<who, found>>

FindActiveNoFanOut(e) ==
    /\ pc[e] = "findActive"
    /\ IF Active = {}
       THEN JumpTo(e, "createAlert") /\ UNCHANGED <<alert, todo, who, found>>
       ELSE End(e)
    /\ UNCHANGED <<context, alerts, notifications, notified>>
    /\ UNCHANGED <<outbox, faults>>

\* upsertAlert: an ACTIVE alert is reused, its text refreshed.
FindActive(e) ==
    /\ pc[e] = "findActive"
    /\ IF Active = {}
       THEN JumpTo(e, "createAlert") /\ UNCHANGED <<alert, todo, who, found>>
       ELSE \E a \in Active : FanOut(e, a)
    /\ UNCHANGED <<context, alerts, notifications, notified>>
    /\ UNCHANGED <<outbox, faults>>

Created == {a \in Alerts : alerts[a] # "absent"}

\* Every alert the run may create has been created (bound).
Spent ==
    \/ Created = Alerts
    \/ (Cardinality(Created) + 1) * Cardinality(readers) > MaxDeliveries

\* The partial unique index on ACTIVE alerts.
Duplicate == Active # {}

\* The loser of a race throws.  (Which fresh id is taken does not matter.)
CreateAlert(e) ==
    /\ pc[e] = "createAlert"
    /\ \/ LET a == CHOOSE fresh \in Alerts : alerts[fresh] = "absent" IN
            /\ ~Duplicate
            /\ ~Spent
            /\ alerts' = [alerts EXCEPT ![a] = "ACTIVE"]
            /\ FanOut(e, a)
       \/ /\ Duplicate \/ Spent
          /\ End(e)
          /\ UNCHANGED alerts
    /\ UNCHANGED <<context, notifications, notified>>
    /\ UNCHANGED <<outbox, faults>>

\* The recipient is done with: the next one, or the end (the entity is among
\* activeEntityIds, so resolveStaleByRule finds nothing).
NextRecipient(e) ==
    IF todo[e] = {} THEN End(e)
    ELSE /\ JumpTo(e, "findNotification")
         /\ who' = [who EXCEPT ![e] = None]
         /\ UNCHANGED <<alert, todo, found>>

FindNotificationForgetsUser(e) ==
    /\ pc[e] = "findNotification"
    /\ \E r \in todo[e] :
        /\ todo' = [todo EXCEPT ![e] = @ \ {r}]
        /\ JumpTo(e, IF <<alert[e], r>> \in notifications
                     THEN "findEmail" ELSE "createNotification")
    /\ UNCHANGED <<context, alerts, notifications, notified, alert, who, found>>
    /\ UNCHANGED <<outbox, faults>>

FindNotificationOfAnybody(e) ==
    /\ pc[e] = "findNotification"
    /\ \E r \in todo[e] :
        /\ todo' = [todo EXCEPT ![e] = @ \ {r}]
        /\ who' = [who EXCEPT ![e] = r]
        /\ JumpTo(e, IF \E n \in notifications : n[2] = r
                     THEN "findEmail" ELSE "createNotification")
    /\ UNCHANGED <<context, alerts, notifications, notified, alert, found>>
    /\ UNCHANGED <<outbox, faults>>

FindNotification(e) ==
    /\ pc[e] = "findNotification"
    /\ \E r \in todo[e] :
        /\ todo' = [todo EXCEPT ![e] = @ \ {r}]
        /\ who' = [who EXCEPT ![e] = r]
        /\ JumpTo(e, IF <<alert[e], r>> \in notifications
                     THEN "findEmail" ELSE "createNotification")
    /\ UNCHANGED <<context, alerts, notifications, notified, alert, found>>
    /\ UNCHANGED <<outbox, faults>>

\* A row inserted meanwhile violates the unique index: swallowed.
CreateNotification(e) ==
    /\ pc[e] = "createNotification"
    /\ notifications' = notifications \cup {Delivery(e)}
    /\ notified' = notified \cup {Delivery(e)}
    /\ JumpTo(e, "findEmail")
    /\ UNCHANGED <<context, alerts, alert, todo, who, found>>
    /\ UNCHANGED <<outbox, faults>>

\* The statuses that count as an e-mail already on its way.
OnItsWay == {"PENDING", "SENT", "RETRYING"}

FindEmailOfAnybody(e) ==
    /\ pc[e] = "findEmail"
    /\ IF \E r \in readers : emails[<<alert[e], r>>] \in OnItsWay
       THEN NextRecipient(e)
       ELSE JumpTo(e, "createEmail") /\ UNCHANGED <<alert, todo, who, found>>
    /\ UNCHANGED <<context, alerts, notifications, notified>>
    /\ UNCHANGED <<outbox, faults>>

FindEmail(e) ==
    /\ pc[e] = "findEmail"
    /\ IF emails[Delivery(e)] \in OnItsWay
       THEN NextRecipient(e)
       ELSE JumpTo(e, "createEmail") /\ UNCHANGED <<alert, todo, who, found>>
    /\ UNCHANGED <<context, alerts, notifications, notified>>
    /\ UNCHANGED <<outbox, faults>>

\* A row inserted meanwhile, or FAILED, violates the unique index: swallowed.
CreateEmail(e) ==
    /\ pc[e] = "createEmail"
    /\ \/ /\ Create(Delivery(e))
          /\ JumpTo(e, "enqueue")
          /\ UNCHANGED <<alert, todo, who, found>>
       \/ /\ emails[Delivery(e)] # "absent"
          /\ NextRecipient(e)
          /\ UNCHANGED outbox
    /\ UNCHANGED <<context, alerts, notifications, notified, faults>>

EnqueueEmail(e) ==
    /\ pc[e] = "enqueue"
    /\ HandOver(Delivery(e))
    /\ NextRecipient(e)
    /\ UNCHANGED <<context, alerts, notifications, notified, faults>>

\* Redis or the database throws, or the API process dies: what was written stays.
Abort(e) ==
    /\ pc[e] # "idle"
    /\ faults < MaxFaults
    /\ faults' = faults + 1
    /\ IF pc[e] = "enqueue"
       THEN GiveUp(Delivery(e)) \/ HandOver(Delivery(e))   \* its answer is lost
       ELSE UNCHANGED outbox
    /\ End(e)
    /\ UNCHANGED <<context, alerts, notifications, notified>>

FindStaleUnlessClosed(e) ==
    /\ pc[e] = "findStale"
    /\ IF Active = {} \/ \E a \in Alerts : alerts[a] = "CLOSED"
       THEN End(e)
       ELSE /\ found' = [found EXCEPT ![e] = Active]
            /\ JumpTo(e, "resolveStale")
            /\ UNCHANGED <<alert, todo, who>>
    /\ UNCHANGED <<context, alerts, notifications, notified>>
    /\ UNCHANGED <<outbox, faults>>

\* resolveStaleByRule reads the ACTIVE alerts of the rule ...
FindStale(e) ==
    /\ pc[e] = "findStale"
    /\ IF Active = {}
       THEN End(e)
       ELSE /\ found' = [found EXCEPT ![e] = Active]
            /\ JumpTo(e, "resolveStale")
            /\ UNCHANGED <<alert, todo, who>>
    /\ UNCHANGED <<context, alerts, notifications, notified>>
    /\ UNCHANGED <<outbox, faults>>

\* ... and updates them by id, whatever they have become.
ResolveStale(e) ==
    /\ pc[e] = "resolveStale"
    /\ alerts' = [a \in Alerts |-> IF a \in found[e] THEN "CLOSED" ELSE alerts[a]]
    /\ End(e)
    /\ UNCHANGED <<context, notifications, notified>>
    /\ UNCHANGED <<outbox, faults>>

-------------------------------------------------------------------------------
(***************************************************************************)
(* The users, and the line                                                 *)
(***************************************************************************)

\* AlertsService.resolve and dismiss: by id, from any status.
Close(a) ==
    /\ alerts[a] # "absent"
    /\ alerts' = [alerts EXCEPT ![a] = "CLOSED"]
    /\ UNCHANGED <<context, notifications, notified, evaluation>>
    /\ UNCHANGED <<outbox, faults>>

\* NotificationsService.clearOne and clearAll.
Clear(r) ==
    /\ \E gone \in SUBSET {n \in notifications : n[2] = r} :
        gone # {} /\ notifications' = notifications \ gone
    /\ UNCHANGED <<context, alerts, notified, evaluation>>
    /\ UNCHANGED <<outbox, faults>>

Change ==
    /\ changes < MaxChanges
    /\ changes' = changes + 1
    /\ over' = ~over
    /\ UNCHANGED <<readers, alerts, notifications, notified, evaluation>>
    /\ UNCHANGED <<outbox, faults>>

\* A user receives alerts.read, by a role or by becoming CLIENT_ADMIN.
Appoint(r) ==
    /\ r \notin readers
    /\ Cardinality(Created) * (Cardinality(readers) + 1) <= MaxDeliveries
    /\ readers' = readers \cup {r}
    /\ UNCHANGED <<over, changes, alerts, notifications, notified, evaluation>>
    /\ UNCHANGED <<outbox, faults>>

-------------------------------------------------------------------------------
EvaluationStep(e) ==
    \/ Evaluate(e) \/ FindActive(e) \/ CreateAlert(e)
    \/ FindNotification(e) \/ CreateNotification(e)
    \/ FindEmail(e) \/ CreateEmail(e) \/ EnqueueEmail(e)
    \/ FindStale(e) \/ ResolveStale(e)

\* The workers move a row on.
Send(d) == Progress(d) /\ UNCHANGED alertVars

Next ==
    \/ \E e \in Evaluators : EvaluationStep(e) \/ Abort(e)
    \/ \E a \in Alerts : Close(a)
    \/ \E r \in Recipients : Clear(r) \/ Appoint(r)
    \/ Change
    \/ \E d \in Deliveries : Send(d)

\* The cron runs again and again, and an evaluation goes on.
Fairness == \A e \in Evaluators : WF_vars(EvaluationStep(e))

Spec == Init /\ [][Next]_vars /\ Fairness

-------------------------------------------------------------------------------
(***************************************************************************)
(* Properties                                                              *)
(***************************************************************************)

TypeOK ==
    /\ emails \in [Deliveries -> Statuses]
    /\ queueing \subseteq Deliveries
    /\ asked \subseteq Deliveries
    /\ over \in BOOLEAN
    /\ changes \in 0 .. MaxChanges
    /\ readers \subseteq Recipients
    /\ alerts \in [Alerts -> {"absent", "ACTIVE", "CLOSED"}]
    /\ notifications \subseteq Deliveries
    /\ notified \subseteq Deliveries
    /\ pc \in [Evaluators ->
                 {"idle", "findActive", "createAlert", "findNotification",
                  "createNotification", "findEmail", "createEmail", "enqueue",
                  "findStale", "resolveStale"}]
    /\ alert \in [Evaluators -> Alerts \cup {None}]
    /\ todo \in [Evaluators -> SUBSET Recipients]
    /\ who \in [Evaluators -> Recipients \cup {None}]
    /\ found \in [Evaluators -> SUBSET Alerts]
    /\ faults \in 0 .. MaxFaults

\* An alert is mailed to nobody it has not been notified to: a recipient whose
\* e-mail exists has had the notification, even if it was cleared since.
MailedWereNotified ==
    \A d \in Deliveries : emails[d] # "absent" => d \in notified

\* Alerts that stay ACTIVE while the condition holds reach every recipient,
\* one appointed since included, whichever evaluations fail on the way, even
\* between two of them: time and again nobody is left, unless the condition
\* is gone.
EverybodyNotified == []<>(over => Active \X readers \subseteq notified)

\* The evaluation that created this row ended before its job was queued.
Lost(d) == emails[d] = "PENDING" /\ d \notin queueing \cup asked

\* ... and a job is queued for each, whether an evaluation stopped before,
\* between or after the two rows of another: only an e-mail whose own enqueue
\* failed is never asked for.
OnlyLostUnmailed ==
    []<>(over => \A d \in Active \X readers : d \in asked \/ Lost(d))

\* Once the condition has settled, so do the alerts: none ACTIVE for good when
\* it is gone; when it holds, one ACTIVE again however often it is closed,
\* while occurrences are left (bound).
AlertsFollowCondition ==
    /\ <>[]~over => <>[](Active = {})
    /\ <>[]over => []<>(Active # {} \/ Spent)

\* RFC-038 4.8: a CRITICAL alert has a send_email job for every recipient.
EverybodyMailed == []<>(over => Active \X readers \subseteq asked)
===============================================================================
