------------------------- MODULE AlertDelivery_proofs -------------------------
(***************************************************************************)
(* Theorems about AlertDelivery, for any number of alerts, recipients and  *)
(* concurrent evaluations, whatever the workers do to the e-mails.         *)
(***************************************************************************)
EXTENDS AlertDelivery, TLAPS

-------------------------------------------------------------------------------
(***************************************************************************)
(* The inductive invariant                                                 *)
(***************************************************************************)

\* The steps of the loop over the recipients.
Mailing == {"findEmail", "createEmail", "enqueue"}
AtRecipient == {"createNotification"} \cup Mailing
InLoop == {"findNotification"} \cup AtRecipient

\* What an evaluation has in hand where it stands: the alert it diffuses, the
\* recipient it is at, and that this one has had the notification.
InHand(e) ==
    /\ pc[e] \in InLoop => alert[e] \in Alerts
    /\ pc[e] \in AtRecipient => who[e] \in Recipients
    /\ pc[e] \in Mailing => Delivery(e) \in notified

\* A row stands for somebody who was notified, and so does an e-mail.
Told ==
    /\ notifications \subseteq notified
    /\ MailedWereNotified

IInv ==
    /\ TypeOK
    /\ \A e \in Evaluators : InHand(e)
    /\ Told

\* An evaluation that another one's step leaves where it is keeps what it has.
LEMMA HandFrame ==
    ASSUME NEW e \in Evaluators, InHand(e), notified \subseteq notified',
           pc'[e] = pc[e], alert'[e] = alert[e], who'[e] = who[e]
    PROVE  InHand(e)'
  BY DEF InHand, Delivery

LEMMA InitInv == Init => IInv
  BY AlertAssumption DEF Init, OutboxInit, IInv, TypeOK, InHand, InLoop, AtRecipient, Mailing, Told,
     MailedWereNotified, Statuses

-------------------------------------------------------------------------------
(***************************************************************************)
(* The outbox                                                              *)
(***************************************************************************)

\* The statuses stay statuses, and no row appears that was not created.
LEMMA OutboxKept ==
    ASSUME TypeOK, NEW d \in Deliveries, HandOver(d) \/ GiveUp(d) \/ Progress(d)
    PROVE  /\ emails' \in [Deliveries -> Statuses]
           /\ queueing' \subseteq Deliveries /\ asked' \subseteq Deliveries
           /\ \A c \in Deliveries : emails'[c] # "absent" => emails[c] # "absent"
<1>1. CASE HandOver(d)
  BY <1>1 DEF HandOver, TypeOK
<1>2. CASE GiveUp(d)
  BY <1>2 DEF GiveUp, TypeOK
<1>3. CASE Progress(d)
  BY <1>3 DEF Progress, Transitions, TypeOK, Statuses
<1> QED
  BY <1>1, <1>2, <1>3

LEMMA OutboxCreate ==
    ASSUME TypeOK, NEW d \in Deliveries, Create(d)
    PROVE  /\ emails' \in [Deliveries -> Statuses]
           /\ queueing' \subseteq Deliveries /\ asked' \subseteq Deliveries
           /\ \A c \in Deliveries : emails'[c] # "absent" => emails[c] # "absent" \/ c = d
  BY DEF Create, TypeOK, Statuses

-------------------------------------------------------------------------------
(***************************************************************************)
(* The evaluations                                                         *)
(***************************************************************************)
EvaluationTypes ==
    /\ pc \in [Evaluators ->
                 {"idle", "findActive", "createAlert", "findNotification",
                  "createNotification", "findEmail", "createEmail", "enqueue",
                  "findStale", "resolveStale"}]
    /\ alert \in [Evaluators -> Alerts \cup {None}]
    /\ todo \in [Evaluators -> SUBSET Recipients]
    /\ who \in [Evaluators -> Recipients \cup {None}]
    /\ found \in [Evaluators -> SUBSET Alerts]

\* What the steps of an evaluation have in common: the others' are untouched,
\* and whoever was notified stays so.
Keeps(e) ==
    /\ EvaluationTypes'
    /\ InHand(e)'
    /\ \A f \in Evaluators \ {e} : pc'[f] = pc[f] /\ alert'[f] = alert[f] /\ who'[f] = who[f]

LEMMA EndKeeps ==
    ASSUME TypeOK, NEW e \in Evaluators, End(e)
    PROVE  Keeps(e)
  BY DEF End, JumpTo, TypeOK, Keeps, EvaluationTypes, InHand, InLoop, AtRecipient, Mailing

LEMMA FanOutKeeps ==
    ASSUME TypeOK, NEW e \in Evaluators, NEW a \in Alerts, FanOut(e, a)
    PROVE  Keeps(e)
  BY DEF FanOut, JumpTo, TypeOK, Keeps, EvaluationTypes, InHand, InLoop, AtRecipient, Mailing

LEMMA NextRecipientKeeps ==
    ASSUME TypeOK, NEW e \in Evaluators, InHand(e), pc[e] \in InLoop, NextRecipient(e)
    PROVE  Keeps(e)
<1>1. CASE todo[e] = {}
  BY <1>1, EndKeeps DEF NextRecipient
<1>2. CASE todo[e] # {}
  BY <1>2 DEF NextRecipient, JumpTo, TypeOK, Keeps, EvaluationTypes, InHand, InLoop, AtRecipient,
     Mailing
<1> QED
  BY <1>1, <1>2

\* A step that keeps the evaluations and closes alerts at most.
LEMMA StepKept ==
    ASSUME IInv, NEW e \in Evaluators, Keeps(e),
           over' \in BOOLEAN, changes' \in 0 .. MaxChanges, readers' \subseteq Recipients,
           faults' \in 0 .. MaxFaults,
           alerts' \in [Alerts -> {"absent", "ACTIVE", "CLOSED"}],
           notifications' \subseteq notified', notified' \subseteq Deliveries,
           notified \subseteq notified',
           emails' \in [Deliveries -> Statuses],
           queueing' \subseteq Deliveries, asked' \subseteq Deliveries,
           \A d \in Deliveries : emails'[d] # "absent" => emails[d] # "absent" \/ d \in notified
    PROVE  IInv'
<1>1. TypeOK'
  BY DEF Keeps, EvaluationTypes, TypeOK
<1>2. \A f \in Evaluators : InHand(f)'
  BY HandFrame DEF IInv, Keeps
<1>3. Told'
  BY DEF IInv, Told, MailedWereNotified
<1> QED
  BY <1>1, <1>2, <1>3 DEF IInv

LEMMA EvaluationKept ==
    ASSUME IInv, NEW e \in Evaluators, EvaluationStep(e) \/ Abort(e)
    PROVE  IInv'
<1> USE AlertAssumption
<1>t. /\ TypeOK /\ InHand(e) /\ Told
      /\ emails \in [Deliveries -> Statuses] /\ queueing \subseteq Deliveries
      /\ asked \subseteq Deliveries /\ notified \subseteq Deliveries
      /\ notifications \subseteq notified
      /\ over \in BOOLEAN /\ changes \in 0 .. MaxChanges /\ readers \subseteq Recipients
      /\ faults \in 0 .. MaxFaults
      /\ alerts \in [Alerts -> {"absent", "ACTIVE", "CLOSED"}]
  BY DEF IInv, TypeOK, Told
<1>m. pc[e] \in Mailing => Delivery(e) \in Deliveries /\ Delivery(e) \in notified
  BY <1>t DEF InHand
<1>1. CASE Evaluate(e)
  <2>1. Keeps(e)
    BY <1>1, <1>t DEF Evaluate, JumpTo, TypeOK, Keeps, EvaluationTypes, InHand, InLoop,
       AtRecipient, Mailing
  <2> QED
    BY <1>1, <1>t, <2>1, StepKept DEF Evaluate, outbox, context
<1>2. CASE FindActive(e)
  <2>1. Keeps(e)
    <3>1. CASE Active = {}
      BY <1>2, <1>t, <3>1 DEF FindActive, JumpTo, TypeOK, Keeps, EvaluationTypes, InHand, InLoop,
         AtRecipient, Mailing
    <3>2. CASE Active # {}
      <4>1. PICK a \in Alerts : FanOut(e, a)
        BY <1>2, <3>2 DEF FindActive, Active
      <4> QED
        BY <1>t, <4>1, FanOutKeeps
    <3> QED
      BY <3>1, <3>2
  <2>2. UNCHANGED <<context, alerts, notifications, notified, outbox, faults>>
    BY <1>2 DEF FindActive
  <2> QED
    BY <1>t, <2>1, <2>2, StepKept DEF outbox, context
<1>3. CASE CreateAlert(e)
  <2>1. UNCHANGED <<context, notifications, notified, faults, emails, queueing, asked>>
    BY <1>3 DEF CreateAlert, outbox
  <2>2. CASE \E a \in Alerts : alerts' = [alerts EXCEPT ![a] = "ACTIVE"] /\ FanOut(e, a)
    <3>1. PICK a \in Alerts : alerts' = [alerts EXCEPT ![a] = "ACTIVE"] /\ FanOut(e, a)
      BY <2>2
    <3>2. alerts' \in [Alerts -> {"absent", "ACTIVE", "CLOSED"}]
      BY <1>t, <3>1
    <3>3. Keeps(e)
      BY <1>t, <3>1, FanOutKeeps
    <3> QED
      BY <1>t, <2>1, <3>2, <3>3, StepKept DEF context
  <2>3. CASE End(e) /\ UNCHANGED alerts
    BY <1>t, <2>1, <2>3, EndKeeps, StepKept DEF context
  <2>4. ~Spent => \E fresh \in Alerts : alerts[fresh] = "absent"
    BY DEF Spent, Created
  <2> QED
    BY <1>3, <2>2, <2>3, <2>4 DEF CreateAlert
<1>4. CASE FindNotification(e)
  <2>1. PICK r \in todo[e] :
          /\ todo' = [todo EXCEPT ![e] = @ \ {r}]
          /\ who' = [who EXCEPT ![e] = r]
          /\ JumpTo(e, IF <<alert[e], r>> \in notifications
                       THEN "findEmail" ELSE "createNotification")
    BY <1>4 DEF FindNotification
  <2>2. /\ UNCHANGED <<context, alerts, notifications, notified, alert, found>>
        /\ UNCHANGED <<outbox, faults>> /\ pc[e] = "findNotification"
    BY <1>4 DEF FindNotification
  <2>3. r \in Recipients /\ alert[e] \in Alerts
    BY <1>t, <2>1, <2>2 DEF TypeOK, InHand, InLoop
  <2>4. EvaluationTypes'
    BY <1>t, <2>1, <2>2, <2>3 DEF JumpTo, TypeOK, EvaluationTypes
  <2>5. InHand(e)'
    BY <1>t, <2>1, <2>2, <2>3 DEF JumpTo, TypeOK, InHand, InLoop, AtRecipient, Mailing, Delivery
  <2>6. Keeps(e)
    BY <2>1, <2>2, <2>4, <2>5, <1>t DEF JumpTo, Keeps, TypeOK
  <2> QED
    BY <1>t, <2>2, <2>6, StepKept DEF outbox, context
<1>5. CASE CreateNotification(e)
  <2>1. /\ pc[e] = "createNotification" /\ alert[e] \in Alerts /\ who[e] \in Recipients
        /\ notifications' = notifications \cup {Delivery(e)}
        /\ notified' = notified \cup {Delivery(e)}
        /\ UNCHANGED <<context, alerts, alert, todo, who, found, outbox, faults>>
        /\ JumpTo(e, "findEmail")
    BY <1>5, <1>t DEF CreateNotification, InHand, InLoop, AtRecipient
  <2>2. Delivery(e) \in Deliveries
    BY <2>1 DEF Delivery
  <2>3. Keeps(e)
    BY <1>t, <2>1, <2>2 DEF JumpTo, TypeOK, Keeps, EvaluationTypes, InHand, InLoop, AtRecipient,
       Mailing, Delivery
  <2> QED
    BY <1>t, <2>1, <2>2, <2>3, StepKept DEF outbox, context
<1>6. CASE FindEmail(e)
  <2>1. /\ pc[e] = "findEmail"
        /\ UNCHANGED <<context, alerts, notifications, notified, outbox, faults>>
    BY <1>6 DEF FindEmail
  <2>2. Keeps(e)
    <3>1. CASE NextRecipient(e)
      BY <1>t, <2>1, <3>1, NextRecipientKeeps DEF InLoop, AtRecipient, Mailing
    <3>2. CASE JumpTo(e, "createEmail") /\ UNCHANGED <<alert, todo, who, found>>
      BY <1>t, <2>1, <3>2 DEF JumpTo, TypeOK, Keeps, EvaluationTypes, InHand, InLoop,
         AtRecipient, Mailing, Delivery
    <3> QED
      BY <1>6, <3>1, <3>2 DEF FindEmail
  <2> QED
    BY <1>t, <2>1, <2>2, StepKept DEF outbox, context
<1>7. CASE CreateEmail(e)
  <2>1. /\ pc[e] = "createEmail" /\ pc[e] \in Mailing /\ pc[e] \in InLoop
        /\ UNCHANGED <<context, alerts, notifications, notified, faults>>
    BY <1>7 DEF CreateEmail, InLoop, AtRecipient, Mailing
  <2>2. CASE Create(Delivery(e)) /\ JumpTo(e, "enqueue") /\ UNCHANGED <<alert, todo, who, found>>
    <3>1. Keeps(e)
      BY <1>t, <2>1, <2>2 DEF JumpTo, TypeOK, Keeps, EvaluationTypes, InHand, InLoop,
         AtRecipient, Mailing, Delivery
    <3>2. /\ emails' \in [Deliveries -> Statuses]
          /\ queueing' \subseteq Deliveries /\ asked' \subseteq Deliveries
          /\ \A c \in Deliveries : emails'[c] # "absent" => emails[c] # "absent" \/ c = Delivery(e)
      BY <1>t, <1>m, <2>1, <2>2, OutboxCreate
    <3> QED
      BY <1>t, <1>m, <2>1, <3>1, <3>2, StepKept DEF context
  <2>3. CASE NextRecipient(e) /\ UNCHANGED outbox
    BY <1>t, <2>1, <2>3, NextRecipientKeeps, StepKept DEF outbox, context
  <2> QED
    BY <1>7, <2>2, <2>3 DEF CreateEmail
<1>8. CASE EnqueueEmail(e)
  <2>1. /\ pc[e] \in Mailing /\ pc[e] \in InLoop /\ HandOver(Delivery(e)) /\ NextRecipient(e)
        /\ UNCHANGED <<context, alerts, notifications, notified, faults>>
    BY <1>8 DEF EnqueueEmail, InLoop, AtRecipient, Mailing
  <2>2. Keeps(e)
    BY <1>t, <2>1, NextRecipientKeeps
  <2>3. /\ emails' \in [Deliveries -> Statuses]
        /\ queueing' \subseteq Deliveries /\ asked' \subseteq Deliveries
        /\ \A c \in Deliveries : emails'[c] # "absent" => emails[c] # "absent"
    BY <1>t, <1>m, <2>1, OutboxKept
  <2> QED
    BY <1>t, <2>1, <2>2, <2>3, StepKept DEF context
<1>9. CASE FindStale(e)
  <2>1. UNCHANGED <<context, alerts, notifications, notified, outbox, faults>>
    BY <1>9 DEF FindStale
  <2>2. Keeps(e)
    <3>1. CASE End(e)
      BY <1>t, <3>1, EndKeeps
    <3>2. CASE /\ found' = [found EXCEPT ![e] = Active] /\ JumpTo(e, "resolveStale")
               /\ UNCHANGED <<alert, todo, who>>
      BY <1>t, <3>2 DEF JumpTo, TypeOK, Keeps, EvaluationTypes, InHand, InLoop, AtRecipient,
         Mailing, Active
    <3> QED
      BY <1>9, <3>1, <3>2 DEF FindStale
  <2> QED
    BY <1>t, <2>1, <2>2, StepKept DEF outbox, context
<1>10. CASE ResolveStale(e)
  <2>1. /\ alerts' = [a \in Alerts |-> IF a \in found[e] THEN "CLOSED" ELSE alerts[a]]
        /\ UNCHANGED <<context, notifications, notified, outbox, faults>>
        /\ Keeps(e)
    BY <1>10, <1>t, EndKeeps DEF ResolveStale
  <2>2. alerts' \in [Alerts -> {"absent", "ACTIVE", "CLOSED"}]
    BY <1>t, <2>1
  <2> QED
    BY <1>t, <2>1, <2>2, StepKept DEF outbox, context
<1>11. CASE Abort(e)
  <2>1. /\ faults < MaxFaults /\ faults' = faults + 1
        /\ UNCHANGED <<context, alerts, notifications, notified>>
        /\ Keeps(e)
    BY <1>11, <1>t, EndKeeps DEF Abort
  <2>2. faults' \in 0 .. MaxFaults
    BY <1>t, <2>1
  <2>3. /\ emails' \in [Deliveries -> Statuses]
        /\ queueing' \subseteq Deliveries /\ asked' \subseteq Deliveries
        /\ \A c \in Deliveries : emails'[c] # "absent" => emails[c] # "absent"
    <3>1. CASE pc[e] = "enqueue"
      <4>1. GiveUp(Delivery(e)) \/ HandOver(Delivery(e))
        BY <1>11, <3>1 DEF Abort
      <4> QED
        BY <1>t, <1>m, <3>1, <4>1, OutboxKept DEF Mailing
    <3>2. CASE pc[e] # "enqueue"
      BY <1>11, <1>t, <3>2 DEF Abort, outbox
    <3> QED
      BY <3>1, <3>2
  <2> QED
    BY <1>t, <2>1, <2>2, <2>3, StepKept DEF context
<1> QED
  BY <1>1, <1>2, <1>3, <1>4, <1>5, <1>6, <1>7, <1>8, <1>9, <1>10, <1>11 DEF EvaluationStep

-------------------------------------------------------------------------------
(***************************************************************************)
(* The users, the line and the workers                                     *)
(***************************************************************************)

\* A step that leaves every evaluation where it is.
LEMMA OthersKept ==
    ASSUME IInv, UNCHANGED <<evaluation, notified, faults>>,
           over' \in BOOLEAN, changes' \in 0 .. MaxChanges, readers' \subseteq Recipients,
           alerts' \in [Alerts -> {"absent", "ACTIVE", "CLOSED"}],
           notifications' \subseteq notifications,
           emails' \in [Deliveries -> Statuses],
           queueing' \subseteq Deliveries, asked' \subseteq Deliveries,
           \A d \in Deliveries : emails'[d] # "absent" => emails[d] # "absent"
    PROVE  IInv'
<1>1. TypeOK'
  BY DEF IInv, TypeOK, evaluation
<1>2. \A e \in Evaluators : InHand(e)'
  BY DEF IInv, InHand, Delivery, evaluation
<1>3. Told'
  BY DEF IInv, Told, MailedWereNotified
<1> QED
  BY <1>1, <1>2, <1>3 DEF IInv

LEMMA NextInv == IInv /\ [Next]_vars => IInv'
<1> SUFFICES ASSUME IInv, [Next]_vars PROVE IInv'
  OBVIOUS
<1>t. TypeOK
  BY DEF IInv
<1>1. ASSUME NEW e \in Evaluators, EvaluationStep(e) \/ Abort(e) PROVE IInv'
  BY <1>1, EvaluationKept
<1>2. ASSUME NEW a \in Alerts, Close(a) PROVE IInv'
  BY <1>2, <1>t, OthersKept DEF Close, TypeOK, outbox, context
<1>3. ASSUME NEW r \in Recipients, Clear(r) \/ Appoint(r) PROVE IInv'
  <2>1. CASE Clear(r)
    BY <2>1, <1>t, OthersKept DEF Clear, TypeOK, outbox, context
  <2>2. CASE Appoint(r)
    BY <2>2, <1>t, OthersKept DEF Appoint, TypeOK, outbox
  <2> QED
    BY <1>3, <2>1, <2>2
<1>4. CASE Change
  BY <1>4, <1>t, AlertAssumption, OthersKept DEF Change, TypeOK, outbox
<1>5. ASSUME NEW d \in Deliveries, Send(d) PROVE IInv'
  <2>1. /\ emails' \in [Deliveries -> Statuses]
        /\ queueing' \subseteq Deliveries /\ asked' \subseteq Deliveries
        /\ \A c \in Deliveries : emails'[c] # "absent" => emails[c] # "absent"
    BY <1>5, <1>t, OutboxKept DEF Send
  <2>2. UNCHANGED <<context, alerts, notifications, notified, evaluation, faults>>
    BY <1>5 DEF Send, alertVars
  <2> QED
    BY <1>t, <2>1, <2>2, OthersKept DEF TypeOK, context
<1>6. CASE UNCHANGED vars
  <2>1. UNCHANGED <<context, alerts, notifications, notified, evaluation, faults>>
    BY <1>6 DEF vars, alertVars
  <2>2. UNCHANGED <<emails, queueing, asked>>
    BY <1>6 DEF vars, outbox
  <2> QED
    BY <1>t, <2>1, <2>2, OthersKept DEF TypeOK, context
<1> QED
  BY <1>1, <1>2, <1>3, <1>4, <1>5, <1>6 DEF Next

-------------------------------------------------------------------------------
(***************************************************************************)
(* Theorems                                                                *)
(***************************************************************************)

\* Alerts, rows and evaluations stay of their types.
THEOREM AlertTypes == Spec => []TypeOK
<1>1. IInv => TypeOK
  BY DEF IInv
<1> QED
  BY InitInv, NextInv, <1>1, PTL DEF Spec

\* An e-mail is created only once its recipient has had the notification,
\* though the row may be cleared at any time (fanOutAlertChannels).
THEOREM MailedAfterNotified == Spec => []MailedWereNotified
<1>1. IInv => MailedWereNotified
  BY DEF IInv, Told
<1> QED
  BY InitInv, NextInv, <1>1, PTL DEF Spec
===============================================================================
