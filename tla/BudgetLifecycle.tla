--------------------------- MODULE BudgetLifecycle ----------------------------
(***************************************************************************)
(* The workflow of one budget of a version set: its status, those of its   *)
(* envelopes and lines, the cascade that takes them along when the budget  *)
(* is submitted or validated, and the snapshots those milestones leave.    *)
(*                                                                         *)
(* Requests check what they read and write by id later; only the cascade   *)
(* runs in a transaction, whose writes are seen by others at its end and   *)
(* keep the rows locked until then (READ COMMITTED).                       *)
(***************************************************************************)
EXTENDS BudgetVersions

CONSTANTS
    Subject,        \* the version whose workflow is followed
    Envelopes,      \* budgetEnvelope ids of it
    Lines,          \* budgetLine ids of it
    Strict,         \* requireEnvelopesNonDraftForBudgetValidated
    MaxRequests,    \* requests of a behaviour (bound)
    MaxFaults       \* failures of a behaviour (bound)

ASSUME LifecycleAssumption ==
    /\ Subject \in Versions
    /\ Envelopes \cap Lines = {}
    /\ None \notin {"PENDING", "ACTIVE"}
    /\ Strict \in BOOLEAN
    /\ MaxRequests \in Nat
    /\ MaxFaults \in Nat

VARIABLES
    status,         \* Budget.status
    child,          \* the status of each envelope and line
    counted,        \* the counts each request has run
    found,          \* those that found a child
    written,        \* what each cascade has written and not committed
    pass,           \* the pass it is in
    todo,           \* the children its pass has left
    row,            \* the child it is at
    snapshots,      \* the milestone snapshots
    touched,        \* history: requests that a child escaped: another request
                    \* gave it a status they had counted
    slipped,        \* history: requests that an envelope in DRAFT escaped
    early,          \* history: requests older than the freeze
    overwrote,      \* history: rows written over a status nobody read
    requests,       \* requests so far
    faults          \* failures so far

counts == <<counted, found>>
cascade == <<written, pass, todo, row>>
history == <<touched, slipped, early, overwrote>>
counters == <<requests, faults>>
vars == <<versionRows, request, status, child, counts, cascade, snapshots, history, counters>>

Children == Envelopes \cup Lines

BudgetStatuses == {"DRAFT", "SUBMITTED", "REVISED", "VALIDATED", "LOCKED", "ARCHIVED"}
ClosedStatus(x) == IF x \in Envelopes THEN "LOCKED" ELSE "CLOSED"
ChildStatuses(x) ==
    {"DRAFT", "PENDING", "ACTIVE", "REJECTED", "DEFERRED", "ARCHIVED", ClosedStatus(x)}

BudgetPolicy ==
    {<<"DRAFT", "SUBMITTED">>, <<"DRAFT", "ARCHIVED">>,
     <<"SUBMITTED", "REVISED">>, <<"SUBMITTED", "VALIDATED">>, <<"SUBMITTED", "DRAFT">>,
     <<"REVISED", "VALIDATED">>, <<"REVISED", "SUBMITTED">>, <<"REVISED", "DRAFT">>,
     <<"VALIDATED", "LOCKED">>, <<"VALIDATED", "REVISED">>, <<"VALIDATED", "SUBMITTED">>,
     <<"VALIDATED", "ARCHIVED">>, <<"LOCKED", "ARCHIVED">>}

\* Envelopes and lines have the same policy, but for the name of the end.
ChildPolicy(x) ==
    {<<"DRAFT", "PENDING">>, <<"DRAFT", "ARCHIVED">>,
     <<"PENDING", "ACTIVE">>, <<"PENDING", "REJECTED">>, <<"PENDING", "DEFERRED">>,
     <<"REJECTED", "DRAFT">>, <<"DEFERRED", "DRAFT">>, <<"DEFERRED", "ACTIVE">>,
     <<"ACTIVE", "PENDING">>, <<"ACTIVE", ClosedStatus(x)>>, <<"ACTIVE", "DEFERRED">>,
     <<ClosedStatus(x), "ARCHIVED">>}

\* Budgets, envelopes and lines are created with any status.
Init ==
    /\ VersionsInit
    /\ status \in BudgetStatuses \ {"LOCKED", "ARCHIVED"}
    /\ child \in [Children -> {"absent", "DRAFT", "PENDING", "ACTIVE"}]
    /\ counted = [c \in Callers |-> {}]
    /\ found = [c \in Callers |-> {}]
    /\ written = [c \in Callers |-> [x \in Children |-> None]]
    /\ pass = [c \in Callers |-> 0]
    /\ todo = [c \in Callers |-> {}]
    /\ row = [c \in Callers |-> None]
    /\ snapshots = {}
    /\ touched = {}
    /\ slipped = {}
    /\ early = {}
    /\ overwrote = {}
    /\ requests = 0
    /\ faults = 0

Locked(s) == s \in {"LOCKED", "ARCHIVED"}

\* Nothing of the budget may be written any more.
Closed == Locked(status) \/ Frozen(Subject)

Go(c, next) == at' = [at EXCEPT ![c] = next] /\ UNCHANGED <<about, seen>>

NoCascade == UNCHANGED cascade

Others(c) == {d \in Callers \ {c} : at[d] # "idle"}

\* The count a child is in.
Table(x) == IF x \in Envelopes THEN "BudgetEnvelope" ELSE "BudgetLine"
CountOf(x, s) == <<Table(x), s>>

Tables == {"BudgetEnvelope", "BudgetLine"}

DecisiveForDrafts(from, to) ==
    IF <<from, to>> \in {<<"DRAFT", "SUBMITTED">>, <<"SUBMITTED", "VALIDATED">>,
                        <<"REVISED", "VALIDATED">>}
    THEN Tables \X {"DRAFT"} ELSE {}

\* The counts that decide whether a change of status takes the children along
\* (requiresCascadeChildWorkflowConfirmation).
Decisive(from, to) ==
    IF from = "DRAFT" /\ to = "SUBMITTED" THEN Tables \X {"DRAFT"}
    ELSE IF from \in {"SUBMITTED", "REVISED"} /\ to = "VALIDATED"
         THEN Tables \X {"DRAFT", "PENDING"} ELSE {}

\* The counts c has behind it.
Ran(c) ==
    IF at[c] = "count" THEN counted[c]
    ELSE IF at[c] \in {"check", "write", "list", "read", "set", "recheck", "commit", "snapshot"}
         THEN Decisive(seen[c], about[c]) ELSE {}

Checked == {c \in Callers : at[c] \in {"write", "commit"}}

\* The history of a step of c that writes the children xs and may close the
\* budget; the request is over when it is idle again.
Record(c, xs) ==
    LET over == IF at'[c] = "idle" THEN {c} ELSE {}
        moved == {x \in xs : child'[x] # child[x]}
        intoDraft == {x \in moved \cap Envelopes : child'[x] = "DRAFT"}
    IN
    /\ touched' = (touched \cup {d \in Callers \ {c} :
                       \E x \in moved : CountOf(x, child'[x]) \in Ran(d)}) \ over
    /\ slipped' = (IF intoDraft = {} THEN slipped ELSE slipped \cup (Checked \ {c})) \ over
    /\ early' = (IF Closed' /\ ~Closed THEN early \cup Others(c) ELSE early) \ over

\* c writes x, which it has read with status s.
Overwrite(x, s, now) == overwrote' = IF s = now THEN overwrote ELSE overwrote \cup {x}

Reads(c) == Record(c, {}) /\ UNCHANGED overwrote

\* (A bound: MaxRequests.)
Begin(c) == requests < MaxRequests /\ requests' = requests + 1 /\ UNCHANGED faults

-------------------------------------------------------------------------------
(***************************************************************************)
(* BudgetsService.update                                                   *)
(***************************************************************************)

Pass(xs, from, to) == [rows |-> xs, from |-> from, to |-> to]

\* cascadeDraftToPendingForBudget is the first two, cascadeToValidatedForBudget
\* all four.
PassesBackwards ==
    <<Pass(Envelopes, "PENDING", "ACTIVE"), Pass(Lines, "PENDING", "ACTIVE"),
      Pass(Envelopes, "DRAFT", "PENDING"), Pass(Lines, "DRAFT", "PENDING")>>

Passes ==
    <<Pass(Envelopes, "DRAFT", "PENDING"), Pass(Lines, "DRAFT", "PENDING"),
      Pass(Envelopes, "PENDING", "ACTIVE"), Pass(Lines, "PENDING", "ACTIVE")>>

LastPass(to) == IF to = "SUBMITTED" THEN 2 ELSE 4

\* A form that sends the status along, unchanged, passes and rewrites it.
Update(c) ==
    /\ at[c] = "idle"
    /\ ~Closed
    /\ \E to \in BudgetStatuses :
        /\ to = status \/ <<status, to>> \in BudgetPolicy
        /\ Proceed(c, IF to = status THEN "write" ELSE "count", to, status)
    /\ Begin(c)
    /\ NoCascade
    /\ UNCHANGED <<versionRows, counts, status, child, snapshots>>
    /\ Reads(c)

\* The four counts run together, each on what is committed when it does.
\* (What the others find is not used.)
Count(c) ==
    /\ at[c] = "count"
    /\ \E q \in Decisive(seen[c], about[c]) \ counted[c] :
        /\ counted' = [counted EXCEPT ![c] = @ \cup {q}]
        /\ found' = IF \E x \in Children : CountOf(x, child[x]) = q
                    THEN [found EXCEPT ![c] = @ \cup {q}] ELSE found
    /\ NoCascade
    /\ UNCHANGED <<versionRows, request, status, child, snapshots, history, counters>>

\* A cascade must have been confirmed.
Decide(c) ==
    /\ at[c] = "count"
    /\ Decisive(seen[c], about[c]) \subseteq counted[c]
    /\ IF found[c] # {}
       THEN \/ /\ Go(c, "list")
               /\ pass' = [pass EXCEPT ![c] = 1]
            \/ Answer(c) /\ UNCHANGED pass
       ELSE /\ Go(c, IF about[c] = "VALIDATED" THEN "check" ELSE "write")
            /\ UNCHANGED pass
    /\ counted' = [counted EXCEPT ![c] = {}]
    /\ found' = [found EXCEPT ![c] = {}]
    /\ UNCHANGED <<versionRows, status, child, written, todo, row, snapshots, counters>>
    /\ Reads(c)

\* The requirement, outside any transaction.
CheckEnvelopes(c) ==
    /\ at[c] = "check"
    /\ IF Strict /\ \E x \in Envelopes : child[x] = "DRAFT" THEN Answer(c) ELSE Go(c, "write")
    /\ NoCascade
    /\ UNCHANGED <<versionRows, counts, status, child, snapshots, counters>>
    /\ Reads(c)

\* A change to SUBMITTED or VALIDATED is a milestone.
Finish(c) ==
    IF about[c] # seen[c] /\ about[c] \in {"SUBMITTED", "VALIDATED"}
    THEN Go(c, "snapshot") ELSE Answer(c)

WriteStatus(c) ==
    /\ at[c] = "write"
    /\ status' = about[c]
    /\ Finish(c)
    /\ Overwrite("budget", seen[c], status)
    /\ NoCascade
    /\ UNCHANGED <<versionRows, counts, child, snapshots, counters>>
    /\ Record(c, {})

-------------------------------------------------------------------------------
(***************************************************************************)
(* The cascade                                                             *)
(***************************************************************************)

\* What the transaction of c sees: its own writes over what is committed.
Sees(c) == [x \in Children |-> IF written[c][x] = None THEN child[x] ELSE written[c][x]]

\* The children of a pass are listed...
ListChildren(c) ==
    LET p == Passes[pass[c]]
        listed == {x \in p.rows : Sees(c)[x] = p.from}
    IN
    /\ at[c] = "list"
    /\ IF pass[c] > LastPass(about[c])
       THEN /\ Go(c, IF about[c] = "VALIDATED" THEN "recheck" ELSE "commit")
            /\ UNCHANGED <<pass, todo>>
       ELSE /\ todo' = [todo EXCEPT ![c] = listed]
            /\ IF listed = {} THEN pass' = [pass EXCEPT ![c] = @ + 1] /\ Go(c, "list")
               ELSE Go(c, "read") /\ UNCHANGED pass
    /\ UNCHANGED <<versionRows, counts, status, child, written, row, snapshots, counters>>
    /\ Reads(c)

\* The transaction is rolled back and the request refused.
Abort(c) ==
    /\ Answer(c)
    /\ written' = [written EXCEPT ![c] = [x \in Children |-> None]]
    /\ pass' = [pass EXCEPT ![c] = 0]
    /\ todo' = [todo EXCEPT ![c] = {}]
    /\ row' = [row EXCEPT ![c] = None]

ReadChildUnchecked(c) ==
    /\ at[c] = "read"
    /\ IF todo[c] = {}
       THEN /\ pass' = [pass EXCEPT ![c] = @ + 1]
            /\ Go(c, "list")
            /\ UNCHANGED row
       ELSE \E x \in todo[c] :
            /\ row' = [row EXCEPT ![c] = [id |-> x, status |-> Sees(c)[x]]]
            /\ Go(c, "set")
            /\ UNCHANGED pass
    /\ UNCHANGED <<versionRows, counts, status, child, written, todo, snapshots, counters>>
    /\ Reads(c)

\* applyWorkflowCascadeStatusTransition reads each of them again, with the
\* budget: one bad transition aborts all.
ReadChild(c) ==
    LET p == Passes[pass[c]] IN
    /\ at[c] = "read"
    /\ IF todo[c] = {}
       THEN /\ pass' = [pass EXCEPT ![c] = @ + 1]
            /\ Go(c, "list")
            /\ UNCHANGED <<written, todo, row>>
       ELSE \E x \in todo[c] :
            LET s == Sees(c)[x]
                refused == Closed \/ (s # p.to /\ <<s, p.to>> \notin ChildPolicy(x))
            IN
            \/ refused /\ Abort(c)
            \/ /\ ~refused /\ s = p.to
               /\ todo' = [todo EXCEPT ![c] = @ \ {x}]
               /\ UNCHANGED <<request, written, pass, row>>
            \/ /\ ~refused /\ s # p.to
               /\ row' = [row EXCEPT ![c] = [id |-> x, status |-> s]]
               /\ Go(c, "set")
               /\ UNCHANGED <<written, pass, todo>>
    /\ UNCHANGED <<versionRows, counts, status, child, snapshots, counters>>
    /\ Reads(c)

\* Another transaction that has written a row keeps it until its end.
Free(c, x) == \A d \in Callers \ {c} : written[d][x] = None

SetChildToBudgetStatus(c) ==
    LET x == row[c].id IN
    /\ at[c] = "set"
    /\ Free(c, x)
    /\ written' = [written EXCEPT ![c][x] = about[c]]
    /\ Overwrite(x, row[c].status, Sees(c)[x])
    /\ todo' = [todo EXCEPT ![c] = @ \ {x}]
    /\ row' = [row EXCEPT ![c] = None]
    /\ Go(c, "read")
    /\ UNCHANGED <<versionRows, counts, status, child, pass, snapshots, counters>>
    /\ Record(c, {})

\* ... and written by id.
SetChild(c) ==
    LET x == row[c].id IN
    /\ at[c] = "set"
    /\ Free(c, x)
    /\ written' = [written EXCEPT ![c][x] = Passes[pass[c]].to]
    /\ Overwrite(x, row[c].status, Sees(c)[x])
    /\ todo' = [todo EXCEPT ![c] = @ \ {x}]
    /\ row' = [row EXCEPT ![c] = None]
    /\ Go(c, "read")
    /\ UNCHANGED <<versionRows, counts, status, child, pass, snapshots, counters>>
    /\ Record(c, {})

RecheckNothing(c) ==
    /\ at[c] = "recheck"
    /\ Go(c, "commit")
    /\ NoCascade
    /\ UNCHANGED <<versionRows, counts, status, child, snapshots, counters>>
    /\ Reads(c)

\* The requirement, once more.
RecheckEnvelopes(c) ==
    /\ at[c] = "recheck"
    /\ IF Strict /\ \E x \in Envelopes : Sees(c)[x] = "DRAFT" THEN Abort(c)
       ELSE Go(c, "commit") /\ NoCascade
    /\ UNCHANGED <<versionRows, counts, status, child, snapshots, counters>>
    /\ Reads(c)

\* The budget is updated last, and everything commits.
CommitCascade(c) ==
    /\ at[c] = "commit"
    /\ status' = about[c]
    /\ child' = Sees(c)
    /\ written' = [written EXCEPT ![c] = [x \in Children |-> None]]
    /\ Finish(c)
    /\ Overwrite("budget", seen[c], status)
    /\ pass' = [pass EXCEPT ![c] = 0]
    /\ UNCHANGED <<versionRows, counts, todo, row, snapshots, counters>>
    /\ Record(c, {x \in Children : written[c][x] # None})

\* createWorkflowMilestoneSnapshot: the lines included by default are all
\* but the drafts.
TakeSnapshot(c) ==
    /\ at[c] = "snapshot"
    /\ snapshots' = snapshots \cup
            {[of |-> about[c], shown |-> {child[x] : x \in Lines} \ {"absent", "DRAFT"},
              touched |-> c \in touched]}
    /\ Answer(c)
    /\ NoCascade
    /\ UNCHANGED <<versionRows, counts, status, child, counters>>
    /\ Reads(c)

-------------------------------------------------------------------------------
(***************************************************************************)
(* BudgetEnvelopesService and BudgetLinesService                           *)
(***************************************************************************)

\* Statuses a user creates a child with (a bound; drafts are the default of
\* lines, active is that of envelopes).
NewStatuses == {"DRAFT", "PENDING", "ACTIVE"}

CreateChild(c) ==
    /\ at[c] = "idle"
    /\ ~Closed
    /\ \E x \in Children, s \in NewStatuses :
        /\ child[x] = "absent"
        /\ x \in Lines => \E e \in Envelopes : child[e] # "absent"
        /\ Proceed(c, "createChild", x, s)
    /\ Begin(c)
    /\ NoCascade
    /\ UNCHANGED <<versionRows, counts, status, child, snapshots>>
    /\ Reads(c)

\* (An id is created once.)
InsertChild(c) ==
    LET x == about[c] IN
    /\ at[c] = "createChild"
    /\ child' = IF child[x] = "absent" THEN [child EXCEPT ![x] = seen[c]] ELSE child
    /\ Answer(c)
    /\ NoCascade
    /\ UNCHANGED <<versionRows, counts, status, snapshots, overwrote, counters>>
    /\ Record(c, {x})

UpdateChildOfAnyVersion(c) ==
    /\ at[c] = "idle"
    /\ ~Locked(status)
    /\ \E x \in Children : \E to \in ChildStatuses(x) :
        /\ \/ <<child[x], to>> \in ChildPolicy(x)
           \/ to = child[x] /\ to \notin {"ARCHIVED", ClosedStatus(x)}
        /\ Proceed(c, "writeChild", <<x, to>>, child[x])
    /\ Begin(c)
    /\ NoCascade
    /\ UNCHANGED <<versionRows, counts, status, child, snapshots>>
    /\ Reads(c)

\* update: an archived child is left alone, a closed one only archived.
UpdateChild(c) ==
    /\ at[c] = "idle"
    /\ ~Closed
    /\ \E x \in Children : \E to \in ChildStatuses(x) :
        /\ \/ <<child[x], to>> \in ChildPolicy(x)
           \/ to = child[x] /\ to \notin {"ARCHIVED", ClosedStatus(x)}
        /\ Proceed(c, "writeChild", <<x, to>>, child[x])
    /\ Begin(c)
    /\ NoCascade
    /\ UNCHANGED <<versionRows, counts, status, child, snapshots>>
    /\ Reads(c)

WriteChild(c) ==
    LET x == about[c][1] IN
    /\ at[c] = "writeChild"
    /\ Free(c, x)
    /\ child' = [child EXCEPT ![x] = about[c][2]]
    /\ Overwrite(x, seen[c], child[x])
    /\ Answer(c)
    /\ NoCascade
    /\ UNCHANGED <<versionRows, counts, status, snapshots, counters>>
    /\ Record(c, {x})

-------------------------------------------------------------------------------
\* An exception, a transaction that times out, a process that stops: an open
\* transaction is rolled back, a snapshot not taken.  (Other requests have
\* written nothing yet: one that fails might not have been made.)
Fail(c) ==
    /\ at[c] \in {"list", "read", "set", "recheck", "commit", "snapshot"}
    /\ faults < MaxFaults
    /\ faults' = faults + 1
    /\ Abort(c)
    /\ UNCHANGED <<versionRows, counts, status, child, snapshots, requests>>
    /\ Reads(c)

\* The requests on the version set, the budget's among others.
OnVersions(c) ==
    /\ \/ VersionRequest(c) /\ Begin(c)
       \/ VersionStep(c) /\ UNCHANGED counters
    /\ NoCascade
    /\ UNCHANGED <<status, child, counts, snapshots>>
    /\ Reads(c)

OnBudget(c) ==
    \/ Update(c) \/ Count(c) \/ Decide(c) \/ CheckEnvelopes(c) \/ WriteStatus(c)
    \/ ListChildren(c) \/ ReadChild(c) \/ SetChild(c) \/ RecheckEnvelopes(c)
    \/ CommitCascade(c) \/ TakeSnapshot(c)

OnChildren(c) == CreateChild(c) \/ InsertChild(c) \/ UpdateChild(c) \/ WriteChild(c)

Next == \E c \in Callers : OnVersions(c) \/ OnBudget(c) \/ OnChildren(c) \/ Fail(c)

Spec == Init /\ [][Next]_vars

-------------------------------------------------------------------------------
(***************************************************************************)
(* Properties                                                              *)
(***************************************************************************)
TypeOK ==
    /\ VersionsTypeOK
    /\ status \in BudgetStatuses
    /\ \A x \in Children :
        /\ child[x] \in ChildStatuses(x) \cup {"absent"}
        /\ \A c \in Callers : written[c][x] \in {None, "PENDING", "ACTIVE"}
    /\ \A c \in Callers :
        /\ found[c] \subseteq counted[c]
        /\ counted[c] \subseteq Tables \X {"DRAFT", "PENDING"}
        /\ todo[c] \subseteq Children
    /\ touched \cup slipped \cup early \subseteq Callers
    /\ overwrote \subseteq Children \cup {"budget"}
    /\ requests \in 0 .. MaxRequests
    /\ faults \in 0 .. MaxFaults

\* c writes a new status of the budget.
Writes(c) == at[c] \in {"write", "commit"} /\ at'[c] # at[c] /\ status' # status

LeavesNoneBehind ==
    LET left == {child'[x] : x \in Children} IN
    \A c \in Callers : Writes(c) /\ c \notin touched =>
        /\ seen[c] = "DRAFT" /\ about[c] = "SUBMITTED" => "DRAFT" \notin left
        /\ seen[c] \in {"SUBMITTED", "REVISED"} /\ about[c] = "VALIDATED" =>
               {"DRAFT", "PENDING"} \cap left = {}

EnvelopesReady ==
    \A c \in Callers :
        Strict /\ Writes(c) /\ c \notin slipped /\
        about[c] = "VALIDATED" /\ seen[c] # "VALIDATED" =>
            \A x \in Envelopes : child'[x] # "DRAFT"

\* A request that submits a budget leaves no envelope or line behind in DRAFT,
\* one that validates it none in DRAFT or PENDING.  One thing escapes: a child
\* that another request gives a status whose count has run.  The four counts
\* have a snapshot each, so that a line that goes from DRAFT to PENDING after
\* the pending lines and before the drafts are counted is in neither, and
\* stays; so does a child made or moved after the counts, unless the cascade
\* finds it.  Where the client requires it, a budget is not validated with an
\* envelope in DRAFT, be it made while the cascade runs, unless it is put
\* there after the last check.
CascadeComplete == [][LeavesNoneBehind /\ EnvelopesReady]_vars

\* The snapshot of a validation shows no line that still awaits it: it is
\* taken when the cascade has committed.  (A line that escaped the request, as
\* above, may show.)
ValidatedSnapshotSettled ==
    \A s \in snapshots : s.of = "VALIDATED" /\ ~s.touched => "PENDING" \notin s.shown

FollowsPolicy ==
    /\ status' = status \/ <<status, status'>> \in BudgetPolicy \/ "budget" \in overwrote'
    /\ \A x \in Children :
        \/ child'[x] = child[x]
        \/ child[x] = "absent"
        \/ <<child[x], child'[x]>> \in ChildPolicy(x)
        \/ child[x] = "DRAFT" /\ child'[x] = "ACTIVE" /\ status' = "VALIDATED"
        \/ x \in overwrote'

\* The budget, its envelopes and its lines change status as their policies
\* allow, the cascade included, except over a status written since it was
\* read.
PolicyFollowed == [][FollowsPolicy]_vars

KeptWhenClosed == Closed /\ early = {} => UNCHANGED <<status, child>>

\* Nothing of a locked or archived budget, or of a superseded or archived
\* version, is written by a request that began after it was closed.
ClosedBudgetKept == [][KeptWhenClosed]_vars

\* An archived version of the set stays archived, on the condition above.
ArchivedVersionsKept == [][ArchivedForGood]_vars
===============================================================================
