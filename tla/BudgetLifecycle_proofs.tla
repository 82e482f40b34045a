------------------------ MODULE BudgetLifecycle_proofs ------------------------
(***************************************************************************)
(* Theorems about BudgetLifecycle, for any number of versions, envelopes,  *)
(* lines and requests.                                                     *)
(***************************************************************************)
EXTENDS BudgetLifecycle, TLAPS

-------------------------------------------------------------------------------
(***************************************************************************)
(* The version set                                                         *)
(***************************************************************************)
VersionSteps == {"revise", "findActive", "activate", "countVersions", "archive"}
WorkflowSteps ==
    {"idle", "count", "check", "write", "list", "read", "set", "recheck", "commit",
     "snapshot", "createChild", "writeChild"}

RequestsTyped ==
    /\ at \in [Callers -> VersionSteps \cup WorkflowSteps]
    /\ about = [c \in Callers |-> about[c]]
    /\ seen = [c \in Callers |-> seen[c]]

\* What a request on versions has read.
VersionsRead ==
    \A c \in Callers :
        /\ at[c] \in VersionSteps => about[c] \in Versions
        /\ at[c] = "findActive" => seen[c] \in {"DRAFT", "SUPERSEDED"}
        /\ at[c] = "activate" =>
              /\ seen[c][1] \in {"DRAFT", "SUPERSEDED"}
              /\ seen[c][2] \in Versions \cup {None}
              /\ seen[c][2] = None => outrun

VersionsInv == VersionsTypeOK /\ RequestsTyped /\ VersionsRead /\ VersionSetSound

\* A step of c that has nothing to do with versions.
Aside(c) ==
    /\ UNCHANGED versionRows
    /\ RequestsTyped'
    /\ at'[c] \in WorkflowSteps
    /\ \A d \in Callers \ {c} : at'[d] = at[d] /\ about'[d] = about[d] /\ seen'[d] = seen[d]

LEMMA ProceedIsAside ==
    ASSUME NEW c \in Callers, RequestsTyped, UNCHANGED versionRows,
           NEW next \in WorkflowSteps, NEW what, NEW read, Proceed(c, next, what, read)
    PROVE  Aside(c)
  BY DEF RequestsTyped, Proceed, Aside

LEMMA GoIsAside ==
    ASSUME NEW c \in Callers, RequestsTyped, UNCHANGED versionRows,
           NEW next \in WorkflowSteps, Go(c, next)
    PROVE  Aside(c)
  BY DEF RequestsTyped, Go, Aside

LEMMA AnswerIsAside ==
    ASSUME NEW c \in Callers, RequestsTyped, UNCHANGED versionRows, Answer(c)
    PROVE  Aside(c)
  BY ProceedIsAside DEF Answer, WorkflowSteps

\* The workflow of the budget leaves the version set alone.
LEMMA WorkflowIsAside ==
    ASSUME NEW c \in Callers, RequestsTyped, OnBudget(c) \/ OnChildren(c) \/ Fail(c)
    PROVE  Aside(c)
  <1>1. CASE Update(c)
    <2>1. PICK to \in BudgetStatuses :
                Proceed(c, IF to = status THEN "write" ELSE "count", to, status)
      BY <1>1 DEF Update
    <2>2. UNCHANGED versionRows
      BY <1>1 DEF Update, versionRows
    <2> QED BY <2>1, <2>2, ProceedIsAside DEF WorkflowSteps
  <1>2. CASE Count(c)
    BY <1>2 DEF Count, versionRows, request, Aside, RequestsTyped, WorkflowSteps
  <1>16. CASE Decide(c)
    <2>1. UNCHANGED versionRows
      BY <1>16 DEF Decide, versionRows
    <2>2. Answer(c) \/ Go(c, "list") \/ Go(c, "check") \/ Go(c, "write")
      BY <1>16 DEF Decide
    <2> QED BY <2>1, <2>2, AnswerIsAside, GoIsAside DEF WorkflowSteps
  <1>3. CASE CheckEnvelopes(c)
    BY <1>3, AnswerIsAside, GoIsAside DEF CheckEnvelopes, versionRows, WorkflowSteps
  <1>4. CASE WriteStatus(c)
    BY <1>4, AnswerIsAside, GoIsAside DEF WriteStatus, Finish, versionRows, WorkflowSteps
  <1>5. CASE ListChildren(c)
    <2>1. UNCHANGED versionRows
      BY <1>5 DEF ListChildren, versionRows
    <2>2. Go(c, "recheck") \/ Go(c, "commit") \/ Go(c, "list") \/ Go(c, "read")
      BY <1>5 DEF ListChildren
    <2> QED BY <2>1, <2>2, GoIsAside DEF WorkflowSteps
  <1>6. CASE ReadChild(c)
    <2>1. UNCHANGED versionRows
      BY <1>6 DEF ReadChild, versionRows
    <2>2. Go(c, "list") \/ Answer(c) \/ UNCHANGED request \/ Go(c, "set")
      BY <1>6 DEF ReadChild, Abort
    <2>3. at[c] \in WorkflowSteps
      BY <1>6 DEF ReadChild, WorkflowSteps
    <2>4. CASE UNCHANGED request
      BY <2>1, <2>3, <2>4 DEF request, Aside, RequestsTyped
    <2> QED BY <2>1, <2>2, <2>4, GoIsAside, AnswerIsAside DEF WorkflowSteps
  <1>7. CASE SetChild(c)
    BY <1>7, GoIsAside DEF SetChild, versionRows, WorkflowSteps
  <1>8. CASE RecheckEnvelopes(c)
    BY <1>8, AnswerIsAside, GoIsAside DEF RecheckEnvelopes, Abort, versionRows, WorkflowSteps
  <1>9. CASE CommitCascade(c)
    BY <1>9, AnswerIsAside, GoIsAside DEF CommitCascade, Finish, versionRows, WorkflowSteps
  <1>10. CASE TakeSnapshot(c)
    BY <1>10, AnswerIsAside DEF TakeSnapshot, versionRows
  <1>11. CASE CreateChild(c)
    <2>1. PICK x \in Children, s \in NewStatuses : Proceed(c, "createChild", x, s)
      BY <1>11 DEF CreateChild
    <2>2. UNCHANGED versionRows
      BY <1>11 DEF CreateChild, versionRows
    <2> QED BY <2>1, <2>2, ProceedIsAside DEF WorkflowSteps
  <1>12. CASE InsertChild(c)
    BY <1>12, AnswerIsAside DEF InsertChild, versionRows
  <1>13. CASE UpdateChild(c)
    <2>1. PICK what, read : Proceed(c, "writeChild", what, read)
      BY <1>13 DEF UpdateChild
    <2>2. UNCHANGED versionRows
      BY <1>13 DEF UpdateChild, versionRows
    <2> QED BY <2>1, <2>2, ProceedIsAside DEF WorkflowSteps
  <1>14. CASE WriteChild(c)
    BY <1>14, AnswerIsAside DEF WriteChild, versionRows
  <1>15. CASE Fail(c)
    BY <1>15, AnswerIsAside DEF Fail, Abort, versionRows
  <1> QED
    BY <1>1, <1>2, <1>3, <1>4, <1>5, <1>6, <1>7, <1>8, <1>9, <1>10, <1>11, <1>12, <1>13,
       <1>14, <1>15, <1>16
    DEF OnBudget, OnChildren

LEMMA AsideKeepsVersions ==
    ASSUME NEW c \in Callers, VersionsInv, Aside(c)
    PROVE  VersionsInv' /\ ArchivedForGood
  BY DEF VersionsInv, Aside, VersionsTypeOK, VersionsRead, VersionSetSound, ArchivedForGood,
         versionRows, VersionSteps, WorkflowSteps, Versions

\* The reads of the requests on versions.
LEMMA VersionReadsKeep ==
    ASSUME NEW c \in Callers, VersionsInv,
           VersionRequest(c) \/ FindPreviousActive(c) \/ CountVersions(c)
    PROVE  VersionsInv' /\ ArchivedForGood
  <1> USE DEF VersionsInv
  <1>1. UNCHANGED versionRows
    BY DEF VersionRequest, CreateRevision, ActivateVersion, ArchiveVersion,
           FindPreviousActive, CountVersions, versionRows
  <1>2. VersionsTypeOK' /\ VersionSetSound' /\ ArchivedForGood
    BY <1>1 DEF VersionsTypeOK, VersionSetSound, ArchivedForGood, versionRows
  <1>3. CASE CreateRevision(c)
    <2>1. PICK last \in Existing : last < MaxVersion /\ Proceed(c, "revise", last + 1, None)
      BY <1>3 DEF CreateRevision
    <2>2. last + 1 \in Versions
      BY <2>1, VersionsAssumption DEF Existing, Versions
    <2> QED BY <1>1, <1>2, <2>1, <2>2
            DEF Proceed, RequestsTyped, VersionsRead, versionRows, VersionSteps, WorkflowSteps,
                Versions
  <1>4. CASE ActivateVersion(c)
    <2>1. PICK v \in Existing : /\ version[v] \notin {"ARCHIVED", "ACTIVE"}
                                /\ Proceed(c, "findActive", v, version[v])
      BY <1>4 DEF ActivateVersion
    <2>2. v \in Versions /\ version[v] \in {"DRAFT", "SUPERSEDED"}
      BY <2>1 DEF Existing, VersionsTypeOK, VersionStatuses
    <2> QED BY <1>1, <1>2, <2>1, <2>2
            DEF Proceed, RequestsTyped, VersionsRead, versionRows, VersionSteps, Versions
  <1>5. CASE ArchiveVersion(c)
    <2>1. PICK v \in Existing : Proceed(c, "countVersions", v, None)
      BY <1>5 DEF ArchiveVersion
    <2> QED BY <1>1, <1>2, <2>1
            DEF Proceed, RequestsTyped, VersionsRead, versionRows, VersionSteps, Existing, Versions
  <1>6. CASE FindPreviousActive(c)
    <2>1. PICK previous \in IF ActiveVersions = {} THEN {None} ELSE ActiveVersions :
                Proceed(c, "activate", about[c], <<seen[c], previous>>)
      BY <1>6 DEF FindPreviousActive
    <2>2. previous \in Versions \cup {None} /\ (previous = None => outrun)
      <3>1. CASE ActiveVersions = {}
        BY <2>1, <3>1 DEF ActiveVersions, VersionSetSound, VersionsTypeOK
      <3>2. CASE ActiveVersions # {}
        BY <2>1, <3>2, VersionsAssumption DEF ActiveVersions, Versions
      <3> QED BY <3>1, <3>2
    <2>3. about[c] \in Versions /\ seen[c] \in {"DRAFT", "SUPERSEDED"}
      BY <1>6 DEF FindPreviousActive, VersionsRead, VersionSteps
    <2> DEFINE read == <<seen[c], previous>>
    <2>4. read[1] = seen[c] /\ read[2] = previous
      OBVIOUS
    <2> HIDE DEF read
    <2> QED BY <1>1, <1>2, <2>1, <2>2, <2>3, <2>4
            DEF read, Proceed, RequestsTyped, VersionsRead, versionRows, VersionSteps
  <1>7. CASE CountVersions(c)
    <2>1. Answer(c) \/ Proceed(c, "archive", about[c], None)
      BY <1>7 DEF CountVersions
    <2>2. about[c] \in Versions
      BY <1>7 DEF CountVersions, VersionsRead, VersionSteps
    <2> QED BY <1>1, <1>2, <2>1, <2>2
            DEF Answer, Proceed, RequestsTyped, VersionsRead, versionRows, VersionSteps,
                WorkflowSteps
  <1> QED BY <1>3, <1>4, <1>5, <1>6, <1>7 DEF VersionRequest

\* Their writes.
LEMMA VersionWritesKeep ==
    ASSUME NEW c \in Callers, VersionsInv,
           Revise(c) \/ Activate(c) \/ Archive(c)
    PROVE  VersionsInv' /\ ArchivedForGood
  <1> USE DEF VersionsInv
  <1>1. Answer(c) /\ about[c] \in Versions
    BY DEF Revise, Activate, Archive, VersionsRead, VersionSteps
  <1>2. RequestsTyped'
    BY <1>1 DEF Answer, Proceed, RequestsTyped, WorkflowSteps
  <1>3. outrun => outrun'
    BY DEF Revise, Activate, Archive
  <1>4. VersionsRead'
    BY <1>1, <1>3 DEF Answer, Proceed, RequestsTyped, VersionsRead, VersionSteps, Versions
  <1>5. CASE Revise(c)
    BY <1>1, <1>2, <1>4, <1>5
    DEF Revise, VersionsTypeOK, VersionStatuses, VersionSetSound, ArchivedForGood
  <1>6. CASE Activate(c)
    <2> DEFINE previous == seen[c][2]
    <2>1. previous \in Versions \cup {None} /\ (previous = None => outrun)
          /\ seen[c][1] \in {"DRAFT", "SUPERSEDED"}
      BY <1>6 DEF Activate, VersionsRead
    <2> HIDE DEF previous
    <2>2. VersionsTypeOK'
      BY <1>1, <1>6, <2>1 DEF Activate, VersionsTypeOK, VersionStatuses, previous
    <2>3. ASSUME ~outrun'
          PROVE  /\ previous \in Versions
                 /\ version[previous] = "ACTIVE"
                 /\ version[about[c]] \in {"DRAFT", "SUPERSEDED"}
                 /\ version' = [version EXCEPT ![previous] = "SUPERSEDED", ![about[c]] = "ACTIVE"]
                 /\ active' = about[c]
      BY <1>6, <2>1, <2>3 DEF Activate, StillActivable, previous
    <2>4. VersionSetSound'
      BY <1>1, <1>3, <2>3 DEF VersionSetSound, VersionsTypeOK
    <2>5. ArchivedForGood
      BY <1>1, <2>3 DEF ArchivedForGood, VersionsTypeOK
    <2> QED BY <1>2, <1>4, <2>2, <2>4, <2>5
  <1>7. CASE Archive(c)
    BY <1>1, <1>2, <1>4, <1>7
    DEF Archive, VersionsTypeOK, VersionStatuses, VersionSetSound, ArchivedForGood
  <1> QED BY <1>5, <1>6, <1>7

LEMMA InitVersions == Init => VersionsInv
  <1> SUFFICES ASSUME Init PROVE VersionsInv
    OBVIOUS
  <1>1. Baseline \in Versions
    BY VersionsAssumption DEF Baseline, Versions
  <1>2. VersionsTypeOK
    BY <1>1 DEF Init, VersionsInit, VersionsTypeOK, VersionStatuses
  <1>3. RequestsTyped
    BY DEF Init, VersionsInit, RequestsTyped, WorkflowSteps
  <1>4. VersionsRead
    BY DEF Init, VersionsInit, VersionsRead, VersionSteps
  <1>5. VersionSetSound
    BY DEF Init, VersionsInit, VersionSetSound
  <1> QED BY <1>2, <1>3, <1>4, <1>5 DEF VersionsInv

LEMMA NextVersions ==
    VersionsInv /\ [Next]_vars => VersionsInv' /\ [ArchivedForGood]_vars
  <1> SUFFICES ASSUME VersionsInv, [Next]_vars
               PROVE  VersionsInv' /\ [ArchivedForGood]_vars
    OBVIOUS
  <1>1. CASE UNCHANGED vars
    BY <1>1 DEF vars, versionRows, request, VersionsInv, VersionsTypeOK, RequestsTyped,
                VersionsRead, VersionSetSound
  <1>2. ASSUME NEW c \in Callers, OnVersions(c)
        PROVE  VersionsInv' /\ ArchivedForGood
    BY <1>2, VersionReadsKeep, VersionWritesKeep DEF OnVersions, VersionStep
  <1>3. ASSUME NEW c \in Callers, OnBudget(c) \/ OnChildren(c) \/ Fail(c)
        PROVE  VersionsInv' /\ ArchivedForGood
    BY <1>3, WorkflowIsAside, AsideKeepsVersions DEF VersionsInv
  <1> QED BY <1>1, <1>2, <1>3 DEF Next

\* Whatever requests cross, exactly the version the set points to is active,
\* as long as no request writes what it decided on versions changed since
\* (activateVersion, archiveVersion).
THEOREM SoundVersionSet == Spec => []VersionSetSound
  <1>1. VersionsInv => VersionSetSound
    BY DEF VersionsInv
  <1> QED
    BY InitVersions, NextVersions, <1>1, PTL DEF Spec

\* An archived version never comes back, on the same condition
\* (activateVersion).
THEOREM VersionsArchivedForGood == Spec => ArchivedVersionsKept
  <1> QED
    BY InitVersions, NextVersions, PTL DEF Spec, ArchivedVersionsKept

-------------------------------------------------------------------------------
(***************************************************************************)
(* The workflow of the budget                                              *)
(***************************************************************************)
CascadeSteps == {"list", "read", "set", "recheck", "commit"}
BudgetSteps == CascadeSteps \cup {"count", "check", "write", "snapshot"}
WritingSteps == WorkflowSteps \ {"idle", "snapshot"}

AllCounts == Tables \X {"DRAFT", "PENDING"}

WorkflowTypes ==
    /\ status \in BudgetStatuses
    /\ child = [x \in Children |-> child[x]]
    /\ \A x \in Children : child[x] \in ChildStatuses(x) \cup {"absent"}
    /\ counted \in [Callers -> SUBSET AllCounts]
    /\ found \in [Callers -> SUBSET AllCounts]
    /\ written \in [Callers -> [Children -> {None, "PENDING", "ACTIVE"}]]
    /\ pass \in [Callers -> 0 .. 5]
    /\ todo \in [Callers -> SUBSET Children]
    /\ row = [c \in Callers |-> row[c]]
    /\ touched \in SUBSET Callers
    /\ slipped \in SUBSET Callers
    /\ early \in SUBSET Callers
    /\ overwrote \in SUBSET (Children \cup {"budget"})
    /\ requests \in 0 .. MaxRequests
    /\ faults \in 0 .. MaxFaults

\* What a request has decided, on what it has read.
Decided(c) ==
    /\ at[c] \in BudgetSteps =>
          /\ about[c] \in BudgetStatuses
          /\ seen[c] = about[c] \/ <<seen[c], about[c]>> \in BudgetPolicy
    /\ at[c] \in BudgetSteps \ {"write"} => seen[c] # about[c]
    /\ at[c] \in CascadeSteps \cup {"snapshot"} => about[c] \in {"SUBMITTED", "VALIDATED"}
    /\ at[c] = "createChild" => about[c] \in Children /\ seen[c] \in NewStatuses
    /\ at[c] = "writeChild" =>
          /\ about[c][1] \in Children
          /\ about[c][2] \in ChildStatuses(about[c][1])
          /\ \/ about[c][2] = seen[c]
             \/ <<seen[c], about[c][2]>> \in ChildPolicy(about[c][1])

\* What a cascade has written may be written over what is committed.
Earned(c, x) ==
    LET w == written[c][x] IN
    /\ child[x] # "absent"
    /\ \/ child[x] = w
       \/ <<child[x], w>> \in ChildPolicy(x)
       \/ child[x] = "DRAFT" /\ w = "ACTIVE" /\ about[c] = "VALIDATED"
       \/ x \in overwrote

InCascade(c) ==
    /\ at[c] \notin CascadeSteps => \A x \in Children : written[c][x] = None
    /\ at[c] = "list" => pass[c] \in 1 .. LastPass(about[c]) + 1
    /\ at[c] \in {"read", "set"} => pass[c] \in 1 .. LastPass(about[c])
    /\ at[c] \in {"list", "read", "set"} /\ pass[c] <= 2 =>
          \A x \in Children : written[c][x] \in {None, "PENDING"}
    /\ at[c] = "set" =>
          /\ row[c].id \in Children
          /\ child[row[c].id] # "absent"
          /\ <<row[c].status, Passes[pass[c]].to>> \in ChildPolicy(row[c].id)
    /\ \A x \in Children : written[c][x] # None => Earned(c, x)

\* The requests that may still write began before the budget was closed.
Unclosed(c) == Closed /\ at[c] \in WritingSteps => c \in early

Mustered(c) ==
    <<seen[c], about[c]>> \in {<<"DRAFT", "SUBMITTED">>, <<"SUBMITTED", "VALIDATED">>,
                              <<"REVISED", "VALIDATED">>}

LeftBehind(to) == IF to = "SUBMITTED" THEN {"DRAFT"} ELSE {"DRAFT", "PENDING"}

\* What the counts have found, for a request that no child has escaped.
Counting(c) ==
    /\ at[c] # "count" => counted[c] = {} /\ found[c] = {}
    /\ found[c] \subseteq counted[c]
    /\ at[c] = "count" => counted[c] \subseteq Decisive(seen[c], about[c])
    /\ at[c] = "count" /\ c \notin touched =>
          \A x \in Children :
              CountOf(x, child[x]) \in counted[c] => CountOf(x, child[x]) \in found[c]

PassDone(c, q) == \A x \in Passes[q].rows : Sees(c)[x] # Passes[q].from

\* What the passes have done, for a request that no child has escaped.
Complete(c) ==
    /\ at[c] \in CascadeSteps => Mustered(c)
    /\ c \notin touched =>
        /\ at[c] \in {"check", "write", "snapshot"} /\ Mustered(c) =>
              \A x \in Children : child[x] \notin LeftBehind(about[c])
        /\ at[c] \in {"list", "read", "set"} => \A q \in 1 .. pass[c] - 1 : PassDone(c, q)
        /\ at[c] \in {"read", "set"} =>
              \A x \in Passes[pass[c]].rows : Sees(c)[x] = Passes[pass[c]].from => x \in todo[c]
        /\ at[c] \in {"recheck", "commit"} =>
              \A x \in Children : Sees(c)[x] \notin LeftBehind(about[c])

\* What the last check has found, for a request that no envelope has escaped.
Rechecked(c) ==
    Strict /\ c \notin slipped =>
        /\ at[c] = "write" /\ about[c] = "VALIDATED" /\ seen[c] # "VALIDATED" =>
              \A x \in Envelopes : child[x] # "DRAFT"
        /\ at[c] = "commit" /\ about[c] = "VALIDATED" =>
              \A x \in Envelopes : Sees(c)[x] # "DRAFT"

Followed(c) ==
    /\ Decided(c) /\ InCascade(c) /\ Unclosed(c)
    /\ Counting(c) /\ Complete(c) /\ Rechecked(c)

\* A row is written by one cascade at a time.
Exclusive ==
    \A c, d \in Callers : c # d =>
        \A x \in Children : written[c][x] = None \/ written[d][x] = None

WorkflowInv ==
    /\ RequestsTyped
    /\ WorkflowTypes
    /\ \A c \in Callers : Followed(c)
    /\ Exclusive
    /\ ValidatedSnapshotSettled

WorkflowSafe == LeavesNoneBehind /\ EnvelopesReady /\ FollowsPolicy /\ KeptWhenClosed

-------------------------------------------------------------------------------
\* What a step of c leaves to the other requests, if it writes the children
\* xs.
OthersKept(c) ==
    \A d \in Callers \ {c} :
        /\ at'[d] = at[d] /\ about'[d] = about[d] /\ seen'[d] = seen[d]
        /\ counted'[d] = counted[d] /\ found'[d] = found[d]
        /\ written'[d] = written[d] /\ pass'[d] = pass[d]
        /\ todo'[d] = todo[d] /\ row'[d] = row[d]

Recorded(c, xs) ==
    /\ touched' \in SUBSET Callers /\ slipped' \in SUBSET Callers /\ early' \in SUBSET Callers
    /\ \A d \in Callers :
        d # c \/ at'[c] # "idle" =>
            /\ d \in touched => d \in touched'
            /\ d \in slipped => d \in slipped'
            /\ d \in early => d \in early'
    /\ \A d \in Callers \ {c} :
        /\ \A x \in xs : child'[x] # child[x] =>
              /\ CountOf(x, child'[x]) \in Ran(d) => d \in touched'
              /\ x \in Envelopes /\ child'[x] = "DRAFT" /\ d \in Checked => d \in slipped'
        /\ Closed' /\ ~Closed /\ at[d] # "idle" => d \in early'

Frame(c, xs) ==
    /\ OthersKept(c)
    /\ Recorded(c, xs)
    /\ \A x \in Children : x \notin xs => child'[x] = child[x]
    /\ \A x \in Children : x \in xs =>
          child'[x] # "absent" /\ \A d \in Callers \ {c} : written[d][x] = None
    /\ overwrote \subseteq overwrote'

LEMMA RecordKeeps ==
    ASSUME WorkflowTypes, NEW c \in Callers, NEW xs, Record(c, xs)
    PROVE  Recorded(c, xs)
  BY DEF Record, Recorded, WorkflowTypes, Others, Checked

LEMMA ProceedRequest ==
    ASSUME RequestsTyped, NEW c \in Callers, NEW next \in VersionSteps \cup WorkflowSteps,
           NEW what, NEW read, Proceed(c, next, what, read)
    PROVE  /\ RequestsTyped'
           /\ at'[c] = next /\ about'[c] = what /\ seen'[c] = read
           /\ \A d \in Callers \ {c} : at'[d] = at[d] /\ about'[d] = about[d] /\ seen'[d] = seen[d]
  BY DEF Proceed, RequestsTyped

LEMMA GoRequest ==
    ASSUME RequestsTyped, NEW c \in Callers, NEW next \in VersionSteps \cup WorkflowSteps,
           Go(c, next)
    PROVE  /\ RequestsTyped'
           /\ at'[c] = next /\ about'[c] = about[c] /\ seen'[c] = seen[c]
           /\ \A d \in Callers \ {c} : at'[d] = at[d] /\ about'[d] = about[d] /\ seen'[d] = seen[d]
  BY DEF Go, RequestsTyped

LEMMA AnswerRequest ==
    ASSUME RequestsTyped, NEW c \in Callers, Answer(c)
    PROVE  /\ RequestsTyped'
           /\ at'[c] = "idle"
           /\ \A d \in Callers \ {c} : at'[d] = at[d] /\ about'[d] = about[d] /\ seen'[d] = seen[d]
  BY ProceedRequest DEF Answer, WorkflowSteps

\* The four passes.
LEMMA PassFacts ==
    /\ \A p \in 1 .. 4 : /\ Passes[p].rows \in {Envelopes, Lines}
                         /\ Passes[p].from = (IF p <= 2 THEN "DRAFT" ELSE "PENDING")
                         /\ Passes[p].to = (IF p <= 2 THEN "PENDING" ELSE "ACTIVE")
    /\ Passes[1].rows = Envelopes /\ Passes[2].rows = Lines
    /\ Passes[3].rows = Envelopes /\ Passes[4].rows = Lines
  <1> DEFINE ps == Passes
  <1>1. /\ ps[1] = Pass(Envelopes, "DRAFT", "PENDING")
        /\ ps[2] = Pass(Lines, "DRAFT", "PENDING")
        /\ ps[3] = Pass(Envelopes, "PENDING", "ACTIVE")
        /\ ps[4] = Pass(Lines, "PENDING", "ACTIVE")
    BY DEF Passes
  <1> HIDE DEF ps
  <1>2. \A p \in 1 .. 4 : p = 1 \/ p = 2 \/ p = 3 \/ p = 4
    OBVIOUS
  <1>3. \A p \in 1 .. 4 : /\ ps[p].rows \in {Envelopes, Lines}
                          /\ ps[p].from = (IF p <= 2 THEN "DRAFT" ELSE "PENDING")
                          /\ ps[p].to = (IF p <= 2 THEN "PENDING" ELSE "ACTIVE")
    BY <1>1, <1>2 DEF Pass
  <1> QED BY <1>1, <1>3 DEF Pass, ps

\* The counts that decide are those of the statuses that may not be left.
LEMMA DecisiveFacts ==
    ASSUME NEW c \in Callers, Mustered(c), NEW x, NEW s
    PROVE  CountOf(x, s) \in Decisive(seen[c], about[c]) <=> s \in LeftBehind(about[c])
  BY DEF Mustered, CountOf, Decisive, LeftBehind, Tables, Table

LEMMA LastPassFacts == \A to : LastPass(to) \in {2, 4} /\ (LastPass(to) = 4 <=> to # "SUBMITTED")
  BY DEF LastPass

-------------------------------------------------------------------------------
\* The other requests.
LEMMA OthersFollow ==
    ASSUME WorkflowInv, NEW c \in Callers, NEW xs, Frame(c, xs), NEW d \in Callers \ {c}
    PROVE  Followed(d)'
  <1> USE DEF WorkflowInv, Followed
  <1>1. Followed(d) /\ d \in Callers
    OBVIOUS
  <1>2. /\ at'[d] = at[d] /\ about'[d] = about[d] /\ seen'[d] = seen[d]
        /\ counted'[d] = counted[d] /\ found'[d] = found[d]
        /\ written'[d] = written[d] /\ pass'[d] = pass[d]
        /\ todo'[d] = todo[d] /\ row'[d] = row[d]
    BY DEF Frame, OthersKept
  <1>3. Decided(d)'
    BY <1>1, <1>2 DEF Decided
  <1>4. \A x \in Children : child[x] # "absent" => child'[x] # "absent"
    BY DEF Frame
  <1>5. \A x \in Children : written[d][x] # None => child'[x] = child[x]
    BY <1>1 DEF Frame
  <1>6. \A x \in Children : written'[d][x] # None => Earned(d, x)'
    <2>1. overwrote \subseteq overwrote'
      BY DEF Frame
    <2> QED BY <1>1, <1>2, <1>4, <1>5, <2>1 DEF Earned, InCascade
  <1>7. InCascade(d)'
    BY <1>1, <1>2, <1>4, <1>6 DEF InCascade
  <1>8. Unclosed(d)'
    BY <1>1, <1>2 DEF Unclosed, Frame, Recorded, WritingSteps
  <1>9. Complete(d)'
    <2>1. at[d] \in CascadeSteps => Mustered(d)
      BY <1>1 DEF Complete
    <2>2. Mustered(d)' <=> Mustered(d)
      BY <1>2 DEF Mustered
    <2>3. ASSUME d \notin touched', at[d] \in BudgetSteps \ {"count"}, Mustered(d)
          PROVE  /\ d \notin touched
                 /\ \A x \in Children :
                      /\ child'[x] \in LeftBehind(about[d]) => child'[x] = child[x]
                      /\ Sees(d)'[x] \in LeftBehind(about[d]) => Sees(d)'[x] = Sees(d)[x]
      <3>1. d \notin touched
        BY <1>1, <1>2, <2>3 DEF Frame, Recorded
      <3>2. Ran(d) = Decisive(seen[d], about[d])
        BY <2>3 DEF Ran, BudgetSteps, CascadeSteps
      <3>3. ASSUME NEW x \in Children, child'[x] \in LeftBehind(about[d])
            PROVE  child'[x] = child[x]
        <4>1. CountOf(x, child'[x]) \in Ran(d)
          BY <2>3, <3>2, <3>3, DecisiveFacts
        <4> QED BY <2>3, <4>1 DEF Frame, Recorded
      <3>4. ASSUME NEW x \in Children, Sees(d)'[x] \in LeftBehind(about[d])
            PROVE  Sees(d)'[x] = Sees(d)[x]
        BY <1>2, <3>3, <3>4 DEF Sees
      <3> QED BY <3>1, <3>3, <3>4
    <2>4. Complete(d)
      BY <1>1
    <2>5. CASE d \notin touched' /\ at[d] \in {"check", "write", "snapshot"}
      BY <1>2, <2>2, <2>3, <2>4, <2>5 DEF Complete, BudgetSteps, CascadeSteps
    <2>6. CASE d \notin touched' /\ at[d] \in {"recheck", "commit"}
      BY <1>2, <2>1, <2>2, <2>3, <2>4, <2>6 DEF Complete, BudgetSteps, CascadeSteps
    <2>7. CASE d \notin touched' /\ at[d] \in {"list", "read", "set"}
      <3>1. /\ pass[d] \in 1 .. 5 /\ (at[d] # "list" => pass[d] \in 1 .. 4)
            /\ \A q \in 1 .. pass[d] - 1 : q \in 1 .. LastPass(about[d])
            /\ at[d] # "list" => pass[d] \in 1 .. LastPass(about[d])
        BY <1>1, <2>7, LastPassFacts DEF InCascade
      <3>2. \A q \in 1 .. LastPass(about[d]) :
                /\ q \in 1 .. 4
                /\ Passes[q].rows \subseteq Children
                /\ Passes[q].from \in LeftBehind(about[d])
        BY PassFacts, LastPassFacts DEF LeftBehind, Children
      <3>3. /\ d \notin touched
            /\ \A x \in Children :
                  Sees(d)'[x] \in LeftBehind(about[d]) => Sees(d)'[x] = Sees(d)[x]
        BY <2>1, <2>3, <2>7 DEF BudgetSteps, CascadeSteps
      <3>4. \A q \in 1 .. pass'[d] - 1 : PassDone(d, q)'
        <4>1. \A q \in 1 .. pass[d] - 1 : PassDone(d, q)
          BY <2>4, <2>7, <3>3 DEF Complete
        <4> QED BY <1>2, <3>1, <3>2, <3>3, <4>1 DEF PassDone
      <3>5. at[d] \in {"read", "set"} =>
                \A x \in Passes[pass[d]].rows :
                    Sees(d)'[x] = Passes[pass[d]].from => x \in todo[d]
        <4>1. at[d] \in {"read", "set"} =>
                \A x \in Passes[pass[d]].rows :
                    Sees(d)[x] = Passes[pass[d]].from => x \in todo[d]
          BY <2>4, <3>3 DEF Complete
        <4> QED BY <3>1, <3>2, <3>3, <4>1
      <3> QED BY <1>2, <2>1, <2>2, <2>7, <3>4, <3>5 DEF Complete
    <2>8. CASE d \in touched' \/ at[d] \notin BudgetSteps \ {"count"}
      BY <1>2, <2>1, <2>2, <2>8 DEF Complete, BudgetSteps, CascadeSteps
    <2> QED BY <2>5, <2>6, <2>7, <2>8 DEF BudgetSteps, CascadeSteps
  <1>10. Rechecked(d)'
    <2>1. ASSUME d \notin slipped', at[d] \in {"write", "commit"}
          PROVE  /\ d \notin slipped
                 /\ \A x \in Envelopes :
                      /\ child'[x] = "DRAFT" => child'[x] = child[x]
                      /\ Sees(d)'[x] = "DRAFT" => Sees(d)'[x] = Sees(d)[x]
      <3>1. d \notin slipped
        BY <1>1, <1>2, <2>1 DEF Frame, Recorded
      <3>2. \A x \in Envelopes : child'[x] = "DRAFT" => child'[x] = child[x]
        BY <2>1 DEF Frame, Recorded, Checked, Children
      <3>3. \A x \in Envelopes : Sees(d)'[x] = "DRAFT" => Sees(d)'[x] = Sees(d)[x]
        BY <1>2, <3>2 DEF Sees, Children
      <3> QED BY <3>1, <3>2, <3>3
    <2> QED BY <1>1, <1>2, <2>1 DEF Rechecked
  <1>11. Counting(d)'
    <2>1. Counting(d)
      BY <1>1
    <2>2. ASSUME at[d] = "count", d \notin touched', NEW x \in Children,
                 CountOf(x, child'[x]) \in counted[d]
          PROVE  CountOf(x, child'[x]) \in found[d]
      <3>1. d \notin touched
        BY <1>1, <1>2, <2>2 DEF Frame, Recorded
      <3>2. child'[x] = child[x]
        BY <2>2 DEF Frame, Recorded, Ran
      <3> QED BY <2>1, <2>2, <3>1, <3>2 DEF Counting
    <2>3. \A x \in Children : CountOf(x, child[x])' = CountOf(x, child'[x])
      BY DEF CountOf, Table
    <2> QED BY <1>2, <2>1, <2>2, <2>3 DEF Counting
  <1> QED BY <1>3, <1>7, <1>8, <1>9, <1>10, <1>11

-------------------------------------------------------------------------------
\* What has to be shown of a step of c.
Good(c) ==
    /\ RequestsTyped' /\ WorkflowTypes' /\ Exclusive' /\ ValidatedSnapshotSettled'
    /\ Followed(c)'
    /\ \E xs : Frame(c, xs)
    /\ WorkflowSafe

LEMMA GoodKeeps ==
    ASSUME WorkflowInv, NEW c \in Callers, Good(c)
    PROVE  WorkflowInv' /\ WorkflowSafe
  BY OthersFollow DEF Good, WorkflowInv

\* A step that writes no row of the budget.
Quiet(c) == UNCHANGED <<versionRows, status, child, snapshots>> /\ Reads(c) /\ OthersKept(c)

LEMMA QuietIsSafe ==
    ASSUME WorkflowInv, NEW c \in Callers, Quiet(c)
    PROVE  /\ Frame(c, {}) /\ WorkflowSafe /\ ValidatedSnapshotSettled'
           /\ Closed' <=> Closed
  <1>1. Recorded(c, {})
    BY RecordKeeps DEF Quiet, Reads, WorkflowInv
  <1>2. Closed' <=> Closed
    BY DEF Quiet, Closed, Frozen, versionRows
  <1>3. Frame(c, {})
    BY <1>1 DEF Quiet, Reads, Frame, WorkflowInv, WorkflowTypes
  <1>4. status' = status /\ child' = child
    BY DEF Quiet
  <1>5. WorkflowSafe
    BY <1>4 DEF WorkflowSafe, LeavesNoneBehind, EnvelopesReady, Writes, FollowsPolicy, KeptWhenClosed
  <1>6. ValidatedSnapshotSettled'
    BY DEF Quiet, WorkflowInv, ValidatedSnapshotSettled
  <1> QED BY <1>2, <1>3, <1>5, <1>6

LEMMA IdleFollows ==
    ASSUME NEW c \in Callers, at'[c] = "idle", \A x \in Children : written'[c][x] = None,
           counted'[c] = {}, found'[c] = {}
    PROVE  Followed(c)'
  BY DEF Followed, Decided, InCascade, Unclosed, Counting, Complete, Rechecked, BudgetSteps, CascadeSteps,
         WritingSteps

\* A step outside the counts.
LEMMA CountsKept ==
    ASSUME WorkflowInv, NEW c \in Callers, UNCHANGED counts, at[c] # "count", at'[c] # "count"
    PROVE  /\ counted' \in [Callers -> SUBSET AllCounts]
           /\ found' \in [Callers -> SUBSET AllCounts]
           /\ counted'[c] = {} /\ found'[c] = {}
           /\ Counting(c)'
  <1>1. counted' = counted /\ found' = found
    BY DEF counts
  <1>2. counted[c] = {} /\ found[c] = {}
    BY DEF WorkflowInv, Followed, Counting
  <1> QED BY <1>1, <1>2 DEF WorkflowInv, WorkflowTypes, Counting

\* Rows that a cascade gives up, or keeps, stay its own.
LEMMA FewerWritten ==
    ASSUME WorkflowInv, NEW c \in Callers, OthersKept(c),
           \A x \in Children : written'[c][x] # None => written[c][x] # None
    PROVE  Exclusive'
  BY DEF WorkflowInv, Exclusive, OthersKept

\* The types after a step that writes no row.
LEMMA QuietTypes ==
    ASSUME WorkflowInv, NEW c \in Callers, Quiet(c),
           counted' \in [Callers -> SUBSET AllCounts],
           found' \in [Callers -> SUBSET AllCounts],
           written' \in [Callers -> [Children -> {None, "PENDING", "ACTIVE"}]],
           pass' \in [Callers -> 0 .. 5],
           todo' \in [Callers -> SUBSET Children],
           row' = [d \in Callers |-> row'[d]],
           requests' \in 0 .. MaxRequests, faults' \in 0 .. MaxFaults
    PROVE  WorkflowTypes'
  <1>1. Recorded(c, {})
    BY RecordKeeps DEF Quiet, Reads, WorkflowInv
  <1> QED BY <1>1 DEF Quiet, Reads, Recorded, WorkflowInv, WorkflowTypes

\* A step that writes no row and leaves the cascades as they are.
LEMMA QuietWithoutCascade ==
    ASSUME WorkflowInv, NEW c \in Callers, Quiet(c), NoCascade, RequestsTyped',
           UNCHANGED counts,
           requests' \in 0 .. MaxRequests, faults' \in 0 .. MaxFaults,
           Followed(c)'
    PROVE  Good(c)
  <1>1. WorkflowTypes'
    BY QuietTypes DEF NoCascade, cascade, counts, WorkflowInv, WorkflowTypes
  <1>2. Exclusive'
    BY DEF NoCascade, cascade, WorkflowInv, Exclusive
  <1> QED BY <1>1, <1>2, QuietIsSafe DEF Good

LEMMA BeginCounts ==
    ASSUME WorkflowInv, NEW c \in Callers, Begin(c)
    PROVE  requests' \in 0 .. MaxRequests /\ faults' \in 0 .. MaxFaults
  BY LifecycleAssumption DEF Begin, WorkflowInv, WorkflowTypes

LEMMA SameCounts ==
    ASSUME WorkflowInv, UNCHANGED counters
    PROVE  requests' \in 0 .. MaxRequests /\ faults' \in 0 .. MaxFaults
  BY DEF counters, WorkflowInv, WorkflowTypes

-------------------------------------------------------------------------------
LEMMA UpdateGood == ASSUME WorkflowInv, NEW c \in Callers, Update(c) PROVE Good(c)
  <1>1. PICK to \in BudgetStatuses :
            /\ to = status \/ <<status, to>> \in BudgetPolicy
            /\ Proceed(c, IF to = status THEN "write" ELSE "count", to, status)
    BY DEF Update
  <1>2. /\ RequestsTyped'
        /\ at'[c] = (IF to = status THEN "write" ELSE "count")
        /\ about'[c] = to /\ seen'[c] = status
        /\ OthersKept(c)
    BY <1>1, ProceedRequest
    DEF Update, WorkflowInv, OthersKept, NoCascade, cascade, counts, WorkflowSteps
  <1>3. Quiet(c) /\ NoCascade /\ UNCHANGED counts /\ at[c] = "idle" /\ ~Closed
    BY <1>2 DEF Update, Quiet
  <1>4. Followed(c)'
    <2>1. ~Closed'
      BY <1>3, QuietIsSafe
    <2>2. \A x \in Children : written'[c][x] = None
      BY <1>3 DEF WorkflowInv, Followed, InCascade, NoCascade, cascade, CascadeSteps
    <2>3. Decided(c)' /\ InCascade(c)' /\ Unclosed(c)'
      BY <1>1, <1>2, <2>1, <2>2
      DEF Decided, InCascade, Unclosed, BudgetSteps, CascadeSteps, WritingSteps
    <2>4. Complete(c)' /\ Rechecked(c)'
      BY <1>2 DEF Complete, Rechecked, Mustered, CascadeSteps
    <2>5. Counting(c)'
      BY <1>3 DEF WorkflowInv, Followed, Counting, counts
    <2> QED BY <2>3, <2>4, <2>5 DEF Followed
  <1> QED BY <1>2, <1>3, <1>4, QuietWithoutCascade, BeginCounts DEF Update

LEMMA CheckEnvelopesGood ==
    ASSUME WorkflowInv, NEW c \in Callers, CheckEnvelopes(c) PROVE Good(c)
  <1>1. Answer(c) \/ Go(c, "write")
    BY DEF CheckEnvelopes
  <1>2. RequestsTyped' /\ OthersKept(c)
    BY <1>1, AnswerRequest, GoRequest
    DEF CheckEnvelopes, WorkflowInv, OthersKept, NoCascade, cascade, counts, WorkflowSteps
  <1>3. Quiet(c) /\ NoCascade /\ UNCHANGED counts /\ at[c] = "check" /\ Followed(c)
    BY <1>2 DEF CheckEnvelopes, Quiet, WorkflowInv
  <1>4. \A x \in Children : written'[c][x] = None
    BY <1>3 DEF Followed, InCascade, NoCascade, cascade, CascadeSteps
  <1>5. CASE Answer(c)
    BY <1>2, <1>3, <1>4, <1>5, AnswerRequest, CountsKept, IdleFollows, QuietWithoutCascade,
       SameCounts
    DEF CheckEnvelopes, WorkflowInv
  <1>6. CASE Go(c, "write") /\ ~(Strict /\ \E x \in Envelopes : child[x] = "DRAFT")
    <2>1. at'[c] = "write" /\ about'[c] = about[c] /\ seen'[c] = seen[c]
      BY <1>6, GoRequest DEF WorkflowInv, WorkflowSteps
    <2>2. Closed' <=> Closed
      BY <1>3, QuietIsSafe
    <2>3. Recorded(c, {})
      BY <1>3, RecordKeeps DEF Quiet, Reads, WorkflowInv
    <2>4. Decided(c)' /\ InCascade(c)'
      BY <1>3, <1>4, <2>1 DEF Followed, Decided, InCascade, BudgetSteps, CascadeSteps
    <2>5. Unclosed(c)'
      BY <1>3, <2>1, <2>2, <2>3 DEF Followed, Unclosed, Recorded, WritingSteps, WorkflowSteps
    <2>6. Complete(c)'
      BY <1>3, <2>1, <2>3
      DEF Followed, Complete, Recorded, Mustered, Quiet, CascadeSteps, LeftBehind
    <2>7. Rechecked(c)'
      BY <1>3, <1>6, <2>1 DEF Rechecked, Quiet
    <2>8. Counting(c)'
      BY <1>3, <2>1, CountsKept
    <2>9. Followed(c)'
      BY <2>4, <2>5, <2>6, <2>7, <2>8 DEF Followed
    <2> QED BY <1>2, <1>3, <2>9, QuietWithoutCascade, SameCounts DEF CheckEnvelopes
  <1> QED BY <1>5, <1>6 DEF CheckEnvelopes

LEMMA CountGood == ASSUME WorkflowInv, NEW c \in Callers, Count(c) PROVE Good(c)
  <1>1. at[c] = "count" /\ Followed(c)
    BY DEF Count, WorkflowInv
  <1>2. PICK q \in Decisive(seen[c], about[c]) \ counted[c] :
            /\ counted' = [counted EXCEPT ![c] = @ \cup {q}]
            /\ found' = IF \E x \in Children : CountOf(x, child[x]) = q
                        THEN [found EXCEPT ![c] = @ \cup {q}] ELSE found
    BY DEF Count
  <1>3. q \in AllCounts
    BY <1>2 DEF Decisive, AllCounts, Tables
  <1>4. /\ counted' \in [Callers -> SUBSET AllCounts]
        /\ counted'[c] = counted[c] \cup {q}
        /\ \A d \in Callers \ {c} : counted'[d] = counted[d]
    BY <1>2, <1>3 DEF WorkflowInv, WorkflowTypes
  <1>5. /\ found' \in [Callers -> SUBSET AllCounts]
        /\ found'[c] = IF \E x \in Children : CountOf(x, child[x]) = q
                       THEN found[c] \cup {q} ELSE found[c]
        /\ \A d \in Callers \ {c} : found'[d] = found[d]
    BY <1>2, <1>3 DEF WorkflowInv, WorkflowTypes
  <1>6. /\ UNCHANGED <<versionRows, status, child, snapshots, history, counters>>
        /\ at' = at /\ about' = about /\ seen' = seen
        /\ written' = written /\ pass' = pass /\ todo' = todo /\ row' = row
    BY DEF Count, request, NoCascade, cascade
  <1>7. /\ touched' = touched /\ slipped' = slipped /\ early' = early
        /\ overwrote' = overwrote /\ (Closed' <=> Closed)
    BY <1>6 DEF history, Closed, Frozen, versionRows
  <1>8. Record(c, {})
    BY <1>1, <1>6, <1>7 DEF Record
  <1>9. OthersKept(c)
    BY <1>4, <1>5, <1>6 DEF OthersKept
  <1>10. Quiet(c)
    BY <1>6, <1>7, <1>8, <1>9 DEF Quiet, Reads
  <1>11. RequestsTyped' /\ Exclusive'
    BY <1>6 DEF WorkflowInv, RequestsTyped, Exclusive
  <1>12. WorkflowTypes'
    <2>1. /\ written' \in [Callers -> [Children -> {None, "PENDING", "ACTIVE"}]]
          /\ pass' \in [Callers -> 0 .. 5]
          /\ todo' \in [Callers -> SUBSET Children]
          /\ row' = [d \in Callers |-> row'[d]]
      BY <1>6 DEF WorkflowInv, WorkflowTypes
    <2> QED BY <1>4, <1>5, <1>6, <1>10, <2>1, QuietTypes, SameCounts
  <1>13. Decided(c)' /\ InCascade(c)' /\ Unclosed(c)' /\ Complete(c)' /\ Rechecked(c)'
    BY <1>1, <1>6, <1>7
    DEF Followed, Decided, InCascade, Unclosed, Complete, Rechecked, CascadeSteps, WritingSteps
  <1>14. Counting(c)'
    <2>1. Counting(c) /\ child' = child
      BY <1>1, <1>6 DEF Followed
    <2>2. /\ found'[c] \subseteq counted'[c]
          /\ counted'[c] \subseteq Decisive(seen[c], about[c])
      BY <1>1, <1>2, <1>4, <1>5, <2>1 DEF Counting
    <2>3. ASSUME c \notin touched, NEW x \in Children, CountOf(x, child[x]) \in counted'[c]
          PROVE  CountOf(x, child[x]) \in found'[c]
      BY <1>1, <1>4, <1>5, <2>1, <2>3 DEF Counting
    <2> QED BY <1>1, <1>6, <1>7, <2>1, <2>2, <2>3 DEF Counting
  <1>15. Followed(c)'
    BY <1>13, <1>14 DEF Followed
  <1> QED BY <1>10, <1>11, <1>12, <1>15, QuietIsSafe DEF Good

LEMMA DecideGood == ASSUME WorkflowInv, NEW c \in Callers, Decide(c) PROVE Good(c)
  <1>1. at[c] = "count" /\ Followed(c) /\ Decided(c)
    BY DEF Decide, WorkflowInv, Followed
  <1>2. /\ about[c] \in BudgetStatuses
        /\ seen[c] # about[c] /\ <<seen[c], about[c]>> \in BudgetPolicy
        /\ \A x \in Children : written[c][x] = None
    BY <1>1 DEF Decided, Followed, InCascade, BudgetSteps, CascadeSteps
  <1>3. Answer(c) \/ Go(c, "list") \/ Go(c, "check") \/ Go(c, "write")
    BY DEF Decide
  <1>4. RequestsTyped'
    BY <1>3, AnswerRequest, GoRequest DEF WorkflowInv, WorkflowSteps
  <1>15. /\ counted' \in [Callers -> SUBSET AllCounts]
         /\ found' \in [Callers -> SUBSET AllCounts]
         /\ counted'[c] = {} /\ found'[c] = {}
         /\ \A d \in Callers \ {c} : counted'[d] = counted[d] /\ found'[d] = found[d]
    BY DEF Decide, WorkflowInv, WorkflowTypes
  <1>16. at'[c] # "count"
    BY <1>3, AnswerRequest, GoRequest DEF WorkflowInv, WorkflowSteps
  <1>17. Counting(c)'
    BY <1>15, <1>16 DEF Counting
  <1>5. OthersKept(c)
    BY <1>3, <1>15, AnswerRequest, GoRequest
    DEF Decide, WorkflowInv, WorkflowTypes, OthersKept, WorkflowSteps
  <1>6. Quiet(c) /\ written' = written /\ todo' = todo /\ row' = row /\ UNCHANGED counters
    BY <1>5 DEF Decide, Quiet
  <1>7. pass' \in [Callers -> 0 .. 5]
    BY DEF Decide, WorkflowInv, WorkflowTypes
  <1>8. WorkflowTypes'
    BY <1>6, <1>7, <1>15, QuietTypes, SameCounts DEF WorkflowInv, WorkflowTypes
  <1>9. Exclusive'
    BY <1>6 DEF WorkflowInv, Exclusive
  <1>10. /\ Closed' <=> Closed
         /\ Recorded(c, {})
    BY <1>6, QuietIsSafe, RecordKeeps DEF Quiet, Reads, WorkflowInv
  <1>11. ASSUME NEW next \in {"list", "check", "write"}, Go(c, next)
         PROVE  /\ at'[c] = next /\ about'[c] = about[c] /\ seen'[c] = seen[c]
                /\ Unclosed(c)'
    <2>1. at'[c] = next /\ about'[c] = about[c] /\ seen'[c] = seen[c]
      BY <1>11, GoRequest DEF WorkflowInv, WorkflowSteps
    <2> QED BY <1>1, <1>10, <2>1 DEF Followed, Unclosed, Recorded, WritingSteps, WorkflowSteps
  <1>12. CASE Answer(c)
    <2>1. Followed(c)'
      BY <1>2, <1>6, <1>12, <1>15, AnswerRequest, IdleFollows DEF WorkflowInv
    <2> QED BY <1>4, <1>6, <1>8, <1>9, <2>1, QuietIsSafe DEF Good
  <1>13. CASE found[c] # {} /\ Go(c, "list")
              /\ pass' = [pass EXCEPT ![c] = 1]
    <2>1. at'[c] = "list" /\ about'[c] = about[c] /\ seen'[c] = seen[c] /\ Unclosed(c)'
      BY <1>11, <1>13
    <2>2. pass'[c] = 1
      BY <1>13 DEF WorkflowInv, WorkflowTypes
    <2>3. Mustered(c) /\ about[c] \in {"SUBMITTED", "VALIDATED"}
      BY <1>1, <1>13 DEF Followed, Counting, Decisive, Mustered
    <2>4. Decided(c)'
      BY <1>2, <2>1, <2>3 DEF Decided, BudgetSteps, CascadeSteps
    <2>5. InCascade(c)'
      BY <1>2, <1>6, <2>1, <2>2, LastPassFacts DEF InCascade, CascadeSteps
    <2>6. Complete(c)' /\ Rechecked(c)'
      BY <2>1, <2>2, <2>3 DEF Complete, Rechecked, Mustered, CascadeSteps
    <2>7. Followed(c)'
      BY <1>17, <2>1, <2>4, <2>5, <2>6 DEF Followed
    <2> QED BY <1>4, <1>6, <1>8, <1>9, <2>7, QuietIsSafe DEF Good
  <1>14. CASE /\ found[c] = {}
              /\ Go(c, IF about[c] = "VALIDATED" THEN "check" ELSE "write")
              /\ UNCHANGED pass
    <2> DEFINE next == IF about[c] = "VALIDATED" THEN "check" ELSE "write"
    <2>1. at'[c] = next /\ about'[c] = about[c] /\ seen'[c] = seen[c] /\ Unclosed(c)'
      BY <1>11, <1>14
    <2>2. Decided(c)'
      BY <1>2, <2>1 DEF Decided, BudgetSteps, CascadeSteps
    <2>3. InCascade(c)'
      BY <1>2, <1>6, <2>1 DEF InCascade, CascadeSteps
    <2>4. ASSUME Mustered(c), c \notin touched, NEW x \in Children
          PROVE  child[x] \notin LeftBehind(about[c])
      <3>1. CountOf(x, child[x]) \notin counted[c]
        BY <1>1, <1>14, <2>4 DEF Followed, Counting
      <3>2. CountOf(x, child[x]) \notin Decisive(seen[c], about[c])
        BY <3>1 DEF Decide
      <3> QED BY <2>4, <3>2, DecisiveFacts
    <2>5. Complete(c)'
      <3>1. c \in touched => c \in touched'
        BY <1>10, <2>1 DEF Recorded
      <3>2. child' = child /\ (Mustered(c)' <=> Mustered(c))
        BY <1>6, <2>1 DEF Quiet, Mustered
      <3> QED BY <2>1, <2>4, <3>1, <3>2 DEF Complete, CascadeSteps
    <2>6. Rechecked(c)'
      BY <2>1 DEF Rechecked
    <2>7. Followed(c)'
      BY <1>17, <2>1, <2>2, <2>3, <2>5, <2>6 DEF Followed
    <2> QED BY <1>4, <1>6, <1>8, <1>9, <2>7, QuietIsSafe DEF Good
  <1> QED BY <1>12, <1>13, <1>14 DEF Decide

-------------------------------------------------------------------------------
\* What becomes of the request that has written its status.
LEMMA FinishGood ==
    ASSUME WorkflowInv, NEW c \in Callers, at[c] \in {"write", "commit"}, Finish(c)
    PROVE  /\ RequestsTyped'
           /\ \A d \in Callers \ {c} :
                at'[d] = at[d] /\ about'[d] = about[d] /\ seen'[d] = seen[d]
           /\ \/ at'[c] = "idle"
              \/ /\ at'[c] = "snapshot" /\ about'[c] = about[c] /\ seen'[c] = seen[c]
                 /\ about[c] # seen[c] /\ about[c] \in {"SUBMITTED", "VALIDATED"}
  BY AnswerRequest, GoRequest DEF Finish, WorkflowInv, WorkflowSteps

LEMMA WriteStatusGood == ASSUME WorkflowInv, NEW c \in Callers, WriteStatus(c) PROVE Good(c)
  <1>1. at[c] = "write" /\ Followed(c) /\ Decided(c)
    BY DEF WriteStatus, WorkflowInv, Followed
  <1>2. /\ about[c] \in BudgetStatuses
        /\ seen[c] = about[c] \/ <<seen[c], about[c]>> \in BudgetPolicy
        /\ \A x \in Children : written[c][x] = None
    BY <1>1 DEF Decided, Followed, InCascade, BudgetSteps, CascadeSteps
  <1>3. /\ RequestsTyped'
        /\ OthersKept(c)
        /\ \/ at'[c] = "idle"
           \/ /\ at'[c] = "snapshot" /\ about'[c] = about[c] /\ seen'[c] = seen[c]
              /\ about[c] # seen[c] /\ about[c] \in {"SUBMITTED", "VALIDATED"}
    BY <1>1, FinishGood DEF WriteStatus, NoCascade, cascade, counts, OthersKept
  <1>4. Recorded(c, {})
    BY RecordKeeps DEF WriteStatus, WorkflowInv
  <1>5. /\ overwrote' \in SUBSET (Children \cup {"budget"})
        /\ overwrote \subseteq overwrote'
        /\ seen[c] # status => "budget" \in overwrote'
    BY DEF WriteStatus, Overwrite, WorkflowInv, WorkflowTypes
  <1>6. WorkflowTypes'
    BY <1>2, <1>4, <1>5, SameCounts
    DEF WriteStatus, NoCascade, cascade, counts, Recorded, WorkflowInv, WorkflowTypes
  <1>11. /\ at'[c] # "count" /\ Counting(c)'
         /\ counted'[c] = {} /\ found'[c] = {}
    BY <1>1, <1>3, CountsKept DEF WriteStatus
  <1>7. Exclusive' /\ ValidatedSnapshotSettled'
    BY DEF WriteStatus, NoCascade, cascade, WorkflowInv, Exclusive, ValidatedSnapshotSettled
  <1>8. Frame(c, {})
    BY <1>3, <1>4, <1>5 DEF Frame, WriteStatus
  <1>9. Followed(c)'
    <2>1. CASE at'[c] = "idle"
      BY <1>2, <1>11, <2>1, IdleFollows DEF WriteStatus, NoCascade, cascade
    <2>2. CASE at'[c] # "idle"
      <3>1. /\ at'[c] = "snapshot" /\ about'[c] = about[c] /\ seen'[c] = seen[c]
            /\ about[c] # seen[c] /\ about[c] \in {"SUBMITTED", "VALIDATED"}
        BY <1>3, <2>2
      <3>2. Decided(c)' /\ InCascade(c)' /\ Unclosed(c)' /\ Rechecked(c)'
        BY <1>2, <3>1
        DEF Decided, InCascade, Unclosed, Rechecked, BudgetSteps, CascadeSteps, WritingSteps,
            WriteStatus, NoCascade, cascade
      <3>3. Complete(c)'
        BY <1>1, <1>4, <3>1
        DEF Followed, Complete, Recorded, Mustered, WriteStatus, CascadeSteps, LeftBehind
      <3> QED BY <1>11, <3>2, <3>3 DEF Followed
    <2> QED BY <2>1, <2>2
  <1>10. WorkflowSafe
    <2>1. child' = child /\ status' = about[c]
      BY DEF WriteStatus
    <2>2. LeavesNoneBehind
      <3> SUFFICES ASSUME c \notin touched, Mustered(c)
                   PROVE  \A x \in Children : child'[x] \notin LeftBehind(about[c])
        BY <1>3 DEF LeavesNoneBehind, Writes, OthersKept, Mustered, LeftBehind
      <3> QED BY <1>1, <2>1 DEF Followed, Complete
    <2>3. EnvelopesReady
      BY <1>1, <1>3, <2>1 DEF EnvelopesReady, Writes, OthersKept, Followed, Rechecked
    <2>4. FollowsPolicy
      BY <1>2, <1>5, <2>1 DEF FollowsPolicy
    <2>5. KeptWhenClosed
      BY <1>1 DEF KeptWhenClosed, Followed, Unclosed, WritingSteps, WorkflowSteps
    <2> QED BY <2>2, <2>3, <2>4, <2>5 DEF WorkflowSafe
  <1> QED BY <1>3, <1>6, <1>7, <1>8, <1>9, <1>10 DEF Good

-------------------------------------------------------------------------------
\* A cascade that goes on, without writing.
LEMMA CascadeGoesOn ==
    ASSUME WorkflowInv, NEW c \in Callers, at[c] \in CascadeSteps, Quiet(c), RequestsTyped',
           at'[c] \in CascadeSteps, about'[c] = about[c], seen'[c] = seen[c]
    PROVE  /\ Decided(c)' /\ Unclosed(c)'
           /\ Mustered(c) /\ Mustered(c)'
           /\ c \in touched => c \in touched'
           /\ c \in slipped => c \in slipped'
  <1>1. Followed(c) /\ Decided(c) /\ Unclosed(c) /\ Complete(c)
    BY DEF WorkflowInv, Followed
  <1>2. Recorded(c, {}) /\ (Closed' <=> Closed)
    BY QuietIsSafe, RecordKeeps DEF Quiet, Reads, WorkflowInv
  <1>3. at'[c] # "idle"
    BY DEF CascadeSteps
  <1>4. Decided(c)'
    BY <1>1 DEF Decided, BudgetSteps, CascadeSteps
  <1>5. Unclosed(c)'
    BY <1>1, <1>2, <1>3 DEF Unclosed, Recorded, WritingSteps, WorkflowSteps, CascadeSteps
  <1>6. Mustered(c) /\ Mustered(c)'
    BY <1>1 DEF Complete, Mustered
  <1> QED BY <1>2, <1>3, <1>4, <1>5, <1>6 DEF Recorded

\* A cascade that writes nothing more keeps what it has earned.
LEMMA StillEarned ==
    ASSUME WorkflowInv, NEW c \in Callers, Quiet(c), written' = written, about'[c] = about[c]
    PROVE  /\ \A x \in Children : written'[c][x] # None => Earned(c, x)'
           /\ \A x \in Children : Sees(c)'[x] = Sees(c)[x]
  BY DEF WorkflowInv, Followed, InCascade, Earned, Quiet, Reads, Sees

LEMMA AbortGood ==
    ASSUME WorkflowInv, NEW c \in Callers, Abort(c),
           UNCHANGED <<versionRows, counts, status, child, snapshots>>, Reads(c),
           at[c] # "count",
           requests' \in 0 .. MaxRequests, faults' \in 0 .. MaxFaults
    PROVE  Good(c)
  <1>1. RequestsTyped' /\ at'[c] = "idle"
    BY AnswerRequest DEF Abort, WorkflowInv
  <1> DEFINE none == [x \in Children |-> None]
  <1>2. none \in [Children -> {None, "PENDING", "ACTIVE"}] /\ \A x \in Children : none[x] = None
    OBVIOUS
  <1>3. written' = [written EXCEPT ![c] = none]
    BY DEF Abort
  <1> HIDE DEF none
  <1>4. /\ written' \in [Callers -> [Children -> {None, "PENDING", "ACTIVE"}]]
        /\ written'[c] = none
    BY <1>2, <1>3 DEF WorkflowInv, WorkflowTypes
  <1>5. pass' \in [Callers -> 0 .. 5] /\ todo' \in [Callers -> SUBSET Children]
    BY DEF Abort, WorkflowInv, WorkflowTypes
  <1>6. row' = [d \in Callers |-> row'[d]]
    BY DEF Abort, WorkflowInv, WorkflowTypes
  <1>7. \A x \in Children : written'[c][x] = None
    BY <1>2, <1>4
  <1>8. OthersKept(c)
    BY AnswerRequest DEF Abort, OthersKept, counts, WorkflowInv, WorkflowTypes
  <1>9. Quiet(c)
    BY <1>8 DEF Quiet
  <1>11. /\ counted' \in [Callers -> SUBSET AllCounts]
         /\ found' \in [Callers -> SUBSET AllCounts]
         /\ counted'[c] = {} /\ found'[c] = {}
    BY <1>1, CountsKept
  <1>10. Followed(c)' /\ Exclusive' /\ WorkflowTypes'
    BY <1>1, <1>7, <1>4, <1>5, <1>6, <1>8, <1>9, <1>11, IdleFollows, FewerWritten, QuietTypes
  <1> QED BY <1>1, <1>9, <1>10, QuietIsSafe DEF Good

LEMMA ListChildrenGood ==
    ASSUME WorkflowInv, NEW c \in Callers, ListChildren(c) PROVE Good(c)
  <1> DEFINE p == pass[c]
             listed == {x \in Passes[p].rows : Sees(c)[x] = Passes[p].from}
  <1>1. /\ at[c] = "list" /\ Followed(c)
        /\ p \in 1 .. LastPass(about[c]) + 1
        /\ about[c] \in {"SUBMITTED", "VALIDATED"}
        /\ p <= 2 => \A x \in Children : written[c][x] \in {None, "PENDING"}
    BY DEF ListChildren, WorkflowInv, Followed, Decided, InCascade, CascadeSteps, BudgetSteps
  <1>2. p \in 1 .. 5 /\ LastPass(about[c]) \in {2, 4}
    BY <1>1, LastPassFacts
  <1>3. Go(c, "recheck") \/ Go(c, "commit") \/ Go(c, "list") \/ Go(c, "read")
    BY DEF ListChildren
  <1>4. /\ RequestsTyped' /\ at'[c] \in CascadeSteps
        /\ about'[c] = about[c] /\ seen'[c] = seen[c]
    BY <1>3, GoRequest DEF WorkflowInv, WorkflowSteps, CascadeSteps
  <1>5. OthersKept(c)
    BY <1>3, GoRequest
    DEF ListChildren, WorkflowInv, WorkflowTypes, OthersKept, counts, WorkflowSteps
  <1>17. /\ counted' \in [Callers -> SUBSET AllCounts]
         /\ found' \in [Callers -> SUBSET AllCounts]
         /\ Counting(c)'
    BY <1>1, <1>4, CountsKept DEF ListChildren, CascadeSteps
  <1>6. Quiet(c) /\ written' = written /\ row' = row /\ UNCHANGED counters
    BY <1>5 DEF ListChildren, Quiet
  <1>7. ASSUME p <= LastPass(about[c])
        PROVE  p \in 1 .. 4 /\ listed \subseteq Children
    BY <1>2, <1>7, PassFacts DEF Children
  <1>8. pass' \in [Callers -> 0 .. 5] /\ todo' \in [Callers -> SUBSET Children]
    <2>1. CASE p > LastPass(about[c])
      BY <2>1 DEF ListChildren, WorkflowInv, WorkflowTypes
    <2>2. CASE p <= LastPass(about[c])
      <3>1. /\ todo' = [todo EXCEPT ![c] = listed]
            /\ pass' = [pass EXCEPT ![c] = p + 1] \/ pass' = pass
        BY <1>2, <2>2 DEF ListChildren
      <3> QED BY <1>7, <2>2, <3>1 DEF WorkflowInv, WorkflowTypes
    <2> QED BY <1>2, <2>1, <2>2
  <1>9. WorkflowTypes' /\ Exclusive'
    <2>1. /\ written' \in [Callers -> [Children -> {None, "PENDING", "ACTIVE"}]]
          /\ row' = [d \in Callers |-> row'[d]]
      BY <1>6 DEF WorkflowInv, WorkflowTypes
    <2>2. requests' \in 0 .. MaxRequests /\ faults' \in 0 .. MaxFaults
      BY <1>6, SameCounts
    <2>3. WorkflowTypes'
      BY <1>6, <1>8, <1>17, <2>1, <2>2, QuietTypes
    <2>4. Exclusive'
      BY <1>6 DEF WorkflowInv, Exclusive
    <2> QED BY <2>3, <2>4
  <1>10. /\ Decided(c)' /\ Unclosed(c)' /\ Mustered(c) /\ Mustered(c)'
         /\ c \in touched => c \in touched'
    BY <1>1, <1>4, <1>6, CascadeGoesOn DEF CascadeSteps
  <1>11. /\ \A x \in Children : written'[c][x] # None => Earned(c, x)'
         /\ \A x \in Children : Sees(c)'[x] = Sees(c)[x]
    BY <1>4, <1>6, StillEarned
  <1>12. \A q \in 1 .. 4 : PassDone(c, q)' <=> PassDone(c, q)
    BY <1>11, PassFacts DEF PassDone, Children
  <1>13. c \notin touched => \A q \in 1 .. p - 1 : PassDone(c, q)
    BY <1>1 DEF Followed, Complete
  <1>14. CASE p > LastPass(about[c])
    <2>1. Go(c, IF about[c] = "VALIDATED" THEN "recheck" ELSE "commit") /\ pass' = pass
      BY <1>14 DEF ListChildren
    <2>2. /\ at'[c] = (IF about[c] = "VALIDATED" THEN "recheck" ELSE "commit")
      BY <2>1, GoRequest DEF WorkflowInv, WorkflowSteps
    <2>3. InCascade(c)'
      BY <1>11, <2>2 DEF InCascade, CascadeSteps
    <2>4. c \notin touched => \A x \in Children : Sees(c)[x] \notin LeftBehind(about[c])
      <3> SUFFICES ASSUME c \notin touched, NEW x \in Children
                   PROVE  Sees(c)[x] \notin LeftBehind(about[c])
        OBVIOUS
      <3>1. PassDone(c, 1) /\ PassDone(c, 2)
        BY <1>2, <1>13, <1>14
      <3>2. Sees(c)[x] # "DRAFT"
        BY <3>1, PassFacts DEF PassDone, Children
      <3>3. ASSUME about[c] # "SUBMITTED" PROVE Sees(c)[x] # "PENDING"
        <4>1. PassDone(c, 3) /\ PassDone(c, 4)
          BY <1>2, <1>13, <1>14, <3>3, LastPassFacts
        <4> QED BY <4>1, PassFacts DEF PassDone, Children
      <3> QED BY <3>2, <3>3 DEF LeftBehind
    <2>5. Complete(c)'
      BY <1>4, <1>10, <1>11, <2>2, <2>4 DEF Complete, LeftBehind
    <2>6. Rechecked(c)'
      BY <1>4, <2>2 DEF Rechecked
    <2>7. Followed(c)'
      BY <1>10, <1>17, <2>3, <2>5, <2>6 DEF Followed
    <2> QED BY <1>4, <1>6, <1>9, <2>7, QuietIsSafe DEF Good
  <1>15. CASE p <= LastPass(about[c]) /\ listed = {}
    <2>1. Go(c, "list") /\ pass' = [pass EXCEPT ![c] = p + 1]
      BY <1>2, <1>15 DEF ListChildren
    <2>2. at'[c] = "list" /\ pass'[c] = p + 1
      BY <2>1, GoRequest DEF WorkflowInv, WorkflowTypes, WorkflowSteps
    <2>3. InCascade(c)'
      BY <1>1, <1>2, <1>4, <1>6, <1>11, <1>15, <2>2 DEF InCascade, CascadeSteps
    <2>4. PassDone(c, p)
      BY <1>15 DEF PassDone
    <2>5. c \notin touched => \A q \in 1 .. p : PassDone(c, q)'
      <3>1. \A q \in 1 .. p : q \in 1 .. 4 /\ (q \in 1 .. p - 1 \/ q = p)
        BY <1>7, <1>15
      <3> QED BY <1>12, <1>13, <2>4, <3>1
    <2>6. Complete(c)' /\ Rechecked(c)'
      BY <1>2, <1>10, <2>2, <2>5 DEF Complete, Rechecked
    <2>7. Followed(c)'
      BY <1>10, <1>17, <2>3, <2>6 DEF Followed
    <2> QED BY <1>4, <1>6, <1>9, <2>7, QuietIsSafe DEF Good
  <1>16. CASE p <= LastPass(about[c]) /\ listed # {}
    <2>1. Go(c, "read") /\ pass' = pass /\ todo' = [todo EXCEPT ![c] = listed]
      BY <1>2, <1>16 DEF ListChildren
    <2>2. at'[c] = "read" /\ pass'[c] = p /\ todo'[c] = listed
      BY <2>1, GoRequest DEF WorkflowInv, WorkflowTypes, WorkflowSteps
    <2>3. InCascade(c)'
      BY <1>1, <1>2, <1>4, <1>6, <1>11, <1>16, <2>2 DEF InCascade, CascadeSteps
    <2>4. c \notin touched => \A q \in 1 .. p - 1 : PassDone(c, q)'
      <3>1. \A q \in 1 .. p - 1 : q \in 1 .. 4
        BY <1>2
      <3> QED BY <1>12, <1>13, <3>1
    <2>5. \A x \in Passes[p].rows : Sees(c)'[x] = Passes[p].from => x \in listed
      BY <1>7, <1>11, <1>16, PassFacts DEF Children
    <2>6. Complete(c)' /\ Rechecked(c)'
      BY <1>10, <2>2, <2>4, <2>5 DEF Complete, Rechecked
    <2>7. Followed(c)'
      BY <1>10, <1>17, <2>3, <2>6 DEF Followed
    <2> QED BY <1>4, <1>6, <1>9, <2>7, QuietIsSafe DEF Good
  <1> QED BY <1>2, <1>14, <1>15, <1>16

\* A step of a pass, which may drop a child that is done from those it has left.
LEMMA PassGoesOn ==
    ASSUME WorkflowInv, NEW c \in Callers, at[c] \in {"read", "set"}, Quiet(c),
           written' = written, about'[c] = about[c],
           \A x \in Children : x \in todo[c] /\ Sees(c)[x] = Passes[pass[c]].from => x \in todo'[c]
    PROVE  /\ pass[c] \in 1 .. 4 /\ pass[c] <= LastPass(about[c])
           /\ c \notin touched =>
                /\ \A q \in 1 .. pass[c] - 1 : PassDone(c, q)'
                /\ \A x \in Passes[pass[c]].rows :
                        Sees(c)'[x] = Passes[pass[c]].from => x \in todo'[c]
  <1>1. Complete(c) /\ pass[c] \in 1 .. LastPass(about[c])
    BY DEF WorkflowInv, Followed, InCascade
  <1>2. pass[c] \in 1 .. 4
    BY <1>1, LastPassFacts
  <1>3. \A x \in Children : Sees(c)'[x] = Sees(c)[x]
    BY StillEarned
  <1>4. \A q \in 1 .. 4 : PassDone(c, q)' <=> PassDone(c, q)
    BY <1>3, PassFacts DEF PassDone, Children
  <1>5. \A q \in 1 .. pass[c] - 1 : q \in 1 .. 4
    BY <1>2
  <1>6. \A x \in Passes[pass[c]].rows : x \in Children
    BY <1>2, PassFacts DEF Children
  <1> QED BY <1>1, <1>2, <1>3, <1>4, <1>5, <1>6 DEF Complete

LEMMA ReadChildGood == ASSUME WorkflowInv, NEW c \in Callers, ReadChild(c) PROVE Good(c)
  <1> DEFINE p == Passes[pass[c]]
  <1>1. at[c] = "read" /\ Followed(c) /\ UNCHANGED counters
    BY DEF ReadChild, WorkflowInv
  <1>2. requests' \in 0 .. MaxRequests /\ faults' \in 0 .. MaxFaults
    BY <1>1, SameCounts
  <1>3. UNCHANGED <<versionRows, counts, status, child, snapshots>> /\ Reads(c)
    BY DEF ReadChild
  <1>8. /\ counted' = counted /\ found' = found
        /\ counted' \in [Callers -> SUBSET AllCounts]
        /\ found' \in [Callers -> SUBSET AllCounts]
    BY <1>3 DEF counts, WorkflowInv, WorkflowTypes
  <1>9. at'[c] # "count" => Counting(c)'
    BY <1>1, <1>3, CountsKept
  <1>4. CASE /\ todo[c] = {}
             /\ pass' = [pass EXCEPT ![c] = @ + 1] /\ Go(c, "list")
             /\ UNCHANGED <<written, todo, row>>
    <2>1. /\ RequestsTyped' /\ at'[c] = "list" /\ about'[c] = about[c] /\ seen'[c] = seen[c]
          /\ OthersKept(c)
          /\ pass'[c] = pass[c] + 1
      BY <1>4, <1>8, GoRequest DEF WorkflowInv, WorkflowTypes, OthersKept, WorkflowSteps
    <2>2. Quiet(c)
      BY <1>3, <2>1 DEF Quiet
    <2>3. /\ pass[c] \in 1 .. 4 /\ pass[c] <= LastPass(about[c])
          /\ c \notin touched => /\ \A q \in 1 .. pass[c] - 1 : PassDone(c, q)'
                                 /\ \A q \in 1 .. 4 : q = pass[c] => PassDone(c, q)'
      <3>1. /\ pass[c] \in 1 .. 4 /\ pass[c] <= LastPass(about[c])
            /\ c \notin touched =>
                /\ \A q \in 1 .. pass[c] - 1 : PassDone(c, q)'
                /\ \A x \in Passes[pass[c]].rows :
                        Sees(c)'[x] = Passes[pass[c]].from => x \in todo'[c]
        BY <1>1, <1>4, <2>1, <2>2, PassGoesOn
      <3>2. todo'[c] = {}
        BY <1>4
      <3> QED BY <3>1, <3>2 DEF PassDone
    <2>4. /\ pass' \in [Callers -> 0 .. 5]
      BY <1>4, <2>3 DEF WorkflowInv, WorkflowTypes
    <2>5. WorkflowTypes' /\ Exclusive'
      <3>1. /\ written' \in [Callers -> [Children -> {None, "PENDING", "ACTIVE"}]]
            /\ todo' \in [Callers -> SUBSET Children]
            /\ row' = [d \in Callers |-> row'[d]]
        BY <1>4 DEF WorkflowInv, WorkflowTypes
      <3>2. WorkflowTypes'
        BY <1>2, <1>8, <2>2, <2>4, <3>1, QuietTypes
      <3>3. Exclusive'
        BY <1>4 DEF WorkflowInv, Exclusive
      <3> QED BY <3>2, <3>3
    <2>6. /\ Decided(c)' /\ Unclosed(c)' /\ Mustered(c)'
          /\ c \in touched => c \in touched'
      BY <1>1, <2>1, <2>2, CascadeGoesOn DEF CascadeSteps
    <2>7. \A x \in Children : written'[c][x] # None => Earned(c, x)'
      BY <1>4, <2>1, <2>2, StillEarned
    <2>8. InCascade(c)'
      BY <1>1, <1>4, <2>1, <2>3, <2>7, LastPassFacts DEF Followed, InCascade, CascadeSteps
    <2>9. c \notin touched => \A q \in 1 .. pass[c] : PassDone(c, q)'
      <3>1. \A q \in 1 .. pass[c] : q \in 1 .. pass[c] - 1 \/ (q \in 1 .. 4 /\ q = pass[c])
        BY <2>3
      <3> QED BY <2>3, <3>1
    <2>10. Complete(c)' /\ Rechecked(c)'
      BY <2>1, <2>3, <2>6, <2>9 DEF Complete, Rechecked
    <2>11. Followed(c)'
      BY <1>9, <2>1, <2>6, <2>8, <2>10 DEF Followed
    <2> QED BY <2>1, <2>2, <2>5, <2>11, QuietIsSafe DEF Good
  <1>5. CASE Abort(c)
    BY <1>1, <1>2, <1>3, <1>5, AbortGood
  <1>6. ASSUME NEW x \in todo[c], Sees(c)[x] = p.to,
               todo' = [todo EXCEPT ![c] = @ \ {x}],
               UNCHANGED <<request, written, pass, row>>
        PROVE  Good(c)
    <2>1. /\ RequestsTyped' /\ at'[c] = "read" /\ about'[c] = about[c] /\ seen'[c] = seen[c]
          /\ OthersKept(c) /\ todo'[c] = todo[c] \ {x}
      BY <1>1, <1>6, <1>8 DEF request, RequestsTyped, WorkflowInv, WorkflowTypes, OthersKept
    <2>2. Quiet(c)
      BY <1>3, <2>1 DEF Quiet
    <2>3. pass[c] \in 1 .. 4
      BY <1>1, LastPassFacts DEF Followed, InCascade
    <2>4. p.to # p.from
      BY <2>3, PassFacts
    <2>5. /\ c \notin touched =>
            /\ \A q \in 1 .. pass[c] - 1 : PassDone(c, q)'
            /\ \A y \in p.rows : Sees(c)'[y] = p.from => y \in todo'[c]
      BY <1>1, <1>6, <2>1, <2>2, <2>4, PassGoesOn
    <2>6. todo' \in [Callers -> SUBSET Children]
      BY <1>6 DEF WorkflowInv, WorkflowTypes
    <2>7. WorkflowTypes' /\ Exclusive'
      <3>1. /\ written' \in [Callers -> [Children -> {None, "PENDING", "ACTIVE"}]]
            /\ pass' \in [Callers -> 0 .. 5]
            /\ row' = [d \in Callers |-> row'[d]]
        BY <1>6 DEF WorkflowInv, WorkflowTypes
      <3>2. WorkflowTypes'
        BY <1>2, <1>8, <2>2, <2>6, <3>1, QuietTypes
      <3>3. Exclusive'
        BY <1>6 DEF WorkflowInv, Exclusive
      <3> QED BY <3>2, <3>3
    <2>8. /\ Decided(c)' /\ Unclosed(c)' /\ Mustered(c)'
          /\ c \in touched => c \in touched'
      BY <1>1, <2>1, <2>2, CascadeGoesOn DEF CascadeSteps
    <2>9. \A y \in Children : written'[c][y] # None => Earned(c, y)'
      BY <1>6, <2>1, <2>2, StillEarned
    <2>10. InCascade(c)'
      BY <1>1, <1>6, <2>1, <2>9 DEF Followed, InCascade, CascadeSteps
    <2>11. Complete(c)' /\ Rechecked(c)'
      BY <1>6, <2>1, <2>5, <2>8 DEF Complete, Rechecked
    <2>12. Followed(c)'
      BY <1>9, <2>1, <2>8, <2>10, <2>11 DEF Followed
    <2> QED BY <2>1, <2>2, <2>7, <2>12, QuietIsSafe DEF Good
  <1>7. ASSUME NEW x \in todo[c], <<Sees(c)[x], p.to>> \in ChildPolicy(x),
               row' = [row EXCEPT ![c] = [id |-> x, status |-> Sees(c)[x]]],
               Go(c, "set"), UNCHANGED <<written, pass, todo>>
        PROVE  Good(c)
    <2>1. /\ RequestsTyped' /\ at'[c] = "set" /\ about'[c] = about[c] /\ seen'[c] = seen[c]
          /\ OthersKept(c)
          /\ row'[c] = [id |-> x, status |-> Sees(c)[x]]
      BY <1>7, <1>8, GoRequest DEF WorkflowInv, WorkflowTypes, OthersKept, WorkflowSteps
    <2>2. Quiet(c)
      BY <1>3, <2>1 DEF Quiet
    <2>3. /\ c \notin touched =>
            /\ \A q \in 1 .. pass[c] - 1 : PassDone(c, q)'
            /\ \A y \in p.rows : Sees(c)'[y] = p.from => y \in todo'[c]
      BY <1>1, <1>7, <2>1, <2>2, PassGoesOn
    <2>4. row' = [d \in Callers |-> row'[d]]
      BY <1>7 DEF WorkflowInv, WorkflowTypes
    <2>5. WorkflowTypes' /\ Exclusive'
      <3>1. /\ written' \in [Callers -> [Children -> {None, "PENDING", "ACTIVE"}]]
            /\ pass' \in [Callers -> 0 .. 5]
            /\ todo' \in [Callers -> SUBSET Children]
        BY <1>7 DEF WorkflowInv, WorkflowTypes
      <3>2. WorkflowTypes'
        BY <1>2, <1>8, <2>2, <2>4, <3>1, QuietTypes
      <3>3. Exclusive'
        BY <1>7 DEF WorkflowInv, Exclusive
      <3> QED BY <3>2, <3>3
    <2>6. /\ Decided(c)' /\ Unclosed(c)' /\ Mustered(c)'
          /\ c \in touched => c \in touched'
      BY <1>1, <2>1, <2>2, CascadeGoesOn DEF CascadeSteps
    <2>7. \A y \in Children : written'[c][y] # None => Earned(c, y)'
      BY <1>7, <2>1, <2>2, StillEarned
    <2>8. x \in Children
      BY DEF WorkflowInv, WorkflowTypes
    <2>9. child[x] # "absent"
      <3>1. Sees(c)[x] # "absent"
        BY <1>7 DEF ChildPolicy, ClosedStatus
      <3>2. CASE written[c][x] = None
        BY <2>8, <3>1, <3>2 DEF Sees
      <3>3. CASE written[c][x] # None
        BY <1>1, <2>8, <3>3 DEF Followed, InCascade, Earned
      <3> QED BY <3>2, <3>3
    <2>10. InCascade(c)'
      BY <1>1, <1>3, <1>7, <2>1, <2>7, <2>8, <2>9 DEF Followed, InCascade, CascadeSteps
    <2>11. Complete(c)' /\ Rechecked(c)'
      BY <1>7, <2>1, <2>3, <2>6 DEF Complete, Rechecked
    <2>12. Followed(c)'
      BY <1>9, <2>1, <2>6, <2>10, <2>11 DEF Followed
    <2> QED BY <2>1, <2>2, <2>5, <2>12, QuietIsSafe DEF Good
  <1> QED BY <1>4, <1>5, <1>6, <1>7 DEF ReadChild

LEMMA FailGood == ASSUME WorkflowInv, NEW c \in Callers, Fail(c) PROVE Good(c)
  <1>1. requests' \in 0 .. MaxRequests /\ faults' \in 0 .. MaxFaults
    BY LifecycleAssumption DEF Fail, WorkflowInv, WorkflowTypes
  <1> QED BY <1>1, AbortGood DEF Fail

\* A child is written over a status its policy, or the cascade, leaves.
LEMMA SetIsEarned ==
    ASSUME WorkflowInv, NEW c \in Callers, SetChild(c), NEW x \in Children, x = row[c].id
    PROVE  LET w == Passes[pass[c]].to IN
           /\ child[x] # "absent"
           /\ \/ child[x] = w
              \/ <<child[x], w>> \in ChildPolicy(x)
              \/ child[x] = "DRAFT" /\ w = "ACTIVE" /\ about[c] = "VALIDATED"
              \/ x \in overwrote'
  <1> DEFINE w == Passes[pass[c]].to
  <1>1. /\ at[c] = "set" /\ Followed(c) /\ x \in Children
        /\ child[x] # "absent"
        /\ <<row[c].status, w>> \in ChildPolicy(x)
        /\ pass[c] \in 1 .. LastPass(about[c])
        /\ about[c] \in {"SUBMITTED", "VALIDATED"}
    BY DEF SetChild, WorkflowInv, Followed, InCascade, Decided, BudgetSteps, CascadeSteps
  <1>2. pass[c] \in 1 .. 4 /\ (pass[c] > 2 => about[c] = "VALIDATED")
    BY <1>1, LastPassFacts
  <1>3. w = IF pass[c] <= 2 THEN "PENDING" ELSE "ACTIVE"
    BY <1>2, PassFacts
  <1> HIDE DEF w
  <1>4. CASE row[c].status # Sees(c)[x]
    BY <1>1, <1>4 DEF SetChild, Overwrite, w
  <1>5. CASE row[c].status = Sees(c)[x] /\ written[c][x] = None
    BY <1>1, <1>5 DEF Sees, w
  <1>6. CASE row[c].status = Sees(c)[x] /\ written[c][x] # None
    <2>1. <<written[c][x], w>> \in ChildPolicy(x) /\ Earned(c, x)
      BY <1>1, <1>6 DEF Sees, Followed, InCascade
    <2>2. written[c][x] \in {"PENDING", "ACTIVE"}
      BY <1>6 DEF WorkflowInv, WorkflowTypes
    <2>3. written[c][x] = "ACTIVE" => pass[c] > 2
      BY <1>1, <1>2, <2>2, <1>6 DEF Followed, InCascade
    <2>4. written[c][x] = "PENDING" /\ w = "ACTIVE" /\ about[c] = "VALIDATED"
      BY <1>2, <1>3, <2>1, <2>2, <2>3 DEF ChildPolicy, ClosedStatus
    <2>5. overwrote \subseteq overwrote'
      BY DEF SetChild, Overwrite
    <2>6. \/ child[x] \in {"PENDING", "DRAFT", "ACTIVE"}
          \/ x \in overwrote
      BY <2>1, <2>4 DEF Earned, ChildPolicy, ClosedStatus
    <2> QED BY <1>1, <2>4, <2>5, <2>6 DEF ChildPolicy, w
  <1> QED BY <1>4, <1>5, <1>6 DEF w

LEMMA SetChildGood == ASSUME WorkflowInv, NEW c \in Callers, SetChild(c) PROVE Good(c)
  <1> DEFINE w == Passes[pass[c]].to
  <1>1. PICK x \in Children : x = row[c].id
    BY DEF SetChild, WorkflowInv, Followed, InCascade
  <1>2. /\ at[c] = "set" /\ Followed(c)
        /\ pass[c] \in 1 .. LastPass(about[c])
    BY DEF SetChild, WorkflowInv, Followed, InCascade
  <1>3. pass[c] \in 1 .. 4
    BY <1>2, LastPassFacts
  <1>4. /\ w = (IF pass[c] <= 2 THEN "PENDING" ELSE "ACTIVE")
        /\ Passes[pass[c]].from = (IF pass[c] <= 2 THEN "DRAFT" ELSE "PENDING")
    BY <1>3, PassFacts
  <1>5. /\ child[x] # "absent"
        /\ \/ child[x] = w
           \/ <<child[x], w>> \in ChildPolicy(x)
           \/ child[x] = "DRAFT" /\ w = "ACTIVE" /\ about[c] = "VALIDATED"
           \/ x \in overwrote'
    BY <1>1, SetIsEarned
  <1>6. /\ RequestsTyped' /\ at'[c] = "read" /\ about'[c] = about[c] /\ seen'[c] = seen[c]
        /\ \A d \in Callers \ {c} :
              at'[d] = at[d] /\ about'[d] = about[d] /\ seen'[d] = seen[d]
    BY GoRequest DEF SetChild, WorkflowInv, WorkflowSteps
  <1>7. written' = [written EXCEPT ![c][x] = w]
    BY <1>1 DEF SetChild
  <1> HIDE DEF w
  <1>8. /\ written' \in [Callers -> [Children -> {None, "PENDING", "ACTIVE"}]]
        /\ written'[c] = [written[c] EXCEPT ![x] = w]
        /\ \A d \in Callers \ {c} : written'[d] = written[d]
    BY <1>4, <1>7 DEF WorkflowInv, WorkflowTypes
  <1>9. /\ written'[c][x] = w
        /\ \A y \in Children \ {x} : written'[c][y] = written[c][y]
    BY <1>8 DEF WorkflowInv, WorkflowTypes
  <1>10. /\ todo' \in [Callers -> SUBSET Children]
         /\ row' = [d \in Callers |-> row'[d]]
         /\ todo'[c] = todo[c] \ {x}
         /\ pass' = pass
    BY <1>1 DEF SetChild, WorkflowInv, WorkflowTypes
  <1>11. OthersKept(c)
    BY <1>6, <1>8 DEF SetChild, WorkflowInv, WorkflowTypes, OthersKept, counts
  <1>12. Recorded(c, {})
    BY RecordKeeps DEF SetChild, WorkflowInv
  <1>13. /\ overwrote' \in SUBSET (Children \cup {"budget"})
         /\ overwrote \subseteq overwrote'
    BY <1>1 DEF SetChild, Overwrite, WorkflowInv, WorkflowTypes
  <1>14. WorkflowTypes'
    BY <1>8, <1>10, <1>12, <1>13, SameCounts
    DEF SetChild, Recorded, counts, WorkflowInv, WorkflowTypes
  <1>15. Exclusive'
    BY <1>1, <1>8, <1>9 DEF SetChild, Free, WorkflowInv, Exclusive
  <1>16. /\ ValidatedSnapshotSettled'
         /\ Closed' <=> Closed
    BY DEF SetChild, WorkflowInv, ValidatedSnapshotSettled, Closed, Frozen, versionRows
  <1>17. Frame(c, {})
    BY <1>11, <1>12, <1>13 DEF SetChild, Frame
  <1>18. WorkflowSafe
    BY DEF SetChild, WorkflowSafe, LeavesNoneBehind, EnvelopesReady, Writes, FollowsPolicy, KeptWhenClosed
  <1>19. Decided(c)' /\ Unclosed(c)'
    BY <1>2, <1>6, <1>12, <1>16
    DEF Followed, Decided, Unclosed, Recorded, BudgetSteps, CascadeSteps, WritingSteps,
        WorkflowSteps
  <1>20. \A y \in Children : written'[c][y] # None => Earned(c, y)'
    <2>1. Earned(c, x)'
      BY <1>5, <1>6, <1>9 DEF SetChild, Earned
    <2>2. ASSUME NEW y \in Children \ {x}, written'[c][y] # None
          PROVE  Earned(c, y)'
      BY <1>2, <1>6, <1>9, <1>13, <2>2 DEF SetChild, Followed, InCascade, Earned
    <2> QED BY <2>1, <2>2
  <1>21. InCascade(c)'
    BY <1>2, <1>4, <1>6, <1>9, <1>10, <1>20 DEF Followed, InCascade, CascadeSteps
  <1>22. /\ Sees(c)'[x] = w
         /\ \A y \in Children \ {x} : Sees(c)'[y] = Sees(c)[y]
    BY <1>4, <1>9, LifecycleAssumption DEF SetChild, Sees
  <1>23. Complete(c)' /\ Rechecked(c)'
    <2>1. Mustered(c)' /\ (c \in touched => c \in touched')
      BY <1>2, <1>6, <1>12 DEF Followed, Complete, Mustered, Recorded, CascadeSteps
    <2>2. c \notin touched => \A q \in 1 .. pass[c] - 1 : PassDone(c, q)'
      <3> SUFFICES ASSUME c \notin touched, NEW q \in 1 .. pass[c] - 1
                   PROVE  PassDone(c, q)'
        OBVIOUS
      <3>1. q \in 1 .. 4 /\ PassDone(c, q)
        BY <1>2, <1>3 DEF Followed, Complete
      <3>2. Passes[q].rows \subseteq Children /\ Passes[q].from # w
        BY <1>3, <1>4, <3>1, PassFacts DEF Children
      <3> QED BY <1>22, <3>1, <3>2 DEF PassDone
    <2>3. c \notin touched =>
                \A y \in Passes[pass[c]].rows :
                    Sees(c)'[y] = Passes[pass[c]].from => y \in todo'[c]
      BY <1>2, <1>3, <1>4, <1>10, <1>22, PassFacts DEF Followed, Complete, Children
    <2> QED BY <1>6, <1>10, <2>1, <2>2, <2>3 DEF Complete, Rechecked
  <1>24. Followed(c)'
    BY <1>2, <1>6, <1>19, <1>21, <1>23, CountsKept DEF SetChild, Followed
  <1> QED BY <1>6, <1>14, <1>15, <1>16, <1>17, <1>18, <1>24 DEF Good

LEMMA RecheckEnvelopesGood ==
    ASSUME WorkflowInv, NEW c \in Callers, RecheckEnvelopes(c) PROVE Good(c)
  <1>1. /\ at[c] = "recheck" /\ Followed(c)
        /\ requests' \in 0 .. MaxRequests /\ faults' \in 0 .. MaxFaults
    BY SameCounts DEF RecheckEnvelopes, WorkflowInv
  <1>2. CASE Abort(c)
    BY <1>1, <1>2, AbortGood DEF RecheckEnvelopes
  <1>3. CASE /\ ~(Strict /\ \E x \in Envelopes : Sees(c)[x] = "DRAFT")
             /\ Go(c, "commit") /\ NoCascade
    <2>1. /\ RequestsTyped' /\ at'[c] = "commit" /\ about'[c] = about[c] /\ seen'[c] = seen[c]
          /\ OthersKept(c)
      BY <1>3, GoRequest
      DEF RecheckEnvelopes, WorkflowInv, OthersKept, NoCascade, cascade, counts, WorkflowSteps
    <2>2. Quiet(c) /\ UNCHANGED counts
      BY <2>1 DEF RecheckEnvelopes, Quiet
    <2>3. /\ Decided(c)' /\ Unclosed(c)' /\ Mustered(c)'
          /\ c \in touched => c \in touched'
      BY <1>1, <2>1, <2>2, CascadeGoesOn DEF CascadeSteps
    <2>4. /\ \A x \in Children : written'[c][x] # None => Earned(c, x)'
          /\ \A x \in Children : Sees(c)'[x] = Sees(c)[x]
      BY <1>3, <2>1, <2>2, StillEarned DEF NoCascade, cascade
    <2>5. InCascade(c)'
      BY <2>1, <2>4 DEF InCascade, CascadeSteps
    <2>6. Complete(c)'
      BY <1>1, <2>1, <2>3, <2>4 DEF Followed, Complete
    <2>7. Rechecked(c)'
      BY <1>3, <2>1, <2>4 DEF Rechecked, Children
    <2>8. Followed(c)'
      BY <1>1, <2>1, <2>2, <2>3, <2>5, <2>6, <2>7, CountsKept DEF Followed
    <2> QED BY <1>1, <1>3, <2>1, <2>2, <2>8, QuietWithoutCascade
  <1> QED BY <1>2, <1>3 DEF RecheckEnvelopes

LEMMA CommitCascadeGood ==
    ASSUME WorkflowInv, NEW c \in Callers, CommitCascade(c) PROVE Good(c)
  <1> DEFINE none == [x \in Children |-> None]
             xs == {x \in Children : written[c][x] # None}
  <1>1. at[c] = "commit" /\ Followed(c)
    BY DEF CommitCascade, WorkflowInv
  <1>2. /\ about[c] \in {"SUBMITTED", "VALIDATED"}
        /\ seen[c] # about[c] /\ <<seen[c], about[c]>> \in BudgetPolicy
        /\ Mustered(c)
    BY <1>1 DEF Followed, Decided, Complete, BudgetSteps, CascadeSteps
  <1>3. /\ RequestsTyped'
        /\ \A d \in Callers \ {c} :
                at'[d] = at[d] /\ about'[d] = about[d] /\ seen'[d] = seen[d]
        /\ \/ at'[c] = "idle"
           \/ at'[c] = "snapshot" /\ about'[c] = about[c] /\ seen'[c] = seen[c]
    BY <1>1, FinishGood DEF CommitCascade
  <1>4. Recorded(c, xs)
    BY RecordKeeps DEF CommitCascade, WorkflowInv
  <1>5. /\ overwrote' \in SUBSET (Children \cup {"budget"})
        /\ overwrote \subseteq overwrote'
        /\ seen[c] # status => "budget" \in overwrote'
    BY DEF CommitCascade, Overwrite, WorkflowInv, WorkflowTypes
  <1>6. none \in [Children -> {None, "PENDING", "ACTIVE"}] /\ \A x \in Children : none[x] = None
    OBVIOUS
  <1>7. written' = [written EXCEPT ![c] = none]
    BY DEF CommitCascade
  <1> HIDE DEF none
  <1>8. /\ written' \in [Callers -> [Children -> {None, "PENDING", "ACTIVE"}]]
        /\ \A x \in Children : written'[c][x] = None
        /\ \A d \in Callers \ {c} : written'[d] = written[d]
    BY <1>6, <1>7 DEF WorkflowInv, WorkflowTypes
  <1>9. /\ pass' \in [Callers -> 0 .. 5]
        /\ \A d \in Callers \ {c} : pass'[d] = pass[d]
    BY DEF CommitCascade, WorkflowInv, WorkflowTypes
  <1>10. /\ child' = [x \in Children |-> child'[x]]
         /\ \A x \in Children : child'[x] = IF written[c][x] = None THEN child[x] ELSE written[c][x]
         /\ \A x \in Children : child'[x] = Sees(c)[x]
    BY DEF CommitCascade, Sees
  <1>11. \A x \in Children : child'[x] \in ChildStatuses(x) \cup {"absent"}
    BY <1>10 DEF WorkflowInv, WorkflowTypes, ChildStatuses
  <1>12. WorkflowTypes'
    BY <1>2, <1>4, <1>5, <1>8, <1>9, <1>10, <1>11, SameCounts
    DEF CommitCascade, Recorded, counts, WorkflowInv, WorkflowTypes, BudgetStatuses
  <1>13. OthersKept(c)
    BY <1>3, <1>8, <1>9 DEF CommitCascade, OthersKept, counts
  <1>20. at'[c] # "count" /\ Counting(c)' /\ counted'[c] = {} /\ found'[c] = {}
    BY <1>1, <1>3, CountsKept DEF CommitCascade
  <1>14. Exclusive'
    BY <1>8, <1>13, FewerWritten
  <1>15. ValidatedSnapshotSettled'
    BY DEF CommitCascade, WorkflowInv, ValidatedSnapshotSettled
  <1>16. \A x \in xs : child'[x] \in {"PENDING", "ACTIVE"} /\ Earned(c, x)
    BY <1>1, <1>10 DEF WorkflowInv, WorkflowTypes, Followed, InCascade
  <1>17. Frame(c, xs)
    <2>1. \A x \in xs : child'[x] # "absent" /\ \A d \in Callers \ {c} : written[d][x] = None
      BY <1>16 DEF WorkflowInv, Exclusive
    <2> QED BY <1>4, <1>5, <1>10, <1>13, <2>1 DEF Frame
  <1>18. Followed(c)'
    <2>1. CASE at'[c] = "idle"
      BY <1>8, <1>20, <2>1, IdleFollows
    <2>2. CASE at'[c] # "idle"
      <3>1. at'[c] = "snapshot" /\ about'[c] = about[c] /\ seen'[c] = seen[c]
        BY <1>3, <2>2
      <3>2. Decided(c)' /\ InCascade(c)' /\ Unclosed(c)' /\ Rechecked(c)'
        BY <1>2, <1>8, <3>1
        DEF Decided, InCascade, Unclosed, Rechecked, BudgetSteps, CascadeSteps, WritingSteps,
            BudgetStatuses
      <3>3. Complete(c)'
        BY <1>1, <1>4, <1>10, <3>1
        DEF Followed, Complete, Recorded, Mustered, CascadeSteps, LeftBehind
      <3> QED BY <1>20, <3>2, <3>3 DEF Followed
    <2> QED BY <2>1, <2>2
  <1>19. WorkflowSafe
    <2>1. status' = about[c]
      BY DEF CommitCascade
    <2>2. LeavesNoneBehind
      <3> SUFFICES ASSUME c \notin touched, Mustered(c)
                   PROVE  \A x \in Children : child'[x] \notin LeftBehind(about[c])
        BY <1>3 DEF LeavesNoneBehind, Writes, Mustered, LeftBehind
      <3> QED BY <1>1, <1>10 DEF Followed, Complete
    <2>3. EnvelopesReady
      BY <1>1, <1>3, <1>10 DEF EnvelopesReady, Writes, Followed, Rechecked, Children
    <2>4. FollowsPolicy
      <3>1. ASSUME NEW x \in xs
            PROVE  \/ child'[x] = child[x]
                   \/ <<child[x], child'[x]>> \in ChildPolicy(x)
                   \/ child[x] = "DRAFT" /\ child'[x] = "ACTIVE" /\ status' = "VALIDATED"
                   \/ x \in overwrote'
        BY <1>5, <1>10, <1>16, <2>1 DEF Earned
      <3> QED BY <1>2, <1>5, <1>10, <2>1, <3>1 DEF FollowsPolicy
    <2>5. KeptWhenClosed
      BY <1>1 DEF KeptWhenClosed, Followed, Unclosed, WritingSteps, WorkflowSteps
    <2> QED BY <2>2, <2>3, <2>4, <2>5 DEF WorkflowSafe
  <1> QED BY <1>3, <1>12, <1>14, <1>15, <1>17, <1>18, <1>19 DEF Good

LEMMA TakeSnapshotGood ==
    ASSUME WorkflowInv, NEW c \in Callers, TakeSnapshot(c) PROVE Good(c)
  <1>1. at[c] = "snapshot" /\ Followed(c)
    BY DEF TakeSnapshot, WorkflowInv
  <1>2. RequestsTyped' /\ at'[c] = "idle" /\ OthersKept(c)
    BY AnswerRequest DEF TakeSnapshot, WorkflowInv, OthersKept, NoCascade, cascade, counts
  <1>3. Recorded(c, {})
    BY RecordKeeps DEF TakeSnapshot, Reads, WorkflowInv
  <1>4. WorkflowTypes' /\ Exclusive'
    BY <1>3, SameCounts
    DEF TakeSnapshot, Reads, NoCascade, cascade, counts, Recorded, WorkflowInv, WorkflowTypes,
        Exclusive
  <1>10. counted'[c] = {} /\ found'[c] = {}
    BY <1>1, <1>2, CountsKept DEF TakeSnapshot
  <1>5. Followed(c)'
    BY <1>1, <1>2, <1>10, IdleFollows
    DEF TakeSnapshot, NoCascade, cascade, Followed, InCascade, CascadeSteps
  <1>6. Frame(c, {})
    BY <1>2, <1>3 DEF TakeSnapshot, Reads, Frame, WorkflowInv, WorkflowTypes
  <1>7. WorkflowSafe
    BY DEF TakeSnapshot, WorkflowSafe, LeavesNoneBehind, EnvelopesReady, Writes, FollowsPolicy,
           KeptWhenClosed
  <1>8. ASSUME about[c] = "VALIDATED", c \notin touched, NEW x \in Lines
        PROVE  child[x] # "PENDING"
    <2>1. Mustered(c)
      BY <1>1, <1>8
      DEF Followed, Decided, Mustered, BudgetPolicy, BudgetSteps, CascadeSteps
    <2> QED BY <1>1, <1>8, <2>1 DEF Followed, Complete, LeftBehind, Children
  <1>9. ValidatedSnapshotSettled'
    <2> DEFINE new == [of |-> about[c],
                       shown |-> {child[x] : x \in Lines} \ {"absent", "DRAFT"},
                       touched |-> c \in touched]
    <2>1. new.of = "VALIDATED" /\ ~new.touched => "PENDING" \notin new.shown
      BY <1>8
    <2>2. snapshots' = snapshots \cup {new}
      BY DEF TakeSnapshot
    <2> HIDE DEF new
    <2> QED BY <2>1, <2>2 DEF WorkflowInv, ValidatedSnapshotSettled
  <1> QED BY <1>2, <1>4, <1>5, <1>6, <1>7, <1>9 DEF Good

-------------------------------------------------------------------------------
\* A request on a child that has read it, while the budget was not closed.
LEMMA ChildRequestGood ==
    ASSUME WorkflowInv, NEW c \in Callers, at[c] = "idle", ~Closed, NoCascade, Begin(c),
           UNCHANGED <<versionRows, counts, status, child, snapshots>>, Reads(c),
           NEW next \in {"createChild", "writeChild"}, NEW what, NEW read,
           Proceed(c, next, what, read),
           next = "createChild" => what \in Children /\ read \in NewStatuses,
           next = "writeChild" =>
                /\ what[1] \in Children
                /\ what[2] \in ChildStatuses(what[1])
                /\ what[2] = read \/ <<read, what[2]>> \in ChildPolicy(what[1])
    PROVE  Good(c)
  <1>1. /\ RequestsTyped' /\ at'[c] = next /\ about'[c] = what /\ seen'[c] = read
        /\ OthersKept(c)
    BY ProceedRequest DEF WorkflowInv, OthersKept, NoCascade, cascade, counts, WorkflowSteps
  <1>2. Quiet(c)
    BY <1>1 DEF Quiet
  <1>3. ~Closed' /\ \A x \in Children : written'[c][x] = None
    BY <1>2, QuietIsSafe
    DEF WorkflowInv, Followed, InCascade, NoCascade, cascade, CascadeSteps
  <1>5. Counting(c)'
    BY <1>1, CountsKept
  <1>4. Followed(c)'
    BY <1>1, <1>3, <1>5
    DEF Followed, Decided, InCascade, Unclosed, Complete, Rechecked, BudgetSteps, CascadeSteps
  <1> QED BY <1>1, <1>2, <1>4, QuietWithoutCascade, BeginCounts

LEMMA CreateChildGood == ASSUME WorkflowInv, NEW c \in Callers, CreateChild(c) PROVE Good(c)
  <1>1. PICK x \in Children, s \in NewStatuses : Proceed(c, "createChild", x, s)
    BY DEF CreateChild
  <1>2. /\ at[c] = "idle" /\ ~Closed /\ NoCascade /\ Begin(c)
        /\ UNCHANGED <<versionRows, counts, status, child, snapshots>> /\ Reads(c)
    BY DEF CreateChild
  <1> QED BY <1>1, <1>2, ChildRequestGood

LEMMA UpdateChildGood == ASSUME WorkflowInv, NEW c \in Callers, UpdateChild(c) PROVE Good(c)
  <1>1. PICK x \in Children : \E to \in ChildStatuses(x) :
            /\ <<child[x], to>> \in ChildPolicy(x) \/ to = child[x]
            /\ Proceed(c, "writeChild", <<x, to>>, child[x])
    BY DEF UpdateChild
  <1>2. PICK to \in ChildStatuses(x) :
            /\ <<child[x], to>> \in ChildPolicy(x) \/ to = child[x]
            /\ Proceed(c, "writeChild", <<x, to>>, child[x])
    BY <1>1
  <1> DEFINE what == <<x, to>>
  <1>3. what[1] = x /\ what[2] = to /\ Proceed(c, "writeChild", what, child[x])
    BY <1>2
  <1> HIDE DEF what
  <1>4. /\ at[c] = "idle" /\ ~Closed /\ NoCascade /\ Begin(c)
        /\ UNCHANGED <<versionRows, counts, status, child, snapshots>> /\ Reads(c)
    BY DEF UpdateChild
  <1>5. /\ what[1] \in Children
        /\ what[2] \in ChildStatuses(what[1])
        /\ what[2] = child[x] \/ <<child[x], what[2]>> \in ChildPolicy(what[1])
    BY <1>2, <1>3
  <1> QED BY <1>3, <1>4, <1>5, ChildRequestGood

\* A request that writes one child and ends.
LEMMA ChildWrittenGood ==
    ASSUME WorkflowInv, NEW c \in Callers, at[c] \in {"createChild", "writeChild"},
           NoCascade, Answer(c), UNCHANGED <<versionRows, counts, status, snapshots, counters>>,
           NEW x \in Children, NEW s \in ChildStatuses(x),
           child' = [child EXCEPT ![x] = s] \/ child' = child,
           Record(c, {x}),
           overwrote' \in SUBSET (Children \cup {"budget"}), overwrote \subseteq overwrote',
           child' # child => \A d \in Callers \ {c} : written[d][x] = None,
           \/ s = child[x] \/ <<child[x], s>> \in ChildPolicy(x)
           \/ child[x] = "absent" \/ x \in overwrote' \/ child' = child
    PROVE  Good(c)
  <1>1. RequestsTyped' /\ at'[c] = "idle" /\ OthersKept(c) /\ Followed(c)
    BY AnswerRequest DEF WorkflowInv, OthersKept, NoCascade, cascade, counts
  <1>12. counted'[c] = {} /\ found'[c] = {}
    BY <1>1, CountsKept
  <1>2. Recorded(c, {x})
    BY RecordKeeps DEF WorkflowInv
  <1>3. s # "absent"
    BY DEF ChildStatuses, ClosedStatus
  <1>4. WorkflowTypes'
    <2>1. /\ child' = [y \in Children |-> child'[y]]
          /\ \A y \in Children : child'[y] \in ChildStatuses(y) \cup {"absent"}
      BY DEF WorkflowInv, WorkflowTypes
    <2> QED BY <1>2, <2>1, SameCounts
            DEF NoCascade, cascade, counts, Recorded, WorkflowInv, WorkflowTypes
  <1>5. Exclusive' /\ ValidatedSnapshotSettled'
    BY DEF NoCascade, cascade, WorkflowInv, Exclusive, ValidatedSnapshotSettled
  <1>6. Followed(c)'
    BY <1>1, <1>12, IdleFollows DEF NoCascade, cascade, Followed, InCascade, CascadeSteps
  <1>7. /\ \A y \in Children \ {x} : child'[y] = child[y]
        /\ child'[x] \in {child[x], s}
    BY DEF WorkflowInv, WorkflowTypes
  <1>8. \E xs : Frame(c, xs)
    <2>1. CASE child' # child
      <3>1. child'[x] = s
        BY <2>1 DEF WorkflowInv, WorkflowTypes
      <3>2. Frame(c, {x})
        BY <1>1, <1>2, <1>3, <1>7, <2>1, <3>1 DEF Frame
      <3> QED BY <3>2
    <2>2. CASE child' = child
      <3>1. Frame(c, {})
        BY <1>1, <1>2, <2>2 DEF Frame, Recorded
      <3> QED BY <3>1
    <2> QED BY <2>1, <2>2
  <1>9. KeptWhenClosed
    BY <1>1 DEF KeptWhenClosed, Followed, Unclosed, WritingSteps, WorkflowSteps
  <1>10. FollowsPolicy
    BY <1>7 DEF FollowsPolicy
  <1>11. WorkflowSafe
    BY <1>9, <1>10 DEF WorkflowSafe, LeavesNoneBehind, EnvelopesReady, Writes
  <1> QED BY <1>1, <1>4, <1>5, <1>6, <1>8, <1>11 DEF Good

LEMMA InsertChildGood == ASSUME WorkflowInv, NEW c \in Callers, InsertChild(c) PROVE Good(c)
  <1>1. /\ at[c] = "createChild" /\ about[c] \in Children /\ seen[c] \in NewStatuses
    BY DEF InsertChild, WorkflowInv, Followed, Decided
  <1>2. seen[c] \in ChildStatuses(about[c])
    BY <1>1 DEF NewStatuses, ChildStatuses
  <1>3. child' = IF child[about[c]] = "absent" THEN [child EXCEPT ![about[c]] = seen[c]]
                 ELSE child
    BY DEF InsertChild
  <1>4. child' # child => \A d \in Callers \ {c} : written[d][about[c]] = None
    BY <1>1, <1>3 DEF WorkflowInv, Followed, InCascade, Earned
  <1>5. /\ NoCascade /\ Answer(c) /\ UNCHANGED <<versionRows, counts, status, snapshots, counters>>
        /\ Record(c, {about[c]}) /\ overwrote' = overwrote
    BY DEF InsertChild
  <1>6. overwrote' \in SUBSET (Children \cup {"budget"}) /\ overwrote \subseteq overwrote'
    BY <1>5 DEF WorkflowInv, WorkflowTypes
  <1>7. child[about[c]] = "absent" \/ child' = child
    BY <1>3
  <1> QED BY <1>1, <1>2, <1>3, <1>4, <1>5, <1>6, <1>7, ChildWrittenGood

LEMMA WriteChildGood == ASSUME WorkflowInv, NEW c \in Callers, WriteChild(c) PROVE Good(c)
  <1> DEFINE x == about[c][1]
             s == about[c][2]
  <1>1. /\ at[c] = "writeChild" /\ x \in Children /\ s \in ChildStatuses(x)
        /\ s = seen[c] \/ <<seen[c], s>> \in ChildPolicy(x)
    BY DEF WriteChild, WorkflowInv, Followed, Decided
  <1>2. /\ NoCascade /\ Answer(c) /\ UNCHANGED <<versionRows, counts, status, snapshots, counters>>
        /\ Record(c, {x}) /\ Overwrite(x, seen[c], child[x])
        /\ child' = [child EXCEPT ![x] = s]
        /\ \A d \in Callers \ {c} : written[d][x] = None
    BY DEF WriteChild, Free
  <1> HIDE DEF x, s
  <1>3. /\ overwrote' \in SUBSET (Children \cup {"budget"}) /\ overwrote \subseteq overwrote'
        /\ seen[c] # child[x] => x \in overwrote'
    BY <1>1, <1>2 DEF Overwrite, WorkflowInv, WorkflowTypes
  <1>4. s = child[x] \/ <<child[x], s>> \in ChildPolicy(x) \/ x \in overwrote'
    BY <1>1, <1>3
  <1> QED BY <1>1, <1>2, <1>3, <1>4, ChildWrittenGood

-------------------------------------------------------------------------------
LEMMA OnVersionsMoves ==
    ASSUME NEW c \in Callers, OnVersions(c)
    PROVE  /\ at[c] \in VersionSteps \cup {"idle"}
           /\ \E next \in VersionSteps \cup {"idle"} : \E what, read :
                  Proceed(c, next, what, read)
  <1>1. CASE VersionRequest(c)
    BY <1>1 DEF VersionRequest, CreateRevision, ActivateVersion, ArchiveVersion, VersionSteps
  <1>2. CASE VersionStep(c)
    BY <1>2 DEF VersionStep, Revise, FindPreviousActive, Activate, CountVersions, Archive, Answer,
                VersionSteps
  <1> QED BY <1>1, <1>2 DEF OnVersions

LEMMA OnVersionsGood == ASSUME WorkflowInv, NEW c \in Callers, OnVersions(c) PROVE Good(c)
  <1>1. PICK next \in VersionSteps \cup {"idle"} : \E what, read : Proceed(c, next, what, read)
    BY OnVersionsMoves
  <1>2. RequestsTyped' /\ at'[c] = next /\ OthersKept(c)
    BY <1>1, ProceedRequest
    DEF OnVersions, WorkflowInv, OthersKept, NoCascade, cascade, counts, VersionSteps,
        WorkflowSteps
  <1>11. Counting(c)'
    BY <1>2, OnVersionsMoves, CountsKept DEF OnVersions, VersionSteps
  <1>3. /\ NoCascade /\ UNCHANGED <<status, child, counts, snapshots>> /\ Reads(c)
        /\ Begin(c) \/ UNCHANGED counters
    BY DEF OnVersions
  <1>4. Recorded(c, {})
    BY <1>3, RecordKeeps DEF Reads, WorkflowInv
  <1>5. WorkflowTypes'
    BY <1>3, <1>4, BeginCounts, SameCounts
    DEF Reads, NoCascade, cascade, counts, Recorded, WorkflowInv, WorkflowTypes
  <1>6. Exclusive' /\ ValidatedSnapshotSettled'
    BY <1>3 DEF NoCascade, cascade, WorkflowInv, Exclusive, ValidatedSnapshotSettled
  <1>7. \A x \in Children : written'[c][x] = None
    BY <1>3, OnVersionsMoves
    DEF NoCascade, cascade, WorkflowInv, Followed, InCascade, CascadeSteps, VersionSteps
  <1>8. Followed(c)'
    BY <1>2, <1>7, <1>11
    DEF Followed, Decided, InCascade, Unclosed, Complete, Rechecked, BudgetSteps, CascadeSteps,
        WritingSteps, WorkflowSteps, VersionSteps
  <1>9. Frame(c, {})
    BY <1>2, <1>3, <1>4 DEF Reads, Frame, WorkflowInv, WorkflowTypes
  <1>10. WorkflowSafe
    BY <1>3 DEF WorkflowSafe, LeavesNoneBehind, EnvelopesReady, Writes, FollowsPolicy, KeptWhenClosed
  <1> QED BY <1>2, <1>5, <1>6, <1>8, <1>9, <1>10 DEF Good

-------------------------------------------------------------------------------
LEMMA InitWorkflow == Init => WorkflowInv
  <1> SUFFICES ASSUME Init PROVE WorkflowInv
    OBVIOUS
  <1>1. RequestsTyped
    BY DEF Init, VersionsInit, RequestsTyped, WorkflowSteps
  <1>2. WorkflowTypes
    BY LifecycleAssumption DEF Init, WorkflowTypes, ChildStatuses
  <1>3. \A c \in Callers :
            /\ at[c] = "idle" /\ counted[c] = {} /\ found[c] = {}
            /\ \A x \in Children : written[c][x] = None
    BY DEF Init, VersionsInit
  <1>4. \A c \in Callers : Followed(c)
    BY <1>3
    DEF Followed, Decided, InCascade, Unclosed, Counting, Complete, Rechecked, BudgetSteps, CascadeSteps,
        WritingSteps
  <1>5. Exclusive /\ ValidatedSnapshotSettled
    BY <1>3 DEF Exclusive, ValidatedSnapshotSettled, Init
  <1> QED BY <1>1, <1>2, <1>4, <1>5 DEF WorkflowInv

LEMMA NextWorkflow == WorkflowInv /\ [Next]_vars => WorkflowInv' /\ [WorkflowSafe]_vars
  <1> SUFFICES ASSUME WorkflowInv, [Next]_vars
               PROVE  WorkflowInv' /\ [WorkflowSafe]_vars
    OBVIOUS
  <1>1. CASE UNCHANGED vars
    <2>1. UNCHANGED <<versionRows, request, status, child, counts, cascade, snapshots, history,
                    counters>>
      BY <1>1 DEF vars
    <2>2. RequestsTyped' /\ WorkflowTypes' /\ Exclusive' /\ ValidatedSnapshotSettled'
      BY <2>1 DEF request, counts, cascade, history, counters, WorkflowInv, RequestsTyped, WorkflowTypes,
                  Exclusive, ValidatedSnapshotSettled
    <2>3. ASSUME NEW c \in Callers PROVE Followed(c)'
      <3>1. Followed(c)
        BY DEF WorkflowInv
      <3>2. /\ at' = at /\ about' = about /\ seen' = seen /\ version' = version
            /\ status' = status /\ child' = child
            /\ counted' = counted /\ found' = found
            /\ written' = written /\ pass' = pass /\ todo' = todo /\ row' = row
            /\ touched' = touched /\ slipped' = slipped /\ early' = early
            /\ overwrote' = overwrote
        BY <2>1 DEF versionRows, request, counts, cascade, history
      <3>3. Sees(c)' = Sees(c)
        BY <3>2 DEF Sees
      <3>4. Decided(c)'
        BY <3>1, <3>2 DEF Followed, Decided
      <3>5. InCascade(c)'
        BY <3>1, <3>2 DEF Followed, InCascade, Earned
      <3>6. Unclosed(c)'
        BY <3>1, <3>2 DEF Followed, Unclosed, Closed, Frozen
      <3>7. Complete(c)'
        BY <3>1, <3>2, <3>3 DEF Followed, Complete, Mustered, PassDone
      <3>8. Rechecked(c)'
        BY <3>1, <3>2, <3>3 DEF Followed, Rechecked
      <3>9. Counting(c)'
        BY <3>1, <3>2 DEF Followed, Counting
      <3> QED BY <3>4, <3>5, <3>6, <3>7, <3>8, <3>9 DEF Followed
    <2> QED BY <1>1, <2>2, <2>3 DEF WorkflowInv
  <1>2. ASSUME NEW c \in Callers, OnVersions(c) \/ OnBudget(c) \/ OnChildren(c) \/ Fail(c)
        PROVE  Good(c)
    BY <1>2, OnVersionsGood, UpdateGood, CountGood, DecideGood, CheckEnvelopesGood, WriteStatusGood,
       ListChildrenGood, ReadChildGood, SetChildGood, RecheckEnvelopesGood, CommitCascadeGood,
       TakeSnapshotGood, CreateChildGood, InsertChildGood, UpdateChildGood, WriteChildGood,
       FailGood
    DEF OnBudget, OnChildren
  <1> QED BY <1>1, <1>2, GoodKeeps DEF Next

\* The state keeps its types.
THEOREM LifecycleTypes == Spec => []TypeOK
  <1>1. VersionsInv /\ WorkflowInv => TypeOK
    BY DEF VersionsInv, WorkflowInv, WorkflowTypes, AllCounts, Followed, Counting, TypeOK
  <1> QED
    BY InitVersions, NextVersions, InitWorkflow, NextWorkflow, <1>1, PTL DEF Spec

\* However many children there are, and whatever requests cross, the change of
\* status and its cascade leave behind only what another request gave, after it
\* was counted, a status that was counted (update, the two cascades); and the
\* requirement on envelopes holds when the budget is validated, unless one went
\* back to DRAFT after the last check (assertEnvelopesNotDraftForBudgetValidated).
THEOREM CascadeLeavesNone == Spec => CascadeComplete
  <1>1. WorkflowSafe => LeavesNoneBehind /\ EnvelopesReady
    BY DEF WorkflowSafe
  <1> QED
    BY InitWorkflow, NextWorkflow, <1>1, PTL DEF Spec, CascadeComplete

\* Every status written follows the policies, or overwrites one nobody read.
THEOREM PoliciesFollowed == Spec => PolicyFollowed
  <1>1. WorkflowSafe => FollowsPolicy
    BY DEF WorkflowSafe
  <1> QED
    BY InitWorkflow, NextWorkflow, <1>1, PTL DEF Spec, PolicyFollowed

\* What is closed is written by nothing that began afterwards.
THEOREM ClosedIsKept == Spec => ClosedBudgetKept
  <1>1. WorkflowSafe => KeptWhenClosed
    BY DEF WorkflowSafe
  <1> QED
    BY InitWorkflow, NextWorkflow, <1>1, PTL DEF Spec, ClosedBudgetKept

\* The snapshot of a validation is taken after its cascade, and shows no line
\* that awaits it but those that escaped the counts (update).
THEOREM SnapshotsSettled == Spec => []ValidatedSnapshotSettled
  <1>1. WorkflowInv => ValidatedSnapshotSettled
    BY DEF WorkflowInv
  <1> QED
    BY InitWorkflow, NextWorkflow, <1>1, PTL DEF Spec
===============================================================================
