---------------------------- MODULE BudgetVersions ----------------------------
(***************************************************************************)
(* A budget version set: the baseline and its revisions (budgets of their  *)
(* own), of which one is the active version.  Every operation reads first  *)
(* and writes by id, whatever has been written in between.                 *)
(***************************************************************************)
EXTENDS Naturals, FiniteSets

CONSTANTS
    MaxVersion,     \* versions of the set (bound)
    Revised,        \* the last version made before the behaviour starts
    Callers,        \* requests handled at the same time
    None            \* no version, nothing read

ASSUME VersionsAssumption ==
    /\ MaxVersion \in Nat
    /\ Revised \in 1 .. MaxVersion
    /\ None \notin Nat

VARIABLES
    version,        \* Budget.versionStatus, by versionNumber
    active,         \* BudgetVersionSet.activeBudgetId
    at,             \* the statement each request is about to run
    about,          \* the version or the status it is about
    seen,           \* what it has read
    outrun          \* history: a decision on what was no longer so was written

versionRows == <<version, active, outrun>>
request == <<at, about, seen>>

Versions == 1 .. MaxVersion
Baseline == 1
VersionStatuses == {"absent", "DRAFT", "ACTIVE", "SUPERSEDED", "ARCHIVED"}

Existing == {v \in Versions : version[v] # "absent"}
ActiveVersions == {v \in Versions : version[v] = "ACTIVE"}
Frozen(v) == version[v] \in {"SUPERSEDED", "ARCHIVED"}

\* As createBaseline leaves the set, and revisions nobody has activated.
VersionsInit ==
    /\ version = [v \in Versions |-> IF v = Baseline THEN "ACTIVE"
                                    ELSE IF v <= Revised THEN "DRAFT" ELSE "absent"]
    /\ active = Baseline
    /\ at = [c \in Callers |-> "idle"]
    /\ about = [c \in Callers |-> None]
    /\ seen = [c \in Callers |-> None]
    /\ outrun = FALSE

Proceed(c, next, what, read) ==
    /\ at' = [at EXCEPT ![c] = next]
    /\ about' = [about EXCEPT ![c] = what]
    /\ seen' = [seen EXCEPT ![c] = read]

Answer(c) == Proceed(c, "idle", None, None)

-------------------------------------------------------------------------------
\* createRevision: the source and the highest versionNumber are read...
CreateRevision(c) ==
    /\ at[c] = "idle"
    /\ \E source \in Existing : version[source] # "ARCHIVED"
    /\ \E last \in Existing :
        /\ \A v \in Existing : v <= last
        /\ last < MaxVersion
        /\ Proceed(c, "revise", last + 1, None)
    /\ UNCHANGED versionRows

\* ... and the copy is made, unless another revision took the number.
Revise(c) ==
    LET v == about[c] IN
    /\ at[c] = "revise"
    /\ version' = IF version[v] = "absent" THEN [version EXCEPT ![v] = "DRAFT"] ELSE version
    /\ Answer(c)
    /\ UNCHANGED <<active, outrun>>

ActivateAnyVersion(c) ==
    /\ at[c] = "idle"
    /\ \E v \in Existing :
        /\ version[v] # "ACTIVE"
        /\ Proceed(c, "findActive", v, version[v])
    /\ UNCHANGED versionRows

\* activateVersion: an active version is left alone.
ActivateVersion(c) ==
    /\ at[c] = "idle"
    /\ \E v \in Existing :
        /\ version[v] \notin {"ARCHIVED", "ACTIVE"}
        /\ Proceed(c, "findActive", v, version[v])
    /\ UNCHANGED versionRows

FindPreviousActive(c) ==
    /\ at[c] = "findActive"
    /\ \E previous \in IF ActiveVersions = {} THEN {None} ELSE ActiveVersions :
           Proceed(c, "activate", about[c], <<seen[c], previous>>)
    /\ UNCHANGED versionRows

\* What the request decided on has not changed since.
StillActivable(c) ==
    /\ version[about[c]] = seen[c][1]
    /\ seen[c][2] # None => version[seen[c][2]] = "ACTIVE"

ActivateBesides(c) ==
    /\ at[c] = "activate"
    /\ version' = [version EXCEPT ![about[c]] = "ACTIVE"]
    /\ active' = about[c]
    /\ outrun' = (outrun \/ ~StillActivable(c))
    /\ Answer(c)

\* The transaction of activateVersion.
Activate(c) ==
    LET previous == seen[c][2]
        superseded == IF previous = None THEN version
                      ELSE [version EXCEPT ![previous] = "SUPERSEDED"]
    IN
    /\ at[c] = "activate"
    /\ version' = [superseded EXCEPT ![about[c]] = "ACTIVE"]
    /\ active' = about[c]
    /\ outrun' = (outrun \/ ~StillActivable(c))
    /\ Answer(c)

\* archiveVersion: any version but the active one, an archived one included.
ArchiveVersion(c) ==
    /\ at[c] = "idle"
    /\ \E v \in Existing :
        /\ version[v] # "ACTIVE"
        /\ Proceed(c, "countVersions", v, None)
    /\ UNCHANGED versionRows

CountVersions(c) ==
    LET open == {v \in Existing : version[v] # "ARCHIVED"}
        alone == about[c] = Baseline /\ Cardinality(Existing) <= 1
    IN
    /\ at[c] = "countVersions"
    /\ IF alone \/ Cardinality(open) <= 1 THEN Answer(c)
       ELSE Proceed(c, "archive", about[c], None)
    /\ UNCHANGED versionRows

Archive(c) ==
    /\ at[c] = "archive"
    /\ version' = [version EXCEPT ![about[c]] = "ARCHIVED"]
    /\ outrun' = (outrun \/ version[about[c]] = "ACTIVE")
    /\ Answer(c)
    /\ UNCHANGED active

-------------------------------------------------------------------------------
VersionRequest(c) == CreateRevision(c) \/ ActivateVersion(c) \/ ArchiveVersion(c)

VersionStep(c) ==
    \/ Revise(c) \/ FindPreviousActive(c) \/ Activate(c)
    \/ CountVersions(c) \/ Archive(c)

-------------------------------------------------------------------------------
VersionsTypeOK ==
    /\ version \in [Versions -> VersionStatuses]
    /\ active \in Versions
    /\ outrun \in BOOLEAN

\* One version is active, the one the set points to, until a request writes
\* what it decided on versions that have changed since: activations that
\* cross, or an archival that crosses the activation of the same version.
VersionSetSound ==
    outrun \/ \A v \in Versions : version[v] = "ACTIVE" <=> v = active

\* A version is archived for good, on the same condition.
ArchivedForGood ==
    \A v \in Versions : version[v] = "ARCHIVED" => outrun' \/ version'[v] = "ARCHIVED"
===============================================================================
