------------------------------- MODULE Licences -------------------------------
(***************************************************************************)
(* Subscriptions and the licences of a client's members: assignments made   *)
(* by administrators (several at a time), the edits of subscriptions and    *)
(* memberships, and the hourly scan that expires what has ended.            *)
(*                                                                         *)
(* A statement on PostgreSQL is a step (READ COMMITTED).  A licence type    *)
(* and billing mode are one "mode": BILLABLE is READ_WRITE+CLIENT_BILLABLE,*)
(* TEMPORARY is EVALUATION or PLATFORM_INTERNAL, SPECIAL is READ_WRITE with *)
(* NON_BILLABLE or EXTERNAL_BILLABLE.  A date is null (None) or where it    *)
(* stands to the clock: "future", "soon" (later in the running hour) or     *)
(* "past".  A scan is over before the next hour begins.                     *)
(***************************************************************************)
EXTENDS Naturals, FiniteSets

CONSTANTS
    Subs,           \* ClientSubscription ids of the client
    Members,        \* users that may be attached to the client
    Callers,        \* PATCH .../license requests in flight
    None,           \* null
    MaxSeats,       \* largest readWriteSeatsLimit (bound)
    MaxAssigns,     \* license requests of a run (bound)
    MaxEdits,       \* edits of subscriptions and memberships of a run (bound)
    MaxFaults       \* scans of a run that die (bound)

ASSUME LicencesAssumption ==
    /\ IsFiniteSet(Members)
    /\ Subs \cap Members = {}
    /\ None \notin Subs \cup Members \cup {"future", "soon", "past"}
    /\ MaxSeats \in Nat \ {0}
    /\ MaxAssigns \in Nat
    /\ MaxEdits \in Nat
    /\ MaxFaults \in Nat

VARIABLES
    sub,            \* ClientSubscription rows
    member,         \* ClientUser rows
    pc,             \* the statement each request is about to run
    req,            \* what each request assigns, and to whom
    at,             \* the statement the scan is about to run
    todo,           \* the candidates it has left
    current,        \* the candidate it is at
    view,           \* the subscription as its transaction read it
    linked,         \* the members its transaction read
    expiring,       \* it has updated (and locked) the subscription
    assigns, edits, faults,
    edited,         \* history: rows others wrote since the scan began
    raced,          \* history: requests whose quota check has become stale
    excused         \* history: subscriptions over quota for a known reason

scanVars == <<at, todo, current, view, linked, expiring>>
vars == <<sub, member, pc, req, scanVars, assigns, edits, faults, edited, raced, excused>>

Dates == {"future", "soon", "past", None}
SubStatuses == {"DRAFT", "ACTIVE", "SUSPENDED", "EXPIRED"}   \* (SUSPENDED: or CANCELED)
Modes == {"READ_ONLY", "BILLABLE", "TEMPORARY", "SPECIAL"}

SubRows == [status : SubStatuses, limit : 1 .. MaxSeats, ends : Dates, grace : Dates]
MemberRows == [status : {"absent", "ACTIVE", "SUSPENDED"}, mode : Modes,
               sub : Subs \cup {None}, ends : Dates]    \* (SUSPENDED: or INVITED)

\* The licence a membership is created with.
ReadOnly(ends) == [mode |-> "READ_ONLY", sub |-> None, ends |-> ends]

License(status, l) == [status |-> status, mode |-> l.mode, sub |-> l.sub, ends |-> l.ends]

Absent == License("absent", ReadOnly(None))

\* What AssignUserLicenseDto and validateLicenseAssignment let through, with an
\* end in the future.  (A bound: they accept any date, past or near too; here
\* time brings a date nearer.)
Assignments ==
    {l \in [mode : Modes, sub : Subs \cup {None}, ends : {None, "future"}] :
        /\ l.mode = "BILLABLE" <=> l.sub # None
        /\ l.mode = "TEMPORARY" => l.ends # None}

SeatsHeld(s) ==
    {m \in Members : member[m].status = "ACTIVE" /\ member[m].mode = "BILLABLE" /\ member[m].sub = s}

Exceeds(s) == Cardinality(SeatsHeld(s)) > sub[s].limit

Init ==
    /\ sub \in [Subs -> {r \in SubRows :
                  r.status = "ACTIVE" /\ r.ends = "future" /\ r.grace \in {None, "future"}}]
    /\ member \in [Members -> {License("ACTIVE", l) : l \in
                    {ReadOnly(None)} \cup {l \in Assignments : l.mode = "BILLABLE" /\ l.ends = None}}]
    /\ \A s \in Subs : ~Exceeds(s)
    /\ pc = [c \in Callers |-> "idle"]
    /\ req = [c \in Callers |-> None]
    /\ at = "idle" /\ todo = {} /\ current = None /\ view = None
    /\ linked = {} /\ expiring = FALSE
    /\ assigns = 0 /\ edits = 0 /\ faults = 0
    /\ edited = {} /\ raced = {} /\ excused = {}

-------------------------------------------------------------------------------
(***************************************************************************)
(* History                                                                 *)
(***************************************************************************)
Touch(x) == edited' = IF at = "idle" THEN edited ELSE edited \cup {x}

Waiting(s) == {c \in Callers : pc[c] = "assign" /\ req[c].licence.sub = s}

\* A subscription is excused while it is over its quota.
Excuse(reasons) == excused' = {s \in excused \cup reasons : Exceeds(s)'}

-------------------------------------------------------------------------------
(***************************************************************************)
(* LicenseService.assignByPlatform, assignByClientAdmin                    *)
(***************************************************************************)
RequestLicence(c) ==
    /\ pc[c] = "idle"
    /\ assigns < MaxAssigns
    /\ assigns' = assigns + 1
    /\ \E m \in Members, l \in Assignments :
        /\ member[m].status # "absent"
        /\ req' = [req EXCEPT ![c] = [member |-> m, licence |-> l]]
        /\ pc' = [pc EXCEPT ![c] = IF l.mode = "BILLABLE" THEN "validate" ELSE "assign"]
    /\ UNCHANGED <<sub, member, scanVars, edits, faults, edited, raced, excused>>

Proceed(c, next, ok) ==
    /\ pc' = [pc EXCEPT ![c] = IF ok THEN next ELSE "idle"]
    /\ req' = [req EXCEPT ![c] = IF ok THEN @ ELSE None]

\* ensureSubscriptionIsValid
ValidSubscription(s) ==
    \/ sub[s].status = "ACTIVE"
    \/ sub[s].status = "EXPIRED" /\ sub[s].grace \in {"future", "soon"}

CheckSubscription(c) ==
    /\ pc[c] = "validate"
    /\ Proceed(c, "quota", ValidSubscription(req[c].licence.sub))
    /\ UNCHANGED <<sub, member, scanVars, assigns, edits, faults, edited, raced, excused>>

\* ensureQuotaAvailable: the limit and the other members' seats.
SeatAvailableForOthers(m, s) == Cardinality(SeatsHeld(s) \ {m}) <= sub[s].limit

SeatAvailable(m, s) == Cardinality(SeatsHeld(s) \ {m}) + 1 <= sub[s].limit

CheckQuota(c) ==
    /\ pc[c] = "quota"
    /\ Proceed(c, "assign", SeatAvailable(req[c].member, req[c].licence.sub))
    /\ UNCHANGED <<sub, member, scanVars, assigns, edits, faults, edited, raced, excused>>

\* assignLicenseInTransaction: the row is written whatever the checks have become.
Assign(c) ==
    LET m == req[c].member
        l == req[c].licence IN
    /\ pc[c] = "assign"
    /\ Proceed(c, "idle", FALSE)
    /\ UNCHANGED <<sub, scanVars, assigns, edits, faults>>
    /\ IF member[m].status = "absent"
       THEN raced' = raced \ {c} /\ UNCHANGED <<member, edited, excused>>
       ELSE /\ member' = [member EXCEPT ![m] = License(@.status, l)]
            /\ Touch(m)
            /\ raced' = (raced \cup Waiting(l.sub)) \ {c}
            /\ Excuse(IF c \in raced THEN {l.sub} \cap Subs ELSE {})

-------------------------------------------------------------------------------
(***************************************************************************)
(* SubscriptionService.update and transition; memberships                  *)
(***************************************************************************)
Editing == edits < MaxEdits /\ edits' = edits + 1

\* A PATCH changes the status, the limit or the dates; it waits for the lock.
Patches(r) ==
    {[r EXCEPT !.status = st] : st \in SubStatuses}
    \cup {[r EXCEPT !.limit = n] : n \in 1 .. MaxSeats}
    \cup {[r EXCEPT !.ends = d] : d \in {None, "future"}}
    \cup {[r EXCEPT !.grace = d] : d \in {None, "future"}}
    \cup {[r EXCEPT !.ends = "future", !.grace = "future"]}

UpdateSubscription(s) ==
    /\ ~(expiring /\ current = s)
    /\ Editing
    /\ UNCHANGED <<member, pc, req, scanVars, assigns, faults>>
    /\ \E r \in Patches(sub[s]) \ {sub[s]} :
        /\ sub' = [sub EXCEPT ![s] = r]
        /\ raced' = IF r.limit < sub[s].limit THEN raced \cup Waiting(s) ELSE raced
        /\ Excuse(IF r.limit < sub[s].limit THEN {s} ELSE {})
    /\ Touch(s)

\* UsersService.updateInClient: the status, with no look at the licence.
SetMemberStatus(m) ==
    /\ member[m].status # "absent"
    /\ Editing
    /\ UNCHANGED <<sub, pc, req, scanVars, assigns, faults>>
    /\ member' = [member EXCEPT ![m].status = IF @ = "ACTIVE" THEN "SUSPENDED" ELSE "ACTIVE"]
    /\ raced' = raced \cup Waiting(member[m].sub)
    /\ Excuse(IF member[m].status = "SUSPENDED" THEN {member[m].sub} \cap Subs ELSE {})
    /\ Touch(m)

\* Nothing under way holds the id of m's old membership (a new one has a new id).
Forgotten(m) ==
    /\ \A c \in Callers : pc[c] # "idle" => req[c].member # m
    /\ m \notin linked /\ current # m

\* Detached from the client, or attached to it.
SetMembership(m) ==
    /\ member[m].status # "absent" \/ Forgotten(m)
    /\ Editing
    /\ UNCHANGED <<sub, pc, req, scanVars, assigns, faults, raced>>
    /\ member' = [member EXCEPT ![m] =
                    IF @.status = "absent" THEN License("ACTIVE", ReadOnly(None)) ELSE Absent]
    /\ Excuse({})
    /\ Touch(m)

-------------------------------------------------------------------------------
(***************************************************************************)
(* LicenseExpirationRunnerService.runScan                                  *)
(***************************************************************************)
\* The end of the scan's window is up to an hour ahead of the clock.
Ended(d) == d \in {"soon", "past"}

ScanToKeepsCandidate(next) ==
    /\ at' = next
    /\ view' = None /\ linked' = {} /\ expiring' = FALSE
    /\ UNCHANGED current

ScanTo(next) ==
    /\ at' = next
    /\ current' = None /\ view' = None /\ linked' = {} /\ expiring' = FALSE

StartScanOfActive ==
    /\ at = "idle"
    /\ todo' = {s \in Subs : sub[s].status = "ACTIVE" /\ Ended(sub[s].ends)}
    /\ ScanTo("subscriptions")
    /\ edited' = {}
    /\ UNCHANGED <<sub, member, pc, req, assigns, edits, faults, raced, excused>>

StartScan ==
    /\ at = "idle"
    /\ todo' = {s \in Subs : \/ sub[s].status = "ACTIVE" /\ Ended(sub[s].ends)
                             \/ sub[s].status = "EXPIRED" /\ Ended(sub[s].grace)}
    /\ ScanTo("subscriptions")
    /\ edited' = {}
    /\ UNCHANGED <<sub, member, pc, req, assigns, edits, faults, raced, excused>>

\* processSubscriptionExpiration: its transaction reads the row again.
ReadSubscription ==
    /\ at = "subscriptions"
    /\ \E s \in todo \cap Subs :
        /\ todo' = todo \ {s}
        /\ current' = s
        /\ view' = sub[s]
        /\ at' = IF sub[s].status = "ACTIVE" /\ Ended(sub[s].ends) THEN "expire" ELSE "linked"
    /\ UNCHANGED <<sub, member, pc, req, linked, expiring, assigns, edits, faults, edited, raced, excused>>

\* The update returns the row as it is now.
ExpireSubscription ==
    /\ at = "expire"
    /\ at' = "linked"
    /\ expiring' = TRUE
    /\ view' = [sub[current] EXCEPT !.status = "EXPIRED"]
    /\ UNCHANGED <<sub, member, pc, req, todo, current, linked, assigns, edits, faults, edited, raced, excused>>

GraceEndedAtTheEnd(r) == r.ends # None /\ Ended(r.ends)

\* isGraceEnded: the status of the row plays no part.
GraceEnded(r) == r.ends # None /\ Ended(IF r.grace = None THEN r.ends ELSE r.grace)

\* What the transaction has written to the subscription becomes visible.
CommitSubscription ==
    sub' = IF expiring THEN [sub EXCEPT ![current].status = "EXPIRED"] ELSE sub

ReadLinkedLicences ==
    /\ at = "linked"
    /\ IF GraceEnded(view)
       THEN /\ at' = "downgrade"
            /\ linked' = SeatsHeld(current)
            /\ UNCHANGED <<sub, current, view, expiring>>
       ELSE CommitSubscription /\ ScanTo("subscriptions")
    /\ UNCHANGED <<member, pc, req, todo, assigns, edits, faults, edited, raced, excused>>

\* The scan throws: its transaction is undone, the job will be run again.
EndScan == ScanTo("idle") /\ todo' = {} /\ edited' = {}

\* The members are updated by id; one that has gone makes the update throw.
DowngradeLinked ==
    /\ at = "downgrade"
    /\ IF \E m \in linked : member[m].status = "absent"
       THEN EndScan /\ UNCHANGED <<sub, member, excused>>
       ELSE /\ CommitSubscription
            /\ member' = [m \in Members |->
                            IF m \in linked
                            THEN License(member[m].status, ReadOnly(member[m].ends))
                            ELSE member[m]]
            /\ Excuse({})
            /\ ScanTo("subscriptions")
            /\ UNCHANGED <<todo, edited>>
    /\ UNCHANGED <<pc, req, assigns, edits, faults, raced>>

LicenceEndedInWindow(m) ==
    /\ member[m].status = "ACTIVE"
    /\ member[m].mode = "TEMPORARY"
    /\ member[m].ends = "soon"

LicenceEnded(m) ==
    /\ member[m].status = "ACTIVE"
    /\ member[m].mode = "TEMPORARY"
    /\ Ended(member[m].ends)

FindEndedLicences ==
    /\ at = "subscriptions"
    /\ todo = {}
    /\ todo' = {m \in Members : LicenceEnded(m)}
    /\ ScanTo("licences")
    /\ UNCHANGED <<sub, member, pc, req, assigns, edits, faults, edited, raced, excused>>

\* processLicenseExpiration: the same conditions, on the row read again ...
ReadLicence ==
    /\ at = "licences"
    /\ \E m \in todo \cap Members :
        /\ todo' = todo \ {m}
        /\ IF LicenceEnded(m) THEN at' = "lapse" /\ current' = m
                              ELSE UNCHANGED <<at, current>>
    /\ UNCHANGED <<sub, member, pc, req, view, linked, expiring, assigns, edits, faults, edited, raced, excused>>

\* ... and an update by id.
DowngradeLicence ==
    /\ at = "lapse"
    /\ UNCHANGED <<sub, pc, req, assigns, edits, faults, raced>>
    /\ IF member[current].status = "absent"
       THEN EndScan /\ UNCHANGED <<member, excused>>
       ELSE /\ member' = [member EXCEPT ![current] = License(@.status, ReadOnly(@.ends))]
            /\ Excuse({})
            /\ ScanTo("licences")
            /\ UNCHANGED <<todo, edited>>

ScanIsOver ==
    /\ at = "licences"
    /\ todo = {}
    /\ EndScan
    /\ UNCHANGED <<sub, member, pc, req, assigns, edits, faults, raced, excused>>

\* The worker or the database dies: the transaction under way is undone.
Crash ==
    /\ at # "idle"
    /\ faults < MaxFaults
    /\ faults' = faults + 1
    /\ EndScan
    /\ UNCHANGED <<sub, member, pc, req, assigns, edits, raced, excused>>

-------------------------------------------------------------------------------
\* Time passes: a date comes within the hour, then it is past.
Nearer(d) == IF d = "future" THEN "soon" ELSE "past"
MayPass(d) == d = "soon" \/ (d = "future" /\ at = "idle")

TimePasses ==
    /\ \/ \E s \in Subs :
            \/ MayPass(sub[s].ends) /\ sub' = [sub EXCEPT ![s].ends = Nearer(@)]
            \/ MayPass(sub[s].grace) /\ sub' = [sub EXCEPT ![s].grace = Nearer(@)]
          /\ UNCHANGED member
       \/ \E m \in Members :
            /\ MayPass(member[m].ends)
            /\ member' = [member EXCEPT ![m].ends = Nearer(@)]
            /\ UNCHANGED sub
    /\ UNCHANGED <<pc, req, scanVars, assigns, edits, faults, edited, raced, excused>>

\* LicenseWriteGuard.canActivate
CanWriteOnExpired(s) == sub[s].status \in {"ACTIVE", "EXPIRED"}

CanWriteOn(s) ==
    /\ sub[s].status = "ACTIVE" \/ sub[s].grace \in {"future", "soon"}
    /\ sub[s].status # "SUSPENDED"

CanWrite(m) ==
    /\ member[m].status = "ACTIVE"
    /\ member[m].mode # "READ_ONLY"
    /\ member[m].ends # "past"
    /\ member[m].mode = "BILLABLE" => CanWriteOn(member[m].sub)

Scan ==
    \/ StartScan \/ ReadSubscription \/ ExpireSubscription \/ ReadLinkedLicences
    \/ DowngradeLinked \/ FindEndedLicences \/ ReadLicence \/ DowngradeLicence \/ ScanIsOver

Next ==
    \/ \E c \in Callers :
        RequestLicence(c) \/ CheckSubscription(c) \/ CheckQuota(c) \/ Assign(c)
    \/ \E s \in Subs : UpdateSubscription(s)
    \/ \E m \in Members : SetMemberStatus(m) \/ SetMembership(m)
    \/ Scan
    \/ Crash
    \/ TimePasses

\* The cron starts a scan every hour, and a worker runs it.
Fairness == WF_vars(Scan)

Spec == Init /\ [][Next]_vars /\ Fairness

-------------------------------------------------------------------------------
(***************************************************************************)
(* Properties                                                              *)
(***************************************************************************)

Requests == [member : Members, licence : Assignments]

TypeOK ==
    /\ sub \in [Subs -> SubRows]
    /\ member \in [Members -> MemberRows]
    /\ pc \in [Callers -> {"idle", "validate", "quota", "assign"}]
    /\ req \in [Callers -> Requests \cup {None}]
    /\ \A c \in Callers : IF pc[c] = "idle" THEN req[c] = None ELSE req[c] \in Requests
    /\ at \in {"idle", "subscriptions", "expire", "linked", "downgrade", "licences", "lapse"}
    /\ todo \subseteq IF at = "licences" \/ at = "lapse" THEN Members ELSE Subs
    /\ current \in IF at \in {"expire", "linked", "downgrade"} THEN Subs
                   ELSE IF at = "lapse" THEN Members ELSE {None}
    /\ view \in SubRows \cup {None}
    /\ linked \subseteq Members
    /\ expiring \in BOOLEAN
    /\ assigns \in 0 .. MaxAssigns
    /\ edits \in 0 .. MaxEdits
    /\ faults \in 0 .. MaxFaults
    /\ edited \subseteq Subs \cup Members
    /\ raced \subseteq Callers
    /\ excused \subseteq Subs

\* A subscription has more seats taken than its limit only since a suspended
\* member came back, the limit was lowered, or an assignment landed after
\* another change made its quota check stale.
QuotaKept == \A s \in Subs : Exceeds(s) => s \in excused

\* The scan takes m's licence away.
Downgraded(m) ==
    /\ at \in {"downgrade", "lapse"}
    /\ at' # at
    /\ member'[m] # member[m]

\* What the scan is there to find.
Lapsed(s) ==
    /\ sub[s].status = "EXPIRED" \/ (sub[s].status = "ACTIVE" /\ Ended(sub[s].ends))
    /\ sub[s].ends # None
    /\ Ended(sub[s].grace) \/ (sub[s].grace = None /\ Ended(sub[s].ends))

Due(m) ==
    \/ member[m].mode = "TEMPORARY" /\ Ended(member[m].ends)
    \/ member[m].mode = "BILLABLE" /\ Lapsed(member[m].sub)

\* The scan takes a licence away only when it is due, unless the membership or
\* its subscription was edited under the scan.
DowngradesEarned ==
    [][\A m \in Members : Downgraded(m) => Due(m) \/ m \in edited \/ member[m].sub \in edited]_vars

\* A temporary licence of a member who stays does not outlive its end, whatever
\* assignments and crashes the scans meet.
TemporaryLicencesEnd ==
    \A m \in Members :
        <>[](member[m].status = "ACTIVE" /\ member[m].ends = "past")
            => <>[](member[m].mode # "TEMPORARY")

\* The seats of a subscription that stays expired beyond its grace are released,
\* those of assignments that raced with its expiry too.  (Without a graceEndsAt
\* no scan looks at it again.)
SeatsReleased ==
    \A s \in Subs :
        <>[](sub[s].status = "EXPIRED" /\ sub[s].ends # None /\ sub[s].grace = "past")
            => <>[](SeatsHeld(s) = {})

\* Scan and guard together: nobody goes on writing on a subscription whose end
\* and grace are past, a seat the scan left behind included.
EndedStopsWriting ==
    \A s \in Subs :
        <>[](sub[s].ends = "past" /\ sub[s].grace \in {None, "past"})
            => <>[](\A m \in Members : member[m].sub = s => ~CanWrite(m))
===============================================================================
