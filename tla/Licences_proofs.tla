--------------------------- MODULE Licences_proofs ----------------------------
(***************************************************************************)
(* What holds of Licences for every set of members, subscriptions and       *)
(* requests, and every bound.                                              *)
(***************************************************************************)
EXTENDS Licences, FiniteSetTheorems, TLAPS

LEMMA LicenceKept ==
    ASSUME NEW st \in {"absent", "ACTIVE", "SUSPENDED"}, NEW d \in Dates
    PROVE  License(st, ReadOnly(d)) \in MemberRows
BY DEF License, ReadOnly, MemberRows, Modes

LEMMA LicenceGiven ==
    ASSUME NEW st \in {"absent", "ACTIVE", "SUSPENDED"}, NEW l \in Assignments
    PROVE  License(st, l) \in MemberRows
BY DEF License, Assignments, MemberRows, Dates

LEMMA PatchesTyped ==
    ASSUME NEW r \in SubRows, NEW q \in Patches(r)
    PROVE  q \in SubRows
<1> DEFINE D == {None, "future"}
<1>1. D \subseteq Dates
  BY DEF Dates
<1>2. ASSUME NEW st \in SubStatuses PROVE [r EXCEPT !.status = st] \in SubRows
  BY DEF SubRows
<1>3. ASSUME NEW n \in 1 .. MaxSeats PROVE [r EXCEPT !.limit = n] \in SubRows
  BY DEF SubRows
<1>4. ASSUME NEW d \in D
      PROVE  [r EXCEPT !.ends = d] \in SubRows /\ [r EXCEPT !.grace = d] \in SubRows
  BY <1>1 DEF SubRows
<1>5. [r EXCEPT !.ends = "future", !.grace = "future"] \in SubRows
  BY <1>1 DEF SubRows
<1> QED BY <1>2, <1>3, <1>4, <1>5 DEF Patches

-------------------------------------------------------------------------------
(***************************************************************************)
(* Types                                                                   *)
(***************************************************************************)

LEMMA TypeInit == Init => TypeOK
<1> SUFFICES ASSUME Init PROVE TypeOK
  OBVIOUS
<1>1. sub \in [Subs -> SubRows]
  BY DEF Init
<1>2. member \in [Members -> MemberRows]
  <2>1. License("ACTIVE", ReadOnly(None)) \in MemberRows
    BY LicenceKept DEF Dates
  <2>2. \A l \in Assignments : License("ACTIVE", l) \in MemberRows
    BY LicenceGiven
  <2> QED BY <2>1, <2>2 DEF Init
<1>3. assigns \in 0 .. MaxAssigns /\ edits \in 0 .. MaxEdits /\ faults \in 0 .. MaxFaults
  BY LicencesAssumption DEF Init
<1> QED BY <1>1, <1>2, <1>3 DEF Init, TypeOK

LEMMA ProceedTyped ==
    ASSUME TypeOK, NEW c \in Callers, NEW next \in {"quota", "assign", "idle"},
           NEW ok \in BOOLEAN, pc[c] # "idle", Proceed(c, next, ok), ok => next # "idle"
    PROVE  /\ pc' \in [Callers -> {"idle", "validate", "quota", "assign"}]
           /\ req' \in [Callers -> Requests \cup {None}]
           /\ \A d \in Callers :
                IF pc'[d] = "idle" THEN req'[d] = None ELSE req'[d] \in Requests
BY DEF TypeOK, Proceed

LEMMA TypeNext == TypeOK /\ [Next]_vars => TypeOK'
<1> SUFFICES ASSUME TypeOK, [Next]_vars PROVE TypeOK'
  OBVIOUS
<1> USE LicencesAssumption
<1>1. ASSUME NEW c \in Callers, RequestLicence(c) PROVE TypeOK'
  <2>0. PICK m \in Members, l \in Assignments :
           /\ req' = [req EXCEPT ![c] = [member |-> m, licence |-> l]]
           /\ pc' = [pc EXCEPT ![c] = IF l.mode = "BILLABLE" THEN "validate" ELSE "assign"]
    BY <1>1 DEF RequestLicence
  <2>1. [member |-> m, licence |-> l] \in Requests
    BY DEF Requests
  <2>2. /\ pc' \in [Callers -> {"idle", "validate", "quota", "assign"}]
        /\ req' \in [Callers -> Requests \cup {None}]
        /\ \A d \in Callers :
             IF pc'[d] = "idle" THEN req'[d] = None ELSE req'[d] \in Requests
    BY <2>0, <2>1 DEF TypeOK
  <2>3. assigns' \in 0 .. MaxAssigns
    BY <1>1 DEF TypeOK, RequestLicence
  <2>4. UNCHANGED <<sub, member, at, todo, current, view, linked, expiring, edits, faults,
                    edited, raced, excused>>
    BY <1>1 DEF RequestLicence, scanVars
  <2> QED BY <2>2, <2>3, <2>4 DEF TypeOK
<1>2. ASSUME NEW c \in Callers, CheckSubscription(c) PROVE TypeOK'
  <2>1. ValidSubscription(req[c].licence.sub) \in BOOLEAN
    BY DEF ValidSubscription
  <2> QED BY <1>2, <2>1, ProceedTyped DEF TypeOK, CheckSubscription, scanVars
<1>3. ASSUME NEW c \in Callers, CheckQuota(c) PROVE TypeOK'
  <2>1. SeatAvailable(req[c].member, req[c].licence.sub) \in BOOLEAN
    BY DEF SeatAvailable
  <2> QED BY <1>3, <2>1, ProceedTyped DEF TypeOK, CheckQuota, scanVars
<1>4. ASSUME NEW c \in Callers, Assign(c) PROVE TypeOK'
  <2>1. req[c] \in Requests /\ req[c].member \in Members /\ req[c].licence \in Assignments
    BY <1>4 DEF TypeOK, Assign, Requests
  <2>2. member' \in [Members -> MemberRows]
    <3>1. CASE member[req[c].member].status = "absent"
      BY <1>4, <3>1 DEF TypeOK, Assign
    <3>2. CASE member[req[c].member].status # "absent"
      <4>1. member[req[c].member].status \in {"absent", "ACTIVE", "SUSPENDED"}
        BY <2>1 DEF TypeOK, MemberRows
      <4>2. License(member[req[c].member].status, req[c].licence) \in MemberRows
        BY <2>1, <4>1, LicenceGiven
      <4> QED BY <1>4, <3>2, <4>2 DEF TypeOK, Assign
    <3> QED BY <3>1, <3>2
  <2>3. edited' \subseteq Subs \cup Members /\ raced' \subseteq Callers /\ excused' \subseteq Subs
    BY <1>4, <2>1 DEF TypeOK, Assign, Touch, Waiting, Excuse
  <2> QED BY <1>4, <2>2, <2>3, ProceedTyped DEF TypeOK, Assign, scanVars
<1>5. ASSUME NEW s \in Subs, UpdateSubscription(s) PROVE TypeOK'
  <2>1. sub' \in [Subs -> SubRows]
    BY <1>5, PatchesTyped DEF TypeOK, UpdateSubscription
  <2>2. raced' \subseteq Callers /\ excused' \subseteq Subs /\ edited' \subseteq Subs \cup Members
    BY <1>5 DEF TypeOK, UpdateSubscription, Touch, Excuse, Waiting
  <2> QED BY <1>5, <2>1, <2>2 DEF TypeOK, UpdateSubscription, Editing, scanVars
<1>6. ASSUME NEW m \in Members, SetMemberStatus(m) PROVE TypeOK'
  <2>1. member' \in [Members -> MemberRows]
    BY <1>6 DEF TypeOK, SetMemberStatus, MemberRows
  <2>2. raced' \subseteq Callers /\ excused' \subseteq Subs /\ edited' \subseteq Subs \cup Members
    BY <1>6 DEF TypeOK, SetMemberStatus, Touch, Excuse, Waiting
  <2> QED BY <1>6, <2>1, <2>2 DEF TypeOK, SetMemberStatus, Editing, scanVars
<1>7. ASSUME NEW m \in Members, SetMembership(m) PROVE TypeOK'
  <2>1. License("ACTIVE", ReadOnly(None)) \in MemberRows /\ Absent \in MemberRows
    BY LicenceKept DEF Absent, Dates
  <2>2. member' \in [Members -> MemberRows]
    BY <1>7, <2>1 DEF TypeOK, SetMembership
  <2>3. excused' \subseteq Subs /\ edited' \subseteq Subs \cup Members
    BY <1>7 DEF TypeOK, SetMembership, Touch, Excuse
  <2> QED BY <1>7, <2>2, <2>3 DEF TypeOK, SetMembership, Editing, scanVars
<1>8. CASE StartScan
  BY <1>8 DEF TypeOK, StartScan, ScanTo
<1>9. CASE ReadSubscription
  BY <1>9 DEF TypeOK, ReadSubscription
<1>10. CASE ExpireSubscription
  <2>1. [sub[current] EXCEPT !.status = "EXPIRED"] \in SubRows
    BY <1>10 DEF TypeOK, ExpireSubscription, SubRows, SubStatuses
  <2> QED BY <1>10, <2>1 DEF TypeOK, ExpireSubscription
<1>11. at \in {"linked", "downgrade"} /\ CommitSubscription => sub' \in [Subs -> SubRows]
  BY DEF TypeOK, CommitSubscription, SubRows, SubStatuses
<1>12. CASE ReadLinkedLicences
  <2>1. CASE GraceEnded(view)
    <3>1. SeatsHeld(current) \subseteq Members
      BY DEF SeatsHeld
    <3> QED BY <1>12, <2>1, <3>1 DEF TypeOK, ReadLinkedLicences
  <2>2. CASE ~GraceEnded(view)
    BY <1>11, <1>12, <2>2 DEF TypeOK, ReadLinkedLicences, ScanTo
  <2> QED BY <2>1, <2>2
<1>13. CASE DowngradeLinked
  <2>1. CASE \E m \in linked : member[m].status = "absent"
    BY <1>13, <2>1 DEF TypeOK, DowngradeLinked, EndScan, ScanTo
  <2>2. CASE ~\E m \in linked : member[m].status = "absent"
    <3>1. \A m \in Members : License(member[m].status, ReadOnly(member[m].ends)) \in MemberRows
      BY LicenceKept DEF TypeOK, MemberRows
    <3>2. member' \in [Members -> MemberRows]
      BY <1>13, <2>2, <3>1 DEF TypeOK, DowngradeLinked
    <3>3. excused' \subseteq Subs
      BY <1>13, <2>2 DEF TypeOK, DowngradeLinked, Excuse
    <3> QED BY <1>11, <1>13, <2>2, <3>2, <3>3 DEF TypeOK, DowngradeLinked, ScanTo
  <2> QED BY <2>1, <2>2
<1>14. CASE FindEndedLicences
  <2>1. at' = "licences" /\ todo' \subseteq Members
    BY <1>14 DEF FindEndedLicences, ScanTo
  <2>2. current' = None /\ view' = None /\ linked' = {} /\ expiring' = FALSE
    BY <1>14 DEF FindEndedLicences, ScanTo
  <2>3. UNCHANGED <<sub, member, pc, req, assigns, edits, faults, edited, raced, excused>>
    BY <1>14 DEF FindEndedLicences
  <2> QED BY <2>1, <2>2, <2>3 DEF TypeOK
<1>15. CASE ReadLicence
  BY <1>15 DEF TypeOK, ReadLicence
<1>16. CASE DowngradeLicence
  <2>1. CASE member[current].status = "absent"
    BY <1>16, <2>1 DEF TypeOK, DowngradeLicence, EndScan, ScanTo
  <2>2. CASE member[current].status # "absent"
    <3>1. License(member[current].status, ReadOnly(member[current].ends)) \in MemberRows
      BY <1>16, LicenceKept DEF TypeOK, DowngradeLicence, MemberRows
    <3>2. member' \in [Members -> MemberRows] /\ excused' \subseteq Subs
      BY <1>16, <2>2, <3>1 DEF TypeOK, DowngradeLicence, Excuse
    <3> QED BY <1>16, <2>2, <3>2 DEF TypeOK, DowngradeLicence, ScanTo
  <2> QED BY <2>1, <2>2
<1>17. CASE ScanIsOver
  BY <1>17 DEF TypeOK, ScanIsOver, EndScan, ScanTo
<1>18. CASE Crash
  <2>1. faults' \in 0 .. MaxFaults
    BY <1>18 DEF TypeOK, Crash
  <2>2. /\ at' = "idle" /\ todo' = {} /\ edited' = {}
        /\ current' = None /\ view' = None /\ linked' = {} /\ expiring' = FALSE
    BY <1>18 DEF Crash, EndScan, ScanTo
  <2>3. UNCHANGED <<sub, member, pc, req, assigns, edits, raced, excused>>
    BY <1>18 DEF Crash
  <2> QED BY <2>1, <2>2, <2>3 DEF TypeOK
<1>19. CASE TimePasses
  <2>1. \A d : Nearer(d) \in Dates
    BY DEF Nearer, Dates
  <2>2. sub' \in [Subs -> SubRows]
    BY <1>19, <2>1 DEF TypeOK, TimePasses, SubRows
  <2>3. member' \in [Members -> MemberRows]
    BY <1>19, <2>1 DEF TypeOK, TimePasses, MemberRows
  <2> QED BY <1>19, <2>2, <2>3 DEF TypeOK, TimePasses, scanVars
<1>20. CASE UNCHANGED vars
  BY <1>20 DEF TypeOK, vars, scanVars
<1> QED
  BY <1>1, <1>2, <1>3, <1>4, <1>5, <1>6, <1>7, <1>8, <1>9, <1>10, <1>12, <1>13,
     <1>14, <1>15, <1>16, <1>17, <1>18, <1>19, <1>20 DEF Next, Scan

\* Every variable keeps its type; in particular the scan is at a subscription
\* or at a member as its statement says, and idle requests hold nothing.
THEOREM TypeCorrect == Spec => []TypeOK
BY TypeInit, TypeNext, PTL DEF Spec

-------------------------------------------------------------------------------
(***************************************************************************)
(* The quota                                                               *)
(***************************************************************************)

\* A request whose check is still fresh would find its seat again.
ChecksHold ==
    \A c \in Callers :
        pc[c] = "assign" /\ req[c].licence.mode = "BILLABLE" /\ c \notin raced
            => SeatAvailable(req[c].member, req[c].licence.sub)

QuotaInv == TypeOK /\ QuotaKept /\ ChecksHold

LEMMA SeatsFinite ==
    ASSUME NEW s, NEW T, T \subseteq SeatsHeld(s)
    PROVE  /\ IsFiniteSet(T) /\ Cardinality(T) \in Nat
           /\ IsFiniteSet(SeatsHeld(s)) /\ Cardinality(SeatsHeld(s)) \in Nat
           /\ Cardinality(T) <= Cardinality(SeatsHeld(s))
<1>1. SeatsHeld(s) \subseteq Members
  BY DEF SeatsHeld
<1>2. IsFiniteSet(SeatsHeld(s)) /\ IsFiniteSet(T)
  BY <1>1, FS_Subset, LicencesAssumption
<1> QED BY <1>2, FS_Subset, FS_CardinalityType

\* The same of the next state.
LEMMA NextSeatsFinite ==
    ASSUME NEW s, NEW T, T \subseteq SeatsHeld(s)'
    PROVE  /\ IsFiniteSet(T) /\ Cardinality(T) \in Nat
           /\ IsFiniteSet(SeatsHeld(s)') /\ Cardinality(SeatsHeld(s)') \in Nat
           /\ Cardinality(T) <= Cardinality(SeatsHeld(s)')
<1>1. SeatsHeld(s)' \subseteq Members
  BY DEF SeatsHeld
<1>2. IsFiniteSet(SeatsHeld(s)') /\ IsFiniteSet(T)
  BY <1>1, FS_Subset, LicencesAssumption
<1> QED BY <1>2, FS_Subset, FS_CardinalityType

\* With no more seats taken and no lower limit, nothing gets worse.
LEMMA FewerSeats ==
    ASSUME TypeOK, TypeOK', NEW s \in Subs,
           SeatsHeld(s)' \subseteq SeatsHeld(s), sub[s].limit <= sub'[s].limit
    PROVE  /\ Exceeds(s)' => Exceeds(s)
           /\ \A m : SeatAvailable(m, s) => SeatAvailable(m, s)'
<1>1. sub[s].limit \in Nat /\ sub'[s].limit \in Nat
  BY LicencesAssumption DEF TypeOK, SubRows
<1>2. /\ Cardinality(SeatsHeld(s)') <= Cardinality(SeatsHeld(s))
      /\ Cardinality(SeatsHeld(s)') \in Nat /\ Cardinality(SeatsHeld(s)) \in Nat
  BY SeatsFinite
<1>3. ASSUME NEW m, SeatAvailable(m, s) PROVE SeatAvailable(m, s)'
  <2>1. SeatsHeld(s)' \ {m} \subseteq SeatsHeld(s) \ {m}
    OBVIOUS
  <2>2. IsFiniteSet(SeatsHeld(s) \ {m}) /\ Cardinality(SeatsHeld(s) \ {m}) \in Nat
    BY SeatsFinite
  <2>3. /\ Cardinality(SeatsHeld(s)' \ {m}) <= Cardinality(SeatsHeld(s) \ {m})
        /\ Cardinality(SeatsHeld(s)' \ {m}) \in Nat
    BY <2>1, <2>2, FS_Subset, FS_CardinalityType
  <2> QED BY <1>1, <1>3, <2>2, <2>3 DEF SeatAvailable
<1> QED BY <1>1, <1>2, <1>3 DEF Exceeds

LEMMA BillableOnSubscription ==
    ASSUME TypeOK, NEW c \in Callers, pc[c] # "idle", req[c].licence.mode = "BILLABLE"
    PROVE  req[c].licence.sub \in Subs
<1>1. req[c].licence \in Assignments
  BY DEF TypeOK, Requests
<1> QED BY <1>1 DEF Assignments

\* A step that takes no seat, lowers no limit and lets requests be.
LEMMA QuietStep ==
    ASSUME QuotaInv, TypeOK',
           \A s \in Subs : SeatsHeld(s)' \subseteq SeatsHeld(s) /\ sub[s].limit <= sub'[s].limit,
           UNCHANGED <<pc, req>>, raced \subseteq raced',
           UNCHANGED excused \/ Excuse({})
    PROVE  QuotaInv'
<1>1. \A s \in Subs : /\ Exceeds(s)' => Exceeds(s)
                      /\ \A m : SeatAvailable(m, s) => SeatAvailable(m, s)'
  BY FewerSeats DEF QuotaInv
<1>2. QuotaKept'
  BY <1>1 DEF QuotaInv, QuotaKept, Excuse
<1>3. ChecksHold'
  <2> SUFFICES ASSUME NEW c \in Callers, pc'[c] = "assign",
                      req'[c].licence.mode = "BILLABLE", c \notin raced'
               PROVE  SeatAvailable(req[c].member, req[c].licence.sub)'
    BY DEF ChecksHold
  <2> DEFINE m == req[c].member
             s == req[c].licence.sub
  <2>1. s \in Subs
    BY BillableOnSubscription DEF QuotaInv
  <2>2. SeatAvailable(m, s)
    BY DEF QuotaInv, ChecksHold
  <2>3. SeatAvailable(m, s) => Cardinality(SeatsHeld(s)' \ {m}) + 1 <= sub'[s].limit
    BY <1>1, <2>1 DEF SeatAvailable
  <2>4. req'[c] = req[c]
    OBVIOUS
  <2> QED BY <2>2, <2>3, <2>4 DEF SeatAvailable, SeatsHeld
<1> QED BY <1>2, <1>3 DEF QuotaInv

LEMMA SameSeats ==
    ASSUME UNCHANGED <<sub, member>>
    PROVE  \A s : /\ SeatsHeld(s)' = SeatsHeld(s) /\ Exceeds(s)' = Exceeds(s)
                  /\ \A m : SeatAvailable(m, s)' = SeatAvailable(m, s)
BY DEF SeatsHeld, Exceeds, SeatAvailable

LEMMA SeatRemoved ==
    ASSUME NEW s, NEW m
    PROVE  Cardinality(SeatsHeld(s)) <= Cardinality(SeatsHeld(s) \ {m}) + 1
<1> DEFINE T == SeatsHeld(s) \ {m}
<1>1. IsFiniteSet(T)
  BY SeatsFinite
<1>2. IsFiniteSet(T \cup {m}) /\ Cardinality(T \cup {m}) = Cardinality(T) + 1
  BY <1>1, FS_AddElement
<1>3. SeatsHeld(s) \subseteq T \cup {m}
  OBVIOUS
<1> QED BY <1>2, <1>3, FS_Subset

\* A step of one request that writes no row.
LEMMA RequestStep ==
    ASSUME QuotaInv, TypeOK', NEW c \in Callers,
           UNCHANGED <<sub, member, raced, excused>>,
           \A d \in Callers \ {c} : pc'[d] = pc[d] /\ req'[d] = req[d],
           pc'[c] = "assign" /\ req'[c].licence.mode = "BILLABLE"
             => SeatAvailable(req[c].member, req[c].licence.sub) /\ req'[c] = req[c]
    PROVE  QuotaInv'
<1>1. QuotaKept'
  BY SameSeats DEF QuotaInv, QuotaKept
<1>2. ChecksHold'
  <2> SUFFICES ASSUME NEW d \in Callers, pc'[d] = "assign",
                      req'[d].licence.mode = "BILLABLE", d \notin raced'
               PROVE  SeatAvailable(req[d].member, req[d].licence.sub)'
    BY DEF ChecksHold
  <2>1. SeatAvailable(req[d].member, req[d].licence.sub) /\ req'[d] = req[d]
    <3>1. CASE d = c
      BY <3>1
    <3>2. CASE d # c
      BY <3>2 DEF QuotaInv, ChecksHold
    <3> QED BY <3>1, <3>2
  <2> QED BY <2>1 DEF SeatAvailable, SeatsHeld
<1> QED BY <1>1, <1>2 DEF QuotaInv

\* A step by which seats of s only may be taken, or its limit lowered: what was
\* checked for s is stale, s is excused if it exceeds now, and the other
\* subscriptions see nothing.
LEMMA SeatTaken ==
    ASSUME QuotaInv, TypeOK', NEW s, NEW c, NEW X,
           \A r \in Subs \ {s} : SeatsHeld(r)' \subseteq SeatsHeld(r) /\ sub[r].limit <= sub'[r].limit,
           \A d \in Callers \ {c} : pc'[d] = pc[d] /\ req'[d] = req[d],
           c \in Callers => pc'[c] = "idle",
           raced' = (raced \cup Waiting(s)) \ {c},
           Excuse(X), s \in Subs /\ Exceeds(s)' => s \in X
    PROVE  QuotaInv'
<1>1. \A r \in Subs \ {s} : /\ Exceeds(r)' => Exceeds(r)
                            /\ \A m : SeatAvailable(m, r) => SeatAvailable(m, r)'
  BY FewerSeats DEF QuotaInv
<1>2. QuotaKept'
  BY <1>1 DEF QuotaInv, QuotaKept, Excuse
<1>3. ChecksHold'
  <2> SUFFICES ASSUME NEW d \in Callers, pc'[d] = "assign",
                      req'[d].licence.mode = "BILLABLE", d \notin raced'
               PROVE  SeatAvailable(req[d].member, req[d].licence.sub)'
    BY DEF ChecksHold
  <2>0. d # c
    OBVIOUS
  <2>1. pc[d] = "assign" /\ req'[d] = req[d] /\ d \notin raced /\ d \notin Waiting(s)
    BY <2>0
  <2>2. req[d].licence.sub \in Subs \ {s}
    BY <2>1, BillableOnSubscription DEF QuotaInv, Waiting
  <2>3. SeatAvailable(req[d].member, req[d].licence.sub)
    BY <2>0, <2>1 DEF QuotaInv, ChecksHold
  <2>4. SeatAvailable(req[d].member, req[d].licence.sub)
          => Cardinality(SeatsHeld(req[d].licence.sub)' \ {req[d].member}) + 1
               <= sub'[req[d].licence.sub].limit
    BY <1>1, <2>2 DEF SeatAvailable
  <2> QED BY <2>1, <2>3, <2>4 DEF SeatAvailable, SeatsHeld
<1> QED BY <1>2, <1>3 DEF QuotaInv

\* An assignment whose check is fresh stays within the limit.
LEMMA FreshAssignment ==
    ASSUME QuotaInv, TypeOK', NEW c \in Callers, Assign(c), c \notin raced,
           NEW m, m = req[c].member, NEW s \in Subs, s = req[c].licence.sub
    PROVE  ~Exceeds(s)' \/ UNCHANGED member
<1>0. pc[c] = "assign" /\ m \in Members /\ req[c].licence \in Assignments
  BY DEF Assign, QuotaInv, TypeOK, Requests
<1>1. req[c].licence.mode = "BILLABLE"
  BY <1>0, LicencesAssumption DEF Assignments
<1>2. SeatAvailable(m, s)
  BY <1>0, <1>1 DEF QuotaInv, ChecksHold
<1>3. CASE member[m].status = "absent"
  BY <1>3 DEF Assign
<1>4. CASE member[m].status # "absent"
  <2>1. sub' = sub /\ member' = [member EXCEPT ![m] = License(@.status, req[c].licence)]
    BY <1>4 DEF Assign
  <2>2. SeatsHeld(s)' \ {m} \subseteq SeatsHeld(s) \ {m}
    BY <1>0, <2>1 DEF SeatsHeld, QuotaInv, TypeOK
  <2>3. IsFiniteSet(SeatsHeld(s) \ {m}) /\ Cardinality(SeatsHeld(s) \ {m}) \in Nat
    BY SeatsFinite
  <2>4. /\ IsFiniteSet(SeatsHeld(s)' \ {m})
        /\ Cardinality(SeatsHeld(s)' \ {m}) <= Cardinality(SeatsHeld(s) \ {m})
        /\ Cardinality(SeatsHeld(s)' \ {m}) \in Nat
    BY <2>2, <2>3, FS_Subset, FS_CardinalityType
  <2>5. Cardinality(SeatsHeld(s)') <= Cardinality(SeatsHeld(s)' \ {m}) + 1
    <3> DEFINE T == SeatsHeld(s)' \ {m}
    <3>1. IsFiniteSet(T \cup {m}) /\ Cardinality(T \cup {m}) = Cardinality(T) + 1
      BY <2>4, FS_AddElement
    <3>2. SeatsHeld(s)' \subseteq T \cup {m}
      OBVIOUS
    <3> QED BY <3>1, <3>2, FS_Subset
  <2>6. Cardinality(SeatsHeld(s)') \in Nat
    BY NextSeatsFinite
  <2>7. sub[s].limit \in Nat
    BY LicencesAssumption DEF QuotaInv, TypeOK, SubRows
  <2> QED BY <1>2, <2>1, <2>3, <2>4, <2>5, <2>6, <2>7 DEF SeatAvailable, Exceeds
<1> QED BY <1>3, <1>4

LEMMA QuotaInit == Init => QuotaInv
<1> SUFFICES ASSUME Init PROVE QuotaInv
  OBVIOUS
<1>1. TypeOK
  BY TypeInit
<1> QED BY <1>1 DEF Init, QuotaInv, QuotaKept, ChecksHold

\* The scan takes seats away, if anything.
LEMMA ScanKeepsQuota == QuotaInv /\ TypeOK' /\ (Scan \/ Crash) => QuotaInv'
<1> SUFFICES ASSUME QuotaInv, TypeOK', Scan \/ Crash PROVE QuotaInv'
  OBVIOUS
<1>1. \A s \in Subs : sub[s].limit \in Nat
  BY LicencesAssumption DEF QuotaInv, TypeOK, SubRows
<1>2. UNCHANGED <<pc, req, raced>>
  BY DEF Scan, Crash, StartScan, ReadSubscription, ExpireSubscription, ReadLinkedLicences,
         DowngradeLinked, FindEndedLicences, ReadLicence, DowngradeLicence, ScanIsOver
<1>3. ASSUME CommitSubscription, at \in {"linked", "downgrade"}
      PROVE  \A s \in Subs : sub'[s].limit = sub[s].limit
  BY <1>3 DEF CommitSubscription, QuotaInv, TypeOK, SubRows
<1>4. CASE DowngradeLinked /\ ~\E m \in linked : member[m].status = "absent"
  <2>1. \A s \in Subs : SeatsHeld(s)' \subseteq SeatsHeld(s)
    BY <1>4 DEF DowngradeLinked, SeatsHeld, License, ReadOnly
  <2>2. \A s \in Subs : sub'[s].limit = sub[s].limit
    BY <1>3, <1>4 DEF DowngradeLinked
  <2>3. Excuse({})
    BY <1>4 DEF DowngradeLinked
  <2> QED BY <1>1, <1>2, <2>1, <2>2, <2>3, QuietStep
<1>5. CASE DowngradeLicence /\ member[current].status # "absent"
  <2>1. current \in Members
    BY <1>5 DEF DowngradeLicence, QuotaInv, TypeOK
  <2>2. \A s \in Subs : SeatsHeld(s)' \subseteq SeatsHeld(s)
    BY <1>5, <2>1 DEF DowngradeLicence, SeatsHeld, License, ReadOnly, QuotaInv, TypeOK
  <2>3. UNCHANGED sub /\ Excuse({})
    BY <1>5 DEF DowngradeLicence
  <2> QED BY <1>1, <1>2, <2>2, <2>3, QuietStep
<1>6. CASE ReadLinkedLicences
  <2>1. UNCHANGED <<member, excused>>
    BY <1>6 DEF ReadLinkedLicences
  <2>2. \A s \in Subs : SeatsHeld(s)' = SeatsHeld(s)
    BY <2>1 DEF SeatsHeld
  <2>3. \A s \in Subs : sub'[s].limit = sub[s].limit
    <3>1. CASE GraceEnded(view)
      BY <1>6, <3>1 DEF ReadLinkedLicences
    <3>2. CASE ~GraceEnded(view)
      BY <1>3, <1>6, <3>2 DEF ReadLinkedLicences
    <3> QED BY <3>1, <3>2
  <2> QED BY <1>1, <1>2, <2>1, <2>2, <2>3, QuietStep
<1>7. CASE UNCHANGED <<sub, member, excused>>
  <2>1. \A s \in Subs : SeatsHeld(s)' = SeatsHeld(s)
    BY <1>7 DEF SeatsHeld
  <2> QED BY <1>1, <1>2, <1>7, <2>1, QuietStep
<1> QED
  BY <1>4, <1>5, <1>6, <1>7 DEF Scan, Crash, StartScan, ReadSubscription, ExpireSubscription,
     DowngradeLinked, FindEndedLicences, ReadLicence, DowngradeLicence, ScanIsOver

LEMMA QuotaNext == QuotaInv /\ [Next]_vars => QuotaInv'
<1> SUFFICES ASSUME QuotaInv, [Next]_vars PROVE QuotaInv'
  OBVIOUS
<1>0. TypeOK'
  BY TypeNext DEF QuotaInv
<1>1. ASSUME NEW c \in Callers, RequestLicence(c) PROVE QuotaInv'
  <2>1. PICK m \in Members, l \in Assignments :
           /\ req' = [req EXCEPT ![c] = [member |-> m, licence |-> l]]
           /\ pc' = [pc EXCEPT ![c] = IF l.mode = "BILLABLE" THEN "validate" ELSE "assign"]
    BY <1>1 DEF RequestLicence
  <2>2. \A d \in Callers \ {c} : pc'[d] = pc[d] /\ req'[d] = req[d]
    BY <2>1 DEF QuotaInv, TypeOK
  <2>3. ~(pc'[c] = "assign" /\ req'[c].licence.mode = "BILLABLE")
    BY <2>1 DEF QuotaInv, TypeOK
  <2>4. UNCHANGED <<sub, member, raced, excused>>
    BY <1>1 DEF RequestLicence
  <2> QED BY <1>0, <2>2, <2>3, <2>4, RequestStep
<1>2. ASSUME NEW c \in Callers, CheckSubscription(c) PROVE QuotaInv'
  <2>1. pc'[c] # "assign"
    BY <1>2 DEF CheckSubscription, Proceed, QuotaInv, TypeOK
  <2>2. \A d \in Callers \ {c} : pc'[d] = pc[d] /\ req'[d] = req[d]
    BY <1>2 DEF CheckSubscription, Proceed, QuotaInv, TypeOK
  <2>3. UNCHANGED <<sub, member, raced, excused>>
    BY <1>2 DEF CheckSubscription
  <2> QED BY <1>0, <2>1, <2>2, <2>3, RequestStep
<1>3. ASSUME NEW c \in Callers, CheckQuota(c) PROVE QuotaInv'
  <2>1. pc'[c] = "assign" =>
          SeatAvailable(req[c].member, req[c].licence.sub) /\ req'[c] = req[c]
    BY <1>3 DEF CheckQuota, Proceed, QuotaInv, TypeOK
  <2>2. \A d \in Callers \ {c} : pc'[d] = pc[d] /\ req'[d] = req[d]
    BY <1>3 DEF CheckQuota, Proceed, QuotaInv, TypeOK
  <2>3. UNCHANGED <<sub, member, raced, excused>>
    BY <1>3 DEF CheckQuota
  <2> QED BY <1>0, <2>1, <2>2, <2>3, RequestStep
<1>4. ASSUME NEW c \in Callers, Assign(c) PROVE QuotaInv'
  <2> DEFINE l == req[c].licence
  <2>0. pc[c] = "assign" /\ req[c].member \in Members /\ l \in Assignments
    BY <1>4 DEF Assign, QuotaInv, TypeOK, Requests
  <2>1. \A d \in Callers \ {c} : pc'[d] = pc[d] /\ req'[d] = req[d]
    BY <1>4 DEF Assign, Proceed, QuotaInv, TypeOK
  <2>2. pc'[c] = "idle"
    BY <1>4 DEF Assign, Proceed, QuotaInv, TypeOK
  <2>3. \A s \in Subs : sub'[s].limit = sub[s].limit /\ sub[s].limit \in Nat
    BY <1>4, LicencesAssumption DEF Assign, QuotaInv, TypeOK, SubRows
  <2>4. CASE member[req[c].member].status = "absent"
    <3>1. UNCHANGED <<sub, member, excused>> /\ raced' = raced \ {c}
      BY <1>4, <2>4 DEF Assign
    <3>2. QuotaKept'
      BY <3>1, SameSeats DEF QuotaInv, QuotaKept
    <3>3. ChecksHold'
      <4> SUFFICES ASSUME NEW d \in Callers, pc'[d] = "assign",
                          req'[d].licence.mode = "BILLABLE", d \notin raced'
                   PROVE  SeatAvailable(req[d].member, req[d].licence.sub)'
        BY DEF ChecksHold
      <4>1. d # c
        BY <2>2
      <4>2. SeatAvailable(req[d].member, req[d].licence.sub) /\ req'[d] = req[d]
        BY <2>1, <3>1, <4>1 DEF QuotaInv, ChecksHold
      <4> QED BY <3>1, <4>2 DEF SeatAvailable, SeatsHeld
    <3> QED BY <1>0, <3>2, <3>3 DEF QuotaInv
  <2>5. CASE member[req[c].member].status # "absent"
    <3> DEFINE X == IF c \in raced THEN {l.sub} \cap Subs ELSE {}
    <3>1. /\ member' = [member EXCEPT ![req[c].member] = License(@.status, l)]
          /\ raced' = (raced \cup Waiting(l.sub)) \ {c}
      BY <1>4, <2>5 DEF Assign
    <3>2. PICK Y : Y = X /\ Excuse(Y)
      BY <1>4, <2>5 DEF Assign, Excuse
    <3>3. PICK s : s = l.sub
      OBVIOUS
    <3>4. \A r \in Subs \ {s} : SeatsHeld(r)' \subseteq SeatsHeld(r) /\ sub[r].limit <= sub'[r].limit
      BY <2>0, <2>3, <3>1, <3>3 DEF SeatsHeld, License, QuotaInv, TypeOK
    <3>5. s \in Subs /\ Exceeds(s)' => s \in Y
      <4>1. CASE c \in raced
        BY <3>2, <3>3, <4>1
      <4>2. CASE c \notin raced
        <5> SUFFICES ASSUME s \in Subs, Exceeds(s)' PROVE FALSE
          OBVIOUS
        <5>1. l.mode = "BILLABLE"
          BY <2>0, <3>3, LicencesAssumption DEF Assignments
        <5>2. UNCHANGED member
          BY <1>0, <1>4, <3>3, <4>2, FreshAssignment
        <5>3. Exceeds(s) /\ SeatsHeld(s)' = SeatsHeld(s) /\ sub' = sub
          BY <1>4, <5>2 DEF Assign, Exceeds, SeatsHeld
        <5>4. SeatAvailable(req[c].member, s)
          BY <2>0, <3>3, <4>2, <5>1 DEF QuotaInv, ChecksHold
        <5>5. Cardinality(SeatsHeld(s)) <= Cardinality(SeatsHeld(s) \ {req[c].member}) + 1
          BY SeatRemoved
        <5>6. /\ Cardinality(SeatsHeld(s)) \in Nat /\ sub[s].limit \in Nat
              /\ Cardinality(SeatsHeld(s) \ {req[c].member}) \in Nat
          BY <2>3, SeatsFinite
        <5> QED BY <5>3, <5>4, <5>5, <5>6 DEF SeatAvailable, Exceeds
      <4> QED BY <4>1, <4>2
    <3>6. raced' = (raced \cup Waiting(s)) \ {c}
      BY <3>1, <3>3
    <3> HIDE DEF X, l
    <3> QED BY <1>0, <2>1, <2>2, <3>2, <3>4, <3>5, <3>6, SeatTaken
  <2> QED BY <2>4, <2>5
<1>5. ASSUME NEW s \in Subs, UpdateSubscription(s) PROVE QuotaInv'
  <2>1. UNCHANGED <<member, pc, req>> /\ \A r \in Subs : SeatsHeld(r)' = SeatsHeld(r)
    BY <1>5 DEF UpdateSubscription, SeatsHeld
  <2>2. \A r \in Subs : sub[r].limit \in Nat /\ sub'[r].limit \in Nat
    BY <1>0, LicencesAssumption DEF QuotaInv, TypeOK, SubRows
  <2>3. \A r \in Subs \ {s} : sub'[r] = sub[r]
    BY <1>5 DEF UpdateSubscription, QuotaInv, TypeOK
  <2>4. CASE sub'[s].limit < sub[s].limit
    <3>1. raced' = raced \cup Waiting(s) /\ Excuse({s})
      BY <1>5, <2>4 DEF UpdateSubscription, QuotaInv, TypeOK
    <3>2. PICK c : c \notin Callers /\ c \notin raced \cup Waiting(s)
      <4>1. PICK x : x \notin Callers \cup (raced \cup Waiting(s))
        BY NoSetContainsEverything, Zenon
      <4> QED BY <4>1
    <3> QED BY <1>0, <2>1, <2>2, <2>3, <3>1, <3>2, SeatTaken
  <2>5. CASE ~(sub'[s].limit < sub[s].limit)
    <3>1. UNCHANGED raced /\ Excuse({})
      BY <1>5, <2>5 DEF UpdateSubscription, QuotaInv, TypeOK
    <3> QED BY <1>0, <2>1, <2>2, <2>3, <2>5, <3>1, QuietStep
  <2> QED BY <2>4, <2>5
<1>6. ASSUME NEW m \in Members, SetMemberStatus(m) PROVE QuotaInv'
  <2>1. /\ UNCHANGED <<sub, pc, req>> /\ raced' = raced \cup Waiting(member[m].sub)
        /\ member' = [member EXCEPT ![m].status = IF @ = "ACTIVE" THEN "SUSPENDED" ELSE "ACTIVE"]
    BY <1>6 DEF SetMemberStatus
  <2>2. \A r \in Subs : sub[r].limit \in Nat
    BY LicencesAssumption DEF QuotaInv, TypeOK, SubRows
  <2>3. PICK s : s = member[m].sub
    OBVIOUS
  <2>4. \A r \in Subs \ {s} : SeatsHeld(r)' \subseteq SeatsHeld(r)
    BY <2>1, <2>3 DEF SeatsHeld, QuotaInv, TypeOK, MemberRows
  <2>5. CASE member[m].status = "SUSPENDED"
    <3>1. PICK Y : Y = {s} \cap Subs /\ Excuse(Y)
      BY <1>6, <2>3, <2>5 DEF SetMemberStatus, Excuse
    <3>2. PICK c : c \notin Callers /\ c \notin raced \cup Waiting(s)
      <4>1. PICK x : x \notin Callers \cup (raced \cup Waiting(s))
        BY NoSetContainsEverything, Zenon
      <4> QED BY <4>1
    <3> QED BY <1>0, <2>1, <2>2, <2>3, <2>4, <3>1, <3>2, SeatTaken
  <2>6. CASE member[m].status # "SUSPENDED"
    <3>1. Excuse({})
      BY <1>6, <2>6 DEF SetMemberStatus, Excuse
    <3>2. member[m].status = "ACTIVE"
      BY <1>6, <2>6 DEF SetMemberStatus, QuotaInv, TypeOK, MemberRows
    <3>3. \A r \in Subs : SeatsHeld(r)' \subseteq SeatsHeld(r)
      BY <2>1, <3>2 DEF SeatsHeld, QuotaInv, TypeOK, MemberRows
    <3> QED BY <1>0, <2>1, <2>2, <3>1, <3>3, QuietStep
  <2> QED BY <2>5, <2>6
<1>7. ASSUME NEW m \in Members, SetMembership(m) PROVE QuotaInv'
  <2>1. UNCHANGED <<sub, pc, req, raced>> /\ Excuse({})
    BY <1>7 DEF SetMembership
  <2>2. \A r \in Subs : sub[r].limit \in Nat
    BY LicencesAssumption DEF QuotaInv, TypeOK, SubRows
  <2>3. \A r \in Subs : SeatsHeld(r)' \subseteq SeatsHeld(r)
    BY <1>7 DEF SetMembership, SeatsHeld, Absent, License, ReadOnly, QuotaInv, TypeOK
  <2> QED BY <1>0, <2>1, <2>2, <2>3, QuietStep
<1>8. CASE Scan \/ Crash
  BY <1>0, <1>8, ScanKeepsQuota
<1>9. CASE TimePasses
  <2>1. UNCHANGED <<pc, req, raced, excused>>
    BY <1>9 DEF TimePasses
  <2>2. \A r \in Subs : sub[r].limit \in Nat /\ sub'[r].limit = sub[r].limit
    BY <1>9, LicencesAssumption DEF TimePasses, QuotaInv, TypeOK, SubRows
  <2>3. \A r \in Subs : SeatsHeld(r)' = SeatsHeld(r)
    BY <1>9 DEF TimePasses, SeatsHeld, QuotaInv, TypeOK, MemberRows
  <2> QED BY <1>0, <2>1, <2>2, <2>3, QuietStep
<1>10. CASE UNCHANGED vars
  <2>1. UNCHANGED <<sub, member, pc, req, raced, excused>>
    BY <1>10 DEF vars
  <2>2. \A r \in Subs : sub[r].limit \in Nat /\ SeatsHeld(r)' = SeatsHeld(r)
    BY <2>1, LicencesAssumption DEF QuotaInv, TypeOK, SubRows, SeatsHeld
  <2> QED BY <1>0, <2>1, <2>2, QuietStep
<1> QED
  BY <1>1, <1>2, <1>3, <1>4, <1>5, <1>6, <1>7, <1>8, <1>9, <1>10 DEF Next

\* The quota check is right wherever nothing overtakes it: more seats than the
\* limit come from a member's return, a lowered limit or a stale check.
THEOREM QuotaIsKept == Spec => []QuotaKept
<1>1. QuotaInv => QuotaKept
  BY DEF QuotaInv
<1> QED BY <1>1, QuotaInit, QuotaNext, PTL DEF Spec

-------------------------------------------------------------------------------
(***************************************************************************)
(* What the scan still knows of the rows nobody else has written            *)
(***************************************************************************)

Candidate(r) ==
    \/ r.status = "ACTIVE" /\ Ended(r.ends)
    \/ r.status = "EXPIRED" /\ Ended(r.grace)

AtSubscription == at \in {"expire", "linked", "downgrade"}

HoldsTemporary(m) == member[m].mode = "TEMPORARY" /\ Ended(member[m].ends)

CandidatesRead ==
    AtSubscription \/ at = "subscriptions" => \A s \in todo : s \in edited \/ Candidate(sub[s])

CurrentRead ==
    AtSubscription => current \notin todo /\ (current \in edited \/ Candidate(sub[current]))

GraceRead ==
    (at = "linked" /\ GraceEnded(view)) \/ at = "downgrade" =>
        current \in edited \/ GraceEnded(sub[current])

LinkedRead ==
    at = "downgrade" =>
        \A m \in linked : m \in edited \/ (member[m].mode = "BILLABLE" /\ member[m].sub = current)

LicenceRead == at = "lapse" => current \in edited \/ HoldsTemporary(current)

ScanInv == TypeOK /\ CandidatesRead /\ CurrentRead /\ GraceRead /\ LinkedRead /\ LicenceRead

\* Beside the scan, a row changes only when it is edited, or its dates come.
LEMMA ScanUndisturbed ==
    ASSUME ScanInv, TypeOK', UNCHANGED <<at, todo, current, view, linked>>,
           at # "idle" => edited \subseteq edited',
           \A s \in Subs : at # "idle" /\ s \notin edited' =>
              /\ Candidate(sub[s]) => Candidate(sub'[s])
              /\ GraceEnded(sub[s]) => GraceEnded(sub'[s]),
           \A m \in Members : at # "idle" /\ m \notin edited' =>
              /\ member'[m].mode = member[m].mode /\ member'[m].sub = member[m].sub
              /\ Ended(member[m].ends) => Ended(member'[m].ends)
    PROVE  ScanInv'
<1>1. CASE at = "idle"
  BY <1>1 DEF ScanInv, CandidatesRead, CurrentRead, GraceRead, LinkedRead, LicenceRead, AtSubscription
<1>2. CASE at # "idle"
  <2>1. CandidatesRead'
    BY <1>2 DEF ScanInv, CandidatesRead, AtSubscription, TypeOK
  <2>2. CurrentRead'
    BY <1>2 DEF ScanInv, CurrentRead, AtSubscription, TypeOK
  <2>3. GraceRead'
    BY <1>2 DEF ScanInv, GraceRead, TypeOK
  <2>4. LinkedRead'
    BY <1>2 DEF ScanInv, LinkedRead, TypeOK
  <2>5. LicenceRead'
    BY <1>2 DEF ScanInv, LicenceRead, HoldsTemporary, TypeOK
  <2> QED BY <2>1, <2>2, <2>3, <2>4, <2>5 DEF ScanInv
<1> QED BY <1>1, <1>2

LEMMA ScanInit == Init => ScanInv
BY TypeInit
   DEF Init, ScanInv, CandidatesRead, CurrentRead, GraceRead, LinkedRead, LicenceRead, AtSubscription

\* A date that has ended stays ended.
LEMMA TimeKeepsEnds ==
    ASSUME TypeOK, TimePasses, at # "idle"
    PROVE  /\ \A s \in Subs : /\ Candidate(sub[s]) => Candidate(sub'[s])
                              /\ GraceEnded(sub[s]) => GraceEnded(sub'[s])
           /\ \A m \in Members : /\ member'[m].mode = member[m].mode
                                 /\ member'[m].sub = member[m].sub
                                 /\ Ended(member[m].ends) => Ended(member'[m].ends)
<1> USE DEF MayPass, Nearer, Candidate, GraceEnded, Ended
<1>0. None \notin {"soon", "past", "future"}
  BY LicencesAssumption
<1>1. ASSUME NEW s \in Subs, sub[s].ends = "soon", UNCHANGED member,
             sub' = [sub EXCEPT ![s].ends = "past"]
      PROVE  /\ \A r \in Subs : /\ Candidate(sub[r]) => Candidate(sub'[r])
                                /\ GraceEnded(sub[r]) => GraceEnded(sub'[r])
             /\ UNCHANGED member
  BY <1>0, <1>1 DEF TypeOK, SubRows
<1>2. ASSUME NEW s \in Subs, sub[s].grace = "soon", UNCHANGED member,
             sub' = [sub EXCEPT ![s].grace = "past"]
      PROVE  /\ \A r \in Subs : /\ Candidate(sub[r]) => Candidate(sub'[r])
                                /\ GraceEnded(sub[r]) => GraceEnded(sub'[r])
             /\ UNCHANGED member
  BY <1>0, <1>2 DEF TypeOK, SubRows
<1>3. ASSUME NEW m \in Members, member[m].ends = "soon", UNCHANGED sub,
             member' = [member EXCEPT ![m].ends = "past"]
      PROVE  \A n \in Members : /\ member'[n].mode = member[n].mode
                                /\ member'[n].sub = member[n].sub
                                /\ Ended(member[n].ends) => Ended(member'[n].ends)
  BY <1>3 DEF TypeOK, MemberRows
<1>4. \/ \E s \in Subs : /\ sub[s].ends = "soon"
                         /\ sub' = [sub EXCEPT ![s].ends = "past"]
                         /\ UNCHANGED member
      \/ \E s \in Subs : /\ sub[s].grace = "soon"
                         /\ sub' = [sub EXCEPT ![s].grace = "past"]
                         /\ UNCHANGED member
      \/ \E m \in Members : /\ member[m].ends = "soon"
                            /\ member' = [member EXCEPT ![m].ends = "past"]
                            /\ UNCHANGED sub
  BY DEF TimePasses, TypeOK, SubRows, MemberRows
<1> QED BY <1>1, <1>2, <1>3, <1>4

LEMMA ScanSteps == ScanInv /\ TypeOK' /\ (Scan \/ Crash) => ScanInv'
<1> SUFFICES ASSUME ScanInv, TypeOK', Scan \/ Crash PROVE ScanInv'
  OBVIOUS
<1> USE DEF ScanInv, CandidatesRead, CurrentRead, GraceRead, LinkedRead, LicenceRead, AtSubscription
<1>1. CASE StartScan
  BY <1>1 DEF StartScan, ScanTo, Candidate
<1>2. CASE ReadSubscription
  <2>1. PICK s \in todo \cap Subs :
           /\ todo' = todo \ {s} /\ current' = s /\ view' = sub[s]
           /\ at' = IF sub[s].status = "ACTIVE" /\ Ended(sub[s].ends) THEN "expire" ELSE "linked"
    BY <1>2 DEF ReadSubscription
  <2> QED BY <1>2, <2>1 DEF ReadSubscription
<1>3. CASE ExpireSubscription
  <2>1. sub[current] \in SubRows
    BY <1>3 DEF ExpireSubscription, TypeOK
  <2>2. view'.ends = sub[current].ends /\ view'.grace = sub[current].grace
    BY <1>3, <2>1 DEF ExpireSubscription, SubRows
  <2>3. GraceEnded(view') => GraceEnded(sub[current])
    BY <2>2 DEF GraceEnded
  <2> QED BY <1>3, <2>3 DEF ExpireSubscription
<1>4. CASE ReadLinkedLicences
  <2>1. CASE GraceEnded(view)
    BY <1>4, <2>1 DEF ReadLinkedLicences, SeatsHeld
  <2>2. CASE ~GraceEnded(view)
    <3>1. \A s \in todo : sub'[s] = sub[s]
      BY <1>4, <2>2 DEF ReadLinkedLicences, CommitSubscription, TypeOK
    <3> QED BY <1>4, <2>2, <3>1 DEF ReadLinkedLicences, ScanTo
  <2> QED BY <2>1, <2>2
<1>5. CASE DowngradeLinked
  <2>1. CASE \E m \in linked : member[m].status = "absent"
    BY <1>5, <2>1 DEF DowngradeLinked, EndScan, ScanTo
  <2>2. CASE ~\E m \in linked : member[m].status = "absent"
    <3>1. \A s \in todo : sub'[s] = sub[s]
      BY <1>5, <2>2 DEF DowngradeLinked, CommitSubscription, TypeOK
    <3> QED BY <1>5, <2>2, <3>1 DEF DowngradeLinked, ScanTo
  <2> QED BY <2>1, <2>2
<1>6. CASE FindEndedLicences
  BY <1>6 DEF FindEndedLicences, ScanTo
<1>7. CASE ReadLicence
  <2>1. PICK m \in todo \cap Members :
           IF LicenceEnded(m) THEN at' = "lapse" /\ current' = m ELSE UNCHANGED <<at, current>>
    BY <1>7 DEF ReadLicence
  <2> QED BY <1>7, <2>1 DEF ReadLicence, LicenceEnded, HoldsTemporary
<1>8. CASE DowngradeLicence
  BY <1>8 DEF DowngradeLicence, EndScan, ScanTo
<1>9. CASE ScanIsOver \/ Crash
  BY <1>9 DEF ScanIsOver, Crash, EndScan, ScanTo
<1> QED
  BY <1>1, <1>2, <1>3, <1>4, <1>5, <1>6, <1>7, <1>8, <1>9 DEF Scan

LEMMA ScanNext == ScanInv /\ [Next]_vars => ScanInv'
<1> SUFFICES ASSUME ScanInv, [Next]_vars PROVE ScanInv'
  OBVIOUS
<1>0. TypeOK /\ TypeOK'
  BY TypeNext DEF ScanInv
<1>1. ASSUME NEW c \in Callers, RequestLicence(c) \/ CheckSubscription(c) \/ CheckQuota(c)
      PROVE  ScanInv'
  <2>1. UNCHANGED <<sub, member, at, todo, current, view, linked, edited>>
    BY <1>1 DEF RequestLicence, CheckSubscription, CheckQuota, scanVars
  <2> QED BY <1>0, <2>1, ScanUndisturbed
<1>2. ASSUME NEW c \in Callers, Assign(c) PROVE ScanInv'
  <2>1. UNCHANGED <<sub, at, todo, current, view, linked>>
    BY <1>2 DEF Assign, scanVars
  <2>2. CASE member[req[c].member].status = "absent"
    BY <1>0, <1>2, <2>1, <2>2, ScanUndisturbed DEF Assign
  <2>3. CASE member[req[c].member].status # "absent"
    <3>1. /\ member' = [member EXCEPT ![req[c].member] = License(@.status, req[c].licence)]
          /\ Touch(req[c].member)
      BY <1>2, <2>3 DEF Assign
    <3>2. \A m \in Members \ {req[c].member} : member'[m] = member[m]
      BY <1>0, <3>1 DEF TypeOK
    <3> QED BY <1>0, <2>1, <3>1, <3>2, ScanUndisturbed DEF Touch
  <2> QED BY <2>2, <2>3
<1>3. ASSUME NEW s \in Subs, UpdateSubscription(s) PROVE ScanInv'
  <2>1. UNCHANGED <<member, at, todo, current, view, linked>> /\ Touch(s)
    BY <1>3 DEF UpdateSubscription, scanVars
  <2>2. \A r \in Subs \ {s} : sub'[r] = sub[r]
    BY <1>0, <1>3 DEF UpdateSubscription, TypeOK
  <2> QED BY <1>0, <2>1, <2>2, ScanUndisturbed DEF Touch
<1>4. ASSUME NEW m \in Members, SetMemberStatus(m) \/ SetMembership(m) PROVE ScanInv'
  <2>1. UNCHANGED <<sub, at, todo, current, view, linked>> /\ Touch(m)
    BY <1>4 DEF SetMemberStatus, SetMembership, scanVars
  <2>2. \A n \in Members \ {m} : member'[n] = member[n]
    BY <1>0, <1>4 DEF SetMemberStatus, SetMembership, TypeOK
  <2> QED BY <1>0, <2>1, <2>2, ScanUndisturbed DEF Touch
<1>5. CASE Scan \/ Crash
  BY <1>0, <1>5, ScanSteps
<1>6. CASE TimePasses
  <2>1. UNCHANGED <<at, todo, current, view, linked, edited>>
    BY <1>6 DEF TimePasses, scanVars
  <2> QED BY <1>0, <1>6, <2>1, TimeKeepsEnds, ScanUndisturbed
<1>7. CASE UNCHANGED vars
  <2>1. UNCHANGED <<sub, member, at, todo, current, view, linked, edited>>
    BY <1>7 DEF vars, scanVars
  <2> QED BY <1>0, <2>1, ScanUndisturbed
<1> QED BY <1>1, <1>2, <1>3, <1>4, <1>5, <1>6, <1>7 DEF Next

\* What the scan takes away it read as due, and nobody has written the row since
\* unless it is among the edited ones.
LEMMA DowngradeEarned ==
    ScanInv /\ [Next]_vars =>
        \A m \in Members : Downgraded(m) => Due(m) \/ m \in edited \/ member[m].sub \in edited
<1> SUFFICES ASSUME ScanInv, [Next]_vars, NEW m \in Members, Downgraded(m),
                    m \notin edited, member[m].sub \notin edited
             PROVE  Due(m)
  OBVIOUS
<1>1. at' # at /\ member'[m] # member[m] /\ at \in {"downgrade", "lapse"}
  BY DEF Downgraded
<1>2. DowngradeLinked \/ DowngradeLicence
  BY <1>1 DEF Next, Scan, vars, scanVars, RequestLicence, CheckSubscription, CheckQuota, Assign,
     UpdateSubscription, SetMemberStatus, SetMembership, TimePasses, Crash, StartScan,
     ReadSubscription, ExpireSubscription, ReadLinkedLicences, FindEndedLicences, ReadLicence,
     ScanIsOver
<1>3. CASE DowngradeLinked
  <2>1. m \in linked /\ at = "downgrade"
    BY <1>1, <1>3 DEF DowngradeLinked
  <2>2. member[m].mode = "BILLABLE" /\ member[m].sub = current
    BY <2>1 DEF ScanInv, LinkedRead
  <2>3. Candidate(sub[current]) /\ GraceEnded(sub[current])
    BY <2>1, <2>2 DEF ScanInv, CurrentRead, GraceRead, AtSubscription
  <2> QED BY <2>2, <2>3 DEF Due, Lapsed, Candidate, GraceEnded
<1>4. CASE DowngradeLicence
  <2>1. m = current /\ at = "lapse"
    BY <1>1, <1>4 DEF DowngradeLicence, ScanInv, TypeOK
  <2> QED BY <2>1 DEF ScanInv, LicenceRead, HoldsTemporary, Due
<1> QED BY <1>2, <1>3, <1>4

\* A licence is taken away by the scan only when it is due, unless the membership
\* or its subscription was edited under the scan.
THEOREM DowngradesAreEarned == Spec => DowngradesEarned
<1>1. ScanInv /\ [Next]_vars =>
        [\A m \in Members :
           Downgraded(m) => Due(m) \/ m \in edited \/ member[m].sub \in edited]_vars
  BY DowngradeEarned
<1> QED BY <1>1, ScanInit, ScanNext, PTL DEF Spec, DowngradesEarned
===============================================================================
