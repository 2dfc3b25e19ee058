---------------------------- MODULE ListingProofs ----------------------------
(***************************************************************************)
(* Proofs about Listing and AuditFeed, for any finite number of alerts,    *)
(* any incidents, requests, tasks, filters and limits.                     *)
(*                                                                         *)
(* The readers change nothing they read, and a transaction is one of the   *)
(* workflow's: a behaviour of ListSpec or FeedSpec is one of the workflow, *)
(* and the invariant of CaseWorkflowProofs holds under it                  *)
(* (ReadersOnlyRead, FeedIsWork).  The rest is about what a reader has     *)
(* seen, list by list: the places of the alerts under a growing list, the  *)
(* incident of an alert that one creation named, and the audit rows of     *)
(* transactions that began in one order and committed in another.          *)
(***************************************************************************)
EXTENDS Listing, AuditFeed, CaseWorkflowProofs, FiniteSetTheorems

\* Every step is one of the workflow or leaves it alone.
LEMMA ListStepsAreWork == [ListNext]_listVars => [Next]_vars
BY DEF ListNext, Work, CountAlerts, ReadPage, ListIncidents, FillIncident, listVars

\* Whoever reads the lists, the workflow is that of CaseWorkflow: every
\* theorem about Spec holds of ListSpec.
THEOREM ReadersOnlyRead == ListSpec => Spec
<1>1. ListInit => Init
  BY DEF ListInit
<1> QED
  BY <1>1, ListStepsAreWork, PTL DEF ListSpec, Spec

\* The two kinds of reader are told apart by their list.
LEMMA ReaderKinds ==
  ASSUME ListTypeOK
  PROVE  /\ reader.list = "alerts" <=> reader \in PagerRecord
         /\ reader.list = "incidents" <=> reader \in ListerRecord
         /\ reader.list \in {"alerts", "incidents"}
BY DEF ListTypeOK, PagerRecord, ListerRecord

-----------------------------------------------------------------------------
(* Places in a list of alerts.                                             *)

\* A list of alerts is finite, and an alert's place in it is one of those
\* below its length.
LEMMA Places ==
  ASSUME NEW f
  PROVE  /\ IsFiniteSet(Matching(f))
         /\ Cardinality(Matching(f)) \in 0..Cardinality(AlertIds)
         /\ \A a \in AlertIds : Place(f, a) \in Nat
         /\ \A a \in Matching(f) : Place(f, a) < Cardinality(Matching(f))
<1>1. IsFiniteSet(AlertIds) /\ Rank \in [AlertIds -> Nat]
  BY ListConstants
<1>2. Matching(f) \in SUBSET AlertIds
  BY DEF Matching, MatchingIn
<1>3. /\ IsFiniteSet(Matching(f))
      /\ Cardinality(Matching(f)) \in Nat
      /\ Cardinality(AlertIds) \in Nat
      /\ Cardinality(Matching(f)) <= Cardinality(AlertIds)
  BY <1>1, <1>2, FS_Subset, FS_CardinalityType
<1>4. ASSUME NEW a \in AlertIds
      PROVE  /\ Place(f, a) \in Nat
             /\ a \in Matching(f) => Place(f, a) < Cardinality(Matching(f))
  <2> DEFINE B == {b \in Matching(f) : Rank[b] < Rank[a]}
  <2>1. B \in SUBSET Matching(f)
    OBVIOUS
  <2>2. /\ IsFiniteSet(B) /\ Cardinality(B) \in Nat
        /\ Cardinality(B) <= Cardinality(Matching(f))
        /\ Cardinality(Matching(f)) = Cardinality(B) => Matching(f) = B
    BY <1>3, <2>1, FS_Subset, FS_CardinalityType
  <2>3. a \notin B
    <3>1. Rank[a] \in Nat /\ ~(Rank[a] < Rank[a])
      BY <1>1, <1>4
    <3> QED
      BY <3>1
  <2>4. a \in Matching(f) => Cardinality(B) < Cardinality(Matching(f))
    BY <1>3, <2>2, <2>3
  <2> QED
    BY <2>2, <2>4 DEF Place
<1> QED
  BY <1>2, <1>3, <1>4

\* A list that grows moves an alert to later places only.
LEMMA PlacesOnlyGrow ==
  ASSUME NEW f, Matching(f) \subseteq MatchingIn(status', f), NEW a \in AlertIds
  PROVE  /\ Place(f, a) \in Nat /\ Place(f, a)' \in Nat
         /\ Place(f, a)' >= Place(f, a)
<1> DEFINE B == {b \in Matching(f) : Rank[b] < Rank[a]}
           C == {b \in MatchingIn(status', f) : Rank[b] < Rank[a]}
<1>1. Place(f, a) = Cardinality(B) /\ Place(f, a)' = Cardinality(C)
  BY DEF Place, Matching
<1>2. C \in SUBSET AlertIds /\ B \in SUBSET C
  BY DEF MatchingIn
<1>3. IsFiniteSet(C)
  BY <1>2, ListConstants, FS_Subset
<1>4. IsFiniteSet(B) /\ Cardinality(B) <= Cardinality(C)
  BY <1>2, <1>3, FS_Subset
<1> QED
  BY <1>1, <1>3, <1>4, FS_CardinalityType

-----------------------------------------------------------------------------
(* The steps of the workflow, as a reader sees them.                       *)

\* One row is committed, and the links it names with it.
Grew ==
  \E e \in AuditRecord, n \in Nat :
    /\ audit' = Append(audit, e)
    /\ seen' = Append(seen, n)
    /\ \A a \in AlertIds : link'[a] = IF a \in e.alerts THEN e.resource ELSE link[a]
    /\ e.alerts # {} => e.resource \in IncidentIds /\ Exists(e.resource)'

LEMMA WorkOutcome ==
  ASSUME IInv, Next
  PROVE  /\ UNCHANGED <<audit, seen, link>> \/ Grew
         /\ \A x \in Resources : Exists(x) => Exists(x)'
<1>0. /\ TypeOK /\ RequestsRemember
      /\ Len(audit) \in Nat
      /\ AlertIds \subseteq Resources /\ IncidentIds \subseteq Resources
      /\ AlertIds \intersect IncidentIds = {}
      /\ {"new", "open", Absent} \subseteq Statuses /\ "new" # Absent /\ "open" # Absent
      /\ \A x : StatusesOf(x) \subseteq Statuses \ {Absent}
  BY DisjointIds DEF IInv, TypeOK, Resources, Statuses, StatusesOf, AlertStatus,
     IncidentStatus, Absent
<1>1. ASSUME NEW a \in AlertIds, CreateAlert(a)
      PROVE  Grew /\ \A x \in Resources : Exists(x) => Exists(x)'
  <2> DEFINE e == [resource |-> a, from |-> Absent, to |-> "new", alerts |-> {}]
  <2>1. /\ audit' = Append(audit, e) /\ seen' = Append(seen, Len(audit))
        /\ link' = link /\ status' = [status EXCEPT ![a] = "new"]
    BY <1>1 DEF CreateAlert, Record
  <2>2. e \in AuditRecord /\ e.alerts = {}
    BY <1>0 DEF AuditRecord
  <2>3. Grew
    BY <1>0, <2>1, <2>2 DEF Grew
  <2> QED
    BY <1>0, <2>1, <2>3 DEF Exists, TypeOK
<1>2. ASSUME NEW r \in Requests, CommitStatus(r)
      PROVE  Grew /\ \A x \in Resources : Exists(x) => Exists(x)'
  <2> DEFINE q == req[r]
             e == [resource |-> q.resource, from |-> q.loaded, to |-> q.asked,
                   alerts |-> {}]
  <2>1. /\ q.pc = "loaded"
        /\ audit' = Append(audit, e) /\ seen' = Append(seen, q.seen)
        /\ link' = link
        /\ status' = [status EXCEPT ![q.resource] =
                        Flushed(status[q.resource], q.loaded, q.asked)]
    BY <1>2 DEF CommitStatus, Record
  <2>2. /\ q.seen \in Nat /\ q.resource \in Resources
        /\ q.loaded \in Statuses \ {Absent} /\ q.asked \in Statuses \ {Absent}
    BY <1>0, <2>1 DEF RequestsRemember, TypeOK, RequestRecord
  <2>3. e \in AuditRecord /\ e.alerts = {}
    BY <2>2 DEF AuditRecord
  <2>4. Grew
    BY <2>1, <2>2, <2>3 DEF Grew
  <2>5. ASSUME NEW x \in Resources, Exists(x) PROVE Exists(x)'
    BY <1>0, <2>1, <2>2, <2>5 DEF Exists, TypeOK, Flushed
  <2> QED
    BY <2>4, <2>5
<1>3. ASSUME NEW r \in Requests, NEW i \in IncidentIds, CommitIncident(r, i)
      PROVE  Grew /\ \A x \in Resources : Exists(x) => Exists(x)'
  <2> DEFINE S == req[r].alerts
             e == [resource |-> i, from |-> Absent, to |-> "open", alerts |-> S]
  <2>1. /\ audit' = Append(audit, e) /\ seen' = Append(seen, req[r].seen)
        /\ link' = [a \in AlertIds |-> IF a \in S THEN i ELSE link[a]]
        /\ status' = [status EXCEPT ![i] = "open"]
    BY <1>3 DEF CommitIncident, Record, Linked
  <2>2. req[r].seen \in Nat /\ S \in SUBSET AlertIds
    BY <1>0 DEF TypeOK, RequestRecord
  <2>3. e \in AuditRecord /\ e.alerts = S /\ e.resource = i
    BY <1>0, <2>2 DEF AuditRecord
  <2>4. Exists(i)' /\ \A x \in Resources : Exists(x) => Exists(x)'
    BY <1>0, <2>1 DEF Exists, TypeOK
  <2>5. Grew
    BY <2>1, <2>2, <2>3, <2>4 DEF Grew
  <2> QED
    BY <2>4, <2>5
<1>4. ASSUME NEW r \in Requests,
             \/ \E x \in Resources, t \in AskedOfAlerts \union AskedOfIncidents :
                  LoadForStatus(r, x, t)
             \/ \E S \in SUBSET AlertIds : SelectAlerts(r, S)
             \/ Abort(r)
      PROVE  UNCHANGED <<status, link, audit, seen>>
  BY <1>4 DEF LoadForStatus, SelectAlerts, Abort
<1> QED
  BY <1>1, <1>2, <1>3, <1>4 DEF Next, Exists

-----------------------------------------------------------------------------
(* The invariant, reader by reader.                                        *)

PagerInv ==
  /\ reader \in PagerRecord
  /\ reader.pc = "count" /\ reader.offset # 0 => reader.offset \in 1..(reader.total - 1)
  /\ WalkOnTrack
  /\ PagesMissNothingUndisturbed

ListerInv ==
  /\ reader \in ListerRecord
  /\ ShownWhereLinked

\* The invariant is one statement for each kind of reader.
LEMMA IInvByReader ==
  ListIInv <=> LinksLeadToIncidents /\ (PagerInv \/ ListerInv)
<1>1. CASE reader.list = "alerts"
  BY <1>1 DEF ListIInv, ListTypeOK, ShownWhereLinked,
     PagerInv, ListerInv, PagerRecord, ListerRecord
<1>2. CASE reader.list = "incidents"
  BY <1>2 DEF ListIInv, ListTypeOK, WalkOnTrack, PagesMissNothingUndisturbed,
     PagerInv, ListerInv, PagerRecord, ListerRecord
<1>3. CASE reader.list \notin {"alerts", "incidents"}
  BY <1>3 DEF ListIInv, ListTypeOK, PagerInv, ListerInv, PagerRecord, ListerRecord
<1> QED
  BY <1>1, <1>2, <1>3

\* Initially nothing has been read.
LEMMA InitListIInv == ListInit => ListIInv
<1> SUFFICES ASSUME ListInit
             PROVE  LinksLeadToIncidents /\ (PagerInv \/ ListerInv)
  BY IInvByReader
<1>1. LinksLeadToIncidents
  BY DEF ListInit, Init, LinksLeadToIncidents
<1>2. ASSUME NEW f \in Filters, reader = Pager(f) PROVE PagerInv
  <2>1. Cardinality(AlertIds) \in Nat
    BY ListConstants, FS_CardinalityType
  <2>2. reader \in PagerRecord
    BY <1>2, <2>1 DEF Pager, PagerRecord
  <2> QED
    BY <1>2, <2>2 DEF PagerInv, WalkOnTrack, PagesMissNothingUndisturbed, Pager
<1>3. ASSUME reader = Lister PROVE ListerInv
  BY <1>3 DEF Lister, ListerInv, ListerRecord, ShownWhereLinked
<1> QED
  BY <1>1, <1>2, <1>3 DEF ListInit

\* An incident, once created, stays.
LEMMA LinksStay ==
  ASSUME IInv, LinksLeadToIncidents, [Next]_vars
  PROVE  LinksLeadToIncidents'
<1>1. link \in [AlertIds -> IncidentIds \union {NoIncident}]
  BY DEF IInv, TypeOK
<1>2. IncidentIds \subseteq Resources
  BY DEF Resources
<1>3. CASE UNCHANGED vars
  BY <1>3 DEF vars, LinksLeadToIncidents, Exists
<1>4. CASE Next
  <2>1. /\ UNCHANGED <<audit, seen, link>> \/ Grew
        /\ \A x \in Resources : Exists(x) => Exists(x)'
    BY <1>4, WorkOutcome
  <2>2. ASSUME NEW a \in AlertIds, link'[a] = link[a], link[a] # NoIncident
        PROVE  status'[link'[a]] # Absent
    BY <1>1, <1>2, <2>1, <2>2 DEF LinksLeadToIncidents, Exists
  <2>3. CASE UNCHANGED <<audit, seen, link>>
    BY <2>2, <2>3 DEF LinksLeadToIncidents, Exists
  <2>4. CASE Grew
    BY <2>2, <2>4 DEF Grew, LinksLeadToIncidents, Exists
  <2> QED
    BY <2>1, <2>3, <2>4
<1> QED
  BY <1>3, <1>4

-----------------------------------------------------------------------------
(* GET /alerts.                                                            *)

\* An undisturbed walk stays on track while the list grows.
LEMMA PagerUnderWork ==
  ASSUME PagerInv, Work
  PROVE  PagerInv'
<1> DEFINE f == reader.filter
<1>1. reader \in PagerRecord /\ reader.list = "alerts"
  BY DEF PagerInv, PagerRecord
<1>2. CASE reader.pc # "done" /\ Disturbs(f, status')
  <2>1. reader' = [reader EXCEPT !.disturbed = TRUE]
    BY <1>1, <1>2 DEF Work
  <2>2. /\ reader' \in PagerRecord /\ reader'.disturbed
        /\ reader'.pc = reader.pc /\ reader'.offset = reader.offset
        /\ reader'.total = reader.total
    BY <1>1, <2>1 DEF PagerRecord
  <2> QED
    BY <2>2 DEF PagerInv, WalkOnTrack, PagesMissNothingUndisturbed
<1>3. CASE ~(reader.pc # "done" /\ Disturbs(f, status'))
  <2>1. reader' = reader
    BY <1>1, <1>3 DEF Work
  <2>2. CASE reader.pc = "done" \/ reader.disturbed
    BY <1>1, <2>1, <2>2 DEF PagerInv, WalkOnTrack, PagesMissNothingUndisturbed
  <2>3. CASE reader.pc # "done" /\ ~reader.disturbed
    <3>1. /\ Matching(f) \subseteq MatchingIn(status', f)
          /\ reader.pc = "page" => MatchingIn(status', f) = Matching(f)
      BY <1>3, <2>3 DEF Disturbs
    <3>2. /\ reader.start \subseteq Matching(f)
          /\ \A a \in reader.start \ reader.got : Place(f, a) >= reader.offset
          /\ reader.pc = "page" => reader.total = Cardinality(Matching(f))
      BY <1>1, <2>3 DEF PagerInv, WalkOnTrack
    <3>3. ASSUME NEW a \in reader.start \ reader.got
          PROVE  Place(f, a)' >= reader.offset
      <4>1. a \in AlertIds /\ reader.offset \in Nat
        BY <1>1 DEF PagerRecord
      <4>2. ASSUME NEW g, Matching(g) \subseteq MatchingIn(status', g)
            PROVE  /\ Place(g, a) \in Nat /\ Place(g, a)' \in Nat
                   /\ Place(g, a)' >= Place(g, a)
        BY <4>1, <4>2, PlacesOnlyGrow
      <4> QED
        BY <2>1, <3>1, <3>2, <4>1, <4>2
    <3>4. Matching(f)' = MatchingIn(status', f)
      BY <2>1 DEF Matching
    <3>5. WalkOnTrack'
      BY <2>1, <3>1, <3>2, <3>3, <3>4 DEF WalkOnTrack
    <3> QED
      BY <1>1, <2>1, <2>3, <3>5 DEF PagerInv, PagesMissNothingUndisturbed
  <2> QED
    BY <2>2, <2>3
<1> QED
  BY <1>2, <1>3

\* The count sets out on the list as it is.
LEMMA CountAlertsStep ==
  ASSUME PagerInv, CountAlerts
  PROVE  PagerInv'
<1>0. PICK f : f = reader.filter
  OBVIOUS
<1> DEFINE M == Matching(f)
<1>1. /\ reader \in PagerRecord /\ reader.list = "alerts" /\ reader.pc = "count"
      /\ reader.start \subseteq AlertIds /\ reader.offset \in Nat
  BY DEF PagerInv, PagerRecord, CountAlerts
<1>2. /\ M \subseteq AlertIds /\ Cardinality(M) \in 0..Cardinality(AlertIds)
      /\ \A a \in AlertIds : Place(f, a) \in Nat
  BY Places DEF Matching, MatchingIn
<1>3. reader' = [reader EXCEPT !.pc = "page", !.total = Cardinality(M),
                               !.start = IF reader.offset = 0 THEN M ELSE @]
  BY <1>0 DEF CountAlerts, Total
<1>4. /\ reader' \in PagerRecord /\ reader'.pc = "page" /\ reader'.filter = f
      /\ reader'.offset = reader.offset /\ reader'.total = Cardinality(M)
      /\ reader'.got = reader.got /\ reader'.disturbed = reader.disturbed
      /\ reader'.start = IF reader.offset = 0 THEN M ELSE reader.start
  BY <1>0, <1>1, <1>2, <1>3 DEF PagerRecord
<1>5. status' = status
  BY DEF CountAlerts, vars
<1>6. Matching(f)' = M /\ \A a : Place(f, a)' = Place(f, a)
  BY <1>5 DEF Matching, MatchingIn, Place
<1>7. ~reader.disturbed =>
        /\ reader'.start \subseteq M
        /\ \A a \in reader'.start \ reader.got : Place(f, a) >= reader.offset
  BY <1>0, <1>1, <1>2, <1>4 DEF PagerInv, WalkOnTrack
<1>8. WalkOnTrack'
  BY <1>4, <1>6, <1>7 DEF WalkOnTrack
<1> QED
  BY <1>4, <1>8 DEF PagerInv, PagesMissNothingUndisturbed

\* The page brings what lies in it; what lies behind it is ahead of the next
\* offset, and nothing lies behind the last one.
LEMMA ReadPageStep ==
  ASSUME PagerInv, ReadPage
  PROVE  PagerInv'
<1>0. PICK f : f = reader.filter
  OBVIOUS
<1> DEFINE M == Matching(f)
           next == reader.offset + PageLimit
           P == PageOf(f, reader.offset)
<1>1. /\ reader \in PagerRecord /\ reader.list = "alerts" /\ reader.pc = "page"
      /\ reader.start \subseteq AlertIds /\ reader.got \subseteq AlertIds
      /\ reader.offset \in Nat /\ reader.total \in Nat
      /\ PageLimit \in Nat \ {0}
  BY Places, ListConstants DEF PagerInv, PagerRecord, ReadPage
<1>2. /\ M \subseteq AlertIds /\ P \subseteq M
      /\ Cardinality(M) \in Nat
      /\ \A a \in M : Place(f, a) \in Nat /\ Place(f, a) < Cardinality(M)
  <2>1. M \subseteq AlertIds /\ P \subseteq M
    BY DEF Matching, MatchingIn, PageOf
  <2>2. /\ Cardinality(M) \in 0..Cardinality(AlertIds)
        /\ \A a \in AlertIds : Place(f, a) \in Nat
        /\ \A a \in M : Place(f, a) < Cardinality(M)
    BY Places
  <2>3. Cardinality(AlertIds) \in Nat
    BY ListConstants, FS_CardinalityType
  <2> HIDE DEF M, P
  <2> QED
    BY <2>1, <2>2, <2>3
<1>3. reader' = [reader EXCEPT !.got = @ \union P,
                               !.pc = IF next < reader.total THEN "count" ELSE "done",
                               !.offset = IF next < reader.total THEN next ELSE @]
  BY <1>0 DEF ReadPage, PagesLeft
<1> DEFINE pc == IF next < reader.total THEN "count" ELSE "done"
           offset == IF next < reader.total THEN next ELSE reader.offset
<1>3a. /\ pc \in {"count", "page", "done"} /\ offset \in Nat
       /\ reader.got \union P \in SUBSET AlertIds
  BY <1>1, <1>2
<1>4. /\ reader' \in PagerRecord /\ reader'.filter = f
      /\ reader'.pc = pc /\ reader'.offset = offset
      /\ reader'.got = reader.got \union P
      /\ reader'.start = reader.start /\ reader'.total = reader.total
      /\ reader'.disturbed = reader.disturbed
  <2> HIDE DEF pc, offset, P
  <2>1. reader' = [reader EXCEPT !.got = reader.got \union P, !.pc = pc, !.offset = offset]
    BY <1>3 DEF pc, offset
  <2> QED
    BY <1>0, <1>1, <1>3a, <2>1 DEF PagerRecord
<1>5. status' = status
  BY DEF ReadPage, vars
<1>6. Matching(f)' = M /\ \A a : Place(f, a)' = Place(f, a)
  BY <1>5 DEF Matching, MatchingIn, Place
<1>7. ASSUME ~reader.disturbed
      PROVE  /\ reader.start \subseteq M
             /\ reader.total = Cardinality(M)
             /\ \A a \in reader.start \ (reader.got \union P) : Place(f, a) >= next
  <2>1. /\ reader.start \subseteq M
        /\ reader.total = Cardinality(M)
        /\ \A a \in reader.start \ reader.got : Place(f, a) >= reader.offset
    BY <1>0, <1>1, <1>7 DEF PagerInv, WalkOnTrack
  <2>2. ASSUME NEW a \in reader.start \ (reader.got \union P)
        PROVE  Place(f, a) >= next
    <3>1. /\ a \in M /\ Place(f, a) \in Nat /\ Place(f, a) >= reader.offset
          /\ Place(f, a) \notin reader.offset .. (reader.offset + PageLimit - 1)
      BY <1>2, <2>1, <2>2 DEF PageOf
    <3> QED
      BY <1>1, <3>1
  <2> QED
    BY <2>1, <2>2
<1>8. WalkOnTrack'
  BY <1>4, <1>6, <1>7 DEF WalkOnTrack
<1>9. PagesMissNothingUndisturbed'
  <2> SUFFICES ASSUME reader'.pc = "done", ~reader'.disturbed
               PROVE  reader'.start \subseteq reader'.got
    BY DEF PagesMissNothingUndisturbed
  <2>1. next >= Cardinality(M)
    BY <1>1, <1>4, <1>7
  <2>2. \A a \in reader.start : a \in reader.got \union P
    BY <1>1, <1>2, <1>4, <1>7, <2>1
  <2> QED
    BY <1>4, <2>2
<1>10. reader'.pc = "count" /\ reader'.offset # 0 => reader'.offset \in 1..(reader'.total - 1)
  BY <1>1, <1>4
<1> QED
  BY <1>4, <1>8, <1>9, <1>10 DEF PagerInv


-----------------------------------------------------------------------------
(* GET /incidents.                                                         *)

\* A linked alert has been named by a creation.
LEMMA LinkedIsNamed ==
  ASSUME IInv, NEW a \in AlertIds
  PROVE  /\ IsFiniteSet(Naming(a)) /\ Cardinality(Naming(a)) \in Nat
         /\ link[a] # NoIncident => Cardinality(Naming(a)) > 0
<1>1. audit \in Seq(AuditRecord) /\ LinkAfter(audit, Len(audit), a, link[a])
  BY DEF IInv, TypeOK, AuditExplainsLinks
<1>2. DOMAIN audit = 1..Len(audit) /\ Len(audit) \in Nat
  BY <1>1
<1>3. IsFiniteSet(Naming(a)) /\ Cardinality(Naming(a)) \in Nat
  <2>1. IsFiniteSet(1..Len(audit)) /\ Naming(a) \in SUBSET (1..Len(audit))
    BY <1>2, FS_Interval DEF Naming
  <2> QED
    BY <2>1, FS_Subset, FS_CardinalityType
<1>4. ASSUME link[a] # NoIncident PROVE Naming(a) # {}
  BY <1>1, <1>2, <1>4 DEF LinkAfter, Naming
<1> QED
  BY <1>3, <1>4, FS_EmptySet

\* A row that names an alert adds itself to those that do.
LEMMA NamingGrows ==
  ASSUME IInv, NEW e \in AuditRecord, audit' = Append(audit, e), NEW a \in AlertIds
  PROVE  Cardinality(Naming(a))' =
           IF a \in e.alerts THEN Cardinality(Naming(a)) + 1 ELSE Cardinality(Naming(a))
<1> DEFINE N == Len(audit) + 1
<1>1. audit \in Seq(AuditRecord)
  BY DEF IInv, TypeOK
<1>2. /\ DOMAIN audit = 1..Len(audit) /\ DOMAIN audit' = 1..N /\ Len(audit) \in Nat
      /\ \A m \in 1..Len(audit) : audit'[m] = audit[m]
      /\ audit'[N] = e
  BY <1>1, AppendFacts
<1>3. IsFiniteSet(Naming(a)) /\ N \notin Naming(a)
  BY <1>2, LinkedIsNamed DEF Naming
<1>4. CASE a \in e.alerts
  <2>1. Naming(a)' = Naming(a) \union {N}
    BY <1>2, <1>4 DEF Naming
  <2> QED
    BY <1>3, <1>4, <2>1, FS_AddElement
<1>5. CASE a \notin e.alerts
  <2>1. Naming(a)' = Naming(a)
    BY <1>2, <1>5 DEF Naming
  <2> QED
    BY <1>5, <2>1
<1> QED
  BY <1>4, <1>5

\* A creation that takes a listed alert is the second to name it.
LEMMA ListerUnderWork ==
  ASSUME IInv, ListerInv, Work
  PROVE  ListerInv'
<1>1. /\ reader \in ListerRecord /\ reader.list = "incidents" /\ reader' = reader
      /\ reader.start \subseteq AlertIds
  BY DEF ListerInv, ListerRecord, Work
<1>2. UNCHANGED <<audit, seen, link>> \/ Grew
  BY WorkOutcome DEF Work
<1>3. CASE UNCHANGED <<audit, seen, link>>
  BY <1>1, <1>3 DEF ListerInv, ShownWhereLinked, Naming
<1>4. CASE Grew
  <2>1. PICK e \in AuditRecord :
          /\ audit' = Append(audit, e)
          /\ \A a \in AlertIds :
               link'[a] = IF a \in e.alerts THEN e.resource ELSE link[a]
          /\ e.alerts # {} => e.resource \in IncidentIds
    BY <1>4 DEF Grew
  <2>2. ASSUME NEW a \in reader.start, reader.pc = "fill"
        PROVE  /\ link'[a] # NoIncident
               /\ Cardinality(Naming(a))' = 1 =>
                    \A i \in IncidentIds :
                      <<a, i>> \in reader.shown <=> link'[a] = i /\ i \notin reader.todo
    <3>1. /\ a \in AlertIds /\ link[a] # NoIncident
          /\ Cardinality(Naming(a)) \in Nat /\ Cardinality(Naming(a)) > 0
          /\ Cardinality(Naming(a)) = 1 =>
               \A i \in IncidentIds :
                 <<a, i>> \in reader.shown <=> link[a] = i /\ i \notin reader.todo
      BY <1>1, <2>2, LinkedIsNamed DEF ListerInv, ShownWhereLinked
    <3>2. Cardinality(Naming(a))' =
            IF a \in e.alerts THEN Cardinality(Naming(a)) + 1 ELSE Cardinality(Naming(a))
      BY <2>1, <3>1, NamingGrows
    <3>3. CASE a \in e.alerts
      <4>1. link'[a] \in IncidentIds /\ NoIncident \notin IncidentIds
        BY <2>1, <3>1, <3>3, DisjointIds DEF Resources
      <4> QED
        BY <3>1, <3>2, <3>3, <4>1
    <3>4. CASE a \notin e.alerts
      BY <2>1, <3>1, <3>2, <3>4
    <3> QED
      BY <3>3, <3>4
  <2> QED
    BY <1>1, <2>2 DEF ListerInv, ShownWhereLinked
<1> QED
  BY <1>2, <1>3, <1>4

\* The list holds the incidents of all the alerts that are grouped.
LEMMA ListIncidentsStep ==
  ASSUME IInv, LinksLeadToIncidents, ListerInv, ListIncidents
  PROVE  ListerInv'
<1> DEFINE todo == {i \in IncidentIds : Exists(i)}
           start == {a \in AlertIds : link[a] # NoIncident}
<1>1. /\ reader \in ListerRecord /\ reader.pc = "list" /\ reader.shown = {}
      /\ link' = link
  BY DEF ListerInv, ListerRecord, ShownWhereLinked, ListIncidents, vars
<1>2. reader' = [reader EXCEPT !.pc = "fill", !.todo = todo, !.start = start]
  BY DEF ListIncidents
<1>3. todo \in SUBSET IncidentIds /\ start \in SUBSET AlertIds
  OBVIOUS
<1>4. \A a \in start : link[a] \in todo /\ link[a] # NoIncident
  BY DEF LinksLeadToIncidents, IInv, TypeOK
<1> HIDE DEF todo, start
<1>5. /\ reader' \in ListerRecord /\ reader'.pc = "fill" /\ reader'.todo = todo
      /\ reader'.start = start /\ reader'.shown = {}
  BY <1>1, <1>2, <1>3 DEF ListerRecord
<1>6. ShownWhereLinked'
  BY <1>1, <1>4, <1>5 DEF ShownWhereLinked
<1> QED
  BY <1>5, <1>6 DEF ListerInv

\* The alerts of one more incident are shown where they are linked.
LEMMA FillIncidentStep ==
  ASSUME ListerInv, NEW i \in IncidentIds, FillIncident(i)
  PROVE  ListerInv'
<1> DEFINE todo == reader.todo \ {i}
           shown == reader.shown \union (AlertIdsOf(i) \X {i})
<1>1. /\ reader \in ListerRecord /\ reader.list = "incidents" /\ reader.pc = "fill"
      /\ link' = link /\ audit' = audit
      /\ reader.start \subseteq AlertIds
  BY DEF ListerInv, ListerRecord, FillIncident, vars
<1>2. reader' = [reader EXCEPT !.todo = todo, !.shown = shown]
  BY DEF FillIncident
<1>3. todo \in SUBSET IncidentIds /\ shown \in SUBSET (AlertIds \X IncidentIds)
  BY <1>1 DEF ListerRecord, AlertIdsOf
<1>4. \A a \in AlertIds, j \in IncidentIds :
        /\ <<a, j>> \in shown <=> <<a, j>> \in reader.shown \/ (j = i /\ link[a] = i)
        /\ j \notin todo <=> j \notin reader.todo \/ j = i
  BY DEF AlertIdsOf
<1> HIDE DEF todo, shown
<1>5. /\ reader' \in ListerRecord /\ reader'.pc = "fill" /\ reader'.todo = todo
      /\ reader'.start = reader.start /\ reader'.shown = shown
  BY <1>1, <1>2, <1>3 DEF ListerRecord
<1>6. \A a : Naming(a)' = Naming(a)
  BY <1>1 DEF Naming
<1>7. ASSUME NEW a \in reader.start
      PROVE  /\ link[a] # NoIncident
             /\ Cardinality(Naming(a)) = 1 =>
                  \A j \in IncidentIds : <<a, j>> \in shown <=> link[a] = j /\ j \notin todo
  BY <1>1, <1>4, <1>7 DEF ListerInv, ShownWhereLinked
<1>8. ShownWhereLinked'
  BY <1>1, <1>5, <1>6, <1>7 DEF ShownWhereLinked
<1> QED
  BY <1>5, <1>8 DEF ListerInv

-----------------------------------------------------------------------------
(* The theorems.                                                           *)

\* Every step keeps the invariant.
LEMMA StepListIInv == IInv /\ ListIInv /\ [ListNext]_listVars => ListIInv'
<1> SUFFICES ASSUME IInv, LinksLeadToIncidents, PagerInv \/ ListerInv,
                    [ListNext]_listVars
             PROVE  ListIInv'
  BY IInvByReader
<1>0. /\ PagerInv => reader.list = "alerts"
      /\ ListerInv => reader.list = "incidents"
  BY DEF PagerInv, ListerInv, PagerRecord, ListerRecord
<1>1. LinksLeadToIncidents'
  BY ListStepsAreWork, LinksStay
<1>2. PagerInv' \/ ListerInv'
  <2>1. CASE Work
    BY <2>1, PagerUnderWork, ListerUnderWork
  <2>2. CASE CountAlerts
    BY <1>0, <2>2, CountAlertsStep DEF CountAlerts
  <2>3. CASE ReadPage
    BY <1>0, <2>3, ReadPageStep DEF ReadPage
  <2>4. CASE ListIncidents
    BY <1>0, <2>4, ListIncidentsStep DEF ListIncidents
  <2>5. ASSUME NEW i \in IncidentIds, FillIncident(i)
        PROVE  PagerInv' \/ ListerInv'
    BY <1>0, <2>5, FillIncidentStep DEF FillIncident
  <2>6. CASE UNCHANGED listVars
    <3>1. PagerInv => PagerInv'
      BY <2>6 DEF listVars, vars, PagerInv, WalkOnTrack, PagesMissNothingUndisturbed,
         Place, Matching, MatchingIn
    <3>2. ListerInv => ListerInv'
      BY <2>6 DEF listVars, vars, ListerInv, ShownWhereLinked, Naming
    <3> QED
      BY <3>1, <3>2
  <2> QED
    BY <2>1, <2>2, <2>3, <2>4, <2>5, <2>6 DEF ListNext
<1>3. (LinksLeadToIncidents /\ (PagerInv \/ ListerInv) => ListIInv)'
  BY IInvByReader, PTL
<1> QED
  BY <1>1, <1>2, <1>3

\* The invariant holds in every state, whichever list is read.
THEOREM ListInvariance == ListSpec => []ListIInv
BY InitListIInv, StepListIInv, ReadersOnlyRead, Invariance, PTL DEF ListSpec

\* No client asks for a page after the total it was told (list_alerts).
THEOREM ListTypeCorrect == ListSpec => []ListTypeOK
<1>1. ListIInv => ListTypeOK
  BY DEF ListIInv
<1> QED
  BY <1>1, ListInvariance, PTL

\* An undisturbed walk through the pages misses no alert that was there when
\* it began, whatever is inserted meanwhile and wherever it sorts.
THEOREM WalksMissNothing == ListSpec => []PagesMissNothingUndisturbed
<1>1. ListIInv => PagesMissNothingUndisturbed
  BY DEF ListIInv
<1> QED
  BY <1>1, ListInvariance, PTL

\* A complete listing shows an alert that was grouped when it began under
\* exactly one incident, unless two creations named it.
THEOREM ListingsShowOnce == ListSpec => []ListingShowsGroupedOnce
<1>1. IInv /\ ListIInv => ListingShowsGroupedOnce
  <2> SUFFICES ASSUME IInv, ListIInv, reader.list = "incidents", reader.pc = "fill",
                      reader.todo = {}, NEW a \in reader.start, Cardinality(Naming(a)) = 1
               PROVE  Cardinality({i \in IncidentIds : <<a, i>> \in reader.shown}) = 1
    BY DEF ListingShowsGroupedOnce
  <2>1. a \in AlertIds
    BY ReaderKinds DEF ListIInv, ListerRecord
  <2>2. /\ link[a] # NoIncident
        /\ \A i \in IncidentIds : <<a, i>> \in reader.shown <=> link[a] = i
    BY DEF ListIInv, ShownWhereLinked
  <2>3. link[a] \in IncidentIds
    BY <2>1, <2>2 DEF IInv, TypeOK
  <2>4. {i \in IncidentIds : <<a, i>> \in reader.shown} = {link[a]}
    BY <2>2, <2>3
  <2> QED
    BY <2>4, FS_Singleton
<1> QED
  BY <1>1, ListInvariance, ReadersOnlyRead, Invariance, PTL

-----------------------------------------------------------------------------
(* GET /audit-events.                                                      *)

\* Every step of the feed is one of the workflow or leaves it alone.
LEMMA FeedStepsAreWork == [FeedNext]_feedVars => [Next]_vars
<1> SUFFICES ASSUME [FeedNext]_feedVars PROVE [Next]_vars
  OBVIOUS
<1>1. ASSUME NEW w, NEW S, Begin(w, S) PROVE UNCHANGED vars
  BY <1>1 DEF Begin
<1>2. ASSUME NEW r \in Requests, LoadNamed(r) PROVE Next
  <2>1. CASE \E x \in Resources, t \in AskedOfAlerts \union AskedOfIncidents :
               tx[r].names = {x} /\ LoadForStatus(r, x, t)
    BY <2>1 DEF Next
  <2>2. CASE tx[r].names \subseteq AlertIds /\ SelectAlerts(r, tx[r].names)
    BY <2>2 DEF Next
  <2> QED
    BY <1>2, <2>1, <2>2 DEF LoadNamed
<1>3. ASSUME NEW r \in Requests, PublishStatus(r) PROVE Next
  BY <1>3 DEF PublishStatus, Next
<1>4. ASSUME NEW r \in Requests, NEW i \in IncidentIds, PublishIncident(r, i) PROVE Next
  BY <1>4 DEF PublishIncident, Next
<1>5. ASSUME NEW a \in AlertIds, PublishAlert(a) PROVE Next
  BY <1>5 DEF PublishAlert, Next
<1>6. ASSUME NEW w \in Writers, Rollback(w) PROVE Next \/ UNCHANGED vars
  BY <1>6 DEF Rollback, Next
<1> QED
  BY <1>1, <1>2, <1>3, <1>4, <1>5, <1>6 DEF FeedNext, Authorize, Deliver,
     BeginAnalysis, PublishAnalysis, Poll, feedVars

\* However the transactions begin and whoever polls, the workflow is that of
\* CaseWorkflow: every theorem about Spec holds of FeedSpec.
THEOREM FeedIsWork == FeedSpec => Spec
<1>1. FeedInit => Init
  BY DEF FeedInit
<1> QED
  BY <1>1, FeedStepsAreWork, PTL DEF FeedSpec, Spec

\* What a step may assume.
LEMMA FeedFacts ==
  ASSUME IInv, FeedIInv
  PROVE  /\ feed \in Seq(FeedRecord) /\ Len(feed) \in Nat /\ DOMAIN feed = 1..Len(feed)
         /\ audit \in Seq(AuditRecord) /\ Len(audit) \in Nat
         /\ DOMAIN audit = 1..Len(audit)
         /\ seen \in Seq(Nat) /\ Len(seen) = Len(audit)
         /\ tx \in [Writers -> TxRecord]
         /\ Requests \subseteq Writers /\ AlertIds \subseteq Writers /\ Tasks \subseteq Writers
  BY DEF IInv, TypeOK, FeedIInv, FeedTypeOK, Writers

\* Initially nothing is written and nobody writes.
LEMMA InitFeedIInv == FeedInit => FeedIInv
<1> SUFFICES ASSUME FeedInit PROVE FeedIInv
  OBVIOUS
<1> USE DEF FeedInit, Init
<1>1. FeedTypeOK
  BY DEF FeedTypeOK, PollerRecord, TxRecord, Closed
<1>2. /\ DOMAIN feed = {} /\ DOMAIN audit = {} /\ Len(feed) = 0 /\ Len(audit) = 0
      /\ \A w \in Writers : tx[w].at = 0 /\ tx[w].names = {}
      /\ \A r \in Requests : req[r].pc = "idle"
  BY DEF Closed, IdleRequest
<1>3. FeedHasLog /\ FeedRemembers /\ CreationIsListedFirst
  BY <1>2 DEF FeedHasLog, FeedRemembers, CreationIsListedFirst
<1>4. TransactionsRemember
  BY <1>2 DEF TransactionsRemember
<1>5. PollMissesOnlyOpenTransactions
  BY DEF PollMissesOnlyOpenTransactions
<1> QED
  BY <1>1, <1>3, <1>4, <1>5 DEF FeedIInv

\* What is stored has its creation in the feed, and what the feed says was
\* created is stored.
LEMMA StoredWasCreated ==
  ASSUME IInv, FeedIInv, NEW x \in Resources
  PROVE  /\ Exists(x) => \E c \in 1..Len(feed) : Creates(c, x)
         /\ \A c \in 1..Len(feed) : Creates(c, x) => x \in feed[c].about /\ Exists(x)
<1>1. ASSUME Exists(x) PROVE \E c \in 1..Len(feed) : Creates(c, x)
  <2>1. PICK i \in DOMAIN audit : audit[i].resource = x /\ audit[i].from = Absent
    BY <1>1 DEF IInv, RowsWellFormed
  <2>2. PICK c \in DOMAIN feed : feed[c].row = i
    BY <2>1 DEF FeedIInv, FeedHasLog
  <2> QED
    BY <2>1, <2>2, FeedFacts DEF Creates
<1>2. ASSUME NEW c \in 1..Len(feed), Creates(c, x) PROVE x \in feed[c].about /\ Exists(x)
  BY <1>2, FeedFacts DEF FeedIInv, FeedHasLog, FeedRemembers, Creates
<1> QED
  BY <1>1, <1>2

-----------------------------------------------------------------------------
(* A commit, whoever's it is.                                              *)

\* What the row says that w commits: nothing new about the workflow, or the
\* n-th row of the log, about what the transaction named or has created.
LogsAs(w, S, n) ==
  \/ n = 0 /\ S = tx[w].names /\ UNCHANGED <<audit, seen>>
  \/ /\ n = Len(audit) + 1
     /\ \E e \in AuditRecord, k \in Nat :
          /\ audit' = Append(audit, e) /\ seen' = Append(seen, k)
          /\ S = {e.resource} \union e.alerts
          /\ \/ e.from # Absent /\ S = tx[w].names
             \/ e.from = Absent /\ ~Exists(e.resource) /\ e.alerts \subseteq tx[w].names
          /\ \A m \in 1..tx[w].at : feed[m].row <= k

Commits(w, S, n) ==
  /\ Publish(w, S, n)
  /\ LogsAs(w, S, n)
  /\ \A x \in Resources : Exists(x) => Exists(x)'
  /\ \A x \in S : Exists(x)'
  /\ \A r \in Requests : IF r = w THEN req'[r].pc = "idle" ELSE req'[r] = req[r]

\* What every commit does to the feed and to the log.
LEMMA CommitFacts ==
  ASSUME IInv, FeedIInv, NEW w \in Writers, NEW S \in SUBSET Resources, NEW n \in Nat,
         Commits(w, S, n)
  PROVE  LET N == Len(feed) + 1 IN
         /\ feed' \in Seq(FeedRecord) /\ Len(feed') = N /\ DOMAIN feed' = 1..N
         /\ \A m \in 1..Len(feed) : feed'[m] = feed[m]
         /\ feed'[N].created_at = tx[w].at /\ feed'[N].about = S /\ feed'[N].row = n
         /\ tx' = [tx EXCEPT ![w] = Closed] /\ poller' = poller
         /\ Len(audit') \in Nat /\ Len(audit') >= Len(audit) /\ n \in 0..Len(audit')
         /\ DOMAIN audit' = 1..Len(audit')
         /\ \A i \in 1..Len(audit) : audit'[i] = audit[i] /\ seen'[i] = seen[i]
         /\ \A i \in 1..Len(audit') : i \in 1..Len(audit) \/ i = n
<1> DEFINE e1 == [created_at |-> tx[w].at, about |-> S, row |-> n]
           N == Len(feed) + 1
           LogGrown ==
             /\ Len(audit') \in Nat /\ Len(audit') >= Len(audit) /\ n \in 0..Len(audit')
             /\ DOMAIN audit' = 1..Len(audit')
             /\ \A i \in 1..Len(audit) : audit'[i] = audit[i] /\ seen'[i] = seen[i]
             /\ \A i \in 1..Len(audit') : i \in 1..Len(audit) \/ i = n
<1>1. /\ feed \in Seq(FeedRecord) /\ audit \in Seq(AuditRecord) /\ seen \in Seq(Nat)
      /\ Len(seen) = Len(audit) /\ tx[w] \in TxRecord
      /\ Len(audit) \in Nat /\ DOMAIN audit = 1..Len(audit)
  BY FeedFacts
<1>2. e1 \in FeedRecord
  BY <1>1 DEF FeedRecord, TxRecord
<1>3. feed' = Append(feed, e1) /\ tx' = [tx EXCEPT ![w] = Closed] /\ poller' = poller
  BY DEF Commits, Publish
<1>4. /\ feed' \in Seq(FeedRecord) /\ Len(feed') = N /\ DOMAIN feed' = 1..N
      /\ \A m \in 1..Len(feed) : feed'[m] = feed[m]
      /\ feed'[N] = e1
  BY <1>1, <1>2, <1>3, AppendFacts
<1>5. LogGrown
  <2>1. CASE n = 0 /\ UNCHANGED <<audit, seen>>
    BY <1>1, <2>1
  <2>2. ASSUME n = Len(audit) + 1, NEW e \in AuditRecord, NEW k \in Nat,
               audit' = Append(audit, e), seen' = Append(seen, k)
        PROVE  LogGrown
    <3>1. /\ Len(audit') = Len(audit) + 1 /\ DOMAIN audit' = 1..(Len(audit) + 1)
          /\ \A i \in 1..Len(audit) : audit'[i] = audit[i]
      BY <1>1, <2>2, AppendFacts
    <3>2. \A i \in 1..Len(audit) : seen'[i] = seen[i]
      BY <1>1, <2>2, AppendFacts
    <3> QED
      BY <1>1, <2>2, <3>1, <3>2
  <2> QED
    BY <2>1, <2>2 DEF Commits, LogsAs
<1>6. feed'[N].created_at = tx[w].at /\ feed'[N].about = S /\ feed'[N].row = n
  BY <1>4
<1> HIDE DEF e1, LogGrown
<1>7. LogGrown => /\ Len(audit') \in Nat /\ Len(audit') >= Len(audit) /\ n \in 0..Len(audit')
                  /\ DOMAIN audit' = 1..Len(audit')
                  /\ \A i \in 1..Len(audit) : audit'[i] = audit[i] /\ seen'[i] = seen[i]
                  /\ \A i \in 1..Len(audit') : i \in 1..Len(audit) \/ i = n
  BY DEF LogGrown
<1> QED
  BY <1>3, <1>4, <1>5, <1>6, <1>7

\* The rows that were there keep their meaning.
LEMMA OldRowsStay ==
  ASSUME IInv, FeedIInv, NEW w \in Writers, NEW S \in SUBSET Resources, NEW n \in Nat,
         Commits(w, S, n), NEW m \in 1..Len(feed)
  PROVE  /\ feed'[m] = feed[m]
         /\ feed[m].row # 0 =>
              /\ feed[m].row \in 1..Len(audit)
              /\ audit'[feed[m].row] = audit[feed[m].row]
              /\ seen'[feed[m].row] = seen[feed[m].row]
         /\ \A x : Creates(m, x)' <=> Creates(m, x)
<1>1. feed[m].row \in 0..Len(audit) /\ Len(audit) \in Nat
  BY FeedFacts DEF FeedIInv, FeedHasLog
<1>2. feed'[m] = feed[m]
  BY CommitFacts
<1>3. ASSUME feed[m].row # 0
      PROVE  /\ feed[m].row \in 1..Len(audit)
             /\ audit'[feed[m].row] = audit[feed[m].row]
             /\ seen'[feed[m].row] = seen[feed[m].row]
  <2>1. feed[m].row \in 1..Len(audit)
    BY <1>1, <1>3
  <2>2. \A i \in 1..Len(audit) : audit'[i] = audit[i] /\ seen'[i] = seen[i]
    BY CommitFacts
  <2> QED
    BY <2>1, <2>2
<1> QED
  BY <1>2, <1>3 DEF Creates

\* A commit keeps the types.
LEMMA CommitKeepsType ==
  ASSUME IInv, FeedIInv, NEW w \in Writers, NEW S \in SUBSET Resources, NEW n \in Nat,
         Commits(w, S, n)
  PROVE  FeedTypeOK'
<1>1. /\ feed' \in Seq(FeedRecord) /\ Len(feed') = Len(feed) + 1
      /\ tx' = [tx EXCEPT ![w] = Closed] /\ poller' = poller
  BY CommitFacts
<1>2. Closed \in TxRecord
  BY DEF Closed, TxRecord
<1> QED
  BY <1>1, <1>2, FeedFacts DEF FeedIInv, FeedTypeOK

\* A commit keeps the feed a picture of the log.
LEMMA CommitKeepsLog ==
  ASSUME IInv, FeedIInv, NEW w \in Writers, NEW S \in SUBSET Resources, NEW n \in Nat,
         Commits(w, S, n)
  PROVE  FeedHasLog'
<1> DEFINE N == Len(feed) + 1
<1>1. /\ Len(feed) \in Nat /\ DOMAIN feed = 1..Len(feed)
      /\ Len(audit) \in Nat /\ DOMAIN audit = 1..Len(audit)
      /\ FeedHasLog
  BY FeedFacts DEF FeedIInv
<1>2. /\ DOMAIN feed' = 1..N
      /\ feed'[N].about = S /\ feed'[N].row = n
      /\ Len(audit') \in Nat /\ Len(audit') >= Len(audit) /\ n \in 0..Len(audit')
      /\ DOMAIN audit' = 1..Len(audit')
      /\ \A i \in 1..Len(audit') : i \in 1..Len(audit) \/ i = n
  BY CommitFacts
<1>3. \A m \in 1..N : m \in 1..Len(feed) \/ m = N
  BY <1>1
<1>4. n # 0 => /\ n = Len(audit) + 1
               /\ S = {audit'[n].resource} \union audit'[n].alerts
  <2>1. ASSUME NEW e \in AuditRecord, audit' = Append(audit, e)
        PROVE  audit'[Len(audit) + 1] = e
    BY <2>1, FeedFacts, AppendFacts
  <2> QED
    BY <2>1 DEF Commits, LogsAs
<1>5. ASSUME NEW m \in 1..N
      PROVE  /\ feed'[m].row \in 0..Len(audit')
             /\ feed'[m].row # 0 =>
                  feed'[m].about = {audit'[feed'[m].row].resource}
                                     \union audit'[feed'[m].row].alerts
  <2>1. CASE m \in 1..Len(feed)
    <3>1. /\ feed[m].row \in 0..Len(audit)
          /\ feed[m].row # 0 =>
               feed[m].about = {audit[feed[m].row].resource} \union audit[feed[m].row].alerts
      BY <1>1, <2>1 DEF FeedHasLog
    <3>2. /\ feed'[m] = feed[m]
          /\ feed[m].row # 0 => audit'[feed[m].row] = audit[feed[m].row]
      BY <2>1, OldRowsStay
    <3>3. feed[m].row \in 0..Len(audit')
      BY <1>1, <1>2, <3>1
    <3> QED
      BY <3>1, <3>2, <3>3
  <2>2. CASE m = N
    BY <1>2, <1>4, <2>2
  <2> QED
    BY <1>3, <2>1, <2>2
<1>6. ASSUME NEW i \in 1..Len(audit') PROVE \E m \in 1..N : feed'[m].row = i
  <2>1. CASE i \in 1..Len(audit)
    <3>1. PICK m \in 1..Len(feed) : feed[m].row = i
      BY <1>1, <2>1 DEF FeedHasLog
    <3>2. feed'[m] = feed[m]
      BY OldRowsStay
    <3>3. m \in 1..N
      BY <1>1
    <3> QED
      BY <3>1, <3>2, <3>3
  <2>2. CASE i = n
    BY <1>1, <1>2, <2>2
  <2> QED
    BY <1>2, <2>1, <2>2
<1>7. ASSUME NEW k \in 1..N, NEW m \in 1..N, k < m, feed'[k].row # 0, feed'[m].row # 0
      PROVE  feed'[k].row < feed'[m].row
  <2>0. k \in 1..Len(feed)
    BY <1>1, <1>7
  <2>1. feed'[k] = feed[k] /\ feed[k].row \in 0..Len(audit)
    BY <1>1, <2>0, OldRowsStay DEF FeedHasLog
  <2>2. CASE m \in 1..Len(feed)
    <3>1. feed'[m] = feed[m]
      BY <2>2, OldRowsStay
    <3> QED
      BY <1>1, <1>7, <2>0, <2>1, <2>2, <3>1 DEF FeedHasLog
  <2>3. CASE m = N
    BY <1>1, <1>2, <1>4, <1>7, <2>1, <2>3
  <2> QED
    BY <1>3, <2>2, <2>3
<1> QED
  BY <1>2, <1>5, <1>6, <1>7 DEF FeedHasLog

\* A commit ends one transaction and leaves the others theirs.
LEMMA CommitKeepsTransactions ==
  ASSUME IInv, FeedIInv, NEW w \in Writers, NEW S \in SUBSET Resources, NEW n \in Nat,
         Commits(w, S, n)
  PROVE  TransactionsRemember'
<1>1. /\ Len(feed) \in Nat /\ tx \in [Writers -> TxRecord] /\ Requests \subseteq Writers
      /\ TransactionsRemember
  BY FeedFacts DEF FeedIInv
<1>2. /\ Len(feed') = Len(feed) + 1 /\ tx' = [tx EXCEPT ![w] = Closed]
  BY CommitFacts
<1>3. \A r \in Requests : IF r = w THEN req'[r].pc = "idle" ELSE req'[r] = req[r]
  BY DEF Commits
<1>4. SUFFICES ASSUME NEW v \in Writers
      PROVE  /\ tx'[v].at <= Len(feed')
             /\ \A x \in tx'[v].names : \E c \in 1..tx'[v].at : Creates(c, x)'
             /\ v \in Requests =>
                  /\ req'[v].pc # "idle" =>
                       /\ tx'[v].open
                       /\ \A m \in 1..tx'[v].at : feed'[m].row <= req'[v].seen
                  /\ req'[v].pc = "loaded" => tx'[v].names = {req'[v].resource}
                  /\ req'[v].pc = "validated" => tx'[v].names = req'[v].alerts
  BY DEF TransactionsRemember
<1>5. CASE v = w
  <2>1. tx'[v] = Closed /\ (v \in Requests => req'[v].pc = "idle")
    BY <1>1, <1>2, <1>3, <1>5
  <2> QED
    BY <1>1, <1>2, <2>1 DEF Closed
<1>6. CASE v # w
  <2>1. tx'[v] = tx[v] /\ (v \in Requests => req'[v] = req[v]) /\ tx[v].at \in Nat
    BY <1>1, <1>2, <1>3, <1>6 DEF TxRecord
  <2>2. tx[v].at <= Len(feed) /\ \A m \in 1..tx[v].at : m \in 1..Len(feed)
    BY <1>1, <2>1 DEF TransactionsRemember
  <2>3. \A m \in 1..tx[v].at : feed'[m] = feed[m] /\ \A x : Creates(m, x)' <=> Creates(m, x)
    BY <2>2, OldRowsStay
  <2>4. \A x \in tx[v].names : \E c \in 1..tx[v].at : Creates(c, x)'
    BY <2>3 DEF TransactionsRemember, FeedIInv
  <2>5. v \in Requests /\ req[v].pc # "idle" =>
           /\ tx[v].open
           /\ \A m \in 1..tx[v].at : feed'[m].row <= req[v].seen
    BY <2>3 DEF TransactionsRemember, FeedIInv
  <2>6. /\ v \in Requests /\ req[v].pc = "loaded" => tx[v].names = {req[v].resource}
        /\ v \in Requests /\ req[v].pc = "validated" => tx[v].names = req[v].alerts
    BY DEF TransactionsRemember, FeedIInv
  <2> QED
    BY <1>1, <1>2, <2>1, <2>2, <2>4, <2>5, <2>6
<1> QED
  BY <1>5, <1>6

\* A row committed late is still about what was stored before its
\* transaction began, or what it creates.
LEMMA CommitNamesStored ==
  ASSUME IInv, FeedIInv, NEW w \in Writers, NEW S \in SUBSET Resources, NEW n \in Nat,
         Commits(w, S, n), NEW x \in S, Exists(x)
  PROVE  \E c \in 1..tx[w].at : Creates(c, x)
<1>1. x \in tx[w].names
  BY DEF Commits, LogsAs
<1> QED
  BY <1>1 DEF FeedIInv, TransactionsRemember

\* A row that records a creation records that of something new.
LEMMA CommitCreatesNew ==
  ASSUME IInv, FeedIInv, NEW w \in Writers, NEW S \in SUBSET Resources, NEW n \in Nat,
         Commits(w, S, n), NEW c, c = Len(feed) + 1, NEW x \in Resources, Creates(c, x)'
  PROVE  ~Exists(x)
<1>1. feed'[c].row = n
  BY CommitFacts
<1>3. n # 0 /\ audit'[n].resource = x /\ audit'[n].from = Absent
  <2>1. /\ feed'[c].row # 0
        /\ audit'[feed'[c].row].resource = x
        /\ audit'[feed'[c].row].from = Absent
    BY DEF Creates
  <2> QED
    BY <1>1, <2>1
<1>4. PICK e \in AuditRecord :
        /\ audit' = Append(audit, e) /\ n = Len(audit) + 1
        /\ e.from # Absent \/ ~Exists(e.resource)
  BY <1>3 DEF Commits, LogsAs
<1>5. audit'[n] = e
  BY <1>4, FeedFacts, AppendFacts
<1> QED
  BY <1>3, <1>4, <1>5

\* A commit keeps what the rows remember.
LEMMA CommitKeepsRows ==
  ASSUME IInv, FeedIInv, NEW w \in Writers, NEW S \in SUBSET Resources, NEW n \in Nat,
         Commits(w, S, n)
  PROVE  FeedRemembers'
<1> DEFINE N == Len(feed) + 1
<1>1. /\ Len(feed) \in Nat /\ DOMAIN feed = 1..Len(feed)
      /\ tx[w].at \in Nat /\ tx[w].at <= Len(feed)
      /\ feed \in Seq(FeedRecord)
  BY FeedFacts DEF FeedIInv, TransactionsRemember, TxRecord
<1>2. /\ DOMAIN feed' = 1..N
      /\ feed'[N].created_at = tx[w].at /\ feed'[N].about = S /\ feed'[N].row = n
      /\ \A m \in 1..Len(feed) : feed'[m] = feed[m]
  BY CommitFacts
<1>3. /\ \A x \in Resources : Exists(x) => Exists(x)'
      /\ \A x \in S : Exists(x)'
  BY DEF Commits
<1>4. n # 0 => \A m \in 1..tx[w].at : feed[m].row <= seen'[n]
  <2>1. ASSUME NEW k \in Nat, seen' = Append(seen, k) PROVE seen'[Len(audit) + 1] = k
    <3>1. seen \in Seq(Nat) /\ Len(seen) = Len(audit)
      BY FeedFacts
    <3> QED
      BY <2>1, <3>1, AppendFacts
  <2> QED
    BY <2>1 DEF Commits, LogsAs
<1>5. SUFFICES ASSUME NEW m \in 1..N
      PROVE  /\ feed'[m].created_at < m
             /\ \A x \in feed'[m].about : Exists(x)'
             /\ feed'[m].row # 0 =>
                  \A k \in 1..feed'[m].created_at : feed'[k].row <= seen'[feed'[m].row]
  BY <1>2 DEF FeedRemembers
<1>6. CASE m \in 1..Len(feed)
  <2>0. feed[m] \in FeedRecord
    BY <1>1, <1>6
  <2>1. /\ feed[m].created_at < m /\ feed[m].created_at \in Nat
        /\ \A x \in feed[m].about : Exists(x) /\ x \in Resources
        /\ feed[m].row # 0 =>
             \A k \in 1..feed[m].created_at : feed[k].row <= seen[feed[m].row]
    BY <1>1, <1>6, <2>0 DEF FeedIInv, FeedRemembers, FeedRecord
  <2>2. \A k \in 1..feed[m].created_at : k \in 1..Len(feed)
    BY <1>1, <1>6, <2>1
  <2>3. feed[m].row # 0 => seen'[feed[m].row] = seen[feed[m].row]
    BY <1>6, OldRowsStay
  <2> QED
    BY <1>2, <1>3, <1>6, <2>1, <2>2, <2>3
<1>7. CASE m = N
  <2>1. \A k \in 1..tx[w].at : k \in 1..Len(feed)
    BY <1>1
  <2> QED
    BY <1>1, <1>2, <1>3, <1>4, <1>7, <2>1
<1> QED
  BY <1>1, <1>6, <1>7

\* A commit lists nothing below its creation, and creates nothing that a row
\* is about already.
LEMMA CommitKeepsCreations ==
  ASSUME IInv, FeedIInv, NEW w \in Writers, NEW S \in SUBSET Resources, NEW n \in Nat,
         Commits(w, S, n)
  PROVE  CreationIsListedFirst'
<1> DEFINE N == Len(feed) + 1
<1>1. /\ Len(feed) \in Nat /\ DOMAIN feed = 1..Len(feed) /\ feed \in Seq(FeedRecord)
      /\ tx[w].at \in Nat /\ tx[w].at <= Len(feed)
  BY FeedFacts DEF FeedIInv, TransactionsRemember, TxRecord
<1>2. /\ DOMAIN feed' = 1..N
      /\ feed'[N].created_at = tx[w].at /\ feed'[N].about = S
      /\ \A m \in 1..Len(feed) : feed'[m] = feed[m]
  BY CommitFacts
<1>3. SUFFICES ASSUME NEW c \in 1..N, NEW m \in 1..N, NEW x \in Resources,
                      Creates(c, x)', x \in feed'[m].about, m # c
               PROVE  feed'[c].created_at < feed'[m].created_at
  BY <1>2 DEF CreationIsListedFirst
<1>4. /\ c \in 1..Len(feed) \/ c = N
      /\ m \in 1..Len(feed) \/ m = N
  BY <1>1
<1>5. CASE c \in 1..Len(feed)
  <2>1. Creates(c, x)
    BY <1>3, <1>5, OldRowsStay
  <2>2. x \in feed[c].about /\ Exists(x)
    BY <1>5, <2>1, StoredWasCreated
  <2>3. CASE m \in 1..Len(feed)
    BY <1>1, <1>2, <1>3, <1>5, <2>1, <2>3 DEF FeedIInv, CreationIsListedFirst
  <2>4. CASE m = N
    <3>1. x \in S
      BY <1>2, <1>3, <2>4
    <3>2. PICK d \in 1..tx[w].at : Creates(d, x)
      BY <2>2, <3>1, CommitNamesStored
    <3>3. d \in 1..Len(feed)
      BY <1>1
    <3>4. x \in feed[d].about
      BY <3>2, <3>3, StoredWasCreated
    <3>5. d = c
      <4>1. SUFFICES ASSUME d # c PROVE FALSE
        OBVIOUS
      <4>2. /\ feed[c].created_at < feed[d].created_at
            /\ feed[d].created_at < feed[c].created_at
        BY <1>1, <1>5, <2>1, <2>2, <3>2, <3>3, <3>4, <4>1
           DEF FeedIInv, CreationIsListedFirst
      <4>3. feed[c] \in FeedRecord /\ feed[d] \in FeedRecord
        BY <1>1, <1>5, <3>3
      <4> QED
        BY <4>2, <4>3 DEF FeedRecord
    <3>6. feed[c] \in FeedRecord /\ feed[c].created_at < c
      BY <1>1, <1>5 DEF FeedIInv, FeedRemembers
    <3>7. feed[c].created_at \in Nat
      BY <3>6 DEF FeedRecord
    <3> QED
      BY <1>1, <1>2, <1>5, <2>4, <3>5, <3>6, <3>7
  <2> QED
    BY <1>4, <2>3, <2>4
<1>6. CASE c = N
  <2>1. ~Exists(x)
    BY <1>3, <1>6, CommitCreatesNew
  <2>2. m \in 1..Len(feed)
    BY <1>3, <1>4, <1>6
  <2>3. x \in feed[m].about
    BY <1>2, <1>3, <2>2
  <2> QED
    BY <1>1, <2>1, <2>2, <2>3 DEF FeedIInv, FeedRemembers
<1> QED
  BY <1>4, <1>5, <1>6

\* A commit adds nothing to a page already read.
LEMMA CommitKeepsPoll ==
  ASSUME IInv, FeedIInv, NEW w \in Writers, NEW S \in SUBSET Resources, NEW n \in Nat,
         Commits(w, S, n)
  PROVE  PollMissesOnlyOpenTransactions'
<1>1. /\ poller' = poller /\ \A m \in 1..Len(feed) : feed'[m] = feed[m]
  BY CommitFacts
<1>2. /\ Len(feed) \in Nat /\ poller.before \in Nat /\ poller.upTo \in Nat
      /\ poller.upTo <= Len(feed)
  BY FeedFacts DEF FeedIInv, FeedTypeOK, PollerRecord
<1>3. \A m \in (poller.before + 1)..poller.upTo : m \in 1..Len(feed)
  BY <1>2
<1> QED
  BY <1>1, <1>3 DEF FeedIInv, PollMissesOnlyOpenTransactions

\* A commit keeps the invariant.
LEMMA CommitKeepsFeed ==
  ASSUME IInv, FeedIInv, NEW w \in Writers, NEW S \in SUBSET Resources, NEW n \in Nat,
         Commits(w, S, n)
  PROVE  FeedIInv'
BY CommitKeepsType, CommitKeepsLog, CommitKeepsTransactions, CommitKeepsRows,
   CommitKeepsCreations, CommitKeepsPoll DEF FeedIInv

-----------------------------------------------------------------------------
(* The commits of the requests, deliveries and analyses.                   *)

\* What an open transaction names is stored.
LEMMA NamedAreStored ==
  ASSUME IInv, FeedIInv, NEW w \in Writers, NEW x \in tx[w].names
  PROVE  x \in Resources /\ Exists(x)
<1>1. /\ tx[w] \in TxRecord /\ tx[w].at <= Len(feed) /\ Len(feed) \in Nat
      /\ \E c \in 1..tx[w].at : Creates(c, x)
  BY FeedFacts DEF FeedIInv, TransactionsRemember
<1>2. x \in Resources /\ tx[w].at \in Nat
  BY <1>1 DEF TxRecord
<1>3. \E c \in 1..Len(feed) : Creates(c, x)
  BY <1>1, <1>2
<1> QED
  BY <1>2, <1>3, StoredWasCreated

\* A request commits what it read, as CaseWorkflow says.
LEMMA RequestReads ==
  ASSUME IInv, FeedIInv, NEW r \in Requests, req[r].pc # "idle"
  PROVE  /\ r \in Writers /\ req[r].seen \in Nat
         /\ \A m \in 1..tx[r].at : feed[m].row <= req[r].seen
         /\ req[r].pc = "loaded" =>
              /\ req[r].resource \in Resources /\ tx[r].names = {req[r].resource}
              /\ req[r].loaded \in Statuses \ {Absent}
              /\ req[r].asked \in Statuses \ {Absent}
         /\ req[r].pc = "validated" =>
              /\ req[r].alerts \in SUBSET AlertIds /\ tx[r].names = req[r].alerts
<1>1. \A x : StatusesOf(x) \subseteq Statuses \ {Absent}
  BY DEF Statuses, StatusesOf, AlertStatus, IncidentStatus, Absent
<1>2. r \in Writers /\ req[r] \in RequestRecord
  BY FeedFacts DEF IInv, TypeOK
<1>3. req[r].pc = "loaded" =>
        /\ req[r].resource \in Resources
        /\ req[r].loaded \in StatusesOf(req[r].resource)
        /\ req[r].asked \in StatusesOf(req[r].resource)
  BY DEF IInv, RequestsRemember
<1> QED
  BY <1>1, <1>2, <1>3 DEF RequestRecord, FeedIInv, TransactionsRemember

\* The commit of a PATCH.
LEMMA PublishStatusStep ==
  ASSUME IInv, FeedIInv, NEW r \in Requests, PublishStatus(r)
  PROVE  FeedIInv'
<1>1. /\ CommitStatus(r) /\ Next /\ req[r].pc = "loaded"
      /\ Publish(r, {req[r].resource}, Len(audit'))
  BY DEF PublishStatus, CommitStatus, Next
<1>2. /\ r \in Writers /\ req[r].seen \in Nat
      /\ \A m \in 1..tx[r].at : feed[m].row <= req[r].seen
      /\ req[r].resource \in Resources /\ tx[r].names = {req[r].resource}
      /\ req[r].loaded \in Statuses \ {Absent} /\ req[r].asked \in Statuses
  BY <1>1, RequestReads
<1>3. PICK x \in Resources : x = req[r].resource
  BY <1>2
<1>4. PICK n \in Nat : n = Len(audit) + 1
  BY FeedFacts
<1> DEFINE e == [resource |-> x, from |-> req[r].loaded, to |-> req[r].asked, alerts |-> {}]
<1>5. e \in AuditRecord /\ e.resource = x /\ e.alerts = {} /\ e.from # Absent
  BY <1>2 DEF AuditRecord
<1>6. /\ audit' = Append(audit, e) /\ seen' = Append(seen, req[r].seen)
      /\ req' = [req EXCEPT ![r] = IdleRequest]
  BY <1>1, <1>3 DEF CommitStatus, Record
<1>7. Len(audit') = n
  BY <1>4, <1>5, <1>6, FeedFacts, AppendFacts
<1>8. LogsAs(r, {x}, n)
  <2> HIDE DEF e
  <2>1. {x} = {e.resource} \union e.alerts
    BY <1>5
  <2> QED
    BY <1>2, <1>3, <1>4, <1>5, <1>6, <2>1 DEF LogsAs
<1>9. \A y \in Resources : Exists(y) => Exists(y)'
  BY <1>1, WorkOutcome
<1>10. Exists(x)
  BY <1>2, <1>3, NamedAreStored
<1>11. \A p \in Requests : IF p = r THEN req'[p].pc = "idle" ELSE req'[p] = req[p]
  BY <1>6 DEF IInv, TypeOK, IdleRequest
<1>12. Commits(r, {x}, n)
  BY <1>1, <1>3, <1>7, <1>8, <1>9, <1>10, <1>11 DEF Commits
<1> QED
  BY <1>2, <1>12, CommitKeepsFeed

\* The commit of a POST /incidents.
LEMMA PublishIncidentStep ==
  ASSUME IInv, FeedIInv, NEW r \in Requests, NEW i \in IncidentIds, PublishIncident(r, i)
  PROVE  FeedIInv'
<1>1. /\ CommitIncident(r, i) /\ Next /\ req[r].pc = "validated"
      /\ Publish(r, {i} \union req[r].alerts, Len(audit'))
  BY DEF PublishIncident, CommitIncident, Next
<1>2. /\ r \in Writers /\ req[r].seen \in Nat
      /\ \A m \in 1..tx[r].at : feed[m].row <= req[r].seen
      /\ req[r].alerts \in SUBSET AlertIds /\ tx[r].names = req[r].alerts
  BY <1>1, RequestReads
<1>3. PICK S \in SUBSET Resources : S = {i} \union req[r].alerts
  BY <1>2 DEF Resources
<1>4. PICK n \in Nat : n = Len(audit) + 1
  BY FeedFacts
<1> DEFINE e == [resource |-> i, from |-> Absent, to |-> "open", alerts |-> req[r].alerts]
<1>5. /\ e \in AuditRecord /\ e.resource = i /\ e.alerts = req[r].alerts
      /\ e.from = Absent /\ i \in Resources /\ ~Exists(i)
  <2>1. {"open", Absent} \subseteq Statuses /\ i \in Resources
    BY DEF Statuses, IncidentStatus, Resources
  <2> QED
    BY <1>1, <1>2, <2>1 DEF AuditRecord, CommitIncident
<1>6. /\ audit' = Append(audit, e) /\ seen' = Append(seen, req[r].seen)
      /\ req' = [req EXCEPT ![r] = IdleRequest]
      /\ status' = [status EXCEPT ![i] = "open"]
  BY <1>1 DEF CommitIncident, Record
<1>7. Len(audit') = n
  BY <1>4, <1>5, <1>6, FeedFacts, AppendFacts
<1>8. LogsAs(r, S, n)
  <2> HIDE DEF e
  <2>1. S = {e.resource} \union e.alerts /\ e.alerts \subseteq tx[r].names
    BY <1>2, <1>3, <1>5
  <2> QED
    BY <1>2, <1>4, <1>5, <1>6, <2>1 DEF LogsAs
<1>9. \A y \in Resources : Exists(y) => Exists(y)'
  BY <1>1, WorkOutcome
<1>10. \A y \in S : Exists(y)'
  <2>1. Exists(i)'
    BY <1>5, <1>6 DEF Exists, IInv, TypeOK, Absent
  <2>2. \A y \in req[r].alerts : y \in Resources /\ Exists(y)
    BY <1>2, NamedAreStored
  <2> QED
    BY <1>3, <1>9, <2>1, <2>2
<1>11. \A p \in Requests : IF p = r THEN req'[p].pc = "idle" ELSE req'[p] = req[p]
  BY <1>6 DEF IInv, TypeOK, IdleRequest
<1>12. Commits(r, S, n)
  BY <1>1, <1>3, <1>7, <1>8, <1>9, <1>10, <1>11 DEF Commits
<1> QED
  BY <1>2, <1>12, CommitKeepsFeed

\* The commit of a delivery.
LEMMA PublishAlertStep ==
  ASSUME IInv, FeedIInv, NEW a \in AlertIds, PublishAlert(a)
  PROVE  FeedIInv'
<1>1. CreateAlert(a) /\ Next /\ Publish(a, {a}, Len(audit')) /\ ~Exists(a)
  BY DEF PublishAlert, CreateAlert, Next
<1>2. /\ a \in Writers /\ a \in Resources /\ a \notin Requests
      /\ tx[a].at <= Len(feed) /\ tx[a].at \in Nat /\ Len(feed) \in Nat
      /\ tx[a] \in TxRecord
  <2>1. a \in Writers /\ a \in Resources /\ a \notin Requests
    BY FeedConstants DEF Writers, Resources
  <2>2. tx[a] \in TxRecord /\ tx[a].at <= Len(feed) /\ Len(feed) \in Nat
    BY <2>1, FeedFacts DEF FeedIInv, TransactionsRemember
  <2> QED
    BY <2>1, <2>2 DEF TxRecord
<1>4. PICK n \in Nat : n = Len(audit) + 1
  BY FeedFacts
<1> DEFINE e == [resource |-> a, from |-> Absent, to |-> "new", alerts |-> {}]
<1>5. e \in AuditRecord /\ e.resource = a /\ e.alerts = {} /\ e.from = Absent
  <2>1. {"new", Absent} \subseteq Statuses
    BY DEF Statuses, AlertStatus
  <2> QED
    BY <1>2, <2>1 DEF AuditRecord
<1>6. /\ audit' = Append(audit, e) /\ seen' = Append(seen, Len(audit)) /\ req' = req
      /\ status' = [status EXCEPT ![a] = "new"]
  BY <1>1 DEF CreateAlert, Record
<1>7. Len(audit') = n
  BY <1>4, <1>5, <1>6, FeedFacts, AppendFacts
<1>8. LogsAs(a, {a}, n)
  <2> HIDE DEF e
  <2>1. {a} = {e.resource} \union e.alerts /\ e.alerts \subseteq tx[a].names
    BY <1>5
  <2>2. \A m \in 1..tx[a].at : feed[m].row <= Len(audit)
    <3>1. Len(audit) \in Nat /\ DOMAIN feed = 1..Len(feed)
      BY FeedFacts
    <3>2. \A m \in DOMAIN feed : feed[m].row \in 0..Len(audit)
      BY DEF FeedIInv, FeedHasLog
    <3> TAKE m \in 1..tx[a].at
    <3>3. m \in DOMAIN feed
      BY <1>2, <3>1
    <3>4. feed[m].row \in 0..Len(audit)
      BY <3>2, <3>3
    <3> QED
      BY <3>1, <3>4
  <2>3. Len(audit) \in Nat
    BY FeedFacts
  <2> QED
    BY <1>1, <1>4, <1>5, <1>6, <2>1, <2>2, <2>3 DEF LogsAs
<1>9. \A y \in Resources : Exists(y) => Exists(y)'
  BY <1>1, WorkOutcome
<1>10. Exists(a)'
  BY <1>2, <1>6 DEF Exists, IInv, TypeOK, Absent
<1>12. Commits(a, {a}, n)
  BY <1>1, <1>2, <1>6, <1>7, <1>8, <1>9, <1>10 DEF Commits
<1> QED
  BY <1>2, <1>12, CommitKeepsFeed

\* The commit of an analysis.
LEMMA PublishAnalysisStep ==
  ASSUME IInv, FeedIInv, NEW k \in Tasks, PublishAnalysis(k)
  PROVE  FeedIInv'
<1>1. k \in Writers /\ k \notin Requests /\ tx[k] \in TxRecord
  BY FeedConstants, FeedFacts DEF Writers
<1>2. PICK S \in SUBSET Resources : S = tx[k].names
  BY <1>1 DEF TxRecord
<1>3. Publish(k, S, 0) /\ UNCHANGED vars
  BY <1>2 DEF PublishAnalysis
<1>4. \A x \in Resources : Exists(x)' <=> Exists(x)
  BY <1>3 DEF vars, Exists
<1>5. \A x \in S : Exists(x)
  BY <1>1, <1>2, NamedAreStored
<1>6. Commits(k, S, 0)
  BY <1>1, <1>2, <1>3, <1>4, <1>5 DEF Commits, LogsAs, vars
<1> QED
  BY <1>1, <1>6, CommitKeepsFeed

-----------------------------------------------------------------------------
(* The steps that commit nothing.                                          *)

\* What the feed says is what it says as long as nothing is committed.
LEMMA FeedStands ==
  ASSUME FeedIInv, UNCHANGED <<status, audit, seen, feed>>,
         FeedTypeOK', TransactionsRemember', PollMissesOnlyOpenTransactions'
  PROVE  FeedIInv'
<1>1. FeedHasLog' /\ FeedRemembers'
  BY DEF FeedIInv, FeedHasLog, FeedRemembers, Exists
<1>2. CreationIsListedFirst'
  BY DEF FeedIInv, CreationIsListedFirst, Creates
<1> QED
  BY <1>1, <1>2 DEF FeedIInv

\* The same, for the steps of the writers.
LEMMA WritersStand ==
  ASSUME FeedIInv, UNCHANGED <<status, audit, seen, feed, poller>>,
         tx' \in [Writers -> TxRecord], TransactionsRemember'
  PROVE  FeedIInv'
<1>1. FeedTypeOK' /\ PollMissesOnlyOpenTransactions'
  BY DEF FeedIInv, FeedTypeOK, PollMissesOnlyOpenTransactions
<1> QED
  BY <1>1, FeedStands

\* A transaction that begins names what was created before.
LEMMA BeginStep ==
  ASSUME IInv, FeedIInv, NEW w \in Writers, NEW S \in SUBSET Resources,
         Begin(w, S), \A x \in S : Exists(x)
  PROVE  FeedIInv'
<1> DEFINE t == [open |-> TRUE, at |-> Len(feed), names |-> S]
<1>1. /\ ~tx[w].open /\ tx' = [tx EXCEPT ![w] = t]
      /\ UNCHANGED <<status, audit, seen, req, feed, poller>>
      /\ tx \in [Writers -> TxRecord] /\ Requests \subseteq Writers /\ Len(feed) \in Nat
  BY FeedFacts DEF Begin, vars
<1>2. t \in TxRecord
  BY <1>1 DEF TxRecord
<1>3. tx' \in [Writers -> TxRecord]
  BY <1>1, <1>2
<1>4. \A x \in S : \E c \in 1..Len(feed) : Creates(c, x)
  BY StoredWasCreated
<1>5. \A c, x : Creates(c, x)' <=> Creates(c, x)
  BY <1>1 DEF Creates
<1>6. w \in Requests => req[w].pc = "idle"
  BY <1>1 DEF FeedIInv, TransactionsRemember
<1>7. ASSUME NEW v \in Writers
      PROVE  /\ tx'[v].at <= Len(feed)
             /\ \A x \in tx'[v].names : \E c \in 1..tx'[v].at : Creates(c, x)
             /\ v \in Requests =>
                  /\ req[v].pc # "idle" =>
                       /\ tx'[v].open
                       /\ \A m \in 1..tx'[v].at : feed[m].row <= req[v].seen
                  /\ req[v].pc = "loaded" => tx'[v].names = {req[v].resource}
                  /\ req[v].pc = "validated" => tx'[v].names = req[v].alerts
  <2>1. CASE v = w
    <3>1. tx'[v].at = Len(feed) /\ tx'[v].names = S
      BY <1>1, <2>1
    <3> QED
      BY <1>1, <1>4, <1>6, <2>1, <3>1
  <2>2. CASE v # w
    <3>1. tx'[v] = tx[v]
      BY <1>1, <2>2
    <3> QED
      BY <3>1 DEF FeedIInv, TransactionsRemember
  <2> QED
    BY <2>1, <2>2
<1>8. TransactionsRemember'
  BY <1>1, <1>5, <1>7 DEF TransactionsRemember
<1> QED
  BY <1>1, <1>3, <1>8, WritersStand

\* A handler reads after its transaction began.
LEMMA LoadNamedStep ==
  ASSUME IInv, FeedIInv, NEW r \in Requests, LoadNamed(r)
  PROVE  FeedIInv'
<1>1. PICK q \in RequestRecord :
        /\ req' = [req EXCEPT ![r] = q]
        /\ q.pc # "idle" /\ q.seen = Len(audit)
        /\ q.pc = "loaded" => tx[r].names = {q.resource}
        /\ q.pc = "validated" => tx[r].names = q.alerts
        /\ UNCHANGED <<status, audit, seen>>
  <2>1. ASSUME NEW x \in Resources, NEW t \in AskedOfAlerts \union AskedOfIncidents,
               tx[r].names = {x}, LoadForStatus(r, x, t)
        PROVE  \E q \in RequestRecord :
                 /\ req' = [req EXCEPT ![r] = q]
                 /\ q.pc # "idle" /\ q.seen = Len(audit)
                 /\ q.pc = "loaded" => tx[r].names = {q.resource}
                 /\ q.pc = "validated" => tx[r].names = q.alerts
                 /\ UNCHANGED <<status, audit, seen>>
    <3> DEFINE q == [IdleRequest EXCEPT !.pc = "loaded", !.resource = x,
                                        !.loaded = status[x], !.asked = t,
                                        !.seen = Len(audit)]
    <3>1. status[x] \in Statuses /\ t \in Statuses /\ Len(audit) \in Nat
      BY AskedStatuses, FeedFacts DEF IInv, TypeOK, Statuses
    <3>2. /\ q \in RequestRecord /\ q.pc = "loaded" /\ q.resource = x
          /\ q.seen = Len(audit)
      BY <3>1 DEF IdleRequest, RequestRecord
    <3>3. req' = [req EXCEPT ![r] = q] /\ UNCHANGED <<status, audit, seen>>
      BY <2>1 DEF LoadForStatus
    <3> HIDE DEF q
    <3> QED
      BY <2>1, <3>2, <3>3
  <2>2. ASSUME tx[r].names \subseteq AlertIds, SelectAlerts(r, tx[r].names)
        PROVE  \E q \in RequestRecord :
                 /\ req' = [req EXCEPT ![r] = q]
                 /\ q.pc # "idle" /\ q.seen = Len(audit)
                 /\ q.pc = "loaded" => tx[r].names = {q.resource}
                 /\ q.pc = "validated" => tx[r].names = q.alerts
                 /\ UNCHANGED <<status, audit, seen>>
    <3> DEFINE q == [IdleRequest EXCEPT !.pc = "validated", !.alerts = tx[r].names,
                                        !.seen = Len(audit)]
    <3>1. Absent \in Statuses /\ Len(audit) \in Nat
      BY FeedFacts DEF Statuses
    <3>2. /\ q \in RequestRecord /\ q.pc = "validated" /\ q.alerts = tx[r].names
          /\ q.seen = Len(audit)
      BY <2>2, <3>1 DEF IdleRequest, RequestRecord
    <3>3. req' = [req EXCEPT ![r] = q] /\ UNCHANGED <<status, audit, seen>>
      BY <2>2 DEF SelectAlerts
    <3> HIDE DEF q
    <3> QED
      BY <3>2, <3>3
  <2> QED
    BY <2>1, <2>2 DEF LoadNamed
<1>2. /\ UNCHANGED <<feed, tx, poller>> /\ tx[r].open
      /\ tx \in [Writers -> TxRecord] /\ Requests \subseteq Writers
      /\ Len(feed) \in Nat /\ DOMAIN feed = 1..Len(feed) /\ Len(audit) \in Nat
      /\ req \in [Requests -> RequestRecord]
  BY FeedFacts DEF LoadNamed, IInv, TypeOK
<1>3. \A c, x : Creates(c, x)' <=> Creates(c, x)
  BY <1>1, <1>2 DEF Creates
<1>4. \A m \in 1..tx[r].at : feed[m].row <= Len(audit)
  <2>1. tx[r] \in TxRecord /\ tx[r].at <= Len(feed)
    BY <1>2 DEF FeedIInv, TransactionsRemember
  <2>2. \A m \in 1..tx[r].at : m \in DOMAIN feed
    BY <1>2, <2>1 DEF TxRecord
  <2>3. \A m \in DOMAIN feed : feed[m].row \in 0..Len(audit)
    BY DEF FeedIInv, FeedHasLog
  <2> QED
    BY <1>2, <2>2, <2>3
<1>5. ASSUME NEW v \in Requests
      PROVE  /\ req'[v].pc # "idle" =>
                  /\ tx[v].open
                  /\ \A m \in 1..tx[v].at : feed[m].row <= req'[v].seen
             /\ req'[v].pc = "loaded" => tx[v].names = {req'[v].resource}
             /\ req'[v].pc = "validated" => tx[v].names = req'[v].alerts
  <2>1. CASE v = r
    BY <1>1, <1>2, <1>4, <2>1
  <2>2. CASE v # r
    <3>1. req'[v] = req[v] /\ v \in Writers
      BY <1>1, <1>2, <2>2
    <3> QED
      BY <3>1 DEF FeedIInv, TransactionsRemember
  <2> QED
    BY <2>1, <2>2
<1>6. \A v \in Writers : /\ tx[v].at <= Len(feed)
                         /\ \A x \in tx[v].names : \E c \in 1..tx[v].at : Creates(c, x)
  BY DEF FeedIInv, TransactionsRemember
<1>7. TransactionsRemember'
  BY <1>2, <1>3, <1>5, <1>6 DEF TransactionsRemember
<1> QED
  BY <1>1, <1>2, <1>7, WritersStand

\* A session that rolls back forgets what it read.
LEMMA RollbackStep ==
  ASSUME IInv, FeedIInv, NEW w \in Writers, Rollback(w)
  PROVE  FeedIInv'
<1>1. /\ tx' = [tx EXCEPT ![w] = Closed] /\ UNCHANGED <<feed, poller>>
      /\ tx \in [Writers -> TxRecord] /\ Requests \subseteq Writers
      /\ Len(feed) \in Nat /\ req \in [Requests -> RequestRecord]
  BY FeedFacts DEF Rollback, IInv, TypeOK
<1>2. /\ UNCHANGED <<status, audit, seen>>
      /\ \A p \in Requests : IF p = w THEN req'[p].pc = "idle" ELSE req'[p] = req[p]
  <2>1. CASE w \in Requests /\ req[w].pc # "idle"
    <3>1. Abort(w)
      BY <2>1 DEF Rollback
    <3> QED
      BY <1>1, <3>1 DEF Abort, IdleRequest
  <2>2. CASE ~(w \in Requests /\ req[w].pc # "idle")
    BY <1>1, <2>2 DEF Rollback, vars
  <2> QED
    BY <2>1, <2>2
<1>3. Closed \in TxRecord
  BY DEF Closed, TxRecord
<1>4. tx' \in [Writers -> TxRecord]
  BY <1>1, <1>3
<1>5. \A c, x : Creates(c, x)' <=> Creates(c, x)
  BY <1>1, <1>2 DEF Creates
<1>6. ASSUME NEW v \in Writers
      PROVE  /\ tx'[v].at <= Len(feed)
             /\ \A x \in tx'[v].names : \E c \in 1..tx'[v].at : Creates(c, x)
             /\ v \in Requests =>
                  /\ req'[v].pc # "idle" =>
                       /\ tx'[v].open
                       /\ \A m \in 1..tx'[v].at : feed[m].row <= req'[v].seen
                  /\ req'[v].pc = "loaded" => tx'[v].names = {req'[v].resource}
                  /\ req'[v].pc = "validated" => tx'[v].names = req'[v].alerts
  <2>1. CASE v = w
    <3>1. tx'[v] = Closed /\ (v \in Requests => req'[v].pc = "idle")
      BY <1>1, <1>2, <2>1
    <3> QED
      BY <1>1, <3>1 DEF Closed
  <2>2. CASE v # w
    <3>1. tx'[v] = tx[v] /\ (v \in Requests => req'[v] = req[v])
      BY <1>1, <1>2, <2>2
    <3> QED
      BY <3>1 DEF FeedIInv, TransactionsRemember
  <2> QED
    BY <2>1, <2>2
<1>7. TransactionsRemember'
  BY <1>1, <1>5, <1>6 DEF TransactionsRemember
<1> QED
  BY <1>1, <1>2, <1>4, <1>7, WritersStand

\* A row that a poll misses began before the poll before: else the whole page
\* began no earlier, is newer than that poll, and has no room for it only when
\* more rows were added than the limit.
LEMMA PollStep ==
  ASSUME IInv, FeedIInv, Poll
  PROVE  FeedIInv'
<1>1. PICK p \in LatestPages :
        poller' = [before |-> poller.upTo, upTo |-> Len(feed), page |-> p]
  BY DEF Poll
<1> DEFINE N == Len(feed)
           old == poller.upTo
<1>2. /\ N \in Nat /\ DOMAIN feed = 1..N /\ old \in 0..N /\ feed \in Seq(FeedRecord)
      /\ UNCHANGED <<vars, feed, tx>> /\ PollLimit \in Nat \ {0}
  BY FeedFacts, FeedConstants DEF FeedIInv, FeedTypeOK, Poll
<1>3. /\ p \subseteq 1..N
      /\ Cardinality(p) = IF N < PollLimit THEN N ELSE PollLimit
      /\ \A n \in p, m \in (1..N) \ p : feed[n].created_at >= feed[m].created_at
  BY <1>2 DEF LatestPages
<1>4. \A n \in 1..N : feed[n].created_at < n /\ feed[n].created_at \in Nat
  <2>1. \A n \in 1..N : feed[n] \in FeedRecord /\ feed[n].created_at < n
    BY <1>2 DEF FeedIInv, FeedRemembers
  <2> QED
    BY <2>1 DEF FeedRecord
<1>5. ASSUME N - old <= PollLimit, NEW n \in (old + 1)..N, n \notin p
      PROVE  feed[n].created_at < old
  <2>1. SUFFICES ASSUME feed[n].created_at >= old PROVE FALSE
    BY <1>2, <1>4, <1>5
  <2> DEFINE new == (old + 1)..N
  <2>2. \A m \in p : m \in new
    <3> SUFFICES ASSUME NEW m \in p PROVE m \in new
      OBVIOUS
    <3>1. m \in 1..N /\ n \in (1..N) \ p
      BY <1>2, <1>3, <1>5
    <3>2. feed[m].created_at >= feed[n].created_at
      BY <1>3, <3>1
    <3> QED
      BY <1>2, <1>4, <2>1, <3>1, <3>2
  <2>3. /\ IsFiniteSet(new) /\ Cardinality(new) = N - old
    <3>1. /\ old + 1 \in Int /\ N \in Int /\ ~(old + 1 > N)
          /\ N - (old + 1) + 1 = N - old
      BY <1>2, <1>5
    <3> HIDE DEF N, old
    <3> QED
      BY <3>1, FS_Interval
  <2>4. Cardinality(p) \in Nat /\ Cardinality(p) < Cardinality(new)
    <3> HIDE DEF new
    <3>1. /\ IsFiniteSet(p) /\ Cardinality(p) <= Cardinality(new) /\ p # new
          /\ (Cardinality(new) = Cardinality(p) => new = p)
      <4>1. n \in new
        BY <1>5 DEF new
      <4> QED
        BY <1>5, <2>2, <2>3, <4>1, FS_Subset
    <3> QED
      BY <2>3, <3>1, FS_CardinalityType
  <2> QED
    BY <1>2, <1>3, <1>5, <2>3, <2>4
<1>6. PollMissesOnlyOpenTransactions'
  BY <1>1, <1>2, <1>5 DEF PollMissesOnlyOpenTransactions
<1>7. FeedTypeOK'
  <2>1. poller' \in PollerRecord
    BY <1>1, <1>2, <1>3 DEF PollerRecord
  <2> QED
    BY <1>1, <1>2, <1>3, <2>1 DEF FeedIInv, FeedTypeOK
<1>8. TransactionsRemember'
  BY <1>2 DEF FeedIInv, TransactionsRemember, Creates, vars
<1> QED
  BY <1>2, <1>6, <1>7, <1>8, FeedStands DEF vars

-----------------------------------------------------------------------------
(* The theorems about the feed.                                            *)

\* Every step keeps the invariant.
LEMMA StepFeedIInv == IInv /\ FeedIInv /\ [FeedNext]_feedVars => FeedIInv'
<1> SUFFICES ASSUME IInv, FeedIInv, [FeedNext]_feedVars
             PROVE  FeedIInv'
  OBVIOUS
<1>0. Requests \subseteq Writers /\ AlertIds \subseteq Writers /\ Tasks \subseteq Writers
  BY FeedFacts
<1>1. ASSUME NEW r \in Requests, NEW S \in SUBSET Resources, Authorize(r, S)
      PROVE  FeedIInv'
  BY <1>0, <1>1, BeginStep DEF Authorize, Told
<1>2. ASSUME NEW a \in AlertIds, Deliver(a) PROVE FeedIInv'
  BY <1>0, <1>2, BeginStep DEF Deliver
<1>3. ASSUME NEW k \in Tasks, NEW a \in AlertIds, BeginAnalysis(k, a) PROVE FeedIInv'
  <2>1. {a} \in SUBSET Resources
    BY DEF Resources
  <2> QED
    BY <1>0, <1>3, <2>1, BeginStep DEF BeginAnalysis
<1>4. CASE UNCHANGED feedVars
  <2>1. FeedTypeOK' /\ TransactionsRemember' /\ PollMissesOnlyOpenTransactions'
    BY <1>4 DEF feedVars, vars, FeedIInv, FeedTypeOK, TransactionsRemember, Creates,
       PollMissesOnlyOpenTransactions
  <2> QED
    BY <1>4, <2>1, FeedStands DEF feedVars, vars
<1> QED
  BY <1>1, <1>2, <1>3, <1>4, LoadNamedStep, PublishStatusStep, PublishIncidentStep,
     PublishAlertStep, PublishAnalysisStep, RollbackStep, PollStep DEF FeedNext

\* The invariant holds in every state, however the transactions overlap.
THEOREM FeedInvariance == FeedSpec => []FeedIInv
BY InitFeedIInv, StepFeedIInv, FeedIsWork, Invariance, PTL DEF FeedSpec

\* Nothing about a resource is ever listed below its creation.
THEOREM CreationsAreListedFirst == FeedSpec => []CreationIsListedFirst
<1>1. FeedIInv => CreationIsListedFirst
  BY DEF FeedIInv
<1> QED
  BY <1>1, FeedInvariance, PTL

\* A poll that comes before more rows than its limit misses only rows of
\* transactions that were open at the poll before.
THEOREM PollsMissOnlyOpenTransactions == FeedSpec => []PollMissesOnlyOpenTransactions
<1>1. FeedIInv => PollMissesOnlyOpenTransactions
  BY DEF FeedIInv
<1> QED
  BY <1>1, FeedInvariance, PTL

\* The log gives a resource one status.
LEMMA StatusUnique ==
  ASSUME NEW log, NEW n \in Nat, NEW x, NEW s, NEW t,
         StatusAfter(log, n, x, s), StatusAfter(log, n, x, t)
  PROVE  s = t
<1>1. CASE \A m \in 1..n : ~Moves(log[m], x)
  BY <1>1 DEF StatusAfter
<1>2. CASE ~ \A m \in 1..n : ~Moves(log[m], x)
  <2>1. PICK j \in 1..n : /\ Moves(log[j], x) /\ log[j].to = s
                          /\ \A k \in (j+1)..n : ~Moves(log[k], x)
    BY <1>2 DEF StatusAfter
  <2>2. PICK i \in 1..n : /\ Moves(log[i], x) /\ log[i].to = t
                          /\ \A k \in (i+1)..n : ~Moves(log[k], x)
    BY <1>2 DEF StatusAfter
  <2>3. j = i
    <3>1. j \notin (i+1)..n /\ i \notin (j+1)..n
      BY <2>1, <2>2
    <3> QED
      BY <3>1
  <2> QED
    BY <2>1, <2>2, <2>3
<1> QED
  BY <1>1, <1>2

\* When the requests about x have not overlapped, its status row with the
\* latest created_at is the last that was committed.
LEMMA NewestIsLast ==
  ASSUME IInv, FeedIInv, NEW x \in Resources, NeverOverlapped(x), NEW n \in StatusRows(x),
         \A m \in StatusRows(x) : feed[m].created_at <= feed[n].created_at
  PROVE  /\ n \in 1..Len(feed) /\ feed[n].row \in 1..Len(audit)
         /\ audit[feed[n].row].resource = x
         /\ \A k \in (feed[n].row + 1)..Len(audit) : audit[k].resource # x
         /\ \A k \in (seen[feed[n].row] + 1)..(feed[n].row - 1) : audit[k].resource # x
<1>1. /\ Len(feed) \in Nat /\ DOMAIN feed = 1..Len(feed) /\ Len(audit) \in Nat
      /\ DOMAIN audit = 1..Len(audit)
  BY FeedFacts
<1>2. \A m \in 1..Len(feed) :
        /\ feed[m] \in FeedRecord /\ feed[m].created_at < m
        /\ feed[m].created_at \in Nat /\ feed[m].row \in 0..Len(audit)
  <2>1. \A m \in 1..Len(feed) : feed[m] \in FeedRecord
    BY FeedFacts
  <2> QED
    BY <1>1, <2>1 DEF FeedRecord, FeedIInv, FeedRemembers, FeedHasLog
<1>3. /\ n \in 1..Len(feed) /\ feed[n].row \in 1..Len(audit)
      /\ audit[feed[n].row].resource = x /\ feed[n].row # 0
  BY <1>1, <1>2 DEF StatusRows
<1>4. ASSUME NEW m \in StatusRows(x) PROVE m \in 1..Len(feed) /\ m <= n
  <2>1. m \in 1..Len(feed) /\ feed[m].created_at <= feed[n].created_at
    BY <1>1 DEF StatusRows
  <2>2. ASSUME n < m PROVE FALSE
    <3>1. n <= feed[m].created_at
      BY <2>2 DEF NeverOverlapped
    <3> QED
      BY <1>2, <1>3, <2>1, <3>1
  <2> QED
    BY <1>3, <2>1, <2>2
<1>5. ASSUME NEW k \in 1..Len(audit), audit[k].resource = x, k # feed[n].row
      PROVE  \E m \in StatusRows(x) : m < n /\ feed[m].row = k /\ k < feed[n].row
  <2>1. PICK m \in DOMAIN feed : feed[m].row = k
    BY <1>1 DEF FeedIInv, FeedHasLog
  <2>2. m \in StatusRows(x)
    BY <1>5, <2>1 DEF StatusRows
  <2>3. m < n
    BY <1>3, <1>4, <1>5, <2>1, <2>2
  <2>4. feed[m].row < feed[n].row
    BY <1>1, <1>3, <2>1, <2>3 DEF FeedIInv, FeedHasLog
  <2> QED
    BY <2>1, <2>2, <2>3, <2>4
<1>6. ASSUME NEW k \in (feed[n].row + 1)..Len(audit) PROVE audit[k].resource # x
  <2>1. k \in 1..Len(audit) /\ k # feed[n].row /\ ~(k < feed[n].row)
    BY <1>1, <1>3
  <2> QED
    BY <1>5, <2>1
<1>7. ASSUME NEW k \in (seen[feed[n].row] + 1)..(feed[n].row - 1) PROVE audit[k].resource # x
  <2>1. seen[feed[n].row] \in Nat
    BY <1>3, FeedFacts
  <2>2. k \in 1..Len(audit) /\ k # feed[n].row /\ ~(k <= seen[feed[n].row])
    BY <1>1, <1>3, <2>1
  <2>3. SUFFICES ASSUME audit[k].resource = x PROVE FALSE
    OBVIOUS
  <2>4. PICK m \in StatusRows(x) : m < n /\ feed[m].row = k
    BY <1>5, <2>2, <2>3
  <2>5. m \in 1..feed[n].created_at
    BY <1>2, <1>3, <1>4, <2>4 DEF NeverOverlapped
  <2>6. feed[m].row <= seen[feed[n].row]
    BY <1>1, <1>3, <2>5 DEF FeedIInv, FeedRemembers
  <2> QED
    BY <2>2, <2>4, <2>6
<1> QED
  BY <1>3, <1>6, <1>7

\* The newest row about a resource tells its status when the requests about
\* it have not overlapped, whatever overlapped elsewhere: a stale `from`
\* takes an overlap (StaleFromOverlaps), and the log explains the rest.
THEOREM NewestRowsTellStatus == FeedSpec => []NewestRowTellsStatus
<1>1. IInv /\ FeedIInv /\ StaleFromOnlyByOverlap => NewestRowTellsStatus
  <2> SUFFICES ASSUME IInv, FeedIInv, StaleFromOnlyByOverlap,
                      NEW x \in Resources, NeverOverlapped(x), NEW n \in StatusRows(x),
                      \A m \in StatusRows(x) : feed[m].created_at <= feed[n].created_at
               PROVE  audit[feed[n].row].to = status[x]
    BY DEF NewestRowTellsStatus
  <2>1. PICK i \in 1..Len(audit) :
          /\ i = feed[n].row /\ audit[i].resource = x
          /\ \A k \in (i + 1)..Len(audit) : audit[k].resource # x
          /\ \A k \in (seen[i] + 1)..(i - 1) : audit[k].resource # x
    BY NewestIsLast
  <2>2. /\ audit \in Seq(AuditRecord) /\ Len(audit) \in Nat /\ DOMAIN audit = 1..Len(audit)
        /\ StatusAfter(audit, Len(audit), x, status[x])
    BY FeedFacts DEF IInv, AuditExplainsStatus
  <2>3. \A k \in (i + 1)..Len(audit) : ~Moves(audit[k], x)
    BY <2>1 DEF Moves
  <2>4. CASE audit[i].from # audit[i].to
    <3>1. StatusAfter(audit, Len(audit), x, audit[i].to)
      BY <2>1, <2>3, <2>4 DEF StatusAfter, Moves
    <3> QED
      BY <2>1, <2>2, <3>1, StatusUnique
  <2>5. CASE audit[i].from = audit[i].to
    <3>1. StatusAfter(audit, i - 1, x, audit[i].from)
      BY <2>1, <2>2 DEF StaleFromOnlyByOverlap
    <3>2. \A k \in ((i - 1) + 1)..Len(audit) : ~Moves(audit[k], x)
      BY <2>2, <2>3, <2>5 DEF Moves
    <3>3. i - 1 \in 0..Len(audit) /\ Len(audit) \in (i - 1)..Len(audit)
      BY <2>2
    <3>4. StatusAfter(audit, Len(audit), x, audit[i].from)
      BY <2>2, <3>1, <3>2, <3>3, StatusStays
    <3> QED
      BY <2>1, <2>2, <2>5, <3>4, StatusUnique
  <2> QED
    BY <2>4, <2>5
<1> QED
  BY <1>1, FeedInvariance, FeedIsWork, Invariance, StaleFromOverlaps, PTL

=============================================================================
