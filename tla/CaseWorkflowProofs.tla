------------------------- MODULE CaseWorkflowProofs -------------------------
(***************************************************************************)
(* Proofs about CaseWorkflow, for any number of alerts, incidents and      *)
(* requests, any length of the log, and any statuses operators ask for.    *)
(*                                                                         *)
(* What the log says of a resource (StatusAfter, LinkAfter) refers only to *)
(* the rows up to some n, so appending a row disturbs nothing said about   *)
(* the rows before it.  The first lemmas state that once; the invariance   *)
(* proof then has one step per action.                                     *)
(***************************************************************************)
EXTENDS CaseWorkflow, TLAPS

-----------------------------------------------------------------------------
(* Lemmas about reading the log.                                           *)

\* What Append does to length, domain and elements.
LEMMA AppendFacts ==
  ASSUME NEW S, NEW s \in Seq(S), NEW e \in S
  PROVE  /\ Append(s, e) \in Seq(S)
         /\ Len(s) \in Nat
         /\ Len(Append(s, e)) = Len(s) + 1
         /\ DOMAIN s = 1..Len(s)
         /\ DOMAIN Append(s, e) = 1..(Len(s) + 1)
         /\ \A n \in 1..Len(s) : Append(s, e)[n] = s[n]
         /\ Append(s, e)[Len(s) + 1] = e
  OBVIOUS

\* A new row changes nothing the log said up to an earlier row.
LEMMA StatusKept ==
  ASSUME NEW log \in Seq(AuditRecord), NEW e \in AuditRecord,
         NEW n \in 0..Len(log), NEW x, NEW s, StatusAfter(log, n, x, s)
  PROVE  StatusAfter(Append(log, e), n, x, s)
<1>1. \A m \in 1..n : Append(log, e)[m] = log[m]
  BY AppendFacts
<1> QED
  BY <1>1 DEF StatusAfter

\* Rows that do not move x leave its status.
LEMMA StatusStays ==
  ASSUME NEW log \in Seq(AuditRecord),
         NEW n \in 0..Len(log), NEW m \in n..Len(log), NEW x, NEW s,
         StatusAfter(log, n, x, s),
         \A k \in (n+1)..m : ~Moves(log[k], x)
  PROVE  StatusAfter(log, m, x, s)
<1>1. \A k \in 1..m : k \in 1..n \/ k \in (n+1)..m
  OBVIOUS
<1>2. CASE s = Absent /\ \A k \in 1..n : ~Moves(log[k], x)
  BY <1>1, <1>2 DEF StatusAfter
<1>3. ASSUME NEW j \in 1..n, Moves(log[j], x), log[j].to = s,
             \A k \in (j+1)..n : ~Moves(log[k], x)
      PROVE  StatusAfter(log, m, x, s)
  <2>1. j \in 1..m
    OBVIOUS
  <2>2. \A k \in (j+1)..m : k \in (j+1)..n \/ k \in (n+1)..m
    OBVIOUS
  <2>3. \A k \in (j+1)..m : ~Moves(log[k], x)
    BY <1>3, <2>2
  <2> QED
    BY <1>3, <2>1, <2>3 DEF StatusAfter
<1> QED
  BY <1>2, <1>3 DEF StatusAfter

\* A row that does not move x leaves the status the whole log gives it.
LEMMA StatusPassed ==
  ASSUME NEW log \in Seq(AuditRecord), NEW e \in AuditRecord, NEW x, NEW s,
         StatusAfter(log, Len(log), x, s), ~Moves(e, x)
  PROVE  StatusAfter(Append(log, e), Len(log) + 1, x, s)
<1>1. StatusAfter(Append(log, e), Len(log), x, s)
  BY StatusKept
<1>2. \A k \in (Len(log) + 1)..(Len(log) + 1) : ~Moves(Append(log, e)[k], x)
  BY AppendFacts
<1>3. /\ Append(log, e) \in Seq(AuditRecord)
      /\ Len(log) \in 0..Len(Append(log, e))
      /\ Len(log) + 1 \in Len(log)..Len(Append(log, e))
  BY AppendFacts
<1> QED
  BY <1>1, <1>2, <1>3, StatusStays

\* A row that moves x gives it the status the row ends in.
LEMMA StatusMoved ==
  ASSUME NEW log \in Seq(AuditRecord), NEW e \in AuditRecord, NEW x,
         Moves(e, x)
  PROVE  StatusAfter(Append(log, e), Len(log) + 1, x, e.to)
<1> DEFINE N == Len(log) + 1
<1>1. N \in 1..N /\ Append(log, e)[N] = e
  BY AppendFacts
<1>2. (N + 1)..N = {}
  BY AppendFacts
<1> QED
  BY <1>1, <1>2 DEF StatusAfter

\* When every row ends in a stored status, a resource the log leaves absent
\* was never moved.
LEMMA AbsentNeverMoved ==
  ASSUME NEW log, NEW n \in Nat, NEW x, StatusAfter(log, n, x, Absent),
         \A m \in 1..n : log[m].to # Absent
  PROVE  \A m \in 1..n : ~Moves(log[m], x)
  BY DEF StatusAfter

\* A status other than "absent" is one some row of x ended in.
LEMMA StatusReached ==
  ASSUME NEW log, NEW n \in Nat, NEW x, NEW s,
         StatusAfter(log, n, x, s), s # Absent
  PROVE  \E m \in 1..n : log[m].resource = x /\ log[m].to = s
  BY DEF StatusAfter, Moves

\* A row that does not name a leaves its link.
LEMMA LinkPassed ==
  ASSUME NEW log \in Seq(AuditRecord), NEW e \in AuditRecord, NEW a, NEW i,
         LinkAfter(log, Len(log), a, i), a \notin e.alerts
  PROVE  LinkAfter(Append(log, e), Len(log) + 1, a, i)
<1> DEFINE N == Len(log) + 1
           l == Append(log, e)
<1>1. /\ \A m \in 1..Len(log) : l[m] = log[m]
      /\ l[N] = e
      /\ Len(log) \in Nat
  BY AppendFacts
<1>2. \A m \in 1..N : m \in 1..Len(log) \/ m = N
  BY <1>1
<1> HIDE DEF l
<1>3. CASE i = NoIncident /\ \A m \in 1..Len(log) : a \notin log[m].alerts
  <2>1. \A m \in 1..N : a \notin l[m].alerts
    BY <1>1, <1>2, <1>3
  <2>2. LinkAfter(l, N, a, i)
    BY <1>3, <2>1 DEF LinkAfter
  <2> QED
    BY <2>2 DEF l
<1>4. ASSUME NEW j \in 1..Len(log), a \in log[j].alerts, log[j].resource = i,
             \A k \in (j+1)..Len(log) : a \notin log[k].alerts
      PROVE  LinkAfter(Append(log, e), Len(log) + 1, a, i)
  <2>1. j \in 1..N /\ l[j] = log[j]
    BY <1>1
  <2>2. \A k \in (j+1)..N : k \in (j+1)..Len(log) \/ k = N
    BY <1>1
  <2>3. \A k \in (j+1)..N : a \notin l[k].alerts
    BY <1>1, <1>4, <2>2
  <2>4. LinkAfter(l, N, a, i)
    BY <1>4, <2>1, <2>3 DEF LinkAfter
  <2> QED
    BY <2>4 DEF l
<1> QED
  BY <1>3, <1>4 DEF LinkAfter

\* A row that names a links it to the row's incident.
LEMMA LinkMoved ==
  ASSUME NEW log \in Seq(AuditRecord), NEW e \in AuditRecord,
         NEW a \in e.alerts
  PROVE  LinkAfter(Append(log, e), Len(log) + 1, a, e.resource)
<1> DEFINE N == Len(log) + 1
<1>1. N \in 1..N /\ Append(log, e)[N] = e
  BY AppendFacts
<1>2. (N + 1)..N = {}
  BY AppendFacts
<1> QED
  BY <1>1, <1>2 DEF LinkAfter

\* An alert the log leaves in no incident was never named.
LEMMA UnlinkedNeverNamed ==
  ASSUME NEW log \in Seq(AuditRecord), NEW n \in 0..Len(log), NEW a,
         LinkAfter(log, n, a, NoIncident)
  PROVE  \A m \in 1..n : a \notin log[m].alerts
<1>1. \A m \in 1..n : log[m].resource # NoIncident
  <2> SUFFICES ASSUME NEW m \in 1..n PROVE log[m].resource # NoIncident
    OBVIOUS
  <2>1. log[m] \in AuditRecord
    OBVIOUS
  <2> QED
    BY <2>1, DisjointIds DEF AuditRecord
<1> QED
  BY <1>1 DEF LinkAfter

-----------------------------------------------------------------------------
(* The inductive invariant.                                                *)

\* Everything holds of the empty database.
LEMMA InitIInv == Init => IInv
<1> SUFFICES ASSUME Init PROVE IInv
  OBVIOUS
<1> USE DEF Init
<1>1. TypeOK
  BY DEF TypeOK, Statuses, RequestRecord, IdleRequest
<1>2. RequestsRemember
  BY DEF RequestsRemember, IdleRequest
<1>3. RowsRemember /\ RowsWellFormed /\ OnlyOverlapRegroups
  BY DEF RowsRemember, RowsWellFormed, OnlyOverlapRegroups, Exists
<1>4. AuditExplainsStatus /\ AuditExplainsLinks
  BY DEF AuditExplainsStatus, AuditExplainsLinks, StatusAfter, LinkAfter
<1> QED
  BY <1>1, <1>2, <1>3, <1>4 DEF IInv

\* What one new audit row does to everything said about the log.  The
\* hypotheses are what each of the three committing actions knows about its
\* request: its `from` was true when it read, or is true now, and the alerts
\* it groups were named by no row it had seen.
LEMMA RecordStep ==
  ASSUME IInv,
         NEW x \in Resources, NEW s \in Statuses, NEW t \in Statuses,
         NEW S \in SUBSET AlertIds, NEW n \in 0..Len(audit),
         Record(x, s, t, S, n),
         t # Absent,
         S # {} => x \in IncidentIds,
         StatusAfter(audit, n, x, s) \/ StatusAfter(audit, Len(audit), x, s),
         \A m \in 1..n : audit[m].alerts \intersect S = {}
  PROVE  LET e == [resource |-> x, from |-> s, to |-> t, alerts |-> S] IN
         /\ e \in AuditRecord
         /\ audit' = Append(audit, e)
         /\ audit' \in Seq(AuditRecord)
         /\ seen' \in Seq(Nat)
         /\ Len(seen') = Len(audit')
         /\ Len(audit') = Len(audit) + 1
         /\ \A m \in 1..Len(audit) : audit'[m] = audit[m]
         /\ RowsRemember'
         /\ OnlyOverlapRegroups'
         /\ \A m \in DOMAIN audit' :
              /\ audit'[m].to # Absent
              /\ audit'[m].alerts # {} => audit'[m].resource \in IncidentIds
<1> DEFINE e == [resource |-> x, from |-> s, to |-> t, alerts |-> S]
           N == Len(audit) + 1
<1>1. e \in AuditRecord
  BY DEF AuditRecord
<1>2. audit' = Append(audit, e) /\ seen' = Append(seen, n)
  BY DEF Record
<1>3. e.resource = x /\ e.from = s /\ e.to = t /\ e.alerts = S
  OBVIOUS
<1> HIDE DEF e
<1>4. audit \in Seq(AuditRecord) /\ seen \in Seq(Nat) /\ Len(seen) = Len(audit)
  BY DEF IInv, TypeOK
<1>5. /\ audit' \in Seq(AuditRecord)
      /\ Len(audit) \in Nat
      /\ Len(audit') = N
      /\ DOMAIN audit = 1..Len(audit)
      /\ DOMAIN audit' = 1..N
      /\ \A m \in 1..Len(audit) : audit'[m] = audit[m]
      /\ audit'[N] = e
  BY <1>1, <1>2, <1>4, AppendFacts
<1>6. /\ seen' \in Seq(Nat)
      /\ Len(seen') = N
      /\ \A m \in 1..Len(audit) : seen'[m] = seen[m]
      /\ seen'[N] = n
  BY <1>2, <1>4, AppendFacts
<1>7. \A m \in 1..N : m \in 1..Len(audit) \/ m = N
  BY <1>5
<1>8. RowsRemember'
  <2> SUFFICES ASSUME NEW m \in 1..N
               PROVE  /\ seen'[m] < m
                      /\ \/ StatusAfter(audit', seen'[m], audit'[m].resource, audit'[m].from)
                         \/ StatusAfter(audit', m - 1, audit'[m].resource, audit'[m].from)
    BY <1>5 DEF RowsRemember
  <2>1. CASE m \in 1..Len(audit)
    <3>1. /\ seen[m] < m
          /\ \/ StatusAfter(audit, seen[m], audit[m].resource, audit[m].from)
             \/ StatusAfter(audit, m - 1, audit[m].resource, audit[m].from)
      BY <1>5, <2>1 DEF IInv, RowsRemember
    <3>2. seen[m] \in 0..Len(audit) /\ m - 1 \in 0..Len(audit)
      BY <1>4, <1>5, <2>1, <3>1
    <3> QED
      BY <1>1, <1>2, <1>4, <1>5, <1>6, <2>1, <3>1, <3>2, StatusKept
  <2>2. CASE m = N
    <3>1. seen'[m] = n /\ n < m /\ m - 1 = Len(audit) /\ audit'[m] = e
      BY <1>5, <1>6, <2>2
    <3>2. n \in 0..Len(audit) /\ Len(audit) \in 0..Len(audit)
      BY <1>5
    <3>3. \/ StatusAfter(audit', n, x, s)
          \/ StatusAfter(audit', Len(audit), x, s)
      BY <1>1, <1>2, <1>4, <3>2, StatusKept
    <3> QED
      BY <1>3, <3>1, <3>3
  <2> QED
    BY <1>7, <2>1, <2>2
<1>9. OnlyOverlapRegroups'
  <2> SUFFICES ASSUME NEW k \in 1..N, NEW m \in 1..N, k < m,
                      audit'[k].alerts \intersect audit'[m].alerts # {}
               PROVE  seen'[m] < k
    BY <1>5 DEF OnlyOverlapRegroups
  <2>1. k \in 1..Len(audit)
    BY <1>5
  <2>2. CASE m \in 1..Len(audit)
    BY <1>5, <1>6, <2>1, <2>2 DEF IInv, OnlyOverlapRegroups
  <2>3. CASE m = N
    <3>1. audit[k].alerts \intersect S # {} /\ seen'[m] = n
      BY <1>3, <1>5, <1>6, <2>1, <2>3
    <3>2. ~(k \in 1..n)
      BY <3>1
    <3> QED
      BY <3>1, <3>2, <2>1, <1>5
  <2> QED
    BY <1>7, <2>2, <2>3
<1>10. \A m \in DOMAIN audit' :
         /\ audit'[m].to # Absent
         /\ audit'[m].alerts # {} => audit'[m].resource \in IncidentIds
  <2> SUFFICES ASSUME NEW m \in 1..N
               PROVE  /\ audit'[m].to # Absent
                      /\ audit'[m].alerts # {} => audit'[m].resource \in IncidentIds
    BY <1>5
  <2>1. CASE m \in 1..Len(audit)
    BY <1>5, <2>1 DEF IInv, RowsWellFormed
  <2>2. CASE m = N
    BY <1>3, <1>5, <2>2
  <2> QED
    BY <1>7, <2>1, <2>2
<1> QED
  BY <1>1, <1>2, <1>5, <1>6, <1>8, <1>9, <1>10 DEF e

\* Requests in flight keep what they remember when a row is appended and no
\* stored row disappears; the one that wrote it is idle again.
LEMMA RememberStep ==
  ASSUME IInv, NEW e \in AuditRecord, audit' = Append(audit, e),
         \A x \in Resources : Exists(x) => Exists(x)',
         \A r \in Requests : req'[r] = req[r] \/ req'[r] = IdleRequest
  PROVE  RequestsRemember'
<1>1. audit \in Seq(AuditRecord) /\ req \in [Requests -> RequestRecord]
  BY DEF IInv, TypeOK
<1>2. /\ Len(audit) \in Nat
      /\ Len(audit') = Len(audit) + 1
      /\ \A m \in 1..Len(audit) : audit'[m] = audit[m]
  BY <1>1, AppendFacts
<1> SUFFICES ASSUME NEW r \in Requests
             PROVE  RequestsRemember!(r)'
  BY DEF RequestsRemember
<1>3. CASE req'[r] = IdleRequest
  BY <1>2, <1>3 DEF IdleRequest
<1>4. CASE req'[r] = req[r]
  <2>1. RequestsRemember!(r)
    BY DEF IInv, RequestsRemember
  <2>2. req[r].seen \in 0..Len(audit) /\ req[r].alerts \in SUBSET AlertIds
    BY <1>1, <1>2, <2>1 DEF RequestRecord
  <2>3. \A a \in AlertIds : a \in Resources
    BY DEF Resources
  <2>4. req[r].seen <= Len(audit')
    BY <1>2, <2>2
  <2>5. ASSUME req[r].pc = "loaded"
        PROVE  StatusAfter(audit', req[r].seen, req[r].resource, req[r].loaded)
    BY <1>1, <2>1, <2>2, <2>5, StatusKept
  <2>6. ASSUME req[r].pc = "validated"
        PROVE  /\ \A a \in req[r].alerts : Exists(a)'
               /\ \A m \in 1..req[r].seen :
                    audit'[m].alerts \intersect req[r].alerts = {}
    BY <1>2, <2>1, <2>2, <2>3, <2>6
  <2> QED
    BY <1>4, <2>1, <2>4, <2>5, <2>6
<1> QED
  BY <1>3, <1>4

\* Statuses keep being explained by the log: one row about x, which moves x
\* exactly when it changes x's status, and touches no other status.
LEMMA ExplainStatusStep ==
  ASSUME IInv, NEW e \in AuditRecord, audit' = Append(audit, e),
         \A x \in Resources :
           status'[x] = IF Moves(e, x) THEN e.to ELSE status[x]
  PROVE  AuditExplainsStatus'
<1>1. audit \in Seq(AuditRecord)
  BY DEF IInv, TypeOK
<1>2. Len(audit') = Len(audit) + 1
  BY <1>1, AppendFacts
<1> SUFFICES ASSUME NEW x \in Resources
             PROVE  StatusAfter(audit', Len(audit) + 1, x, status'[x])
  BY <1>2 DEF AuditExplainsStatus
<1>3. CASE Moves(e, x)
  BY <1>1, <1>3, StatusMoved
<1>4. CASE ~Moves(e, x)
  <2>1. StatusAfter(audit, Len(audit), x, status[x])
    BY DEF IInv, AuditExplainsStatus
  <2> QED
    BY <1>1, <1>4, <2>1, StatusPassed
<1> QED
  BY <1>3, <1>4

\* Links keep being explained by the log: a row links exactly the alerts it
\* names, and links them to its own resource.
LEMMA ExplainLinksStep ==
  ASSUME IInv, NEW e \in AuditRecord, audit' = Append(audit, e),
         \A a \in AlertIds :
           link'[a] = IF a \in e.alerts THEN e.resource ELSE link[a]
  PROVE  AuditExplainsLinks'
<1>1. audit \in Seq(AuditRecord)
  BY DEF IInv, TypeOK
<1>2. Len(audit') = Len(audit) + 1
  BY <1>1, AppendFacts
<1> SUFFICES ASSUME NEW a \in AlertIds
             PROVE  LinkAfter(audit', Len(audit) + 1, a, link'[a])
  BY <1>2 DEF AuditExplainsLinks
<1>3. CASE a \in e.alerts
  BY <1>1, <1>3, LinkMoved
<1>4. CASE a \notin e.alerts
  <2>1. LinkAfter(audit, Len(audit), a, link[a])
    BY DEF IInv, AuditExplainsLinks
  <2> QED
    BY <1>1, <1>4, <2>1, LinkPassed
<1> QED
  BY <1>3, <1>4

\* Every stored resource keeps its creation row, and a new one gets it.
LEMMA CreationStep ==
  ASSUME IInv, NEW e \in AuditRecord, audit' = Append(audit, e),
         \A x \in Resources : Exists(x)' =>
           Exists(x) \/ (e.resource = x /\ e.from = Absent)
  PROVE  \A x \in Resources : Exists(x)' =>
           \E n \in DOMAIN audit' :
             audit'[n].resource = x /\ audit'[n].from = Absent
<1>1. audit \in Seq(AuditRecord)
  BY DEF IInv, TypeOK
<1>2. /\ DOMAIN audit = 1..Len(audit)
      /\ DOMAIN audit' = 1..(Len(audit) + 1)
      /\ \A m \in 1..Len(audit) : audit'[m] = audit[m]
      /\ audit'[Len(audit) + 1] = e
      /\ Len(audit) \in Nat
  BY <1>1, AppendFacts
<1> SUFFICES ASSUME NEW x \in Resources, Exists(x)'
             PROVE  \E n \in DOMAIN audit' :
                      audit'[n].resource = x /\ audit'[n].from = Absent
  OBVIOUS
<1>3. CASE Exists(x)
  <2>1. PICK n \in 1..Len(audit) :
          audit[n].resource = x /\ audit[n].from = Absent
    BY <1>2, <1>3 DEF IInv, RowsWellFormed
  <2>2. n \in DOMAIN audit' /\ audit'[n] = audit[n]
    BY <1>2
  <2> QED
    BY <2>1, <2>2
<1>4. CASE e.resource = x /\ e.from = Absent
  <2>1. Len(audit) + 1 \in DOMAIN audit'
    BY <1>2
  <2> QED
    BY <1>2, <1>4, <2>1
<1> QED
  BY <1>3, <1>4

\* Every step keeps the inductive invariant.
LEMMA StepIInv == IInv /\ [Next]_vars => IInv'
<1> SUFFICES ASSUME IInv, [Next]_vars PROVE IInv'
  OBVIOUS
<1> USE DEF IInv
<1>0. /\ TypeOK
      /\ Len(audit) \in Nat
      /\ AlertIds \subseteq Resources /\ IncidentIds \subseteq Resources
      /\ {"new", "open", Absent} \subseteq Statuses
      /\ \A x : StatusesOf(x) \subseteq Statuses \ {Absent}
      /\ IdleRequest \in RequestRecord
  BY DEF TypeOK, Resources, Statuses, StatusesOf, AlertStatus,
         IncidentStatus, Absent, IdleRequest, RequestRecord
<1>1. ASSUME NEW a \in AlertIds, CreateAlert(a)
      PROVE  IInv'
  <2> DEFINE e == [resource |-> a, from |-> Absent, to |-> "new", alerts |-> {}]
  <2>1. /\ Record(a, Absent, "new", {}, Len(audit))
        /\ status' = [status EXCEPT ![a] = "new"]
        /\ status[a] = Absent
        /\ UNCHANGED <<link, req>>
    BY <1>1 DEF CreateAlert, Exists
  <2>2. StatusAfter(audit, Len(audit), a, Absent)
    BY <1>0, <2>1 DEF AuditExplainsStatus
  <2>2a. /\ "new" # Absent
         /\ Len(audit) \in 0..Len(audit)
         /\ a \in Resources /\ Absent \in Statuses /\ "new" \in Statuses
         /\ {} \in SUBSET AlertIds
         /\ \A m \in 1..Len(audit) : audit[m].alerts \intersect {} = {}
    BY <1>0 DEF Absent
  <2>3. /\ e \in AuditRecord
        /\ audit' = Append(audit, e)
        /\ audit' \in Seq(AuditRecord)
        /\ seen' \in Seq(Nat)
        /\ Len(seen') = Len(audit')
        /\ RowsRemember'
        /\ OnlyOverlapRegroups'
        /\ \A m \in DOMAIN audit' :
             /\ audit'[m].to # Absent
             /\ audit'[m].alerts # {} => audit'[m].resource \in IncidentIds
    BY <2>1, <2>2, <2>2a, RecordStep
  <2>4. /\ e.resource = a /\ e.from = Absent /\ e.to = "new" /\ e.alerts = {}
        /\ \A x : Moves(e, x) <=> x = a
    BY DEF Moves, Absent
  <2> HIDE DEF e
  <2>5. TypeOK'
    BY <1>0, <2>1, <2>3 DEF TypeOK, StatusesOf, AlertStatus
  <2>6. RequestsRemember'
    BY <1>0, <2>1, <2>3, RememberStep DEF Exists, TypeOK, Absent
  <2>7. AuditExplainsStatus'
    BY <1>0, <2>1, <2>3, <2>4, ExplainStatusStep DEF TypeOK
  <2>8. AuditExplainsLinks'
    BY <2>1, <2>3, <2>4, ExplainLinksStep
  <2>9. RowsWellFormed'
    <3>1. \A x \in Resources : Exists(x)' =>
            Exists(x) \/ (e.resource = x /\ e.from = Absent)
      BY <1>0, <2>1, <2>4 DEF Exists, TypeOK
    <3> QED
      BY <2>3, <3>1, CreationStep DEF RowsWellFormed
  <2> QED
    BY <2>3, <2>5, <2>6, <2>7, <2>8, <2>9
<1>2. ASSUME NEW r \in Requests, NEW x \in Resources,
             NEW t \in AskedOfAlerts \union AskedOfIncidents,
             LoadForStatus(r, x, t)
      PROVE  IInv'
  <2> DEFINE q == [IdleRequest EXCEPT !.pc = "loaded", !.resource = x,
                                      !.loaded = status[x], !.asked = t,
                                      !.seen = Len(audit)]
  <2>1. /\ req' = [req EXCEPT ![r] = q]
        /\ UNCHANGED <<status, link, audit, seen>>
        /\ status[x] # Absent
        /\ t \in StatusesOf(x)
    BY <1>2, AskedStatuses DEF LoadForStatus, Askable, Exists, StatusesOf
  <2>2. status[x] \in StatusesOf(x) /\ status[x] \in Statuses
    BY <1>0, <2>1 DEF TypeOK
  <2>3. /\ q \in RequestRecord
        /\ q.pc = "loaded" /\ q.resource = x /\ q.loaded = status[x]
        /\ q.asked = t /\ q.seen = Len(audit)
    BY <1>0, <2>1, <2>2 DEF IdleRequest, RequestRecord
  <2> HIDE DEF q
  <2>4. TypeOK'
    BY <1>0, <2>1, <2>3 DEF TypeOK
  <2>5. StatusAfter(audit, Len(audit), x, status[x])
    BY DEF AuditExplainsStatus
  <2>6. RequestsRemember'
    <3> SUFFICES ASSUME NEW p \in Requests PROVE RequestsRemember!(p)'
      BY DEF RequestsRemember
    <3>1. CASE p = r
      BY <1>0, <2>1, <2>2, <2>3, <2>5, <3>1 DEF TypeOK
    <3>2. CASE p # r
      <4>1. req'[p] = req[p] /\ RequestsRemember!(p)
        BY <1>0, <2>1, <3>2 DEF TypeOK, RequestsRemember
      <4> QED
        BY <2>1, <4>1 DEF Exists
    <3> QED
      BY <3>1, <3>2
  <2> QED
    BY <2>1, <2>4, <2>6 DEF RowsRemember, RowsWellFormed, Exists,
       AuditExplainsStatus, AuditExplainsLinks, OnlyOverlapRegroups
<1>3. ASSUME NEW r \in Requests, CommitStatus(r)
      PROVE  IInv'
  <2> DEFINE x == req[r].resource
             s == req[r].loaded
             t == req[r].asked
             e == [resource |-> x, from |-> s, to |-> t, alerts |-> {}]
  <2>1. /\ req[r].pc = "loaded"
        /\ status' = [status EXCEPT ![x] = Flushed(status[x], s, t)]
        /\ Record(x, s, t, {}, req[r].seen)
        /\ req' = [req EXCEPT ![r] = IdleRequest]
        /\ UNCHANGED link
    BY <1>3 DEF CommitStatus
  <2>2. /\ x \in Resources
        /\ s \in StatusesOf(x) /\ t \in StatusesOf(x)
        /\ req[r].seen \in 0..Len(audit)
        /\ StatusAfter(audit, req[r].seen, x, s)
    BY <1>0, <2>1 DEF RequestsRemember, TypeOK, RequestRecord
  <2>3. s \in Statuses \ {Absent} /\ t \in Statuses \ {Absent}
    BY <1>0, <2>2
  <2> HIDE DEF x, s, t
  <2>4. /\ e \in AuditRecord
        /\ audit' = Append(audit, e)
        /\ audit' \in Seq(AuditRecord)
        /\ seen' \in Seq(Nat)
        /\ Len(seen') = Len(audit')
        /\ RowsRemember'
        /\ OnlyOverlapRegroups'
        /\ \A m \in DOMAIN audit' :
             /\ audit'[m].to # Absent
             /\ audit'[m].alerts # {} => audit'[m].resource \in IncidentIds
    BY <2>1, <2>2, <2>3, RecordStep
  <2>5. /\ e.resource = x /\ e.from = s /\ e.to = t /\ e.alerts = {}
        /\ \A y : Moves(e, y) <=> y = x /\ s # t
    BY DEF Moves
  <2> HIDE DEF e
  <2>6. \A y \in Resources :
          status'[y] = IF Moves(e, y) THEN e.to ELSE status[y]
    BY <1>0, <2>1, <2>2, <2>5 DEF TypeOK, Flushed
  <2>7. \A y \in Resources : Exists(y) <=> Exists(y)'
    <3>1. x \in Resources /\ status[x] # Absent
      <4>1. PICK m \in 1..req[r].seen : audit[m].resource = x /\ audit[m].to = s
        BY <2>2, <2>3, StatusReached
      <4>2. StatusAfter(audit, Len(audit), x, status[x])
        BY <2>2 DEF AuditExplainsStatus
      <4>3. \A k \in 1..Len(audit) : audit[k].to # Absent
        <5>1. audit \in Seq(AuditRecord) /\ DOMAIN audit = 1..Len(audit)
          BY <1>0 DEF TypeOK
        <5> QED
          BY <5>1 DEF RowsWellFormed
      <4>4. PICK k \in 1..req[r].seen : Moves(audit[k], x)
        BY <2>2, <2>3 DEF StatusAfter
      <4>5. k \in 1..Len(audit)
        BY <2>2, <1>0
      <4> QED
        BY <1>0, <2>2, <4>2, <4>3, <4>4, <4>5, AbsentNeverMoved
    <3> QED
      BY <2>3, <2>5, <2>6, <3>1 DEF Exists
  <2>8. TypeOK'
    BY <1>0, <2>1, <2>2, <2>4 DEF TypeOK, Flushed
  <2>9. RequestsRemember'
    BY <1>0, <2>1, <2>4, <2>7, RememberStep DEF TypeOK
  <2>10. AuditExplainsStatus'
    BY <2>4, <2>6, ExplainStatusStep
  <2>11. AuditExplainsLinks'
    BY <2>1, <2>4, <2>5, ExplainLinksStep
  <2>12. RowsWellFormed'
    BY <2>4, <2>7, CreationStep DEF RowsWellFormed
  <2> QED
    BY <2>4, <2>8, <2>9, <2>10, <2>11, <2>12
<1>4. ASSUME NEW r \in Requests, NEW S \in SUBSET AlertIds, SelectAlerts(r, S)
      PROVE  IInv'
  <2> DEFINE q == [IdleRequest EXCEPT !.pc = "validated", !.alerts = S,
                                      !.seen = Len(audit)]
  <2>1. /\ req' = [req EXCEPT ![r] = q]
        /\ UNCHANGED <<status, link, audit, seen>>
        /\ S # {}
        /\ \A a \in S : Exists(a) /\ link[a] = NoIncident
    BY <1>4 DEF SelectAlerts, Groupable
  <2>2. /\ q \in RequestRecord
        /\ q.pc = "validated" /\ q.alerts = S /\ q.seen = Len(audit)
    BY <1>0 DEF IdleRequest, RequestRecord
  <2> HIDE DEF q
  <2>3. TypeOK'
    BY <1>0, <2>1, <2>2 DEF TypeOK
  <2>4. \A m \in 1..Len(audit) : audit[m].alerts \intersect S = {}
    <3>1. \A a \in S : LinkAfter(audit, Len(audit), a, NoIncident)
      BY <2>1 DEF AuditExplainsLinks
    <3>2. \A a \in S : \A m \in 1..Len(audit) : a \notin audit[m].alerts
      BY <1>0, <3>1, UnlinkedNeverNamed DEF TypeOK
    <3> QED
      BY <3>2
  <2>5. RequestsRemember'
    <3> SUFFICES ASSUME NEW p \in Requests PROVE RequestsRemember!(p)'
      BY DEF RequestsRemember
    <3>1. CASE p = r
      BY <1>0, <2>1, <2>2, <2>4, <3>1 DEF TypeOK, Exists
    <3>2. CASE p # r
      <4>1. req'[p] = req[p] /\ RequestsRemember!(p)
        BY <1>0, <2>1, <3>2 DEF TypeOK, RequestsRemember
      <4> QED
        BY <2>1, <4>1 DEF Exists
    <3> QED
      BY <3>1, <3>2
  <2> QED
    BY <2>1, <2>3, <2>5 DEF RowsRemember, RowsWellFormed, Exists,
       AuditExplainsStatus, AuditExplainsLinks, OnlyOverlapRegroups
<1>5. ASSUME NEW r \in Requests, NEW i \in IncidentIds, CommitIncident(r, i)
      PROVE  IInv'
  <2> DEFINE S == req[r].alerts
             e == [resource |-> i, from |-> Absent, to |-> "open", alerts |-> S]
  <2>1. /\ req[r].pc = "validated"
        /\ status[i] = Absent
        /\ status' = [status EXCEPT ![i] = "open"]
        /\ link' = [a \in AlertIds |-> IF a \in S THEN i ELSE link[a]]
        /\ Record(i, Absent, "open", S, req[r].seen)
        /\ req' = [req EXCEPT ![r] = IdleRequest]
    BY <1>5 DEF CommitIncident, Linked, Exists
  <2>2. /\ S \in SUBSET AlertIds
        /\ req[r].seen \in 0..Len(audit)
        /\ \A m \in 1..req[r].seen : audit[m].alerts \intersect S = {}
    BY <1>0, <2>1 DEF RequestsRemember, TypeOK, RequestRecord
  <2> HIDE DEF S
  <2>3. i \in Resources /\ StatusAfter(audit, Len(audit), i, Absent)
    BY <1>0, <2>1 DEF AuditExplainsStatus
  <2>4. /\ e \in AuditRecord
        /\ audit' = Append(audit, e)
        /\ audit' \in Seq(AuditRecord)
        /\ seen' \in Seq(Nat)
        /\ Len(seen') = Len(audit')
        /\ RowsRemember'
        /\ OnlyOverlapRegroups'
        /\ \A m \in DOMAIN audit' :
             /\ audit'[m].to # Absent
             /\ audit'[m].alerts # {} => audit'[m].resource \in IncidentIds
    BY <1>0, <2>1, <2>2, <2>3, RecordStep DEF Absent
  <2>5. /\ e.resource = i /\ e.from = Absent /\ e.to = "open" /\ e.alerts = S
        /\ \A x : Moves(e, x) <=> x = i
    BY DEF Moves, Absent
  <2> HIDE DEF e
  <2>6. TypeOK'
    BY <1>0, <2>1, <2>3, <2>4, DisjointIds DEF TypeOK, StatusesOf, IncidentStatus
  <2>7. RequestsRemember'
    BY <1>0, <2>1, <2>4, RememberStep DEF Exists, TypeOK, Absent
  <2>8. AuditExplainsStatus'
    BY <1>0, <2>1, <2>4, <2>5, ExplainStatusStep DEF TypeOK
  <2>9. AuditExplainsLinks'
    BY <2>1, <2>4, <2>5, ExplainLinksStep
  <2>10. RowsWellFormed'
    <3>1. \A x \in Resources : Exists(x)' =>
            Exists(x) \/ (e.resource = x /\ e.from = Absent)
      BY <1>0, <2>1, <2>5 DEF Exists, TypeOK
    <3> QED
      BY <2>4, <3>1, CreationStep DEF RowsWellFormed
  <2> QED
    BY <2>4, <2>6, <2>7, <2>8, <2>9, <2>10
<1>6. ASSUME NEW r \in Requests, Abort(r)
      PROVE  IInv'
  <2>1. /\ req' = [req EXCEPT ![r] = IdleRequest]
        /\ UNCHANGED <<status, link, audit, seen>>
    BY <1>6 DEF Abort
  <2>2. TypeOK'
    BY <1>0, <2>1 DEF TypeOK
  <2>3. RequestsRemember'
    <3> SUFFICES ASSUME NEW p \in Requests PROVE RequestsRemember!(p)'
      BY DEF RequestsRemember
    <3>1. CASE p = r
      BY <1>0, <2>1, <3>1 DEF TypeOK, IdleRequest
    <3>2. CASE p # r
      <4>1. req'[p] = req[p] /\ RequestsRemember!(p)
        BY <1>0, <2>1, <3>2 DEF TypeOK, RequestsRemember
      <4> QED
        BY <2>1, <4>1 DEF Exists
    <3> QED
      BY <3>1, <3>2
  <2> QED
    BY <2>1, <2>2, <2>3 DEF RowsRemember, RowsWellFormed, Exists,
       AuditExplainsStatus, AuditExplainsLinks, OnlyOverlapRegroups
<1>7. CASE UNCHANGED vars
  BY <1>7 DEF vars, TypeOK, RequestsRemember, RowsRemember, RowsWellFormed,
     Exists, AuditExplainsStatus, AuditExplainsLinks, OnlyOverlapRegroups
<1> QED
  BY <1>1, <1>2, <1>3, <1>4, <1>5, <1>6, <1>7 DEF Next

-----------------------------------------------------------------------------
(* The theorems.                                                           *)

\* The inductive invariant holds in every reachable state.
THEOREM Invariance == Spec => []IInv
<1> QED
  BY InitIInv, StepIInv, PTL DEF Spec

\* Every variable keeps its type and the status columns keep the values their
\* check constraints allow (app/db/models/alert.py, incident.py).
THEOREM TypeCorrect == Spec => []TypeOK
<1>1. IInv => TypeOK
  BY DEF IInv
<1> QED
  BY <1>1, Invariance, PTL

\* Replaying the audit log gives the status of every row
\* (set_alert_status, set_incident_status, create_alert, create_incident).
THEOREM StatusExplained == Spec => []AuditExplainsStatus
<1>1. IInv => AuditExplainsStatus
  BY DEF IInv
<1> QED
  BY <1>1, Invariance, PTL

\* Replaying the audit log gives the incident of every alert
\* (create_incident).
THEOREM LinksExplained == Spec => []AuditExplainsLinks
<1>1. IInv => AuditExplainsLinks
  BY DEF IInv
<1> QED
  BY <1>1, Invariance, PTL

\* Requests that do not overlap never group the same alert twice: the check
\* of create_incident separates them, for any number of requests.
THEOREM RegroupsOverlap == Spec => []OnlyOverlapRegroups
<1>1. IInv => OnlyOverlapRegroups
  BY DEF IInv
<1> QED
  BY <1>1, Invariance, PTL

\* A stale `from` in the audit log is always the work of a request that
\* committed between the read and the write (set_alert_status,
\* set_incident_status).
THEOREM StaleFromOverlaps == Spec => []StaleFromOnlyByOverlap
<1>1. IInv => StaleFromOnlyByOverlap
  <2> SUFFICES ASSUME IInv, NEW n \in DOMAIN audit,
                      ~ \E m \in (seen[n] + 1)..(n - 1) :
                          audit[m].resource = audit[n].resource
               PROVE  StatusAfter(audit, n - 1, audit[n].resource, audit[n].from)
    BY DEF StaleFromOnlyByOverlap
  <2>1. /\ audit \in Seq(AuditRecord) /\ n \in 1..Len(audit)
        /\ seen \in Seq(Nat) /\ Len(seen) = Len(audit)
    BY DEF IInv, TypeOK
  <2>2. seen[n] < n /\ seen[n] \in Nat
    BY <2>1 DEF IInv, RowsRemember
  <2>3. CASE StatusAfter(audit, seen[n], audit[n].resource, audit[n].from)
    <3>1. seen[n] \in 0..Len(audit) /\ n - 1 \in seen[n]..Len(audit)
      BY <2>1, <2>2
    <3>2. \A k \in (seen[n] + 1)..(n - 1) : ~Moves(audit[k], audit[n].resource)
      BY DEF Moves
    <3> QED
      BY <2>1, <2>3, <3>1, <3>2, StatusStays
  <2> QED
    BY <2>3 DEF IInv, RowsRemember
<1> QED
  BY <1>1, Invariance, PTL

\* The workflow implements the abstract audit log: whatever the requests
\* interleave, its reader sees only behaviours AuditTrail allows.
THEOREM WorkflowKeepsTrail == Spec => TrailSpec
<1>1. Init => Trail!Init
  BY DEF Init, Trail!Init
<1>2. ASSUME IInv, [Next]_vars PROVE [Trail!Next]_audit
  <2> USE DEF Trail!Absent, Absent
  <2>0. /\ DOMAIN audit = 1..Len(audit) /\ Len(audit) \in Nat
        /\ audit \in Seq(AuditRecord)
    BY <1>2 DEF IInv, TypeOK
  <2>1. ASSUME NEW x \in Resources, status[x] = "absent"
        PROVE  ~Trail!Created(x)
    <3>1. StatusAfter(audit, Len(audit), x, Absent)
      BY <1>2, <2>1 DEF IInv, AuditExplainsStatus
    <3>2. \A m \in 1..Len(audit) : ~Moves(audit[m], x)
      BY <1>2, <2>0, <3>1, AbsentNeverMoved DEF IInv, RowsWellFormed
    <3> QED
      BY <1>2, <2>0, <3>2 DEF Trail!Created, Moves, IInv, RowsWellFormed
  <2>2. ASSUME NEW a \in AlertIds, CreateAlert(a) PROVE Trail!Next
    <3>1. /\ ~Trail!Created(a)
          /\ audit' = Append(audit, [resource |-> a, from |-> "absent",
                                     to |-> "new", alerts |-> {}])
      BY <2>1, <2>2 DEF CreateAlert, Record, Exists, Resources
    <3>2. a \notin IncidentIds
      BY DisjointIds
    <3>3. Trail!RecordCreation(a, "new", {})
      BY <3>1, <3>2 DEF Trail!RecordCreation
    <3> QED
      BY <3>3 DEF Trail!Next
  <2>3. ASSUME NEW r \in Requests, CommitStatus(r) PROVE Trail!Next
    <3> DEFINE x == req[r].resource
               s == req[r].loaded
               t == req[r].asked
    <3>1. /\ x \in Resources
          /\ s \in StatusesOf(x) /\ t \in StatusesOf(x)
          /\ req[r].seen \in 0..Len(audit)
          /\ StatusAfter(audit, req[r].seen, x, s)
          /\ audit' = Append(audit, [resource |-> x, from |-> s, to |-> t,
                                     alerts |-> {}])
      BY <1>2, <2>3 DEF CommitStatus, Record, IInv, TypeOK, RequestRecord,
         RequestsRemember
    <3> HIDE DEF x, s, t
    <3>2. s # Absent
      BY <3>1 DEF StatusesOf, AlertStatus, IncidentStatus
    <3>3. Trail!HasReached(x, s)
      BY <2>0, <3>1, <3>2, StatusReached DEF Trail!HasReached
    <3>4. Trail!RecordTransition(x, s, t)
      BY <3>1, <3>2, <3>3 DEF Trail!RecordTransition
    <3>5. CASE x \in AlertIds
      BY <3>1, <3>4, <3>5 DEF Trail!Next, StatusesOf, AlertStatus,
         Trail!AlertStatus
    <3>6. CASE x \in IncidentIds
      BY <3>1, <3>4, <3>6, DisjointIds DEF Trail!Next, StatusesOf,
         IncidentStatus, Trail!IncidentStatus
    <3> QED
      BY <3>1, <3>5, <3>6 DEF Resources
  <2>4. ASSUME NEW r \in Requests, NEW i \in IncidentIds, CommitIncident(r, i)
        PROVE  Trail!Next
    <3> DEFINE S == req[r].alerts
    <3>1. /\ S \in SUBSET AlertIds
          /\ S # {}
          /\ \A a \in S : Exists(a)
          /\ audit' = Append(audit, [resource |-> i, from |-> "absent",
                                     to |-> "open", alerts |-> S])
      BY <1>2, <2>4 DEF CommitIncident, Record, IInv, TypeOK, RequestRecord,
         RequestsRemember
    <3> HIDE DEF S
    <3>2. ~Trail!Created(i)
      BY <2>1, <2>4 DEF CommitIncident, Exists, Resources
    <3>3. \A a \in S : Trail!Created(a)
      BY <1>2, <3>1 DEF IInv, RowsWellFormed, Trail!Created, Resources
    <3>4. Trail!RecordCreation(i, "open", S)
      BY <3>1, <3>2, <3>3 DEF Trail!RecordCreation
    <3> QED
      BY <3>1, <3>4 DEF Trail!Next
  <2>5. ASSUME NEW r \in Requests,
               \/ \E x \in Resources, t \in AskedOfAlerts \union AskedOfIncidents :
                    LoadForStatus(r, x, t)
               \/ \E S \in SUBSET AlertIds : SelectAlerts(r, S)
               \/ Abort(r)
        PROVE  UNCHANGED audit
    BY <2>5 DEF LoadForStatus, SelectAlerts, Abort
  <2>6. CASE UNCHANGED vars
    BY <2>6 DEF vars
  <2> QED
    BY <1>2, <2>2, <2>3, <2>4, <2>5, <2>6 DEF Next
<1> QED
  BY <1>1, <1>2, Invariance, PTL DEF Spec, TrailSpec, Trail!Spec

=============================================================================
