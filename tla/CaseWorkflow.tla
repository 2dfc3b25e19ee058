---------------------------- MODULE CaseWorkflow ----------------------------
(***************************************************************************)
(* The response workflow: alerts, the incidents that group them, and the   *)
(* audit log (app/repositories/alerts.py, app/repositories/incidents.py    *)
(* and their routes).                                                      *)
(*                                                                         *)
(* A request owns one database session (app/db/session.py).  It reads at   *)
(* one await and commits at a later one; PostgreSQL runs READ COMMITTED,   *)
(* so other requests commit in between.  A request is therefore two        *)
(* actions, its SELECT and its COMMIT, and carries what it read from the   *)
(* one to the other.  Rows the flush of an open transaction wrote are      *)
(* invisible to the others and stay locked until the commit, which is why  *)
(* the flush and the commit are one step.                                  *)
(*                                                                         *)
(* Requests refused with 404 or 409 change nothing and are not steps.      *)
(***************************************************************************)
EXTENDS Naturals, Sequences, UnitOfWork

CONSTANTS
  AlertIds,       \* ids of alert rows
  IncidentIds,    \* ids of incident rows
  Requests,       \* requests that can be in flight together
  NoIncident,     \* alerts.incident_id IS NULL
  NoResource,     \* an idle request works on nothing
  AskedOfAlerts,  \* statuses operators ask for alerts
  AskedOfIncidents,
  MaxAudit        \* bound: audit rows

Absent         == "absent"   \* "status" of a row that does not exist
AlertStatus    == {"new", "investigating", "resolved", "dismissed"}
IncidentStatus == {"open", "contained", "closed"}
Statuses       == AlertStatus \union IncidentStatus \union {Absent}
Resources      == AlertIds \union IncidentIds
StatusesOf(x)  == IF x \in AlertIds THEN AlertStatus ELSE IncidentStatus

ASSUME DisjointIds ==
  /\ AlertIds \intersect IncidentIds = {}
  /\ NoIncident \notin Resources
  /\ NoResource \notin Resources
ASSUME AskedStatuses ==
  /\ AskedOfAlerts \subseteq AlertStatus
  /\ AskedOfIncidents \subseteq IncidentStatus
ASSUME AuditBound == MaxAudit \in Nat

VARIABLES
  status,  \* alerts.status and incidents.status
  link,    \* alerts.incident_id
  audit,   \* audit_events in the order of their commits
  seen,    \* history: how much of `audit` the writer of each row had seen
  req      \* what each request in flight has read

vars == <<status, link, audit, seen, req>>

IdleRequest == [pc |-> "idle", resource |-> NoResource, loaded |-> Absent,
                asked |-> Absent, alerts |-> {}, seen |-> 0]

RequestRecord ==
  [pc       : {"idle", "loaded", "validated"},
   resource : Resources \union {NoResource},
   loaded   : Statuses,
   asked    : Statuses,
   alerts   : SUBSET AlertIds,
   seen     : Nat]

AuditRecord ==
  [resource : Resources, from : Statuses, to : Statuses,
   alerts   : SUBSET AlertIds]

-----------------------------------------------------------------------------
Exists(x) == status[x] # Absent

\* Wrong: previous_status read after the assignment, or swapped with status.
RecordFromAfter(x, old, new, group, sawUpTo) ==
  /\ Len(audit) < MaxAudit
  /\ audit' = Append(audit, [resource |-> x, from |-> new, to |-> new,
                             alerts |-> group])
  /\ seen' = Append(seen, sawUpTo)
RecordSwapped(x, old, new, group, sawUpTo) ==
  /\ Len(audit) < MaxAudit
  /\ audit' = Append(audit, [resource |-> x, from |-> new, to |-> old,
                             alerts |-> group])
  /\ seen' = Append(seen, sawUpTo)

\* session.add(AuditEvent(...)), committed with the change it records.
Record(x, old, new, group, sawUpTo) ==
  /\ Len(audit) < MaxAudit
  /\ audit' = Append(audit, [resource |-> x, from |-> old, to |-> new,
                             alerts |-> group])
  /\ seen' = Append(seen, sawUpTo)

Init ==
  /\ status = [x \in Resources |-> Absent]
  /\ link = [a \in AlertIds |-> NoIncident]
  /\ audit = << >>
  /\ seen = << >>
  /\ req = [r \in Requests |-> IdleRequest]

\* A provider's alert is stored (AlertIngest models how).  The row and its
\* audit event commit together; the column defaults are "new" and NULL.
CreateAlert(a) ==
  /\ ~Exists(a)
  /\ status' = [status EXCEPT ![a] = "new"]
  /\ Record(a, Absent, "new", {}, Len(audit))
  /\ UNCHANGED <<link, req>>

\* The statuses a request may ask for x (AlertStatus, IncidentStatus).
Askable(x) == IF x \in AlertIds THEN AskedOfAlerts ELSE AskedOfIncidents

\* PATCH .../status: session.get reads the row; 404 when there is none.
LoadForStatus(r, x, t) ==
  /\ req[r].pc = "idle"
  /\ Exists(x)
  /\ t \in Askable(x)
  /\ req' = [req EXCEPT ![r] =
       [IdleRequest EXCEPT !.pc = "loaded", !.resource = x,
                           !.loaded = status[x], !.asked = t,
                           !.seen = Len(audit)]]
  /\ UNCHANGED <<status, link, audit, seen>>

\* set_alert_status, set_incident_status: assign, audit, commit.
CommitStatus(r) ==
  LET q == req[r] IN
  /\ q.pc = "loaded"
  /\ status' = [status EXCEPT ![q.resource] =
                  Flushed(status[q.resource], q.loaded, q.asked)]
  /\ Record(q.resource, q.loaded, q.asked, {}, q.seen)
  /\ req' = [req EXCEPT ![r] = IdleRequest]
  /\ UNCHANGED link

\* Wrong: one of the two refusals of create_incident is missing.
GroupableTwice(a) == Exists(a)
GroupableUnknown(a) == link[a] = NoIncident

\* create_incident refuses unknown alerts and grouped ones; the route answers
\* 409 to both.
Groupable(a) == Exists(a) /\ link[a] = NoIncident

\* POST /incidents: the SELECT of the requested alerts, and both refusals.
SelectAlerts(r, S) ==
  /\ req[r].pc = "idle"
  /\ S # {}
  /\ \A a \in S : Groupable(a)
  /\ req' = [req EXCEPT ![r] =
       [IdleRequest EXCEPT !.pc = "validated", !.alerts = S,
                           !.seen = Len(audit)]]
  /\ UNCHANGED <<status, link, audit, seen>>

\* Wrong: the UPDATE skips the rows another request has linked, the audit
\* event does not.
LinkedIfFree(S, i) ==
  [a \in AlertIds |-> IF a \in S /\ link[a] = NoIncident THEN i ELSE link[a]]

\* alert.incident_id = incident.id for every selected alert.
Linked(S, i) == [a \in AlertIds |-> IF a \in S THEN i ELSE link[a]]

\* The rest of create_incident: insert the incident under a fresh UUID, set
\* incident_id on every selected alert (the UPDATE names the row only by its
\* id), audit, commit.
CommitIncident(r, i) ==
  LET S == req[r].alerts IN
  /\ req[r].pc = "validated"
  /\ ~Exists(i)
  /\ status' = [status EXCEPT ![i] = "open"]
  /\ link' = Linked(S, i)
  /\ Record(i, Absent, "open", S, req[r].seen)
  /\ req' = [req EXCEPT ![r] = IdleRequest]

\* The session closes without a commit: the client leaves, a statement
\* fails, the process stops.  PostgreSQL rolls the transaction back.
Abort(r) ==
  /\ req[r].pc # "idle"
  /\ req' = [req EXCEPT ![r] = IdleRequest]
  /\ UNCHANGED <<status, link, audit, seen>>

Next ==
  \/ \E a \in AlertIds : CreateAlert(a)
  \/ \E r \in Requests :
       \/ \E x \in Resources, t \in AskedOfAlerts \union AskedOfIncidents :
            LoadForStatus(r, x, t)
       \/ CommitStatus(r)
       \/ \E S \in SUBSET AlertIds : SelectAlerts(r, S)
       \/ \E i \in IncidentIds : CommitIncident(r, i)
       \/ Abort(r)

Spec == Init /\ [][Next]_vars

-----------------------------------------------------------------------------
(* What the log says: reading it back.                                     *)

\* Event e moves x to another status.  A row whose `from` equals its `to`
\* records a request, not a change.
Moves(e, x) == e.resource = x /\ e.from # e.to

\* After the first n audit rows, x has status s.
StatusAfter(log, n, x, s) ==
  \/ /\ s = Absent
     /\ \A m \in 1..n : ~Moves(log[m], x)
  \/ \E m \in 1..n :
       /\ Moves(log[m], x)
       /\ log[m].to = s
       /\ \A k \in (m+1)..n : ~Moves(log[k], x)

\* After the first n audit rows, a belongs to i.
LinkAfter(log, n, a, i) ==
  \/ /\ i = NoIncident
     /\ \A m \in 1..n : a \notin log[m].alerts
  \/ \E m \in 1..n :
       /\ a \in log[m].alerts
       /\ log[m].resource = i
       /\ \A k \in (m+1)..n : a \notin log[k].alerts

-----------------------------------------------------------------------------
(* Properties.                                                             *)

\* Every variable keeps its type, and the two status columns keep the values
\* their check constraints list (ck_alert_status, ck_incident_status).
TypeOK ==
  /\ status \in [Resources -> Statuses]
  /\ \A x \in Resources : status[x] \in StatusesOf(x) \union {Absent}
  /\ link \in [AlertIds -> IncidentIds \union {NoIncident}]
  /\ audit \in Seq(AuditRecord)
  /\ seen \in Seq(Nat)
  /\ Len(seen) = Len(audit)
  /\ req \in [Requests -> RequestRecord]

\* The log explains every status: the last row that records a change of a
\* resource ends in the status the resource has.  It needs the UPDATE of
\* CommitStatus to be skipped exactly when `from` equals `to`, however stale
\* the request's read is.
AuditExplainsStatus ==
  \A x \in Resources : StatusAfter(audit, Len(audit), x, status[x])

\* The log explains every link: an alert belongs to the incident whose
\* creation was the last to name it, and to none before (create_incident
\* assigns and audits in one transaction).
AuditExplainsLinks ==
  \A a \in AlertIds : LinkAfter(audit, Len(audit), a, link[a])

\* A `from` that was not the status just before its row is the work of a
\* concurrent request: another row about the same resource was committed
\* between the read and the write of set_alert_status or set_incident_status.
StaleFromOnlyByOverlap ==
  \A n \in DOMAIN audit :
    \/ StatusAfter(audit, n - 1, audit[n].resource, audit[n].from)
    \/ \E m \in (seen[n] + 1)..(n - 1) : audit[m].resource = audit[n].resource

\* An alert is named by two incidents only when the requests overlapped: the
\* later one had read the alert before the earlier one committed.  Requests
\* that do not overlap are kept apart by the check in create_incident.
OnlyOverlapRegroups ==
  \A n, m \in DOMAIN audit :
    n < m /\ audit[n].alerts \intersect audit[m].alerts # {} => seen[m] < n

-----------------------------------------------------------------------------
(* The inductive invariant: what makes the properties above survive every  *)
(* step, however stale the requests in flight are.                         *)

\* A request in flight remembers something that was true of the log when it
\* read: its status for one row, "in no incident yet" for a group.
RequestsRemember ==
  \A r \in Requests :
    /\ req[r].seen <= Len(audit)
    /\ req[r].pc = "loaded" =>
         /\ req[r].resource \in Resources
         /\ req[r].loaded \in StatusesOf(req[r].resource)
         /\ req[r].asked \in StatusesOf(req[r].resource)
         /\ StatusAfter(audit, req[r].seen, req[r].resource, req[r].loaded)
    /\ req[r].pc = "validated" =>
         /\ req[r].alerts # {}
         /\ \A a \in req[r].alerts : Exists(a)
         /\ \A m \in 1..req[r].seen : audit[m].alerts \intersect req[r].alerts = {}

\* Each audit row was written by such a request: `from` was the status when
\* its writer read (a creation reads nothing and leaves from "absent").
RowsRemember ==
  \A n \in DOMAIN audit :
    /\ seen[n] < n
    /\ \/ StatusAfter(audit, seen[n], audit[n].resource, audit[n].from)
       \/ StatusAfter(audit, n - 1, audit[n].resource, audit[n].from)

\* The shape of the rows, and that every stored resource has its creation.
RowsWellFormed ==
  /\ \A n \in DOMAIN audit :
       /\ audit[n].to # Absent
       /\ audit[n].alerts # {} => audit[n].resource \in IncidentIds
  /\ \A x \in Resources : Exists(x) =>
       \E n \in DOMAIN audit : audit[n].resource = x /\ audit[n].from = Absent

\* The strengthening the proofs carry; StaleFromOnlyByOverlap follows from it.
IInv ==
  /\ TypeOK
  /\ RequestsRemember
  /\ RowsRemember
  /\ RowsWellFormed
  /\ AuditExplainsStatus
  /\ AuditExplainsLinks
  /\ OnlyOverlapRegroups

-----------------------------------------------------------------------------
\* The workflow keeps what the audit log promises its reader.
Trail == INSTANCE AuditTrail WITH log <- audit
TrailSpec == Trail!Spec

-----------------------------------------------------------------------------
(* A statement of the repository that the code does not keep.              *)

\* "A small investigation that groups one or more alerts"
\* (app/db/models/incident.py): every stored incident has an alert.
IncidentGroupsAlerts ==
  \A i \in IncidentIds : Exists(i) => \E a \in AlertIds : link[a] = i

=============================================================================
