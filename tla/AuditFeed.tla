------------------------------ MODULE AuditFeed ------------------------------
(***************************************************************************)
(* GET /audit-events, polled while others write (list_audit_events in      *)
(* app/repositories/incidents.py, AuditEvent.created_at in                 *)
(* app/db/models/audit_event.py).                                          *)
(*                                                                         *)
(* The list is ordered by created_at, whose default is now(): the start of *)
(* the writing transaction, while a row appears at its commit.  So this    *)
(* module says when each transaction starts.  The one of a request with a  *)
(* token starts at the SELECT of require_principal, before the handler     *)
(* loads anything; the one of a delivery with the API key at its INSERT;   *)
(* the one of an analysis at get_alert, before the provider is called      *)
(* (app/services/jobs.py), and stays open until save_analysis commits.     *)
(*                                                                         *)
(* Each step of CaseWorkflow is taken inside such a transaction.  Time is  *)
(* counted in commits: transactions that start with no commit in between   *)
(* count as simultaneous, and the list may show their rows in any order.   *)
(***************************************************************************)
EXTENDS CaseWorkflow, FiniteSets

CONSTANTS
  Tasks,      \* background tasks that analyze an alert
  PollLimit,  \* the limit a client of GET /audit-events asks for
  MaxFeed     \* bound: rows of audit_events

\* Who writes audit rows: requests, deliveries (one for each alert), tasks.
Writers == Requests \union AlertIds \union Tasks

ASSUME FeedConstants ==
  /\ Requests \intersect AlertIds = {}
  /\ Tasks \intersect (Requests \union AlertIds) = {}
  /\ PollLimit \in Nat \ {0}
  /\ MaxFeed \in Nat

VARIABLES
  feed,   \* audit_events, alert.analyzed rows too, in the order of commits
  tx,     \* the open transaction of each writer
  poller  \* the client that polls, and its last page

feedVars == <<vars, feed, tx, poller>>

\* A row: its created_at, the resources it names, and its place in `audit`,
\* 0 for an alert.analyzed row.
FeedRecord ==
  [created_at : Nat, about : SUBSET Resources, row : Nat]

\* A transaction: when it started, and the ids the request (the job) names.
TxRecord == [open : BOOLEAN, at : Nat, names : SUBSET Resources]
Closed   == [open |-> FALSE, at |-> 0, names |-> {}]

PollerRecord == [before : Nat, upTo : Nat, page : SUBSET Nat]

FeedInit ==
  /\ Init
  /\ feed = << >>
  /\ tx = [w \in Writers |-> Closed]
  /\ poller = [before |-> 0, upTo |-> 0, page |-> {}]

-----------------------------------------------------------------------------
(* Transactions.                                                           *)

\* Wrong: the id of an alert is in the answer before its commit.
ToldAtFlush == {x \in Resources : Exists(x) \/ (x \in AlertIds /\ tx[x].open)}

\* The ids a client can know.  They are made by the server, and a response
\* carries one only after the commit that stores the row.
Told == {x \in Resources : Exists(x)}

\* The first statement of a session begins its transaction.
Begin(w, S) ==
  /\ ~tx[w].open
  /\ tx' = [tx EXCEPT ![w] = [open |-> TRUE, at |-> Len(feed), names |-> S]]
  /\ UNCHANGED <<vars, feed, poller>>

\* require_principal's SELECT, for a PATCH that names one resource or a POST
\* that names alerts.
Authorize(r, S) ==
  /\ S # {} /\ S \subseteq Told
  /\ S \subseteq AlertIds \/ \E i \in IncidentIds : S = {i}
  /\ Begin(r, S)

\* A delivery of alert a: the same SELECT, or create_alert's INSERT.
Deliver(a) == ~Exists(a) /\ Begin(a, {})

\* run_analysis_job's get_alert.
BeginAnalysis(k, a) == Exists(a) /\ Begin(k, {a})

\* The commit of a writer whose row is the n-th of `audit`, or of no row there.
Publish(w, S, n) ==
  /\ tx[w].open
  /\ Len(feed) < MaxFeed
  /\ feed' = Append(feed, [created_at |-> tx[w].at, about |-> S, row |-> n])
  /\ tx' = [tx EXCEPT ![w] = Closed]
  /\ UNCHANGED poller

\* The handler's read, of what the request names.
LoadNamed(r) ==
  /\ tx[r].open
  /\ \/ \E x \in Resources, t \in AskedOfAlerts \union AskedOfIncidents :
          tx[r].names = {x} /\ LoadForStatus(r, x, t)
     \/ tx[r].names \subseteq AlertIds /\ SelectAlerts(r, tx[r].names)
  /\ UNCHANGED <<feed, tx, poller>>

PublishStatus(r) ==
  /\ CommitStatus(r)
  /\ Publish(r, {req[r].resource}, Len(audit'))

PublishIncident(r, i) ==
  /\ CommitIncident(r, i)
  /\ Publish(r, {i} \union req[r].alerts, Len(audit'))

PublishAlert(a) ==
  /\ CreateAlert(a)
  /\ Publish(a, {a}, Len(audit'))

\* save_analysis: the status, the link and the workflow's log stay.
PublishAnalysis(k) ==
  /\ Publish(k, tx[k].names, 0)
  /\ UNCHANGED vars

\* A refusal, a conflict, an error of the provider or of the database: the
\* session rolls back or closes.
Rollback(w) ==
  /\ tx[w].open
  /\ tx' = [tx EXCEPT ![w] = Closed]
  /\ IF w \in Requests /\ req[w].pc # "idle" THEN Abort(w) ELSE UNCHANGED vars
  /\ UNCHANGED <<feed, poller>>

-----------------------------------------------------------------------------
(* The list.                                                               *)

\* Wrong: without desc().
OldestPages == {p \in SUBSET DOMAIN feed :
  /\ Cardinality(p) = IF Len(feed) < PollLimit THEN Len(feed) ELSE PollLimit
  /\ \A n \in p, m \in DOMAIN feed \ p : feed[n].created_at <= feed[m].created_at}

\* ORDER BY created_at DESC LIMIT.
LatestPages == {p \in SUBSET DOMAIN feed :
  /\ Cardinality(p) = IF Len(feed) < PollLimit THEN Len(feed) ELSE PollLimit
  /\ \A n \in p, m \in DOMAIN feed \ p : feed[n].created_at >= feed[m].created_at}

Poll ==
  /\ poller.upTo # Len(feed)
  /\ \E p \in LatestPages :
       poller' = [before |-> poller.upTo, upTo |-> Len(feed), page |-> p]
  /\ UNCHANGED <<vars, feed, tx>>

FeedNext ==
  \/ \E r \in Requests :
       \/ \E S \in SUBSET Resources : Authorize(r, S)
       \/ LoadNamed(r)
       \/ PublishStatus(r)
       \/ \E i \in IncidentIds : PublishIncident(r, i)
  \/ \E a \in AlertIds : Deliver(a) \/ PublishAlert(a)
  \/ \E k \in Tasks :
       \/ \E a \in AlertIds : BeginAnalysis(k, a)
       \/ PublishAnalysis(k)
  \/ \E w \in Writers : Rollback(w)
  \/ Poll

FeedSpec == FeedInit /\ [][FeedNext]_feedVars

-----------------------------------------------------------------------------
(* Properties.                                                             *)

\* Row n of the feed records the creation of x.
Creates(n, x) ==
  /\ feed[n].row # 0
  /\ audit[feed[n].row].resource = x
  /\ audit[feed[n].row].from = Absent

\* Nothing about a resource is ever listed below its creation, although the
\* list is not in the order of the commits: whoever names the resource was
\* told of it after the creation's commit, and began its transaction later
\* still (create_alert, create_incident, then require_principal; get_alert of
\* the job).
CreationIsListedFirst ==
  \A c, n \in DOMAIN feed : \A x \in Resources :
    Creates(c, x) /\ x \in feed[n].about /\ n # c
      => feed[c].created_at < feed[n].created_at

\* An administrator who polls before more rows than its limit have been added
\* misses only rows of transactions that were open when the last row of the
\* earlier poll was committed: an analysis that waits for its provider, a
\* PATCH between require_principal and its commit.
PollMissesOnlyOpenTransactions ==
  poller.upTo - poller.before <= PollLimit =>
    \A n \in (poller.before + 1)..poller.upTo :
      n \in poller.page \/ feed[n].created_at < poller.before

\* The rows that record a status of x.
StatusRows(x) ==
  {n \in DOMAIN feed : feed[n].row # 0 /\ audit[feed[n].row].resource = x}

\* Each request about x began after the one before it had committed.
NeverOverlapped(x) ==
  \A m, n \in StatusRows(x) : m < n => m <= feed[n].created_at

\* Read through the list, the newest status row about a resource tells its
\* status, as long as the requests about it have not overlapped; whatever
\* else overlapped with them, and however late other rows appeared
\* (set_alert_status, set_incident_status).
NewestRowTellsStatus ==
  \A x \in Resources : NeverOverlapped(x) =>
    \A n \in StatusRows(x) :
      (\A m \in StatusRows(x) : feed[m].created_at <= feed[n].created_at)
        => audit[feed[n].row].to = status[x]

-----------------------------------------------------------------------------
(* The inductive invariant behind these.                                   *)

FeedTypeOK ==
  /\ feed \in Seq(FeedRecord)
  /\ tx \in [Writers -> TxRecord]
  /\ poller \in PollerRecord
  /\ poller.upTo \in 0..Len(feed)
  /\ poller.before \in 0..poller.upTo
  /\ poller.page \subseteq 1..poller.upTo

\* The feed has every row of the log, in its order.
FeedHasLog ==
  /\ \A n \in DOMAIN feed :
       /\ feed[n].row \in 0..Len(audit)
       /\ feed[n].row # 0 =>
            feed[n].about = {audit[feed[n].row].resource} \union audit[feed[n].row].alerts
  /\ \A i \in DOMAIN audit : \E n \in DOMAIN feed : feed[n].row = i
  /\ \A m, n \in DOMAIN feed :
       m < n /\ feed[m].row # 0 /\ feed[n].row # 0 => feed[m].row < feed[n].row

\* An open transaction began after the creation of what it names, and a
\* request reads after its transaction began.
TransactionsRemember ==
  \A w \in Writers :
    /\ tx[w].at <= Len(feed)
    /\ \A x \in tx[w].names : \E c \in 1..tx[w].at : Creates(c, x)
    /\ w \in Requests =>
         /\ req[w].pc # "idle" =>
              /\ tx[w].open
              /\ \A m \in 1..tx[w].at : feed[m].row <= req[w].seen
         /\ req[w].pc = "loaded" => tx[w].names = {req[w].resource}
         /\ req[w].pc = "validated" => tx[w].names = req[w].alerts

\* A row is about what is stored, began before it was committed, and its
\* writer had read what was committed by then.
FeedRemembers ==
  \A n \in DOMAIN feed :
    /\ feed[n].created_at < n
    /\ \A x \in feed[n].about : Exists(x)
    /\ feed[n].row # 0 =>
         \A m \in 1..feed[n].created_at : feed[m].row <= seen[feed[n].row]

\* NewestRowTellsStatus follows from it and from the invariant of CaseWorkflow.
FeedIInv ==
  /\ FeedTypeOK
  /\ FeedHasLog
  /\ TransactionsRemember
  /\ FeedRemembers
  /\ CreationIsListedFirst
  /\ PollMissesOnlyOpenTransactions

=============================================================================
