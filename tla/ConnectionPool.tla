--------------------------- MODULE ConnectionPool ---------------------------
(***************************************************************************)
(* Requests, background tasks and the connections they share               *)
(* (app/db/session.py, app/main.py, and the routes' use of both).          *)
(*                                                                         *)
(* The engine lends at most PoolSize connections (pool_size and            *)
(* max_overflow are SQLAlchemy's defaults).  A session takes one at the    *)
(* first statement of a transaction and gives it back at COMMIT, ROLLBACK  *)
(* or close.  FastAPI closes a request's session after the response and    *)
(* the background tasks that belong to it, and the `refresh` after each    *)
(* COMMIT opens a transaction again: analyze_alert's session keeps a       *)
(* connection idle until its task, which has a session of its own, ends.   *)
(*                                                                         *)
(* Each action on a job is the action of AnalysisJobs and what it does to  *)
(* the connections.  Who has waited too long for one gives up (Timeout).   *)
(***************************************************************************)
EXTENDS AnalysisJobs, FiniteSets

CONSTANTS
  Others,   \* requests that are not POST .../analyze
  PoolSize  \* connections the engine lends at a time

Requests == Jobs \union Others

ASSUME PoolConstants ==
  /\ IsFiniteSet(Requests)
  /\ Jobs \intersect Others = {}
  /\ PoolSize \in Nat \ {0}

VARIABLES
  http,  \* where the handling of each request is
  held   \* sessions that have a connection

poolVars == <<vars, http, held>>

\* "arrived" is past the limiter with no statement asked for yet, "waiting" is
\* inside the checkout for the first one, which only a connection or an error
\* ends.  "answered" is the start of the response: call_next returns, the
\* middleware counts and logs.  It does neither for "limited" (429) and
\* "raised" (500).
HttpStates == {"idle", "limited", "arrived", "waiting", "reading", "committed",
               "refreshed", "answered", "raised", "closed"}

Own(r)   == <<r, "request">>   \* get_db_session, one for a request
Task(j)  == <<j, "task">>      \* run_analysis_job's
Sessions == Requests \X {"request"} \union Jobs \X {"task"}

-----------------------------------------------------------------------------
Full == Cardinality(held) >= PoolSize

\* Wrong: a pool that lends without counting.
CheckoutUncounted(s) == held' = held \union {s}

\* A session that has a connection keeps it, another one takes a free one.
Checkout(s) ==
  /\ s \in held \/ ~Full
  /\ held' = held \union {s}

Release(s) == held' = held \ {s}

Move(r, to) == http' = [http EXCEPT ![r] = to]

\* Where a task waits for a connection: its session has just been opened,
\* has committed or has been rolled back.
NeedsConnection == {"scheduled", "running", "refreshing", "failing"}
Running(j) == task[j].pc \in (Before \union During) \ {"accepted"}

PoolInit ==
  /\ Init
  /\ http = [r \in Requests |-> "idle"]
  /\ held = {}

-----------------------------------------------------------------------------
(* Requests.                                                               *)

\* The middleware: the limiter refuses the request or lets it through.
Arrive(r) ==
  /\ http[r] = "idle"
  /\ \E to \in {"limited", "arrived"} : Move(r, to)
  /\ UNCHANGED <<vars, held>>

\* An answer that takes no statement: 401, a body that does not validate, a
\* route that needs none.
AnswerAtOnce(r) ==
  /\ http[r] = "arrived"
  /\ Move(r, "answered")
  /\ UNCHANGED <<vars, held>>

\* The first statement asks for a connection: require_principal's SELECT, the
\* route's own, or readiness_check's connect.
Ask(r) ==
  /\ http[r] = "arrived"
  /\ Move(r, "waiting")
  /\ UNCHANGED <<vars, held>>

\* Wrong: require_principal with a session of its own, kept beside the
\* route's (here the request's other session).
BeginWithTwoSessions(r) ==
  /\ http[r] = "waiting"
  /\ Checkout(Task(r))
  /\ Move(r, "committed")
  /\ UNCHANGED vars

\* The pool lends one, and the statement runs.
Begin(r) ==
  /\ http[r] = "waiting"
  /\ Checkout(Own(r))
  /\ Move(r, "reading")
  /\ UNCHANGED vars

\* The COMMIT of a handler that writes, and the refresh of what it wrote.
Commit(q) ==
  /\ q \in Others
  /\ http[q] = "reading"
  /\ Release(Own(q))
  /\ Move(q, "committed")
  /\ UNCHANGED vars

Refresh(q) ==
  /\ q \in Others
  /\ http[q] = "committed"
  /\ Checkout(Own(q))
  /\ Move(q, "refreshed")
  /\ UNCHANGED vars

\* The handler returns (or raises an HTTPException) with its transaction
\* open, or after it ended it: the rollback of a conflict, readiness_check's
\* connection.
Answer(r) ==
  /\ http[r] \in {"reading", "refreshed"}
  /\ UNCHANGED held \/ (r \in Others /\ Release(Own(r)))
  /\ Move(r, "answered")
  /\ UNCHANGED vars

\* Wrong: the session of get_db_session is not closed.
CloseLeaks(r) ==
  /\ http[r] = "answered"
  /\ r \in Jobs => ~Running(r)
  /\ Move(r, "closed")
  /\ UNCHANGED <<vars, held>>

\* get_db_session leaves its `async with`, after the background task.
Close(r) ==
  /\ http[r] = "answered"
  /\ r \in Jobs => ~Running(r)
  /\ Release(Own(r))
  /\ Move(r, "closed")
  /\ UNCHANGED vars

\* An exception leaves the handler and the middleware; the session closes.
Raise(r) ==
  /\ \/ http[r] \in {"arrived", "waiting", "reading"}
     \/ r \in Others /\ http[r] \in {"committed", "refreshed"}
  /\ Release(Own(r))
  /\ Move(r, "raised")
  /\ UNCHANGED vars

-----------------------------------------------------------------------------
(* POST .../analyze and its task: the actions of AnalysisJobs.             *)

RequestJob(j, a) ==
  /\ http[j] = "reading"
  /\ RequestAnalysis(j, a)
  /\ Release(Own(j))
  /\ Move(j, "committed")

\* The refresh finds the job: 202, and the task starts while the request's
\* session keeps the connection.  Or it raises.
ScheduleJob(j) ==
  /\ http[j] = "committed"
  /\ Schedule(j)
  /\ ~Full
  /\ IF JobExists(j)
     THEN Checkout(Own(j)) /\ Move(j, "answered")
     ELSE Release(Own(j)) /\ Move(j, "raised")

\* A step that needs a connection for its statement and keeps it while its
\* transaction is open.
TaskReads(j) ==
  /\ LoadJob(j) \/ LoadAlert(j) \/ RefreshSaved(j)
  /\ ~Full
  /\ held' = IF task'[j].pc \in {"done", "failing"} THEN held
                                                    ELSE held \union {Task(j)}
  /\ UNCHANGED http

\* A step in an open transaction that ends it.
TaskCommits(j) ==
  /\ MarkRunning(j) \/ RecordAlertGone(j) \/ SaveAnalysis(j) \/ Complete(j)
  /\ Release(Task(j))
  /\ UNCHANGED http

\* An attempt at the provider, in the transaction that read the alert; the
\* except branches roll it back.
TaskCalls(j) ==
  /\ CallAI(j)
  /\ held' = IF task'[j].pc = "failing" THEN held \ {Task(j)} ELSE held
  /\ UNCHANGED http

\* The failed state: a statement and a commit.
TaskRecordsFailure(j) ==
  /\ RecordFailure(j)
  /\ ~Full
  /\ UNCHANGED <<http, held>>

\* Wrong: asyncio.create_task before the refresh, which then raises.
BreakJobRunsOn(j) ==
  \/ /\ task[j].pc = "accepted"
     /\ Schedule(j)
     /\ Move(j, "raised")
     /\ UNCHANGED held
  \/ /\ task[j].pc # "accepted"
     /\ Fault(j)
     /\ Release(Task(j))
     /\ UNCHANGED http

\* A statement, a commit or a checkout fails.
BreakJob(j) ==
  /\ Fault(j)
  /\ Release(Task(j))
  /\ IF task[j].pc = "accepted" THEN Move(j, "raised") ELSE UNCHANGED http

\* The process stops: no connection, no request, no task.
StopProcess ==
  /\ Crash
  /\ held' = {}
  /\ http' = [r \in Requests |->
       IF http[r] \in {"arrived", "waiting", "reading", "committed", "refreshed"}
       THEN "raised"
       ELSE IF http[r] = "answered" THEN "closed" ELSE http[r]]

Maintain(a) == DeleteAlert(a) /\ UNCHANGED <<http, held>>

\* Wrong: pool_timeout=None.
NoTimeout(r) == FALSE

\* pool_timeout: no connection has come free in time.
Timeout(r) ==
  /\ Full
  /\ \/ http[r] \in {"waiting", "committed"} /\ Raise(r)
     \/ /\ r \in Jobs
        /\ task[r].pc \in NeedsConnection \union {"accepted"}
        /\ BreakJob(r)

-----------------------------------------------------------------------------
\* What the event loop does for a request and its task when nothing fails.
Proceed(r) ==
  \/ AnswerAtOnce(r) \/ Ask(r) \/ Begin(r)
  \/ Commit(r) \/ Refresh(r) \/ Answer(r) \/ Close(r)
  \/ /\ r \in Jobs
     /\ \/ \E a \in Alerts : RequestJob(r, a)
        \/ ScheduleJob(r) \/ TaskReads(r) \/ TaskCommits(r) \/ TaskCalls(r)
        \/ TaskRecordsFailure(r)

PoolNext ==
  \/ \E r \in Requests : Arrive(r) \/ Proceed(r) \/ Raise(r) \/ Timeout(r)
  \/ \E j \in Jobs : BreakJob(j)
  \/ StopProcess
  \/ \E a \in Alerts : Maintain(a)

PoolSpec == PoolInit /\ [][PoolNext]_poolVars

\* Each request and task that can go on does.  A waiter may be overtaken, so
\* nothing stronger is assumed; the requests of an instance are finitely many.
PoolFairSpec == PoolSpec /\ \A r \in Requests : WF_poolVars(Proceed(r))

-----------------------------------------------------------------------------
(* Properties.                                                             *)

\* A request that cannot go on without another connection.
Waiting(r) ==
  \/ http[r] \in {"waiting", "committed"}
  \/ r \in Jobs /\ task[r].pc \in NeedsConnection

\* Analyses whose request keeps a connection while the task works.
InFlight == {j \in Jobs : http[j] = "answered" /\ Running(j)}

\* Every variable keeps its type; the pool lends no more than it has; and a
\* session has a connection only where its transaction is open.
PoolTypeOK ==
  /\ TypeOK
  /\ http \in [Requests -> HttpStates]
  /\ held \subseteq Sessions
  /\ Cardinality(held) <= PoolSize

HeldWhereOpen ==
  /\ \A r \in Requests :
       Own(r) \in held => http[r] \in {"reading", "refreshed", "answered"}
  /\ \A j \in Jobs :
       Task(j) \in held =>
         task[j].pc \in {"loaded", "alert_gone", "calling", "saving", "completing"}

\* A request and its job move together: there is no task before the commit, and
\* it runs only after the 202 and before the request's session is closed.
RequestMatchesTask ==
  \A j \in Jobs :
    /\ http[j] \in {"idle", "limited", "arrived", "waiting", "reading"} =>
         task[j].pc = "none"
    /\ task[j].pc = "accepted" <=> http[j] = "committed"
    /\ Running(j) => http[j] = "answered" /\ Own(j) \in held
    /\ http[j] # "refreshed"

\* Everyone waits for everyone only over analyses: with fewer of them in
\* flight than connections, a full pool has a holder that can go on and give
\* its connection back without waiting for another (app/db/session.py, one
\* session for a request and its dependencies).
NoStandstill ==
  Full /\ Cardinality(InFlight) < PoolSize => \E s \in held : ~Waiting(s[1])

\* A client told 500 by POST .../analyze may ask again: the job it was not
\* told of is never run (create_analysis_job commits before its refresh can
\* fail, and add_task comes after).
NoRunBehindAnError ==
  \A j \in Jobs : http[j] = "raised" => jobStatus[j] \in {"absent", "queued"} /\ ~Running(j)

\* The strengthening the proofs carry; NoStandstill follows from it.
PoolIInv ==
  /\ PoolTypeOK
  /\ HeldWhereOpen
  /\ RequestMatchesTask
  /\ NoRunBehindAnError

\* With a connection to spare for every analysis in flight, and nothing
\* failing, every queued job ends, whatever the other requests do.
SpareConnectionFinishesJobs ==
  [](disruptions = 0 /\ Cardinality(InFlight) < PoolSize) =>
    \A j \in Jobs :
      jobStatus[j] = "queued" ~> jobStatus[j] \in {"completed", "failed"}

\* pool_timeout dissolves every standstill: a request past the limiter ends,
\* one that is blocked in the checkout too (readiness_check behind analyses
\* that hold the whole pool), and its session and its task's have given their
\* connections back.  (Once the bound on disruptions is reached a task could
\* not time out any more.)
RequestsEnd ==
  /\ \A r \in Requests : WF_poolVars(Timeout(r))
  /\ [](disruptions < MaxDisruptions)
  =>
    \A r \in Requests :
      http[r] \in {"arrived", "waiting"} ~>
        http[r] \in {"closed", "raised"} /\ {Own(r), Task(r)} \intersect held = {}
=============================================================================
