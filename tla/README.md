# Formal models of the cloud security incident response API

TLA+ modules, TLC configurations and TLAPS proofs for the FastAPI service in
`src/app`. Paths below are relative to `src/`.

The service is small, and most of its lines move data. What is hard about it is
the order in which things happen: a handler reads at one `await` and writes at a
later one, PostgreSQL runs READ COMMITTED, analysis runs in the background in
the same process, and providers deliver findings again when they hear nothing.
The models are about that.

## Inventory

| Component | State | Operations | Interacts with |
|---|---|---|---|
| Alerts (`repositories/alerts.py`, `api/routes/alerts.py`) | `alerts` rows: status, `incident_id`, the two AI texts | create, set status, save analysis, read, list | incidents (link), audit log, jobs |
| Incidents (`repositories/incidents.py`, `api/routes/incidents.py`) | `incidents` rows: status | create with 1 to 100 alerts, set status, read, list | alerts, audit log |
| Audit log (`db/models/audit_event.py`) | `audit_events`, only ever inserted into | written in the transaction of the change it records | workflow, jobs, ingestion; read by administrators |
| Analysis jobs (`services/jobs.py`, `repositories/jobs.py`) | `analysis_jobs` rows; tasks in memory | request, run, poll | AI adapter, alerts |
| AI adapter (`services/ai.py`) | none | analyze, up to three attempts | provider over HTTP |
| Ingestion (`api/routes/alerts.py`, `services/guardduty.py`, `services/wazuh.py`) | the alert rows, unique by `(source, external_id)` | three routes that end in `create_alert` | providers, audit log |
| Accounts (`api/routes/auth.py`, `core/security.py`, `repositories/users.py`) | `users` rows; tokens held by clients | bootstrap, login, add user, authorize | every protected route |
| Rate limiter (`core/rate_limit.py`, `main.py`) | a window per client address, in memory | count a request | in front of every API route |
| Listings (`GET /alerts`, `/incidents`, `/audit-events`) | what the client has been told | count and page, list and fill in, poll | read what the workflow writes |
| Sessions (`db/session.py`) | engine with a pool, a session per request | check out, return, time out | every repository, both kinds of session |
| Middleware, metrics, health (`main.py`) | counters | limit, count, log, readiness | every request, the pool |
| Schemas and normalizers (`schemas/`, `services/guardduty.py`, `services/wazuh.py`) | none | accept, normalize | in front of ingestion and every writing route |
| Migrations and models (`alembic/`, `db/models/`) | the database schema | three upgrades, three downgrades | what every stored value must fit |
| Settings (`core/config.py`) | none at run time | | constants of the models |

Hard behaviours: overlapping requests over one row (alerts, incidents, users);
a stale object whose flush leaves out unchanged columns; a job that crosses six
transactions and a network call; failures between two commits and process
stops; redelivery while the first delivery's transaction is open; the two
boundaries of a fixed window and the rounding of `Retry-After`; a request that
holds its connection while its background task waits for another; lists put
together from several snapshots; an audit log ordered by the start of transactions
that commit in another order; payloads that pass a provider's schema and fail
the next one. `PROJECT.json` lists every hazard at its line.

What makes each component correct:

- *workflow*: the audit log explains the rows, and what it cannot promise (that
  `from` is the latest status, that an alert is grouped once) fails only when
  requests overlap;
- *jobs*: what a polling client reads is true and final, and a job ends unless
  something breaks;
- *ingestion*: one alert and one audit event for a finding, nothing confirmed that
  is not stored, and everything sent confirmed in the end;
- *accounts*: never a user without an administrator, every user accounted for by
  an administrator before it or a bootstrap that saw an empty table;
- *limiter*: a bound over any stretch of time, restarts included, rejections
  that were earned, and a wait that helps;
- *pool*: a full pool moves unless every connection belongs to an analysis, and
  the checkout timeout ends what does not move; an error answer to an analysis
  request is final;
- *listings*: an alert or a link is missed or shown twice only for a reason that can
  be named: an alert that left the list, two creations;
- *audit feed*: its order, which is not that of the commits, still puts a creation below
  everything about the resource and tells the status of a resource whose requests did not
  overlap; a poll misses only rows of transactions that were open at the poll before;
- *schemas*: what is accepted fits its column; which findings the normalizers
  cannot take;
- *migrations*: they build what the models declare, and can be undone.

## Modules

| Module | What it is |
|---|---|
| `UnitOfWork` | the one rule of SQLAlchemy that matters here: a column is written when the assigned value differs from the loaded one |
| `AuditTrail` | abstract: what the audit log promises its reader |
| `CaseWorkflow` | alerts, incidents, audit log; implements `AuditTrail` |
| `CaseWorkflowProofs` | its theorems |
| `AnalysisJobs`, `AnalysisJobsProofs` | the request and the background task |
| `IngestLedger` | abstract: what ingestion promises a provider |
| `AlertIngest`, `AlertIngestProofs` | deliveries against the unique constraint; implements `IngestLedger` |
| `Accounts`, `AccountsProofs` | users, bootstrap, tokens |
| `RateLimiter`, `RateLimiterProofs` | the fixed windows |
| `ConnectionPool`, `ConnectionPoolProofs` | requests, tasks and connections; extends `AnalysisJobs`, whose actions it composes with the middleware, the sessions and the pool |
| `Listing` | a reader of `GET /alerts` or `GET /incidents` beside `CaseWorkflow`, which it extends |
| `AuditFeed` | `CaseWorkflow` with the transactions its steps run in, those of the analyses too, and a poller of `GET /audit-events` |
| `ListingProofs` | the theorems of both |
| `Schema` | the database as the revisions build it and as the models declare it |
| `Contracts`, `ContractsProofs` | request schemas and normalizers; their theorems and those about `Schema` |
| `MC...` | symmetry sets and constant values for TLC |

Definitions commented `Wrong:` are faulty variants of the one that follows them,
used by no specification. Substituting one shows that a property fails when the
code has that fault; `PROJECT.json` ("mutants") says which goes with which.

### CaseWorkflow

`status` is both status columns ("absent" without a row), `link` is
`alerts.incident_id`, `audit` is `audit_events` in commit order. `seen` is a history
variable: how much of the log the writer of each row had seen when it read. `req`
is what each open session carries.

A request is two actions. `LoadForStatus` is `session.get` in either PATCH route;
`CommitStatus` is the rest of `set_alert_status` or `set_incident_status` to the commit,
with the flush rule of `UnitOfWork`. `SelectAlerts` is `create_incident` through its
two refusals; `CommitIncident` is the rest. `CreateAlert` has nothing to remember and
is one action. `Abort` is a session that closes without a commit. Flush and commit
are one step because a flushed row is invisible to others and locked until then.
Every row another request can lock is written at the flush of the commit, and
SQLAlchemy orders those updates by primary key, so requests do not deadlock over
alerts.

`create_incident`'s two refusals both end in 409, those of the PATCH routes in 404;
they change nothing and are not steps.

Not in the model: the alert rows' other columns, the `alert.analyzed` events of
`save_analysis` (they change no status or link; `AuditFeed` has them), and deletions of alerts and
incidents, which no route does.

### AnalysisJobs

One action for each stretch of `run_analysis_job` between two awaits that others can
observe, with the early return, the deleted alert and both except branches.
`CallAI` is one attempt of `analyze` with its outcomes grouped by what the caller
does with them; a final transport error (re-raised) reaches `except Exception`, a
final 429 or 5xx is an `AIServiceError`. `SetJobState` and `SaveAnalysis` raise when the
row is gone. After the rollback of an except branch the job object is expired, so
its assignment is always written. `Fault` is a failing statement, commit or
checkout at any await; where it is caught follows the extent of the `try`. `Crash`
ends every task. `DeleteAlert` is maintenance on the database; the code checks for it
and the foreign key cascades.

`task[j].fault` is history: where the task was when its own `Fault` came, if that was inside
the `try` (`saving`, `refreshing`). `FailedAfterSaveOnlyAtRefresh` is stated with it, of each
job alone: a failed job whose analysis is stored is one whose own refresh failed.

`analyzed_at` is left out: it always changes, which is why `save_analysis` always
writes and notices a deleted row.

### AlertIngest

`Findings` are keys (source and external id) a provider has something to say about;
`Normalizable` are those whose payload survives the normalizer and `AlertCreate`.
A defect belongs to the finding, so it is the same at each delivery. `row` says
which delivery a finding's alert came from, `creations` counts its `alert.created`
events, `pc` says where each delivery is. `RefusePayload` is the normalizer that
raises: 500, nothing stored. A text with a NUL passes `AlertCreate` and fails every INSERT
(PostgreSQL takes none); to the provider that is the same, and such a finding is not in
`Normalizable` either. `FlushAlert` is the INSERT that goes through,
`RefuseDuplicate` the one that raises `IntegrityError` and becomes 409 (`create_alert` takes
any `IntegrityError` for a duplicate; the values `AlertCreate` lets through violate no other
constraint, see `AcceptedFits` and `SeverityKeepsOrder`); neither is
enabled while another open transaction has inserted the same key, which is
PostgreSQL's wait. `Fail` covers what ends a delivery without a confirming answer.
A process stop is several `Fail` steps; a connection lost during COMMIT is `Fail`
before or after `CommitAlert`. The provider is external: it may send again before
the last answer has come, and regards 201 and 409 as confirmation.

`MCAlertIngest` composes the model with `Contracts`: it gives each finding a sample
payload, and an assumption computes from the schemas that each payload is
accepted and which of them can be normalized. The third one is a Wazuh alert whose
agent's name is a space.

### Accounts

`role` is `users`, `tokens` the holders of unexpired tokens, `created` the creations in
commit order with, as history, how many users there were when the request
checked, and the role its body asked for. `CountUsers` and `Authorize` read; `CreateUser` and
`Refuse` end the request. `RoleFor` is `forced_role or user_data.role`. Roles never change.
Password and signature checks are taken to be right.

### RateLimiter

`now` counts ticks. `OpenWindow`, `PassThrough` and `Reject` are the three ends of
`retry_after`; there is no await under its lock, so each is one step. `Round` is
Python's rounding of halves to the even integer. `Allowance` says that a window
lets one request through whatever the setting, since a new window does not look at
the limit. The window's length is assumed positive (`LimiterConstants`); the
settings do not check it, and with zero nothing is ever limited. `Restart` is a
process started again, which begins without windows and reads the same clock.
`admitted`, `last`, `strikes` and `restarts` are history. `Stretch` is a window's length of
any of them, from any tick.

### ConnectionPool

`http` says where each request is, `held` which sessions have a connection. A session
takes one at the first statement of a transaction and gives it back at COMMIT,
ROLLBACK or close; the `refresh` after each COMMIT takes one again. A request that has
`arrived` either needs no statement (`AnswerAtOnce`: `/health`, a 401, a 422) or asks for a
connection (`Ask`) and is then `waiting`: blocked in the checkout, from which only a lent
connection (`Begin`), `Timeout`, an exception or the end of the process leads out. A
request that is not an analysis goes on with any of `Commit`, `Refresh`, `Answer` and
`Close`; one that reads and answers skips the middle; `readiness_check` is a request whose connection is back before its
answer. For `POST .../analyze` and its task, each action is the action of
`AnalysisJobs` conjoined with what it does to the connections, so every behaviour
of the jobs here is one there. `Close` waits for the task, because FastAPI leaves
the `async with` of `get_db_session` after the response and its background tasks.
`Timeout` is who has waited too long: a waiting request raises, a waiting task faults.
`limited` and `raised` are the two ends the middleware neither counts nor logs.

`pool_size` 5, `max_overflow` 10 and `pool_timeout` 30 s are SQLAlchemy's defaults,
which `session.py` does not change; the model has one constant, `PoolSize`, for the
first two together, and no clock: a timeout may happen whenever the pool is full.

What the module says about the code. With as many analyses in flight as
connections, each has one idle connection and each task waits for another: the pool
stands still until the timeout, and then the tasks are lost and their jobs stay
queued. Leave `Cardinality(InFlight) < PoolSize` out of `NoStandstill` or
`SpareConnectionFinishesJobs` and TLC finds exactly that. The properties say that
it is the only way.

### Listing

`reader` is one client of one of the two lists, with what it has been told. Each of its
actions is one statement with a snapshot of its own; `Work` is any step of
`CaseWorkflow` in between. `CountAlerts` and `ReadPage` are the two statements of
`list_alerts`; `PagesLeft` is the client's reading of `AlertList`. `ListIncidents` and
`FillIncident` are `GET /incidents`. `disturbed` is history: an alert left
the list, or the list changed between count and page of one request.

Source and severity of an alert never change, so a filter is a set of statuses. `Place`
is where ORDER BY puts an alert; LIMIT and OFFSET cut the page from the places.

### AuditFeed

`GET /audit-events` is ordered by `created_at`, whose default is PostgreSQL's `now()`: the
start of the writing transaction. So the module says when each transaction starts, and
takes each step of `CaseWorkflow` inside one. `tx` is the open transaction of each writer:
when it started, and the ids its request or job names. `feed` is all of `audit_events` in
commit order: the rows of `audit` (`row` is the place there) and the `alert.analyzed` rows.

A request with a token starts at `require_principal`'s SELECT (`Authorize`), loads later
(`LoadNamed`) and commits later still (`PublishStatus`, `PublishIncident`); one with the API
key sends no such SELECT, which is the behaviour in which it loads at once. A delivery
starts at the same SELECT or at its INSERT (`Deliver`), and commits at `PublishAlert`: overlapping
deliveries can commit in either order. An analysis starts at `get_alert`, after the commit of
"running", and stays open across the provider call (`BeginAnalysis`, `PublishAnalysis`).
`Rollback` is any session that ends without a commit. `Told` is what makes the order worth
something: ids are made by the server, and an answer carries one only after the commit
(`refresh` and the response come after it), so whoever names a resource begins after its
creation was committed. `poller` is a client that polls for the newest page.

Time is counted in commits: `created_at` is how many rows there were at the start. The
database's clock is assumed not to run backwards. Transactions that start with no commit between
them count as simultaneous and may be listed in either order. Creations of users write no
audit row, and the tasks' commits of a job's state write none either: they are not in
`feed`, and do not move its clock.

### Schema and Contracts

A schema is a set of facts about tables. Each revision's `upgrade` and `downgrade`
are operators on such sets, the models are another set, and the theorems relate
them. CI runs `alembic upgrade head` only (`.github/workflows/ci.yml:43`): the
downgrades, and the agreement of models and migrations, have no test.

In `Contracts` a text is its length as sent and its length stripped. That is what the
schemas tell apart: `AlertBase`, `IncidentCreate` and `UserCreate` strip a text before they measure
it, the provider schemas measure first, and a provider's text that is long enough only
with its blanks passes the one and fails the other.

## Runs

| Run | Instance | What it shows |
|---|---|---|
| `case_workflow` | 2 alerts, 2 incidents, 2 requests, 5 audit rows | type and inductive invariant; the log explains statuses and links; stale `from` and double grouping only by overlap; refinement of `AuditTrail` |
| `analysis_jobs` | 1 alert, 2 jobs, 3 analyses, 2 disruptions | completed is saved; failed after saving only where the job's own refresh failed; "Alert no longer exists" is never stored; statuses only advance; every step of a task brings it nearer its end, and undisturbed it leaves a final state; termination |
| `alert_ingest` | 3 findings, two with one id in two sources and one that cannot be normalized, 3 deliveries each, 1 failure | 201 is what is stored; one creation; refinement of `IngestLedger`; every normalizable finding sent is confirmed, whatever becomes of the others |
| `rate_limiter` | 2 clients, limit 2 in 3 s, half-second ticks, 6 ticks, 5 requests per window, 5 admissions, 1 restart | inductive invariant; the bound over any stretch; earned rejections; the value of waiting |
| `accounts` | 3 names, 2 requests | administrators, creators, bootstraps, names |
| `connection_pool` | 1 alert, 2 analyses, 1 other request, 2 connections, 2 disruptions | inductive invariant; who can wait for whom; no job runs behind an error answer; jobs finish when a connection is to spare; the timeout ends every request |
| `listings` | 3 alerts, 2 incidents, 2 requests, 4 audit rows, pages of 1 | inductive invariant; what pages and the incident list may miss, and why |
| `audit_feed` | 2 alerts, 1 incident, 2 requests, 1 analysis, 3 audit rows, polls of 2 | inductive invariant; nothing is listed below its creation; what a poll may miss; when the newest row tells the status |
| `empty_incident` | 1 alert, 2 incidents, 2 requests | violated: an incident without alerts |
| `job_lost_in_crash` | 1 job, 1 disruption | violated: a job neither completed nor failed, for ever |
| `torn_triage` | 2 jobs, no disruption | violated: the texts of two analyses side by side |
| `second_bootstrap` | 2 names, 2 requests | violated: two bootstraps |

Why the bounds suffice. Every hazard of the workflow needs two requests over one
row; five audit rows hold two creations, an overlapping pair and one more, and a
second alert makes overlapping groups differ. Two statuses for alerts and one
other than the default for incidents tell the loaded, the asked and the stored
value apart. Jobs meet only over the two texts of one alert: two jobs, and
analyses that share a summary, reach every combination of skipped columns; two
disruptions allow one fault before and one after each commit. For redelivery a
third delivery is needed to wait behind a second that waited behind a first; one
failure can hit any of them, and deliveries must outnumber failures. A stretch as
long as a window meets at most two windows, or one more for each restart: six ticks
after the start are two windows of six back to back, five admissions are more than the
opener outside the stretch and the three inside it, where the bound is tight; with a
restart it is tight at six, which is left to the proof;
five requests allow three rejections in one window. Two connections are the
fewest with which one analysis can have a spare one and two cannot; the other
request shows that a third party gets in between and is let out. A walk of three pages
has a first, a middle and a last. Three audit rows hold a creation, a row that commits
late and one that overtakes it; polls of two leave the late one room to
be missed, and two alerts let a row about another resource overtake. The audit length, clock, counts, admissions, restarts, sends, faults and
disruptions are capped; each cap is a constant named in its module. Identifiers
are interchangeable and symmetry is used in runs without liveness.

Deadlock is not checked: a system whose requests have all been answered, or whose
bound is reached, may stop.

## Fairness

Safety is checked and proved without fairness. `AnalysisJobs` assumes weak fairness
of each task: the event loop runs what can run, and a provider call ends because
the client has a timeout and the attempts are limited. Requests and disruptions
are never forced. `AlertIngest` assumes weak fairness of each handler, and of a
provider's *second and later* deliveries while it has no confirmation; that is the
provider's retrying, on which `docs/architecture.md:44` builds. A first delivery is
never forced. Both assumptions are made for each finding alone: the event loop may
serve its deliveries in any order. Deliveries outnumber failures (`IngestBounds`), without which no
retrying could succeed.

`ConnectionPool` assumes weak fairness of `Proceed` for each request with its task. A
waiter may be overtaken each time a connection comes free; since the requests of an
instance are finitely many, that cannot go on for ever, and nothing stronger is assumed.
`Proceed` offers a request that is blocked in the checkout only the connection, so
fairness alone does not end it: `RequestsEnd` names weak fairness of `Timeout` as its
premise, because pool_timeout is a real timer, and fails without it. `SpareConnectionFinishesJobs` does without.

## Proofs

All theorems are proved by `tlapm` for every value of the constants, from the named
assumptions (`DisjointIds`, `AskedStatuses`, `AuditBound`, `TriageValues`, `JobConstants`,
`AccountIds`, `IngestBounds`, `IngestFindings`, `LimiterConstants`, `PoolConstants`,
`ListConstants`, `FeedConstants`): the identifiers are distinct kinds, the bounds are numbers, the
normalizable findings are findings, the window's length and the pool's size are
positive, the requests of an instance and the alerts of a database are finitely many,
and the order of a list is total; requests, alerts and tasks are different things, and the
limit of a poll is positive. The limit of the limiter may be any integer.

Each of the eight state machines has an inductive invariant (`IInv`, `LimiterIInv`,
`PoolIInv`, `ListIInv`, `FeedIInv`), which TLC checks in the same run as the properties. The
proofs are `Init => IInv`, one lemma or step per action, and `IInv => property`.
`LimiterIInv` is inductive together with the four properties it carries (`Kept`),
since a stretch that is over has no room to speak of.

- *CaseWorkflow.* Properties about the log are not inductive: a request in flight
  could write anything. `IInv` adds that each request in flight remembers something
  that was true of the log when it read (`RequestsRemember`), and each row was written
  by such a request (`RowsRemember`). `AuditExplainsStatus` then survives
  a commit because the column is skipped exactly when the row records no move.
  `StaleFromOnlyByOverlap` follows from `RowsRemember`: if no row about the resource came
  between, the status has not changed either. `WorkflowKeepsTrail` shows that
  every step is a step of `AuditTrail` or leaves the log alone.
- *AnalysisJobs.* `TaskMatchesJob` ties each position of a task to what its job row can
  say (queued before, running during, gone with its alert) and to whether its
  analysis is saved. A failed state after a saved analysis is traced to the fault of that
  task (`CaughtFacts`). `JobsAdvance` is an action property proved from it. So are the two
  halves of termination that need no fairness: `TasksAreFinite`, that `StepsAhead`, the
  awaits a task has left, falls with each of its steps and never below zero, and
  `UndisturbedTasksAreRecorded`, that a task at its end without a disruption has
  recorded a final state. What they leave to TLC is that a task which can run does.
- *AlertIngest.* `OneInserter`: at most one open transaction has inserted a finding,
  and only while none is committed. With `AnswersAreTrue` it gives the three
  properties, and `IngestKeepsLedger` maps commits to `Keep`, the two answers to `Confirm`
  and everything else to a stutter.
- *Accounts.* `ChecksRemembered`: what a request carries was true when it read it and
  still counts, since roles never change and users are never deleted. The unique name makes
  the winner's request the only one whose role can be in the row.
- *RateLimiter.* The properties speak of stretches that are over, of any start. What is
  inductive is how much a stretch that is not over has left (`Room`): a window begun
  before it has spent its first request outside it, every window in it but one follows
  a restart in it, and the current one still has to fill up. `StretchesFit` says that no
  stretch has let through more than its room leaves. The bound of `SlidingBound` is
  what remains when the stretch ends. `RejectionsAreEarned` needs the converse, that a
  window has let through what it counted (`WindowsFilled`). `WaitingHelps` needs how
  early the rounding can send a client back (`StrikesRunOut`, from `RoundIsNear`: half a
  second at most, and not twice, because at least one second is asked for). The proof
  goes client by client (`IInvByClient`): no step for one client changes another's.
- *ConnectionPool.* `PoolRunsJobs` shows that every behaviour of the pool is one of
  `AnalysisJobs`, so that all theorems about jobs hold with a pool of any size;
  `StepPoolIInv` uses their `IInv`. `PoolIInv` ties each session's connection to the
  position of its request or task (`HeldWhereOpen`) and each request to its task
  (`RequestMatchesTask`). In a standstill every connection is held by someone who waits for
  another, and such a holder is the request of an analysis whose task waits
  (`WaitingHoldersAreInFlight`); holders map one to one into the analyses in flight, which
  must therefore be as many as the connections.
- *Listing.* `ReadersOnlyRead` carries the workflow's theorems over. For the pages,
  `PlacesOnlyGrow`: while nothing leaves the list, no alert moves to an earlier place. An
  alert is then on a page already read or still ahead (`WalkOnTrack`), and when the walk
  ends, the last total says that nothing is ahead; a set of places below the total has no room for
  another one. For the incidents, an alert that one creation names has one link
  from then on (`LinkedIsNamed`), so one statement shows it and no other
  (`ShownWhereLinked`).
- *AuditFeed.* `FeedIsWork` carries the workflow's theorems over. Every commit, whoever's it
  is, is one case (`Commits`, `CommitFacts`), and the actions differ only in what they log.
  `TransactionsRemember`: what an open transaction names was created before it began, and a
  request reads after it began. `FeedRemembers` says the same of the rows.
  `CreationsAreListedFirst`: a new row names what was created before its transaction began, or
  what did not exist. `PollsMissOnlyOpenTransactions`: if a missed row had begun after the
  poll before, every row of the page had, and more rows than the limit were new.
  `NewestRowsTellStatus` joins both modules: without overlap the row with the latest
  `created_at` is the last one committed (`NewestIsLast`); if it records a change, the log
  explains the status by it; if it records none, a stale `from` would take an overlap
  (`StaleFromOverlaps`).
- *Contracts.* No state: the theorems are about sets and lengths. `UpgradesReachModels`
  compares the two sides table by table (`UsersAgree` to `AlertsAgree`). `DowngradesUndo` rests on
  lemmas about the names of facts (`FactsOfTables`, `NothingNamedIncident`, `TriageNamed`):
  a downgrade names what its upgrade added, and nothing older has such a name.
  `AcceptedFits` follows from the bounds of each schema against the widths of the migrated
  columns (`Widths`), `GuardDutyNormalizes` and `WazuhNormalizes` say exactly which accepted
  findings fail `AlertCreate`: a text too short without its blanks, a timestamp without
  a timezone, a GuardDuty resource that is blank or longer than 512, a Wazuh
  description that the source address makes longer than 10000. `SeverityKeepsOrder` is about the rounding of Wazuh's levels.

Every invariant and every action property of the passing runs is proved. Two more
invariants are proved and have no run of their own: `SomeAdministrator` (`NeverLockedOut`), which
`IInv` of `Accounts` contains, and `NoOverlongWait` (`WaitsEndWithTheWindow`). Only
model-checked are the five liveness properties (`UndisturbedJobsEnd`, `TasksEnd`,
`SentIsConfirmed`, `SpareConnectionFinishesJobs`, `RequestsEnd`), which are out of the
prover's reach with their fairness, and the four violations.

## Where the code and its documentation part

Four statements are refuted by runs; `PROJECT.json` ("findings") quotes them.

1. `app/db/models/incident.py:13`: an incident groups one or more alerts. Two
   overlapping requests can leave one with none.
2. `docs/architecture.md:82`: a job always records a final state. A fault outside the
   `try`, or a restart, leaves it queued or running.
3. `README.md:186`: the stored texts are one analysis. Overlapping jobs can mix two.
4. `README.md:104`: the credential bootstraps exactly once. Overlapping bootstraps
   both succeed. What does hold is `ExtraBootstrapOnlyByOverlap`.

Smaller ones, without a run: `app/repositories/incidents.py:106` appends the transition of
every update, and a PATCH that asks for the status it had read, after another request
changed it, is recorded and answered 200 and changes nothing (`NewestRowTellsStatus` needs
its premise about overlaps for this); `README.md:183` counts three retries where the code makes
three attempts; `README.md` ("Security-relevant changes append audit events") does not
hold for the creation of users, which writes none; `app/main.py:65` promises one
completion log per request, and a limited request or one whose handler raises has
none; `docs/architecture.md` lists 422 for requests that fail validation, and a
finding that only `AlertCreate` refuses is answered 500; `docs/architecture.md:60`
calls page results deterministic, which holds for one snapshot and not for the two of
one request.

## Not modelled, and the plan

1. The safety core of the other three liveness properties, as `TasksAreFinite` and
   `UndisturbedTasksAreRecorded` are for the jobs': a measure for a request on its way
   through the pool, and for a finding, that its next delivery can be confirmed.
2. A refinement of `CaseWorkflow`'s commit into flush and commit with row locks, and
   the composition of `AnalysisJobs` with it over one alert row.

Not modelled, and why. Password hashing, token signatures and the HTTP and ORM layers are
libraries; their results are guards. Settings are constants of the models. The values
of counters, metric labels, log lines and request ids: each is written in one
place and read by nothing in the system. `_windows` and the metric labels
grow without a bound in the code; there is nothing to check but that. Migrations
run once, before the service; two migrators at once are PostgreSQL's and Alembic's
business, and the offline mode only prints SQL.
