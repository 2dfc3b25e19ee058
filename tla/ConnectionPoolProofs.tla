------------------------ MODULE ConnectionPoolProofs ------------------------
(***************************************************************************)
(* Proofs about ConnectionPool, for any number of requests, analyses and   *)
(* connections.                                                            *)
(*                                                                         *)
(* Each action of the pool that touches a job is one of AnalysisJobs with  *)
(* more conjuncts, so a behaviour of the pool is one of the jobs and all   *)
(* that is proved of them carries over (PoolRunsJobs).  The rest is about  *)
(* http and held.                                                          *)
(***************************************************************************)
EXTENDS ConnectionPool, AnalysisJobsProofs, FiniteSetTheorems

-----------------------------------------------------------------------------
(* The jobs behind the pool.                                               *)

\* Every step of the pool is a step of the jobs or leaves them alone.
LEMMA PoolStepsAreJobSteps == [PoolNext]_poolVars => [Next]_vars
<1> SUFFICES ASSUME [PoolNext]_poolVars PROVE [Next]_vars
  OBVIOUS
<1>1. ASSUME NEW j \in Jobs, BreakJob(j) PROVE Next
  BY <1>1 DEF BreakJob, Next
<1>2. ASSUME NEW r \in Requests, Proceed(r) PROVE Next \/ UNCHANGED vars
  <2>1. CASE \/ AnswerAtOnce(r) \/ Ask(r) \/ Begin(r)
             \/ Commit(r) \/ Refresh(r) \/ Answer(r) \/ Close(r)
    BY <2>1 DEF AnswerAtOnce, Ask, Begin, Commit, Refresh, Answer, Close
  <2>2. ASSUME r \in Jobs, NEW a \in Alerts, RequestJob(r, a) PROVE Next
    BY <2>2 DEF RequestJob, Next
  <2>3. ASSUME r \in Jobs,
               \/ ScheduleJob(r) \/ TaskReads(r) \/ TaskCommits(r) \/ TaskCalls(r)
               \/ TaskRecordsFailure(r)
        PROVE  Next
    BY <2>3 DEF ScheduleJob, TaskReads, TaskCommits, TaskCalls, TaskRecordsFailure,
       Next, TaskStep
  <2> QED
    BY <1>2, <2>1, <2>2, <2>3 DEF Proceed
<1>3. ASSUME NEW r \in Requests, Raise(r) PROVE UNCHANGED vars
  BY <1>3 DEF Raise
<1>4. ASSUME NEW r \in Requests, Timeout(r) PROVE Next \/ UNCHANGED vars
  BY <1>1, <1>3, <1>4 DEF Timeout
<1>5. ASSUME NEW r \in Requests, Arrive(r) PROVE UNCHANGED vars
  BY <1>5 DEF Arrive
<1>6. CASE StopProcess
  BY <1>6 DEF StopProcess, Next
<1>7. ASSUME NEW a \in Alerts, Maintain(a) PROVE Next
  BY <1>7 DEF Maintain, Next
<1>8. CASE UNCHANGED poolVars
  BY <1>8 DEF poolVars
<1> QED
  BY <1>1, <1>2, <1>3, <1>4, <1>5, <1>6, <1>7, <1>8 DEF PoolNext

\* Whatever the pool makes the tasks wait for, they are the tasks of
\* AnalysisJobs: every theorem about Spec holds of PoolSpec.
THEOREM PoolRunsJobs == PoolSpec => Spec
<1>1. PoolInit => Init
  BY DEF PoolInit
<1> QED
  BY <1>1, PoolStepsAreJobSteps, PTL DEF PoolSpec, Spec

-----------------------------------------------------------------------------
(* Counting connections.                                                   *)

\* The sessions that have a connection are finitely many.
LEMMA HeldFinite ==
  ASSUME NEW S \in SUBSET Sessions
  PROVE  IsFiniteSet(S) /\ Cardinality(S) \in Nat
<1>1. IsFiniteSet(Jobs)
  BY PoolConstants, FS_Subset DEF Requests
<1>2. IsFiniteSet({"request"}) /\ IsFiniteSet({"task"})
  BY FS_Singleton
<1>3. IsFiniteSet(Sessions)
  BY <1>1, <1>2, PoolConstants, FS_Product, FS_Union DEF Sessions
<1> QED
  BY <1>3, FS_Subset, FS_CardinalityType

\* Lending to a session that has a connection, or while one is free, keeps the
\* count (QueuePool's limit).
LEMMA LendingKeepsCount ==
  ASSUME NEW S \in SUBSET Sessions, Cardinality(S) <= PoolSize,
         NEW s \in Sessions, s \in S \/ ~(Cardinality(S) >= PoolSize)
  PROVE  S \union {s} \in SUBSET Sessions /\ Cardinality(S \union {s}) <= PoolSize
<1>1. IsFiniteSet(S) /\ Cardinality(S) \in Nat
  BY HeldFinite
<1>2. Cardinality(S \union {s}) = IF s \in S THEN Cardinality(S) ELSE Cardinality(S) + 1
  BY <1>1, FS_AddElement
<1> QED
  BY <1>1, <1>2, PoolConstants

\* So does taking connections back.
LEMMA ReturningKeepsCount ==
  ASSUME NEW S \in SUBSET Sessions, Cardinality(S) <= PoolSize,
         NEW T \in SUBSET S
  PROVE  T \in SUBSET Sessions /\ Cardinality(T) <= PoolSize
<1>1. IsFiniteSet(S) /\ Cardinality(S) \in Nat /\ Cardinality(T) \in Nat
  BY HeldFinite
<1>2. Cardinality(T) <= Cardinality(S)
  BY <1>1, FS_Subset
<1> QED
  BY <1>1, <1>2, PoolConstants

-----------------------------------------------------------------------------
(* The parts of the invariant.                                             *)

\* What the invariant says of one request, its job and their connections.
RequestPart(r) ==
  /\ Own(r) \in held => http[r] \in {"reading", "refreshed", "answered"}
  /\ r \in Jobs =>
       /\ Task(r) \in held =>
            task[r].pc \in {"loaded", "alert_gone", "calling", "saving", "completing"}
       /\ http[r] \in {"idle", "limited", "arrived", "waiting", "reading"} =>
            task[r].pc = "none"
       /\ task[r].pc = "accepted" <=> http[r] = "committed"
       /\ Running(r) => http[r] = "answered" /\ Own(r) \in held
       /\ http[r] # "refreshed"
       /\ http[r] = "raised" => jobStatus[r] \in {"absent", "queued"} /\ ~Running(r)

\* The invariant is its types and RequestPart of every request.
LEMMA PoolIInvByRequest ==
  PoolIInv <=> PoolTypeOK /\ \A r \in Requests : RequestPart(r)
<1>1. Jobs \subseteq Requests
  BY DEF Requests
<1> QED
  BY <1>1 DEF PoolIInv, HeldWhereOpen, RequestMatchesTask, NoRunBehindAnError, RequestPart

\* A step of one request and its task keeps the invariant when it keeps their
\* part of it and lends no connection too many.
LEMMA OneRequestSuffices ==
  ASSUME PoolIInv, TypeOK', NEW r \in Requests, RequestPart(r)',
         http' \in [Requests -> HttpStates],
         held' \in SUBSET Sessions, Cardinality(held') <= PoolSize,
         \A q \in Requests \ {r} :
           /\ http'[q] = http[q]
           /\ Own(q) \in held' <=> Own(q) \in held
           /\ Task(q) \in held' <=> Task(q) \in held,
         \A k \in Jobs \ {r} : task'[k] = task[k] /\ jobStatus'[k] = jobStatus[k]
  PROVE  PoolIInv'
<1>1. PoolTypeOK'
  BY DEF PoolTypeOK
<1>2. ASSUME NEW q \in Requests, q # r PROVE RequestPart(q)'
  <2>1. RequestPart(q)
    BY PoolIInvByRequest
  <2> QED
    BY <1>2, <2>1 DEF RequestPart, Running
<1>3. (PoolTypeOK /\ \A q \in Requests : RequestPart(q))'
  BY <1>1, <1>2
<1> QED
  BY <1>3 DEF PoolIInv, HeldWhereOpen, RequestMatchesTask, NoRunBehindAnError,
     RequestPart, Requests

\* Taking back or lending one session's connection leaves the other requests'.
LEMMA OtherSessionsKeepTheirs ==
  ASSUME NEW r \in Requests, NEW s \in {Own(r), Task(r)}, NEW q \in Requests, q # r
  PROVE  Own(q) # s /\ Task(q) # s
  BY DEF Own, Task

-----------------------------------------------------------------------------
(* Where the tasks go.                                                     *)

\* The positions, for the provers.
LEMMA PositionNames ==
  /\ Positions = {"none", "accepted", "scheduled", "loaded", "running",
                  "alert_gone", "calling", "saving", "refreshing",
                  "failing", "completing", "done", "lost"}
  /\ Before \union During = Positions \ {"none", "done", "lost"}
  /\ Errors = {"none", "alert_gone", "ai", "unexpected"}
  BY DEF Positions, Before, During, Ended, Errors

\* From where to where each action takes its task.
LEMMA TaskGoes ==
  ASSUME TypeOK, NEW j \in Jobs
  PROVE  /\ \A a \in Alerts : RequestAnalysis(j, a) =>
              /\ task[j].pc = "none" /\ task'[j].pc = "accepted"
              /\ jobStatus'[j] = "queued"
         /\ Schedule(j) =>
              /\ task[j].pc = "accepted"
              /\ task'[j].pc = IF JobExists(j) THEN "scheduled" ELSE "done"
         /\ LoadJob(j) =>
              task[j].pc = "scheduled" /\ task'[j].pc \in {"loaded", "done"}
         /\ MarkRunning(j) =>
              task[j].pc = "loaded" /\ task'[j].pc \in {"running", "done"}
         /\ LoadAlert(j) =>
              task[j].pc = "running" /\ task'[j].pc \in {"calling", "alert_gone"}
         /\ RecordAlertGone(j) =>
              task[j].pc = "alert_gone" /\ task'[j].pc = "done"
         /\ CallAI(j) =>
              task[j].pc = "calling" /\ task'[j].pc \in {"saving", "failing", "calling"}
         /\ SaveAnalysis(j) =>
              task[j].pc = "saving" /\ task'[j].pc \in {"refreshing", "failing"}
         /\ RefreshSaved(j) =>
              task[j].pc = "refreshing" /\ task'[j].pc \in {"completing", "failing"}
         /\ Complete(j) =>
              task[j].pc = "completing" /\ task'[j].pc = "done"
         /\ RecordFailure(j) =>
              task[j].pc = "failing" /\ task'[j].pc = "done"
         /\ Fault(j) =>
              /\ task[j].pc \in (Before \union During) \ {"calling"}
              /\ task'[j].pc = IF task[j].pc \in {"saving", "refreshing"}
                               THEN "failing" ELSE "lost"
              /\ UNCHANGED jobStatus
<1>1. task \in [Jobs -> TaskRecord] /\ task[j] \in TaskRecord
      /\ jobStatus \in [Jobs -> JobStatus \union {"absent"}]
  BY DEF TypeOK
<1>2. LoadAlert(j) => task[j].pc = "running" /\ task'[j].pc \in {"calling", "alert_gone"}
  <2>1. ASSUME task' = [task EXCEPT ![j] =
                          [@ EXCEPT !.pc = "calling", !.loaded = triage[jobAlert[j]],
                                    !.attempts = 0]]
        PROVE  task'[j].pc = "calling"
    BY <1>1, <2>1 DEF TaskRecord
  <2> QED
    BY <1>1, <2>1, GotoFacts, PositionNames DEF LoadAlert
<1>3. CallAI(j) => task[j].pc = "calling" /\ task'[j].pc \in {"saving", "failing", "calling"}
  <2>1. ASSUME NEW x \in Results,
               task' = [task EXCEPT ![j] = [@ EXCEPT !.pc = "saving", !.result = x]]
        PROVE  task'[j].pc = "saving"
    BY <1>1, <2>1 DEF TaskRecord
  <2>2. ASSUME NEW n, task[j].pc = "calling", task' = [task EXCEPT ![j].attempts = n]
        PROVE  task'[j].pc = "calling"
    BY <1>1, <2>2 DEF TaskRecord
  <2> QED
    BY <1>1, <2>1, <2>2, FailFacts, PositionNames DEF CallAI
<1>4. \A e \in Errors : FailWith(j, e) => task'[j].pc = "failing"
  BY FailFacts
<1>5. \A p \in Positions : Goto(j, p) => task'[j].pc = p
  BY GotoFacts
<1>6. \A a \in Alerts : RequestAnalysis(j, a) =>
              /\ task[j].pc = "none" /\ task'[j].pc = "accepted"
              /\ jobStatus'[j] = "queued"
  BY <1>1, <1>5, PositionNames DEF RequestAnalysis
<1>7. Schedule(j) => /\ task[j].pc = "accepted"
                     /\ task'[j].pc = IF JobExists(j) THEN "scheduled" ELSE "done"
  BY <1>5, PositionNames DEF Schedule
<1>8. LoadJob(j) => task[j].pc = "scheduled" /\ task'[j].pc \in {"loaded", "done"}
  BY <1>5, PositionNames DEF LoadJob
<1>9. MarkRunning(j) => task[j].pc = "loaded" /\ task'[j].pc \in {"running", "done"}
  BY <1>5, PositionNames DEF MarkRunning
<1>10. RecordAlertGone(j) => task[j].pc = "alert_gone" /\ task'[j].pc = "done"
  BY <1>5, PositionNames DEF RecordAlertGone
<1>11. SaveAnalysis(j) => task[j].pc = "saving" /\ task'[j].pc \in {"refreshing", "failing"}
  BY <1>4, <1>5, PositionNames DEF SaveAnalysis
<1>12. RefreshSaved(j) => task[j].pc = "refreshing" /\ task'[j].pc \in {"completing", "failing"}
  BY <1>4, <1>5, PositionNames DEF RefreshSaved
<1>13. Complete(j) => task[j].pc = "completing" /\ task'[j].pc = "done"
  BY <1>5, PositionNames DEF Complete
<1>14. RecordFailure(j) => task[j].pc = "failing" /\ task'[j].pc = "done"
  BY <1>5, PositionNames DEF RecordFailure
<1>15. Fault(j) =>
              /\ task[j].pc \in (Before \union During) \ {"calling"}
              /\ task'[j].pc = IF task[j].pc \in {"saving", "refreshing"}
                               THEN "failing" ELSE "lost"
              /\ UNCHANGED jobStatus
  BY <1>5, CaughtFacts, PositionNames DEF Fault, CaughtFault
<1> QED
  BY <1>2, <1>3, <1>6, <1>7, <1>8, <1>9, <1>10, <1>11, <1>12, <1>13, <1>14, <1>15

\* Each of them leaves the tasks and the states of the other jobs.
LEMMA OtherTasksStay ==
  ASSUME TypeOK, NEW j \in Jobs,
         TaskStep(j) \/ Fault(j) \/ \E a \in Alerts : RequestAnalysis(j, a)
  PROVE  \A k \in Jobs \ {j} : task'[k] = task[k] /\ jobStatus'[k] = jobStatus[k]
<1>1. task \in [Jobs -> TaskRecord] /\ jobStatus \in [Jobs -> JobStatus \union {"absent"}]
  BY DEF TypeOK
<1> QED
  BY <1>1 DEF TaskStep, Fault, RequestAnalysis, Schedule, LoadJob, MarkRunning, LoadAlert,
     RecordAlertGone, CallAI, SaveAnalysis, RefreshSaved, Complete, RecordFailure,
     Goto, FailWith, SetJobState

-----------------------------------------------------------------------------
(* The inductive invariant.                                                *)

\* No request has arrived.
LEMMA InitPoolIInv == PoolInit => PoolIInv
<1> SUFFICES ASSUME PoolInit PROVE PoolIInv
  OBVIOUS
<1>1. TypeOK /\ \A j \in Jobs : task[j].pc = "none" /\ jobStatus[j] = "absent"
  BY InitIInv DEF PoolInit, Init, IInv, NoTask
<1>2. PoolTypeOK
  BY <1>1, FS_EmptySet, PoolConstants DEF PoolInit, PoolTypeOK, HttpStates
<1>3. \A r \in Requests : RequestPart(r)
  BY <1>1 DEF PoolInit, RequestPart, Running, Before, During
<1> QED
  BY <1>2, <1>3, PoolIInvByRequest

\* What a step may assume.
LEMMA PoolFacts ==
  ASSUME PoolIInv
  PROVE  /\ TypeOK
         /\ http \in [Requests -> HttpStates]
         /\ held \in SUBSET Sessions /\ Cardinality(held) <= PoolSize
         /\ \A r \in Requests : RequestPart(r) /\ Own(r) \in Sessions
         /\ \A j \in Jobs : j \in Requests /\ Task(j) \in Sessions
         /\ \A q \in Others : q \in Requests /\ q \notin Jobs
         /\ \A j \in Jobs : j \notin Others
  BY PoolIInvByRequest, PoolConstants DEF PoolTypeOK, Requests, Sessions, Own, Task

\* A request that moves without its task.
LEMMA RequestMoves ==
  ASSUME PoolIInv, NEW r \in Requests, NEW to \in HttpStates, Move(r, to),
         UNCHANGED vars,
         held' \in SUBSET Sessions, Cardinality(held') <= PoolSize,
         held' = held \/ held' = held \union {Own(r)} \/ held' = held \ {Own(r)},
         RequestPart(r)'
  PROVE  PoolIInv'
<1>1. http' \in [Requests -> HttpStates] /\ \A q \in Requests \ {r} : http'[q] = http[q]
  BY PoolFacts DEF Move
<1>2. \A q \in Requests \ {r} : /\ Own(q) \in held' <=> Own(q) \in held
                                /\ Task(q) \in held' <=> Task(q) \in held
  BY OtherSessionsKeepTheirs
<1>3. TypeOK'
  BY PoolFacts DEF vars, TypeOK
<1>4. \A k \in Jobs \ {r} : task'[k] = task[k] /\ jobStatus'[k] = jobStatus[k]
  BY DEF vars
<1> QED
  BY <1>1, <1>2, <1>3, <1>4, OneRequestSuffices

\* A task that moves, with or without its request.
LEMMA TaskMoves ==
  ASSUME PoolIInv, TypeOK', NEW j \in Jobs,
         TaskStep(j) \/ Fault(j) \/ \E a \in Alerts : RequestAnalysis(j, a),
         http' = http \/ \E to \in HttpStates : Move(j, to),
         held' \in SUBSET Sessions, Cardinality(held') <= PoolSize,
         NEW s \in {Own(j), Task(j)},
         held' = held \/ held' = held \union {s} \/ held' = held \ {s},
         RequestPart(j)'
  PROVE  PoolIInv'
<1>0. j \in Requests
  BY PoolFacts
<1>1. http' \in [Requests -> HttpStates] /\ \A q \in Requests \ {j} : http'[q] = http[q]
  BY PoolFacts DEF Move
<1>2. \A q \in Requests \ {j} : /\ Own(q) \in held' <=> Own(q) \in held
                                /\ Task(q) \in held' <=> Task(q) \in held
  BY <1>0, OtherSessionsKeepTheirs
<1>3. \A k \in Jobs \ {j} : task'[k] = task[k] /\ jobStatus'[k] = jobStatus[k]
  BY PoolFacts, OtherTasksStay
<1> QED
  BY <1>0, <1>1, <1>2, <1>3, OneRequestSuffices

\* Requests that move without their tasks keep the invariant.
LEMMA RequestStep ==
  ASSUME PoolIInv, IInv, NEW r \in Requests,
         \/ Arrive(r) \/ AnswerAtOnce(r) \/ Ask(r) \/ Begin(r) \/ Commit(r) \/ Refresh(r)
         \/ Answer(r) \/ Close(r) \/ Raise(r)
  PROVE  PoolIInv'
<1>0. /\ http \in [Requests -> HttpStates]
      /\ held \in SUBSET Sessions /\ Cardinality(held) <= PoolSize
      /\ RequestPart(r) /\ Own(r) \in Sessions
      /\ r \in Jobs => r \notin Others
      /\ Own(r) # Task(r)
  BY PoolFacts DEF Own, Task
<1>1. held \ {Own(r)} \in SUBSET Sessions /\ Cardinality(held \ {Own(r)}) <= PoolSize
  BY <1>0, ReturningKeepsCount
<1>2. Own(r) \in held \/ ~Full =>
        /\ held \union {Own(r)} \in SUBSET Sessions
        /\ Cardinality(held \union {Own(r)}) <= PoolSize
  BY <1>0, LendingKeepsCount DEF Full
<1>3. \A to : Move(r, to) => http'[r] = to
  BY <1>0 DEF Move
<1>4. UNCHANGED vars => UNCHANGED <<task, jobStatus>>
  BY DEF vars
<1> USE DEF RequestPart, Running, HttpStates
<1>5. CASE Arrive(r)
  BY <1>0, <1>3, <1>4, <1>5, RequestMoves DEF Arrive
<1>6. CASE Begin(r)
  BY <1>0, <1>2, <1>3, <1>4, <1>6, RequestMoves DEF Begin, Checkout
<1>7. CASE AnswerAtOnce(r)
  BY <1>0, <1>3, <1>4, <1>7, RequestMoves, PositionNames DEF AnswerAtOnce
<1>13. CASE Ask(r)
  BY <1>0, <1>3, <1>4, <1>13, RequestMoves DEF Ask
<1>8. CASE Commit(r)
  BY <1>0, <1>1, <1>3, <1>4, <1>8, RequestMoves DEF Commit, Release
<1>9. CASE Refresh(r)
  BY <1>0, <1>2, <1>3, <1>4, <1>9, RequestMoves DEF Refresh, Checkout
<1>10. CASE Answer(r)
  BY <1>0, <1>1, <1>3, <1>4, <1>10, RequestMoves, PositionNames DEF Answer, Release
<1>11. CASE Close(r)
  BY <1>0, <1>1, <1>3, <1>4, <1>11, RequestMoves DEF Close, Release
<1>12. CASE Raise(r)
  <2>1. r \in Jobs => task[r].pc = "none" /\ jobStatus[r] = "absent"
    BY <1>0, <1>12 DEF Raise, IInv, TaskMatchesJob
  <2> QED
    BY <1>0, <1>1, <1>3, <1>4, <1>12, <2>1, RequestMoves, PositionNames DEF Raise, Release
<1> QED
  BY <1>5, <1>6, <1>7, <1>8, <1>9, <1>10, <1>11, <1>12, <1>13

\* The request and the task of an analysis keep the invariant.
LEMMA AnalysisStep ==
  ASSUME PoolIInv, IInv, NEW j \in Jobs,
         \/ \E a \in Alerts : RequestJob(j, a)
         \/ ScheduleJob(j) \/ TaskReads(j) \/ TaskCommits(j) \/ TaskCalls(j)
         \/ TaskRecordsFailure(j) \/ BreakJob(j)
  PROVE  PoolIInv'
<1>0. /\ TypeOK
      /\ http \in [Requests -> HttpStates]
      /\ held \in SUBSET Sessions /\ Cardinality(held) <= PoolSize
      /\ RequestPart(j) /\ Own(j) \in Sessions /\ Task(j) \in Sessions
      /\ j \in Requests /\ j \notin Others
      /\ Own(j) # Task(j)
      /\ jobStatus[j] # "absent" <=> JobExists(j)
      /\ task[j].pc \in Before => jobStatus[j] \in {"queued", "absent"}
  BY PoolFacts DEF Own, Task, JobExists, IInv, TaskMatchesJob
<1>1. \A s \in {Own(j), Task(j)} :
        held \ {s} \in SUBSET Sessions /\ Cardinality(held \ {s}) <= PoolSize
  BY <1>0, ReturningKeepsCount
<1>2. \A s \in {Own(j), Task(j)} : s \in held \/ ~Full =>
        /\ held \union {s} \in SUBSET Sessions
        /\ Cardinality(held \union {s}) <= PoolSize
  BY <1>0, LendingKeepsCount DEF Full
<1>3. \A to : Move(j, to) => http'[j] = to
  BY <1>0 DEF Move
<1>4. ASSUME Next PROVE TypeOK'
  BY <1>0, <1>4, TypeStep
<1> USE DEF RequestPart, Running, HttpStates
<1>5. ASSUME NEW a \in Alerts, RequestJob(j, a) PROVE PoolIInv'
  <2>1. /\ task[j].pc = "none" /\ task'[j].pc = "accepted" /\ jobStatus'[j] = "queued"
        /\ TypeOK'
    BY <1>0, <1>4, <1>5, TaskGoes DEF RequestJob, Next
  <2>2. RequestPart(j)'
    BY <1>0, <1>3, <1>5, <2>1 DEF RequestJob, Release, Before, During
  <2> QED
    BY <1>0, <1>1, <1>5, <2>1, <2>2, TaskMoves DEF RequestJob, Release
<1>6. CASE ScheduleJob(j)
  <2>1. /\ task[j].pc = "accepted"
        /\ task'[j].pc = IF JobExists(j) THEN "scheduled" ELSE "done"
        /\ UNCHANGED jobStatus
        /\ TypeOK' /\ TaskStep(j)
    BY <1>0, <1>4, <1>6, TaskGoes DEF ScheduleJob, Next, TaskStep, Schedule
  <2>2. RequestPart(j)'
    BY <1>0, <1>3, <1>6, <2>1 DEF ScheduleJob, Checkout, Release, Before, During
  <2> QED
    BY <1>0, <1>1, <1>2, <1>6, <2>1, <2>2, TaskMoves DEF ScheduleJob, Checkout, Release
<1>7. CASE TaskReads(j)
  <2>1. /\ \/ task[j].pc = "scheduled" /\ task'[j].pc \in {"loaded", "done"}
           \/ task[j].pc = "running" /\ task'[j].pc \in {"calling", "alert_gone"}
           \/ task[j].pc = "refreshing" /\ task'[j].pc \in {"completing", "failing"}
        /\ TypeOK' /\ TaskStep(j)
    BY <1>0, <1>4, <1>7, TaskGoes DEF TaskReads, Next, TaskStep
  <2>2. RequestPart(j)'
    BY <1>0, <1>7, <2>1 DEF TaskReads, Before, During
  <2> QED
    BY <1>0, <1>2, <1>7, <2>1, <2>2, TaskMoves DEF TaskReads
<1>8. CASE TaskCommits(j)
  <2>1. /\ \/ task[j].pc = "loaded" /\ task'[j].pc \in {"running", "done"}
           \/ task[j].pc = "alert_gone" /\ task'[j].pc = "done"
           \/ task[j].pc = "saving" /\ task'[j].pc \in {"refreshing", "failing"}
           \/ task[j].pc = "completing" /\ task'[j].pc = "done"
        /\ TypeOK' /\ TaskStep(j)
    BY <1>0, <1>4, <1>8, TaskGoes DEF TaskCommits, Next, TaskStep
  <2>2. RequestPart(j)'
    BY <1>0, <1>8, <2>1 DEF TaskCommits, Release, Before, During
  <2> QED
    BY <1>0, <1>1, <1>8, <2>1, <2>2, TaskMoves DEF TaskCommits, Release
<1>9. CASE TaskCalls(j)
  <2>1. /\ task[j].pc = "calling" /\ task'[j].pc \in {"saving", "failing", "calling"}
        /\ TypeOK' /\ TaskStep(j)
    BY <1>0, <1>4, <1>9, TaskGoes DEF TaskCalls, Next, TaskStep
  <2>2. RequestPart(j)'
    BY <1>0, <1>9, <2>1 DEF TaskCalls, Before, During
  <2> QED
    BY <1>0, <1>1, <1>9, <2>1, <2>2, TaskMoves DEF TaskCalls
<1>10. CASE TaskRecordsFailure(j)
  <2>1. /\ task[j].pc = "failing" /\ task'[j].pc = "done"
        /\ TypeOK' /\ TaskStep(j)
    BY <1>0, <1>4, <1>10, TaskGoes DEF TaskRecordsFailure, Next, TaskStep
  <2>2. RequestPart(j)'
    BY <1>0, <1>10, <2>1 DEF TaskRecordsFailure, Before, During
  <2> QED
    BY <1>0, <1>10, <2>1, <2>2, TaskMoves DEF TaskRecordsFailure
<1>11. CASE BreakJob(j)
  <2>1. /\ task[j].pc \in (Before \union During) \ {"calling"}
        /\ task'[j].pc = IF task[j].pc \in {"saving", "refreshing"} THEN "failing" ELSE "lost"
        /\ UNCHANGED jobStatus
        /\ TypeOK' /\ Fault(j)
    BY <1>0, <1>4, <1>11, TaskGoes DEF BreakJob, Next
  <2>2. RequestPart(j)'
    BY <1>0, <1>3, <1>11, <2>1 DEF BreakJob, Release, Before, During
  <2> QED
    BY <1>0, <1>1, <1>11, <2>1, <2>2, TaskMoves DEF BreakJob, Release
<1> QED
  BY <1>5, <1>6, <1>7, <1>8, <1>9, <1>10, <1>11

\* A process that stops leaves nothing in flight.
LEMMA StopStep ==
  ASSUME PoolIInv, IInv, StopProcess
  PROVE  PoolIInv'
<1>0. /\ TypeOK /\ TypeOK'
      /\ http \in [Requests -> HttpStates]
      /\ \A r \in Requests : RequestPart(r)
      /\ Jobs \subseteq Requests
  BY PoolFacts, TypeStep DEF StopProcess, Next
<1>1. http' \in [Requests -> HttpStates]
  BY <1>0 DEF StopProcess, HttpStates
<1>2. PoolTypeOK'
  BY <1>0, <1>1, FS_EmptySet, PoolConstants DEF StopProcess, PoolTypeOK
<1>3. ASSUME NEW j \in Jobs
      PROVE  /\ task'[j].pc = IF task[j].pc \in Before \union During THEN "lost"
                                                                     ELSE task[j].pc
             /\ UNCHANGED jobStatus
             /\ jobStatus[j] \in {"completed", "failed"} => task[j].pc = "done"
             /\ task[j].pc \in Before => jobStatus[j] \in {"queued", "absent"}
             /\ task[j].pc = "none" => jobStatus[j] = "absent"
  <2>1. task[j] \in TaskRecord
    BY <1>0 DEF TypeOK
  <2>2. [task[j] EXCEPT !.pc = "lost"].pc = "lost"
    BY <2>1 DEF TaskRecord
  <2> QED
    BY <2>2 DEF StopProcess, Crash, IInv, TaskMatchesJob
<1>4. ASSUME NEW r \in Requests PROVE RequestPart(r)'
  <2>1. RequestPart(r) /\ held' = {}
    BY <1>0 DEF StopProcess
  <2>2. http'[r] = IF http[r] \in {"arrived", "waiting", "reading", "committed", "refreshed"}
                   THEN "raised"
                   ELSE IF http[r] = "answered" THEN "closed" ELSE http[r]
    BY DEF StopProcess
  <2>3. CASE r \in Jobs
    BY <1>3, <2>1, <2>2, <2>3, PositionNames DEF RequestPart, Running, Before, During
  <2>4. CASE r \notin Jobs
    BY <2>1, <2>4 DEF RequestPart
  <2> QED
    BY <2>3, <2>4
<1> QED
  BY <1>2, <1>4 DEF PoolIInv, HeldWhereOpen, RequestMatchesTask, NoRunBehindAnError,
     RequestPart, Requests

\* A deleted alert takes jobs away and leaves requests and tasks.
LEMMA MaintainStep ==
  ASSUME PoolIInv, NEW a \in Alerts, Maintain(a)
  PROVE  PoolIInv'
<1>1. TypeOK'
  BY PoolFacts, TypeStep DEF Maintain, Next
<1>2. PoolTypeOK'
  BY <1>1, PoolFacts DEF Maintain, PoolTypeOK
<1>3. \A j \in Jobs : jobStatus'[j] = jobStatus[j] \/ jobStatus'[j] = "absent"
  BY DEF Maintain, DeleteAlert
<1>4. UNCHANGED <<task, http, held>>
  BY DEF Maintain, DeleteAlert
<1>5. \A r \in Requests : RequestPart(r)'
  BY <1>3, <1>4, PoolFacts DEF RequestPart, Running
<1> QED
  BY <1>2, <1>5 DEF PoolIInv, HeldWhereOpen, RequestMatchesTask, NoRunBehindAnError,
     RequestPart, Requests

\* Every step keeps the invariant.
LEMMA StepPoolIInv == PoolIInv /\ IInv /\ [PoolNext]_poolVars => PoolIInv'
<1> SUFFICES ASSUME PoolIInv, IInv, [PoolNext]_poolVars PROVE PoolIInv'
  OBVIOUS
<1>1. ASSUME NEW r \in Requests, Arrive(r) \/ Proceed(r) \/ Raise(r) \/ Timeout(r)
      PROVE  PoolIInv'
  BY <1>1, RequestStep, AnalysisStep DEF Proceed, Timeout
<1>2. ASSUME NEW j \in Jobs, BreakJob(j) PROVE PoolIInv'
  BY <1>2, AnalysisStep
<1>3. CASE StopProcess
  BY <1>3, StopStep
<1>4. ASSUME NEW a \in Alerts, Maintain(a) PROVE PoolIInv'
  BY <1>4, MaintainStep
<1>5. CASE UNCHANGED poolVars
  <2>1. UNCHANGED <<http, held, task, jobStatus>> /\ TypeOK'
    BY <1>5, PoolFacts DEF poolVars, vars, TypeOK
  <2>2. PoolTypeOK'
    BY <2>1, PoolFacts DEF PoolTypeOK
  <2>3. \A r \in Requests : RequestPart(r)'
    BY <2>1, PoolFacts DEF RequestPart, Running
  <2> QED
    BY <2>2, <2>3 DEF PoolIInv, HeldWhereOpen, RequestMatchesTask, NoRunBehindAnError,
       RequestPart, Requests
<1> QED
  BY <1>1, <1>2, <1>3, <1>4, <1>5 DEF PoolNext

-----------------------------------------------------------------------------
(* The theorems.                                                           *)

\* The pool's inductive invariant holds in every reachable state.
THEOREM PoolInvariance == PoolSpec => []PoolIInv
<1>1. PoolSpec => []IInv
  BY PoolRunsJobs, Invariance, PTL
<1> QED
  BY <1>1, InitPoolIInv, StepPoolIInv, PTL DEF PoolSpec

\* The pool never lends more connections than it has, and every variable keeps
\* its type (app/db/session.py).
THEOREM PoolTypeCorrect == PoolSpec => []PoolTypeOK
<1>1. PoolIInv => PoolTypeOK
  BY DEF PoolIInv
<1> QED
  BY <1>1, PoolInvariance, PTL

\* A job whose request was answered 500 is never run: analyze_alert adds the
\* task after everything that can raise.
THEOREM NothingRunsBehindAnError == PoolSpec => []NoRunBehindAnError
<1>1. PoolIInv => NoRunBehindAnError
  BY DEF PoolIInv
<1> QED
  BY <1>1, PoolInvariance, PTL

\* When every session that has a connection waits for another, each of them
\* belongs to the request of an analysis in flight.
LEMMA WaitingHoldersAreInFlight ==
  ASSUME PoolIInv, NEW s \in held, Waiting(s[1])
  PROVE  s[1] \in InFlight /\ s = Own(s[1])
<1>1. PICK r \in Requests : s = Own(r) \/ (r \in Jobs /\ s = Task(r))
  BY PoolFacts DEF Sessions, Own, Task, Requests
<1>2. s[1] = r /\ Waiting(r)
  BY <1>1 DEF Own, Task
<1>3. RequestPart(r)
  BY PoolFacts
<1>4. CASE s = Own(r)
  <2>1. r \in Jobs /\ task[r].pc \in NeedsConnection
    BY <1>2, <1>3, <1>4 DEF RequestPart, Waiting
  <2>2. Running(r)
    BY <2>1 DEF Running, NeedsConnection, Before, During
  <2> QED
    BY <1>2, <1>3, <1>4, <2>1, <2>2 DEF RequestPart, InFlight
<1>5. CASE r \in Jobs /\ s = Task(r)
  <2>1. task[r].pc \in {"loaded", "alert_gone", "calling", "saving", "completing"}
    BY <1>3, <1>5 DEF RequestPart
  <2>2. Running(r)
    BY <2>1 DEF Running, Before, During
  <2>3. http[r] = "answered" /\ task[r].pc \notin NeedsConnection
    BY <1>3, <1>5, <2>1, <2>2 DEF RequestPart, NeedsConnection
  <2> QED
    BY <1>2, <2>3 DEF Waiting
<1> QED
  BY <1>1, <1>4, <1>5

\* Everyone waits for everyone only over analyses: a full pool has a holder
\* that does not wait, unless there are as many analyses in flight as
\* connections.
THEOREM OnlyAnalysesStandStill == PoolSpec => []NoStandstill
<1>1. ASSUME PoolIInv, Full, \A s \in held : Waiting(s[1])
      PROVE  ~(Cardinality(InFlight) < PoolSize)
  <2> DEFINE f == [s \in held |-> s[1]]
  <2>1. f \in Injection(held, InFlight)
    BY <1>1, WaitingHoldersAreInFlight DEF Injection, IsInjective
  <2>2. IsFiniteSet(InFlight)
    BY PoolConstants, FS_Subset DEF InFlight, Requests
  <2>3. Cardinality(held) <= Cardinality(InFlight)
    BY <2>1, <2>2, FS_Injection
  <2>4. Cardinality(held) \in Nat /\ Cardinality(InFlight) \in Nat
    BY <1>1, <2>2, PoolFacts, HeldFinite, FS_CardinalityType
  <2> QED
    BY <1>1, <2>3, <2>4, PoolConstants DEF Full
<1>2. PoolIInv => NoStandstill
  BY <1>1 DEF NoStandstill
<1> QED
  BY <1>2, PoolInvariance, PTL
=============================================================================
