---------------------------- MODULE AnalysisJobs ----------------------------
(***************************************************************************)
(* AI triage as a background job (app/services/jobs.py, app/services/ai.py,*)
(* app/repositories/jobs.py, save_analysis, and POST .../analyze).         *)
(*                                                                         *)
(* The request stores a queued job and hands it to FastAPI's background    *)
(* tasks; the task runs in the same process with a session of its own.  A  *)
(* step is what happens between two awaits of run_analysis_job.  Any       *)
(* statement may fail (Fault), the process may stop (Crash: tasks live in  *)
(* memory, nothing restarts them), and an alert may be deleted by whoever  *)
(* maintains the database (DeleteAlert: no route does it, the code checks  *)
(* for it, and the foreign key cascades to the jobs).                      *)
(***************************************************************************)
EXTENDS Naturals, UnitOfWork

CONSTANTS
  Alerts,        \* alerts stored before the first job
  Jobs,          \* jobs that can be requested
  NoAlert,       \* a job not requested yet
  Summaries, Actions, Null, \* texts of the two columns, and SQL NULL
  Results,       \* the analyses the provider can return
  MaxDisruptions \* bound: faults, crashes and deletions

MaxAttempts == 3 \* stop_after_attempt(3)

ASSUME TriageValues ==
  /\ Null \notin Summaries \union Actions
  /\ Results \subseteq [summary : Summaries, action : Actions]
ASSUME JobConstants ==
  /\ NoAlert \notin Alerts
  /\ MaxDisruptions \in Nat

VARIABLES
  stored,      \* alert rows that exist
  triage,      \* alerts.ai_summary and alerts.recommended_action
  jobAlert,    \* analysis_jobs.alert_id
  jobStatus,   \* analysis_jobs.status, "absent" when there is no row
  jobError,    \* analysis_jobs.error
  task,        \* the request and then the background task of each job
  saved,       \* history: jobs whose save_analysis committed
  disruptions  \* faults, crashes and deletions so far

vars == <<stored, triage, jobAlert, jobStatus, jobError, task, saved, disruptions>>

Triage    == [summary : Summaries \union {Null}, action : Actions \union {Null}]
NoTriage  == [summary |-> Null, action |-> Null]
JobStatus == {"queued", "running", "completed", "failed"}
Errors    == {"none", "alert_gone", "ai", "unexpected"}
\* History: the await of the try at which a statement of this task failed.
Faults    == {"none", "saving", "refreshing"}

\* Where a task is: before its first await, or at the await named.
Before == {"accepted", "scheduled", "loaded"}       \* job still queued
During == {"running", "alert_gone", "calling", "saving", "refreshing",
           "failing", "completing"}                 \* job marked running
Ended  == {"done", "lost"}
TaskRecord == [pc : Before \union During \union Ended \union {"none"},
               attempts : Nat, loaded : Triage, result : Triage,
               error : Errors, fault : Faults]

NoTask == [pc |-> "none", attempts |-> 0, loaded |-> NoTriage,
           result |-> NoTriage, error |-> "none", fault |-> "none"]

-----------------------------------------------------------------------------
JobExists(j) == jobStatus[j] # "absent"

Goto(j, pc) == task' = [task EXCEPT ![j].pc = pc]

\* Wrong: no `except Exception`, or the whole job tried again.
FailWithEscapes(j, e) ==
  IF e = "unexpected"
  THEN Goto(j, "lost")
  ELSE task' = [task EXCEPT ![j] = [@ EXCEPT !.pc = "failing", !.error = e]]
FailWithRetry(j, e) == Goto(j, "calling")

\* The task goes on to the except branch that stores error e.
FailWith(j, e) ==
  task' = [task EXCEPT ![j] = [@ EXCEPT !.pc = "failing", !.error = e]]

\* UPDATE analysis_jobs: the row gets the state, and when it is gone the
\* flush raises and the task is over either way.
SetJobState(j, s, e) ==
  IF JobExists(j)
  THEN /\ jobStatus' = [jobStatus EXCEPT ![j] = s]
       /\ jobError' = [jobError EXCEPT ![j] = e]
  ELSE UNCHANGED <<jobStatus, jobError>>

Init ==
  /\ stored = Alerts
  /\ triage \in [Alerts -> Results \union {NoTriage}]
  /\ jobAlert = [j \in Jobs |-> NoAlert]
  /\ jobStatus = [j \in Jobs |-> "absent"]
  /\ jobError = [j \in Jobs |-> "none"]
  /\ task = [j \in Jobs |-> NoTask]
  /\ saved = {}
  /\ disruptions = 0

\* analyze_alert up to the commit of create_analysis_job.
RequestAnalysis(j, a) ==
  /\ task[j].pc = "none"
  /\ a \in stored
  /\ jobAlert' = [jobAlert EXCEPT ![j] = a]
  /\ jobStatus' = [jobStatus EXCEPT ![j] = "queued"]
  /\ Goto(j, "accepted")
  /\ UNCHANGED <<stored, triage, jobError, saved, disruptions>>

\* The refresh of the job, which raises when the row is gone; then
\* background_tasks.add_task and the 202 response.
Schedule(j) ==
  /\ task[j].pc = "accepted"
  /\ Goto(j, IF JobExists(j) THEN "scheduled" ELSE "done")
  /\ UNCHANGED <<stored, triage, jobAlert, jobStatus, jobError, saved, disruptions>>

\* run_analysis_job: get_analysis_job, and its early return.
LoadJob(j) ==
  /\ task[j].pc = "scheduled"
  /\ Goto(j, IF JobExists(j) THEN "loaded" ELSE "done")
  /\ UNCHANGED <<stored, triage, jobAlert, jobStatus, jobError, saved, disruptions>>

MarkRunning(j) ==
  /\ task[j].pc = "loaded"
  /\ SetJobState(j, "running", "none")
  /\ Goto(j, IF JobExists(j) THEN "running" ELSE "done")
  /\ UNCHANGED <<stored, triage, jobAlert, saved, disruptions>>

\* get_alert: the session keeps the triage columns as it loaded them.
LoadAlert(j) ==
  LET a == jobAlert[j] IN
  /\ task[j].pc = "running"
  /\ \/ /\ a \in stored
        /\ task' = [task EXCEPT ![j] =
                      [@ EXCEPT !.pc = "calling", !.loaded = triage[a],
                                !.attempts = 0]]
     \/ /\ a \notin stored
        /\ Goto(j, "alert_gone")
  /\ UNCHANGED <<stored, triage, jobAlert, jobStatus, jobError, saved, disruptions>>

RecordAlertGone(j) ==
  /\ task[j].pc = "alert_gone"
  /\ SetJobState(j, "failed", "alert_gone")
  /\ Goto(j, "done")
  /\ UNCHANGED <<stored, triage, jobAlert, saved, disruptions>>

\* Wrong: one attempt more.
RetriesLeftOneMore(n) == n <= MaxAttempts

\* stop_after_attempt: tenacity tries again after the n-th failure.
RetriesLeft(n) == n < MaxAttempts

\* One attempt of analyze: a valid answer, a final refusal (no key, a client
\* error, unusable JSON), or a failure to retry while attempts are left; these
\* alone are counted.  The last 429/5xx is an AIServiceError; the last
\* transport error, and an answer of the wrong type, reach the
\* `except Exception` branch.
CallAI(j) ==
  LET n == task[j].attempts + 1 IN
  /\ task[j].pc = "calling"
  /\ \/ \E r \in Results :
          task' = [task EXCEPT ![j] =
                     [@ EXCEPT !.pc = "saving", !.result = r]]
     \/ \E e \in {"ai", "unexpected"} : FailWith(j, e)
     \/ /\ RetriesLeft(n)
        /\ task' = [task EXCEPT ![j].attempts = n]
  /\ UNCHANGED <<stored, triage, jobAlert, jobStatus, jobError, saved, disruptions>>

\* save_analysis up to its commit: each column is written only when the
\* provider's text differs from what the session had loaded.
SaveAnalysis(j) ==
  LET a == jobAlert[j]
      q == task[j] IN
  /\ q.pc = "saving"
  /\ \/ /\ a \in stored
        /\ triage' = [triage EXCEPT ![a] =
             [summary |-> Flushed(@.summary, q.loaded.summary, q.result.summary),
              action  |-> Flushed(@.action, q.loaded.action, q.result.action)]]
        /\ saved' = saved \union {j}
        /\ Goto(j, "refreshing")
     \/ /\ a \notin stored
        /\ FailWith(j, "unexpected")
        /\ UNCHANGED <<triage, saved>>
  /\ UNCHANGED <<stored, jobAlert, jobStatus, jobError, disruptions>>

\* Wrong: the row is expired by the commit and the refresh always raises.
RefreshSavedRaises(j) ==
  /\ task[j].pc = "refreshing"
  /\ FailWith(j, "unexpected")
  /\ UNCHANGED <<stored, triage, jobAlert, jobStatus, jobError, saved, disruptions>>

\* The refresh that ends save_analysis raises when the row is gone.
RefreshSaved(j) ==
  /\ task[j].pc = "refreshing"
  /\ IF jobAlert[j] \in stored
     THEN Goto(j, "completing")
     ELSE FailWith(j, "unexpected")
  /\ UNCHANGED <<stored, triage, jobAlert, jobStatus, jobError, saved, disruptions>>

Complete(j) ==
  /\ task[j].pc = "completing"
  /\ SetJobState(j, "completed", "none")
  /\ Goto(j, "done")
  /\ UNCHANGED <<stored, triage, jobAlert, saved, disruptions>>

\* Wrong: no return after the failure.
RecordFailureGoesOn(j) ==
  /\ task[j].pc = "failing"
  /\ SetJobState(j, "failed", task[j].error)
  /\ Goto(j, "completing")
  /\ UNCHANGED <<stored, triage, jobAlert, saved, disruptions>>

\* Both except branches: rollback, then the failed state with its message.
RecordFailure(j) ==
  /\ task[j].pc = "failing"
  /\ SetJobState(j, "failed", task[j].error)
  /\ Goto(j, "done")
  /\ UNCHANGED <<stored, triage, jobAlert, saved, disruptions>>

\* A statement, a commit or the checkout of a connection fails.  Only
\* save_analysis is inside the try; elsewhere the exception ends the task.
Fault(j) ==
  /\ disruptions < MaxDisruptions
  /\ \/ /\ task[j].pc \in {"saving", "refreshing"}
        /\ task' = [task EXCEPT ![j] =
                      [@ EXCEPT !.pc = "failing", !.error = "unexpected",
                                !.fault = task[j].pc]]
     \/ /\ task[j].pc \in (Before \union During)
                            \ {"calling", "saving", "refreshing"}
        /\ Goto(j, "lost")
  /\ disruptions' = disruptions + 1
  /\ UNCHANGED <<stored, triage, jobAlert, jobStatus, jobError, saved>>

\* The process stops and is started again: the tasks it held are gone.
Crash ==
  /\ disruptions < MaxDisruptions
  /\ \E j \in Jobs : task[j].pc \in Before \union During
  /\ task' = [j \in Jobs |-> IF task[j].pc \in Before \union During
                             THEN [task[j] EXCEPT !.pc = "lost"]
                             ELSE task[j]]
  /\ disruptions' = disruptions + 1
  /\ UNCHANGED <<stored, triage, jobAlert, jobStatus, jobError, saved>>

\* Wrong: a foreign key that does not cascade.
NoJobs(a) == {}

\* The rows ON DELETE CASCADE takes away.
JobsOf(a) == {j \in Jobs : jobAlert[j] = a}

\* DELETE FROM alerts by the maintainer; analysis_jobs.alert_id cascades.
DeleteAlert(a) ==
  /\ disruptions < MaxDisruptions
  /\ a \in stored
  /\ stored' = stored \ {a}
  /\ triage' = [triage EXCEPT ![a] = NoTriage]
  /\ jobStatus' = [j \in Jobs |-> IF j \in JobsOf(a) THEN "absent"
                                                      ELSE jobStatus[j]]
  /\ jobError' = [j \in Jobs |-> IF j \in JobsOf(a) THEN "none"
                                                     ELSE jobError[j]]
  /\ disruptions' = disruptions + 1
  /\ UNCHANGED <<jobAlert, task, saved>>

TaskStep(j) ==
  \/ Schedule(j) \/ LoadJob(j) \/ MarkRunning(j) \/ LoadAlert(j)
  \/ RecordAlertGone(j) \/ CallAI(j) \/ SaveAnalysis(j) \/ RefreshSaved(j)
  \/ Complete(j) \/ RecordFailure(j)

Next ==
  \/ \E j \in Jobs :
       \/ \E a \in Alerts : RequestAnalysis(j, a)
       \/ TaskStep(j)
       \/ Fault(j)
  \/ Crash
  \/ \E a \in Alerts : DeleteAlert(a)

Spec == Init /\ [][Next]_vars

\* The event loop runs every task that can run; a call to the provider ends
\* (the client has a timeout).  Requests and disruptions need not happen.
Fairness == \A j \in Jobs : WF_vars(TaskStep(j))

FairSpec == Spec /\ Fairness

-----------------------------------------------------------------------------
(* Properties.                                                             *)

\* Every variable keeps its type.
TypeOK ==
  /\ stored \subseteq Alerts
  /\ triage \in [Alerts -> Triage]
  /\ jobAlert \in [Jobs -> Alerts \union {NoAlert}]
  /\ jobStatus \in [Jobs -> JobStatus \union {"absent"}]
  /\ jobError \in [Jobs -> Errors]
  /\ task \in [Jobs -> TaskRecord]
  /\ saved \subseteq Jobs
  /\ disruptions \in 0..MaxDisruptions

\* A client that polls "completed" finds the analysis stored: whatever fails
\* or stops, the job is completed only after save_analysis has committed.
CompletedMeansSaved ==
  \A j \in Jobs : jobStatus[j] = "completed" => j \in saved

\* The converse for failures: a job that reports "failed" although its
\* analysis is in the alert row is one whose own refresh, between the two
\* commits, failed.  Nothing else that happens, to this job or to others,
\* makes a stored analysis a failed job.
FailedAfterSaveOnlyAtRefresh ==
  \A j \in Jobs : jobStatus[j] = "failed" /\ j \in saved =>
                     task[j].fault = "refreshing"

\* "Alert no longer exists" is never stored: the cascade that removes the
\* alert removes the job it would be stored in (app/services/jobs.py).
AlertGoneNeverStored ==
  \A j \in Jobs : jobError[j] # "alert_gone"

\* A polling client never sees a job go back: queued, running, then one final
\* state, which only the deletion of the alert takes away.
JobsOnlyAdvance ==
  [][\A j \in Jobs : jobStatus'[j] # jobStatus[j] =>
       \/ jobStatus[j] = "absent"  /\ jobStatus'[j] = "queued" /\ task[j].pc = "none"
       \/ jobStatus[j] = "queued"  /\ jobStatus'[j] = "running"
       \/ jobStatus[j] = "running" /\ jobStatus'[j] \in {"completed", "failed"}
       \/ jobStatus'[j] = "absent" /\ jobAlert[j] \notin stored']_vars

\* Undisturbed, every queued job ends completed or failed, whatever the
\* provider answers.
UndisturbedJobsEnd ==
  [](disruptions = 0) =>
    \A j \in Jobs :
      jobStatus[j] = "queued" ~> jobStatus[j] \in {"completed", "failed"}

\* A task always ends: with its job finished, or lost to a disruption.
TasksEnd ==
  \A j \in Jobs : task[j].pc \in Before \union During ~> task[j].pc \in Ended

\* The safety below both.  The awaits a task has ahead of it, at most; an
\* attempt that may be tried again counts as one.
StepsAhead(j) ==
  LET pc == task[j].pc IN
  IF pc = "accepted" THEN MaxAttempts + 7
  ELSE IF pc = "scheduled" THEN MaxAttempts + 6
  ELSE IF pc = "loaded" THEN MaxAttempts + 5
  ELSE IF pc = "running" THEN MaxAttempts + 4
  ELSE IF pc = "calling" THEN MaxAttempts - task[j].attempts + 3
  ELSE IF pc = "saving" THEN 3
  ELSE IF pc = "refreshing" THEN 2
  ELSE IF pc \in {"alert_gone", "failing", "completing"} THEN 1
  ELSE 0

\* Whatever the provider answers and whatever fails, every step of a task
\* takes it nearer its end: nothing in run_analysis_job or under it repeats
\* itself beyond the attempts of the retry.
TasksRunDown ==
  [][\A j \in Jobs : task[j].pc \in Before \union During /\ task'[j] # task[j] =>
       StepsAhead(j)' \in 0..(StepsAhead(j) - 1)]_vars

\* Undisturbed, no task loses its job, and none ends without recording a
\* final state, whichever way the provider fails (run_analysis_job).
UndisturbedTasksRecord ==
  disruptions = 0 =>
    \A j \in Jobs :
      /\ task[j].pc # "none" => JobExists(j)
      /\ task[j].pc \in Ended => jobStatus[j] \in {"completed", "failed"}

-----------------------------------------------------------------------------
(* The inductive invariant: what each position of a task says of its job.  *)

TaskMatchesJob(j) ==
  LET pc == task[j].pc IN
  /\ pc = "none" => jobStatus[j] = "absent"
  /\ pc \in Before => jobStatus[j] \in {"queued", "absent"}
  /\ pc \in During => jobStatus[j] \in {"running", "absent"}
  /\ jobStatus[j] \in {"completed", "failed"} => pc = "done"
  /\ jobStatus[j] # "absent" => jobAlert[j] \in stored
  /\ pc # "none" => jobAlert[j] \in Alerts
  /\ task[j].attempts <= MaxAttempts
  /\ pc = "calling" => task[j].attempts < MaxAttempts
  /\ pc = "alert_gone" => jobAlert[j] \notin stored
  /\ task[j].error # "alert_gone"
  /\ pc \in {"refreshing", "completing"} => j \in saved
  /\ j \in saved => pc \in {"refreshing", "completing", "failing"} \union Ended
  /\ j \in saved /\ pc = "failing" =>
       task[j].fault = "refreshing" \/ jobAlert[j] \notin stored

IInv ==
  /\ TypeOK
  /\ \A j \in Jobs : TaskMatchesJob(j)
  /\ CompletedMeansSaved
  /\ FailedAfterSaveOnlyAtRefresh
  /\ AlertGoneNeverStored

-----------------------------------------------------------------------------
(* Statements of the repository that the code does not keep.               *)

\* "The job uses a new session and always records a completed or failed
\* state" (docs/architecture.md).
AlwaysRecorded ==
  \A j \in Jobs :
    jobStatus[j] = "queued" ~> jobStatus[j] \in {"completed", "failed", "absent"}

\* "stores the summary, recommended action, and analysis timestamp"
\* (README.md): what is stored is one analysis.
StoredTriageIsOneAnalysis ==
  \A a \in Alerts : triage[a] \in Results \union {NoTriage}

=============================================================================
