------------------------- MODULE AnalysisJobsProofs -------------------------
(***************************************************************************)
(* Proofs about AnalysisJobs, for any number of alerts, jobs, analyses and *)
(* disruptions.  A step of one job's task leaves the other jobs alone, so  *)
(* the step of the invariance proof for an action looks at the job of the  *)
(* task; the deletion of an alert and a crash look at all of them.         *)
(***************************************************************************)
EXTENDS AnalysisJobs, TLAPS

-----------------------------------------------------------------------------
(* What the helpers do to the task records and to the job rows.            *)

Positions == Before \union During \union Ended \union {"none"}

\* Goto moves one task and changes nothing else in the records.
LEMMA GotoFacts ==
  ASSUME TypeOK, NEW j \in Jobs, NEW p \in Positions, Goto(j, p)
  PROVE  /\ task' \in [Jobs -> TaskRecord]
         /\ task'[j].pc = p
         /\ task'[j].error = task[j].error
         /\ task'[j].attempts = task[j].attempts
         /\ task'[j].fault = task[j].fault
         /\ \A k \in Jobs \ {j} : task'[k] = task[k]
  BY DEF Goto, TypeOK, TaskRecord, Positions

\* FailWith moves one task to its except branch with the error given.
LEMMA FailFacts ==
  ASSUME TypeOK, NEW j \in Jobs, NEW e \in Errors, FailWith(j, e)
  PROVE  /\ task' \in [Jobs -> TaskRecord]
         /\ task'[j].pc = "failing"
         /\ task'[j].error = e
         /\ task'[j].attempts = task[j].attempts
         /\ task'[j].fault = task[j].fault
         /\ \A k \in Jobs \ {j} : task'[k] = task[k]
  BY DEF FailWith, TypeOK, TaskRecord, During

\* A fault inside the try of run_analysis_job: the branch of Fault for the two
\* awaits of save_analysis.
CaughtFault(j) ==
  /\ task[j].pc \in {"saving", "refreshing"}
  /\ task' = [task EXCEPT ![j] = [@ EXCEPT !.pc = "failing", !.error = "unexpected",
                                          !.fault = task[j].pc]]

\* It moves one task to its except branch and remembers where it struck.
LEMMA CaughtFacts ==
  ASSUME TypeOK, NEW j \in Jobs, CaughtFault(j)
  PROVE  /\ task' \in [Jobs -> TaskRecord]
         /\ task[j].pc \in {"saving", "refreshing"}
         /\ task'[j].pc = "failing"
         /\ task'[j].error = "unexpected"
         /\ task'[j].attempts = task[j].attempts
         /\ task'[j].fault = task[j].pc
         /\ \A k \in Jobs \ {j} : task'[k] = task[k]
<1> DEFINE q == [task[j] EXCEPT !.pc = "failing", !.error = "unexpected",
                               !.fault = task[j].pc]
<1>1. task \in [Jobs -> TaskRecord] /\ task[j] \in TaskRecord
  BY DEF TypeOK
<1>2. task[j].pc \in {"saving", "refreshing"} /\ task' = [task EXCEPT ![j] = q]
  BY DEF CaughtFault
<1>3. /\ q \in TaskRecord
      /\ q.pc = "failing" /\ q.error = "unexpected"
      /\ q.attempts = task[j].attempts /\ q.fault = task[j].pc
  BY <1>1, <1>2 DEF TaskRecord, Errors, Faults, During
<1> HIDE DEF q
<1>4. task'[j] = q /\ \A k \in Jobs \ {j} : task'[k] = task[k]
  BY <1>1, <1>2
<1> QED
  BY <1>1, <1>2, <1>3, <1>4

\* SetJobState writes one row, and only when it exists.
LEMMA SetFacts ==
  ASSUME TypeOK, NEW j \in Jobs, NEW s \in JobStatus, NEW e \in Errors,
         SetJobState(j, s, e)
  PROVE  /\ jobStatus' \in [Jobs -> JobStatus \union {"absent"}]
         /\ jobError' \in [Jobs -> Errors]
         /\ JobExists(j) => jobStatus'[j] = s /\ jobError'[j] = e
         /\ ~JobExists(j) => jobStatus'[j] = "absent" /\ jobError'[j] = jobError[j]
         /\ \A k \in Jobs \ {j} : jobStatus'[k] = jobStatus[k] /\ jobError'[k] = jobError[k]
  BY DEF SetJobState, JobExists, TypeOK

\* LoadAlert goes on to the provider, with no attempt spent, or to the branch
\* for an alert that is gone.
LEMMA LoadAlertFacts ==
  ASSUME TypeOK, NEW j \in Jobs, LoadAlert(j)
  PROVE  /\ task'[j].error = task[j].error /\ task'[j].fault = task[j].fault
         /\ \A k \in Jobs \ {j} : task'[k] = task[k]
         /\ \/ task'[j].pc = "calling" /\ task'[j].attempts = 0
            \/ /\ task'[j].pc = "alert_gone" /\ jobAlert[j] \notin stored
               /\ task'[j].attempts = task[j].attempts
<1>1. CASE jobAlert[j] \in stored
  <2> DEFINE q == [task[j] EXCEPT !.pc = "calling", !.loaded = triage[jobAlert[j]],
                                 !.attempts = 0]
  <2>1. task' = [task EXCEPT ![j] = q]
    BY <1>1 DEF LoadAlert
  <2>2. task \in [Jobs -> TaskRecord] /\ task[j] \in TaskRecord
    BY DEF TypeOK
  <2>3. /\ q.pc = "calling" /\ q.attempts = 0
        /\ q.error = task[j].error /\ q.fault = task[j].fault
    BY <2>2 DEF TaskRecord
  <2> HIDE DEF q
  <2>4. task'[j] = q /\ \A k \in Jobs \ {j} : task'[k] = task[k]
    BY <2>1, <2>2
  <2> QED
    BY <2>3, <2>4
<1>2. CASE jobAlert[j] \notin stored
  BY <1>2, GotoFacts DEF LoadAlert, Positions, During
<1> QED
  BY <1>1, <1>2

\* One attempt: an answer to save, a failure to record, or one attempt less.
LEMMA CallAIFacts ==
  ASSUME TypeOK, NEW j \in Jobs, CallAI(j)
  PROVE  /\ task'[j].error \in {task[j].error, "ai", "unexpected"}
         /\ task'[j].fault = task[j].fault
         /\ \A k \in Jobs \ {j} : task'[k] = task[k]
         /\ \/ /\ task'[j].pc \in {"saving", "failing"}
               /\ task'[j].attempts = task[j].attempts
            \/ /\ task'[j].pc = "calling"
               /\ task'[j].attempts = task[j].attempts + 1
               /\ task[j].attempts + 1 < MaxAttempts
<1> DEFINE n == task[j].attempts + 1
<1>1. /\ task \in [Jobs -> TaskRecord] /\ task[j] \in TaskRecord
      /\ task[j].pc = "calling"
  BY DEF TypeOK, CallAI
<1>2. ASSUME NEW q, task' = [task EXCEPT ![j] = q]
      PROVE  task'[j] = q /\ \A k \in Jobs \ {j} : task'[k] = task[k]
  BY <1>1, <1>2
<1> HIDE DEF n
<1>3. ASSUME NEW r \in Results,
             task' = [task EXCEPT ![j] = [task[j] EXCEPT !.pc = "saving", !.result = r]]
      PROVE  /\ task'[j].pc = "saving" /\ task'[j].attempts = task[j].attempts
             /\ task'[j].error = task[j].error /\ task'[j].fault = task[j].fault
             /\ \A k \in Jobs \ {j} : task'[k] = task[k]
  <2> DEFINE q == [task[j] EXCEPT !.pc = "saving", !.result = r]
  <2>1. /\ q.pc = "saving" /\ q.attempts = task[j].attempts
        /\ q.error = task[j].error /\ q.fault = task[j].fault
    BY <1>1 DEF TaskRecord
  <2>2. task'[j] = q /\ \A k \in Jobs \ {j} : task'[k] = task[k]
    BY <1>2, <1>3
  <2> QED
    BY <2>1, <2>2
<1>4. ASSUME NEW e \in {"ai", "unexpected"}, FailWith(j, e)
      PROVE  /\ task'[j].pc = "failing" /\ task'[j].attempts = task[j].attempts
             /\ task'[j].error = e /\ task'[j].fault = task[j].fault
             /\ \A k \in Jobs \ {j} : task'[k] = task[k]
  BY <1>4, FailFacts DEF Errors
<1>5. ASSUME task' = [task EXCEPT ![j].attempts = n]
      PROVE  /\ task'[j].pc = "calling" /\ task'[j].attempts = n
             /\ task'[j].error = task[j].error /\ task'[j].fault = task[j].fault
             /\ \A k \in Jobs \ {j} : task'[k] = task[k]
  <2> DEFINE q == [task[j] EXCEPT !.attempts = n]
  <2>1. /\ q.pc = "calling" /\ q.attempts = n
        /\ q.error = task[j].error /\ q.fault = task[j].fault
    BY <1>1 DEF TaskRecord
  <2>2. task'[j] = q /\ \A k \in Jobs \ {j} : task'[k] = task[k]
    BY <1>2, <1>5
  <2> QED
    BY <2>1, <2>2
<1>6. \/ \E r \in Results :
           task' = [task EXCEPT ![j] = [task[j] EXCEPT !.pc = "saving", !.result = r]]
      \/ \E e \in {"ai", "unexpected"} : FailWith(j, e)
      \/ n < MaxAttempts /\ task' = [task EXCEPT ![j].attempts = n]
  BY DEF CallAI, RetriesLeft, n
<1>7. CASE \E r \in Results :
             task' = [task EXCEPT ![j] = [task[j] EXCEPT !.pc = "saving", !.result = r]]
  BY <1>3, <1>7
<1>8. CASE \E e \in {"ai", "unexpected"} : FailWith(j, e)
  BY <1>4, <1>8
<1>9. CASE n < MaxAttempts /\ task' = [task EXCEPT ![j].attempts = n]
  BY <1>5, <1>9 DEF n
<1> QED
  BY <1>6, <1>7, <1>8, <1>9

-----------------------------------------------------------------------------
(* Type correctness.                                                       *)

\* Every step keeps the types.
LEMMA TypeStep ==
  ASSUME TypeOK, [Next]_vars
  PROVE  TypeOK'
<1>0. /\ Positions = {"none", "accepted", "scheduled", "loaded", "running",
                      "alert_gone", "calling", "saving", "refreshing",
                      "failing", "completing", "done", "lost"}
      /\ Errors = {"none", "alert_gone", "ai", "unexpected"}
      /\ JobStatus = {"queued", "running", "completed", "failed"}
  BY DEF Positions, Before, During, Ended, Errors, JobStatus
<1>1. ASSUME NEW j \in Jobs, NEW a \in Alerts, RequestAnalysis(j, a)
      PROVE  TypeOK'
  BY <1>0, <1>1, GotoFacts DEF RequestAnalysis, TypeOK
<1>2. ASSUME NEW j \in Jobs, Schedule(j) PROVE TypeOK'
  BY <1>0, <1>2, GotoFacts DEF Schedule, TypeOK
<1>3. ASSUME NEW j \in Jobs, LoadJob(j) PROVE TypeOK'
  BY <1>0, <1>3, GotoFacts DEF LoadJob, TypeOK
<1>4. ASSUME NEW j \in Jobs, MarkRunning(j) PROVE TypeOK'
  BY <1>0, <1>4, GotoFacts, SetFacts DEF MarkRunning, TypeOK
<1>5. ASSUME NEW j \in Jobs, LoadAlert(j) PROVE TypeOK'
  <2>1. CASE jobAlert[j] \in stored
    <3> DEFINE q == [task[j] EXCEPT !.pc = "calling", !.loaded = triage[jobAlert[j]],
                               !.attempts = 0]
    <3>1. task' = [task EXCEPT ![j] = q]
      BY <1>5, <2>1 DEF LoadAlert
    <3>2. triage[jobAlert[j]] \in Triage /\ task[j] \in TaskRecord
      BY <2>1 DEF TypeOK
    <3>4. q \in TaskRecord
      BY <3>2 DEF TaskRecord, During
    <3>3. task' \in [Jobs -> TaskRecord]
      BY <3>1, <3>4 DEF TypeOK
    <3> QED
      BY <1>5, <3>3 DEF LoadAlert, TypeOK
  <2>2. CASE jobAlert[j] \notin stored
    BY <1>0, <1>5, <2>2, GotoFacts DEF LoadAlert, TypeOK
  <2> QED
    BY <2>1, <2>2
<1>6. ASSUME NEW j \in Jobs, RecordAlertGone(j) PROVE TypeOK'
  BY <1>0, <1>6, GotoFacts, SetFacts DEF RecordAlertGone, TypeOK
<1>7. ASSUME NEW j \in Jobs, CallAI(j) PROVE TypeOK'
  <2> DEFINE n == task[j].attempts + 1
  <2>1. /\ task[j] \in TaskRecord
        /\ \A r \in Results : r \in Triage
    BY TriageValues DEF TypeOK, Triage
  <2>2. n \in Nat
    BY <2>1 DEF TaskRecord
  <2>3. ASSUME NEW r \in Results
        PROVE  [task[j] EXCEPT !.pc = "saving", !.result = r]
                 \in TaskRecord
    BY <2>1, <2>2 DEF TaskRecord, During
  <2>4. ASSUME NEW e \in {"ai", "unexpected"}
        PROVE  [task[j] EXCEPT !.pc = "failing", !.error = e]
                 \in TaskRecord
    BY <1>0, <2>1, <2>2 DEF TaskRecord, During
  <2>5. [task[j] EXCEPT !.attempts = n] \in TaskRecord
    BY <2>1, <2>2 DEF TaskRecord
  <2>6. task' \in [Jobs -> TaskRecord]
    BY <1>7, <2>3, <2>4, <2>5 DEF CallAI, FailWith, TypeOK
  <2> QED
    BY <1>7, <2>6 DEF CallAI, TypeOK
<1>8. ASSUME NEW j \in Jobs, SaveAnalysis(j) PROVE TypeOK'
  <2>1. task' \in [Jobs -> TaskRecord]
    BY <1>0, <1>8, GotoFacts, FailFacts DEF SaveAnalysis
  <2>2. triage' \in [Alerts -> Triage] /\ saved' \subseteq Jobs
    <3>1. CASE jobAlert[j] \in stored
      <4> DEFINE a == jobAlert[j]
                 v == [summary |-> Flushed(triage[a].summary, task[j].loaded.summary,
                                           task[j].result.summary),
                       action  |-> Flushed(triage[a].action, task[j].loaded.action,
                                           task[j].result.action)]
      <4>1. triage' = [triage EXCEPT ![a] = v] /\ saved' = saved \union {j}
        BY <1>8, <3>1 DEF SaveAnalysis
      <4>2. triage[a] \in Triage /\ task[j].result \in Triage
        BY <3>1 DEF TypeOK, TaskRecord
      <4>3. v \in Triage
        BY <4>2 DEF Triage, Flushed
      <4> QED
        BY <4>1, <4>3 DEF TypeOK
    <3>2. CASE jobAlert[j] \notin stored
      BY <1>8, <3>2 DEF SaveAnalysis, TypeOK
    <3> QED
      BY <3>1, <3>2
  <2> QED
    BY <1>8, <2>1, <2>2 DEF SaveAnalysis, TypeOK
<1>9. ASSUME NEW j \in Jobs, RefreshSaved(j) PROVE TypeOK'
  BY <1>0, <1>9, GotoFacts, FailFacts DEF RefreshSaved, TypeOK
<1>10. ASSUME NEW j \in Jobs, Complete(j) PROVE TypeOK'
  BY <1>0, <1>10, GotoFacts, SetFacts DEF Complete, TypeOK
<1>11. ASSUME NEW j \in Jobs, RecordFailure(j) PROVE TypeOK'
  <2>1. task[j].error \in Errors
    BY DEF TypeOK, TaskRecord
  <2> QED
    BY <1>0, <1>11, <2>1, GotoFacts, SetFacts DEF RecordFailure, TypeOK
<1>12. ASSUME NEW j \in Jobs, Fault(j) PROVE TypeOK'
  <2>1. task' \in [Jobs -> TaskRecord]
    BY <1>0, <1>12, GotoFacts, CaughtFacts DEF Fault, CaughtFault
  <2> QED
    BY <1>12, <2>1, JobConstants DEF Fault, TypeOK
<1>13. ASSUME Crash PROVE TypeOK'
  <2>1. task' \in [Jobs -> TaskRecord]
    BY <1>13 DEF Crash, TypeOK, TaskRecord, Ended
  <2> QED
    BY <1>13, <2>1, JobConstants DEF Crash, TypeOK
<1>14. ASSUME NEW a \in Alerts, DeleteAlert(a) PROVE TypeOK'
  <2>1. NoTriage \in Triage
    BY DEF NoTriage, Triage
  <2> QED
    BY <1>0, <1>14, <2>1, JobConstants DEF DeleteAlert, JobsOf, TypeOK
<1>15. CASE UNCHANGED vars
  BY <1>15 DEF vars, TypeOK
<1> QED
  BY <1>1, <1>2, <1>3, <1>4, <1>5, <1>6, <1>7, <1>8, <1>9, <1>10, <1>11,
     <1>12, <1>13, <1>14, <1>15 DEF Next, TaskStep

-----------------------------------------------------------------------------
(* The inductive invariant.                                                *)

\* Everything holds before the first request.
LEMMA InitIInv == Init => IInv
<1> SUFFICES ASSUME Init PROVE IInv
  OBVIOUS
<1> USE DEF Init
<1>1. NoTriage \in Triage /\ Results \subseteq Triage
  BY TriageValues DEF NoTriage, Triage
<1>2. NoTask \in TaskRecord
  BY <1>1 DEF NoTask, TaskRecord, Errors, Faults
<1>3. TypeOK
  BY <1>1, <1>2, JobConstants DEF TypeOK, Errors
<1>4. \A j \in Jobs : TaskMatchesJob(j)
  BY DEF TaskMatchesJob, NoTask, Before, During, MaxAttempts
<1>5. CompletedMeansSaved /\ FailedAfterSaveOnlyAtRefresh /\ AlertGoneNeverStored
  BY DEF CompletedMeansSaved, FailedAfterSaveOnlyAtRefresh, AlertGoneNeverStored
<1> QED
  BY <1>3, <1>4, <1>5 DEF IInv

\* What the invariant says of one job: its task's position, and the three
\* properties at that job.
JobInv(j) ==
  /\ TaskMatchesJob(j)
  /\ jobStatus[j] = "completed" => j \in saved
  /\ jobStatus[j] = "failed" /\ j \in saved => task[j].fault = "refreshing"
  /\ jobError[j] # "alert_gone"

\* The invariant is the type invariant and JobInv of every job.
LEMMA IInvByJob ==
  IInv <=> /\ TypeOK
           /\ \A j \in Jobs : JobInv(j)
  BY DEF IInv, JobInv, CompletedMeansSaved, FailedAfterSaveOnlyAtRefresh,
     AlertGoneNeverStored

\* A step of one task that leaves the alerts alone leaves the other jobs'
\* part of the invariant alone.
LEMMA OtherJobs ==
  ASSUME IInv, NEW j \in Jobs, UNCHANGED stored,
         \A k \in Jobs \ {j} :
           /\ task'[k] = task[k] /\ jobStatus'[k] = jobStatus[k]
           /\ jobError'[k] = jobError[k] /\ jobAlert'[k] = jobAlert[k]
           /\ k \in saved' <=> k \in saved
  PROVE  \A k \in Jobs \ {j} : JobInv(k)'
<1> SUFFICES ASSUME NEW k \in Jobs, k # j PROVE JobInv(k)'
  OBVIOUS
<1>1. JobInv(k)
  BY IInvByJob
<1> QED
  BY <1>1 DEF JobInv, TaskMatchesJob

\* A step of j's task keeps the invariant when it keeps j's part of it.
LEMMA OneJobSuffices ==
  ASSUME IInv, TypeOK', NEW j \in Jobs, UNCHANGED stored,
         \A k \in Jobs \ {j} :
           /\ task'[k] = task[k] /\ jobStatus'[k] = jobStatus[k]
           /\ jobError'[k] = jobError[k] /\ jobAlert'[k] = jobAlert[k]
           /\ k \in saved' <=> k \in saved,
         JobInv(j)'
  PROVE  IInv'
<1>1. \A k \in Jobs \ {j} : JobInv(k)'
  BY OtherJobs
<1>2. \A k \in Jobs : JobInv(k)'
  BY <1>1
<1> QED
  BY <1>2 DEF IInv, JobInv, CompletedMeansSaved,
     FailedAfterSaveOnlyAtRefresh, AlertGoneNeverStored

\* Every step keeps the inductive invariant.
LEMMA StepIInv == IInv /\ [Next]_vars => IInv'
<1> SUFFICES ASSUME IInv, [Next]_vars PROVE IInv'
  OBVIOUS
<1>0. /\ TypeOK /\ TypeOK'
      /\ \A j \in Jobs : JobInv(j)
      /\ Positions = {"none", "accepted", "scheduled", "loaded", "running",
                      "alert_gone", "calling", "saving", "refreshing",
                      "failing", "completing", "done", "lost"}
      /\ Errors = {"none", "alert_gone", "ai", "unexpected"}
      /\ JobStatus = {"queued", "running", "completed", "failed"}
  BY TypeStep, IInvByJob, JobConstants DEF IInv, TypeOK, Positions, Before,
     During, Ended, Errors, JobStatus
<1> USE DEF JobInv, TaskMatchesJob, Before, During, Ended
<1>1. ASSUME NEW j \in Jobs, NEW a \in Alerts, RequestAnalysis(j, a)
      PROVE  IInv'
  <2>1. JobInv(j)'
    BY <1>0, <1>1, GotoFacts DEF RequestAnalysis, TypeOK
  <2> QED
    BY <1>0, <1>1, <2>1, GotoFacts, OneJobSuffices DEF RequestAnalysis, TypeOK
<1>2. ASSUME NEW j \in Jobs, Schedule(j) PROVE IInv'
  <2>1. JobInv(j)'
    BY <1>0, <1>2, GotoFacts DEF Schedule, JobExists
  <2> QED
    BY <1>0, <1>2, <2>1, GotoFacts, OneJobSuffices DEF Schedule, JobExists
<1>3. ASSUME NEW j \in Jobs, LoadJob(j) PROVE IInv'
  <2>1. JobInv(j)'
    BY <1>0, <1>3, GotoFacts DEF LoadJob, JobExists
  <2> QED
    BY <1>0, <1>3, <2>1, GotoFacts, OneJobSuffices DEF LoadJob, JobExists
<1>4. ASSUME NEW j \in Jobs, MarkRunning(j) PROVE IInv'
  <2>1. JobInv(j)'
    BY <1>0, <1>4, GotoFacts, SetFacts DEF MarkRunning, JobExists
  <2> QED
    BY <1>0, <1>4, <2>1, GotoFacts, SetFacts, OneJobSuffices DEF MarkRunning, JobExists
<1>5. ASSUME NEW j \in Jobs, LoadAlert(j) PROVE IInv'
  <2>1. /\ task[j].pc = "running" /\ JobInv(j)
        /\ UNCHANGED <<stored, triage, jobAlert, jobStatus, jobError, saved, disruptions>>
    BY <1>0, <1>5 DEF LoadAlert
  <2>2. /\ task'[j].error = task[j].error /\ task'[j].fault = task[j].fault
        /\ \A k \in Jobs \ {j} : task'[k] = task[k]
        /\ \/ task'[j].pc = "calling" /\ task'[j].attempts = 0
           \/ /\ task'[j].pc = "alert_gone" /\ jobAlert[j] \notin stored
              /\ task'[j].attempts = task[j].attempts
    BY <1>0, <1>5, LoadAlertFacts
  <2>3. JobInv(j)'
    BY <2>1, <2>2 DEF MaxAttempts
  <2> QED
    BY <1>0, <2>1, <2>2, <2>3, OneJobSuffices
<1>6. ASSUME NEW j \in Jobs, RecordAlertGone(j) PROVE IInv'
  <2>1. JobInv(j)'
    BY <1>0, <1>6, GotoFacts, SetFacts DEF RecordAlertGone, JobExists
  <2> QED
    BY <1>0, <1>6, <2>1, GotoFacts, SetFacts, OneJobSuffices DEF RecordAlertGone, JobExists
<1>7. ASSUME NEW j \in Jobs, CallAI(j) PROVE IInv'
  <2>1. /\ task[j].pc = "calling" /\ JobInv(j)
        /\ task[j].attempts \in Nat /\ MaxAttempts \in Nat
        /\ UNCHANGED <<stored, triage, jobAlert, jobStatus, jobError, saved, disruptions>>
    BY <1>0, <1>7 DEF CallAI, TypeOK, TaskRecord, MaxAttempts
  <2>2. /\ task'[j].error \in {task[j].error, "ai", "unexpected"}
        /\ task'[j].fault = task[j].fault
        /\ \A k \in Jobs \ {j} : task'[k] = task[k]
        /\ \/ /\ task'[j].pc \in {"saving", "failing"}
              /\ task'[j].attempts = task[j].attempts
           \/ /\ task'[j].pc = "calling"
              /\ task'[j].attempts = task[j].attempts + 1
              /\ task[j].attempts + 1 < MaxAttempts
    BY <1>0, <1>7, CallAIFacts
  <2>3. JobInv(j)'
    BY <2>1, <2>2
  <2> QED
    BY <1>0, <2>1, <2>2, <2>3, OneJobSuffices
<1>8. ASSUME NEW j \in Jobs, SaveAnalysis(j) PROVE IInv'
  <2>1. /\ task[j].pc = "saving" /\ JobInv(j) /\ jobAlert[j] \in Alerts
        /\ j \notin saved
        /\ UNCHANGED <<stored, jobAlert, jobStatus, jobError, disruptions>>
    BY <1>0, <1>8 DEF SaveAnalysis
  <2>2. CASE jobAlert[j] \in stored
    <3>1. saved' = saved \union {j} /\ Goto(j, "refreshing")
      BY <1>8, <2>2 DEF SaveAnalysis
    <3>2. /\ task'[j].pc = "refreshing"
          /\ task'[j].error = task[j].error
          /\ task'[j].attempts = task[j].attempts
          /\ task'[j].fault = task[j].fault
          /\ \A k \in Jobs \ {j} : task'[k] = task[k]
      BY <1>0, <3>1, GotoFacts
    <3>3. JobInv(j)'
      BY <2>1, <3>1, <3>2
    <3> QED
      BY <1>0, <2>1, <3>1, <3>2, <3>3, OneJobSuffices
  <2>3. CASE jobAlert[j] \notin stored
    <3>1. saved' = saved /\ FailWith(j, "unexpected")
      BY <1>8, <2>3 DEF SaveAnalysis
    <3>2. /\ task'[j].pc = "failing"
          /\ task'[j].error = "unexpected"
          /\ task'[j].attempts = task[j].attempts
          /\ task'[j].fault = task[j].fault
          /\ \A k \in Jobs \ {j} : task'[k] = task[k]
      BY <1>0, <3>1, FailFacts
    <3>3. JobInv(j)'
      BY <2>1, <3>1, <3>2
    <3> QED
      BY <1>0, <2>1, <3>1, <3>2, <3>3, OneJobSuffices
  <2> QED
    BY <2>2, <2>3
<1>9. ASSUME NEW j \in Jobs, RefreshSaved(j) PROVE IInv'
  <2>1. JobInv(j)'
    BY <1>0, <1>9, GotoFacts, FailFacts DEF RefreshSaved
  <2> QED
    BY <1>0, <1>9, <2>1, GotoFacts, FailFacts, OneJobSuffices DEF RefreshSaved
<1>10. ASSUME NEW j \in Jobs, Complete(j) PROVE IInv'
  <2>1. JobInv(j)'
    BY <1>0, <1>10, GotoFacts, SetFacts DEF Complete, JobExists
  <2> QED
    BY <1>0, <1>10, <2>1, GotoFacts, SetFacts, OneJobSuffices DEF Complete, JobExists
<1>11. ASSUME NEW j \in Jobs, RecordFailure(j) PROVE IInv'
  <2>1. task[j].error \in Errors
    BY <1>0 DEF TypeOK, TaskRecord
  <2>2. JobInv(j)'
    BY <1>0, <1>11, <2>1, GotoFacts, SetFacts DEF RecordFailure, JobExists
  <2> QED
    BY <1>0, <1>11, <2>1, <2>2, GotoFacts, SetFacts, OneJobSuffices DEF RecordFailure, JobExists
<1>12. ASSUME NEW j \in Jobs, Fault(j) PROVE IInv'
  <2>1. /\ JobInv(j)
        /\ disruptions' = disruptions + 1
        /\ UNCHANGED <<stored, triage, jobAlert, jobStatus, jobError, saved>>
    BY <1>0, <1>12 DEF Fault
  <2>2. CASE CaughtFault(j)
    <3>1. /\ task[j].pc \in {"saving", "refreshing"}
          /\ task'[j].pc = "failing"
          /\ task'[j].error = "unexpected"
          /\ task'[j].attempts = task[j].attempts
          /\ task'[j].fault = task[j].pc
          /\ \A k \in Jobs \ {j} : task'[k] = task[k]
      BY <1>0, <2>2, CaughtFacts
    <3>2. JobInv(j)'
      BY <1>0, <2>1, <2>2, <3>1
    <3> QED
      BY <1>0, <2>1, <3>1, <3>2, OneJobSuffices
  <2>3. CASE /\ task[j].pc \in (Before \union During)
                                \ {"calling", "saving", "refreshing"}
             /\ Goto(j, "lost")
    <3>1. /\ task'[j].pc = "lost"
          /\ task'[j].error = task[j].error
          /\ task'[j].attempts = task[j].attempts
          /\ task'[j].fault = task[j].fault
          /\ \A k \in Jobs \ {j} : task'[k] = task[k]
      BY <1>0, <2>3, GotoFacts
    <3>2. JobInv(j)'
      BY <1>0, <2>1, <2>3, <3>1
    <3> QED
      BY <1>0, <2>1, <3>1, <3>2, OneJobSuffices
  <2> QED
    BY <1>12, <2>2, <2>3 DEF Fault, CaughtFault
<1>13. ASSUME Crash PROVE IInv'
  <2>1. ASSUME NEW k \in Jobs PROVE JobInv(k)'
    BY <1>0, <1>13 DEF Crash, TypeOK
  <2> QED
    BY <1>0, <1>13, <2>1 DEF Crash, IInv, CompletedMeansSaved,
       FailedAfterSaveOnlyAtRefresh, AlertGoneNeverStored
<1>14. ASSUME NEW a \in Alerts, DeleteAlert(a) PROVE IInv'
  <2>1. ASSUME NEW k \in Jobs PROVE JobInv(k)'
    BY <1>0, <1>14 DEF DeleteAlert, JobsOf, TypeOK
  <2> QED
    BY <1>0, <1>14, <2>1 DEF DeleteAlert, JobsOf, IInv, CompletedMeansSaved,
       FailedAfterSaveOnlyAtRefresh, AlertGoneNeverStored
<1>15. CASE UNCHANGED vars
  BY <1>15 DEF vars, IInv, TypeOK, CompletedMeansSaved,
     FailedAfterSaveOnlyAtRefresh, AlertGoneNeverStored
<1> QED
  BY <1>1, <1>2, <1>3, <1>4, <1>5, <1>6, <1>7, <1>8, <1>9, <1>10, <1>11,
     <1>12, <1>13, <1>14, <1>15 DEF Next, TaskStep

-----------------------------------------------------------------------------
(* The theorems.                                                           *)

\* The inductive invariant holds in every reachable state.
THEOREM Invariance == Spec => []IInv
<1> QED
  BY InitIInv, StepIInv, PTL DEF Spec

\* Every variable keeps its type.
THEOREM TypeCorrect == Spec => []TypeOK
<1>1. IInv => TypeOK
  BY DEF IInv
<1> QED
  BY <1>1, Invariance, PTL

\* A job polled as completed has its analysis stored, under any number of
\* faults, crashes and deletions (run_analysis_job commits save_analysis
\* before it sets the state).
THEOREM CompletedIsSaved == Spec => []CompletedMeansSaved
<1>1. IInv => CompletedMeansSaved
  BY DEF IInv
<1> QED
  BY <1>1, Invariance, PTL

\* A failed job whose analysis is stored had its own refresh, the one between
\* its two commits, fail: run_analysis_job's try block also covers that
\* refresh, and no other failure of this job or of another one explains it.
THEOREM FailedAfterSaveIsAtRefresh == Spec => []FailedAfterSaveOnlyAtRefresh
<1>1. IInv => FailedAfterSaveOnlyAtRefresh
  BY DEF IInv
<1> QED
  BY <1>1, Invariance, PTL

\* The state "Alert no longer exists" is never stored (the branch of
\* run_analysis_job finds its job row deleted with the alert).
THEOREM AlertGoneIsNeverStored == Spec => []AlertGoneNeverStored
<1>1. IInv => AlertGoneNeverStored
  BY DEF IInv
<1> QED
  BY <1>1, Invariance, PTL

\* A job's state only advances, and only a deletion takes it away
\* (set_job_state as run_analysis_job calls it).
THEOREM JobsAdvance == Spec => JobsOnlyAdvance
<1>1. ASSUME IInv, [Next]_vars, NEW j \in Jobs, jobStatus'[j] # jobStatus[j]
      PROVE  \/ jobStatus[j] = "absent"  /\ jobStatus'[j] = "queued" /\ task[j].pc = "none"
             \/ jobStatus[j] = "queued"  /\ jobStatus'[j] = "running"
             \/ jobStatus[j] = "running" /\ jobStatus'[j] \in {"completed", "failed"}
             \/ jobStatus'[j] = "absent" /\ jobAlert[j] \notin stored'
  <2>0. TypeOK /\ \A k \in Jobs : TaskMatchesJob(k)
    BY <1>1 DEF IInv
  <2> USE DEF TaskMatchesJob, Before, During
  <2>1. ASSUME NEW k \in Jobs, NEW a \in Alerts, RequestAnalysis(k, a)
        PROVE  k = j /\ jobStatus[j] = "absent" /\ jobStatus'[j] = "queued"
               /\ task[j].pc = "none"
    BY <1>1, <2>0, <2>1 DEF RequestAnalysis, TypeOK
  <2>2. ASSUME NEW k \in Jobs, MarkRunning(k)
        PROVE  jobStatus[j] = "queued" /\ jobStatus'[j] = "running"
    BY <1>1, <2>0, <2>2 DEF MarkRunning, SetJobState, JobExists, TypeOK
  <2>3. ASSUME NEW k \in Jobs, RecordAlertGone(k) \/ Complete(k) \/ RecordFailure(k)
        PROVE  jobStatus[j] = "running" /\ jobStatus'[j] \in {"completed", "failed"}
    BY <1>1, <2>0, <2>3 DEF RecordAlertGone, Complete, RecordFailure,
       SetJobState, JobExists, TypeOK
  <2>4. ASSUME NEW a \in Alerts, DeleteAlert(a)
        PROVE  jobStatus'[j] = "absent" /\ jobAlert[j] \notin stored'
    BY <1>1, <2>0, <2>4 DEF DeleteAlert, JobsOf, TypeOK
  <2>5. ASSUME NEW k \in Jobs,
               \/ Schedule(k) \/ LoadJob(k) \/ LoadAlert(k) \/ CallAI(k)
               \/ SaveAnalysis(k) \/ RefreshSaved(k) \/ Fault(k)
        PROVE  FALSE
    BY <1>1, <2>5 DEF Schedule, LoadJob, LoadAlert, CallAI, SaveAnalysis,
       RefreshSaved, Fault
  <2>6. ~Crash /\ ~UNCHANGED vars
    BY <1>1 DEF Crash, vars
  <2> QED
    BY <1>1, <2>1, <2>2, <2>3, <2>4, <2>5, <2>6 DEF Next, TaskStep
<1>2. IInv /\ [Next]_vars =>
        [\A j \in Jobs : jobStatus'[j] # jobStatus[j] =>
           \/ jobStatus[j] = "absent"  /\ jobStatus'[j] = "queued" /\ task[j].pc = "none"
           \/ jobStatus[j] = "queued"  /\ jobStatus'[j] = "running"
           \/ jobStatus[j] = "running" /\ jobStatus'[j] \in {"completed", "failed"}
           \/ jobStatus'[j] = "absent" /\ jobAlert[j] \notin stored']_vars
  BY <1>1
<1> QED
  BY <1>2, Invariance, PTL DEF Spec, JobsOnlyAdvance

\* Every step of a task brings it nearer its end, whatever the provider
\* answers: with the fairness of FairSpec this is why every task ends.
THEOREM TasksAreFinite == Spec => TasksRunDown
<1>1. ASSUME IInv, [Next]_vars, NEW j \in Jobs, task[j].pc \in Before \union During,
             task'[j] # task[j]
      PROVE  StepsAhead(j)' \in 0..(StepsAhead(j) - 1)
  <2>0. /\ TypeOK /\ TaskMatchesJob(j)
        /\ task[j].attempts \in Nat /\ MaxAttempts \in Nat
        /\ task[j].pc = "calling" => task[j].attempts < MaxAttempts
        /\ Positions = {"none", "accepted", "scheduled", "loaded", "running",
                        "alert_gone", "calling", "saving", "refreshing",
                        "failing", "completing", "done", "lost"}
        /\ {"ai", "unexpected"} \subseteq Errors
    BY <1>1 DEF IInv, TypeOK, TaskMatchesJob, TaskRecord, MaxAttempts, Positions,
       Before, During, Ended, Errors
  <2> USE DEF StepsAhead
  <2>1. ASSUME NEW k \in Jobs, NEW a \in Alerts, RequestAnalysis(k, a) PROVE FALSE
    BY <1>1, <2>0, <2>1, GotoFacts DEF RequestAnalysis, Before, During
  <2>2. ASSUME NEW k \in Jobs, Schedule(k) \/ LoadJob(k) \/ MarkRunning(k)
        PROVE  StepsAhead(j)' \in 0..(StepsAhead(j) - 1)
    <3>1. /\ k = j
          /\ \/ task[j].pc = "accepted" /\ task'[j].pc \in {"scheduled", "done"}
             \/ task[j].pc = "scheduled" /\ task'[j].pc \in {"loaded", "done"}
             \/ task[j].pc = "loaded" /\ task'[j].pc \in {"running", "done"}
      BY <1>1, <2>0, <2>2, GotoFacts DEF Schedule, LoadJob, MarkRunning
    <3> QED
      BY <2>0, <3>1
  <2>3. ASSUME NEW k \in Jobs, LoadAlert(k)
        PROVE  StepsAhead(j)' \in 0..(StepsAhead(j) - 1)
    <3>1. /\ k = j /\ task[j].pc = "running"
          /\ \/ task'[j].pc = "calling" /\ task'[j].attempts = 0
             \/ task'[j].pc = "alert_gone"
      BY <1>1, <2>0, <2>3, LoadAlertFacts DEF LoadAlert
    <3> QED
      BY <2>0, <3>1
  <2>4. ASSUME NEW k \in Jobs, CallAI(k)
        PROVE  StepsAhead(j)' \in 0..(StepsAhead(j) - 1)
    <3>1. /\ k = j /\ task[j].pc = "calling"
          /\ \/ task'[j].pc \in {"saving", "failing"}
             \/ /\ task'[j].pc = "calling"
                /\ task'[j].attempts = task[j].attempts + 1
                /\ task[j].attempts + 1 < MaxAttempts
      BY <1>1, <2>0, <2>4, CallAIFacts DEF CallAI
    <3> QED
      BY <2>0, <3>1
  <2>5. ASSUME NEW k \in Jobs, SaveAnalysis(k) \/ RefreshSaved(k)
        PROVE  StepsAhead(j)' \in 0..(StepsAhead(j) - 1)
    <3>1. /\ k = j
          /\ \/ task[j].pc = "saving" /\ task'[j].pc \in {"refreshing", "failing"}
             \/ task[j].pc = "refreshing" /\ task'[j].pc \in {"completing", "failing"}
      BY <1>1, <2>0, <2>5, GotoFacts, FailFacts DEF SaveAnalysis, RefreshSaved
    <3> QED
      BY <2>0, <3>1
  <2>6. ASSUME NEW k \in Jobs, RecordAlertGone(k) \/ Complete(k) \/ RecordFailure(k)
        PROVE  StepsAhead(j)' \in 0..(StepsAhead(j) - 1)
    <3>1. /\ k = j /\ task[j].pc \in {"alert_gone", "completing", "failing"}
          /\ task'[j].pc = "done"
      BY <1>1, <2>0, <2>6, GotoFacts DEF RecordAlertGone, Complete, RecordFailure
    <3> QED
      BY <2>0, <3>1
  <2>7. ASSUME NEW k \in Jobs, Fault(k)
        PROVE  StepsAhead(j)' \in 0..(StepsAhead(j) - 1)
    <3>1. /\ k = j
          /\ \/ task[j].pc \in {"saving", "refreshing"} /\ task'[j].pc = "failing"
             \/ task'[j].pc = "lost"
      BY <1>1, <2>0, <2>7, GotoFacts, CaughtFacts DEF Fault, CaughtFault
    <3> QED
      BY <1>1, <2>0, <3>1 DEF Before, During
  <2>8. ASSUME Crash PROVE StepsAhead(j)' \in 0..(StepsAhead(j) - 1)
    <3>1. task'[j].pc = "lost"
      BY <1>1, <2>0, <2>8 DEF Crash, TypeOK, TaskRecord
    <3> QED
      BY <1>1, <2>0, <3>1 DEF Before, During
  <2>9. ~(\E a \in Alerts : DeleteAlert(a)) /\ ~UNCHANGED vars
    BY <1>1 DEF DeleteAlert, vars
  <2> QED
    BY <1>1, <2>1, <2>2, <2>3, <2>4, <2>5, <2>6, <2>7, <2>8, <2>9 DEF Next, TaskStep
<1>2. IInv /\ [Next]_vars =>
        [\A j \in Jobs : task[j].pc \in Before \union During /\ task'[j] # task[j] =>
           StepsAhead(j)' \in 0..(StepsAhead(j) - 1)]_vars
  BY <1>1
<1> QED
  BY <1>2, Invariance, PTL DEF Spec, TasksRunDown

\* Undisturbed, a task that ends has recorded a final state of its job.
THEOREM UndisturbedTasksAreRecorded == Spec => []UndisturbedTasksRecord
<1>1. Init => UndisturbedTasksRecord
  BY DEF Init, UndisturbedTasksRecord, NoTask, Ended
<1>2. IInv /\ UndisturbedTasksRecord /\ [Next]_vars => UndisturbedTasksRecord'
  <2> SUFFICES ASSUME IInv, UndisturbedTasksRecord, [Next]_vars, disruptions' = 0,
                      NEW j \in Jobs
               PROVE  /\ task'[j].pc # "none" => jobStatus'[j] # "absent"
                      /\ task'[j].pc \in Ended => jobStatus'[j] \in {"completed", "failed"}
    BY DEF UndisturbedTasksRecord, JobExists
  <2>0. /\ TypeOK /\ TaskMatchesJob(j) /\ disruptions \in Nat
        /\ Positions = {"none", "accepted", "scheduled", "loaded", "running",
                        "alert_gone", "calling", "saving", "refreshing",
                        "failing", "completing", "done", "lost"}
        /\ {"ai", "unexpected"} \subseteq Errors /\ task[j].error \in Errors
    BY JobConstants DEF IInv, TypeOK, TaskRecord, Positions, Before, During, Ended, Errors
  <2>1. /\ ~Crash /\ (\A k \in Jobs : ~Fault(k)) /\ (\A a \in Alerts : ~DeleteAlert(a))
        /\ disruptions = 0
    <3>1. disruptions + 1 # 0
      BY <2>0
    <3>2. ~Crash /\ (\A k \in Jobs : ~Fault(k)) /\ (\A a \in Alerts : ~DeleteAlert(a))
      BY <3>1 DEF Crash, Fault, DeleteAlert
    <3>3. disruptions' = disruptions
      BY <3>2 DEF Next, TaskStep, RequestAnalysis, Schedule, LoadJob, MarkRunning,
         LoadAlert, RecordAlertGone, CallAI, SaveAnalysis, RefreshSaved, Complete,
         RecordFailure, vars
    <3> QED
      BY <3>2, <3>3
  <2>2. /\ task[j].pc # "none" => jobStatus[j] # "absent"
        /\ task[j].pc \in Ended => jobStatus[j] \in {"completed", "failed"}
    BY <2>1 DEF UndisturbedTasksRecord, JobExists
  <2> USE DEF Ended
  <2>3. ASSUME NEW k \in Jobs, NEW a \in Alerts, RequestAnalysis(k, a)
        PROVE  \/ k # j /\ task'[j] = task[j] /\ jobStatus'[j] = jobStatus[j]
               \/ task'[j].pc = "accepted" /\ jobStatus'[j] = "queued"
    BY <2>0, <2>3, GotoFacts DEF RequestAnalysis, TypeOK
  <2>4. ASSUME NEW k \in Jobs, Schedule(k) \/ LoadJob(k)
        PROVE  \/ k # j /\ task'[j] = task[j] /\ jobStatus'[j] = jobStatus[j]
               \/ task'[j].pc \in {"scheduled", "loaded"} /\ jobStatus'[j] # "absent"
    BY <2>0, <2>2, <2>4, GotoFacts DEF Schedule, LoadJob, JobExists
  <2>5. ASSUME NEW k \in Jobs, MarkRunning(k)
        PROVE  \/ k # j /\ task'[j] = task[j] /\ jobStatus'[j] = jobStatus[j]
               \/ task'[j].pc = "running" /\ jobStatus'[j] # "absent"
    BY <2>0, <2>2, <2>5, GotoFacts, SetFacts DEF MarkRunning, JobExists, JobStatus, Errors
  <2>6. ASSUME NEW k \in Jobs,
               LoadAlert(k) \/ CallAI(k) \/ SaveAnalysis(k) \/ RefreshSaved(k)
        PROVE  \/ k # j /\ task'[j] = task[j] /\ jobStatus'[j] = jobStatus[j]
               \/ task'[j].pc \notin {"done", "lost"} /\ jobStatus'[j] # "absent"
    <3>1. /\ jobStatus' = jobStatus
          /\ task[k].pc \in {"running", "calling", "saving", "refreshing"}
      BY <2>6 DEF LoadAlert, CallAI, SaveAnalysis, RefreshSaved
    <3>2. CASE LoadAlert(k)
      BY <2>0, <2>2, <3>1, <3>2, LoadAlertFacts
    <3>3. CASE CallAI(k)
      BY <2>0, <2>2, <3>1, <3>3, CallAIFacts
    <3>4. CASE SaveAnalysis(k) \/ RefreshSaved(k)
      BY <2>0, <2>2, <3>1, <3>4, GotoFacts, FailFacts DEF SaveAnalysis, RefreshSaved
    <3> QED
      BY <2>6, <3>2, <3>3, <3>4
  <2>7. ASSUME NEW k \in Jobs, RecordAlertGone(k) \/ Complete(k) \/ RecordFailure(k)
        PROVE  \/ k # j /\ task'[j] = task[j] /\ jobStatus'[j] = jobStatus[j]
               \/ jobStatus'[j] \in {"completed", "failed"}
    <3>1. task[k].error \in Errors /\ {"alert_gone", "none"} \subseteq Errors
      BY <2>0 DEF TypeOK, TaskRecord, Errors
    <3> QED
      BY <2>0, <2>2, <2>7, <3>1, GotoFacts, SetFacts
         DEF RecordAlertGone, Complete, RecordFailure, JobExists, JobStatus
  <2>8. CASE UNCHANGED vars
    BY <2>2, <2>8 DEF vars
  <2> QED
    BY <2>1, <2>2, <2>3, <2>4, <2>5, <2>6, <2>7, <2>8 DEF Next, TaskStep
<1> QED
  BY <1>1, <1>2, Invariance, PTL DEF Spec

=============================================================================
