----------------------------- MODULE AlertIngest -----------------------------
(***************************************************************************)
(* Ingestion of findings that providers deliver at least once              *)
(* (create_alert in app/repositories/alerts.py, _persist_or_conflict and   *)
(* the three ingestion routes).                                            *)
(*                                                                         *)
(* The service does not look a finding up before it inserts it: it relies  *)
(* on the unique constraint.  PostgreSQL checks it at the INSERT of the    *)
(* flush, against committed rows, and an INSERT of a value that another    *)
(* open transaction has inserted waits for that transaction to end.        *)
(*                                                                         *)
(* A finding that its provider's schema accepts is converted to an         *)
(* AlertCreate inside the handler.  Some payloads pass the first and fail  *)
(* the second (Contracts): the exception is no validation error of the     *)
(* request, and the provider reads 500 for them, every time.               *)
(*                                                                         *)
(* A provider is outside this repository.  It numbers nothing: the number  *)
(* of a delivery only tells apart the deliveries of one finding, which may *)
(* carry different content.  It may send again before the last answer has  *)
(* come, and stops when it knows that the finding is stored.               *)
(***************************************************************************)
EXTENDS Naturals

CONSTANTS
  Sources,     \* alerts.source
  ExternalIds, \* alerts.external_id, unique within a source
  Findings,    \* what the providers have to report
  Normalizable, \* the findings that the normalizer can turn into an alert, of
                \* texts that PostgreSQL takes (no NUL)
  MaxSends,    \* bound: deliveries of one finding
  MaxFaults    \* bound: deliveries that fail

ASSUME IngestBounds ==
  MaxSends \in Nat /\ MaxFaults \in Nat /\ MaxFaults < MaxSends

ASSUME IngestFindings ==
  /\ Findings \subseteq [source : Sources, external_id : ExternalIds]
  /\ Normalizable \subseteq Findings

VARIABLES
  row,       \* the delivery the stored alert of each finding comes from
  creations, \* alert.created rows of each finding in audit_events
  pc,        \* where each delivery is
  faults     \* deliveries that have failed so far

vars == <<row, creations, pc, faults>>

Numbers    == 1..MaxSends
None       == 0  \* no alert is stored for the finding
InFlight   == {"received", "flushed", "committed"}
Answers    == {"201", "409"}
Confirming(f) == {n \in Numbers : pc[f][n] \in Answers}

-----------------------------------------------------------------------------
\* Wrong: a constraint on external_id alone.
CollideOnId(f, g) == f.external_id = g.external_id

\* The columns of uq_alert_source_external_id.
Collide(f, g) == f.source = g.source /\ f.external_id = g.external_id

\* A committed row violates the constraint for f.
Stored(f) == \E g \in Findings : Collide(f, g) /\ row[g] # None

\* Wrong: a SELECT before the INSERT in place of the constraint; a session
\* that is not rolled back when its request fails.
NobodyInserts(f) == FALSE
InsertingForGood(f) ==
  \E g \in Findings, n \in Numbers :
    Collide(f, g) /\ pc[g][n] \in {"flushed", "failed"}

\* An open transaction has inserted a row that would.
Inserting(f) ==
  \E g \in Findings, n \in Numbers : Collide(f, g) /\ pc[g][n] = "flushed"

Goto(f, n, where) == pc' = [pc EXCEPT ![f][n] = where]

Init ==
  /\ row = [f \in Findings |-> None]
  /\ creations = [f \in Findings |-> 0]
  /\ pc = [f \in Findings |-> [n \in Numbers |-> "unsent"]]
  /\ faults = 0

\* The provider delivers the finding, for the first time or again.
Send(f, n) ==
  /\ pc[f][n] = "unsent"
  /\ \A m \in 1..(n-1) : pc[f][m] # "unsent"
  /\ Confirming(f) = {}
  /\ Goto(f, n, "received")
  /\ UNCHANGED <<row, creations, faults>>

\* The normalizer raises before a statement is sent, or the INSERT fails for a
\* NUL in a text: 500.
RefusePayload(f, n) ==
  /\ pc[f][n] = "received"
  /\ f \notin Normalizable
  /\ Goto(f, n, "failed")
  /\ UNCHANGED <<row, creations, faults>>

\* Wrong: the audit event has a transaction of its own, before the alert's.
FlushAlertAudited(f, n) ==
  /\ pc[f][n] = "received"
  /\ f \in Normalizable
  /\ ~Stored(f)
  /\ ~Inserting(f)
  /\ creations' = [creations EXCEPT ![f] = @ + 1]
  /\ Goto(f, n, "flushed")
  /\ UNCHANGED <<row, faults>>

\* session.flush: the INSERT goes through.
FlushAlert(f, n) ==
  /\ pc[f][n] = "received"
  /\ f \in Normalizable
  /\ ~Stored(f)
  /\ ~Inserting(f)
  /\ Goto(f, n, "flushed")
  /\ UNCHANGED <<row, creations, faults>>

\* IntegrityError: rollback, DuplicateAlertError, 409.
RefuseDuplicate(f, n) ==
  /\ pc[f][n] = "received"
  /\ f \in Normalizable
  /\ Stored(f)
  /\ Goto(f, n, "409")
  /\ UNCHANGED <<row, creations, faults>>

\* The alert and its audit event commit together.
CommitAlert(f, n) ==
  /\ pc[f][n] = "flushed"
  /\ row' = [row EXCEPT ![f] = n]
  /\ creations' = [creations EXCEPT ![f] = @ + 1]
  /\ Goto(f, n, "committed")
  /\ UNCHANGED faults

\* session.refresh, and the answer reaches the provider.
AnswerCreated(f, n) ==
  /\ pc[f][n] = "committed"
  /\ Goto(f, n, "201")
  /\ UNCHANGED <<row, creations, faults>>

\* The delivery ends without a confirming answer: a statement fails (500),
\* the process stops, the connection or the answer is lost.  Before the
\* commit the session rolls back; after it the alert stays.
Fail(f, n) ==
  /\ faults < MaxFaults
  /\ pc[f][n] \in InFlight
  /\ Goto(f, n, "failed")
  /\ faults' = faults + 1
  /\ UNCHANGED <<row, creations>>

Handle(f, n) ==
  RefusePayload(f, n) \/ FlushAlert(f, n) \/ RefuseDuplicate(f, n)
    \/ CommitAlert(f, n) \/ AnswerCreated(f, n)

Next ==
  \E f \in Findings, n \in Numbers : Send(f, n) \/ Handle(f, n) \/ Fail(f, n)

Spec == Init /\ [][Next]_vars

\* The event loop runs what can run and a waiting INSERT gets its turn: of the
\* deliveries of a finding that can go on, one does.  A provider that has sent
\* a finding goes on sending it until it is confirmed; it need not send any
\* finding at all.
Fairness ==
  \A f \in Findings :
    /\ WF_vars(\E n \in Numbers : Handle(f, n))
    /\ WF_vars(\E n \in Numbers \ {1} : Send(f, n))

FairSpec == Spec /\ Fairness

-----------------------------------------------------------------------------
(* Properties.                                                             *)

\* Every variable keeps its type.
TypeOK ==
  /\ row \in [Findings -> Numbers \union {None}]
  /\ creations \in [Findings -> Nat]
  /\ pc \in [Findings -> [Numbers -> {"unsent", "failed"} \union InFlight \union Answers]]
  /\ faults \in 0..MaxFaults

\* At most one delivery of a finding is answered 201, and the alert that is
\* stored is the one it carried: a provider never reads "created" for content
\* that another delivery's content has kept out.
CreatedIsWhatIsStored ==
  \A f \in Findings, n \in Numbers : pc[f][n] = "201" => row[f] = n

\* The audit log records the creation of each stored alert once, however
\* often its finding was delivered, and of no alert that is not stored.
OneCreationRecorded ==
  \A f \in Findings : creations[f] = (IF row[f] = None THEN 0 ELSE 1)

\* A finding that a provider has sent and the normalizer can convert is
\* confirmed in the end, although deliveries fail, wait for each other and
\* answer out of order.
SentIsConfirmed ==
  \A f \in Normalizable : pc[f][1] # "unsent" ~> Confirming(f) # {}

\* Ingestion keeps its promise to the providers (IngestLedger).
Ledger ==
  INSTANCE IngestLedger WITH
    kept <- row,
    confirmed <- {f \in Findings : Confirming(f) # {}}
LedgerSpec == Ledger!Spec

-----------------------------------------------------------------------------
(* The inductive invariant: only one transaction at a time holds a row of  *)
(* a finding, and only while none is committed.                            *)

OneInserter ==
  \A f \in Findings, n \in Numbers : pc[f][n] = "flushed" =>
    /\ row[f] = None
    /\ \A m \in Numbers : pc[f][m] = "flushed" => m = n

AnswersAreTrue ==
  \A f \in Findings, n \in Numbers :
    /\ pc[f][n] \in {"committed", "201"} => row[f] = n
    /\ pc[f][n] = "409" => row[f] # None

IInv == TypeOK /\ OneInserter /\ AnswersAreTrue /\ OneCreationRecorded

=============================================================================
