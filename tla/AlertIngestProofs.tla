-------------------------- MODULE AlertIngestProofs --------------------------
(***************************************************************************)
(* Proofs about AlertIngest, for any findings and any number of deliveries.*)
(* Fairness plays no part: every theorem is about Spec.                    *)
(***************************************************************************)
EXTENDS AlertIngest, TLAPS

\* Findings collide with themselves only: they are told apart by the two
\* columns of the constraint.
LEMMA CollideIsEqual ==
  ASSUME NEW f \in Findings, NEW g \in Findings
  PROVE  Collide(f, g) <=> f = g
  BY IngestFindings DEF Collide

\* What an INSERT that goes through has found.
LEMMA FlushFinds ==
  ASSUME NEW f \in Findings, NEW n \in Numbers, FlushAlert(f, n)
  PROVE  row[f] = None /\ \A m \in Numbers : pc[f][m] # "flushed"
  BY CollideIsEqual DEF FlushAlert, Stored, Inserting

\* What a refused INSERT has found.
LEMMA RefusalFinds ==
  ASSUME NEW f \in Findings, NEW n \in Numbers, RefuseDuplicate(f, n)
  PROVE  row[f] # None
  BY CollideIsEqual DEF RefuseDuplicate, Stored

\* A step of delivery n of f moves only that delivery.
LEMMA GotoFacts ==
  ASSUME TypeOK, NEW f \in Findings, NEW n \in Numbers, NEW where,
         Goto(f, n, where),
         where \in {"unsent", "failed"} \union InFlight \union Answers
  PROVE  /\ pc' \in [Findings -> [Numbers ->
                       {"unsent", "failed"} \union InFlight \union Answers]]
         /\ pc'[f][n] = where
         /\ \A g \in Findings, m \in Numbers :
              g # f \/ m # n => pc'[g][m] = pc[g][m]
  BY DEF TypeOK, Goto

\* Everything holds before the first delivery.
LEMMA InitIInv == Init => IInv
  BY IngestBounds DEF Init, IInv, TypeOK, OneInserter, AnswersAreTrue,
     OneCreationRecorded, None, InFlight, Answers

\* A delivery that moves on without a commit keeps the invariant, if what its
\* new place stands for is so.
LEMMA MoveStep ==
  ASSUME IInv, NEW f \in Findings, NEW n \in Numbers,
         NEW where \in {"failed"} \union InFlight \union Answers,
         Goto(f, n, where), row' = row, creations' = creations,
         faults' \in 0..MaxFaults,
         where = "flushed" =>
           row[f] = None /\ \A m \in Numbers : pc[f][m] # "flushed",
         where \in {"committed", "201"} => row[f] = n,
         where = "409" => row[f] # None
  PROVE  IInv'
<1>1. /\ pc' \in [Findings -> [Numbers ->
                  {"unsent", "failed"} \union InFlight \union Answers]]
      /\ pc'[f][n] = where
      /\ \A g \in Findings, m \in Numbers :
           g # f \/ m # n => pc'[g][m] = pc[g][m]
  BY GotoFacts DEF IInv
<1>2. TypeOK'
  BY <1>1 DEF IInv, TypeOK
<1>3. OneInserter'
  <2> SUFFICES ASSUME NEW g \in Findings, NEW m \in Numbers,
                      pc'[g][m] = "flushed"
               PROVE  /\ row[g] = None
                      /\ \A k \in Numbers : pc'[g][k] = "flushed" => k = m
    BY DEF OneInserter
  <2>1. CASE g = f /\ m = n
    BY <1>1, <2>1
  <2>2. CASE g # f \/ m # n
    BY <1>1, <2>2 DEF IInv, OneInserter
  <2> QED
    BY <2>1, <2>2
<1>4. AnswersAreTrue'
  <2> SUFFICES ASSUME NEW g \in Findings, NEW m \in Numbers
               PROVE  /\ pc'[g][m] \in {"committed", "201"} => row[g] = m
                      /\ pc'[g][m] = "409" => row[g] # None
    BY DEF AnswersAreTrue, None
  <2>1. CASE g = f /\ m = n
    BY <1>1, <2>1
  <2>2. CASE g # f \/ m # n
    BY <1>1, <2>2 DEF IInv, AnswersAreTrue
  <2> QED
    BY <2>1, <2>2
<1>5. OneCreationRecorded'
  BY DEF IInv, OneCreationRecorded, None
<1> QED
  BY <1>2, <1>3, <1>4, <1>5 DEF IInv

\* The commit of an alert keeps the invariant: it is the first of its finding.
LEMMA CommitStep ==
  ASSUME IInv, NEW f \in Findings, NEW n \in Numbers, CommitAlert(f, n)
  PROVE  IInv'
<1>0. TypeOK
  BY DEF IInv
<1>1. /\ pc[f][n] = "flushed" /\ Goto(f, n, "committed")
      /\ row' = [row EXCEPT ![f] = n]
      /\ creations' = [creations EXCEPT ![f] = creations[f] + 1]
      /\ faults' = faults
  BY DEF CommitAlert
<1>2. row[f] = None /\ \A m \in Numbers : pc[f][m] = "flushed" => m = n
  BY <1>1 DEF IInv, OneInserter
<1>3. \A m \in Numbers : pc[f][m] \notin {"committed", "201", "409"}
  BY <1>2 DEF IInv, AnswersAreTrue, None, Numbers
<1>4. creations[f] = 0
  BY <1>2 DEF IInv, OneCreationRecorded
<1>5. /\ row' \in [Findings -> Numbers \union {None}]
      /\ row'[f] = n /\ \A g \in Findings : g # f => row'[g] = row[g]
  BY <1>0, <1>1 DEF TypeOK
<1>6. /\ creations' \in [Findings -> Nat]
      /\ creations'[f] = 1
      /\ \A g \in Findings : g # f => creations'[g] = creations[g]
  BY <1>0, <1>1, <1>4 DEF TypeOK
<1>7. /\ pc' \in [Findings -> [Numbers ->
                  {"unsent", "failed"} \union InFlight \union Answers]]
      /\ pc'[f][n] = "committed"
      /\ \A g \in Findings, m \in Numbers :
           g # f \/ m # n => pc'[g][m] = pc[g][m]
  BY <1>0, <1>1, GotoFacts DEF InFlight
<1>8. TypeOK'
  BY <1>0, <1>1, <1>5, <1>6, <1>7 DEF TypeOK
<1>9. OneInserter'
  <2> SUFFICES ASSUME NEW g \in Findings, NEW m \in Numbers,
                      pc'[g][m] = "flushed"
               PROVE  /\ row'[g] = None
                      /\ \A k \in Numbers : pc'[g][k] = "flushed" => k = m
    BY DEF OneInserter, None
  <2>1. g # f
    BY <1>2, <1>7
  <2>2. row'[g] = row[g] /\ \A k \in Numbers : pc'[g][k] = pc[g][k]
    BY <1>5, <1>7, <2>1
  <2>3. OneInserter
    BY DEF IInv
  <2> QED
    BY <2>2, <2>3 DEF OneInserter
<1>10. AnswersAreTrue'
  <2> SUFFICES ASSUME NEW g \in Findings, NEW m \in Numbers
               PROVE  /\ pc'[g][m] \in {"committed", "201"} => row'[g] = m
                      /\ pc'[g][m] = "409" => row'[g] # None
    BY DEF AnswersAreTrue, None
  <2>1. CASE g = f
    BY <1>3, <1>5, <1>7, <2>1
  <2>2. CASE g # f
    BY <1>5, <1>7, <2>2 DEF IInv, AnswersAreTrue
  <2> QED
    BY <2>1, <2>2
<1>11. OneCreationRecorded'
  <2> SUFFICES ASSUME NEW g \in Findings
               PROVE  creations'[g] = (IF row'[g] = None THEN 0 ELSE 1)
    BY DEF OneCreationRecorded, None
  <2>1. n # None
    BY DEF None, Numbers
  <2>2. CASE g = f
    BY <1>5, <1>6, <2>1, <2>2
  <2>3. CASE g # f
    BY <1>5, <1>6, <2>3 DEF IInv, OneCreationRecorded
  <2> QED
    BY <2>2, <2>3
<1> QED
  BY <1>8, <1>9, <1>10, <1>11 DEF IInv

\* Every step keeps the inductive invariant.
LEMMA StepIInv == IInv /\ [Next]_vars => IInv'
<1> SUFFICES ASSUME IInv, [Next]_vars PROVE IInv'
  OBVIOUS
<1>0. faults \in 0..MaxFaults
  BY DEF IInv, TypeOK
<1>1. ASSUME NEW f \in Findings, NEW n \in Numbers, Send(f, n) PROVE IInv'
  BY <1>0, <1>1, MoveStep DEF Send, InFlight
<1>2. ASSUME NEW f \in Findings, NEW n \in Numbers, FlushAlert(f, n) PROVE IInv'
  <2>1. Goto(f, n, "flushed") /\ row' = row /\ creations' = creations
        /\ faults' = faults
    BY <1>2 DEF FlushAlert
  <2> QED
    BY <1>0, <1>2, <2>1, FlushFinds, MoveStep DEF InFlight
<1>3. ASSUME NEW f \in Findings, NEW n \in Numbers, RefuseDuplicate(f, n)
      PROVE  IInv'
  <2>1. Goto(f, n, "409") /\ row' = row /\ creations' = creations
        /\ faults' = faults
    BY <1>3 DEF RefuseDuplicate
  <2> QED
    BY <1>0, <1>3, <2>1, RefusalFinds, MoveStep DEF Answers
<1>4. ASSUME NEW f \in Findings, NEW n \in Numbers, CommitAlert(f, n) PROVE IInv'
  BY <1>4, CommitStep
<1>5. ASSUME NEW f \in Findings, NEW n \in Numbers, AnswerCreated(f, n)
      PROVE  IInv'
  <2>1. Goto(f, n, "201") /\ row' = row /\ creations' = creations
        /\ faults' = faults /\ row[f] = n
    BY <1>5 DEF AnswerCreated, IInv, AnswersAreTrue
  <2> QED
    BY <1>0, <2>1, MoveStep DEF Answers
<1>6. ASSUME NEW f \in Findings, NEW n \in Numbers, Fail(f, n) PROVE IInv'
  <2>1. faults' \in 0..MaxFaults
    BY <1>0, <1>6, IngestBounds DEF Fail
  <2> QED
    BY <1>6, <2>1, MoveStep DEF Fail
<1>7. ASSUME NEW f \in Findings, NEW n \in Numbers, RefusePayload(f, n) PROVE IInv'
  <2>1. Goto(f, n, "failed") /\ row' = row /\ creations' = creations
        /\ faults' = faults
    BY <1>7 DEF RefusePayload
  <2> QED
    BY <1>0, <2>1, MoveStep
<1>8. CASE UNCHANGED vars
  BY <1>8 DEF vars, IInv, TypeOK, OneInserter, AnswersAreTrue,
     OneCreationRecorded
<1> QED
  BY <1>1, <1>2, <1>3, <1>4, <1>5, <1>6, <1>7, <1>8 DEF Next, Handle

-----------------------------------------------------------------------------
(* The theorems.                                                           *)

\* The inductive invariant holds in every reachable state.
THEOREM Invariance == Spec => []IInv
<1> QED
  BY InitIInv, StepIInv, PTL DEF Spec

\* Every variable keeps its type.
THEOREM TypeCorrect == Spec => []TypeOK
<1>1. IInv => TypeOK
  BY DEF IInv
<1> QED
  BY <1>1, Invariance, PTL

\* A delivery is answered 201 only if it is the one the stored alert comes
\* from (create_alert and its unique constraint).
THEOREM CreatedIsStored == Spec => []CreatedIsWhatIsStored
<1>1. IInv => CreatedIsWhatIsStored
  BY DEF IInv, AnswersAreTrue, CreatedIsWhatIsStored
<1> QED
  BY <1>1, Invariance, PTL

\* The audit log records the creation of each stored alert exactly once.
THEOREM OneCreation == Spec => []OneCreationRecorded
<1>1. IInv => OneCreationRecorded
  BY DEF IInv
<1> QED
  BY <1>1, Invariance, PTL

\* A confirmed finding is stored.
LEMMA ConfirmedIsStored ==
  ASSUME IInv, NEW f \in Findings, Confirming(f) # {}
  PROVE  row[f] # None
  BY DEF IInv, AnswersAreTrue, Confirming, Answers, None, Numbers

\* Every step is a step of the ledger, or none.
LEMMA StepKeepsLedger ==
  IInv /\ IInv' /\ [Next]_vars
    => [Ledger!Next]_<<row, {f \in Findings : Confirming(f) # {}}>>
<1> SUFFICES ASSUME IInv, IInv', [Next]_vars
             PROVE  [Ledger!Next]_<<row, {f \in Findings : Confirming(f) # {}}>>
  OBVIOUS
<1> DEFINE told == {f \in Findings : Confirming(f) # {}}
<1> USE DEF InFlight, Answers
<1>0. TypeOK
  BY DEF IInv
<1>1. ASSUME NEW f \in Findings, NEW n \in Numbers, NEW where,
             pc[f][n] \notin Answers, Goto(f, n, where),
             where \in {"received", "flushed", "committed", "failed"}
      PROVE  told' = told
  BY <1>0, <1>1, GotoFacts DEF Confirming
<1>2. ASSUME NEW f \in Findings, NEW n \in Numbers, NEW where,
             Goto(f, n, where), where \in Answers
      PROVE  told' = told \union {f}
  BY <1>0, <1>2, GotoFacts DEF Confirming
<1>3. ASSUME NEW f \in Findings, NEW n \in Numbers,
             Send(f, n) \/ RefusePayload(f, n) \/ FlushAlert(f, n) \/ Fail(f, n)
      PROVE  row' = row /\ told' = told
  BY <1>1, <1>3 DEF Send, RefusePayload, FlushAlert, Fail
<1>4. ASSUME NEW f \in Findings, NEW n \in Numbers, CommitAlert(f, n)
      PROVE  Ledger!Keep(f, n)
  <2>1. row[f] = None
    BY <1>4 DEF CommitAlert, IInv, OneInserter
  <2>2. told' = told
    BY <1>1, <1>4 DEF CommitAlert
  <2> QED
    BY <1>4, <2>1, <2>2 DEF CommitAlert, Ledger!Keep
<1>5. ASSUME NEW f \in Findings, NEW n \in Numbers,
             RefuseDuplicate(f, n) \/ AnswerCreated(f, n)
      PROVE  Ledger!Confirm(f)
  <2>1. row' = row
    BY <1>5 DEF RefuseDuplicate, AnswerCreated
  <2>2. told' = told \union {f}
    BY <1>2, <1>5 DEF RefuseDuplicate, AnswerCreated
  <2>3. row[f] # None
    BY <1>5, RefusalFinds DEF AnswerCreated, IInv, AnswersAreTrue, None, Numbers
  <2> QED
    BY <2>1, <2>2, <2>3 DEF Ledger!Confirm
<1>6. CASE UNCHANGED vars
  BY <1>6 DEF vars, Confirming
<1> QED
  BY <1>3, <1>4, <1>5, <1>6 DEF Next, Handle, Ledger!Next

\* Ingestion implements the ledger: however deliveries fail, wait for each
\* other and repeat, the first to be stored is kept for good and nothing is
\* confirmed before it is stored.
THEOREM IngestKeepsLedger == Spec => LedgerSpec
<1>1. Init => Ledger!Init
  BY DEF Init, Ledger!Init, Confirming, Answers
<1> QED
  BY <1>1, Invariance, StepKeepsLedger, PTL DEF Spec, LedgerSpec, Ledger!Spec

=============================================================================
