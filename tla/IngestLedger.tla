---------------------------- MODULE IngestLedger ----------------------------
(***************************************************************************)
(* What ingestion promises to a provider that sends a finding until it is  *)
(* confirmed: the first delivery to be stored is the finding for good, and *)
(* nothing is confirmed before it is stored.  Deliveries, transactions and *)
(* failures are not mentioned.                                             *)
(***************************************************************************)
CONSTANTS Findings, Numbers, None

VARIABLES kept,      \* the number of the delivery each finding was stored from
          confirmed  \* findings whose provider has been told they are stored

Init ==
  /\ kept = [f \in Findings |-> None]
  /\ confirmed = {}

Keep(f, n) ==
  /\ kept[f] = None
  /\ kept' = [kept EXCEPT ![f] = n]
  /\ UNCHANGED confirmed

Confirm(f) ==
  /\ kept[f] # None
  /\ confirmed' = confirmed \union {f}
  /\ UNCHANGED kept

Next == \E f \in Findings : Confirm(f) \/ \E n \in Numbers : Keep(f, n)

Spec == Init /\ [][Next]_<<kept, confirmed>>

=============================================================================
