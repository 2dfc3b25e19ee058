---------------------------- MODULE MCAlertIngest ----------------------------
(* AlertIngest for TLC: two findings with one id, and a third that Wazuh's *)
(* schema accepts and AlertCreate refuses: its agent's name is a space.    *)
EXTENDS AlertIngest, Contracts

MCFindings == {[source |-> "guardduty", external_id |-> "id1"],
               [source |-> "wazuh", external_id |-> "id1"],
               [source |-> "wazuh", external_id |-> "id2"]}

MCNormalizable == {[source |-> "guardduty", external_id |-> "id1"],
                   [source |-> "wazuh", external_id |-> "id1"]}

IdOf(f)    == [raw |-> 3, stripped |-> 3]
AgentOf(f) == IF f.external_id = "id1" THEN [raw |-> 4, stripped |-> 4]
                                       ELSE [raw |-> 1, stripped |-> 0]

FromWazuh(f) ==
  [id |-> IdOf(f), aware |-> TRUE, level |-> 7, agent |-> AgentOf(f),
   rule |-> [raw |-> 9, stripped |-> 9], srcip |-> {[raw |-> 9, stripped |-> 9]}]

FromGuardDuty(f) ==
  [id |-> IdOf(f), type |-> [raw |-> 20, stripped |-> 20],
   title |-> [raw |-> 9, stripped |-> 9], description |-> [raw |-> 30, stripped |-> 30],
   severity |-> 53, account_id |-> TRUE, region |-> [raw |-> 9, stripped |-> 9],
   aware |-> TRUE, found |-> <<{}, {AgentOf(f)}, {}>>]

\* Each payload passes its provider's schema; which of them can be normalized.
ASSUME \A f \in MCFindings :
  IF f.source = "wazuh"
  THEN /\ WazuhAlert(FromWazuh(f))
       /\ AlertCreate(NormalizeWazuh(FromWazuh(f))) <=> f \in MCNormalizable
  ELSE /\ GuardDutyFinding(FromGuardDuty(f))
       /\ AlertCreate(NormalizeGuardDuty(FromGuardDuty(f))) <=> f \in MCNormalizable
=============================================================================
