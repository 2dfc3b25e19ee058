----------------------------- MODULE AuditTrail -----------------------------
(***************************************************************************)
(* What the audit log promises to the administrator who reads it, without  *)
(* saying how requests interleave: an append-only log in which             *)
(*   - a resource is recorded as created once, before anything else about  *)
(*     it;                                                                 *)
(*   - an incident's creation names at least one alert, and only alerts    *)
(*     whose own creation the log already holds;                           *)
(*   - a transition leaves from a status the log shows the resource to     *)
(*     have reached before.                                                *)
(* It does not promise that a transition leaves from the LATEST status:    *)
(* two operators who both saw "new" may both be recorded as leaving it.    *)
(***************************************************************************)
EXTENDS Naturals, Sequences

CONSTANTS AlertIds, IncidentIds

VARIABLE log

Absent == "absent"

Created(x) ==
  \E n \in DOMAIN log : log[n].resource = x /\ log[n].from = Absent

HasReached(x, s) ==
  \E n \in DOMAIN log : log[n].resource = x /\ log[n].to = s

Init == log = << >>

RecordCreation(x, s, group) ==
  /\ ~Created(x)
  /\ \A a \in group : Created(a)
  /\ (group # {}) <=> (x \in IncidentIds)
  /\ log' = Append(log, [resource |-> x, from |-> Absent, to |-> s,
                         alerts |-> group])

RecordTransition(x, s, t) ==
  /\ s # Absent
  /\ HasReached(x, s)
  /\ log' = Append(log, [resource |-> x, from |-> s, to |-> t, alerts |-> {}])

AlertStatus    == {"new", "investigating", "resolved", "dismissed"}
IncidentStatus == {"open", "contained", "closed"}

Next ==
  \/ \E a \in AlertIds : RecordCreation(a, "new", {})
  \/ \E i \in IncidentIds, S \in SUBSET AlertIds : RecordCreation(i, "open", S)
  \/ \E a \in AlertIds, s, t \in AlertStatus : RecordTransition(a, s, t)
  \/ \E i \in IncidentIds, s, t \in IncidentStatus : RecordTransition(i, s, t)

Spec == Init /\ [][Next]_log

=============================================================================
