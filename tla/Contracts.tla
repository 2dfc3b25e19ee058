------------------------------ MODULE Contracts ------------------------------
(***************************************************************************)
(* What the request schemas accept and what the normalizers make of it     *)
(* (app/schemas, app/services/guardduty.py, app/services/wazuh.py).        *)
(*                                                                         *)
(* A text is its length as sent and its length without surrounding         *)
(* whitespace: AlertBase, IncidentCreate and UserCreate strip texts before *)
(* they measure them, the provider schemas do not.  An optional value is a *)
(* set of at most one.  Severities are in tenths; a timestamp is whether   *)
(* it names a timezone, an account id whether it is twelve digits.         *)
(***************************************************************************)
EXTENDS Schema

Texts       == {t \in [raw : Nat, stripped : Nat] : t.stripped <= t.raw}
Optional(S) == {{}} \union {{x} : x \in S}
Sent(t, min, max) == min <= t.raw /\ t.raw <= max            \* as sent
Bare(t, min, max) == min <= t.stripped /\ t.stripped <= max  \* stripped first
InRange(severity) == 0 <= severity /\ severity <= 100

-----------------------------------------------------------------------------
(* AlertCreate, the contract both normalizers and POST /alerts end in.     *)

Alerts == [external_id : Texts, title : Texts, description : Texts,
           severity : Int, aware : BOOLEAN, account_id : Optional(BOOLEAN),
           region : Optional(Texts), resource : Optional(Texts)]

AlertCreate(p) ==
  /\ Bare(p.external_id, 1, 255)
  /\ Bare(p.title, 3, 200)
  /\ Bare(p.description, 3, 10000)
  /\ InRange(p.severity)
  /\ p.aware
  /\ FALSE \notin p.account_id
  /\ \A t \in p.region : Bare(t, 3, 32)
  /\ \A t \in p.resource : Bare(t, 1, 512)

-----------------------------------------------------------------------------
(* GuardDuty.                                                              *)

\* `found` is what lies at the three places the normalizer looks for the
\* resource, in its order, where a text lies there at all.
GuardDutyFindings ==
  [id : Texts, type : Texts, title : Texts, description : Texts, severity : Int,
   account_id : BOOLEAN, region : Texts, aware : BOOLEAN,
   found : [1..3 -> Optional(Texts)]]

GuardDutyFinding(f) ==
  /\ Sent(f.id, 1, 255) /\ Sent(f.type, 3, 255)
  /\ Sent(f.title, 3, 200) /\ Sent(f.description, 3, 10000)
  /\ InRange(f.severity)
  /\ f.account_id
  /\ Sent(f.region, 3, 32)

\* _first_string: the first text that is not empty.
FirstString(found) ==
  {t \in found[1] \union found[2] \union found[3] :
     \E i \in 1..3 :
       /\ t \in found[i] /\ t.raw > 0
       /\ \A k \in 1..(i - 1) : \A u \in found[k] : u.raw = 0}

NormalizeGuardDuty(f) ==
  [external_id |-> f.id, title |-> f.title, description |-> f.description,
   severity |-> f.severity, aware |-> f.aware, account_id |-> {f.account_id},
   region |-> {f.region}, resource |-> FirstString(f.found)]

-----------------------------------------------------------------------------
(* Wazuh.                                                                  *)

WazuhAlerts ==
  [id : Texts, aware : BOOLEAN, level : Int, rule : Texts, agent : Texts,
   srcip : Optional(Texts)]

WazuhAlert(w) ==
  /\ Sent(w.id, 1, 255)
  /\ 0 <= w.level /\ w.level <= 15
  /\ Sent(w.rule, 3, 200)
  /\ Sent(w.agent, 1, 255)

\* round(level * (10 / 15), 1), in tenths: level * 20 / 3 to the nearest.
Severity(level) == (40 * level + 3) \div 6

\* "Detected by Wazuh agent <name>." and, if it is known, " Source IP: <ip>."
ContextLength(w) ==
  25 + w.agent.raw + IF \E t \in w.srcip : t.raw > 0
                     THEN 13 + (CHOOSE t \in w.srcip : TRUE).raw ELSE 0
Context(w) == [raw |-> ContextLength(w), stripped |-> ContextLength(w)]

NormalizeWazuh(w) ==
  [external_id |-> w.id, title |-> w.rule, description |-> Context(w),
   severity |-> Severity(w.level), aware |-> w.aware, account_id |-> {},
   region |-> {}, resource |-> {w.agent}]

-----------------------------------------------------------------------------
(* The other requests that store texts.                                    *)

IncidentCreate(p) ==
  /\ Bare(p.title, 3, 200) /\ Bare(p.summary, 3, 10000)
  /\ InRange(p.severity)
  /\ 1 <= p.alert_ids /\ p.alert_ids <= 100

UserCreate(p) == Bare(p.username, 3, 100) /\ Bare(p.password, 12, 128)

\* The machine key's actor, "service-api-key", or a user's name.
ServiceActor == 15
ActorLengths == {ServiceActor} \union 3..100

-----------------------------------------------------------------------------
(* What is stored, against the columns.                                    *)

\* The schema has the column, and a text of this length fits it.
Fits(S, table, column, length) ==
  \E n \in Nat :
    /\ Col(table, column, Varchar(n)) \in S \/ Opt(table, column, Varchar(n)) \in S
    /\ length <= n

AlertFits(S, p) ==
  /\ Fits(S, "alerts", "external_id", p.external_id.stripped)
  /\ Fits(S, "alerts", "title", p.title.stripped)
  /\ \A t \in p.region : Fits(S, "alerts", "region", t.stripped)
  /\ \A t \in p.resource : Fits(S, "alerts", "resource", t.stripped)

ActorFits(S, length) ==
  /\ Fits(S, "audit_events", "actor", length)
  /\ Fits(S, "incidents", "created_by", length)
  /\ Fits(S, "analysis_jobs", "requested_by", length)
=============================================================================
