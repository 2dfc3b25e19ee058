--------------------------- MODULE ContractsProofs ---------------------------
(***************************************************************************)
(* Theorems about the schema and the contracts.  There is no behaviour     *)
(* here: each compares two parts of the code, for every input.             *)
(***************************************************************************)
EXTENDS Contracts, TLAPS

LEMMA UsersAgree == UserModel = UsersTable
  BY DEF UserModel, UsersTable, IdColumn, CreatedAt

LEMMA IncidentsAgree == IncidentModel = IncidentsTable
  BY DEF IncidentModel, IncidentsTable, IdColumn, CreatedAt, UpdatedAt

LEMMA AuditEventsAgree == AuditEventModel = AuditEventsTable
  BY DEF AuditEventModel, AuditEventsTable, IdColumn, CreatedAt

LEMMA AnalysisJobsAgree == AnalysisJobModel = AnalysisJobsTable
  BY DEF AnalysisJobModel, AnalysisJobsTable, IdColumn, CreatedAt, UpdatedAt

LEMMA AlertsAgree == AlertModel = AlertsTable \union AlertTriage \union AlertIncident
<1>1. AlertModel \subseteq AlertsTable \union AlertTriage \union AlertIncident
  BY DEF AlertModel, AlertsTable, AlertTriage, AlertIncident, IdColumn, CreatedAt, UpdatedAt
<1>2. AlertsTable \subseteq AlertModel
  BY DEF AlertModel, AlertsTable, IdColumn, CreatedAt, UpdatedAt
<1>3. AlertTriage \subseteq AlertModel
  BY DEF AlertModel, AlertTriage
<1>4. AlertIncident \subseteq AlertModel
  BY DEF AlertModel, AlertIncident
<1> QED
  BY <1>1, <1>2, <1>3, <1>4

\* All revisions applied to an empty database give the tables the models
\* declare (alembic/versions, app/db/models).
THEOREM UpgradesReachModels == Head = Metadata
  BY UsersAgree, IncidentsAgree, AuditEventsAgree, AnalysisJobsAgree, AlertsAgree
     DEF Head, Metadata, AtRevision2, AtRevision1, Base, UpgradeC4d9, Upgrade8f3b,
     Upgrade2877

-----------------------------------------------------------------------------
(* Downgrades.                                                             *)

\* The table, the kind and the name of a fact.
LEMMA PartsOfFacts ==
  /\ \A t : Key(t)[1] = t /\ Key(t)[2] = "key"
  /\ \A t, c, y : /\ Col(t, c, y)[1] = t /\ Col(t, c, y)[2] = "column"
                  /\ Col(t, c, y)[3] = c /\ Col(t, c, y)[4][1] = y
  /\ \A t, c, y, d : /\ ColWith(t, c, y, d)[1] = t
                     /\ ColWith(t, c, y, d)[2] = "column" /\ ColWith(t, c, y, d)[3] = c
  /\ \A t, c, y : /\ Opt(t, c, y)[1] = t /\ Opt(t, c, y)[2] = "column"
                  /\ Opt(t, c, y)[3] = c /\ Opt(t, c, y)[4][1] = y
  /\ \A t, c : Index(t, c)[1] = t /\ Index(t, c)[2] = "index" /\ Index(t, c)[3] = c
  /\ \A t, c : /\ UniqueIndex(t, c)[1] = t
               /\ UniqueIndex(t, c)[2] = "index" /\ UniqueIndex(t, c)[3] = c
  /\ \A t, c : Unique(t, c)[1] = t /\ Unique(t, c)[2] = "unique"
  /\ \A t, c, d : Check(t, c, d)[1] = t /\ Check(t, c, d)[2] = "check" /\ Check(t, c, d)[3] = c
  /\ \A t, c, to, d :
       /\ ForeignKey(t, c, to, d)[1] = t /\ ForeignKey(t, c, to, d)[2] = "foreign_key"
       /\ ForeignKey(t, c, to, d)[3] = c /\ ForeignKey(t, c, to, d)[4][1] = to
  BY DEF Key, Col, ColWith, Opt, Index, UniqueIndex, Unique, Check, ForeignKey

\* Which table each fact is about.
LEMMA FactsOfTables ==
  /\ \A f \in AlertsTable \union AlertTriage \union AlertIncident : f[1] = "alerts"
  /\ \A f \in UsersTable : f[1] = "users"
  /\ \A f \in IncidentsTable : f[1] = "incidents"
  /\ \A f \in AuditEventsTable : f[1] = "audit_events"
  /\ \A f \in AnalysisJobsTable : f[1] = "analysis_jobs"
<1> USE PartsOfFacts
<1>1. \A f \in AlertsTable : f[1] = "alerts"
  BY DEF AlertsTable
<1>2. \A f \in AlertTriage : f[1] = "alerts"
  BY DEF AlertTriage
<1>3. \A f \in AlertIncident : f[1] = "alerts"
  BY DEF AlertIncident
<1>4. \A f \in UsersTable : f[1] = "users"
  BY DEF UsersTable
<1>5. \A f \in IncidentsTable : f[1] = "incidents"
  BY DEF IncidentsTable
<1>6. \A f \in AuditEventsTable : f[1] = "audit_events"
  BY DEF AuditEventsTable
<1>7. \A f \in AnalysisJobsTable : f[1] = "analysis_jobs"
  BY DEF AnalysisJobsTable
<1> QED
  BY <1>1, <1>2, <1>3, <1>4, <1>5, <1>6, <1>7

\* Nothing of the first two revisions is named like the incident column.
LEMMA NothingNamedIncident ==
  \A f \in AlertsTable \union AlertTriage :
    f[2] \in {"index", "foreign_key", "column"} => f[3] # "incident_id"
<1> USE PartsOfFacts
<1>1. \A f \in AlertsTable :
        f[2] \in {"index", "foreign_key", "column"} => f[3] # "incident_id"
  BY DEF AlertsTable
<1>2. \A f \in AlertTriage :
        f[2] \in {"index", "foreign_key", "column"} => f[3] # "incident_id"
  BY DEF AlertTriage
<1> QED
  BY <1>1, <1>2

\* The incident link is what revision c4d92a7e1b63 drops by name.
LEMMA IncidentLinkNamed ==
  \A f \in AlertIncident :
    f[2] \in {"index", "foreign_key", "column"} /\ f[3] = "incident_id"
  BY PartsOfFacts DEF AlertIncident

\* What the triage revision adds is what its downgrade drops by name.
LEMMA TriageNamed ==
  /\ \A f \in AlertTriage :
       \/ f[2] = "index" /\ f[3] = "status"
       \/ f[2] = "check" /\ f[3] = "ck_alert_status"
       \/ f[2] = "column" /\ f[3] \in TriageColumns
  /\ \A f \in AlertsTable :
       /\ f[2] = "index" => f[3] # "status"
       /\ f[2] = "check" => f[3] # "ck_alert_status"
       /\ f[2] = "column" => f[3] \notin TriageColumns
<1> USE PartsOfFacts DEF TriageColumns
<1>1. \A f \in AlertTriage :
       \/ f[2] = "index" /\ f[3] = "status"
       \/ f[2] = "check" /\ f[3] = "ck_alert_status"
       \/ f[2] = "column" /\ f[3] \in TriageColumns
  BY DEF AlertTriage
<1>2. \A f \in AlertsTable :
       /\ f[2] = "index" => f[3] # "status"
       /\ f[2] = "check" => f[3] # "ck_alert_status"
       /\ f[2] = "column" => f[3] \notin TriageColumns
  BY DEF AlertsTable
<1> QED
  BY <1>1, <1>2

\* Each downgrade undoes its upgrade, and nothing else
\* (the downgrade functions under alembic/versions).
THEOREM DowngradesUndo ==
  /\ Downgrade2877(AtRevision1) = Base
  /\ Downgrade8f3b(AtRevision2) = AtRevision1
  /\ DowngradeC4d9(Head) = AtRevision2
<1> USE DEF Drop, DropTable, AtRevision1, AtRevision2, Base, Head,
            Upgrade2877, Upgrade8f3b, UpgradeC4d9
<1>1. Downgrade2877(AtRevision1) = Base
  BY FactsOfTables DEF Downgrade2877
<1>2. Downgrade8f3b(AtRevision2) = AtRevision1
  BY FactsOfTables, TriageNamed DEF Downgrade8f3b
<1>3. DowngradeC4d9(Head) = AtRevision2
  <2>1. AtRevision2 \subseteq DowngradeC4d9(Head)
    BY FactsOfTables, NothingNamedIncident DEF DowngradeC4d9, DropChildren
  <2>2. DowngradeC4d9(Head) \subseteq AtRevision2
    BY FactsOfTables, IncidentLinkNamed DEF DowngradeC4d9, DropChildren
  <2> QED
    BY <2>1, <2>2
<1> QED
  BY <1>1, <1>2, <1>3

\* The last revision drops a table only when no foreign key refers to it: its
\* downgrade never stops half way (DROP TABLE without CASCADE).
THEOREM DropsAreUnreferenced ==
  /\ ~Referenced(Head, "analysis_jobs")
  /\ ~Referenced(DropTable(Head, "analysis_jobs"), "audit_events")
  /\ ~Referenced(DropChildren(Head), "incidents")
  /\ ~Referenced(DropTable(DropChildren(Head), "incidents"), "users")
<1>1. \A f \in Head : f[2] = "foreign_key" =>
        \/ f[1] = "alerts" /\ f[3] = "incident_id" /\ f[4][1] = "incidents"
        \/ f[1] = "analysis_jobs" /\ f[4][1] = "alerts"
  <2> USE PartsOfFacts
  <2>1. \A f \in AlertsTable \union AlertTriage : f[2] # "foreign_key"
    <3>1. \A f \in AlertsTable : f[2] # "foreign_key"
      BY DEF AlertsTable
    <3>2. \A f \in AlertTriage : f[2] # "foreign_key"
      BY DEF AlertTriage
    <3> QED
      BY <3>1, <3>2
  <2>2. \A f \in AlertIncident : f[2] = "foreign_key" =>
          f[1] = "alerts" /\ f[3] = "incident_id" /\ f[4][1] = "incidents"
    BY DEF AlertIncident
  <2>3. \A f \in UsersTable \union IncidentsTable : f[2] # "foreign_key"
    <3>1. \A f \in UsersTable : f[2] # "foreign_key"
      BY DEF UsersTable
    <3>2. \A f \in IncidentsTable : f[2] # "foreign_key"
      BY DEF IncidentsTable
    <3> QED
      BY <3>1, <3>2
  <2>4. \A f \in AuditEventsTable : f[2] # "foreign_key"
    BY DEF AuditEventsTable
  <2>5. \A f \in AnalysisJobsTable : f[2] = "foreign_key" =>
          f[1] = "analysis_jobs" /\ f[4][1] = "alerts"
    BY DEF AnalysisJobsTable
  <2> QED
    BY <2>1, <2>2, <2>3, <2>4, <2>5 DEF Head, AtRevision2, AtRevision1, Base,
       UpgradeC4d9, Upgrade8f3b, Upgrade2877
<1>2. \A f \in DropChildren(Head) :
        f \in Head /\ f[1] # "analysis_jobs"
          /\ ~(f[1] = "alerts" /\ f[2] = "foreign_key" /\ f[3] = "incident_id")
  BY DEF DropChildren, Drop, DropTable
<1> QED
  BY <1>1, <1>2 DEF Referenced, DropTable

-----------------------------------------------------------------------------
(* The columns hold what the requests let through.                         *)

\* The declared width of the columns that hold a client's text.
LEMMA Widths ==
  /\ Col("alerts", "external_id", Varchar(255)) \in Head
  /\ Col("alerts", "title", Varchar(200)) \in Head
  /\ Opt("alerts", "region", Varchar(32)) \in Head
  /\ Opt("alerts", "resource", Varchar(512)) \in Head
  /\ Col("incidents", "title", Varchar(200)) \in Head
  /\ Col("incidents", "created_by", Varchar(100)) \in Head
  /\ Col("users", "username", Varchar(100)) \in Head
  /\ Col("audit_events", "actor", Varchar(100)) \in Head
  /\ Col("analysis_jobs", "requested_by", Varchar(100)) \in Head
<1>1. /\ Col("alerts", "external_id", Varchar(255)) \in AlertsTable
      /\ Col("alerts", "title", Varchar(200)) \in AlertsTable
  BY DEF AlertsTable
<1>2. /\ Opt("alerts", "region", Varchar(32)) \in AlertTriage
      /\ Opt("alerts", "resource", Varchar(512)) \in AlertTriage
  BY DEF AlertTriage
<1>3. /\ Col("incidents", "title", Varchar(200)) \in IncidentsTable
      /\ Col("incidents", "created_by", Varchar(100)) \in IncidentsTable
  BY DEF IncidentsTable
<1>4. Col("users", "username", Varchar(100)) \in UsersTable
  BY DEF UsersTable
<1>5. Col("audit_events", "actor", Varchar(100)) \in AuditEventsTable
  BY DEF AuditEventsTable
<1>6. Col("analysis_jobs", "requested_by", Varchar(100)) \in AnalysisJobsTable
  BY DEF AnalysisJobsTable
<1> QED
  BY <1>1, <1>2, <1>3, <1>4, <1>5, <1>6 DEF Head, AtRevision2, AtRevision1,
     UpgradeC4d9, Upgrade8f3b, Upgrade2877

\* A request that its schema accepts has no text that is too long for its
\* column in a migrated database: no accepted alert, incident or user fails at
\* the INSERT over it (app/schemas against alembic/versions).
THEOREM AcceptedFits ==
  /\ \A p \in Alerts : AlertCreate(p) => AlertFits(Head, p)
  /\ \A p \in [title : Texts, summary : Texts, severity : Int, alert_ids : Nat] :
       IncidentCreate(p) => Fits(Head, "incidents", "title", p.title.stripped)
  /\ \A p \in [username : Texts, password : Texts] :
       UserCreate(p) => Fits(Head, "users", "username", p.username.stripped)
<1>1. ASSUME NEW p \in Alerts, AlertCreate(p) PROVE AlertFits(Head, p)
  <2>1. /\ p.external_id.stripped <= 255 /\ p.title.stripped <= 200
        /\ \A t \in p.region : t.stripped <= 32
        /\ \A t \in p.resource : t.stripped <= 512
    BY <1>1 DEF AlertCreate, Bare
  <2> QED
    BY <2>1, Widths DEF AlertFits, Fits
<1>2. ASSUME NEW p \in [title : Texts, summary : Texts, severity : Int, alert_ids : Nat],
             IncidentCreate(p)
      PROVE  Fits(Head, "incidents", "title", p.title.stripped)
  BY <1>2, Widths DEF IncidentCreate, Bare, Fits
<1>3. ASSUME NEW p \in [username : Texts, password : Texts], UserCreate(p)
      PROVE  Fits(Head, "users", "username", p.username.stripped)
  BY <1>3, Widths DEF UserCreate, Bare, Fits
<1> QED
  BY <1>1, <1>2, <1>3

\* Every actor that a route writes down fits the three columns that name one
\* (get_current_principal, record_audit_event).
THEOREM ActorsFit == \A length \in ActorLengths : ActorFits(Head, length)
  BY Widths DEF ActorLengths, ServiceActor, ActorFits, Fits

-----------------------------------------------------------------------------
(* The normalizers.                                                        *)

\* Wazuh's sixteen levels become sixteen different severities, in the same
\* order and within what the column's constraint allows (normalize_wazuh).
THEOREM SeverityKeepsOrder ==
  /\ \A level \in 0..15 : InRange(Severity(level))
  /\ \A a, b \in 0..15 : a < b => Severity(a) < Severity(b)
  BY DEF Severity, InRange

\* The alerts that GuardDuty's schema accepts and AlertCreate refuses, which
\* the route answers with 500: no timezone, texts that whitespace makes long
\* enough, a resource that is blank or too long (normalize_guardduty).
THEOREM GuardDutyNormalizes ==
  \A f \in GuardDutyFindings : GuardDutyFinding(f) =>
    (AlertCreate(NormalizeGuardDuty(f)) <=>
       /\ f.aware
       /\ f.id.stripped >= 1
       /\ f.title.stripped >= 3 /\ f.description.stripped >= 3
       /\ f.region.stripped >= 3
       /\ \A t \in FirstString(f.found) : Bare(t, 1, 512))
  BY DEF GuardDutyFindings, GuardDutyFinding, AlertCreate, NormalizeGuardDuty, Sent,
     Bare, Texts

\* The same of Wazuh, whose optional source address makes the description: it
\* alone has no bound of its own (normalize_wazuh).
THEOREM WazuhNormalizes ==
  \A w \in WazuhAlerts : WazuhAlert(w) =>
    (AlertCreate(NormalizeWazuh(w)) <=>
       /\ w.aware
       /\ w.id.stripped >= 1 /\ w.rule.stripped >= 3 /\ w.agent.stripped >= 1
       /\ ContextLength(w) <= 10000)
<1> SUFFICES ASSUME NEW w \in WazuhAlerts, WazuhAlert(w)
             PROVE  AlertCreate(NormalizeWazuh(w)) <=>
                      /\ w.aware
                      /\ w.id.stripped >= 1 /\ w.rule.stripped >= 3
                      /\ w.agent.stripped >= 1
                      /\ ContextLength(w) <= 10000
  OBVIOUS
<1>1. InRange(Severity(w.level))
  BY SeverityKeepsOrder DEF WazuhAlerts, WazuhAlert
<1>2. ContextLength(w) >= 25 /\ ContextLength(w) \in Nat
  <2>1. CASE \E t \in w.srcip : t.raw > 0
    <3>1. (CHOOSE t \in w.srcip : TRUE) \in w.srcip
      BY <2>1
    <3>2. w.srcip \subseteq Texts
      BY DEF WazuhAlerts, Optional
    <3>3. (CHOOSE t \in w.srcip : TRUE).raw \in Nat /\ w.agent.raw \in Nat
      BY <3>1, <3>2 DEF Texts, WazuhAlerts
    <3> QED
      BY <2>1, <3>3 DEF ContextLength
  <2>2. CASE ~\E t \in w.srcip : t.raw > 0
    BY <2>2 DEF ContextLength, WazuhAlerts, Texts
  <2> QED
    BY <2>1, <2>2
<1> QED
  BY <1>1, <1>2 DEF WazuhAlerts, WazuhAlert, AlertCreate, NormalizeWazuh, Context,
     Sent, Bare, Texts

=============================================================================
