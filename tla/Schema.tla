------------------------------- MODULE Schema -------------------------------
(***************************************************************************)
(* The database schema, twice: as the revisions under alembic/versions     *)
(* build it and as the models under app/db/models declare it.              *)
(*                                                                         *)
(* A schema is a set of facts <<table, kind, name, definition>>.  A name   *)
(* that Alembic and SQLAlchemy derive from columns is the columns; so is   *)
(* that of incident_id's foreign key, which only its revision gives.  What *)
(* only Python does (default=, onupdate=) is not in the database.          *)
(***************************************************************************)
EXTENDS Integers

Uuid       == <<"uuid", 0>>
Varchar(n) == <<"varchar", n>>
Text       == <<"text", 0>>
Float      == <<"float", 0>>
Time       == <<"timestamptz", 0>>
Json       == <<"json", 0>>

\* Columns: NOT NULL, NOT NULL with a server default, nullable.
Col(t, c, type)        == <<t, "column", c, <<type, "not_null", "">>>>
ColWith(t, c, type, d) == <<t, "column", c, <<type, "not_null", d>>>>
Opt(t, c, type)        == <<t, "column", c, <<type, "null", "">>>>

Key(t)           == <<t, "key", "id", <<>>>>
Index(t, c)      == <<t, "index", c, <<>>>>
UniqueIndex(t, c) == <<t, "index", c, <<"unique">>>>
Unique(t, cs)    == <<t, "unique", cs, <<>>>>
Check(t, c, cond) == <<t, "check", c, <<cond>>>>
ForeignKey(t, c, to, onDelete) == <<t, "foreign_key", c, <<to, onDelete>>>>

Drop(S, t, kind, c) == {f \in S : f[1] # t \/ f[2] # kind \/ f[3] # c}
DropTable(S, t)     == {f \in S : f[1] # t}

Range0To10     == "severity >= 0 AND severity <= 10"
InAlertStatus  == "status IN ('new', 'investigating', 'resolved', 'dismissed')"
InIncStatus    == "status IN ('open', 'contained', 'closed')"
InJobStatus    == "status IN ('queued', 'running', 'completed', 'failed')"
InRole         == "role IN ('analyst', 'admin')"

-----------------------------------------------------------------------------
(* Revision 2877413763ff.                                                  *)

AlertsTable ==
  { Key("alerts"), Col("alerts", "id", Uuid),
    Col("alerts", "source", Varchar(50)), Col("alerts", "external_id", Varchar(255)),
    Col("alerts", "title", Varchar(200)), Col("alerts", "description", Text),
    Col("alerts", "severity", Float), Col("alerts", "occurred_at", Time),
    ColWith("alerts", "created_at", Time, "now"),
    ColWith("alerts", "updated_at", Time, "now"),
    Check("alerts", "ck_alert_severity_range", Range0To10),
    Unique("alerts", "source_and_external_id"), Index("alerts", "occurred_at") }

Upgrade2877(S)   == S \union AlertsTable
Downgrade2877(S) == DropTable(Drop(S, "alerts", "index", "occurred_at"), "alerts")

-----------------------------------------------------------------------------
(* Revision 8f3b1c9a2d40.                                                  *)

AlertTriage ==
  { ColWith("alerts", "status", Varchar(20), "new"),
    Opt("alerts", "account_id", Varchar(12)), Opt("alerts", "region", Varchar(32)),
    Opt("alerts", "resource", Varchar(512)), Opt("alerts", "ai_summary", Text),
    Opt("alerts", "recommended_action", Text), Opt("alerts", "analyzed_at", Time),
    Check("alerts", "ck_alert_status", InAlertStatus), Index("alerts", "status") }

Upgrade8f3b(S) == S \union AlertTriage

TriageColumns == {"status", "account_id", "region", "resource", "ai_summary",
                  "recommended_action", "analyzed_at"}

Downgrade8f3b(S) ==
  LET bare == Drop(Drop(S, "alerts", "index", "status"),
                   "alerts", "check", "ck_alert_status")
  IN  {f \in bare : f[1] # "alerts" \/ f[2] # "column" \/ f[3] \notin TriageColumns}

-----------------------------------------------------------------------------
(* Revision c4d92a7e1b63.                                                  *)

UsersTable ==
  { Key("users"), Col("users", "id", Uuid), Col("users", "username", Varchar(100)),
    Col("users", "password_hash", Varchar(255)),
    ColWith("users", "role", Varchar(20), "analyst"),
    ColWith("users", "created_at", Time, "now"),
    Check("users", "ck_user_role", InRole), UniqueIndex("users", "username") }

IncidentsTable ==
  { Key("incidents"), Col("incidents", "id", Uuid),
    Col("incidents", "title", Varchar(200)), Col("incidents", "summary", Text),
    Col("incidents", "severity", Float),
    ColWith("incidents", "status", Varchar(20), "open"),
    Col("incidents", "created_by", Varchar(100)),
    ColWith("incidents", "created_at", Time, "now"),
    ColWith("incidents", "updated_at", Time, "now"),
    Check("incidents", "ck_incident_severity_range", Range0To10),
    Check("incidents", "ck_incident_status", InIncStatus),
    Index("incidents", "status") }

AlertIncident ==
  { Opt("alerts", "incident_id", Uuid),
    ForeignKey("alerts", "incident_id", "incidents", "SET_NULL"),
    Index("alerts", "incident_id") }

AuditEventsTable ==
  { Key("audit_events"), Col("audit_events", "id", Uuid),
    Col("audit_events", "actor", Varchar(100)),
    Col("audit_events", "action", Varchar(100)),
    Col("audit_events", "resource_type", Varchar(50)),
    Col("audit_events", "resource_id", Uuid), Col("audit_events", "details", Json),
    ColWith("audit_events", "created_at", Time, "now"),
    Index("audit_events", "created_at") }

AnalysisJobsTable ==
  { Key("analysis_jobs"), Col("analysis_jobs", "id", Uuid),
    Col("analysis_jobs", "alert_id", Uuid),
    Col("analysis_jobs", "requested_by", Varchar(100)),
    ColWith("analysis_jobs", "status", Varchar(20), "queued"),
    Opt("analysis_jobs", "error", Text),
    ColWith("analysis_jobs", "created_at", Time, "now"),
    ColWith("analysis_jobs", "updated_at", Time, "now"),
    Check("analysis_jobs", "ck_analysis_job_status", InJobStatus),
    ForeignKey("analysis_jobs", "alert_id", "alerts", "CASCADE"),
    Index("analysis_jobs", "alert_id") }

UpgradeC4d9(S) ==
  S \union UsersTable \union IncidentsTable \union AlertIncident
    \union AuditEventsTable \union AnalysisJobsTable

\* DROP TABLE is refused while another table refers to the table.
Referenced(S, t) ==
  \E f \in S : f[1] # t /\ f[2] = "foreign_key" /\ f[4][1] = t

\* The first half takes away the children, the second the parents.
DropChildren(S) ==
  LET rest == DropTable(DropTable(S, "analysis_jobs"), "audit_events")
  IN  Drop(Drop(Drop(rest, "alerts", "index", "incident_id"),
                "alerts", "foreign_key", "incident_id"),
           "alerts", "column", "incident_id")

DowngradeC4d9(S) == DropTable(DropTable(DropChildren(S), "incidents"), "users")

Base == {}
AtRevision1 == Upgrade2877(Base)
AtRevision2 == Upgrade8f3b(AtRevision1)
Head == UpgradeC4d9(AtRevision2)

-----------------------------------------------------------------------------
(* The models (Base.metadata).                                             *)

\* Columns several models declare alike.
IdColumn(t)     == {Key(t), Col(t, "id", Uuid)}
CreatedAt(t)    == {ColWith(t, "created_at", Time, "now")}
UpdatedAt(t)    == {ColWith(t, "updated_at", Time, "now")}

AlertModel == IdColumn("alerts") \union CreatedAt("alerts") \union UpdatedAt("alerts") \union
  { Opt("alerts", "incident_id", Uuid), Index("alerts", "incident_id"),
    ForeignKey("alerts", "incident_id", "incidents", "SET_NULL"),
    Unique("alerts", "source_and_external_id"),
    Check("alerts", "ck_alert_severity_range", Range0To10),
    Check("alerts", "ck_alert_status", InAlertStatus),
    Col("alerts", "source", Varchar(50)), Col("alerts", "external_id", Varchar(255)),
    Col("alerts", "title", Varchar(200)), Col("alerts", "description", Text),
    Col("alerts", "severity", Float),
    ColWith("alerts", "status", Varchar(20), "new"), Index("alerts", "status"),
    Opt("alerts", "account_id", Varchar(12)), Opt("alerts", "region", Varchar(32)),
    Opt("alerts", "resource", Varchar(512)),
    Col("alerts", "occurred_at", Time), Index("alerts", "occurred_at"),
    Opt("alerts", "ai_summary", Text), Opt("alerts", "recommended_action", Text),
    Opt("alerts", "analyzed_at", Time) }

AnalysisJobModel ==
  IdColumn("analysis_jobs") \union CreatedAt("analysis_jobs") \union UpdatedAt("analysis_jobs") \union
  { Check("analysis_jobs", "ck_analysis_job_status", InJobStatus),
    Col("analysis_jobs", "alert_id", Uuid), Index("analysis_jobs", "alert_id"),
    ForeignKey("analysis_jobs", "alert_id", "alerts", "CASCADE"),
    Col("analysis_jobs", "requested_by", Varchar(100)),
    ColWith("analysis_jobs", "status", Varchar(20), "queued"),
    Opt("analysis_jobs", "error", Text) }

AuditEventModel == IdColumn("audit_events") \union CreatedAt("audit_events") \union
  { Col("audit_events", "actor", Varchar(100)), Col("audit_events", "action", Varchar(100)),
    Col("audit_events", "resource_type", Varchar(50)),
    Col("audit_events", "resource_id", Uuid), Col("audit_events", "details", Json),
    Index("audit_events", "created_at") }

IncidentModel ==
  IdColumn("incidents") \union CreatedAt("incidents") \union UpdatedAt("incidents") \union
  { Check("incidents", "ck_incident_status", InIncStatus),
    Check("incidents", "ck_incident_severity_range", Range0To10),
    Col("incidents", "title", Varchar(200)), Col("incidents", "summary", Text),
    Col("incidents", "severity", Float),
    ColWith("incidents", "status", Varchar(20), "open"), Index("incidents", "status"),
    Col("incidents", "created_by", Varchar(100)) }

UserModel == IdColumn("users") \union CreatedAt("users") \union
  { Check("users", "ck_user_role", InRole), Col("users", "username", Varchar(100)),
    UniqueIndex("users", "username"), Col("users", "password_hash", Varchar(255)),
    ColWith("users", "role", Varchar(20), "analyst") }

Metadata == AlertModel \union AnalysisJobModel \union AuditEventModel
              \union IncidentModel \union UserModel
=============================================================================
