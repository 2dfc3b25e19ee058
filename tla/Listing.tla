------------------------------- MODULE Listing -------------------------------
(***************************************************************************)
(* What a client sees of the case workflow through two of its lists:       *)
(* GET /alerts page by page and GET /incidents                             *)
(* (app/repositories/alerts.py, app/repositories/incidents.py and their    *)
(* routes).  The third, GET /audit-events, is AuditFeed.                   *)
(*                                                                         *)
(* PostgreSQL gives every statement a snapshot of its own under READ       *)
(* COMMITTED, so a list made of several statements, or of several          *)
(* requests, mixes states between which others commit.  Each action of the *)
(* reader is one statement; the workflow goes on between them.             *)
(***************************************************************************)
EXTENDS CaseWorkflow, FiniteSets

CONSTANTS
  Rank,        \* place of an alert in ORDER BY occurred_at DESC, id
  Filters,     \* the status filters clients use, each a set of statuses
  PageLimit    \* the limit a client of GET /alerts asks for

ASSUME ListConstants ==
  /\ IsFiniteSet(AlertIds)
  /\ Rank \in [AlertIds -> Nat]
  /\ \A a, b \in AlertIds : Rank[a] = Rank[b] => a = b
  /\ Filters \subseteq SUBSET AlertStatus
  /\ PageLimit \in Nat \ {0}

VARIABLE
  reader   \* the client that reads one of the lists, and what it has seen

listVars == <<vars, reader>>

MatchingIn(st, f) == {a \in AlertIds : st[a] \in f}
Matching(f) == MatchingIn(status, f)

\* The client of each list.  `disturbed` is history: see Disturbs.
Pager(f) == [list |-> "alerts", pc |-> "count", filter |-> f, offset |-> 0,
             total |-> 0, start |-> {}, got |-> {}, disturbed |-> FALSE]
Lister == [list |-> "incidents", pc |-> "list", todo |-> {}, start |-> {},
           shown |-> {}]

PagerRecord ==
  [list : {"alerts"}, pc : {"count", "page", "done"}, filter : Filters,
   offset : Nat, total : 0..Cardinality(AlertIds),
   start : SUBSET AlertIds, got : SUBSET AlertIds, disturbed : BOOLEAN]
ListerRecord ==
  [list : {"incidents"}, pc : {"list", "fill"}, todo : SUBSET IncidentIds,
   start : SUBSET AlertIds, shown : SUBSET (AlertIds \X IncidentIds)]

ListInit ==
  /\ Init
  /\ reader \in {Pager(f) : f \in Filters} \union {Lister}

-----------------------------------------------------------------------------
(* GET /alerts: the client asks for the next page until it has the total.  *)

\* Wrong: the total of the page.
TotalOfPage(f) ==
  LET left == Cardinality(Matching(f)) - reader.offset
  IN  reader.offset + IF left > PageLimit THEN PageLimit ELSE left

\* SELECT count(*) with the filters.
Total(f) == Cardinality(Matching(f))

\* The place of an alert in the list, counted from 0.
Place(f, a) == Cardinality({b \in Matching(f) : Rank[b] < Rank[a]})

\* The statement with ORDER BY, LIMIT and OFFSET.
PageOf(f, offset) ==
  {a \in Matching(f) : Place(f, a) \in offset .. (offset + PageLimit - 1)}

CountAlerts ==
  /\ reader.list = "alerts" /\ reader.pc = "count"
  /\ reader' = [reader EXCEPT
       !.pc = "page", !.total = Total(reader.filter),
       !.start = IF reader.offset = 0 THEN Matching(reader.filter) ELSE @]
  /\ UNCHANGED vars

\* Wrong: a page more than there are.
PagesLeftOneMore(next) == next <= reader.total

\* What the client makes of AlertList's total, limit and offset.
PagesLeft(next) == next < reader.total

\* The page; AlertList tells the client the total it was counted with.
ReadPage ==
  LET next == reader.offset + PageLimit IN
  /\ reader.list = "alerts" /\ reader.pc = "page"
  /\ reader' = [reader EXCEPT
       !.got = @ \union PageOf(reader.filter, reader.offset),
       !.pc = IF PagesLeft(next) THEN "count" ELSE "done",
       !.offset = IF PagesLeft(next) THEN next ELSE @]
  /\ UNCHANGED vars

\* A commit that takes an alert out of the list, or changes the list between
\* the two statements of one request.
Disturbs(f, st) ==
  \/ ~(Matching(f) \subseteq MatchingIn(st, f))
  \/ reader.pc = "page" /\ MatchingIn(st, f) # Matching(f)

-----------------------------------------------------------------------------
(* GET /incidents: one statement for the list, one for each incident in it.*)

ListIncidents ==
  /\ reader.list = "incidents" /\ reader.pc = "list"
  /\ reader' = [reader EXCEPT !.pc = "fill",
                  !.todo = {i \in IncidentIds : Exists(i)},
                  !.start = {a \in AlertIds : link[a] # NoIncident}]
  /\ UNCHANGED vars

\* Wrong: the condition on the incident is lost.
AlertIdsOfAny(i) == {a \in AlertIds : link[a] # NoIncident}

\* get_incident_alert_ids.
AlertIdsOf(i) == {a \in AlertIds : link[a] = i}

\* _incident_response; newest first is one of the orders.
FillIncident(i) ==
  /\ reader.list = "incidents" /\ reader.pc = "fill"
  /\ i \in reader.todo
  /\ reader' = [reader EXCEPT !.todo = @ \ {i},
                              !.shown = @ \union (AlertIdsOf(i) \X {i})]
  /\ UNCHANGED vars

-----------------------------------------------------------------------------
\* A step of the workflow, and whether it disturbs a walk through the pages.
Work ==
  /\ Next
  /\ reader' = IF reader.list = "alerts" /\ reader.pc # "done"
                   /\ Disturbs(reader.filter, status')
               THEN [reader EXCEPT !.disturbed = TRUE] ELSE reader

ListNext ==
  \/ Work
  \/ CountAlerts \/ ReadPage
  \/ ListIncidents \/ \E i \in IncidentIds : FillIncident(i)

ListSpec == ListInit /\ [][ListNext]_listVars

-----------------------------------------------------------------------------
(* Properties.                                                             *)

\* Every variable keeps its type, and no client asks for a page that starts
\* after the total it was told.
ListTypeOK ==
  /\ reader \in PagerRecord \union ListerRecord
  /\ reader.list = "alerts" /\ reader.pc = "count" /\ reader.offset # 0 =>
       reader.offset \in 1..(reader.total - 1)

\* A client that walks the pages sees every alert that was in the list when
\* it began, whatever is inserted meanwhile, unless an alert left the list or
\* a commit fell between the count and the page of one request: alerts move
\* to later pages only, and the last total covers them (list_alerts).
PagesMissNothingUndisturbed ==
  reader.list = "alerts" /\ reader.pc = "done" /\ ~reader.disturbed
    => reader.start \subseteq reader.got

\* Incidents whose creation named an alert.
Naming(a) == {n \in DOMAIN audit : a \in audit[n].alerts}

\* A complete listing shows an alert that was grouped when it began under
\* exactly one incident, unless two creations named it (get_incidents reads
\* the alerts of each incident in a statement of its own).
ListingShowsGroupedOnce ==
  reader.list = "incidents" /\ reader.pc = "fill" /\ reader.todo = {} =>
    \A a \in reader.start :
      Cardinality(Naming(a)) = 1
        => Cardinality({i \in IncidentIds : <<a, i>> \in reader.shown}) = 1

-----------------------------------------------------------------------------
(* The inductive invariant behind these, in parts.                         *)

\* An alert that was there when an undisturbed walk began is on a page the
\* client has, or still ahead of it, whatever was inserted.
WalkOnTrack ==
  reader.list = "alerts" /\ reader.pc # "done" /\ ~reader.disturbed =>
    /\ reader.start \subseteq Matching(reader.filter)
    /\ \A a \in reader.start \ reader.got : Place(reader.filter, a) >= reader.offset
    /\ reader.pc = "page" => reader.total = Cardinality(Matching(reader.filter))

LinksLeadToIncidents ==
  \A a \in AlertIds : link[a] # NoIncident => Exists(link[a])

\* A listing on its way shows an alert that one creation has named under its
\* incident once it has come to it, and nowhere else.
ShownWhereLinked ==
  reader.list = "incidents" =>
    /\ reader.pc = "list" => reader.shown = {}
    /\ reader.pc = "fill" =>
         \A a \in reader.start :
           /\ link[a] # NoIncident
           /\ Cardinality(Naming(a)) = 1 =>
                \A i \in IncidentIds :
                  <<a, i>> \in reader.shown <=> link[a] = i /\ i \notin reader.todo

\* The invariant: the parts above and the properties they carry.
ListIInv ==
  /\ ListTypeOK
  /\ WalkOnTrack /\ PagesMissNothingUndisturbed
  /\ LinksLeadToIncidents /\ ShownWhereLinked

=============================================================================
