----------------------------- MODULE Monitoring -----------------------------
(***************************************************************************)
(* Who looks at many activities at once: the figures of the home page and  *)
(* of the panel (get_counts, DashboardService), the monthly report and its *)
(* export (ReportDataService, export_monthly_report, the rendering         *)
(* service), and the list of activities with its pages                     *)
(* (ActivityService.list).                                                 *)
(*                                                                         *)
(* A request makes several queries, and under READ COMMITTED each sees the *)
(* rows committed by then.  The activities change in between; how each may *)
(* is ActivityLifecycle, which Workflow implements, so a change is one     *)
(* step here.  An answer holds the rows that a query counted; the code     *)
(* keeps their number.                                                     *)
(***************************************************************************)
EXTENDS Naturals, Sequences, FiniteSets, SequencesExt

CONSTANTS
  Activities,
  Months,
  CreatedIn,   \* the month each activity is created in
  Requests,
  Tasks,       \* the kinds of request each of Requests may be
  Asked,       \* the month a request for a report asks for
  PageSize,
  Failures,    \* whether an export may fail half-way
  Apart        \* bound: exports are followed only where no activity exists

Kinds == {"rate", "desk", "promoter", "panel", "report", "export", "list"}

ASSUME ActivitiesAssumption == IsFiniteSet(Activities)
ASSUME MonthsAssumption ==
  /\ "none" \notin Months
  /\ CreatedIn \in [Activities -> Months]
ASSUME RequestsAssumption ==
  /\ Tasks \in [Requests -> SUBSET Kinds]
  /\ Asked \in [Requests -> Months]
ASSUME PageSizeAssumption == PageSize \in Nat \ {0}
ASSUME SwitchesAssumption == Failures \in BOOLEAN /\ Apart \in BOOLEAN

VARIABLES
  board,    \* activities.status, "none" before the row exists
  born,     \* the activities in the order of created_at
  handed,   \* those with a log entry to "handed"
  due,      \* those whose estimated_time has passed (noted once approved)
  job,      \* what each request does and the answers it has
  walk,     \* the list page a request is on
  cache,    \* report_data:<key>, by the export that made the key
  stored,   \* reports/<month>.pdf: the month whose data is in it
  notices   \* months whose report was announced to who asked for it

vars == <<board, born, handed, due, job, walk, cache, stored, notices>>
activities == <<board, born, handed, due>>
reports == <<cache, stored, notices>>

-----------------------------------------------------------------------------
\* For the transition matrix and the names of the statuses.
L == INSTANCE ActivityLifecycle WITH phase <- "none", trail <- <<>>

Closed == {"refused"} \cup L!Forced

Born == ToSet(born)

In(statuses) == {a \in Born : board[a] \in statuses}

\* The home page of an administrator, and of those who work on security: the officer is
\* counted what awaits filing only if she worked on it.
DeskQueries(kind) ==
  IF kind = "rate" THEN <<"total", "begun", "handed">> ELSE <<"signing", "packing">>

\* The home page of a promoter, taken to own all activities.
PromoterQueries == <<"mine", "plans">>

\* Variant: the outcomes are counted in the other order.
OutcomesClosedFirst == <<"closed", "approved", "anomalies">>

\* The counts behind the rate of compliance, and the list of what went wrong.
Outcomes == <<"approved", "closed", "anomalies">>

\* The monthly report, viewed or exported.  The grouping of plans by their audits is left
\* out.
ReportQueries == <<"total", "byStatus", "byType", "byDay">> \o Outcomes

\* The queries of a request in their order.
Queries(kind) ==
  CASE kind \in {"rate", "desk"}     -> DeskQueries(kind)
    [] kind = "promoter"             -> PromoterQueries
    [] kind = "panel"                -> <<"total", "byStatus">> \o Outcomes
    [] kind \in {"report", "export"} -> ReportQueries
    [] OTHER                         -> <<>>

\* Those that count all activities, in the order of ReportQueries.
Groupings == <<"total", "byStatus", "byType", "byDay">>

QueryNames ==
  ToSet(Groupings) \cup ToSet(Outcomes)
    \cup {"begun", "handed", "signing", "packing", "mine", "plans"}

\* The statuses that a count asks for.  For a report, what went wrong is read from the
\* implementation records: they are of the activities that were forced to an end, which
\* only another forced end changes.  The panel shows the latest ten of them.
Wanted ==
  [begun     |-> {"approved", "ongoing", "ended"},
   signing   |-> {"security"},
   packing   |-> {"filing"},
   mine      |-> L!Statuses \ L!Terminal,
   plans     |-> {"design"},
   approved  |-> {"approved"},
   closed    |-> Closed,
   anomalies |-> L!Forced]

Hits(q) ==
  CASE q \in ToSet(Groupings) -> Born
    [] q = "handed"           -> handed
    [] OTHER                  -> In(Wanted[q])

\* Two counts of one answer that share out stages between them.  Those of a promoter do
\* not: the plans are among what is hers.
Split(kind) ==
  CASE kind = "desk"     -> {"signing", "packing"}
    [] kind \in {"panel", "report", "export"} -> {"approved", "closed"}
    [] OTHER             -> {}

\* Whether the first of them is the query at that place.
IsFirst(kind, at) ==
  /\ Queries(kind)[at] \in Split(kind)
  /\ \A i \in 1..(at - 1) : Queries(kind)[i] \notin Split(kind)

\* The statuses they ask for.
Shared(kind) == UNION {Wanted[q] : q \in Split(kind)}

\* _visibility and the tab: the statuses a list shows.  The list of a promoter, which
\* is also filtered by owner, and searches are left out.
Shows ==
  [all     |-> L!Statuses,
   open    |-> L!Statuses \ L!Terminal,
   manager |-> {"security", "filing", "handed", "supplement"},
   officer |-> {"security", "filing", "supplement"},
   liaison |-> {"handed"}]

\* list_completed: counted, cut into pages and started like the other lists, what a
\* reader who worked on it is through with.
Completed ==
  [done        |-> L!Terminal,
   liaisonDone |-> L!Statuses \ Shows.liaison]

\* The page of one activity is like a list of one row.
Views == DOMAIN Shows \cup DOMAIN Completed \cup {"one"}

Shown(view) == IF view \in DOMAIN Shows THEN Shows[view] ELSE Completed[view]

\* The activities of a list, of which the newest has place 0.
Matching(view) == In(Shown(view))

Newer(a) == {b \in Born : \E i, j \in DOMAIN born : i < j /\ born[i] = a /\ born[j] = b}

\* The rows come by created_at alone: it is taken to differ, as the times of two
\* transactions do.
Place(view, a) == Cardinality(Matching(view) \cap Newer(a))

Nothing == [q \in QueryNames |-> {}]

\* at: the next query; base (history): the activities with a status in Shared when the
\* first count was made.
NoJob == [step |-> "idle", kind |-> "list", at |-> 0, got |-> Nothing,
          base |-> {}, pdf |-> "none"]

\* next: the row to look at next; walked, known, late (history): the activities shown
\* since page 1, how many there were then, and which were due when the page was read.
NoWalk == [view |-> "all", page |-> 1, total |-> 0, rows |-> <<>>, next |-> 1,
           walked |-> {}, known |-> 0, late |-> {}]

TypeOK ==
  /\ board \in [Activities -> L!Statuses \cup {"none"}]
  /\ Born = {a \in Activities : board[a] # "none"} /\ Len(born) = Cardinality(Born)
  /\ handed \subseteq Born /\ due \subseteq Born
  /\ job \in [Requests ->
       [step : {"idle", "query", "seen", "count", "read", "start", "page",
                "render", "upload", "notify"},
        kind : Kinds, at : 0..8, got : [QueryNames -> SUBSET Activities],
        base : SUBSET Activities, pdf : Months \cup {"none"}]]
  /\ \A r \in Requests :
       /\ walk[r].view \in Views
       /\ walk[r].page \in 1..(Cardinality(Activities) + 1)
       /\ walk[r].total \in 0..Cardinality(Activities)
       /\ Len(walk[r].rows) <= PageSize
       /\ walk[r].next \in 1..(PageSize + 1)
  /\ cache \in [Requests -> Months \cup {"none"}]
  /\ stored \in [Months -> Months \cup {"none"}]
  /\ notices \subseteq Months

\* What becomes of the data of an export and what becomes of the activities do not meet
\* again: with Apart, the one is explored before there is any of the other.
Quiet ==
  /\ \A r \in Requests : job[r].kind # "export" /\ cache[r] = "none"
  /\ \A m \in Months : stored[m] = "none"

Init ==
  /\ board = [a \in Activities |-> "none"]
  /\ born = <<>> /\ handed = {} /\ due = {}
  /\ job = [r \in Requests |-> NoJob]
  /\ walk = [r \in Requests |-> NoWalk]
  /\ cache = [r \in Requests |-> "none"]
  /\ stored = [m \in Months |-> "none"]
  /\ notices = {}

-----------------------------------------------------------------------------
(* The activities, as the other requests change them.                        *)

Create(a) ==
  /\ board[a] = "none"
  /\ Apart => Quiet
  /\ board' = [board EXCEPT ![a] = "design"]
  /\ born' = Append(born, a)
  /\ UNCHANGED <<handed, due, job, walk, reports>>

\* WorkflowService.transition: the status and its log entry in one commit.
Move(a, s) ==
  /\ <<board[a], s>> \in L!Matrix
  /\ board' = [board EXCEPT ![a] = s]
  /\ handed' = IF s = "handed" THEN handed \cup {a} ELSE handed
  /\ UNCHANGED <<born, due, job, walk, reports>>

\* _force_terminal, which may come late.
ForceEnd(a, s) ==
  /\ board[a] # "none"
  /\ board' = [board EXCEPT ![a] = s]
  /\ UNCHANGED <<born, handed, due, job, walk, reports>>

ComesDue(a) ==
  /\ board[a] = "approved" /\ a \notin due
  /\ due' = due \cup {a}
  /\ UNCHANGED <<board, born, handed, job, walk, reports>>

-----------------------------------------------------------------------------
(* Figures: get_counts, get_panel_data, gather.                              *)

Ask(r, kind) ==
  /\ job[r].step = "idle" /\ kind \in Tasks[r] \ {"list"}
  /\ Apart /\ kind = "export" => born = <<>>
  /\ job' = [job EXCEPT ![r] = [NoJob EXCEPT !.step = "query", !.kind = kind, !.at = 1]]
  /\ UNCHANGED <<activities, walk, reports>>

\* The rows that the queries of r range over.
Scope(r) ==
  IF job[r].kind \in {"report", "export"} THEN {a \in Activities : CreatedIn[a] = Asked[r]}
  ELSE Activities

Query(r) ==
  /\ job[r].step = "query"
  /\ LET qs == Queries(job[r].kind)
         at == job[r].at
     IN  job' = [job EXCEPT
           ![r].got[qs[at]] = Hits(qs[at]) \cap Scope(r),
           ![r].at     = @ + 1,
           ![r].step   = IF at = Len(qs) THEN "seen" ELSE "query",
           ![r].base   = IF IsFirst(job[r].kind, at)
                         THEN In(Shared(job[r].kind)) \cap Scope(r) ELSE @]
  /\ UNCHANGED <<activities, walk, reports>>

Return(r) ==
  /\ job[r].step = "seen" /\ job[r].kind # "export"
  /\ job' = [job EXCEPT ![r] = NoJob]
  /\ UNCHANGED <<activities, walk, reports>>

-----------------------------------------------------------------------------
(* The export of a report: export_monthly_report in a background task.       *)

\* Variant: one key for whatever is exported.
KeepUnderOneKey(r) ==
  /\ job[r].step = "seen" /\ job[r].kind = "export"
  /\ cache' = [q \in Requests |-> Asked[r]]
  /\ job' = [job EXCEPT ![r] = [NoJob EXCEPT !.step = "render", !.kind = "export"]]
  /\ UNCHANGED <<activities, walk, stored, notices>>

\* The data is put under a new key for the renderer to fetch.
Keep(r) ==
  /\ job[r].step = "seen" /\ job[r].kind = "export"
  /\ cache' = [cache EXCEPT ![r] = Asked[r]]
  /\ job' = [job EXCEPT ![r] = [NoJob EXCEPT !.step = "render", !.kind = "export"]]
  /\ UNCHANGED <<activities, walk, stored, notices>>

\* The key expires, or Redis loses it.
Expire(r) ==
  /\ cache[r] # "none"
  /\ cache' = [cache EXCEPT ![r] = "none"]
  /\ UNCHANGED <<activities, job, walk, stored, notices>>

\* What the report page gets for its key.
Fetched(r) == cache[r]

\* The rendering service opens the report page and prints it.
Render(r) ==
  /\ job[r].step = "render" /\ Fetched(r) # "none"
  /\ job' = [job EXCEPT ![r].step = "upload", ![r].pdf = Fetched(r)]
  /\ UNCHANGED <<activities, walk, reports>>

\* Without data the page never gets its charts and the service answers 500.
RenderFails(r) ==
  /\ job[r].step = "render" /\ Fetched(r) = "none"
  /\ job' = [job EXCEPT ![r] = NoJob]
  /\ UNCHANGED <<activities, walk, reports>>

Upload(r) ==
  /\ job[r].step = "upload"
  /\ stored' = [stored EXCEPT ![Asked[r]] = job[r].pdf]
  /\ job' = [job EXCEPT ![r].step = "notify", ![r].pdf = "none"]
  /\ UNCHANGED <<activities, walk, cache, notices>>

Notify(r) ==
  /\ job[r].step = "notify"
  /\ notices' = notices \cup {Asked[r]}
  /\ job' = [job EXCEPT ![r] = NoJob]
  /\ UNCHANGED <<activities, walk, cache, stored>>

\* Redis, the service, the store or the worker fails: the task is over, and logged.
Fail(r) ==
  /\ Failures /\ job[r].kind = "export" /\ job[r].step \in {"query", "seen", "render", "upload", "notify"}
  /\ job' = [job EXCEPT ![r] = NoJob]
  /\ UNCHANGED <<activities, walk, reports>>

-----------------------------------------------------------------------------
(* The list and its pages: ActivityService.list.                             *)

OpenList(r, view) ==
  /\ job[r].step = "idle" /\ "list" \in Tasks[r]
  /\ job' = [job EXCEPT ![r] = [NoJob EXCEPT !.step = "count"]]
  /\ walk' = [walk EXCEPT ![r] = [NoWalk EXCEPT !.view = view, !.known = Len(born)]]
  /\ UNCHANGED <<activities, reports>>

\* get_activity: whoever sees the activity in a list, or once worked on it.
OpenOne(r, a) ==
  /\ job[r].step = "idle" /\ "list" \in Tasks[r]
  /\ a \in Born
  /\ job' = [job EXCEPT ![r] = [NoJob EXCEPT !.step = "start"]]
  /\ walk' = [walk EXCEPT ![r] = [NoWalk EXCEPT !.view = "one", !.late = due,
                                   !.rows = <<[id |-> a, status |-> board[a]]>>]]
  /\ UNCHANGED <<activities, reports>>

CountRows(r) ==
  /\ job[r].step = "count"
  /\ walk' = [walk EXCEPT ![r].total = Cardinality(Matching(walk[r].view))]
  /\ job' = [job EXCEPT ![r].step = "read"]
  /\ UNCHANGED <<activities, reports>>

\* Page n by ORDER BY, OFFSET and LIMIT; there is one.
Pages(view, n) ==
  LET skip == (n - 1) * PageSize
  IN  {page \in BoundedSeq(Matching(view), PageSize) :
         /\ \A i \in DOMAIN page : Place(view, page[i]) = skip + i - 1
         /\ \A a \in Matching(view) :
              Place(view, a) \in skip..(skip + PageSize - 1) => a \in ToSet(page)}

ReadPage(r) ==
  /\ job[r].step = "read"
  /\ \E page \in Pages(walk[r].view, walk[r].page) :
       walk' = [walk EXCEPT
         ![r].rows = [i \in DOMAIN page |-> [id |-> page[i], status |-> board[page[i]]]],
         ![r].next = 1, ![r].late = due]
  /\ job' = [job EXCEPT ![r].step = "start"]
  /\ UNCHANGED <<activities, reports>>

\* The row that _auto_start_if_due is called for.
Row(r) == walk[r].rows[walk[r].next]

HasRow(r) == job[r].step = "start" /\ walk[r].next <= Len(walk[r].rows)

IsLate(row) == row.status = "approved" /\ row.id \in due

Pass(r) ==
  /\ HasRow(r) /\ ~IsLate(Row(r))
  /\ walk' = [walk EXCEPT ![r].next = @ + 1]
  /\ UNCHANGED <<activities, job, reports>>

\* transition: UPDATE ... WHERE status = approved, which also corrects the row read.
Start(r) ==
  /\ HasRow(r) /\ IsLate(Row(r)) /\ board[Row(r).id] = "approved"
  /\ board' = [board EXCEPT ![Row(r).id] = "ongoing"]
  /\ walk' = [walk EXCEPT ![r].rows[walk[r].next].status = "ongoing", ![r].next = @ + 1]
  /\ UNCHANGED <<born, handed, due, job, reports>>

\* Variant: a list goes on when the activity was changed by another request.
StartIgnored(r) ==
  /\ HasRow(r) /\ IsLate(Row(r)) /\ board[Row(r).id] # "approved"
  /\ walk' = [walk EXCEPT ![r].next = @ + 1]
  /\ UNCHANGED <<activities, job, reports>>

\* No row was updated: transition raises, and the whole list fails.
StartFails(r) ==
  /\ HasRow(r) /\ IsLate(Row(r)) /\ board[Row(r).id] # "approved"
  /\ job' = [job EXCEPT ![r] = NoJob]
  /\ walk' = [walk EXCEPT ![r] = NoWalk]
  /\ UNCHANGED <<activities, reports>>

ShowPage(r) ==
  /\ job[r].step = "start" /\ ~HasRow(r)
  /\ job' = [job EXCEPT ![r].step = "page"]
  /\ walk' = [walk EXCEPT ![r].walked = @ \cup {row.id : row \in ToSet(walk[r].rows)}]
  /\ UNCHANGED <<activities, reports>>

OnLastPage(r) == walk[r].page * PageSize >= walk[r].total

\* Variant: one page more than there are.
TurnAnyPage(r) ==
  /\ job[r].step = "page" /\ walk[r].view # "one"
  /\ walk[r].page <= Cardinality(Activities) + 1
  /\ walk' = [walk EXCEPT ![r].page = @ + 1, ![r].rows = <<>>, ![r].next = 1, ![r].late = {}]
  /\ job' = [job EXCEPT ![r].step = "count"]
  /\ UNCHANGED <<activities, reports>>

\* The reader goes on to the next page, if the total says there is one, or leaves.
TurnPage(r) ==
  /\ job[r].step = "page" /\ ~OnLastPage(r)
  /\ walk' = [walk EXCEPT ![r].page = @ + 1, ![r].rows = <<>>, ![r].next = 1, ![r].late = {}]
  /\ job' = [job EXCEPT ![r].step = "count"]
  /\ UNCHANGED <<activities, reports>>

Leave(r) ==
  /\ job[r].step = "page"
  /\ job' = [job EXCEPT ![r] = NoJob]
  /\ walk' = [walk EXCEPT ![r] = NoWalk]
  /\ UNCHANGED <<activities, reports>>

-----------------------------------------------------------------------------
Change(a) ==
  \/ Create(a) \/ ComesDue(a)
  \/ \E s \in L!Statuses : Move(a, s)
  \/ \E s \in L!Forced : ForceEnd(a, s)

Figures(r) == (\E kind \in Kinds : Ask(r, kind)) \/ Query(r) \/ Return(r)

Export(r) ==
  \/ Keep(r) \/ Render(r) \/ RenderFails(r) \/ Upload(r) \/ Notify(r)
  \/ Fail(r) \/ Expire(r)

List(r) ==
  \/ \E view \in Views \ {"one"} : OpenList(r, view)
  \/ \E a \in Activities : OpenOne(r, a)
  \/ CountRows(r) \/ ReadPage(r) \/ Pass(r) \/ Start(r) \/ StartFails(r)
  \/ ShowPage(r) \/ TurnPage(r) \/ Leave(r)

Next ==
  \/ \E a \in Activities : Change(a)
  \/ \E r \in Requests : Figures(r) \/ Export(r) \/ List(r)

Spec == Init /\ [][Next]_vars

-----------------------------------------------------------------------------
(* Properties. *)

\* The rate of approval is a share, the approved activities being counted before those
\* ever handed over.
RateIsAShare(got) == got["begun"] \subseteq got["handed"]

\* A grouping made later adds up to no less.
GroupingsGrow(r) ==
  LET qs == Queries(job[r].kind)
  IN  \A i, j \in DOMAIN qs :
        i < j /\ {qs[i], qs[j]} \subseteq ToSet(Groupings) =>
          Cardinality(job[r].got[qs[i]]) <= Cardinality(job[r].got[qs[j]])

\* An activity that has a status asked for both when the first of two counts is made and
\* after the second is counted: they follow the order in which it may take the statuses.
NothingSlips(r) ==
  \A a \in job[r].base :
    board[a] \in Shared(job[r].kind) => \E q \in Split(job[r].kind) : a \in job[r].got[q]

\* What somebody is shown agrees with itself although the activities changed between the
\* queries.
FiguresAgree ==
  \A r \in Requests :
    job[r].step = "seen" =>
      RateIsAShare(job[r].got) /\ GroupingsGrow(r) /\ NothingSlips(r)

\* Turning all pages of the full list shows every activity, whatever changes of status
\* happen meanwhile, if none is created.
FullListIsComplete(r) ==
  walk[r].view = "all" /\ OnLastPage(r) /\ walk[r].known = Len(born)
    => Born \subseteq walk[r].walked

\* No list shows an activity as waiting to begin that was due when the list was read.
DueAreShownStarted(r) ==
  \A row \in ToSet(walk[r].rows) : row.status = "approved" => row.id \notin walk[r].late

ListsAreRight ==
  \A r \in Requests : job[r].step = "page" => FullListIsComplete(r) /\ DueAreShownStarted(r)

\* A report is there when its requester is told so, and holds the data of its month, also
\* when several are exported at the same time and their data wait in the cache.
ReportsAreTheirMonths ==
  \A m \in Months : stored[m] \in {m, "none"} /\ (m \in notices => stored[m] = m)
=============================================================================
