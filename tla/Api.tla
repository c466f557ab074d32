-------------------------------- MODULE Api --------------------------------
(***************************************************************************)
(* The reading side of the HTTP API (server/orchestrator.go, store,        *)
(* report): listing sessions page by page, the detail of a session and its *)
(* report.  Every database query is a step of its own, outside of any      *)
(* transaction, while sessions are created and moved, the timeline is      *)
(* written behind the moves, and agents and operators change fix actions   *)
(* and approvals.  The sessions themselves live as Lifecycle says.  One    *)
(* client is enough: requests only read, so clients do not see each other. *)
(***************************************************************************)
EXTENDS Lifecycle, Sequences, SequencesExt, FiniteSets

CONSTANTS
    TargetService,  \* TargetService[s]: the immutable column of session s
    Filters,        \* bound: [status, target] filters that the client uses
    PageSize,       \* the page size that the client asks for
    DefaultPageSize,\* the page size without one (20 in the code)
    MaxPages,       \* bound: pages of a client whose parameters are ignored
    MaxChanges,     \* bound: changes of rows by others
    MaxFaults       \* bound: failing queries

ASSUME ApiAssumption ==
    /\ PageSize \in Nat \ {0} /\ DefaultPageSize \in Nat \ {0}
    /\ MaxPages \in Nat /\ MaxChanges \in Nat /\ MaxFaults \in Nat

VARIABLES
    order,      \* inserted sessions in the order of created_at
    rows,       \* rows[s]: execution_status of the fix actions of s, by seq
    approvals,  \* approvals[s]: status of the approval records of s
    unlogged,   \* unlogged[s]: committed moves without a timeline entry yet
    timeline,   \* timeline[s]: statuses that session_events reports
    changes,    \* number of changes so far
    faults,     \* number of failed queries so far
    pc,         \* position of the request in work
    op,         \* what is asked for
    spelling,   \* how the client of a listing names its parameters
    filter, page, total, items,  \* the listing: its filter, page, answer
    base, seen, \* history: sessions there at the first page; sessions shown
    sid, view   \* the document: its session and what has been read of it

world  == <<status, order, rows, approvals, unlogged, timeline, changes>>
list   == <<spelling, filter, page, total, items, base, seen>>
doc    == <<sid, view>>
apiVars == <<world, faults, pc, op, list, doc>>

Blank == [status |-> "NONE", rows |-> <<>>, approvals |-> <<>>, events |-> {},
          failed |-> {}, known |-> [rows |-> <<>>, events |-> {}], code |-> 0,
          type |-> "json"]

ApiInit ==
    /\ Init
    /\ order \in {q \in BoundedSeq(Sessions, Cardinality(Sessions)) :
                     IsInjective(q) /\ ToSet(q) = {s \in Sessions : status[s] # "NONE"}}
    /\ rows = [s \in Sessions |-> <<>>] /\ approvals = [s \in Sessions |-> <<>>]
    /\ unlogged = [s \in Sessions |-> {}] /\ timeline = [s \in Sessions |-> {}]
    /\ changes = 0 /\ faults = 0
    /\ pc = "idle" /\ op = "none"
    /\ spelling = "field" /\ filter = CHOOSE f \in Filters : TRUE
    /\ page = 0 /\ total = 0 /\ items = <<>> /\ base = {} /\ seen = {}
    /\ sid = (CHOOSE s \in Sessions : TRUE) /\ view = Blank

-----------------------------------------------------------------------------
(* The protobuf status (orchestrator.pb.go) and its two conversions. *)

StatusToProto ==
    [CREATED |-> 1, COLLECTING |-> 2, ANALYZING |-> 3, RCA_DONE |-> 4,
     FIX_PROPOSED |-> 5, AWAITING_APPROVAL |-> 6, FIX_EXECUTING |-> 7,
     VERIFYING |-> 8, RESOLVED |-> 9, ROLLED_BACK |-> 10, FIX_SUGGESTED |-> 11,
     REJECTED |-> 12, FAILED |-> 13, IGNORED |-> 14]

\* UNSPECIFIED (0) becomes the empty string, which is no filter.
StatusProtoToString(p) ==
    IF p \in 1..14
    THEN << "CREATED", "COLLECTING", "ANALYZING", "RCA_DONE", "FIX_PROPOSED",
            "AWAITING_APPROVAL", "FIX_EXECUTING", "VERIFYING", "RESOLVED",
            "ROLLED_BACK", "FIX_SUGGESTED", "REJECTED", "FAILED", "IGNORED" >>[p]
    ELSE ""

-----------------------------------------------------------------------------
(* Other actors. *)

Others == changes < MaxChanges /\ changes' = changes + 1

\* POST /v1/sessions.  created_at is read before the insert, so a row may
\* appear behind one that was inserted earlier.
PostSession(s) ==
    /\ Others /\ CreateSession(s)
    /\ \E i \in 1..Len(order) + 1 : order' = InsertAt(order, i, s)
    /\ UNCHANGED <<rows, approvals, unlogged, timeline, faults, pc, op, list, doc>>

\* Engine.Transition commits a move; its timeline entry is written later.
Transition(s) ==
    /\ Others /\ Apply(s)
    /\ unlogged' = [unlogged EXCEPT ![s] = @ \cup {status'[s]}]
    /\ UNCHANGED <<order, rows, approvals, timeline, faults, pc, op, list, doc>>

\* SessionEventDAO.LogStateTransition; an error is only logged.
LogStateTransition(s) ==
    \E m \in unlogged[s] :
        /\ unlogged' = [unlogged EXCEPT ![s] = @ \ {m}]
        /\ \/ timeline' = [timeline EXCEPT ![s] = @ \cup {m}]
           \/ UNCHANGED timeline
        /\ UNCHANGED <<status, order, rows, approvals, changes, faults, pc, op, list, doc>>

\* ExecuteFixActions takes an action that is NOT_STARTED and marks it RUNNING
\* and then SUCCEEDED or FAILED; each of the two writes may fail.
Progress == [NOT_STARTED |-> 0, RUNNING |-> 1, SUCCEEDED |-> 2, FAILED |-> 2]

\* FixActionDAO.Create and UpdateExecutionStatus: RUNNING, unless that write
\* fails, then the result.
ChangeFixAction(s) ==
    /\ Others /\ status[s] # "NONE"
    /\ \/ /\ rows[s] = <<>>
          /\ rows' = [rows EXCEPT ![s] = Append(@, "NOT_STARTED")]
       \/ \E i \in DOMAIN rows[s], x \in {"RUNNING", "SUCCEEDED", "FAILED"} :
             /\ Progress[rows[s][i]] < Progress[x]
             /\ rows' = [rows EXCEPT ![s][i] = x]
    /\ UNCHANGED <<status, order, approvals, unlogged, timeline, faults, pc, op, list, doc>>

\* ApprovalDAO.Create and UpdateDecision.
ChangeApproval(s) ==
    /\ Others /\ rows[s] # <<>>
    /\ \/ /\ approvals[s] = <<>>
          /\ approvals' = [approvals EXCEPT ![s] = Append(@, "PENDING")]
       \/ \E i \in DOMAIN approvals[s], x \in {"APPROVED", "REJECTED"} :
             /\ approvals[s][i] # x
             /\ approvals' = [approvals EXCEPT ![s][i] = x]
    /\ UNCHANGED <<status, order, rows, unlogged, timeline, faults, pc, op, list, doc>>

-----------------------------------------------------------------------------
(* GET /v1/sessions *)

\* The WHERE clause: the status asked for, and conditions on columns that
\* never change (target service, creation time, keyword).
Matches(s, f) ==
    /\ StatusProtoToString(f.status) \in {"", status[s]}
    /\ f.target \in {"", TargetService[s]}

\* What arrives of the client's parameters.  gin binds a query parameter to a
\* field without form tag by the name of the field ("Page", "PageSize"): the
\* documented names are ignored, and absent values mean their defaults.
ShouldBindQuery ==
    IF spelling = "field"
    THEN [filter |-> filter, page |-> page, size |-> PageSize]
    ELSE [filter |-> [status |-> 0, target |-> ""], page |-> 0, size |-> DefaultPageSize]

\* Mutant: the first page has number 0.
BugOffset(p, size) == p * size

\* Absent and negative page numbers mean the first page.
Offset(p, size) == (IF p < 1 THEN 0 ELSE p - 1) * size

\* The positions in order of the rows that the WHERE clause selects.
Hits(f) == {i \in DOMAIN order : Matches(order[i], f)}

\* How many of the selected rows come before row i: the newer ones.
Before(f, i) == Cardinality({j \in Hits(f) : j > i})

\* ORDER BY created_at DESC LIMIT size OFFSET Offset(p, size)
Result(f, p, size) ==
    LET rest == Cardinality(Hits(f)) - Offset(p, size)
    IN [k \in 1..(IF rest < size THEN rest ELSE size) |->
          order[CHOOSE i \in Hits(f) : Before(f, i) = Offset(p, size) + k - 1]]

\* A client starts to read the list; its first request names no page.
ListSessions(f) ==
    /\ pc = "idle"
    /\ pc' = "count" /\ op' = "list" /\ filter' = f /\ page' = 0
    /\ spelling' \in {"field", "documented"}
    /\ base' = ToSet(order) /\ seen' = {} /\ items' = <<>> /\ total' = 0
    /\ UNCHANGED <<world, faults, doc>>

\* SELECT COUNT(*)
CountTotal ==
    /\ pc = "count"
    /\ total' = Cardinality(Hits(ShouldBindQuery.filter))
    /\ pc' = "page"
    /\ UNCHANGED <<world, faults, op, spelling, filter, page, items, base, seen, doc>>

\* The query of the page, after the count, and the answer.
ListPage ==
    /\ pc = "page"
    /\ LET query == ShouldBindQuery
           found == Result(query.filter, query.page, query.size)
       IN /\ items' = [i \in DOMAIN found |->
                         [id |-> found[i], status |-> StatusToProto[status[found[i]]]]]
          /\ seen' = seen \cup ToSet(found)
    /\ pc' = "paged"
    /\ UNCHANGED <<world, faults, op, spelling, filter, page, total, base, doc>>

\* The client goes on until a page is not full.  One whose page number is
\* ignored may be shown the same page for ever: it gives up after MaxPages.
NextPage ==
    /\ pc = "paged"
    /\ IF Len(items) >= PageSize /\ (spelling = "field" \/ page < MaxPages)
       THEN pc' = "count" /\ page' = IF page < 1 THEN 2 ELSE page + 1
       ELSE pc' = "listed" /\ UNCHANGED page
    /\ UNCHANGED <<world, faults, op, spelling, filter, total, items, base, seen, doc>>

-----------------------------------------------------------------------------
(* GET /v1/sessions/:id, .../report and .../report/download *)

\* The body is read and cannot be older than this.
Known(s) == [rows |-> rows[s], events |-> timeline[s]]

\* GetByID of the request's session.  A missing session answers 404, or 500
\* where the handler of a PDF does not tell the errors apart.
LoadSession(o, s) ==
    /\ pc = "idle" /\ op' = o /\ sid' = s
    /\ IF status[s] = "NONE"
       THEN /\ view' = [Blank EXCEPT !.code = IF o = "pdf" THEN 500 ELSE 404]
            /\ pc' = "answered"
       ELSE /\ view' = [Blank EXCEPT !.status = status[s], !.known = Known(s)]
            /\ pc' = "fixes"
    /\ UNCHANGED <<world, faults, list>>

GetSession(s) == LoadSession("detail", s)

GetReport(s) == \E o \in {"markdown", "pdf"} : LoadSession(o, s)

DownloadReport(s) == \E o \in {"markdown", "pdf"} : LoadSession(o, s)

\* buildTimeline, the timeline of the detail: made up from the status.
BuildTimeline(v) == IF v.status = "CREATED" THEN {} ELSE {v.status}

\* Mutant: the report's timeline is made up as well.
BugTimelineOf(v, events) == BuildTimeline(v)

\* The report has the entries of session_events, and makes them up when there
\* are none (buildTimelineFromSession).
TimelineOf(v, events) == IF events # {} THEN events ELSE BuildTimeline(v)

\* FixActionDAO.GetBySessionID; the detail is complete with it.
LoadFixes ==
    /\ pc = "fixes"
    /\ IF op = "detail"
       THEN /\ view' = [view EXCEPT !.rows = rows[sid], !.events = BuildTimeline(view), !.code = 200]
            /\ pc' = "answered"
       ELSE view' = [view EXCEPT !.rows = rows[sid]] /\ pc' = "approvals"
    /\ UNCHANGED <<world, faults, op, list, sid>>

\* getAllApprovalsForSession
LoadApprovals ==
    /\ pc = "approvals"
    /\ view' = [view EXCEPT !.approvals = approvals[sid]]
    /\ pc' = "events"
    /\ UNCHANGED <<world, faults, op, list, sid>>

\* SessionEventDAO.GetBySessionID, the last query of LoadReportData.
LoadEvents ==
    /\ pc = "events"
    /\ view' = [view EXCEPT !.events = TimelineOf(view, timeline[sid])]
    /\ pc' = "render"
    /\ UNCHANGED <<world, faults, op, list, sid>>

\* What the first paragraph says: how the session ended, with the number of
\* fix actions when it was resolved or has some.
BuildExecutiveSummary(v) ==
    [verdict |-> IF v.status \in Terminal \ {"ROLLED_BACK"} THEN v.status ELSE "going on",
     fixes   |-> IF v.status \in {"FAILED", "REJECTED", "IGNORED"} THEN 0 ELSE Len(v.rows)]

\* The sections of the document; texts are left out.
RenderMarkdown(v) ==
    [summary |-> BuildExecutiveSummary(v), timeline |-> v.events,
     fixes |-> v.rows, approvals |-> v.approvals]

\* pandoc, or a placeholder around the markdown when it fails.
RenderPDF == {"application/pdf", "text/markdown"}

\* The report is rendered from what was read and answered.
GenerateReport ==
    /\ pc = "render"
    /\ \E t \in (IF op = "pdf" THEN RenderPDF ELSE {"text/markdown"}) :
          view' = [view EXCEPT !.code = 200, !.type = t]
    /\ pc' = "answered"
    /\ UNCHANGED <<world, faults, op, list, sid>>

\* A query fails.  Errors of the count, the page and the session answer 500;
\* those of fix actions, approvals and events are dropped, and the document
\* is made of what there is.
QueryFails ==
    /\ faults < MaxFaults /\ faults' = faults + 1
    /\ \/ /\ pc \in {"count", "page"}
          /\ pc' = "answered" /\ view' = [Blank EXCEPT !.code = 500] /\ UNCHANGED op
       \/ /\ pc = "idle" /\ \E o \in {"detail", "markdown", "pdf"} : op' = o
          /\ view' = [Blank EXCEPT !.code = 500] /\ pc' = "answered"
       \/ /\ pc = "fixes"
          /\ view' = [view EXCEPT !.failed = @ \cup {"fixes"},
                                  !.events = IF op = "detail" THEN BuildTimeline(view) ELSE @,
                                  !.code = IF op = "detail" THEN 200 ELSE @]
          /\ pc' = (IF op = "detail" THEN "answered" ELSE "approvals")
          /\ UNCHANGED op
       \/ /\ pc = "approvals" /\ pc' = "events" /\ UNCHANGED op
          /\ view' = [view EXCEPT !.failed = @ \cup {"approvals"}]
       \/ /\ pc = "events" /\ pc' = "render" /\ UNCHANGED op
          /\ view' = [view EXCEPT !.failed = @ \cup {"events"},
                                  !.events = TimelineOf(view, {})]
    /\ UNCHANGED <<world, list, sid>>

\* The client is done with the answer.
Finish ==
    /\ pc \in {"listed", "answered"}
    /\ pc' = "idle" /\ op' = "none" /\ view' = Blank
    /\ items' = <<>> /\ seen' = {} /\ base' = {} /\ total' = 0 /\ page' = 0
    /\ spelling' = "field" /\ filter' = (CHOOSE f \in Filters : TRUE)
    /\ sid' = CHOOSE s \in Sessions : TRUE
    /\ UNCHANGED <<world, faults>>

-----------------------------------------------------------------------------
ApiNext ==
    \/ \E s \in Sessions : PostSession(s) \/ Transition(s) \/ LogStateTransition(s)
                           \/ ChangeFixAction(s) \/ ChangeApproval(s)
    \/ \E f \in Filters : ListSessions(f)
    \/ CountTotal \/ ListPage \/ NextPage
    \/ \E s \in Sessions : GetSession(s) \/ GetReport(s) \/ DownloadReport(s)
    \/ LoadFixes \/ LoadApprovals \/ LoadEvents \/ GenerateReport
    \/ QueryFails \/ Finish

ApiSpec == ApiInit /\ [][ApiNext]_apiVars

-----------------------------------------------------------------------------

(***************************************************************************)
(* A client that reads page after page until one is not full has seen      *)
(* every session that was there when it began, although each page is a     *)
(* query of its own and sessions are inserted and moved in between: the    *)
(* newest come first and push older ones back, never forward               *)
(* (session.go:188-192).  It holds for a client that names its parameters  *)
(* as the fields of the request are named.  One that uses the documented   *)
(* names reads the first page again and again (orchestrator.go:112), and   *)
(* with a filter on the status, which changes, a session may be passed     *)
(* over: neither is claimed here.                                          *)
(***************************************************************************)
PagingComplete ==
    (pc = "listed" /\ spelling = "field" /\ filter.status = 0)
    => {s \in base : filter.target \in {"", TargetService[s]}} \subseteq seen

(***************************************************************************)
(* The body of a report is never behind its header: every fix action that  *)
(* was there when the session row was read is in the body, as far as it    *)
(* was then or further, with the same result if it had one, and every      *)
(* event that was on the timeline is still reported.  The body is read     *)
(* later, in queries of its own, while actions start and end               *)
(* (markdown.go:217-258).  Only a failed query, which the report does not  *)
(* mention, makes it older.                                                *)
(***************************************************************************)
ReportNotBehind ==
    (pc = "answered" /\ view.code = 200)
    => LET shown == RenderMarkdown(view)
           old   == view.known
       IN /\ "fixes" \notin view.failed
             => /\ Len(shown.fixes) >= Len(old.rows)
                /\ \A i \in DOMAIN old.rows :
                      \/ shown.fixes[i] = old.rows[i]
                      \/ Progress[shown.fixes[i]] > Progress[old.rows[i]]
          /\ op # "detail" /\ "events" \notin view.failed
             => old.events \subseteq shown.timeline
=============================================================================
