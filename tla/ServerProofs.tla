---------------------------- MODULE ServerProofs ----------------------------
(***************************************************************************)
(* Proofs about the hub as its clients see it: the answers of the reading  *)
(* handlers while others write (Api), and the entries of its processes in  *)
(* the catalog (Registry).  They hold for any sessions, filters, page size *)
(* and number of changes and failing queries, and for any processes, TTL,  *)
(* critical time, period of the reaper and number of failing calls.        *)
(***************************************************************************)
EXTENDS Api, Registry, FiniteSetTheorems, SequenceTheorems, TLAPS

(***************************************************************************)
(* The sessions.                                                           *)
(***************************************************************************)

\* Every move goes from a status of the table to one of higher rank.
LEMMA MovesAdvance ==
    ASSUME NEW m \in Moves
    PROVE  m[3] \in Status /\ Rank[m[3]] > Rank[m[1]]
  <1>1. CASE \E s \in Live : m[1] = s /\ m[3] \in {"IGNORED", "FAILED"}
    BY <1>1 DEF Rank, Status, Live, Terminal
  <1>2. CASE ~(\E s \in Live : m[1] = s /\ m[3] \in {"IGNORED", "FAILED"})
    BY <1>2 DEF Moves, ValidTransitions, Rank, Status, Live, Terminal
  <1> QED BY <1>1, <1>2

\* A step of the lifecycle keeps the type and moves sessions forward.
LEMMA LifecycleStep ==
    ASSUME TypeOK, Next
    PROVE  /\ TypeOK'
           /\ \A s \in Sessions :
                 status'[s] # status[s] => Rank[status'[s]] > Rank[status[s]]
  <1>1. ASSUME NEW s \in Sessions, CreateSession(s)
        PROVE  /\ TypeOK'
               /\ \A t \in Sessions :
                     status'[t] # status[t] => Rank[status'[t]] > Rank[status[t]]
    <2>1. TypeOK'
      BY <1>1 DEF CreateSession, TypeOK, Status, Live
    <2>2. \A t \in Sessions : status'[t] # status[t] => t = s /\ status'[t] = "CREATED"
      BY <1>1 DEF CreateSession, TypeOK
    <2>3. status[s] = "NONE" /\ Rank["CREATED"] > Rank["NONE"]
      BY <1>1 DEF CreateSession, Rank
    <2> QED BY <2>1, <2>2, <2>3
  <1>2. ASSUME NEW s \in Sessions, Apply(s)
        PROVE  /\ TypeOK'
               /\ \A t \in Sessions :
                     status'[t] # status[t] => Rank[status'[t]] > Rank[status[t]]
    <2>1. PICK m \in Moves : m[1] = status[s] /\ status' = [status EXCEPT ![s] = m[3]]
      BY <1>2 DEF Apply
    <2>2. m[3] \in Status /\ Rank[m[3]] > Rank[m[1]]
      BY MovesAdvance
    <2>3. TypeOK'
      BY <2>1, <2>2 DEF TypeOK
    <2>4. \A t \in Sessions : status'[t] # status[t] => t = s /\ status'[t] = m[3]
      BY <2>1 DEF TypeOK
    <2> QED BY <2>1, <2>2, <2>3, <2>4
  <1> QED BY <1>1, <1>2 DEF Next

\* In the abstract lifecycle a session only moves forward: no sequence of
\* events brings it back to an earlier status or out of a terminal one.
THEOREM LifecycleForward == Spec => OnlyForward
  <1>1. Init => TypeOK
    BY LifecycleAssumption DEF Init, TypeOK
  <1>2. TypeOK /\ [Next]_status
        => /\ TypeOK'
           /\ [\A s \in Sessions :
                  status'[s] # status[s] => Rank[status'[s]] > Rank[status[s]]]_status
    <2> SUFFICES ASSUME TypeOK, [Next]_status
                 PROVE  /\ TypeOK'
                        /\ [\A s \in Sessions :
                              status'[s] # status[s] => Rank[status'[s]] > Rank[status[s]]]_status
      OBVIOUS
    <2>1. CASE Next
      BY <2>1, LifecycleStep
    <2>2. CASE status' = status
      BY <2>2 DEF TypeOK
    <2> QED BY <2>1, <2>2
  <1> QED BY <1>1, <1>2, PTL DEF Spec, OnlyForward

-----------------------------------------------------------------------------
(***************************************************************************)
(* The documents.                                                          *)
(***************************************************************************)

Execution == {"NOT_STARTED", "RUNNING", "SUCCEEDED", "FAILED"}

Decision == {"PENDING", "APPROVED", "REJECTED"}

View == [status : Status, rows : Seq(Execution), approvals : Seq(Decision),
         events : SUBSET Status, failed : SUBSET {"fixes", "approvals", "events"},
         known : [rows : Seq(Execution), events : SUBSET Status],
         code : Nat, type : {"json", "application/pdf", "text/markdown"}]

DocTyped ==
    /\ status \in [Sessions -> Status]
    /\ rows \in [Sessions -> Seq(Execution)]
    /\ approvals \in [Sessions -> Seq(Decision)]
    /\ unlogged \in [Sessions -> SUBSET Status]
    /\ timeline \in [Sessions -> SUBSET Status]
    /\ sid \in Sessions /\ view \in View

\* An action that is shown as y is as far as one shown as x, or further.
Later(x, y) == y = x \/ Progress[y] > Progress[x]

\* The fix actions in new are those in old or later versions of them, and
\* perhaps more.
NotBehind(old, new) ==
    /\ Len(new) >= Len(old)
    /\ \A i \in DOMAIN old : Later(old[i], new[i])

\* While the document is put together, the tables hold what they held when
\* the row of the session was read, or more.
TablesGrow ==
    pc \in {"fixes", "approvals", "events", "render"} =>
        /\ NotBehind(view.known.rows, rows[sid])
        /\ view.known.events \subseteq timeline[sid]

\* What has been copied from them so far is not behind either, unless the
\* query failed.
CopiesFresh ==
    /\ pc \in {"approvals", "events", "render"} =>
          /\ op # "detail"
          /\ "fixes" \notin view.failed => NotBehind(view.known.rows, view.rows)
    /\ pc = "render" /\ "events" \notin view.failed =>
          view.known.events \subseteq view.events

DocInv == DocTyped /\ TablesGrow /\ CopiesFresh /\ ReportNotBehind

\* Later and later still is later.
LEMMA LaterTransitive ==
    ASSUME NEW x \in Execution, NEW y \in Execution, NEW z \in Execution,
           Later(x, y), Later(y, z)
    PROVE  Later(x, z)
  <1>1. \A e \in Execution : Progress[e] \in Nat
    BY DEF Execution, Progress
  <1> HIDE DEF Execution
  <1> QED BY <1>1 DEF Later

\* Whatever is read again is not behind what was read before.
LEMMA NotBehindTransitive ==
    ASSUME NEW a \in Seq(Execution), NEW b \in Seq(Execution),
           NEW c \in Seq(Execution), NotBehind(a, b), NotBehind(b, c)
    PROVE  NotBehind(a, c)
  <1>1. /\ Len(a) \in Nat /\ Len(b) \in Nat /\ Len(c) \in Nat
        /\ DOMAIN a = 1..Len(a) /\ DOMAIN b = 1..Len(b) /\ DOMAIN c = 1..Len(c)
    OBVIOUS
  <1>2. Len(b) >= Len(a) /\ Len(c) >= Len(b)
    BY DEF NotBehind
  <1>3. ASSUME NEW i \in DOMAIN a
        PROVE  Later(a[i], c[i])
    <2>1. i \in DOMAIN b /\ i \in DOMAIN c
      BY <1>1, <1>2
    <2>2. Later(a[i], b[i]) /\ Later(b[i], c[i])
      BY <2>1 DEF NotBehind
    <2>3. a[i] \in Execution /\ b[i] \in Execution /\ c[i] \in Execution
      BY <2>1
    <2> QED BY <2>2, <2>3, LaterTransitive
  <1> QED BY <1>1, <1>2, <1>3 DEF NotBehind

LEMMA NotBehindItself ==
    ASSUME NEW a \in Seq(Execution)
    PROVE  NotBehind(a, a)
  <1>1. Len(a) \in Nat
    OBVIOUS
  <1> QED BY <1>1 DEF NotBehind, Later

\* The steps of the other actors.
Writing ==
    \E s \in Sessions : PostSession(s) \/ Transition(s) \/ LogStateTransition(s)
                        \/ ChangeFixAction(s) \/ ChangeApproval(s)

\* They leave the request in work alone.
LEMMA WritingRequest ==
    ASSUME Writing
    PROVE  /\ pc' = pc /\ op' = op /\ sid' = sid /\ view' = view
           /\ spelling' = spelling /\ filter' = filter /\ page' = page
           /\ items' = items /\ base' = base /\ seen' = seen
  BY DEF Writing, PostSession, Transition, LogStateTransition, ChangeFixAction,
         ChangeApproval, list, doc

\* They keep the types of the tables.
LEMMA WritingTypes ==
    ASSUME DocTyped, Writing
    PROVE  DocTyped'
  <1>0. sid' = sid /\ view' = view
    BY WritingRequest
  <1>1. ASSUME NEW s \in Sessions, PostSession(s)
        PROVE  DocTyped'
    <2>1. status' \in [Sessions -> Status]
      BY <1>1 DEF PostSession, CreateSession, DocTyped, Status, Live
    <2> QED BY <1>0, <1>1, <2>1 DEF PostSession, DocTyped
  <1>2. ASSUME NEW s \in Sessions, Transition(s)
        PROVE  DocTyped'
    <2>1. status' \in [Sessions -> Status]
      <3>1. PICK m \in Moves : status' = [status EXCEPT ![s] = m[3]]
        BY <1>2 DEF Transition, Apply
      <3> QED BY <3>1, MovesAdvance DEF DocTyped
    <2>2. unlogged' \in [Sessions -> SUBSET Status]
      BY <1>2, <2>1 DEF Transition, DocTyped
    <2> QED BY <1>0, <1>2, <2>1, <2>2 DEF Transition, DocTyped
  <1>3. ASSUME NEW s \in Sessions, LogStateTransition(s)
        PROVE  DocTyped'
    <2>1. PICK m \in unlogged[s] :
             /\ unlogged' = [unlogged EXCEPT ![s] = @ \ {m}]
             /\ \/ timeline' = [timeline EXCEPT ![s] = @ \cup {m}]
                \/ timeline' = timeline
             /\ UNCHANGED <<status, rows, approvals>>
      BY <1>3 DEF LogStateTransition
    <2>2. m \in Status
      BY DEF DocTyped
    <2>3. /\ unlogged' \in [Sessions -> SUBSET Status]
          /\ timeline' \in [Sessions -> SUBSET Status]
      BY <2>1, <2>2 DEF DocTyped
    <2> QED BY <1>0, <2>1, <2>3 DEF DocTyped
  <1>4. ASSUME NEW s \in Sessions, ChangeFixAction(s)
        PROVE  DocTyped'
    <2>1. rows' \in [Sessions -> Seq(Execution)]
      <3>1. rows[s] \in Seq(Execution)
        BY DEF DocTyped
      <3>2. PICK q \in Seq(Execution) : rows' = [rows EXCEPT ![s] = q]
        <4>1. CASE rows' = [rows EXCEPT ![s] = Append(@, "NOT_STARTED")]
          <5>1. Append(rows[s], "NOT_STARTED") \in Seq(Execution)
            BY <3>1 DEF Execution
          <5> QED BY <4>1, <5>1
        <4>2. CASE \E i \in DOMAIN rows[s], x \in {"RUNNING", "SUCCEEDED", "FAILED"} :
                      rows' = [rows EXCEPT ![s][i] = x]
          <5>1. PICK i \in DOMAIN rows[s], x \in {"RUNNING", "SUCCEEDED", "FAILED"} :
                   rows' = [rows EXCEPT ![s] = [rows[s] EXCEPT ![i] = x]]
            BY <4>2
          <5>2. [rows[s] EXCEPT ![i] = x] \in Seq(Execution)
            BY <3>1 DEF Execution
          <5> QED BY <5>1, <5>2
        <4> QED BY <1>4, <4>1, <4>2 DEF ChangeFixAction
      <3> QED BY <3>2 DEF DocTyped
    <2> QED BY <1>0, <1>4, <2>1 DEF ChangeFixAction, DocTyped
  <1>5. ASSUME NEW s \in Sessions, ChangeApproval(s)
        PROVE  DocTyped'
    <2>1. approvals' \in [Sessions -> Seq(Decision)]
      <3>1. approvals[s] \in Seq(Decision)
        BY DEF DocTyped
      <3>2. PICK q \in Seq(Decision) : approvals' = [approvals EXCEPT ![s] = q]
        <4>1. CASE approvals' = [approvals EXCEPT ![s] = Append(@, "PENDING")]
          <5>1. Append(approvals[s], "PENDING") \in Seq(Decision)
            BY <3>1 DEF Decision
          <5> QED BY <4>1, <5>1
        <4>2. CASE \E i \in DOMAIN approvals[s], x \in {"APPROVED", "REJECTED"} :
                      approvals' = [approvals EXCEPT ![s][i] = x]
          <5>1. PICK i \in DOMAIN approvals[s], x \in {"APPROVED", "REJECTED"} :
                   approvals' = [approvals EXCEPT ![s] = [approvals[s] EXCEPT ![i] = x]]
            BY <4>2
          <5>2. [approvals[s] EXCEPT ![i] = x] \in Seq(Decision)
            BY <3>1 DEF Decision
          <5> QED BY <5>1, <5>2
        <4> QED BY <1>5, <4>1, <4>2 DEF ChangeApproval
      <3> QED BY <3>2 DEF DocTyped
    <2> QED BY <1>0, <1>5, <2>1 DEF ChangeApproval, DocTyped
  <1> QED BY <1>1, <1>2, <1>3, <1>4, <1>5 DEF Writing

\* They only add to the tables that a document is read from.
LEMMA WritingGrows ==
    ASSUME DocTyped, Writing, NEW t \in Sessions
    PROVE  NotBehind(rows[t], rows'[t]) /\ timeline[t] \subseteq timeline'[t]
  <1>1. ASSUME NEW s \in Sessions,
               PostSession(s) \/ Transition(s) \/ LogStateTransition(s) \/ ChangeApproval(s)
        PROVE  NotBehind(rows[t], rows'[t]) /\ timeline[t] \subseteq timeline'[t]
    <2>1. rows' = rows
      BY <1>1 DEF PostSession, Transition, LogStateTransition, ChangeApproval
    <2>2. timeline' = timeline \/ \E m : timeline' = [timeline EXCEPT ![s] = @ \cup {m}]
      BY <1>1 DEF PostSession, Transition, LogStateTransition, ChangeApproval
    <2>3. timeline[t] \subseteq timeline'[t]
      BY <2>2 DEF DocTyped
    <2> QED BY <2>1, <2>3, NotBehindItself DEF DocTyped
  <1>2. ASSUME NEW s \in Sessions, ChangeFixAction(s)
        PROVE  NotBehind(rows[t], rows'[t]) /\ timeline[t] \subseteq timeline'[t]
    <2>1. timeline' = timeline
      BY <1>2 DEF ChangeFixAction
    <2>2. rows[t] \in Seq(Execution) /\ Len(rows[t]) \in Nat
      BY DEF DocTyped
    <2>3. CASE rows[s] = <<>> /\ rows' = [rows EXCEPT ![s] = Append(@, "NOT_STARTED")]
      <3>1. CASE t = s
        <4>1. rows[t] = <<>>
          BY <2>3, <3>1
        <4>2. rows'[t] \in Seq(Execution)
          BY <1>2, WritingTypes DEF DocTyped, Writing
        <4>3. Len(rows[t]) = 0 /\ DOMAIN rows[t] = {} /\ Len(rows'[t]) \in Nat
          BY <4>1, <4>2
        <4> QED BY <2>1, <4>3 DEF NotBehind
      <3>2. CASE t # s
        BY <2>1, <2>2, <2>3, <3>2, NotBehindItself DEF DocTyped
      <3> QED BY <3>1, <3>2
    <2>4. CASE \E i \in DOMAIN rows[s], x \in {"RUNNING", "SUCCEEDED", "FAILED"} :
                  /\ Progress[rows[s][i]] < Progress[x]
                  /\ rows' = [rows EXCEPT ![s][i] = x]
      <3>1. PICK i \in DOMAIN rows[s], x \in {"RUNNING", "SUCCEEDED", "FAILED"} :
               /\ Progress[rows[s][i]] < Progress[x]
               /\ rows' = [rows EXCEPT ![s] = [rows[s] EXCEPT ![i] = x]]
        BY <2>4
      <3>4. rows[s][i] \in Execution /\ x \in Execution
        BY <3>1 DEF DocTyped, Execution
      <3>5. Progress[x] > Progress[rows[s][i]]
        <4>1. Progress[x] \in Nat /\ Progress[rows[s][i]] \in Nat
          BY <3>4 DEF Execution, Progress
        <4> QED BY <3>1, <4>1
      <3>2. CASE t = s
        <4>1. rows'[t] = [rows[t] EXCEPT ![i] = x]
          BY <3>1, <3>2 DEF DocTyped
        <4>2. Len(rows'[t]) = Len(rows[t])
          BY <2>2, <4>1
        <4>3. \A j \in DOMAIN rows[t] : j # i => rows'[t][j] = rows[t][j]
          BY <2>2, <4>1
        <4>4. Later(rows[t][i], rows'[t][i])
          BY <2>2, <3>1, <3>2, <3>5, <4>1 DEF Later
        <4>5. \A j \in DOMAIN rows[t] : Later(rows[t][j], rows'[t][j])
          BY <4>3, <4>4 DEF Later
        <4> QED BY <2>1, <2>2, <4>2, <4>5 DEF NotBehind
      <3>3. CASE t # s
        BY <2>1, <2>2, <3>1, <3>3, NotBehindItself DEF DocTyped
      <3> QED BY <3>2, <3>3
    <2> QED BY <1>2, <2>3, <2>4 DEF ChangeFixAction
  <1> QED BY <1>1, <1>2 DEF Writing

\* The empty view, with any answer.
LEMMA BlankType ==
    /\ Blank \in View /\ Blank.code = 0
    /\ \A n \in Nat : /\ [Blank EXCEPT !.code = n] \in View
                      /\ [Blank EXCEPT !.code = n].code = n
  <1>1. <<>> \in Seq(Execution) /\ <<>> \in Seq(Decision) /\ "NONE" \in Status
    BY DEF Status
  <1>2. [rows |-> <<>>, events |-> {}] \in [rows : Seq(Execution), events : SUBSET Status]
    BY <1>1
  <1>3. Blank \in View /\ Blank.code = 0
    BY <1>1, <1>2 DEF Blank, View
  <1>4. ASSUME NEW v \in View, NEW n \in Nat
        PROVE  [v EXCEPT !.code = n] \in View /\ [v EXCEPT !.code = n].code = n
    BY DEF View
  <1> QED BY <1>3, <1>4

\* The document holds at the start.
LEMMA DocStart ==
    ASSUME ApiInit
    PROVE  DocInv
  <1>1. status \in [Sessions -> Status]
    BY LifecycleAssumption DEF ApiInit, Init
  <1>2. sid \in Sessions
    BY LifecycleAssumption DEF ApiInit
  <1>3. DocTyped
    BY <1>1, <1>2, BlankType DEF ApiInit, DocTyped
  <1> QED BY <1>3 DEF ApiInit, DocInv, TablesGrow, CopiesFresh, ReportNotBehind

\* A step of another actor: the tables only grow.
LEMMA DocWriting ==
    ASSUME DocInv, Writing
    PROVE  DocInv'
  <1>1. pc' = pc /\ op' = op /\ sid' = sid /\ view' = view
    BY WritingRequest
  <1>2. DocTyped /\ DocTyped'
    BY WritingTypes DEF DocInv
  <1>3. TablesGrow'
    <2> SUFFICES ASSUME pc \in {"fixes", "approvals", "events", "render"}
                 PROVE  /\ NotBehind(view.known.rows, rows'[sid])
                        /\ view.known.events \subseteq timeline'[sid]
      BY <1>1 DEF TablesGrow
    <2>1. /\ NotBehind(view.known.rows, rows[sid])
          /\ view.known.events \subseteq timeline[sid]
      BY DEF DocInv, TablesGrow
    <2>2. sid \in Sessions /\ view.known.rows \in Seq(Execution)
      BY <1>2 DEF DocTyped, View
    <2>3. rows[sid] \in Seq(Execution) /\ rows'[sid] \in Seq(Execution)
      BY <1>2, <2>2 DEF DocTyped
    <2>4. NotBehind(rows[sid], rows'[sid]) /\ timeline[sid] \subseteq timeline'[sid]
      BY <1>2, <2>2, WritingGrows
    <2> QED BY <2>1, <2>2, <2>3, <2>4, NotBehindTransitive
  <1>4. CopiesFresh' /\ ReportNotBehind'
    BY <1>1 DEF DocInv, CopiesFresh, ReportNotBehind
  <1> QED BY <1>2, <1>3, <1>4 DEF DocInv

\* A step that begins or ends a request, or belongs to a listing: what is left
\* of a document is no answer with code 200.
LEMMA DocNone ==
    ASSUME DocInv, UNCHANGED world, sid' \in Sessions, view' \in View,
           pc' \notin {"fixes", "approvals", "events", "render"},
           pc' = "answered" => view'.code # 200
    PROVE  DocInv'
  <1>1. DocTyped'
    BY DEF DocInv, DocTyped, world
  <1> QED BY <1>1 DEF DocInv, TablesGrow, CopiesFresh, ReportNotBehind

\* The steps of a listing, failed ones included.
LEMMA DocListing ==
    ASSUME DocInv,
           \/ \E f \in Filters : ListSessions(f)
           \/ CountTotal \/ ListPage \/ NextPage \/ Finish
    PROVE  DocInv'
  <1>0. sid \in Sessions /\ view \in View
    BY DEF DocInv, DocTyped
  <1>1. CASE Finish
    <2>1. sid' \in Sessions
      BY <1>1, LifecycleAssumption DEF Finish
    <2> QED BY <1>1, <2>1, BlankType, DocNone DEF Finish
  <1>2. CASE \/ \E f \in Filters : ListSessions(f)
             \/ CountTotal \/ ListPage \/ NextPage
    <2>1. /\ UNCHANGED world /\ sid' = sid /\ view' = view
          /\ pc' \in {"count", "page", "paged", "listed"}
      BY <1>2 DEF ListSessions, CountTotal, ListPage, NextPage, doc
    <2> QED BY <1>0, <2>1, DocNone
  <1> QED BY <1>1, <1>2

\* The row of the session is read: nothing can be older than what the other
\* tables hold now.
LEMMA DocLoad ==
    ASSUME DocInv, NEW o, NEW s \in Sessions, LoadSession(o, s)
    PROVE  DocInv'
  <1>0. UNCHANGED world /\ sid' = s
    BY DEF LoadSession
  <1>1. CASE status[s] = "NONE"
    <2>1. PICK n \in {404, 500} : view' = [Blank EXCEPT !.code = n]
      BY <1>1 DEF LoadSession
    <2>2. view' \in View /\ view'.code # 200
      BY <2>1, BlankType
    <2> QED BY <1>0, <1>1, <2>2, DocNone DEF LoadSession
  <1>2. CASE status[s] # "NONE"
    <2>1. /\ view' = [Blank EXCEPT !.status = status[s], !.known = Known(s)]
          /\ pc' = "fixes"
      BY <1>2 DEF LoadSession
    <2>2. /\ Known(s) \in [rows : Seq(Execution), events : SUBSET Status]
          /\ Known(s).rows = rows[s] /\ Known(s).events = timeline[s]
          /\ status[s] \in Status /\ rows[s] \in Seq(Execution)
      BY DEF Known, DocInv, DocTyped
    <2>3. view' \in View /\ view'.known = Known(s)
      BY <2>1, <2>2, BlankType DEF View
    <2>4. rows' = rows /\ timeline' = timeline
      BY <1>0 DEF world
    <2>5. DocTyped'
      BY <1>0, <2>3 DEF DocInv, DocTyped, world
    <2>6. TablesGrow'
      BY <1>0, <2>2, <2>3, <2>4, NotBehindItself DEF TablesGrow
    <2> QED BY <2>1, <2>5, <2>6 DEF DocInv, CopiesFresh, ReportNotBehind
  <1> QED BY <1>1, <1>2

\* The timeline that is made up is one of statuses, and the one that is shown
\* has all recorded entries.
LEMMA TimelineType ==
    ASSUME NEW v \in View, NEW events \in SUBSET Status
    PROVE  /\ BuildTimeline(v) \in SUBSET Status
           /\ TimelineOf(v, events) \in SUBSET Status
           /\ events \subseteq TimelineOf(v, events)
  <1>1. v.status \in Status
    BY DEF View
  <1>2. BuildTimeline(v) \in SUBSET Status
    BY <1>1 DEF BuildTimeline
  <1> QED BY <1>2 DEF TimelineOf

\* The fix actions are read, now or never.
LEMMA DocFixes ==
    ASSUME DocInv, pc = "fixes", UNCHANGED <<world, op, sid>>,
           view' \in View, view'.known = view.known,
           "fixes" \notin view'.failed => view'.rows = rows[sid],
           pc' = IF op = "detail" THEN "answered" ELSE "approvals"
    PROVE  DocInv'
  <1>1. DocTyped'
    BY DEF DocInv, DocTyped, world
  <1>2. TablesGrow'
    BY DEF DocInv, TablesGrow, world
  <1>3. "fixes" \notin view'.failed => NotBehind(view'.known.rows, view'.rows)
    BY DEF DocInv, TablesGrow
  <1>4. CopiesFresh'
    BY <1>3 DEF CopiesFresh
  <1>5. ReportNotBehind'
    BY <1>3 DEF ReportNotBehind, RenderMarkdown, NotBehind, Later
  <1> QED BY <1>1, <1>2, <1>4, <1>5 DEF DocInv

\* The approvals do not matter to what is compared.
LEMMA DocApprovals ==
    ASSUME DocInv, pc = "approvals", pc' = "events", UNCHANGED <<world, op, sid>>,
           view' \in View, view'.known = view.known, view'.rows = view.rows,
           view.failed \subseteq view'.failed
    PROVE  DocInv'
  <1>1. DocTyped'
    BY DEF DocInv, DocTyped, world
  <1>2. TablesGrow'
    BY DEF DocInv, TablesGrow, world
  <1>3. CopiesFresh'
    BY DEF DocInv, CopiesFresh
  <1> QED BY <1>1, <1>2, <1>3 DEF DocInv, ReportNotBehind

\* The events are read, now or never.
LEMMA DocEvents ==
    ASSUME DocInv, pc = "events", pc' = "render", UNCHANGED <<world, op, sid>>,
           view' \in View, view'.known = view.known, view'.rows = view.rows,
           view.failed \subseteq view'.failed,
           "events" \notin view'.failed => timeline[sid] \subseteq view'.events
    PROVE  DocInv'
  <1>1. DocTyped'
    BY DEF DocInv, DocTyped, world
  <1>2. TablesGrow'
    BY DEF DocInv, TablesGrow, world
  <1>3. "events" \notin view'.failed => view'.known.events \subseteq view'.events
    BY DEF DocInv, TablesGrow
  <1>4. CopiesFresh'
    BY <1>3 DEF DocInv, CopiesFresh
  <1> QED BY <1>1, <1>2, <1>4 DEF DocInv, ReportNotBehind

\* The code and the content type of an answer are set in one go.
LEMMA CodeAndType ==
    ASSUME NEW v \in View, NEW c \in Nat,
           NEW x \in {"json", "application/pdf", "text/markdown"}
    PROVE  [v EXCEPT !.code = c, !.type = x] \in View
  <1>1. ASSUME NEW A, NEW B, NEW C, NEW D, NEW E, NEW F, NEW G, NEW H,
               NEW w \in [status : A, rows : B, approvals : C, events : D,
                          failed : E, known : F, code : G, type : H],
               NEW y \in G, NEW z \in H
        PROVE  [w EXCEPT !.code = y, !.type = z]
                  \in [status : A, rows : B, approvals : C, events : D,
                       failed : E, known : F, code : G, type : H]
    OBVIOUS
  <1> QED BY <1>1, Zenon DEF View

\* The report shows what was copied.
LEMMA DocRender ==
    ASSUME DocInv, GenerateReport
    PROVE  DocInv'
  <1>1. view \in View /\ sid' \in Sessions /\ pc = "render" /\ pc' = "answered"
    BY DEF DocInv, DocTyped, GenerateReport
  <1>2. PICK t \in {"application/pdf", "text/markdown"} :
           view' = [view EXCEPT !.code = 200, !.type = t]
    BY DEF GenerateReport, RenderPDF
  <1>3. /\ view' \in View /\ view'.known = view.known /\ view'.rows = view.rows
        /\ view'.failed = view.failed /\ view'.events = view.events
    <2>1. t \in {"json", "application/pdf", "text/markdown"} /\ 200 \in Nat
      OBVIOUS
    <2>2. view' \in View
      BY <1>1, <1>2, <2>1, CodeAndType
    <2>3. /\ view'.known = view.known /\ view'.rows = view.rows
          /\ view'.failed = view.failed /\ view'.events = view.events
      BY <1>1, <1>2 DEF View
    <2> QED BY <2>2, <2>3
  <1>4. DocTyped'
    BY <1>1, <1>3 DEF DocInv, DocTyped, world, GenerateReport
  <1>5. ReportNotBehind'
    BY <1>1, <1>3
    DEF DocInv, CopiesFresh, ReportNotBehind, RenderMarkdown, NotBehind, Later
  <1> QED BY <1>1, <1>4, <1>5 DEF DocInv, TablesGrow, CopiesFresh

\* A query fails: an answer of 500, or a document that says less.
LEMMA DocFails ==
    ASSUME DocInv, QueryFails
    PROVE  DocInv'
  <1>0. /\ UNCHANGED <<world, sid>> /\ view \in View /\ sid \in Sessions
        /\ rows[sid] \in Seq(Execution)
    BY DEF QueryFails, DocInv, DocTyped
  <1>1. CASE pc \in {"count", "page", "idle"}
    <2>1. pc' = "answered" /\ view' = [Blank EXCEPT !.code = 500]
      BY <1>1 DEF QueryFails
    <2>2. view' \in View /\ view'.code # 200
      BY <2>1, BlankType
    <2> QED BY <1>0, <2>1, <2>2, DocNone
  <1>2. CASE pc = "fixes"
    <2>1. /\ op' = op /\ pc' = (IF op = "detail" THEN "answered" ELSE "approvals")
          /\ view' = [view EXCEPT !.failed = @ \cup {"fixes"},
                                  !.events = IF op = "detail" THEN BuildTimeline(view) ELSE @,
                                  !.code = IF op = "detail" THEN 200 ELSE @]
      BY <1>2 DEF QueryFails
    <2>2. PICK e \in SUBSET Status, n \in Nat :
             view' = [view EXCEPT !.failed = @ \cup {"fixes"}, !.events = e, !.code = n]
      <3>1. /\ BuildTimeline(view) \in SUBSET Status
            /\ view.events \in SUBSET Status /\ view.code \in Nat
        BY <1>0, TimelineType DEF View
      <3>2. CASE op = "detail"
        BY <2>1, <3>1, <3>2
      <3>3. CASE op # "detail"
        BY <2>1, <3>1, <3>3
      <3> QED BY <3>2, <3>3
    <2>3. view' \in View /\ view'.known = view.known /\ "fixes" \in view'.failed
      BY <1>0, <2>2 DEF View
    <2> QED BY <1>0, <1>2, <2>1, <2>3, DocFixes
  <1>3. CASE pc = "approvals"
    <2>1. /\ pc' = "events" /\ op' = op
          /\ view' = [view EXCEPT !.failed = @ \cup {"approvals"}]
      BY <1>3 DEF QueryFails
    <2>2. /\ view' \in View /\ view'.known = view.known /\ view'.rows = view.rows
          /\ view.failed \subseteq view'.failed
      BY <1>0, <2>1 DEF View
    <2> QED BY <1>0, <1>3, <2>1, <2>2, DocApprovals
  <1>4. CASE pc = "events"
    <2>1. /\ pc' = "render" /\ op' = op
          /\ view' = [view EXCEPT !.failed = @ \cup {"events"},
                                  !.events = TimelineOf(view, {})]
      BY <1>4 DEF QueryFails
    <2>2. TimelineOf(view, {}) \in SUBSET Status
      BY <1>0, TimelineType
    <2>3. /\ view' \in View /\ view'.known = view.known /\ view'.rows = view.rows
          /\ view.failed \subseteq view'.failed /\ "events" \in view'.failed
      BY <1>0, <2>1, <2>2 DEF View
    <2> QED BY <1>0, <1>4, <2>1, <2>3, DocEvents
  <1> QED BY <1>1, <1>2, <1>3, <1>4 DEF QueryFails

\* Every step keeps the invariant.
LEMMA DocStep == DocInv /\ [ApiNext]_apiVars => DocInv'
  <1> SUFFICES ASSUME DocInv, [ApiNext]_apiVars
               PROVE  DocInv'
    OBVIOUS
  <1>0. view \in View /\ sid \in Sessions
    BY DEF DocInv, DocTyped
  <1>1. CASE Writing
    BY <1>1, DocWriting
  <1>2. CASE \/ \E f \in Filters : ListSessions(f)
             \/ CountTotal \/ ListPage \/ NextPage \/ Finish
    BY <1>2, DocListing
  <1>3. ASSUME NEW s \in Sessions, GetSession(s) \/ GetReport(s) \/ DownloadReport(s)
        PROVE  DocInv'
    BY <1>3, DocLoad DEF GetSession, GetReport, DownloadReport
  <1>4. CASE LoadFixes
    <2>1. rows[sid] \in Seq(Execution) /\ BuildTimeline(view) \in SUBSET Status
      BY <1>0, TimelineType DEF DocInv, DocTyped
    <2>2. view' \in View /\ view'.known = view.known /\ view'.rows = rows[sid]
      <3>1. CASE op = "detail"
        <4>1. view' = [view EXCEPT !.rows = rows[sid], !.events = BuildTimeline(view), !.code = 200]
          BY <1>4, <3>1 DEF LoadFixes
        <4> QED BY <1>0, <2>1, <4>1 DEF View
      <3>2. CASE op # "detail"
        <4>1. view' = [view EXCEPT !.rows = rows[sid]]
          BY <1>4, <3>2 DEF LoadFixes
        <4> QED BY <1>0, <2>1, <4>1 DEF View
      <3> QED BY <3>1, <3>2
    <2>3. /\ pc = "fixes" /\ UNCHANGED <<world, op, sid>>
          /\ pc' = IF op = "detail" THEN "answered" ELSE "approvals"
      BY <1>4 DEF LoadFixes
    <2> QED BY <2>2, <2>3, DocFixes
  <1>5. CASE LoadApprovals
    <2>1. approvals[sid] \in Seq(Decision)
      BY DEF DocInv, DocTyped
    <2>2. /\ view' \in View /\ view'.known = view.known /\ view'.rows = view.rows
          /\ view'.failed = view.failed
      BY <1>0, <1>5, <2>1 DEF LoadApprovals, View
    <2> QED BY <1>5, <2>2, DocApprovals DEF LoadApprovals
  <1>6. CASE LoadEvents
    <2>1. timeline[sid] \in SUBSET Status
      BY DEF DocInv, DocTyped
    <2>2. /\ TimelineOf(view, timeline[sid]) \in SUBSET Status
          /\ timeline[sid] \subseteq TimelineOf(view, timeline[sid])
      BY <1>0, <2>1, TimelineType
    <2>3. /\ view' \in View /\ view'.known = view.known /\ view'.rows = view.rows
          /\ view'.failed = view.failed
          /\ view'.events = TimelineOf(view, timeline[sid])
      BY <1>0, <1>6, <2>2 DEF LoadEvents, View
    <2> QED BY <1>6, <2>2, <2>3, DocEvents DEF LoadEvents
  <1>7. CASE GenerateReport
    BY <1>7, DocRender
  <1>8. CASE QueryFails
    BY <1>8, DocFails
  <1>9. CASE UNCHANGED apiVars
    BY <1>9 DEF apiVars, world, doc, DocInv, DocTyped, TablesGrow, CopiesFresh,
                ReportNotBehind
  <1> QED BY <1>1, <1>2, <1>3, <1>4, <1>5, <1>6, <1>7, <1>8, <1>9
          DEF ApiNext, Writing

\* The body of a report is never behind its header: whatever is written between
\* its queries, it shows every fix action as far as the tables had it when the
\* row of the session was read or further, and every event they had, except for
\* the part whose query failed (markdown.go:217-258).
THEOREM ApiReportNotBehind == ApiSpec => []ReportNotBehind
  <1>1. ApiInit => DocInv
    BY DocStart
  <1>2. DocInv => ReportNotBehind
    BY DEF DocInv
  <1> QED BY <1>1, <1>2, DocStep, PTL DEF ApiSpec

-----------------------------------------------------------------------------
(***************************************************************************)
(* The pages.                                                              *)
(***************************************************************************)

\* A row inserted at place k moves those from there on one place up.
LEMMA InsertShifts ==
    ASSUME NEW q \in Seq(Sessions), NEW s \in Sessions, NEW k \in 1..Len(q) + 1
    PROVE  /\ InsertAt(q, k, s) \in Seq(Sessions)
           /\ Len(InsertAt(q, k, s)) = Len(q) + 1
           /\ \A i \in 1..Len(q) :
                 InsertAt(q, k, s)[IF i < k THEN i ELSE i + 1] = q[i]
  <1> DEFINE a == SubSeq(q, 1, k - 1)
             b == SubSeq(q, k, Len(q))
             h == a \o <<s>>
             t == h \o b
  <1>0. Len(q) \in Nat /\ k \in Nat /\ k <= Len(q) + 1
    OBVIOUS
  <1>1. /\ a \in Seq(Sessions) /\ Len(a) = k - 1
        /\ \A i \in 1..k - 1 : a[i] = q[i]
    OBVIOUS
  <1>2. /\ b \in Seq(Sessions) /\ Len(b) = Len(q) - k + 1
        /\ \A i \in 1..Len(q) - k + 1 : b[i] = q[k + i - 1]
    OBVIOUS
  <1>3. t = InsertAt(q, k, s)
    BY DEF InsertAt
  <1> HIDE DEF a, b
  <1>4. /\ h \in Seq(Sessions) /\ Len(h) = k
        /\ \A i \in 1..k - 1 : h[i] = a[i]
    BY <1>0, <1>1
  <1> HIDE DEF h
  <1>5. /\ t \in Seq(Sessions) /\ Len(t) = Len(h) + Len(b)
        /\ \A i \in 1..Len(h) + Len(b) :
              t[i] = IF i <= Len(h) THEN h[i] ELSE b[i - Len(h)]
    <2>1. h \in Seq(Sessions) /\ b \in Seq(Sessions)
      BY <1>2, <1>4
    <2> QED BY <2>1
  <1> HIDE DEF t
  <1>6. Len(t) = Len(q) + 1
    BY <1>0, <1>2, <1>4, <1>5
  <1>7. ASSUME NEW i \in 1..Len(q)
        PROVE  t[IF i < k THEN i ELSE i + 1] = q[i]
    <2>1. CASE i < k
      <3>1. i \in 1..Len(h) + Len(b) /\ i <= Len(h) /\ i \in 1..k - 1
        BY <1>0, <1>2, <1>4, <2>1
      <3>2. t[i] = h[i] /\ h[i] = a[i] /\ a[i] = q[i]
        BY <1>1, <1>4, <1>5, <3>1
      <3> QED BY <2>1, <3>2
    <2>2. CASE ~(i < k)
      <3>1. /\ i + 1 \in 1..Len(h) + Len(b) /\ ~(i + 1 <= Len(h))
            /\ i + 1 - Len(h) = i - k + 1 /\ i - k + 1 \in 1..Len(q) - k + 1
            /\ k + (i - k + 1) - 1 = i
        BY <1>0, <1>2, <1>4, <2>2
      <3>2. t[i + 1] = b[i - k + 1]
        <4>1. t[i + 1] = IF i + 1 <= Len(h) THEN h[i + 1] ELSE b[i + 1 - Len(h)]
          BY <1>5, <3>1
        <4> QED BY <3>1, <4>1
      <3>3. b[i - k + 1] = q[i]
        BY <1>2, <3>1
      <3> QED BY <2>2, <3>2, <3>3
    <2> QED BY <2>1, <2>2
  <1> QED BY <1>3, <1>5, <1>6, <1>7

\* The places of the rows for a target in the table q, and those after place
\* i: with a filter that leaves the status open, Hits and Before are about
\* these.
Places(q, t) == {i \in DOMAIN q : t \in {"", TargetService[q[i]]}}

After(q, t, i) == {j \in Places(q, t) : j > i}

\* Places are finitely many.
LEMMA PlacesFinite ==
    ASSUME NEW q \in Seq(Sessions), NEW t, NEW i
    PROVE  /\ IsFiniteSet(Places(q, t)) /\ IsFiniteSet(After(q, t, i))
           /\ Cardinality(Places(q, t)) \in Nat
           /\ Cardinality(After(q, t, i)) \in Nat
  <1>1. DOMAIN q = 1..Len(q) /\ Len(q) \in Int /\ 1 \in Int
    OBVIOUS
  <1>2. IsFiniteSet(1..Len(q))
    BY <1>1, FS_Interval, Zenon
  <1>3. Places(q, t) \in SUBSET (1..Len(q)) /\ After(q, t, i) \in SUBSET (1..Len(q))
    BY <1>1 DEF Places, After
  <1>4. IsFiniteSet(Places(q, t)) /\ IsFiniteSet(After(q, t, i))
    BY <1>2, <1>3, FS_Subset
  <1> QED BY <1>4, FS_CardinalityType

\* An inserted row takes none of those away that come before another one.
LEMMA InsertKeepsAfter ==
    ASSUME NEW q \in Seq(Sessions), NEW s \in Sessions, NEW k \in 1..Len(q) + 1,
           NEW t, NEW i \in Places(q, t)
    PROVE  \E n \in Places(InsertAt(q, k, s), t) :
              /\ InsertAt(q, k, s)[n] = q[i]
              /\ Cardinality(After(InsertAt(q, k, s), t, n)) >= Cardinality(After(q, t, i))
  <1> DEFINE r == InsertAt(q, k, s)
  <1> DEFINE up(j) == IF j < k THEN j ELSE j + 1
  <1>0. /\ Len(q) \in Nat /\ DOMAIN q = 1..Len(q) /\ k \in Nat
        /\ r \in Seq(Sessions) /\ Len(r) = Len(q) + 1
        /\ \A j \in 1..Len(q) : r[up(j)] = q[j]
    BY InsertShifts
  <1> HIDE DEF r
  <1>1. DOMAIN r = 1..Len(q) + 1
    BY <1>0
  <1>2. ASSUME NEW j \in 1..Len(q)
        PROVE  up(j) \in 1..Len(q) + 1 /\ up(j) \in Nat
    <2>1. CASE j < k
      BY <1>0, <2>1
    <2>2. CASE ~(j < k)
      BY <1>0, <2>2
    <2> QED BY <2>1, <2>2
  <1>3. ASSUME NEW x \in 1..Len(q), NEW y \in 1..Len(q), x < y
        PROVE  up(x) < up(y)
    BY <1>0, <1>3
  <1> HIDE DEF up
  <1>4. ASSUME NEW j \in Places(q, t)
        PROVE  up(j) \in Places(r, t) /\ j \in 1..Len(q)
    <2>1. j \in 1..Len(q) /\ t \in {"", TargetService[q[j]]}
      BY <1>0 DEF Places
    <2>2. up(j) \in 1..Len(q) + 1 /\ r[up(j)] = q[j]
      BY <1>0, <1>2, <2>1
    <2> QED BY <1>1, <2>1, <2>2 DEF Places
  <1> DEFINE S == After(q, t, i)
             T == After(r, t, up(i))
             f == [j \in S |-> up(j)]
  <1>5. ASSUME NEW j \in S
        PROVE  up(j) \in T
    <2>1. j \in Places(q, t) /\ j > i /\ i \in 1..Len(q) /\ j \in 1..Len(q)
      BY <1>4 DEF After
    <2>2. i < j
      BY <2>1
    <2>3. up(j) > up(i)
      BY <1>2, <1>3, <2>1, <2>2
    <2> QED BY <1>4, <2>1, <2>3 DEF After
  <1>6. ASSUME NEW x \in S, NEW y \in S, up(x) = up(y)
        PROVE  x = y
    <2>1. x \in 1..Len(q) /\ y \in 1..Len(q)
      BY <1>4 DEF After
    <2>2. up(x) \in Nat /\ up(y) \in Nat
      BY <1>2, <2>1
    <2>3. ~(x < y) /\ ~(y < x)
      BY <1>3, <1>6, <2>1, <2>2
    <2> QED BY <1>0, <2>1, <2>3
  <1>7. IsFiniteSet(T) /\ Cardinality(S) \in Nat /\ Cardinality(T) \in Nat
    BY <1>0, PlacesFinite
  <1> HIDE DEF S, T
  <1>8. f \in [S -> T]
    BY <1>5
  <1>9. IsInjective(f)
    BY <1>6 DEF IsInjective
  <1>10. f \in Injection(S, T)
    BY <1>8, <1>9 DEF Injection
  <1> HIDE DEF f
  <1>11. Cardinality(S) <= Cardinality(T)
    BY <1>7, <1>10, FS_Injection
  <1>12. Cardinality(T) >= Cardinality(S)
    BY <1>7, <1>11
  <1>13. up(i) \in Places(r, t) /\ r[up(i)] = q[i]
    BY <1>0, <1>4
  <1> QED BY <1>12, <1>13 DEF r, S, T

\* A set without one of its elements has fewer.
LEMMA Fewer ==
    ASSUME NEW S, IsFiniteSet(S), NEW x \in S, NEW T \in SUBSET S, x \notin T
    PROVE  Cardinality(T) < Cardinality(S)
  <1>1. /\ IsFiniteSet(T) /\ Cardinality(T) <= Cardinality(S)
        /\ Cardinality(S) = Cardinality(T) => S = T
    BY FS_Subset
  <1>2. Cardinality(S) \in Nat /\ Cardinality(T) \in Nat
    BY <1>1, FS_CardinalityType
  <1>3. Cardinality(S) # Cardinality(T)
    BY <1>1
  <1> QED BY <1>1, <1>2, <1>3

\* Different rows have different numbers of rows before them, less than there
\* are.
LEMMA AfterOrders ==
    ASSUME NEW q \in Seq(Sessions), NEW t, NEW i \in Places(q, t)
    PROVE  /\ Cardinality(After(q, t, i)) < Cardinality(Places(q, t))
           /\ \A j \in Places(q, t) :
                 Cardinality(After(q, t, i)) = Cardinality(After(q, t, j)) => i = j
  <1>0. /\ Places(q, t) \subseteq Nat
        /\ \A n : IsFiniteSet(After(q, t, n)) /\ Cardinality(After(q, t, n)) \in Nat
    <2>1. DOMAIN q = 1..Len(q) /\ Len(q) \in Nat
      OBVIOUS
    <2>2. ASSUME NEW n \in Places(q, t) PROVE n \in Nat
      <3>1. n \in 1..Len(q)
        BY <2>1 DEF Places
      <3> QED BY <2>1, <3>1
    <2> QED BY <2>2, PlacesFinite
  <1>1. Cardinality(After(q, t, i)) < Cardinality(Places(q, t))
    <2>1. IsFiniteSet(Places(q, t))
      BY PlacesFinite
    <2>2. i \notin After(q, t, i) /\ After(q, t, i) \in SUBSET Places(q, t)
      BY <1>0 DEF After
    <2> QED BY <2>1, <2>2, Fewer
  <1>2. ASSUME NEW j \in Places(q, t), NEW n \in Places(q, t), j < n
        PROVE  Cardinality(After(q, t, n)) < Cardinality(After(q, t, j))
    <2>1. /\ n \in After(q, t, j) /\ n \notin After(q, t, n)
          /\ After(q, t, n) \in SUBSET After(q, t, j)
      BY <1>0, <1>2 DEF After
    <2> QED BY <1>0, <2>1, Fewer
  <1>3. ASSUME NEW j \in Places(q, t),
               Cardinality(After(q, t, i)) = Cardinality(After(q, t, j))
        PROVE  i = j
    <2>1. ~(i < j) /\ ~(j < i)
      BY <1>0, <1>2, <1>3
    <2> QED BY <1>0, <2>1
  <1> QED BY <1>1, <1>3

\* The sessions of w have a row for target t in the table q, behind at least n
\* others.
Behind(q, w, t, n) ==
    \A s \in w :
        \E i \in Places(q, t) : q[i] = s /\ Cardinality(After(q, t, i)) >= n

\* The sessions that a client expects to see on some page.
Wanted == {s \in base : filter.target \in {"", TargetService[s]}}

\* Those it has not seen come behind at least n rows.
Far(n) == Behind(order, Wanted \ seen, filter.target, n)

\* The rows that come before an unseen one are only ever joined by new ones,
\* so that it is not on a page that the client has behind it.  A page that is
\* not full was the last one when it was read.
Ahead ==
    spelling = "field" /\ filter.status = 0 =>
        /\ pc \in {"count", "page"} => Far(Offset(page, PageSize))
        /\ pc = "paged" => /\ Far(Offset(page, PageSize) + PageSize)
                           /\ ~(Len(items) >= PageSize) => Wanted \subseteq seen
        /\ pc = "listed" => Wanted \subseteq seen

PageInv == order \in Seq(Sessions) /\ page \in Nat /\ Ahead

\* A new row leaves every session as far behind as it was, or more.
LEMMA InsertKeepsBehind ==
    ASSUME NEW q \in Seq(Sessions), NEW s \in Sessions, NEW k \in 1..Len(q) + 1,
           NEW w, NEW t, NEW n \in Nat, Behind(q, w, t, n)
    PROVE  Behind(InsertAt(q, k, s), w, t, n)
  <1> DEFINE r == InsertAt(q, k, s)
  <1>0. r \in Seq(Sessions)
    BY InsertShifts
  <1> SUFFICES ASSUME NEW x \in w
               PROVE  \E j \in Places(r, t) : r[j] = x /\ Cardinality(After(r, t, j)) >= n
    BY DEF Behind
  <1>1. PICK i \in Places(q, t) : q[i] = x /\ Cardinality(After(q, t, i)) >= n
    BY DEF Behind
  <1>2. PICK j \in Places(r, t) :
           r[j] = q[i] /\ Cardinality(After(r, t, j)) >= Cardinality(After(q, t, i))
    BY InsertKeepsAfter
  <1> HIDE DEF r
  <1>3. Cardinality(After(r, t, j)) \in Nat /\ Cardinality(After(q, t, i)) \in Nat
    BY <1>0, PlacesFinite
  <1> QED BY <1>1, <1>2, <1>3

\* The next page begins where the page ends.
LEMMA OffsetNext ==
    ASSUME NEW p \in Nat
    PROVE  /\ Offset(p, PageSize) \in Nat
           /\ Offset(IF p < 1 THEN 2 ELSE p + 1, PageSize) = Offset(p, PageSize) + PageSize
  <1>0. PageSize \in Nat
    BY ApiAssumption
  <1>1. CASE p < 1
    <2>1. Offset(p, PageSize) = 0 * PageSize /\ Offset(2, PageSize) = (2 - 1) * PageSize
      BY <1>1 DEF Offset
    <2>2. 0 * PageSize = 0 /\ (2 - 1) * PageSize = PageSize
      BY <1>0
    <2> QED BY <1>0, <1>1, <2>1, <2>2
  <1>2. CASE ~(p < 1)
    <2>1. Offset(p, PageSize) = (p - 1) * PageSize /\ Offset(p + 1, PageSize) = (p + 1 - 1) * PageSize
      BY <1>2 DEF Offset
    <2>2. PICK x \in Nat : x = p - 1
      BY <1>2
    <2>3. p + 1 - 1 = x + 1
      BY <2>2
    <2>4. x * PageSize \in Nat /\ (x + 1) * PageSize = x * PageSize + PageSize
      BY <1>0
    <2> QED BY <1>2, <2>1, <2>2, <2>3, <2>4
  <1> QED BY <1>1, <1>2

\* With the status left open, the WHERE clause is about the target alone, which
\* no move of a session changes.
LEMMA OpenStatus ==
    ASSUME filter.status = 0
    PROVE  /\ Hits(filter) = Places(order, filter.target)
           /\ \A i : Before(filter, i) = Cardinality(After(order, filter.target, i))
  <1>1. StatusProtoToString(0) = ""
    BY DEF StatusProtoToString
  <1>2. \A s : Matches(s, filter) <=> filter.target \in {"", TargetService[s]}
    BY <1>1 DEF Matches
  <1>3. Hits(filter) = Places(order, filter.target)
    BY <1>2 DEF Hits, Places
  <1> QED BY <1>3 DEF Before, After

\* The invariant holds at the start.
LEMMA PageStart == ApiInit => PageInv
  <1> SUFFICES ASSUME ApiInit
               PROVE  PageInv
    OBVIOUS
  <1>1. PICK m \in 0..Cardinality(Sessions) : order \in [1..m -> Sessions]
    BY DEF ApiInit, BoundedSeq, SeqOf
  <1>2. m \in Nat
    BY <1>1
  <1>3. order \in Seq(Sessions)
    BY <1>1, <1>2
  <1> QED BY <1>3 DEF ApiInit, PageInv, Ahead

\* Others only add rows.
LEMMA PageWriting ==
    ASSUME PageInv, Writing
    PROVE  PageInv'
  <1>0. order \in Seq(Sessions) /\ page \in Nat /\ PageSize \in Nat
    BY ApiAssumption DEF PageInv
  <1>1. order' = order
        \/ \E s \in Sessions, k \in 1..Len(order) + 1 : order' = InsertAt(order, k, s)
    BY DEF Writing, PostSession, Transition, LogStateTransition, ChangeFixAction,
           ChangeApproval
  <1>2. order' \in Seq(Sessions)
    BY <1>0, <1>1, InsertShifts
  <1>3. ASSUME NEW w, NEW t, NEW n \in Nat, Behind(order, w, t, n)
        PROVE  Behind(order', w, t, n)
    BY <1>0, <1>1, <1>3, InsertKeepsBehind
  <1>4. Offset(page, PageSize) \in Nat /\ Offset(page, PageSize) + PageSize \in Nat
    <2>1. Offset(page, PageSize) \in Nat
      BY <1>0, OffsetNext
    <2> QED BY <1>0, <2>1
  <1>5. /\ Far(Offset(page, PageSize)) => Far(Offset(page, PageSize))'
        /\ Far(Offset(page, PageSize) + PageSize) => Far(Offset(page, PageSize) + PageSize)'
    <2>1. /\ Wanted' = Wanted /\ seen' = seen /\ filter' = filter
          /\ Offset(page, PageSize)' = Offset(page, PageSize)
      BY WritingRequest DEF Wanted, Offset
    <2> QED BY <1>3, <1>4, <2>1 DEF Far
  <1>6. Ahead'
    BY <1>5, WritingRequest DEF PageInv, Ahead, Wanted
  <1> QED BY <1>0, <1>2, <1>6, WritingRequest DEF PageInv

\* The first request wants what is there.
LEMMA PageFirst ==
    ASSUME PageInv, NEW f \in Filters, ListSessions(f)
    PROVE  PageInv'
  <1>0. order \in Seq(Sessions) /\ PageSize \in Nat
    BY ApiAssumption DEF PageInv
  <1>1. /\ order' = order /\ page' = 0 /\ pc' = "count" /\ seen' = {}
        /\ base' = ToSet(order)
    BY DEF ListSessions, world
  <1>2. Offset(page', PageSize) = 0
    <2>1. Offset(0, PageSize) = 0 * PageSize
      BY DEF Offset
    <2>2. 0 * PageSize = 0
      BY <1>0
    <2> QED BY <1>1, <2>1, <2>2
  <1>3. ASSUME NEW s \in Wanted'
        PROVE  \E i \in Places(order, filter'.target) :
                  order[i] = s /\ Cardinality(After(order, filter'.target, i)) >= 0
    <2>1. s \in ToSet(order) /\ filter'.target \in {"", TargetService[s]}
      BY <1>1 DEF Wanted
    <2>2. PICK i \in DOMAIN order : order[i] = s
      BY <2>1 DEF ToSet
    <2>3. i \in Places(order, filter'.target)
      BY <2>1, <2>2 DEF Places
    <2>4. Cardinality(After(order, filter'.target, i)) \in Nat
      BY <1>0, PlacesFinite
    <2> QED BY <2>2, <2>3, <2>4
  <1>4. Far(Offset(page, PageSize))'
    BY <1>1, <1>2, <1>3 DEF Far, Behind
  <1>5. Ahead'
    BY <1>1, <1>4 DEF Ahead
  <1> QED BY <1>0, <1>1, <1>5 DEF PageInv

\* A page shows the rows that come behind those of the pages before it, as many
\* as it has room for.
LEMMA PageShows ==
    ASSUME order \in Seq(Sessions), page \in Nat, filter.status = 0,
           NEW i \in Places(order, filter.target),
           Cardinality(After(order, filter.target, i)) >= Offset(page, PageSize),
           Cardinality(After(order, filter.target, i)) < Offset(page, PageSize) + PageSize
    PROVE  order[i] \in ToSet(Result(filter, page, PageSize))
  <1> DEFINE H == Hits(filter)
             c(j) == Before(filter, j)
             rest == Cardinality(H) - Offset(page, PageSize)
             len == IF rest < PageSize THEN rest ELSE PageSize
             k == c(i) - Offset(page, PageSize) + 1
  <1>1. Result(filter, page, PageSize) =
           [n \in 1..len |-> order[CHOOSE j \in H : c(j) = Offset(page, PageSize) + n - 1]]
    BY DEF Result
  <1>2. /\ H = Places(order, filter.target)
        /\ \A j : c(j) = Cardinality(After(order, filter.target, j))
    BY OpenStatus
  <1> HIDE DEF H, c
  <1>3. /\ PageSize \in Nat /\ Offset(page, PageSize) \in Nat
        /\ Cardinality(H) \in Nat /\ c(i) \in Nat
    BY <1>2, ApiAssumption, OffsetNext, PlacesFinite
  <1>4. c(i) < Cardinality(H) /\ \A j \in H : c(i) = c(j) => i = j
    BY <1>2, AfterOrders
  <1>5. c(i) >= Offset(page, PageSize) /\ c(i) < Offset(page, PageSize) + PageSize /\ i \in H
    BY <1>2
  <1>6. k \in 1..len /\ Offset(page, PageSize) + k - 1 = c(i)
    BY <1>3, <1>4, <1>5
  <1>7. (CHOOSE j \in H : c(j) = c(i)) = i
    BY <1>4, <1>5
  <1> HIDE DEF k, len
  <1> DEFINE at(n) == order[CHOOSE j \in H : c(j) = Offset(page, PageSize) + n - 1]
  <1>8. at(k) = order[i]
    BY <1>6, <1>7
  <1>9. Result(filter, page, PageSize) = [n \in 1..len |-> at(n)]
    BY <1>1
  <1> HIDE DEF at
  <1>10. /\ Result(filter, page, PageSize)[k] = order[i]
         /\ k \in DOMAIN Result(filter, page, PageSize)
    BY <1>6, <1>8, <1>9
  <1> QED BY <1>10 DEF ToSet

\* After a page has been shown, what is still unseen is behind it; then the
\* page was full.
LEMMA PageShown ==
    ASSUME PageInv, ListPage
    PROVE  PageInv'
  <1>0. order \in Seq(Sessions) /\ page \in Nat /\ PageSize \in Nat
    BY ApiAssumption DEF PageInv
  <1> DEFINE found == Result(filter, page, PageSize)
             t == filter.target
  <1>a. /\ order' = order /\ page' = page /\ filter' = filter /\ base' = base
        /\ spelling' = spelling /\ pc = "page" /\ pc' = "paged"
    BY DEF ListPage, world
  <1>2. Wanted' = Wanted /\ Offset(page, PageSize)' = Offset(page, PageSize)
    BY <1>a DEF Wanted, Offset
  <1>3. Offset(page, PageSize) \in Nat
    BY <1>0, OffsetNext
  <1> SUFFICES ASSUME spelling = "field", filter.status = 0
               PROVE  /\ Far(Offset(page, PageSize) + PageSize)'
                      /\ ~(Len(items') >= PageSize) => Wanted \subseteq seen'
    BY <1>0, <1>a, <1>2 DEF PageInv, Ahead
  <1>b. /\ ShouldBindQuery.filter = filter /\ ShouldBindQuery.page = page
        /\ ShouldBindQuery.size = PageSize
    BY DEF ShouldBindQuery
  <1>1. /\ order' = order /\ filter' = filter /\ base' = base /\ pc = "page"
        /\ seen' = seen \cup ToSet(found)
        /\ DOMAIN items' = DOMAIN found
        /\ items' = [i \in DOMAIN found |-> items'[i]]
    BY <1>a, <1>b DEF ListPage
  <1>4. ASSUME NEW s \in Wanted \ seen'
        PROVE  \E i \in Places(order, t) :
                  /\ order[i] = s
                  /\ Cardinality(After(order, t, i)) >= Offset(page, PageSize) + PageSize
    <2>1. s \in Wanted \ seen /\ s \notin ToSet(found)
      BY <1>1
    <2>2. PICK i \in Places(order, t) :
             order[i] = s /\ Cardinality(After(order, t, i)) >= Offset(page, PageSize)
      BY <1>1, <2>1 DEF PageInv, Ahead, Far, Behind
    <2>3. Cardinality(After(order, t, i)) \in Nat
      BY <1>0, PlacesFinite
    <2>4. ~(Cardinality(After(order, t, i)) < Offset(page, PageSize) + PageSize)
      BY <1>0, <2>1, <2>2, PageShows
    <2>5. Cardinality(After(order, t, i)) >= Offset(page, PageSize) + PageSize
      BY <1>0, <1>3, <2>3, <2>4
    <2> QED BY <2>2, <2>5
  <1>5. Far(Offset(page, PageSize) + PageSize)'
    BY <1>1, <1>2, <1>4 DEF Far, Behind
  <1>6. ASSUME NEW s \in Wanted, s \notin seen'
        PROVE  Len(items') >= PageSize
    <2>1. PICK i \in Places(order, t) :
             Cardinality(After(order, t, i)) >= Offset(page, PageSize) + PageSize
      BY <1>4, <1>6
    <2>2. /\ Cardinality(After(order, t, i)) < Cardinality(Places(order, t))
          /\ Cardinality(After(order, t, i)) \in Nat
          /\ Cardinality(Places(order, t)) \in Nat
      BY <1>0, AfterOrders, PlacesFinite
    <2>3. ~(Cardinality(Places(order, t)) - Offset(page, PageSize) < PageSize)
      BY <1>0, <1>3, <2>1, <2>2
    <2>4. Hits(filter) = Places(order, t)
      BY OpenStatus
    <2>5. DOMAIN found = 1..PageSize
      BY <2>3, <2>4 DEF Result
    <2>6. items' = [j \in 1..PageSize |-> items'[j]]
      BY <1>1, <2>5
    <2> HIDE DEF found
    <2>7. PICK X : items' \in [1..PageSize -> X]
      <3>1. items' \in [1..PageSize -> {items'[j] : j \in 1..PageSize}]
        BY <2>6
      <3> QED BY <3>1
    <2>8. items' \in Seq(X) /\ DOMAIN items' = 1..PageSize
      BY <1>0, <2>7
    <2> QED BY <1>0, <2>8
  <1> QED BY <1>5, <1>6

\* The client goes on to the next page, or is done.
LEMMA PageTurned ==
    ASSUME PageInv, NextPage
    PROVE  PageInv'
  <1>0. order \in Seq(Sessions) /\ page \in Nat /\ PageSize \in Nat
    BY ApiAssumption DEF PageInv
  <1>1. /\ order' = order /\ filter' = filter /\ base' = base /\ seen' = seen
        /\ spelling' = spelling /\ pc = "paged"
    BY DEF NextPage, world
  <1>2. Wanted' = Wanted /\ \A n : Far(n)' <=> Far(n)
    BY <1>1 DEF Wanted, Far
  <1>3. CASE pc' = "count" /\ page' = IF page < 1 THEN 2 ELSE page + 1
    <2>2. page' \in Nat
      BY <1>0, <1>3
    <2>3. Offset(page, PageSize)' = Offset(page, PageSize) + PageSize
      BY <1>0, <1>3, OffsetNext DEF Offset
    <2>4. spelling = "field" /\ filter.status = 0 => Far(Offset(page, PageSize))'
      BY <1>1, <2>3 DEF PageInv, Ahead, Far, Wanted
    <2> QED BY <1>0, <1>1, <1>3, <2>2, <2>4 DEF PageInv, Ahead
  <1>4. CASE /\ pc' = "listed" /\ page' = page
             /\ ~(Len(items) >= PageSize) \/ spelling # "field"
    BY <1>0, <1>1, <1>2, <1>4 DEF PageInv, Ahead
  <1> QED BY <1>3, <1>4 DEF NextPage

\* Every step keeps the invariant.
LEMMA PageStep == PageInv /\ [ApiNext]_apiVars => PageInv'
  <1> SUFFICES ASSUME PageInv, [ApiNext]_apiVars
               PROVE  PageInv'
    OBVIOUS
  <1>0. order \in Seq(Sessions) /\ page \in Nat
    BY DEF PageInv
  <1>1. CASE Writing
    BY <1>1, PageWriting
  <1>2. CASE \E f \in Filters : ListSessions(f)
    BY <1>2, PageFirst
  <1>3. CASE CountTotal
    <2>1. /\ pc = "count" /\ pc' = "page" /\ order' = order
          /\ filter' = filter /\ page' = page /\ base' = base /\ seen' = seen
          /\ spelling' = spelling
      BY <1>3 DEF CountTotal, world
    <2>2. Far(Offset(page, PageSize))' <=> Far(Offset(page, PageSize))
      BY <2>1 DEF Far, Wanted, Offset
    <2> QED BY <1>0, <2>1, <2>2 DEF PageInv, Ahead
  <1>4. CASE ListPage
    BY <1>4, PageShown
  <1>5. CASE NextPage
    BY <1>5, PageTurned
  <1>6. CASE \/ \E s \in Sessions : GetSession(s) \/ GetReport(s) \/ DownloadReport(s)
             \/ LoadFixes \/ LoadApprovals \/ LoadEvents \/ GenerateReport
             \/ QueryFails \/ Finish
    <2>1. /\ order' = order /\ page' \in {page, 0}
          /\ pc' \notin {"count", "page", "paged", "listed"}
      BY <1>6 DEF GetSession, GetReport, DownloadReport, LoadSession, LoadFixes,
                  LoadApprovals, LoadEvents, GenerateReport, QueryFails, Finish,
                  world, list
    <2> QED BY <1>0, <2>1 DEF PageInv, Ahead
  <1>7. CASE UNCHANGED apiVars
    <2>1. UNCHANGED <<order, pc, spelling, filter, page, items, base, seen>>
      BY <1>7 DEF apiVars, world, list
    <2>2. Wanted' = Wanted /\ Offset(page, PageSize)' = Offset(page, PageSize)
      BY <2>1 DEF Wanted, Offset
    <2>3. /\ Far(Offset(page, PageSize))' <=> Far(Offset(page, PageSize))
          /\ Far(Offset(page, PageSize) + PageSize)' <=> Far(Offset(page, PageSize) + PageSize)
      BY <2>1, <2>2 DEF Far
    <2> QED BY <1>0, <2>1, <2>2, <2>3 DEF PageInv, Ahead
  <1> QED BY <1>1, <1>2, <1>3, <1>4, <1>5, <1>6, <1>7 DEF ApiNext, Writing

\* A client that names its parameters as the fields of the request and reads
\* page after page until one is not full has seen every session that was there
\* when it began and is for the target it asks for, whatever is inserted and
\* moved between the pages (session.go:188-192).
THEOREM ApiPagingComplete == ApiSpec => []PagingComplete
  <1>1. PageInv => PagingComplete
    BY DEF PageInv, Ahead, Wanted, PagingComplete
  <1> QED BY <1>1, PageStart, PageStep, PTL DEF ApiSpec

-----------------------------------------------------------------------------
(***************************************************************************)
(* The catalog.  The inductive invariant.                                  *)
(***************************************************************************)

\* Before the registration, nothing of the process is in Consul.
Early == {"off", "connect", "register"}

Running == {"build", "ready", "up", "shutdown", "deregister"}
Position == Early \cup Running \cup {"exited"}

Age == 0..Limit \cup {Absent}

Typed ==
    /\ proc \in [Procs -> Position]
    /\ beat \subseteq Procs /\ passed \subseteq Procs
    /\ timer \in [Procs -> Nat] /\ due \in [Procs -> Nat]
    /\ missed \in [Procs -> Nat] /\ late \in [Procs -> Nat]
    /\ entry \in [Procs -> Age]
    /\ reaper \in 0..ReapPeriod - 1
    /\ dead \in [Procs -> Nat]

\* Only a registered process that has not ended refreshes its check, and its
\* ticker and what is counted of it are fresh when it starts.
BeatsAlive ==
    \A p \in Procs :
        /\ proc[p] \in Early => /\ p \notin beat /\ p \notin passed
                                /\ timer[p] = 0 /\ due[p] = 0
                                /\ missed[p] = 0 /\ late[p] = 0
        /\ proc[p] = "exited" => p \notin beat

\* The clock of the exit starts with the exit, and a listed entry is at least
\* as old as it: nothing refreshes the check of a process that ended.
DeadAges ==
    \A p \in Procs :
        /\ proc[p] # "exited" => dead[p] = 0
        /\ proc[p] = "exited" /\ entry[p] # Absent => dead[p] <= entry[p]

\* An entry that is critical for too long survives at most until the reaper
\* looks again.
Reaped == \A p \in Procs : entry[p] # Absent => entry[p] <= TTL + Critical + reaper

\* The ticks since the period of the next refresh began, the ones that it
\* waited since it is due left out.
Pending(p) == IF due[p] > 0 THEN Refresh ELSE timer[p]

\* The entry of a running process is no older than the refreshes that failed,
\* the next one and the time that they waited make it, and it can have been
\* dropped only if that is more than Consul allows.
Lag(p) ==
    /\ timer[p] < Refresh
    /\ entry[p] # Absent
          => entry[p] <= FirstAge(p) + missed[p] * Refresh + Pending(p) + late[p]
    /\ entry[p] = Absent
          => TTL + Critical < FirstAge(p) + (missed[p] + 1) * Refresh + late[p]

BeatsInTime == \A p \in beat : Lag(p)

RInv == Typed /\ BeatsAlive /\ DeadAges /\ Reaped /\ BeatsInTime

-----------------------------------------------------------------------------
(***************************************************************************)
(* Arithmetic of the ticker and of the age of an entry.                    *)
(***************************************************************************)

\* The period of the ticker is a positive number, at most half of the TTL.
LEMMA Period ==
    /\ TTL \in Nat /\ Critical \in Nat /\ ReapPeriod \in Nat /\ ReapPeriod >= 1
    /\ Refresh \in Nat /\ Refresh >= 1 /\ 2 * Refresh <= TTL
    /\ Limit \in Nat /\ Limit = TTL + Critical + ReapPeriod
    /\ Refresh = TTL \div 2
  BY RegistryAssumption DEF Refresh, Limit

\* One more failed refresh allows for one more period.
LEMMA OneMore ==
    ASSUME NEW m \in Nat
    PROVE  /\ m * Refresh \in Nat
           /\ (m + 1) * Refresh = m * Refresh + Refresh
           /\ m = 0 => m * Refresh = 0
  BY Period

\* The age at which a process starts.
LEMMA FirstAgeType ==
    ASSUME NEW p
    PROVE  FirstAge(p) \in Nat
  BY Period DEF FirstAge

\* The reaper's clock turns round when it looks.
LEMMA ReaperTurns ==
    ASSUME NEW r \in 0..ReapPeriod - 1
    PROVE  /\ r + 1 = ReapPeriod => (r + 1) % ReapPeriod = 0
           /\ r + 1 # ReapPeriod => (r + 1) % ReapPeriod = r + 1
  BY Period

\* An entry that stays listed is a tick older and no older than the reaper
\* allows, and one that is dropped was critical for too long.
LEMMA AgedType ==
    ASSUME NEW e \in Age, reaper \in 0..ReapPeriod - 1,
           e # Absent => e <= TTL + Critical + reaper
    PROVE  /\ (reaper + 1) % ReapPeriod \in 0..ReapPeriod - 1
           /\ Aged(e) \in Age
           /\ Aged(e) # Absent
                 => /\ e # Absent /\ Aged(e) = e + 1
                    /\ Aged(e) <= TTL + Critical + ((reaper + 1) % ReapPeriod)
           /\ Aged(e) = Absent => e = Absent \/ e + 1 > TTL + Critical
  <1>1. CASE e = Absent
    BY <1>1, Period, ReaperTurns DEF Aged, Absent, Age
  <1>2. CASE e # Absent /\ reaper + 1 = ReapPeriod
    BY <1>2, Period, ReaperTurns DEF Aged, Absent, Age
  <1>3. CASE e # Absent /\ reaper + 1 # ReapPeriod
    BY <1>3, Period, ReaperTurns DEF Aged, Absent, Age
  <1> QED BY <1>1, <1>2, <1>3

-----------------------------------------------------------------------------
(***************************************************************************)
(* The steps.                                                              *)
(***************************************************************************)

\* Nothing is registered at the start.
LEMMA RegistryStart == RegistryInit => RInv
  <1> SUFFICES ASSUME RegistryInit
               PROVE  RInv
    OBVIOUS
  <1>1. Typed
    BY Period DEF RegistryInit, Typed, Position, Early, Age
  <1>2. BeatsAlive
    BY DEF RegistryInit, BeatsAlive
  <1>3. DeadAges
    BY DEF RegistryInit, DeadAges
  <1>4. BeatsInTime
    BY DEF RegistryInit, BeatsInTime
  <1>5. Reaped
    BY DEF RegistryInit, Reaped
  <1> QED BY <1>1, <1>2, <1>3, <1>4, <1>5 DEF RInv

\* What is known of the refreshes of a process stays when its part of the state
\* does.
LEMMA LagStays ==
    ASSUME NEW q, Lag(q), timer'[q] = timer[q], due'[q] = due[q],
           missed'[q] = missed[q], late'[q] = late[q], entry'[q] = entry[q],
           q \in passed' <=> q \in passed
    PROVE  Lag(q)'
  BY DEF Lag, FirstAge, Pending

\* A step that only moves a process along, without ending it.
LEMMA MoveOn ==
    ASSUME RInv, NEW p \in Procs, NEW x \in Early \cup Running,
           proc[p] # "exited", Goto(p, x),
           x \in Early => proc[p] \in Early,
           UNCHANGED <<loop, entry, reaper, dead>>
    PROVE  RInv'
  <1>1. /\ beat' = beat /\ timer' = timer /\ missed' = missed
        /\ due' = due /\ late' = late /\ passed' = passed
        /\ entry' = entry /\ dead' = dead /\ reaper' = reaper
    BY DEF loop
  <1>2. /\ proc' \in [Procs -> Position] /\ proc'[p] = x
        /\ \A q \in Procs : q # p => proc'[q] = proc[q]
    BY DEF Goto, RInv, Typed, Position
  <1>3. Typed'
    BY <1>1, <1>2 DEF RInv, Typed
  <1>4. BeatsAlive'
    BY <1>1, <1>2 DEF RInv, BeatsAlive, Early, Running
  <1>5. DeadAges'
    BY <1>1, <1>2 DEF RInv, DeadAges, Early, Running
  <1>6. BeatsInTime'
    BY <1>1, LagStays DEF RInv, BeatsInTime
  <1>7. Reaped'
    BY <1>1 DEF RInv, Reaped
  <1> QED BY <1>3, <1>4, <1>5, <1>6, <1>7 DEF RInv

\* A process ends in any of its ways; its entry stays as it is or is removed.
LEMMA EndKeeps ==
    ASSUME RInv, NEW p \in Procs, Ends(p), proc[p] # "exited",
           entry' = entry \/ entry' = [entry EXCEPT ![p] = Absent],
           UNCHANGED <<reaper, dead>>
    PROVE  RInv'
  <1>1. /\ beat' = beat \ {p} /\ passed' = passed \ {p}
        /\ timer' = [timer EXCEPT ![p] = 0] /\ due' = [due EXCEPT ![p] = 0]
        /\ missed' = [missed EXCEPT ![p] = 0] /\ late' = [late EXCEPT ![p] = 0]
        /\ dead' = dead /\ reaper' = reaper
    BY DEF Ends
  <1>2. /\ proc' \in [Procs -> Position] /\ proc'[p] = "exited"
        /\ \A q \in Procs : q # p => proc'[q] = proc[q]
    BY DEF Ends, Goto, RInv, Typed, Position
  <1>3. /\ entry' \in [Procs -> Age]
        /\ entry'[p] = entry[p] \/ entry'[p] = Absent
        /\ \A q \in Procs : q # p => entry'[q] = entry[q]
    BY DEF RInv, Typed, Age
  <1>4. /\ timer' \in [Procs -> Nat] /\ due' \in [Procs -> Nat]
        /\ missed' \in [Procs -> Nat] /\ late' \in [Procs -> Nat]
        /\ \A q \in Procs : q # p => /\ timer'[q] = timer[q] /\ due'[q] = due[q]
                                     /\ missed'[q] = missed[q] /\ late'[q] = late[q]
    BY <1>1 DEF RInv, Typed
  <1>5. Typed'
    BY <1>1, <1>2, <1>3, <1>4 DEF RInv, Typed
  <1>6. BeatsAlive'
    BY <1>1, <1>2, <1>4 DEF RInv, BeatsAlive, Early
  <1>7. DeadAges'
    <2>1. entry'[p] # Absent => dead'[p] <= entry'[p]
      <3>1. dead'[p] = 0
        BY <1>1 DEF RInv, DeadAges
      <3> QED BY <1>3, <3>1, Period DEF Age
    <2> QED BY <1>1, <1>2, <1>3, <2>1 DEF RInv, DeadAges
  <1>8. BeatsInTime'
    <2> SUFFICES ASSUME NEW q \in beat, q # p
                 PROVE  Lag(q)'
      BY <1>1 DEF BeatsInTime
    <2>1. q \in Procs /\ Lag(q)
      BY DEF RInv, Typed, BeatsInTime
    <2> QED BY <1>1, <1>3, <1>4, <2>1, LagStays
  <1>9. Reaped'
    BY <1>1, <1>3 DEF RInv, Reaped
  <1> QED BY <1>5, <1>6, <1>7, <1>8, <1>9 DEF RInv

\* A process registers: its entry is new and critical, its ticker starts.
LEMMA RegisterKeeps ==
    ASSUME RInv, NEW p \in Procs, Register(p)
    PROVE  RInv'
  <1>1. proc[p] = "register" /\ Goto(p, "build")
    BY DEF Register
  <1>2. CASE UNCHANGED <<entry, beat>>
    <2>1. UNCHANGED <<loop, entry, reaper, dead>>
      BY <1>2 DEF Register, loop
    <2>2. "build" \in Early \cup Running /\ "build" \notin Early
      BY DEF Early, Running
    <2>3. proc[p] # "exited"
      BY <1>1
    <2> QED BY <1>1, <2>1, <2>2, <2>3, MoveOn
  <1>3. CASE entry' = [entry EXCEPT ![p] = TTL] /\ beat' = beat \cup {p}
    <2>1. /\ timer' = timer /\ due' = due /\ missed' = missed /\ late' = late
          /\ passed' = passed /\ reaper' = reaper /\ dead' = dead
      BY DEF Register
    <2>2. /\ proc' \in [Procs -> Position] /\ proc'[p] = "build"
          /\ \A q \in Procs : q # p => proc'[q] = proc[q]
      BY <1>1 DEF Goto, RInv, Typed, Position, Running
    <2>3. /\ entry' \in [Procs -> Age] /\ entry'[p] = TTL
          /\ \A q \in Procs : q # p => entry'[q] = entry[q]
      <3>1. TTL \in Age
        BY Period DEF Age
      <3> QED BY <1>3, <3>1 DEF RInv, Typed
    <2>4. /\ timer[p] = 0 /\ due[p] = 0 /\ missed[p] = 0 /\ late[p] = 0
          /\ p \notin passed
      BY <1>1 DEF RInv, BeatsAlive, Early
    <2>5. Typed'
      BY <1>3, <2>1, <2>2, <2>3 DEF RInv, Typed
    <2>6. BeatsAlive'
      BY <1>3, <2>1, <2>2 DEF RInv, BeatsAlive, Early
    <2>7. DeadAges'
      BY <1>1, <2>1, <2>2, <2>3 DEF RInv, DeadAges
    <2>8. BeatsInTime'
      <3> SUFFICES ASSUME NEW q \in beat'
                   PROVE  Lag(q)'
        BY DEF BeatsInTime
      <3>1. CASE q = p
        BY <2>1, <2>3, <2>4, <3>1, Period DEF Lag, Absent, Pending, FirstAge
      <3>2. CASE q # p
        <4>1. q \in beat /\ q \in Procs /\ Lag(q)
          BY <1>3, <3>2 DEF RInv, Typed, BeatsInTime
        <4> QED BY <2>1, <2>3, <3>2, <4>1, LagStays
      <3> QED BY <3>1, <3>2
    <2>9. Reaped'
      <3>1. reaper \in Nat
        BY DEF RInv, Typed
      <3> QED BY <2>1, <2>3, <3>1, Period DEF RInv, Reaped
    <2> QED BY <2>5, <2>6, <2>7, <2>8, <2>9 DEF RInv
  <1> QED BY <1>2, <1>3 DEF Register

\* A refresh: the check passes, or the failure is counted, or the entry is gone.
LEMMA PassTTLKeeps ==
    ASSUME RInv, NEW p \in Procs, PassTTL(p)
    PROVE  RInv'
  <1>1. /\ p \in beat /\ due[p] > 0
        /\ due' = [due EXCEPT ![p] = @ - 1]
        /\ proc' = proc /\ beat' = beat /\ timer' = timer
        /\ reaper' = reaper /\ dead' = dead
    BY DEF PassTTL
  <1>2. /\ proc[p] \notin Early /\ proc[p] # "exited"
    BY <1>1 DEF RInv, BeatsAlive
  <1>0. /\ Lag(p) /\ entry[p] \in Age /\ missed[p] \in Nat /\ late[p] \in Nat
        /\ due[p] \in Nat /\ timer[p] \in Nat
    BY <1>1 DEF RInv, Typed, BeatsInTime
  <1>3. /\ due' \in [Procs -> Nat]
        /\ \A q \in Procs : q # p => due'[q] = due[q]
    BY <1>0, <1>1 DEF RInv, Typed
  <1>4. /\ missed' \in [Procs -> Nat] /\ late' \in [Procs -> Nat]
        /\ entry' \in [Procs -> Age] /\ passed' \subseteq Procs
        /\ \A q \in Procs : q # p => /\ missed'[q] = missed[q] /\ late'[q] = late[q]
                                     /\ entry'[q] = entry[q]
                                     /\ (q \in passed' <=> q \in passed)
        /\ \/ /\ entry'[p] = 0 /\ p \in passed' /\ missed'[p] = 0 /\ late'[p] = 0
              /\ entry[p] # Absent
           \/ /\ entry[p] # Absent /\ entry' = entry /\ missed'[p] = missed[p] + 1
              /\ late' = late /\ passed' = passed
           \/ /\ entry[p] = Absent /\ entry' = entry /\ missed' = missed
              /\ late' = late /\ passed' = passed
    <2>1. CASE /\ entry[p] # Absent
               /\ entry' = [entry EXCEPT ![p] = 0] /\ passed' = passed \cup {p}
               /\ missed' = [missed EXCEPT ![p] = 0] /\ late' = [late EXCEPT ![p] = 0]
      <3>1. 0 \in Age /\ 0 \in Nat
        BY Period DEF Age
      <3> QED BY <2>1, <3>1 DEF RInv, Typed
    <2>2. CASE /\ entry[p] # Absent /\ missed' = [missed EXCEPT ![p] = @ + 1]
               /\ entry' = entry /\ passed' = passed /\ late' = late
      BY <1>0, <2>2 DEF RInv, Typed
    <2>3. CASE /\ entry[p] = Absent /\ entry' = entry /\ missed' = missed
               /\ late' = late /\ passed' = passed
      BY <2>3 DEF RInv, Typed
    <2> QED BY <2>1, <2>2, <2>3 DEF PassTTL
  <1>5. Typed'
    BY <1>1, <1>3, <1>4 DEF RInv, Typed
  <1>6. BeatsAlive'
    BY <1>1, <1>2, <1>3, <1>4 DEF RInv, BeatsAlive
  <1>7. DeadAges'
    BY <1>1, <1>2, <1>4 DEF RInv, DeadAges
  <1>8. BeatsInTime'
    <2> SUFFICES ASSUME NEW q \in beat
                 PROVE  Lag(q)'
      BY <1>1 DEF BeatsInTime
    <2>1. CASE q # p
      <3>1. q \in Procs /\ Lag(q)
        BY DEF RInv, Typed, BeatsInTime
      <3> QED BY <1>1, <1>3, <1>4, <2>1, <3>1, LagStays
    <2>2. CASE q = p
      <3>1. Pending(p) = Refresh
        BY <1>1 DEF Pending
      <3>2. Pending(p)' \in Nat
        BY <1>0, <1>1, <1>3, Period DEF Pending
      <3>3. timer'[p] < Refresh
        BY <1>0, <1>1 DEF Lag
      <3>4. CASE /\ entry'[p] = 0 /\ p \in passed' /\ missed'[p] = 0 /\ late'[p] = 0
        BY <2>2, <3>2, <3>3, <3>4, Period DEF Lag, FirstAge, Absent
      <3>5. CASE /\ entry[p] # Absent /\ entry' = entry /\ missed'[p] = missed[p] + 1
                 /\ late' = late /\ passed' = passed
        <4>1. PICK f \in Nat : f = FirstAge(p) /\ FirstAge(p)' = f
          BY <3>5, FirstAgeType DEF FirstAge
        <4>2. PICK z \in Nat : /\ z = missed[p] * Refresh
                               /\ (missed[p] + 1) * Refresh = z + Refresh
          BY <1>0, OneMore
        <4>3. entry[p] <= f + z + Refresh + late[p]
          BY <1>0, <3>1, <3>5, <4>1, <4>2 DEF Lag
        <4>4. entry'[p] <= f + missed'[p] * Refresh + Pending(p)' + late'[p]
          <5>1. missed'[p] * Refresh = z + Refresh /\ late'[p] = late[p]
            BY <3>5, <4>2
          <5>2. entry'[p] = entry[p] /\ entry[p] \in Int
            BY <1>0, <3>5, Period DEF Age, Absent
          <5> QED BY <1>0, <3>2, <4>3, <5>1, <5>2, Period
        <4> QED BY <2>2, <3>3, <3>5, <4>1, <4>4 DEF Lag
      <3>6. CASE /\ entry[p] = Absent /\ entry' = entry /\ missed' = missed
                 /\ late' = late /\ passed' = passed
        BY <1>0, <2>2, <3>3, <3>6 DEF Lag, FirstAge
      <3> QED BY <1>4, <3>4, <3>5, <3>6
    <2> QED BY <2>1, <2>2
  <1>9. Reaped'
    <2>1. reaper \in Nat
      BY DEF RInv, Typed
    <2> QED BY <1>1, <1>4, <2>1, Period DEF RInv, Reaped
  <1> QED BY <1>5, <1>6, <1>7, <1>8, <1>9 DEF RInv

\* Time passes: an entry grows older together with the refresh that is awaited
\* or late, and one that Consul drops was critical for too long.
LEMMA TickKeeps ==
    ASSUME RInv, Tick
    PROVE  RInv'
  <1>1. proc' = proc /\ beat' = beat /\ missed' = missed /\ passed' = passed
    BY DEF Tick
  <1>0. reaper \in 0..ReapPeriod - 1 /\ reaper' = (reaper + 1) % ReapPeriod
    BY DEF Tick, RInv, Typed
  <1>2. ASSUME NEW q \in Procs
        PROVE  /\ entry[q] \in Age
               /\ reaper' \in 0..ReapPeriod - 1
               /\ Aged(entry[q]) \in Age
               /\ Aged(entry[q]) # Absent
                     => /\ entry[q] # Absent /\ Aged(entry[q]) = entry[q] + 1
                        /\ Aged(entry[q]) <= TTL + Critical + reaper'
               /\ Aged(entry[q]) = Absent
                     => entry[q] = Absent \/ entry[q] + 1 > TTL + Critical
    <2>1. entry[q] \in Age /\ (entry[q] # Absent => entry[q] <= TTL + Critical + reaper)
      BY DEF RInv, Typed, Reaped
    <2> QED BY <1>0, <2>1, AgedType
  <1>3. /\ entry' \in [Procs -> Age]
        /\ \A q \in Procs : entry'[q] = Aged(entry[q])
    BY <1>2 DEF Tick
  <1>4. /\ timer' \in [Procs -> Nat]
        /\ \A q \in Procs :
              timer'[q] = IF q \in beat /\ ~Fires(q) THEN timer[q] + 1 ELSE 0
    BY DEF Tick, RInv, Typed
  <1>5. /\ due' \in [Procs -> Nat]
        /\ \A q \in Procs :
              due'[q] = IF Fires(q) /\ due[q] < 2 THEN due[q] + 1 ELSE due[q]
    BY DEF Tick, RInv, Typed
  <1>6. /\ late' \in [Procs -> Nat]
        /\ \A q \in Procs :
              late'[q] = IF due[q] > 0 /\ entry[q] # Absent THEN late[q] + 1 ELSE late[q]
    BY DEF Tick, RInv, Typed
  <1>7. /\ dead' \in [Procs -> Nat]
        /\ \A q \in Procs :
              /\ proc[q] # "exited" => dead'[q] = dead[q]
              /\ dead'[q] <= dead[q] + 1
    BY DEF Tick, RInv, Typed
  <1>8. Typed'
    <2>1. reaper' \in 0..ReapPeriod - 1
      BY <1>0, Period, ReaperTurns
    <2> QED BY <1>1, <1>3, <1>4, <1>5, <1>6, <1>7, <2>1 DEF RInv, Typed
  <1>9. BeatsAlive'
    <2> SUFFICES ASSUME NEW q \in Procs
                 PROVE  /\ proc[q] \in Early =>
                              /\ q \notin beat /\ q \notin passed
                              /\ timer'[q] = 0 /\ due'[q] = 0
                              /\ missed[q] = 0 /\ late'[q] = 0
                        /\ proc[q] = "exited" => q \notin beat
      BY <1>1 DEF BeatsAlive
    <2>1. q \notin beat => ~Fires(q)
      BY DEF Fires
    <2> QED BY <1>4, <1>5, <1>6, <2>1 DEF RInv, BeatsAlive
  <1>10. DeadAges'
    <2> SUFFICES ASSUME NEW q \in Procs
                 PROVE  /\ proc[q] # "exited" => dead'[q] = 0
                        /\ proc[q] = "exited" /\ entry'[q] # Absent
                              => dead'[q] <= entry'[q]
      BY <1>1 DEF DeadAges
    <2>1. proc[q] # "exited" => dead'[q] = 0
      BY <1>7 DEF RInv, DeadAges
    <2>2. ASSUME proc[q] = "exited", entry'[q] # Absent
          PROVE  dead'[q] <= entry'[q]
      <3>1. dead[q] \in Nat /\ dead'[q] \in Nat
        BY <1>7 DEF RInv, Typed
      <3>2. entry[q] \in 0..Limit /\ entry'[q] = entry[q] + 1
        BY <1>2, <1>3, <2>2 DEF Age
      <3>3. entry[q] # Absent
        BY <1>2, <1>3, <2>2
      <3>4. dead[q] <= entry[q]
        BY <2>2, <3>3 DEF RInv, DeadAges
      <3> QED BY <1>7, <3>1, <3>2, <3>4, Period
    <2> QED BY <2>1, <2>2
  <1>11. Reaped'
    BY <1>2, <1>3 DEF Reaped
  <1>12. BeatsInTime'
    <2> SUFFICES ASSUME NEW q \in beat
                 PROVE  Lag(q)'
      BY <1>1 DEF BeatsInTime
    <2>0. /\ q \in Procs /\ Lag(q) /\ timer[q] \in Nat /\ missed[q] \in Nat
          /\ due[q] \in Nat /\ late[q] \in Nat /\ entry[q] \in Age
      BY DEF RInv, Typed, BeatsInTime
    <2>1. timer[q] < Refresh
      BY <2>0 DEF Lag
    <2>2. PICK z \in Nat : /\ z = missed[q] * Refresh
                           /\ (missed[q] + 1) * Refresh = z + Refresh
      BY <2>0, OneMore
    <2>3. PICK f \in Nat : f = FirstAge(q) /\ FirstAge(q)' = f
      BY <1>1, FirstAgeType DEF FirstAge
    <2>4. timer'[q] < Refresh /\ timer'[q] \in Nat
      BY <1>4, <2>0, <2>1, Period DEF Fires
    <2>5. entry[q] # Absent => /\ Pending(q) \in Nat /\ Pending(q)' \in Nat
                               /\ Pending(q) + late[q] + 1 <= Pending(q)' + late'[q]
                               /\ Pending(q) + late[q] + 1 <= Refresh + late'[q]
      <3>1. CASE due[q] > 0
        <4>1. due'[q] > 0
          BY <1>5, <2>0, <3>1
        <4> QED BY <1>6, <2>0, <3>1, <4>1, Period DEF Pending
      <3>2. CASE due[q] = 0 /\ Fires(q)
        <4>1. due'[q] > 0 /\ late'[q] = late[q]
          BY <1>5, <1>6, <2>0, <3>2
        <4> QED BY <2>0, <2>1, <3>2, <4>1, Period DEF Pending, Fires
      <3>3. CASE due[q] = 0 /\ ~Fires(q)
        <4>1. due'[q] = 0 /\ late'[q] = late[q] /\ timer'[q] = timer[q] + 1
          BY <1>4, <1>5, <1>6, <2>0, <3>3
        <4> QED BY <2>0, <2>1, <3>3, <4>1, Period DEF Pending
      <3> QED BY <2>0, <3>1, <3>2, <3>3
    <2>6. late'[q] \in Nat
      BY <1>6, <2>0
    <2>7. ASSUME entry'[q] # Absent
          PROVE  entry'[q] <= f + z + Pending(q)' + late'[q]
      <3>1. entry[q] # Absent /\ entry'[q] = entry[q] + 1
        BY <1>2, <1>3, <2>0, <2>7
      <3>2. entry[q] <= f + z + Pending(q) + late[q] /\ entry[q] \in Int
        BY <2>0, <2>2, <2>3, <3>1 DEF Lag, Age
      <3> QED BY <2>0, <2>5, <2>6, <3>1, <3>2
    <2>8. ASSUME entry'[q] = Absent
          PROVE  TTL + Critical < f + (z + Refresh) + late'[q]
      <3>1. CASE entry[q] = Absent
        <4>1. late'[q] = late[q]
          BY <1>6, <2>0, <3>1
        <4> QED BY <2>0, <2>2, <2>3, <3>1, <4>1 DEF Lag
      <3>2. CASE entry[q] # Absent
        <4>1. entry[q] + 1 > TTL + Critical /\ entry[q] \in Int
          BY <1>2, <1>3, <2>0, <2>8, <3>2 DEF Age
        <4>2. entry[q] <= f + z + Pending(q) + late[q]
          BY <2>0, <2>2, <2>3, <3>2 DEF Lag
        <4> QED BY <2>0, <2>5, <2>6, <3>2, <4>1, <4>2, Period
      <3> QED BY <3>1, <3>2
    <2> QED BY <1>1, <2>2, <2>3, <2>4, <2>7, <2>8 DEF Lag
  <1> QED BY <1>8, <1>9, <1>10, <1>11, <1>12 DEF RInv

\* Every step keeps the invariant.
LEMMA RegistryStep == RInv /\ [RegistryNext]_registryVars => RInv'
  <1> SUFFICES ASSUME RInv, [RegistryNext]_registryVars
               PROVE  RInv'
    OBVIOUS
  <1>1. CASE UNCHANGED registryVars
    <2>1. UNCHANGED <<proc, beat, timer, due, passed, missed, late, entry, reaper, dead>>
      BY <1>1 DEF registryVars, loop
    <2>2. Typed' /\ BeatsAlive' /\ DeadAges' /\ Reaped'
      BY <2>1 DEF RInv, Typed, BeatsAlive, DeadAges, Reaped
    <2>3. BeatsInTime'
      BY <2>1, LagStays DEF RInv, BeatsInTime
    <2> QED BY <2>2, <2>3 DEF RInv
  <1>2. CASE Tick
    BY <1>2, TickKeeps
  <1>3. ASSUME NEW p \in Procs,
               \/ Load(p) \/ Connect(p) \/ Ready(p) \/ Deregister(p)
               \/ DeregisterMock(p) \/ Fails(p) \/ Kill(p),
               Ends(p)
        PROVE  RInv'
    <2>1. proc[p] # "exited"
      BY <1>3 DEF Load, Connect, Ready, Deregister, DeregisterMock, Fails, Kill
    <2>2. entry' = entry \/ entry' = [entry EXCEPT ![p] = Absent]
      BY <1>3 DEF Load, Connect, Ready, Deregister, DeregisterMock, Fails, Kill
    <2>3. UNCHANGED <<reaper, dead>>
      BY <1>3 DEF Load, Connect, Ready, Deregister, DeregisterMock, Fails, Kill
    <2> QED BY <1>3, <2>1, <2>2, <2>3, EndKeeps
  <1>4. ASSUME NEW p \in Procs,
               \/ Load(p) \/ Connect(p) \/ RunWithoutConsul(p)
               \/ NewGinServer(p) \/ Ready(p) \/ Signal(p) \/ Shutdown(p),
               ~Ends(p)
        PROVE  RInv'
    <2>1. PICK x \in {"connect", "register", "build", "ready", "up",
                      "shutdown", "deregister"} :
             Goto(p, x) /\ (x \in Early => proc[p] \in Early)
      BY <1>4
      DEF Load, Connect, RunWithoutConsul, NewGinServer, Ready, Signal,
          Shutdown, Early
    <2>2. proc[p] # "exited"
      BY <1>4
      DEF Load, Connect, RunWithoutConsul, NewGinServer, Ready, Signal, Shutdown
    <2>3. UNCHANGED <<loop, entry, reaper, dead>>
      BY <1>4
      DEF Load, Connect, RunWithoutConsul, NewGinServer, Ready, Signal, Shutdown
    <2>4. x \in Early \cup Running
      BY <2>1 DEF Early, Running
    <2> QED BY <2>1, <2>2, <2>3, <2>4, MoveOn
  <1>5. ASSUME NEW p \in Procs, Deregister(p) \/ DeregisterMock(p) \/ Fails(p) \/ Kill(p)
        PROVE  Ends(p)
    BY <1>5 DEF Deregister, DeregisterMock, Fails, Kill
  <1>6. ASSUME NEW p \in Procs, Register(p) \/ PassTTL(p)
        PROVE  RInv'
    BY <1>6, RegisterKeeps, PassTTLKeeps
  <1>7. ASSUME NEW p \in Procs,
               \/ Load(p) \/ Connect(p) \/ RunWithoutConsul(p)
               \/ NewGinServer(p) \/ Ready(p) \/ Signal(p) \/ Shutdown(p)
               \/ Deregister(p) \/ DeregisterMock(p) \/ Fails(p) \/ Kill(p)
        PROVE  RInv'
    <2>1. CASE Load(p) \/ Connect(p) \/ Ready(p)
      BY <1>3, <1>4, <2>1
    <2>2. CASE Deregister(p) \/ DeregisterMock(p) \/ Fails(p) \/ Kill(p)
      BY <1>3, <1>5, <2>2
    <2>3. CASE \/ RunWithoutConsul(p) \/ NewGinServer(p)
               \/ Signal(p) \/ Shutdown(p)
      <3>1. PICK x \in Running : Goto(p, x)
        BY <2>3 DEF RunWithoutConsul, NewGinServer, Signal, Shutdown, Running
      <3>2. ~Ends(p)
        BY <3>1 DEF Goto, Ends, Running, RInv, Typed
      <3> QED BY <1>4, <2>3, <3>2
    <2> QED BY <1>7, <2>1, <2>2, <2>3
  <1> QED BY <1>1, <1>2, <1>6, <1>7 DEF RegistryNext

-----------------------------------------------------------------------------
(***************************************************************************)
(* The theorems.                                                           *)
(***************************************************************************)

\* The invariant holds in every behaviour.
LEMMA RegistryInvariant == RegistrySpec => []RInv
  BY RegistryStart, RegistryStep, PTL DEF RegistrySpec

\* A process that ended in any way is gone from GET /v1/agents once its TTL, the
\* minute that Consul lets it be critical and the period of Consul's reaper are
\* over: its entry is at least as old as the process is dead, and no entry
\* outlives Limit (consul.go:55-59, 93-107).
THEOREM RegistryDeadLeaves == RegistrySpec => []DeadLeaves
  <1>1. RInv => DeadLeaves
    <2> SUFFICES ASSUME RInv, NEW p \in Procs, entry[p] # Absent,
                        proc[p] = "exited"
                 PROVE  dead[p] <= Limit
      BY DEF DeadLeaves, ListAgents, Discover
    <2>1. dead[p] \in Nat /\ entry[p] \in 0..Limit
      BY DEF RInv, Typed, Age
    <2>2. dead[p] <= entry[p]
      BY DEF RInv, DeadAges
    <2> QED BY <2>1, <2>2, Period
  <1> QED BY <1>1, RegistryInvariant, PTL

\* A process that refreshes its check stays listed, from its registration on,
\* unless its refreshes fail and wait for longer than Consul allows, and once
\* it has passed it is not critical as long as none fails and they wait for
\* less than half of the TTL (consul.go:55-59, 99-107).
THEOREM RegistryLiveStaysListed == RegistrySpec => []LiveStaysListed
  <1>1. RInv => LiveStaysListed
    <2> SUFFICES ASSUME RInv, NEW p \in beat
                 PROVE  /\ p \in passed /\ missed[p] = 0 /\ late[p] < TTL \div 2
                              => entry[p] \in 0..TTL - 1
                        /\ FirstAge(p) + (missed[p] + 1) * Refresh + late[p]
                                 <= TTL + Critical
                              => entry[p] # Absent
      BY DEF LiveStaysListed, ListAgents, Discover, RInv, Typed
    <2>0. /\ p \in Procs /\ Lag(p) /\ timer[p] \in Nat /\ missed[p] \in Nat
          /\ due[p] \in Nat /\ late[p] \in Nat /\ entry[p] \in Age
      BY DEF RInv, Typed, BeatsInTime
    <2>1. PICK z \in Nat : /\ z = missed[p] * Refresh
                           /\ (missed[p] + 1) * Refresh = z + Refresh
                           /\ (missed[p] = 0 => z = 0)
      BY <2>0, OneMore
    <2>2. PICK f \in Nat : f = FirstAge(p)
      BY FirstAgeType
    <2>3. f + (z + Refresh) + late[p] <= TTL + Critical => entry[p] # Absent
      BY <2>0, <2>1, <2>2, Period DEF Lag
    <2>4. ASSUME p \in passed, missed[p] = 0, late[p] < TTL \div 2
          PROVE  entry[p] \in 0..TTL - 1
      <3>1. f = 0 /\ z = 0 /\ late[p] < Refresh
        BY <2>1, <2>2, <2>4, Period DEF FirstAge
      <3>2. entry[p] # Absent
        BY <2>0, <2>3, <3>1, Period
      <3>3. Pending(p) \in Nat /\ Pending(p) <= Refresh
        BY <2>0, Period DEF Pending, Lag
      <3>4. entry[p] <= f + z + Pending(p) + late[p]
        BY <2>0, <2>1, <2>2, <3>2 DEF Lag
      <3>5. entry[p] \in 0..Limit
        BY <2>0, <3>2 DEF Age
      <3> QED BY <2>0, <3>1, <3>3, <3>4, <3>5, Period
    <2> QED BY <2>1, <2>2, <2>3, <2>4
  <1> QED BY <1>1, RegistryInvariant, PTL
=============================================================================
