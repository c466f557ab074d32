---------------------------- MODULE Orchestrator ----------------------------
(***************************************************************************)
(* One diagnostic session driven end to end by the orchestrator process    *)
(* and the agents around it: the HTTP handlers and the approval gate and   *)
(* fix execution of internal/server/orchestrator.go, the observation       *)
(* handler of internal/server/event_loop.go, the three sweeps of           *)
(* internal/workflow/engine.go, and the agents of internal/agent.          *)
(*                                                                         *)
(* Sessions share no row, so one session is enough.  Engine.Transition is  *)
(* one step here, with the outcomes Engine.tla shows a caller can see.     *)
(* Every other database call, publication and agent run is a step of its   *)
(* own that may fail; MaxFaults bounds the failures of a behaviour and     *)
(* MaxCrashes the crashes of the orchestrator process.                     *)
(***************************************************************************)
EXTENDS SessionTable, FiniteSets

CONSTANTS
    Collectors,   \* the log, metric and trace agents
    NActions,     \* longest fix plan
    Operators,    \* people who call DecisionApproval
    StartAt,      \* the status the session starts from
    PersistFixes, \* the fix agent has a database pool
    MaxRetries,   \* bound on calls of RetrySession
    MaxFaults,    \* bound on failing calls and repeated deliveries
    MaxCrashes    \* bound on crashes of the orchestrator

ASSUME OrchestratorAssumption ==
    /\ NActions \in Nat \ {0}
    /\ StartAt \in {"CREATED", "ANALYZING"}
    /\ PersistFixes \in BOOLEAN
    /\ MaxRetries \in Nat /\ MaxFaults \in Nat /\ MaxCrashes \in Nat

Actions == 1..NActions    \* fix_actions.seq

VARIABLES
    status,    \* diagnostic_sessions.status
    stale,     \* diagnostic_sessions.updated_at is more than 30 minutes old
    retries,   \* diagnostic_sessions.retry_count
    risk,      \* fix_actions.risk: HIGH, or LOW for any other level; "NONE"
               \* while the row does not exist
    approval,  \* fix_actions.approval_status
    exec,      \* fix_actions.execution_status
    ticket,    \* fix_actions.ticket_id is set
    decision,  \* approvals.status of the action, "NONE" without a row
    cmds,      \* agents with an unread command
    obs,       \* observations the event loop has not read
    unacked,   \* observations read whose offset was not committed
    rcaIn,     \* RCA results the fix agent has not read
    fixPlan, fixTodo, \* fix agent: planned steps, steps not persisted yet
    lpc, lmsg, lstat, \* event loop: position, message, status it read
    todo, outcome,    \* event loop: fix actions left, result of the executor
    startPc,          \* StartSession: read and dispatch still to be done
    retryPc,          \* RetrySession: RETRY still to be sent
    spc, sevent,      \* sweep loop: position, event decided on
    opc, oact, odec,  \* DecisionApproval: position, action, decision
    faults, crashes,  \* how many have happened
    ran,       \* history: calls of executor.Execute per action
    failed,    \* history: actions the executor reported as FAILED
    unrecorded, \* history: actions whose result could not be written
    approved   \* history: actions some operator approved

row == <<status, stale, retries>>
fixes == <<risk, approval, exec, ticket, decision>>
bus == <<cmds, obs, unacked, rcaIn>>
fixAgent == <<fixPlan, fixTodo>>
loop == <<lpc, lmsg, lstat, todo, outcome>>
sweeper == <<spc, sevent>>
http == <<startPc, retryPc, opc, oact, odec>>
results == <<ran, failed, unrecorded>>
past == <<results, approved>>

vars == <<row, fixes, bus, fixAgent, loop, sweeper, http, faults, crashes,
          past>>

Evidence == { <<"EVIDENCE", c>> : c \in Collectors }
FixActionObs == { <<"FIX_ACTION", a>> : a \in Actions }
RCAResult == <<"RCA_RESULT", "rca">>
Observation == Evidence \cup FixActionObs \cup {RCAResult}
NoObs == <<"NONE", "none">>

LoopPC == {"idle", "handle", "analyze", "evaluate", "gate", "request", "mark",
           "start", "read", "running", "run", "record", "incident", "commit"}

TypeOK ==
    /\ status \in Status /\ stale \in BOOLEAN /\ retries \in 0..MaxRetries
    /\ risk \in [Actions -> {"NONE", "LOW", "HIGH"}]
    /\ approval \in [Actions -> {"NONE", "PENDING", "APPROVED", "REJECTED"}]
    /\ decision \in [Actions -> {"NONE", "PENDING", "APPROVED", "REJECTED"}]
    /\ exec \in [Actions -> {"NOT_STARTED", "RUNNING", "SUCCEEDED", "FAILED"}]
    /\ ticket \in [Actions -> BOOLEAN]
    /\ cmds \subseteq Collectors \cup {"rca"}
    /\ obs \subseteq Observation /\ unacked \subseteq Observation
    /\ rcaIn \in Nat
    /\ fixPlan \subseteq Actions /\ fixTodo \subseteq Actions
    /\ lpc \in LoopPC /\ lmsg \in Observation \cup {NoObs}
    /\ lstat \in Status
    /\ todo \subseteq Actions
    /\ outcome \in {"NONE", "SUCCEEDED", "FAILED"}
    /\ startPc \in {"idle", "load", "dispatch"} /\ retryPc \in {"idle", "retry"}
    /\ spc \in {"idle", "fail", "route", "verdict", "settle"}
    /\ sevent \in {"NONE", "VERIFY_SUCCESS", "VERIFY_FAILURE"}
    /\ opc \in [Operators -> {"idle", "action", "advance"}]
    /\ oact \in [Operators -> Actions]
    /\ odec \in [Operators -> {"APPROVED", "REJECTED"}]
    /\ faults \in 0..MaxFaults /\ crashes \in 0..MaxCrashes
    /\ ran \in [Actions -> Nat] /\ approved \subseteq Actions
    /\ failed \subseteq Actions /\ unrecorded \subseteq Actions

\* A session just created, or one whose analysis has just been requested.
Init ==
    /\ status = StartAt /\ stale = FALSE /\ retries = 0
    /\ risk = [a \in Actions |-> "NONE"]
    /\ approval = [a \in Actions |-> "NONE"]
    /\ decision = [a \in Actions |-> "NONE"]
    /\ exec = [a \in Actions |-> "NOT_STARTED"]
    /\ ticket = [a \in Actions |-> FALSE]
    /\ cmds = IF StartAt = "ANALYZING" THEN {"rca"} ELSE {}
    /\ obs = {} /\ unacked = {} /\ rcaIn = 0
    /\ fixPlan = {} /\ fixTodo = {}
    /\ lpc = "idle" /\ lmsg = NoObs /\ lstat = "NONE"
    /\ todo = {} /\ outcome = "NONE"
    /\ startPc = "idle" /\ retryPc = "idle"
    /\ spc = "idle" /\ sevent = "NONE"
    /\ opc = [o \in Operators |-> "idle"]
    /\ oact = [o \in Operators |-> 1]
    /\ odec = [o \in Operators |-> "REJECTED"]
    /\ faults = 0 /\ crashes = 0
    /\ ran = [a \in Actions |-> 0] /\ approved = {}
    /\ failed = {} /\ unrecorded = {}

-----------------------------------------------------------------------------
(***************************************************************************)
(* Failures, and Engine.Transition as seen by its callers.                 *)
(***************************************************************************)
Fault == faults < MaxFaults /\ faults' = faults + 1
NoFault == UNCHANGED faults

Rows == { a \in Actions : risk[a] # "NONE" }

\* The COUNT of determineFixProposedNextStatus.
HighPending == \E a \in Actions : risk[a] = "HIGH" /\ exec[a] = "NOT_STARTED"

NextStatuses(e) ==
    IF IsRiskRouted(status, e)
    THEN {RoutedStatus(HighPending)}
    ELSE Targets[status][e]

Reply == {"ok", "invalid", "error"}

\* Transition(e) ends with reply r: the move is made; the table refuses it;
\* nothing happens and the caller gets another error; or the move is made, the
\* reply to the commit is lost, and the caller gets an error.  The third is no
\* fault that a bound could limit: a row that any other worker holds at the
\* moment is passed over (SKIP LOCKED) and reported as ErrSessionNotFound,
\* which is not retried.
Transition(e, r) ==
    \/ /\ r = "ok"
       /\ status' \in NextStatuses(e) /\ stale' = FALSE
       /\ NoFault
    \/ /\ r = "invalid" /\ NextStatuses(e) = {}
       /\ UNCHANGED <<status, stale>> /\ NoFault
    \/ /\ r = "error"
       /\ UNCHANGED <<status, stale>> /\ NoFault
    \/ /\ r \in {"invalid", "error"}
       /\ status' \in NextStatuses(e) /\ stale' = FALSE
       /\ Fault

-----------------------------------------------------------------------------
(***************************************************************************)
(* HTTP handlers.                                                          *)
(***************************************************************************)

\* StartSession: the transition; an error answers the client and ends it.
StartSession ==
    /\ startPc = "idle"
    /\ \E r \in Reply :
          /\ Transition("START_COLLECT", r)
          /\ startPc' = IF r = "ok" THEN "load" ELSE "idle"
    /\ UNCHANGED <<retries, fixes, bus, fixAgent, loop, sweeper, retryPc, opc,
                   oact, odec, crashes, past>>

\* It reads the session for its target; when that fails it answers an error
\* and nothing is dispatched, although the session is COLLECTING.
LoadTarget ==
    /\ startPc = "load"
    /\ \/ startPc' = "dispatch" /\ NoFault
       \/ startPc' = "idle" /\ Fault
    /\ UNCHANGED <<row, fixes, bus, fixAgent, loop, sweeper, retryPc, opc,
                   oact, odec, crashes, past>>

\* DispatchCollect publishes to every collector and goes on when one fails.
DispatchCollect ==
    /\ startPc = "dispatch"
    /\ startPc' = "idle"
    /\ \/ cmds' = cmds \cup Collectors /\ NoFault
       \/ \E sent \in SUBSET Collectors : cmds' = cmds \cup sent /\ Fault
    /\ UNCHANGED <<row, fixes, obs, unacked, rcaIn, fixAgent, loop, sweeper,
                   retryPc, opc, oact, odec, crashes, past>>

\* RetrySession first counts the retry and touches updated_at, whatever the
\* status is; an error answers the client and ends it.
IncrementRetry ==
    /\ retryPc = "idle" /\ retries < MaxRetries
    /\ \/ retries' = retries + 1 /\ stale' = FALSE /\ retryPc' = "retry" /\ NoFault
       \/ UNCHANGED <<retries, stale, retryPc>> /\ Fault
    /\ UNCHANGED <<status, fixes, bus, fixAgent, loop, sweeper, startPc, opc,
                   oact, odec, crashes, past>>

\* Mutant: the retry resets the status by hand.
BugRetrySession ==
    /\ retryPc = "retry" /\ retryPc' = "idle"
    /\ status' = "CREATED"
    /\ UNCHANGED <<stale, retries, fixes, bus, fixAgent, loop, sweeper,
                   startPc, opc, oact, odec, faults, crashes, past>>

\* Then the RETRY event goes to the engine, and the client is answered.
RetrySession ==
    /\ retryPc = "retry" /\ retryPc' = "idle"
    /\ \E r \in Reply : Transition("RETRY", r)
    /\ UNCHANGED <<retries, fixes, bus, fixAgent, loop, sweeper, startPc, opc,
                   oact, odec, crashes, past>>

\* IgnoreSession.
IgnoreSession ==
    /\ \E r \in Reply : Transition("IGNORE", r)
    /\ UNCHANGED <<retries, fixes, bus, fixAgent, loop, sweeper, http,
                   crashes, past>>

\* DecisionApproval up to UpdateDecision: the record exists; its present
\* status is not looked at.
DecisionApproval(o, a, d) ==
    /\ opc[o] = "idle"
    /\ decision[a] # "NONE"
    /\ opc' = [opc EXCEPT ![o] = "action"]
    /\ oact' = [oact EXCEPT ![o] = a]
    /\ odec' = [odec EXCEPT ![o] = d]
    /\ decision' = [decision EXCEPT ![a] = d]
    /\ approved' = IF d = "APPROVED" THEN approved \cup {a} ELSE approved
    /\ UNCHANGED <<row, risk, approval, exec, ticket, bus, fixAgent, loop,
                   sweeper, startPc, retryPc, faults, crashes, results>>

\* UpdateApprovalStatus of the fix action; its error is ignored.
DecideFixAction(o) ==
    /\ opc[o] = "action"
    /\ opc' = [opc EXCEPT ![o] = "advance"]
    /\ \/ approval' = [approval EXCEPT ![oact[o]] = odec[o]] /\ NoFault
       \/ UNCHANGED approval /\ Fault
    /\ UNCHANGED <<row, risk, exec, ticket, decision, bus, fixAgent, loop,
                   sweeper, startPc, retryPc, oact, odec, crashes, past>>

\* The APPROVE or REJECT event; its result is ignored and the handler answers.
DecideSession(o) ==
    /\ opc[o] = "advance"
    /\ opc' = [opc EXCEPT ![o] = "idle"]
    /\ oact' = [oact EXCEPT ![o] = 1]
    /\ odec' = [odec EXCEPT ![o] = "REJECTED"]
    /\ \E r \in Reply :
          Transition(IF odec[o] = "APPROVED" THEN "APPROVE" ELSE "REJECT", r)
    /\ UNCHANGED <<retries, fixes, bus, fixAgent, loop, sweeper, startPc,
                   retryPc, crashes, past>>

-----------------------------------------------------------------------------
(***************************************************************************)
(* Agents.  A failed Handle, a publication that failed three times and a   *)
(* crash after the consumer committed the offset all lose the work.        *)
(***************************************************************************)

\* A log, metric or trace agent answers its collect command.
CollectorRuns(c) ==
    /\ c \in cmds
    /\ cmds' = cmds \ {c}
    /\ \/ obs' = obs \cup {<<"EVIDENCE", c>>} /\ NoFault
       \/ UNCHANGED obs /\ Fault
    /\ UNCHANGED <<row, fixes, unacked, rcaIn, fixAgent, loop, sweeper, http,
                   crashes, past>>

\* The RCA agent answers the analyze command on the topic that the event loop
\* and the fix agent both read.
RCARuns ==
    /\ "rca" \in cmds
    /\ cmds' = cmds \ {"rca"}
    /\ \/ obs' = obs \cup {RCAResult} /\ rcaIn' = rcaIn + 1 /\ NoFault
       \/ UNCHANGED <<obs, rcaIn>> /\ Fault
    /\ UNCHANGED <<row, fixes, unacked, fixAgent, loop, sweeper, http,
                   crashes, past>>

\* FixAgent.Handle takes an RCA result and plans steps 1..k, perhaps none; if
\* the offset is not committed the result will be delivered again.
FixAgentPlans ==
    /\ fixPlan = {} /\ rcaIn > 0
    /\ \/ rcaIn' = rcaIn - 1 /\ NoFault
       \/ UNCHANGED rcaIn /\ Fault
    /\ \E k \in 0..NActions : fixPlan' = 1..k /\ fixTodo' = 1..k
    /\ UNCHANGED <<row, fixes, cmds, obs, unacked, loop, sweeper, http,
                   crashes, past>>

\* FixAgent.Handle inserts the row of the next step.  The insert fails when
\* UNIQUE (session_id, seq) already holds; a failure is only logged.
FixAgentPersists ==
    /\ fixTodo # {}
    /\ \E a \in fixTodo :
          /\ \A b \in fixTodo : a <= b
          /\ fixTodo' = fixTodo \ {a}
          /\ \/ /\ PersistFixes /\ a \notin Rows
                /\ \E level \in {"LOW", "HIGH"} :
                      risk' = [risk EXCEPT ![a] = level]
                /\ NoFault
             \/ ~PersistFixes /\ UNCHANGED risk /\ NoFault
             \/ a \in Rows /\ UNCHANGED risk /\ NoFault
             \/ UNCHANGED risk /\ Fault
    /\ UNCHANGED <<row, approval, exec, ticket, decision, bus, fixPlan, loop,
                   sweeper, http, crashes, past>>

\* The runner publishes one FIX_ACTION per step once Handle has returned.
FixAgentPublishes ==
    /\ fixPlan # {} /\ fixTodo = {}
    /\ fixPlan' = {}
    /\ \/ obs' = obs \cup { <<"FIX_ACTION", a>> : a \in fixPlan } /\ NoFault
       \/ \E some \in SUBSET fixPlan :
             obs' = obs \cup { <<"FIX_ACTION", a>> : a \in some } /\ Fault
    /\ UNCHANGED <<row, fixes, cmds, unacked, rcaIn, fixTodo, loop, sweeper,
                   http, crashes, past>>

-----------------------------------------------------------------------------
(***************************************************************************)
(* The event loop: one goroutine, one observation at a time.               *)
(***************************************************************************)
Goto(p) == lpc' = p /\ UNCHANGED <<lmsg, lstat, todo, outcome, unacked>>

\* handleObservation returns nil: the offset is committed next.
ReturnNil ==
    /\ lpc' = "commit"
    /\ lstat' = "NONE" /\ todo' = {} /\ outcome' = "NONE"
    /\ UNCHANGED <<lmsg, unacked>>

\* handleObservation returns an error: the offset is not committed.
ReturnError ==
    /\ lpc' = "idle" /\ lmsg' = NoObs
    /\ lstat' = "NONE" /\ todo' = {} /\ outcome' = "NONE"
    /\ unacked' = unacked \cup {lmsg}

\* What the steps of the event loop never touch.
OthersUnchanged ==
    UNCHANGED <<retries, risk, cmds, rcaIn, fixAgent, sweeper, http, crashes,
                approved>>

RowsUnchanged == UNCHANGED <<approval, exec, ticket, decision, results>>

\* Run takes a message and handleObservation reads the status of its session.
Receive(m) ==
    /\ lpc = "idle" /\ m \in obs
    /\ obs' = obs \ {m}
    /\ \/ /\ lpc' = "handle" /\ lmsg' = m /\ lstat' = status
          /\ UNCHANGED unacked /\ NoFault
       \/ /\ unacked' = unacked \cup {m}
          /\ UNCHANGED <<lpc, lmsg, lstat>> /\ Fault
    /\ UNCHANGED <<status, stale, todo, outcome>>
    /\ RowsUnchanged /\ OthersUnchanged

\* Mutant: the analysis is not requested.
BugHandleEvidence ==
    /\ lpc = "handle" /\ lstat = "COLLECTING" /\ lmsg \in Evidence
    /\ \E r \in Reply :
          /\ Transition("COLLECT_COMPLETE", r)
          /\ IF r = "ok" THEN ReturnNil ELSE ReturnError
    /\ UNCHANGED obs /\ RowsUnchanged /\ OthersUnchanged

\* The first evidence in COLLECTING completes the collection.
HandleEvidence ==
    /\ lpc = "handle" /\ lstat = "COLLECTING" /\ lmsg \in Evidence
    /\ \E r \in Reply :
          /\ Transition("COLLECT_COMPLETE", r)
          /\ IF r = "ok" THEN Goto("analyze") ELSE ReturnError
    /\ UNCHANGED obs /\ RowsUnchanged /\ OthersUnchanged

\* DispatchAnalyze; a failed publication is only logged.
DispatchAnalyze ==
    /\ lpc = "analyze"
    /\ ReturnNil
    /\ \/ cmds' = cmds \cup {"rca"} /\ NoFault
       \/ UNCHANGED cmds /\ Fault
    /\ UNCHANGED <<row, risk, obs, rcaIn, fixAgent, sweeper, http, crashes,
                   approved>>
    /\ RowsUnchanged

\* The first RCA result in ANALYZING completes the analysis.
HandleRCAResult ==
    /\ lpc = "handle" /\ lstat = "ANALYZING" /\ lmsg = RCAResult
    /\ \E r \in Reply :
          /\ Transition("ANALYSIS_COMPLETE", r)
          /\ IF r = "ok" THEN ReturnNil ELSE ReturnError
    /\ UNCHANGED obs /\ RowsUnchanged /\ OthersUnchanged

\* Mutant: a repeated FIX_ACTION takes an interrupted execution up again,
\* through the read of the actions that does not look at the transition.
BugHandleFixAction ==
    /\ lpc = "handle" /\ lmsg \in FixActionObs
    /\ \/ /\ lstat = "RCA_DONE"
          /\ \E r \in Reply :
                /\ Transition("RCA_GENERATED", r)
                /\ IF r = "ok" THEN Goto("evaluate") ELSE ReturnError
       \/ /\ lstat = "FIX_EXECUTING"
          /\ Goto("read")
          /\ UNCHANGED <<status, stale>> /\ NoFault
    /\ UNCHANGED obs /\ RowsUnchanged /\ OthersUnchanged

\* Mutant: an error is logged and the observation committed all the same.
BugHandleFixActionCommits ==
    /\ lpc = "handle" /\ lstat = "RCA_DONE" /\ lmsg \in FixActionObs
    /\ \E r \in Reply :
          /\ Transition("RCA_GENERATED", r)
          /\ IF r = "ok" THEN Goto("evaluate") ELSE ReturnNil
    /\ UNCHANGED obs /\ RowsUnchanged /\ OthersUnchanged

\* Step 1 of FIX_ACTION in RCA_DONE.
HandleFixAction ==
    /\ lpc = "handle" /\ lstat = "RCA_DONE" /\ lmsg \in FixActionObs
    /\ \E r \in Reply :
          /\ Transition("RCA_GENERATED", r)
          /\ IF r = "ok" THEN Goto("evaluate") ELSE ReturnError
    /\ UNCHANGED obs /\ RowsUnchanged /\ OthersUnchanged

\* Every other pair of status and observation is dropped.
DropObservation ==
    /\ lpc = "handle"
    /\ ~(lstat = "COLLECTING" /\ lmsg \in Evidence)
    /\ ~(lstat = "ANALYZING" /\ lmsg = RCAResult)
    /\ ~(lstat = "RCA_DONE" /\ lmsg \in FixActionObs)
    /\ ReturnNil
    /\ UNCHANGED <<status, stale, obs>> /\ NoFault
    /\ RowsUnchanged /\ OthersUnchanged

\* Step 2: evaluate the risk; "already moved by the sweep" is not an error.
EvaluateRisk ==
    /\ lpc = "evaluate"
    /\ \E r \in Reply :
          /\ Transition("FIX_GENERATED", r)
          /\ CASE r = "ok" -> Goto(IF status' = "AWAITING_APPROVAL"
                                   THEN "gate" ELSE "start")
               [] r = "invalid" -> ReturnNil
               [] r = "error" -> ReturnError
    /\ UNCHANGED obs /\ RowsUnchanged /\ OthersUnchanged

First(a) == a \in todo /\ \A b \in todo : a <= b

\* TriggerApprovalGate reads the fix actions (and the session).
TriggerApprovalGate ==
    /\ lpc = "gate"
    /\ \/ /\ todo' = { a \in Rows : risk[a] = "HIGH" /\ approval[a] = "NONE" }
          /\ lpc' = "request"
          /\ UNCHANGED <<lmsg, lstat, outcome, unacked>> /\ NoFault
       \/ ReturnNil /\ Fault
    /\ UNCHANGED <<status, stale, obs>> /\ RowsUnchanged /\ OthersUnchanged

\* Mutant: the record is created with a status nobody else knows.
BugRequestApproval ==
    /\ lpc = "request"
    /\ \E a \in todo :
          /\ First(a)
          /\ decision' = [decision EXCEPT ![a] = "REQUESTED"]
          /\ lpc' = "mark"
    /\ UNCHANGED <<status, stale, approval, exec, ticket, obs, unacked, lmsg,
                   lstat, todo, outcome, results, faults>>
    /\ OthersUnchanged

\* RequestApproval and approvalDAO.Create for one action; a failure skips it.
RequestApproval ==
    /\ lpc = "request"
    /\ \E a \in todo :
          /\ First(a)
          /\ \/ /\ decision' = [decision EXCEPT ![a] = "PENDING"]
                /\ lpc' = "mark"
                /\ UNCHANGED todo /\ NoFault
             \/ /\ todo' = todo \ {a}
                /\ UNCHANGED <<decision, lpc>> /\ Fault
    /\ UNCHANGED <<status, stale, approval, exec, ticket, obs, unacked, lmsg,
                   lstat, outcome, results>>
    /\ OthersUnchanged

\* UpdateApprovalStatus PENDING on the fix action; its error is ignored.
MarkPending ==
    /\ lpc = "mark"
    /\ lpc' = "request"
    /\ \E a \in todo :
          /\ First(a)
          /\ todo' = todo \ {a}
          /\ \/ approval' = [approval EXCEPT ![a] = "PENDING"] /\ NoFault
             \/ UNCHANGED approval /\ Fault
    /\ UNCHANGED <<status, stale, exec, ticket, decision, obs, unacked, lmsg,
                   lstat, outcome, results>>
    /\ OthersUnchanged

\* All actions have been asked for; the webhook is notified.
GateDone ==
    /\ lpc = "request" /\ todo = {}
    /\ ReturnNil
    /\ UNCHANGED <<status, stale, obs>> /\ NoFault
    /\ RowsUnchanged /\ OthersUnchanged

\* Mutant: a failed transition does not stop the execution.
BugStartExecution ==
    /\ lpc = "start"
    /\ \E r \in Reply : Transition("EXECUTE", r)
    /\ Goto("read")
    /\ UNCHANGED obs /\ RowsUnchanged /\ OthersUnchanged

\* Step 3 without HIGH-risk steps: EXECUTE.
StartExecution ==
    /\ lpc = "start"
    /\ \E r \in Reply :
          /\ Transition("EXECUTE", r)
          /\ CASE r = "ok" -> Goto("read")
               [] r = "invalid" -> ReturnNil
               [] r = "error" -> ReturnError
    /\ UNCHANGED obs /\ RowsUnchanged /\ OthersUnchanged

\* Mutant: the approval of a HIGH-risk action is not looked at.
BugRunnable(a) == exec[a] = "NOT_STARTED"

\* RequiresApproval is set for HIGH risk (FixAgent.Handle).
Runnable(a) ==
    /\ risk[a] = "HIGH" => approval[a] = "APPROVED"
    /\ exec[a] = "NOT_STARTED"

\* ExecuteFixActions reads the fix actions once; which of them run is decided
\* on these values.
ExecuteFixActions ==
    /\ lpc = "read"
    /\ \/ /\ todo' = { a \in Rows : Runnable(a) }
          /\ lpc' = "running"
          /\ UNCHANGED <<lmsg, lstat, outcome, unacked>> /\ NoFault
       \/ ReturnNil /\ Fault
    /\ UNCHANGED <<status, stale, obs>> /\ RowsUnchanged /\ OthersUnchanged

\* UpdateExecutionStatus RUNNING; its error is ignored.
MarkRunning ==
    /\ lpc = "running"
    /\ lpc' = "run"
    /\ \E a \in todo :
          /\ First(a)
          /\ \/ exec' = [exec EXCEPT ![a] = "RUNNING"] /\ NoFault
             \/ UNCHANGED exec /\ Fault
    /\ UNCHANGED <<status, stale, approval, ticket, decision, obs, unacked,
                   lmsg, lstat, todo, outcome, results>>
    /\ OthersUnchanged

\* K8sExecutor.Execute: an unknown action type, a lookup or an update that the
\* API refuses is FAILED, anything else SUCCEEDED; it returns no error.
Execute == {"SUCCEEDED", "FAILED"}

\* The executor acts on the cluster and reports how it went.
RunAction ==
    /\ lpc = "run"
    /\ lpc' = "record"
    /\ outcome' \in Execute
    /\ \E a \in todo :
          /\ First(a)
          /\ ran' = [ran EXCEPT ![a] = @ + 1]
          /\ failed' = IF outcome' = "FAILED" THEN failed \cup {a} ELSE failed
    /\ UNCHANGED <<status, stale, approval, exec, ticket, decision, obs,
                   unacked, lmsg, lstat, todo, faults, unrecorded>>
    /\ OthersUnchanged

\* UpdateExecutionStatus with the result; its error is ignored.
RecordResult ==
    /\ lpc = "record"
    /\ lpc' = "incident"
    /\ \E a \in todo :
          /\ First(a)
          /\ \/ /\ exec' = [exec EXCEPT ![a] = outcome]
                /\ UNCHANGED unrecorded /\ NoFault
             \/ /\ unrecorded' = unrecorded \cup {a}
                /\ UNCHANGED exec /\ Fault
    /\ UNCHANGED <<status, stale, approval, ticket, decision, obs, unacked,
                   lmsg, lstat, todo, outcome, ran, failed>>
    /\ OthersUnchanged

\* FixActionDAO.SetTicketID
SetTicketID(a) == ticket' = [ticket EXCEPT ![a] = TRUE]

\* After a success CreateIncident and SetTicketID; their errors are ignored.
\* Then the loop goes on with the next action.
OpenIncident ==
    /\ lpc = "incident"
    /\ lpc' = "running" /\ outcome' = "NONE"
    /\ \E a \in todo :
          /\ First(a)
          /\ todo' = todo \ {a}
          /\ \/ outcome = "SUCCEEDED" /\ SetTicketID(a) /\ NoFault
             \/ outcome = "SUCCEEDED" /\ UNCHANGED ticket /\ Fault
             \/ outcome = "FAILED" /\ UNCHANGED ticket /\ NoFault
    /\ UNCHANGED <<status, stale, approval, exec, decision, obs, unacked, lmsg,
                   lstat, results>>
    /\ OthersUnchanged

\* EXECUTE_COMPLETE after the last action; an error is only logged.
CompleteExecution ==
    /\ lpc = "running" /\ todo = {}
    /\ \E r \in Reply : Transition("EXECUTE_COMPLETE", r)
    /\ ReturnNil
    /\ UNCHANGED obs /\ RowsUnchanged /\ OthersUnchanged

\* commitOffset; an error is only logged.
CommitOffset ==
    /\ lpc = "commit"
    /\ lpc' = "idle" /\ lmsg' = NoObs
    /\ \/ UNCHANGED unacked /\ NoFault
       \/ unacked' = unacked \cup {lmsg} /\ Fault
    /\ UNCHANGED <<status, stale, obs, lstat, todo, outcome>>
    /\ RowsUnchanged /\ OthersUnchanged

-----------------------------------------------------------------------------
(***************************************************************************)
(* The sweep loop.  A tick runs the three sweeps in a row; a sweep that    *)
(* selects nothing changes nothing, so any order of the selections below   *)
(* is one some sequence of ticks produces.  Each sweep selects sessions    *)
(* first and sends its event later, without holding the row.               *)
(***************************************************************************)
SweepRest == UNCHANGED <<retries, fixes, bus, fixAgent, loop, http, crashes,
                         past>>

\* Mutant: the comparison with the deadline is the wrong way round.
BugSweepSelectStuck ==
    /\ spc = "idle" /\ status = "COLLECTING" /\ ~stale
    /\ spc' = "fail"
    /\ UNCHANGED <<status, stale, sevent, faults>> /\ SweepRest

\* Sweep: sessions in COLLECTING that were not updated for 30 minutes.
SweepSelectStuck ==
    /\ spc = "idle" /\ status = "COLLECTING" /\ stale
    /\ spc' = "fail"
    /\ UNCHANGED <<status, stale, sevent, faults>> /\ SweepRest

\* The FAIL event of a stuck session; an error is only logged.
SweepFail ==
    /\ spc = "fail"
    /\ spc' = "idle"
    /\ \E r \in Reply : Transition("FAIL", r)
    /\ UNCHANGED sevent /\ SweepRest

\* Mutant: the sweep looks for the status after the one it should.
BugSweepSelectProposed ==
    /\ spc = "idle" /\ status = "FIX_SUGGESTED"
    /\ spc' = "route"
    /\ UNCHANGED <<status, stale, sevent, faults>> /\ SweepRest

\* SweepFixProposed: sessions in FIX_PROPOSED.
SweepSelectProposed ==
    /\ spc = "idle" /\ status = "FIX_PROPOSED"
    /\ spc' = "route"
    /\ UNCHANGED <<status, stale, sevent, faults>> /\ SweepRest

\* FIX_GENERATED re-evaluates the session; an error is only logged.
SweepFixProposed ==
    /\ spc = "route"
    /\ spc' = "idle"
    /\ \E r \in Reply : Transition("FIX_GENERATED", r)
    /\ UNCHANGED sevent /\ SweepRest

\* SweepVerifying: sessions in VERIFYING.
SweepSelectVerifying ==
    /\ spc = "idle" /\ status = "VERIFYING"
    /\ spc' = "verdict"
    /\ UNCHANGED <<status, stale, sevent, faults>> /\ SweepRest

\* Mutant: one failed action among others does not count.
BugVerdict(read) ==
    IF \A a \in read : exec[a] = "FAILED"
    THEN "VERIFY_FAILURE" ELSE "VERIFY_SUCCESS"

\* The verdict SweepVerifying draws from the fix actions it has read.
Verdict(read) ==
    IF read = {} \/ \E a \in read : exec[a] = "FAILED"
    THEN "VERIFY_FAILURE" ELSE "VERIFY_SUCCESS"

\* Mutant: the sweep waits for every action to be finished.
BugSweepReadFixes ==
    /\ spc = "verdict"
    /\ IF \A a \in Rows : exec[a] \in {"SUCCEEDED", "FAILED"}
       THEN spc' = "settle" /\ sevent' = Verdict(Rows)
       ELSE spc' = "idle" /\ UNCHANGED sevent
    /\ UNCHANGED <<status, stale, faults>> /\ SweepRest

\* GetBySessionID; its error is dropped and leaves an empty list.
SweepReadFixes ==
    /\ spc = "verdict"
    /\ spc' = "settle"
    /\ \/ sevent' = Verdict(Rows) /\ NoFault
       \/ sevent' = Verdict({}) /\ Fault
    /\ UNCHANGED <<status, stale>> /\ SweepRest

\* The verdict goes to the engine; an error is only logged.
SweepVerifying ==
    /\ spc = "settle"
    /\ spc' = "idle" /\ sevent' = "NONE"
    /\ \E r \in Reply : Transition(sevent, r)
    /\ SweepRest

-----------------------------------------------------------------------------
(***************************************************************************)
(* Environment and specification.                                          *)
(***************************************************************************)

\* Thirty minutes pass without an update of a collecting session.
TimePasses ==
    /\ status = "COLLECTING" /\ ~stale
    /\ stale' = TRUE
    /\ UNCHANGED <<status, retries, fixes, bus, fixAgent, loop, sweeper,
                   http, faults, crashes, past>>

\* The orchestrator dies and is started again: its goroutines and requests
\* are gone.  The observation in work is delivered again; an earlier one that
\* was not committed is, unless a later offset of its partition was.
Crash ==
    /\ crashes < MaxCrashes
    /\ crashes' = crashes + 1
    /\ \E again \in SUBSET unacked :
          obs' = (obs \cup again \cup {lmsg}) \ {NoObs}
    /\ unacked' = {}
    /\ lpc' = "idle" /\ lmsg' = NoObs /\ lstat' = "NONE"
    /\ todo' = {} /\ outcome' = "NONE"
    /\ startPc' = "idle" /\ retryPc' = "idle"
    /\ spc' = "idle" /\ sevent' = "NONE"
    /\ opc' = [o \in Operators |-> "idle"]
    /\ oact' = [o \in Operators |-> 1]
    /\ odec' = [o \in Operators |-> "REJECTED"]
    /\ UNCHANGED <<row, fixes, cmds, rcaIn, fixAgent, faults, past>>

LoopStep ==
    \/ \E m \in Observation : Receive(m)
    \/ HandleEvidence \/ DispatchAnalyze \/ HandleRCAResult
    \/ HandleFixAction \/ DropObservation \/ EvaluateRisk
    \/ TriggerApprovalGate \/ RequestApproval \/ MarkPending \/ GateDone
    \/ StartExecution \/ ExecuteFixActions \/ MarkRunning \/ RunAction
    \/ RecordResult \/ OpenIncident \/ CompleteExecution \/ CommitOffset

SweepStep ==
    \/ SweepSelectStuck \/ SweepFail
    \/ SweepSelectProposed \/ SweepFixProposed
    \/ SweepSelectVerifying \/ SweepReadFixes \/ SweepVerifying

FixAgentStep == FixAgentPlans \/ FixAgentPersists \/ FixAgentPublishes

DecisionStep(o) == DecideFixAction(o) \/ DecideSession(o)

OperatorCalls ==
    \/ StartSession \/ IncrementRetry \/ IgnoreSession
    \/ \E o \in Operators, a \in Actions, d \in {"APPROVED", "REJECTED"} :
          DecisionApproval(o, a, d)

Next ==
    \/ OperatorCalls
    \/ LoadTarget \/ DispatchCollect \/ RetrySession
    \/ \E o \in Operators : DecisionStep(o)
    \/ \E c \in Collectors : CollectorRuns(c)
    \/ RCARuns
    \/ FixAgentStep
    \/ LoopStep
    \/ SweepStep
    \/ TimePasses
    \/ Crash

Spec == Init /\ [][Next]_vars

\* A sweep that gets through to the row.
SweepMoves == SweepStep /\ status' # status

\* Goroutines are scheduled, the ticker ticks, time passes, agents read their
\* topics and a request in progress is carried through.  A sweep comes back
\* every 30 seconds and a worker holds the row for one transaction, so not
\* every sweep finds it locked.  The event loop handles an observation once:
\* it has no such second chance.  Nothing obliges an operator to make a
\* request.
Fairness ==
    /\ WF_vars(LoadTarget \/ DispatchCollect) /\ WF_vars(RetrySession)
    /\ \A o \in Operators : WF_vars(DecisionStep(o))
    /\ \A c \in Collectors : WF_vars(CollectorRuns(c))
    /\ WF_vars(RCARuns)
    /\ WF_vars(FixAgentStep)
    /\ WF_vars(LoopStep)
    /\ WF_vars(SweepStep) /\ SF_vars(SweepMoves)
    /\ WF_vars(TimePasses)

FairSpec == Spec /\ Fairness

-----------------------------------------------------------------------------
(***************************************************************************)
(* Properties.                                                             *)
(***************************************************************************)

\* A HIGH-risk fix action reaches executor.Execute only if an operator
\* approved it at some time, although rows may be inserted by the fix agent
\* between the COUNT that routes the session and the read of
\* ExecuteFixActions, and decisions may be reversed.
NoUnapprovedRun ==
    \A a \in Actions : ran[a] > 0 /\ risk[a] = "HIGH" => a \in approved

\* executor.Execute is called at most once per fix action, whatever crashes,
\* repeated deliveries, failed status updates and sweeps happen around
\* ExecuteFixActions.
RunAtMostOnce == \A a \in Actions : ran[a] <= 1

\* No fix action runs before the session has been put into FIX_EXECUTING, and
\* none has run in a session that waits for approval or was rejected.
NothingRunsEarly ==
    (\E a \in Actions : ran[a] > 0) =>
        status \in {"FIX_EXECUTING", "VERIFYING", "RESOLVED", "ROLLED_BACK",
                    "IGNORED", "FAILED"}

\* SweepVerifying resolves only a session that has fix actions, and none of
\* them has failed in the executor, except actions whose result could not be
\* written: their row says RUNNING or NOT_STARTED, which the sweep counts as a
\* success (engine.go:346), unlike its comment (engine.go:315: "based on
\* whether all fix actions succeeded").  This holds although the sweep reads
\* the actions and sends its event in two steps, and executions are
\* interrupted by crashes.
ResolvedWithoutFailure ==
    status = "RESOLVED" => Rows # {} /\ failed \subseteq unrecorded

\* Everything the orchestrator does to a session is a move of the lifecycle.
LC == INSTANCE Lifecycle WITH
        Sessions <- {"session"}, Start <- {StartAt},
        status <- [s \in {"session"} |-> status]

Implements == LC!Spec

\* A session does not stay in COLLECTING: evidence, or after a lost dispatch
\* or a crash of StartSession the 30-minute Sweep, ends it.
CollectingEnds == status = "COLLECTING" ~> status # "COLLECTING"

\* A session does not stay in FIX_PROPOSED: when the handler of FIX_ACTION
\* fails or crashes before step 2, SweepFixProposed takes over.
ProposedEnds == status = "FIX_PROPOSED" ~> status # "FIX_PROPOSED"

\* A session in VERIFYING is settled by SweepVerifying.
VerifyingEnds == status = "VERIFYING" ~> status \in Terminal

\* While nothing fails, the root-cause analysis that follows the first
\* evidence is carried through, in whatever order observations, sweeps and
\* requests interleave, but for one way out: another worker holds the row when
\* the event loop handles the RCA result, whose offset then stays uncommitted
\* and which is not handled again before a restart (event_loop.go:473).
AnalyzingEnds ==
    status = "ANALYZING" ~> status # "ANALYZING" \/ RCAResult \in unacked

\* A FIX_ACTION that is still to be read when the session is in RCA_DONE
\* advances it, or meets a row held by another worker and stays uncommitted.
\* It is never dropped: only one that overtook its RCA_RESULT is
\* (event_loop.go:551).
FixActionAdvances ==
    \A m \in FixActionObs :
        status = "RCA_DONE" /\ m \in obs ~>
            status # "RCA_DONE" \/ m \in unacked

(***************************************************************************)
(* What a comment of the code promises and the model does not confirm.     *)
(***************************************************************************)

\* orchestrator.go:730: ExecuteFixActions "executes all approved fix actions"
\* and "is called after the session transitions to FIX_EXECUTING".
ApprovedIsExecuted ==
    \A a \in Actions :
        status = "FIX_EXECUTING" /\ decision[a] = "APPROVED" ~>
            ran[a] > 0 \/ decision[a] # "APPROVED" \/ status \in Terminal
=============================================================================
