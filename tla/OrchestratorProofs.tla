------------------------- MODULE OrchestratorProofs -------------------------
(***************************************************************************)
(* Proofs about one session driven by the event loop, the HTTP handlers,   *)
(* the sweeps and the agents, for any number of collectors, operators, fix *)
(* actions, faults and crashes, and for a fix agent with or without a      *)
(* database pool.                                                          *)
(***************************************************************************)
EXTENDS Orchestrator, TLAPS

\* The history of the executor is one group of variables throughout.
USE DEF results

(***************************************************************************)
(* What the table says about the events the safety of a session rests on.  *)
(***************************************************************************)

\* The session has been put into FIX_EXECUTING at some time, or was given up.
Begun == {"FIX_EXECUTING", "VERIFYING", "RESOLVED", "ROLLED_BACK", "IGNORED",
          "FAILED"}

\* The execution is over, or the session was given up.
Settled == Begun \ {"FIX_EXECUTING"}

\* The statuses during which ExecuteFixActions may be at work.
AtWork == {"FIX_EXECUTING", "IGNORED", "FAILED"}

\* Every move of a live session is one of the twelve edges, the override, or
\* the end by IGNORE or FAIL.
LEMMA MoveCases ==
    ASSUME NEW m \in Moves
    PROVE  \/ \E s \in Live : m = <<s, "IGNORE", "IGNORED">>
           \/ \E s \in Live : m = <<s, "FAIL", "FAILED">>
           \/ m \in { <<"CREATED",           "START_COLLECT",     "COLLECTING">>,
                      <<"COLLECTING",        "COLLECT_COMPLETE",  "ANALYZING">>,
                      <<"ANALYZING",         "ANALYSIS_COMPLETE", "RCA_DONE">>,
                      <<"RCA_DONE",          "RCA_GENERATED",     "FIX_PROPOSED">>,
                      <<"FIX_PROPOSED",      "APPROVE",           "FIX_EXECUTING">>,
                      <<"FIX_PROPOSED",      "FIX_GENERATED",     "FIX_SUGGESTED">>,
                      <<"FIX_PROPOSED",      "FIX_GENERATED",     "AWAITING_APPROVAL">>,
                      <<"AWAITING_APPROVAL", "APPROVE",           "FIX_EXECUTING">>,
                      <<"AWAITING_APPROVAL", "REJECT",            "REJECTED">>,
                      <<"FIX_SUGGESTED",     "EXECUTE",           "FIX_EXECUTING">>,
                      <<"FIX_EXECUTING",     "EXECUTE_COMPLETE",  "VERIFYING">>,
                      <<"VERIFYING",         "VERIFY_SUCCESS",    "RESOLVED">>,
                      <<"VERIFYING",         "VERIFY_FAILURE",    "ROLLED_BACK">> }
  BY DEF Moves, ValidTransitions

\* What has begun stays begun and what is settled stays settled; only
\* EXECUTE_COMPLETE ends the work in a live session, EXECUTE starts it from
\* FIX_SUGGESTED alone, and only VERIFY_SUCCESS resolves a session.
LEMMA MoveFacts ==
    ASSUME NEW m \in Moves
    PROVE  /\ m[1] \in Begun => m[3] \in Begun
           /\ m[1] \in Settled => m[3] \in Settled
           /\ m[1] \in AtWork /\ m[2] # "EXECUTE_COMPLETE" => m[3] \in AtWork
           /\ m[2] = "EXECUTE" => m[1] \notin Begun /\ m[3] = "FIX_EXECUTING"
           /\ m[3] = "RESOLVED" => m[2] = "VERIFY_SUCCESS"
  BY MoveCases DEF Live, Begun, Settled, AtWork

\* Event e moves the session along the table.
StatusMove(e) ==
    \E m \in Moves : m[1] = status /\ m[2] = e /\ m[3] = status'

\* The next statuses of an event are the ends of moves with that event.
LEMMA NextIsMove ==
    ASSUME TypeOK, NEW e \in Event, status' \in NextStatuses(e)
    PROVE  StatusMove(e)
  <1>1. CASE IsRiskRouted(status, e)
    <2>1. status = "FIX_PROPOSED" /\ e = "FIX_GENERATED"
      BY <1>1 DEF IsRiskRouted
    <2>2. status' = "AWAITING_APPROVAL" \/ status' = "FIX_SUGGESTED"
      BY <1>1 DEF NextStatuses, RoutedStatus
    <2>3. /\ <<"FIX_PROPOSED", "FIX_GENERATED", "AWAITING_APPROVAL">> \in Moves
          /\ <<"FIX_PROPOSED", "FIX_GENERATED", "FIX_SUGGESTED">> \in Moves
      BY DEF Moves, ValidTransitions
    <2>4. CASE status' = "AWAITING_APPROVAL"
      BY <2>1, <2>3, <2>4 DEF StatusMove
    <2>5. CASE status' = "FIX_SUGGESTED"
      BY <2>1, <2>3, <2>5 DEF StatusMove
    <2> QED BY <2>2, <2>4, <2>5
  <1>2. CASE ~IsRiskRouted(status, e)
    <2>1. status \in Status
      BY DEF TypeOK
    <2>2. status' \in Targets[status][e]
      BY <1>2 DEF NextStatuses
    <2>3. ValidTransitions \subseteq Moves
      BY DEF Moves
    <2> QED BY <2>1, <2>2, <2>3 DEF Targets, StatusMove
  <1> QED BY <1>1, <1>2

\* A call of Transition moves the session along the table with its event or
\* leaves it alone; an answer without error means that the move was made.
LEMMA TransitionEffect ==
    ASSUME TypeOK, NEW e \in Event, NEW r, Transition(e, r)
    PROVE  /\ status' \in Status /\ stale' \in BOOLEAN
           /\ faults' \in 0..MaxFaults
           /\ status' = status \/ StatusMove(e)
           /\ r = "ok" => StatusMove(e)
  <1>1. faults' \in 0..MaxFaults
    BY OrchestratorAssumption DEF TypeOK, Transition, Fault, NoFault
  <1>2. stale' \in BOOLEAN
    BY DEF TypeOK, Transition
  <1>3. status' = status \/ StatusMove(e)
    BY NextIsMove DEF Transition
  <1>4. r = "ok" => StatusMove(e)
    BY NextIsMove DEF Transition
  <1>5. StatusMove(e) => status' \in Status
    <2> SUFFICES ASSUME NEW m \in Moves
                 PROVE  m[3] \in Status
      BY DEF StatusMove
    <2> QED BY MoveCases DEF Status, Live, Terminal
  <1> QED BY <1>1, <1>2, <1>3, <1>4, <1>5 DEF TypeOK

-----------------------------------------------------------------------------
(***************************************************************************)
(* Type correctness.                                                       *)
(***************************************************************************)

\* While the event loop works it has an observation, and after the executor
\* has run it has its result.
LoopTyped ==
    /\ lpc # "idle" => lmsg \in Observation
    /\ lpc \in {"record", "incident"} => outcome # "NONE"

\* The sweep that settles a session has drawn its verdict.
SweepTyped == spc = "settle" => sevent # "NONE"

TInv == TypeOK /\ LoopTyped /\ SweepTyped

\* A step that may fail counts its fault within the bound.
LEMMA FaultType ==
    ASSUME TypeOK, Fault \/ NoFault
    PROVE  faults' \in 0..MaxFaults
  BY OrchestratorAssumption DEF TypeOK, Fault, NoFault

\* The requests of clients keep the types.
LEMMA RequestType ==
    ASSUME TInv,
           \/ StartSession \/ IncrementRetry \/ IgnoreSession \/ LoadTarget
           \/ DispatchCollect \/ RetrySession
    PROVE  TInv'
  <1> USE DEF TInv, LoopTyped, SweepTyped
  <1>1. CASE StartSession
    <2>1. PICK r \in Reply : Transition("START_COLLECT", r)
      BY <1>1 DEF StartSession
    <2>2. "START_COLLECT" \in Event
      BY DEF Event
    <2>3. /\ status' \in Status /\ stale' \in BOOLEAN
          /\ faults' \in 0..MaxFaults
      BY <2>1, <2>2, TransitionEffect
    <2> QED
      BY <1>1, <2>3
      DEF StartSession, TypeOK, fixes, bus, fixAgent, loop, sweeper, past
  <1>2. CASE IncrementRetry
    <2>1. faults' \in 0..MaxFaults
      BY <1>2, FaultType DEF IncrementRetry
    <2>2. retries' \in 0..MaxRetries
      BY <1>2, OrchestratorAssumption DEF IncrementRetry, TypeOK
    <2>3. stale' \in BOOLEAN
      BY <1>2 DEF IncrementRetry, TypeOK
    <2> QED
      BY <1>2, <2>1, <2>2, <2>3
      DEF IncrementRetry, TypeOK, fixes, bus, fixAgent, loop, sweeper, past
  <1>3. CASE IgnoreSession
    <2>1. PICK r \in Reply : Transition("IGNORE", r)
      BY <1>3 DEF IgnoreSession
    <2>2. "IGNORE" \in Event
      BY DEF Event
    <2>3. /\ status' \in Status /\ stale' \in BOOLEAN
          /\ faults' \in 0..MaxFaults
      BY <2>1, <2>2, TransitionEffect
    <2> QED
      BY <1>3, <2>3
      DEF IgnoreSession, TypeOK, fixes, bus, fixAgent, loop, sweeper, http,
          past
  <1>4. CASE LoadTarget
    <2>1. faults' \in 0..MaxFaults
      BY <1>4, FaultType DEF LoadTarget
    <2> QED
      BY <1>4, <2>1
      DEF LoadTarget, TypeOK, row, fixes, bus, fixAgent, loop, sweeper, past
  <1>5. CASE DispatchCollect
    <2>1. faults' \in 0..MaxFaults
      BY <1>5, FaultType DEF DispatchCollect
    <2>2. cmds' \subseteq Collectors \cup {"rca"}
      BY <1>5 DEF DispatchCollect, TypeOK
    <2> QED
      BY <1>5, <2>1, <2>2
      DEF DispatchCollect, TypeOK, row, fixes, fixAgent, loop, sweeper, past
  <1>6. CASE RetrySession
    <2>1. PICK r \in Reply : Transition("RETRY", r)
      BY <1>6 DEF RetrySession
    <2>2. "RETRY" \in Event
      BY DEF Event
    <2>3. /\ status' \in Status /\ stale' \in BOOLEAN
          /\ faults' \in 0..MaxFaults
      BY <2>1, <2>2, TransitionEffect
    <2> QED
      BY <1>6, <2>3
      DEF RetrySession, TypeOK, fixes, bus, fixAgent, loop, sweeper, past
  <1> QED BY <1>1, <1>2, <1>3, <1>4, <1>5, <1>6

\* So do the three steps of a decision.
LEMMA DecisionType ==
    ASSUME TInv, NEW o \in Operators,
           \/ \E a \in Actions, d \in {"APPROVED", "REJECTED"} :
                 DecisionApproval(o, a, d)
           \/ DecideFixAction(o) \/ DecideSession(o)
    PROVE  TInv'
  <1> USE DEF TInv, LoopTyped, SweepTyped
  <1>1. ASSUME NEW a \in Actions, NEW d \in {"APPROVED", "REJECTED"},
               DecisionApproval(o, a, d)
        PROVE  TInv'
    BY <1>1
    DEF DecisionApproval, TypeOK, row, bus, fixAgent, loop, sweeper
  <1>2. CASE DecideFixAction(o)
    <2>1. faults' \in 0..MaxFaults
      BY <1>2, FaultType DEF DecideFixAction
    <2>2. approval' \in [Actions -> {"NONE", "PENDING", "APPROVED", "REJECTED"}]
      BY <1>2 DEF DecideFixAction, TypeOK
    <2> QED
      BY <1>2, <2>1, <2>2
      DEF DecideFixAction, TypeOK, row, bus, fixAgent, loop, sweeper, past
  <1>3. CASE DecideSession(o)
    <2> DEFINE e == IF odec[o] = "APPROVED" THEN "APPROVE" ELSE "REJECT"
    <2>1. PICK r \in Reply : Transition(e, r)
      BY <1>3 DEF DecideSession
    <2>2. e \in Event
      BY DEF Event
    <2>3. /\ status' \in Status /\ stale' \in BOOLEAN
          /\ faults' \in 0..MaxFaults
      BY <2>1, <2>2, TransitionEffect
    <2>4. 1 \in Actions
      BY OrchestratorAssumption DEF Actions
    <2> QED
      BY <1>3, <2>3, <2>4
      DEF DecideSession, TypeOK, fixes, bus, fixAgent, loop, sweeper, past
  <1> QED BY <1>1, <1>2, <1>3

\* So do the agents.
LEMMA AgentType ==
    ASSUME TInv,
           \/ \E c \in Collectors : CollectorRuns(c)
           \/ RCARuns \/ FixAgentStep
    PROVE  TInv'
  <1> USE DEF TInv, LoopTyped, SweepTyped
  <1>1. ASSUME NEW c \in Collectors, CollectorRuns(c) PROVE TInv'
    <2>1. faults' \in 0..MaxFaults
      BY <1>1, FaultType DEF CollectorRuns
    <2>2. obs' \subseteq Observation /\ cmds' \subseteq Collectors \cup {"rca"}
      BY <1>1 DEF CollectorRuns, TypeOK, Observation, Evidence
    <2> QED
      BY <1>1, <2>1, <2>2
      DEF CollectorRuns, TypeOK, row, fixes, fixAgent, loop, sweeper, http,
          past
  <1>2. CASE RCARuns
    <2>1. faults' \in 0..MaxFaults
      BY <1>2, FaultType DEF RCARuns
    <2>2. obs' \subseteq Observation /\ cmds' \subseteq Collectors \cup {"rca"}
      BY <1>2 DEF RCARuns, TypeOK, Observation
    <2>3. rcaIn' \in Nat
      BY <1>2 DEF RCARuns, TypeOK
    <2> QED
      BY <1>2, <2>1, <2>2, <2>3
      DEF RCARuns, TypeOK, row, fixes, fixAgent, loop, sweeper, http, past
  <1>3. CASE FixAgentPlans
    <2>1. faults' \in 0..MaxFaults
      BY <1>3, FaultType DEF FixAgentPlans
    <2>2. fixPlan' \subseteq Actions /\ fixTodo' \subseteq Actions
      BY <1>3, OrchestratorAssumption DEF FixAgentPlans, Actions
    <2>3. rcaIn' \in Nat
      BY <1>3 DEF FixAgentPlans, TypeOK
    <2> QED
      BY <1>3, <2>1, <2>2, <2>3
      DEF FixAgentPlans, TypeOK, row, fixes, loop, sweeper, http, past
  <1>4. CASE FixAgentPersists
    <2>1. faults' \in 0..MaxFaults
      BY <1>4, FaultType DEF FixAgentPersists
    <2>2. fixTodo' \subseteq Actions
      BY <1>4 DEF FixAgentPersists, TypeOK
    <2>3. risk' \in [Actions -> {"NONE", "LOW", "HIGH"}]
      BY <1>4 DEF FixAgentPersists, TypeOK
    <2> QED
      BY <1>4, <2>1, <2>2, <2>3
      DEF FixAgentPersists, TypeOK, row, bus, loop, sweeper, http, past
  <1>5. CASE FixAgentPublishes
    <2>1. faults' \in 0..MaxFaults
      BY <1>5, FaultType DEF FixAgentPublishes
    <2>2. obs' \subseteq Observation
      BY <1>5 DEF FixAgentPublishes, TypeOK, Observation, FixActionObs
    <2> QED
      BY <1>5, <2>1, <2>2
      DEF FixAgentPublishes, TypeOK, row, fixes, loop, sweeper, http, past
  <1> QED BY <1>1, <1>2, <1>3, <1>4, <1>5 DEF FixAgentStep

\* The types of the event loop's own variables.
LoopFields ==
    /\ lpc \in LoopPC /\ lmsg \in Observation \cup {NoObs}
    /\ lstat \in Status /\ todo \subseteq Actions
    /\ outcome \in {"NONE", "SUCCEEDED", "FAILED"}
    /\ unacked \subseteq Observation
    /\ LoopTyped

\* The three ways a branch of handleObservation goes on keep them.
LEMMA ReturnType ==
    ASSUME TInv, lpc # "idle",
           \/ ReturnNil \/ ReturnError
           \/ \E p \in LoopPC \ {"idle", "record", "incident"} : Goto(p)
    PROVE  LoopFields'
  <1> USE DEF TInv, TypeOK, LoopFields, LoopTyped, LoopPC
  <1>1. CASE ReturnNil
    BY <1>1 DEF ReturnNil, Status
  <1>2. CASE ReturnError
    BY <1>2 DEF ReturnError, Status
  <1>3. CASE \E p \in LoopPC \ {"idle", "record", "incident"} : Goto(p)
    BY <1>3 DEF Goto
  <1> QED BY <1>1, <1>2, <1>3

\* What a step of the event loop leaves alone keeps its type.
LEMMA LoopFrame ==
    ASSUME TInv, LoopFields', status' \in Status, stale' \in BOOLEAN,
           faults' \in 0..MaxFaults, obs' \subseteq Observation,
           RowsUnchanged, OthersUnchanged
    PROVE  TInv'
  BY DEF TInv, TypeOK, LoopFields, LoopTyped, SweepTyped, RowsUnchanged,
         OthersUnchanged, fixAgent, sweeper, http

\* The steps of handleObservation that only send an event, return or read
\* keep the types.
LEMMA HandlerType ==
    ASSUME TInv,
           \/ \E m \in Observation : Receive(m)
           \/ HandleEvidence \/ DispatchAnalyze \/ HandleRCAResult
           \/ HandleFixAction \/ DropObservation \/ EvaluateRisk
           \/ TriggerApprovalGate \/ GateDone \/ StartExecution
           \/ ExecuteFixActions \/ CompleteExecution \/ CommitOffset
    PROVE  TInv'
  <1>a. TypeOK
    BY DEF TInv
  <1>b. /\ status \in Status /\ stale \in BOOLEAN /\ faults \in 0..MaxFaults
        /\ obs \subseteq Observation
    BY <1>a DEF TypeOK
  <1>0. ASSUME NEW m \in Observation, Receive(m) PROVE TInv'
    <2>1. LoopFields'
      BY <1>0, <1>b DEF Receive, LoopFields, LoopTyped, TInv, TypeOK, LoopPC
    <2>2. obs' \subseteq Observation /\ UNCHANGED <<status, stale>>
      BY <1>0, <1>b DEF Receive
    <2>3. faults' \in 0..MaxFaults
      BY <1>0, <1>a, FaultType DEF Receive
    <2> QED BY <1>0, <1>b, <2>1, <2>2, <2>3, LoopFrame DEF Receive
  <1>1. CASE HandleEvidence
    <2>1. PICK r \in Reply : /\ Transition("COLLECT_COMPLETE", r)
                            /\ IF r = "ok" THEN Goto("analyze") ELSE ReturnError
      BY <1>1 DEF HandleEvidence
    <2>2. "COLLECT_COMPLETE" \in Event
      BY DEF Event
    <2>3. LoopFields'
      BY <1>1, <2>1, ReturnType DEF HandleEvidence, LoopPC
    <2>4. /\ status' \in Status /\ stale' \in BOOLEAN
          /\ faults' \in 0..MaxFaults
      BY <1>a, <2>1, <2>2, TransitionEffect
    <2> QED BY <1>b, <1>1, <2>3, <2>4, LoopFrame DEF HandleEvidence
  <1>2. CASE HandleRCAResult
    <2>1. PICK r \in Reply : /\ Transition("ANALYSIS_COMPLETE", r)
                            /\ IF r = "ok" THEN ReturnNil ELSE ReturnError
      BY <1>2 DEF HandleRCAResult
    <2>2. "ANALYSIS_COMPLETE" \in Event
      BY DEF Event
    <2>3. LoopFields'
      BY <1>2, <2>1, ReturnType DEF HandleRCAResult, LoopPC
    <2>4. /\ status' \in Status /\ stale' \in BOOLEAN
          /\ faults' \in 0..MaxFaults
      BY <1>a, <2>1, <2>2, TransitionEffect
    <2> QED BY <1>b, <1>2, <2>3, <2>4, LoopFrame DEF HandleRCAResult
  <1>3. CASE HandleFixAction
    <2>1. PICK r \in Reply : /\ Transition("RCA_GENERATED", r)
                            /\ IF r = "ok" THEN Goto("evaluate") ELSE ReturnError
      BY <1>3 DEF HandleFixAction
    <2>2. "RCA_GENERATED" \in Event
      BY DEF Event
    <2>3. LoopFields'
      BY <1>3, <2>1, ReturnType DEF HandleFixAction, LoopPC
    <2>4. /\ status' \in Status /\ stale' \in BOOLEAN
          /\ faults' \in 0..MaxFaults
      BY <1>a, <2>1, <2>2, TransitionEffect
    <2> QED BY <1>b, <1>3, <2>3, <2>4, LoopFrame DEF HandleFixAction
  <1>4. CASE EvaluateRisk
    <2>1. PICK r \in Reply :
             /\ Transition("FIX_GENERATED", r)
             /\ CASE r = "ok" -> Goto(IF status' = "AWAITING_APPROVAL"
                                        THEN "gate" ELSE "start")
                  [] r = "invalid" -> ReturnNil
                  [] r = "error" -> ReturnError
      BY <1>4 DEF EvaluateRisk
    <2>2. "FIX_GENERATED" \in Event
      BY DEF Event
    <2>3. LoopFields'
      BY <1>4, <2>1, ReturnType DEF EvaluateRisk, LoopPC, Reply
    <2>4. /\ status' \in Status /\ stale' \in BOOLEAN
          /\ faults' \in 0..MaxFaults
      BY <1>a, <2>1, <2>2, TransitionEffect
    <2> QED BY <1>b, <1>4, <2>3, <2>4, LoopFrame DEF EvaluateRisk
  <1>5. CASE StartExecution
    <2>1. PICK r \in Reply :
             /\ Transition("EXECUTE", r)
             /\ CASE r = "ok" -> Goto("read")
                  [] r = "invalid" -> ReturnNil
                  [] r = "error" -> ReturnError
      BY <1>5 DEF StartExecution
    <2>2. "EXECUTE" \in Event
      BY DEF Event
    <2>3. LoopFields'
      BY <1>5, <2>1, ReturnType DEF StartExecution, LoopPC, Reply
    <2>4. /\ status' \in Status /\ stale' \in BOOLEAN
          /\ faults' \in 0..MaxFaults
      BY <1>a, <2>1, <2>2, TransitionEffect
    <2> QED BY <1>b, <1>5, <2>3, <2>4, LoopFrame DEF StartExecution
  <1>6. CASE CompleteExecution
    <2>1. PICK r \in Reply : Transition("EXECUTE_COMPLETE", r)
      BY <1>6 DEF CompleteExecution
    <2>2. "EXECUTE_COMPLETE" \in Event
      BY DEF Event
    <2>3. LoopFields'
      BY <1>6, ReturnType DEF CompleteExecution
    <2>4. /\ status' \in Status /\ stale' \in BOOLEAN
          /\ faults' \in 0..MaxFaults
      BY <1>a, <2>1, <2>2, TransitionEffect
    <2> QED BY <1>b, <1>6, <2>3, <2>4, LoopFrame DEF CompleteExecution
  <1>7. CASE DropObservation \/ GateDone
    <2>1. LoopFields'
      BY <1>7, ReturnType DEF DropObservation, GateDone
    <2>2. UNCHANGED <<status, stale, obs, faults>>
      BY <1>7 DEF DropObservation, GateDone, NoFault
    <2> QED BY <1>b, <1>7, <2>1, <2>2, LoopFrame DEF DropObservation, GateDone
  <1>8. CASE TriggerApprovalGate \/ ExecuteFixActions
    <2>1. ASSUME ReturnNil PROVE LoopFields'
      BY <1>8, <2>1, ReturnType DEF TriggerApprovalGate, ExecuteFixActions
    <2>2. ASSUME ~ReturnNil PROVE LoopFields'
      BY <1>8, <2>2
      DEF TriggerApprovalGate, ExecuteFixActions, Rows, TInv, TypeOK,
          LoopFields, LoopTyped, LoopPC
    <2>3. LoopFields' /\ UNCHANGED <<status, stale, obs>>
      BY <1>8, <2>1, <2>2 DEF TriggerApprovalGate, ExecuteFixActions
    <2>4. faults' \in 0..MaxFaults
      BY <1>8, <1>a, FaultType DEF TriggerApprovalGate, ExecuteFixActions
    <2> QED
      BY <1>b, <1>8, <2>3, <2>4, LoopFrame
      DEF TriggerApprovalGate, ExecuteFixActions
  <1>9. CASE CommitOffset
    <2>1. LoopFields'
      BY <1>9 DEF CommitOffset, TInv, TypeOK, LoopFields, LoopTyped, LoopPC
    <2>2. UNCHANGED <<status, stale, obs>>
      BY <1>9 DEF CommitOffset
    <2>3. faults' \in 0..MaxFaults
      BY <1>9, <1>a, FaultType DEF CommitOffset
    <2> QED BY <1>b, <1>9, <2>1, <2>2, <2>3, LoopFrame DEF CommitOffset
  <1>10. CASE DispatchAnalyze
    <2>1. LoopFields'
      BY <1>10, ReturnType DEF DispatchAnalyze
    <2>2. faults' \in 0..MaxFaults
      BY <1>10, <1>a, FaultType DEF DispatchAnalyze
    <2>3. cmds' \subseteq Collectors \cup {"rca"}
      BY <1>10, <1>a DEF DispatchAnalyze, TypeOK
    <2> QED
      BY <1>10, <2>1, <2>2, <2>3
      DEF DispatchAnalyze, TInv, TypeOK, LoopFields, LoopTyped, SweepTyped,
          RowsUnchanged, row, fixAgent, sweeper, http
  <1> QED
    BY <1>0, <1>1, <1>2, <1>3, <1>4, <1>5, <1>6, <1>7, <1>8, <1>9, <1>10

\* So do the steps that write a row of fix_actions or approvals, and the run
\* of the executor.
LEMMA WriterType ==
    ASSUME TInv,
           \/ RequestApproval \/ MarkPending \/ MarkRunning \/ RunAction
           \/ RecordResult \/ OpenIncident
    PROVE  TInv'
  <1>a. TypeOK
    BY DEF TInv
  <1> USE DEF TInv, TypeOK, LoopTyped, SweepTyped, LoopPC, OthersUnchanged,
              fixAgent, sweeper, http
  <1>1. CASE RequestApproval
    <2>1. faults' \in 0..MaxFaults
      BY <1>1, <1>a, FaultType DEF RequestApproval
    <2>2. /\ decision' \in [Actions -> {"NONE", "PENDING", "APPROVED", "REJECTED"}]
          /\ todo' \subseteq Actions /\ lpc' \in {"request", "mark"}
      BY <1>1 DEF RequestApproval
    <2> QED BY <1>1, <2>1, <2>2 DEF RequestApproval
  <1>2. CASE MarkPending
    <2>1. faults' \in 0..MaxFaults
      BY <1>2, <1>a, FaultType DEF MarkPending
    <2>2. /\ approval' \in [Actions -> {"NONE", "PENDING", "APPROVED", "REJECTED"}]
          /\ todo' \subseteq Actions
      BY <1>2 DEF MarkPending
    <2> QED BY <1>2, <2>1, <2>2 DEF MarkPending
  <1>3. CASE MarkRunning
    <2>1. faults' \in 0..MaxFaults
      BY <1>3, <1>a, FaultType DEF MarkRunning
    <2>2. exec' \in [Actions -> {"NOT_STARTED", "RUNNING", "SUCCEEDED", "FAILED"}]
      BY <1>3 DEF MarkRunning
    <2> QED BY <1>3, <2>1, <2>2 DEF MarkRunning
  <1>4. CASE RunAction
    <2>1. ran' \in [Actions -> Nat]
      <3>1. PICK a \in todo : ran' = [ran EXCEPT ![a] = ran[a] + 1]
        BY <1>4 DEF RunAction
      <3>2. ran[a] + 1 \in Nat
        BY <3>1
      <3> QED BY <3>1, <3>2
    <2>2. outcome' \in {"SUCCEEDED", "FAILED"}
      BY <1>4 DEF RunAction, Execute
    <2>3. failed' \subseteq Actions
      BY <1>4 DEF RunAction
    <2> QED BY <1>4, <2>1, <2>2, <2>3 DEF RunAction
  <1>5. CASE RecordResult
    <2>1. faults' \in 0..MaxFaults
      BY <1>5, <1>a, FaultType DEF RecordResult
    <2>2. exec' \in [Actions -> {"NOT_STARTED", "RUNNING", "SUCCEEDED", "FAILED"}]
      BY <1>5 DEF RecordResult
    <2>3. unrecorded' \subseteq Actions
      BY <1>5 DEF RecordResult
    <2> QED BY <1>5, <2>1, <2>2, <2>3 DEF RecordResult
  <1>6. CASE OpenIncident
    <2>1. faults' \in 0..MaxFaults
      BY <1>6, <1>a, FaultType DEF OpenIncident
    <2>2. ticket' \in [Actions -> BOOLEAN]
      BY <1>6 DEF OpenIncident, SetTicketID
    <2>3. todo' \subseteq Actions
      BY <1>6 DEF OpenIncident
    <2> QED BY <1>6, <2>1, <2>2, <2>3 DEF OpenIncident
  <1> QED BY <1>1, <1>2, <1>3, <1>4, <1>5, <1>6

\* What a sweep leaves alone keeps its type.
LEMMA SweepFrame ==
    ASSUME TInv, SweepRest, status' \in Status, stale' \in BOOLEAN,
           faults' \in 0..MaxFaults,
           spc' \in {"idle", "fail", "route", "verdict", "settle"},
           sevent' \in {"NONE", "VERIFY_SUCCESS", "VERIFY_FAILURE"},
           SweepTyped'
    PROVE  TInv'
  BY DEF TInv, TypeOK, LoopTyped, SweepTyped, SweepRest, fixes, bus, fixAgent,
         loop, http, past

\* The sweeps keep the types.
LEMMA SweepType ==
    ASSUME TInv, SweepStep
    PROVE  TInv'
  <1>a. TypeOK /\ SweepTyped
    BY DEF TInv
  <1>b. /\ status \in Status /\ stale \in BOOLEAN /\ faults \in 0..MaxFaults
        /\ sevent \in {"NONE", "VERIFY_SUCCESS", "VERIFY_FAILURE"}
    BY <1>a DEF TypeOK
  <1>1. CASE \/ SweepSelectStuck \/ SweepSelectProposed
             \/ SweepSelectVerifying
    BY <1>1, <1>b, SweepFrame
    DEF SweepSelectStuck, SweepSelectProposed, SweepSelectVerifying, SweepTyped
  <1>2. CASE SweepFail
    <2>1. PICK r \in Reply : Transition("FAIL", r)
      BY <1>2 DEF SweepFail
    <2>2. /\ status' \in Status /\ stale' \in BOOLEAN
          /\ faults' \in 0..MaxFaults
      BY <1>a, <2>1, TransitionEffect DEF Event
    <2> QED BY <1>2, <1>b, <2>2, SweepFrame DEF SweepFail, SweepTyped
  <1>3. CASE SweepFixProposed
    <2>1. PICK r \in Reply : Transition("FIX_GENERATED", r)
      BY <1>3 DEF SweepFixProposed
    <2>2. /\ status' \in Status /\ stale' \in BOOLEAN
          /\ faults' \in 0..MaxFaults
      BY <1>a, <2>1, TransitionEffect DEF Event
    <2> QED BY <1>3, <1>b, <2>2, SweepFrame DEF SweepFixProposed, SweepTyped
  <1>4. CASE SweepReadFixes
    <2>1. sevent' \in {"VERIFY_SUCCESS", "VERIFY_FAILURE"}
      BY <1>4 DEF SweepReadFixes, Verdict
    <2>2. faults' \in 0..MaxFaults
      BY <1>4, <1>a, FaultType DEF SweepReadFixes
    <2> QED
      BY <1>4, <1>b, <2>1, <2>2, SweepFrame DEF SweepReadFixes, SweepTyped
  <1>5. CASE SweepVerifying
    <2>1. PICK r \in Reply : Transition(sevent, r)
      BY <1>5 DEF SweepVerifying
    <2>2. sevent \in Event
      BY <1>5, <1>a, <1>b DEF SweepVerifying, SweepTyped, Event
    <2>3. /\ status' \in Status /\ stale' \in BOOLEAN
          /\ faults' \in 0..MaxFaults
      BY <1>a, <2>1, <2>2, TransitionEffect
    <2> QED BY <1>5, <1>b, <2>3, SweepFrame DEF SweepVerifying, SweepTyped
  <1> QED BY <1>1, <1>2, <1>3, <1>4, <1>5 DEF SweepStep

\* The types hold in the beginning.
LEMMA TypeInit == Init => TInv
  <1>1. 1 \in Actions
    BY OrchestratorAssumption DEF Actions
  <1>2. StartAt \in Status
    BY OrchestratorAssumption DEF Status, Live
  <1>3. Init => /\ retries \in 0..MaxRetries /\ faults \in 0..MaxFaults
                /\ crashes \in 0..MaxCrashes /\ rcaIn \in Nat
                /\ ran \in [Actions -> Nat]
    BY OrchestratorAssumption DEF Init
  <1>4. Init => stale \in BOOLEAN /\ ticket \in [Actions -> BOOLEAN]
    <2>1. Init => stale = FALSE /\ ticket = [a \in Actions |-> FALSE]
      BY DEF Init
    <2>2. [a \in Actions |-> FALSE] \in [Actions -> BOOLEAN]
      OBVIOUS
    <2>3. FALSE \in BOOLEAN
      OBVIOUS
    <2> QED BY <2>1, <2>2, <2>3, Zenon
  <1>5. Init => LoopTyped /\ SweepTyped
    BY DEF Init, LoopTyped, SweepTyped
  <1>6. Init =>
          /\ risk \in [Actions -> {"NONE", "LOW", "HIGH"}]
          /\ approval \in [Actions -> {"NONE", "PENDING", "APPROVED", "REJECTED"}]
          /\ decision \in [Actions -> {"NONE", "PENDING", "APPROVED", "REJECTED"}]
          /\ exec \in [Actions -> {"NOT_STARTED", "RUNNING", "SUCCEEDED", "FAILED"}]
          /\ opc \in [Operators -> {"idle", "action", "advance"}]
          /\ oact \in [Operators -> Actions]
          /\ odec \in [Operators -> {"APPROVED", "REJECTED"}]
    BY <1>1 DEF Init
  <1>7. Init =>
          /\ status \in Status /\ lstat \in Status
          /\ cmds \subseteq Collectors \cup {"rca"}
          /\ obs \subseteq Observation /\ unacked \subseteq Observation
          /\ fixPlan \subseteq Actions /\ fixTodo \subseteq Actions
          /\ lpc \in LoopPC /\ lmsg \in Observation \cup {NoObs}
          /\ todo \subseteq Actions /\ outcome = "NONE"
          /\ startPc = "idle" /\ retryPc = "idle"
          /\ spc = "idle" /\ sevent = "NONE" /\ approved \subseteq Actions
          /\ failed \subseteq Actions /\ unrecorded \subseteq Actions
    BY <1>2 DEF Init, LoopPC, Status
  <1> QED BY <1>3, <1>4, <1>5, <1>6, <1>7 DEF TInv, TypeOK

\* Every step keeps the types: the offset of an observation that is not
\* committed is that of an observation the loop really holds, and the sweep
\* sends only events of the table.
LEMMA TypeStep == TInv /\ [Next]_vars => TInv'
  <1> SUFFICES ASSUME TInv, [Next]_vars PROVE TInv'
    OBVIOUS
  <1>1. CASE TimePasses
    BY <1>1
    DEF TimePasses, TInv, TypeOK, LoopTyped, SweepTyped, fixes, bus, fixAgent,
        loop, sweeper, http, past
  <1>2. CASE Crash
    <2>1. 1 \in Actions /\ crashes' \in 0..MaxCrashes
      BY <1>2, OrchestratorAssumption DEF Actions, Crash, TInv, TypeOK
    <2>2. obs' \subseteq Observation
      BY <1>2 DEF Crash, TInv, TypeOK
    <2> QED
      BY <1>2, <2>1, <2>2
      DEF Crash, TInv, TypeOK, LoopTyped, SweepTyped, LoopPC, Status, row,
          fixes, fixAgent, past
  <1>3. CASE UNCHANGED vars
    BY <1>3
    DEF vars, TInv, TypeOK, LoopTyped, SweepTyped, row, fixes, bus, fixAgent,
        loop, sweeper, http, past
  <1> QED
    BY <1>1, <1>2, <1>3, RequestType, DecisionType, AgentType, HandlerType,
       WriterType, SweepType
    DEF Next, OperatorCalls, DecisionStep, LoopStep

\* The types of the orchestrator's state hold in every reachable state.
THEOREM OrchestratorTypes == Spec => []TypeOK
  <1>1. TInv => TypeOK
    BY DEF TInv
  <1> QED BY <1>1, TypeInit, TypeStep, PTL DEF Spec

-----------------------------------------------------------------------------
(***************************************************************************)
(* The inductive invariant behind the safety of fix execution.             *)
(***************************************************************************)

\* The event loop is inside ExecuteFixActions.
ExecPC == {"read", "running", "run", "record", "incident"}

\* It is so only in a session that EXECUTE has put into FIX_EXECUTING and
\* that nobody but itself can complete.
Executing == lpc \in ExecPC => status \in AtWork

\* The actions left to run have not been run: none has when the rows are
\* read, and the one in work is the first of those left.
TodoFresh ==
    /\ lpc = "read" => \A a \in Actions : ran[a] = 0
    /\ lpc \in {"running", "run"} => \A a \in todo : ran[a] = 0
    /\ lpc \in {"record", "incident"} =>
          \A a \in todo : ~First(a) => ran[a] = 0

\* They have a row and, if HIGH-risk, somebody's approval, although they were
\* chosen on values read earlier.
TodoAllowed ==
    lpc \in ExecPC \ {"read"} =>
        \A a \in todo : /\ risk[a] # "NONE"
                        /\ risk[a] = "HIGH" => a \in approved

\* Only an action with a row is run or recorded as failed: the risk of what
\* has run cannot be set afterwards.
HaveRow ==
    \A a \in Actions : ran[a] > 0 \/ exec[a] = "FAILED" => risk[a] # "NONE"

\* An approval in the row, or on its way there, is one an operator gave.
ApprovedKnown ==
    /\ \A a \in Actions : approval[a] = "APPROVED" => a \in approved
    /\ \A o \in Operators :
          opc[o] = "action" /\ odec[o] = "APPROVED" => oact[o] \in approved

\* Between its read and its event SweepVerifying has a session in which no
\* execution can be at work any more, so a verdict of success stays true.
VerdictSound ==
    /\ spc \in {"verdict", "settle"} =>
          status \in Settled /\ lpc \notin ExecPC
    /\ spc = "settle" /\ sevent = "VERIFY_SUCCESS" =>
          Rows # {} /\ \A a \in Actions : exec[a] # "FAILED"

\* A resolved session has fix actions and none is recorded as failed.
NoFailureRecorded ==
    status = "RESOLVED" =>
        Rows # {} /\ \A a \in Actions : exec[a] # "FAILED"

SInv ==
    /\ Executing /\ TodoFresh /\ TodoAllowed /\ HaveRow /\ ApprovedKnown
    /\ VerdictSound
    /\ NoUnapprovedRun /\ RunAtMostOnce /\ NothingRunsEarly
    /\ NoFailureRecorded

\* A change of status by any event but the two that end an execution and
\* resolve a session.
QuietMove ==
    \/ status' = status
    \/ \E e \in Event \ {"EXECUTE_COMPLETE", "VERIFY_SUCCESS"} : StatusMove(e)

\* What a quiet move keeps.
LEMMA QuietFacts ==
    ASSUME QuietMove
    PROVE  /\ status \in Begun => status' \in Begun
           /\ status \in Settled => status' \in Settled
           /\ status \in AtWork => status' \in AtWork
           /\ status' = "RESOLVED" => status = "RESOLVED"
  BY MoveFacts DEF QuietMove, StatusMove

\* The event loop stays where it is or is outside of ExecuteFixActions.
LoopAside == lpc' \notin ExecPC \/ UNCHANGED <<lpc, todo>>

\* So is the sweep with respect to SweepVerifying.
SweepAside == spc' \notin {"verdict", "settle"} \/ UNCHANGED sweeper

\* No decision comes to stand before its write to the fix action.
DecisionAside ==
    \A o \in Operators :
        opc'[o] = "action" =>
            opc[o] = "action" /\ odec'[o] = odec[o] /\ oact'[o] = oact[o]

\* Most steps keep the invariant because they only move the status, or only
\* bring the loop, the sweep or a decision to an end.
LEMMA QuietStep ==
    ASSUME SInv, QuietMove, LoopAside, SweepAside, DecisionAside,
           UNCHANGED <<risk, approval, exec, ran, approved>>
    PROVE  SInv'
  <1>0. /\ risk' = risk /\ approval' = approval /\ exec' = exec /\ ran' = ran
        /\ approved' = approved
    OBVIOUS
  <1>r. Rows' = Rows
    BY <1>0 DEF Rows
  <1>1. Executing'
    BY QuietFacts DEF SInv, Executing, LoopAside
  <1>2. TodoFresh'
    BY <1>0 DEF SInv, TodoFresh, LoopAside, ExecPC, First
  <1>3. TodoAllowed'
    BY <1>0 DEF SInv, TodoAllowed, LoopAside
  <1>4. HaveRow' /\ NoUnapprovedRun' /\ RunAtMostOnce'
    BY <1>0 DEF SInv, HaveRow, NoUnapprovedRun, RunAtMostOnce
  <1>5. ApprovedKnown'
    BY <1>0 DEF SInv, ApprovedKnown, DecisionAside
  <1>6. VerdictSound'
    BY <1>0, <1>r, QuietFacts
    DEF SInv, VerdictSound, SweepAside, LoopAside, sweeper
  <1>7. NothingRunsEarly'
    BY <1>0, QuietFacts DEF SInv, NothingRunsEarly, Begun
  <1>8. NoFailureRecorded'
    BY <1>0, <1>r, QuietFacts DEF SInv, NoFailureRecorded
  <1> QED
    BY <1>1, <1>2, <1>3, <1>4, <1>5, <1>6, <1>7, <1>8 DEF SInv

\* The requests of clients, the agents, time and a crash of the process are
\* quiet, apart from the writes to decisions and rows.
LEMMA OutsideQuiet ==
    ASSUME TInv, SInv,
           \/ StartSession \/ IncrementRetry \/ IgnoreSession \/ LoadTarget
           \/ DispatchCollect \/ RetrySession
           \/ \E o \in Operators : DecideSession(o)
           \/ \E c \in Collectors : CollectorRuns(c)
           \/ RCARuns \/ FixAgentPlans \/ FixAgentPublishes
           \/ TimePasses \/ Crash \/ UNCHANGED vars
    PROVE  SInv'
  <1>a. TypeOK
    BY DEF TInv
  <1> USE DEF fixes, past, loop, sweeper, http, LoopAside, SweepAside
  <1>1. CASE StartSession \/ RetrySession \/ IgnoreSession
    <2>1. PICK e \in {"START_COLLECT", "RETRY", "IGNORE"}, r \in Reply :
             Transition(e, r)
      BY <1>1 DEF StartSession, RetrySession, IgnoreSession
    <2>2. QuietMove
      BY <1>a, <2>1, TransitionEffect DEF QuietMove, Event
    <2>3. DecisionAside
      BY <1>1
      DEF StartSession, RetrySession, IgnoreSession, DecisionAside
    <2> QED
      BY <1>1, <2>2, <2>3, QuietStep
      DEF StartSession, RetrySession, IgnoreSession
  <1>2. CASE \/ IncrementRetry \/ LoadTarget \/ DispatchCollect
             \/ (\E c \in Collectors : CollectorRuns(c))
             \/ RCARuns \/ FixAgentPlans \/ FixAgentPublishes
             \/ TimePasses \/ UNCHANGED vars
    <2>1. /\ UNCHANGED <<status, risk, approval, exec, ran, approved>>
          /\ UNCHANGED <<lpc, todo, sweeper, opc, odec, oact>>
      BY <1>2
      DEF IncrementRetry, LoadTarget, DispatchCollect, CollectorRuns, RCARuns,
          FixAgentPlans, FixAgentPublishes, TimePasses, vars, row
    <2>2. QuietMove /\ LoopAside /\ SweepAside /\ DecisionAside
      BY <2>1 DEF QuietMove, DecisionAside
    <2> QED BY <2>1, <2>2, QuietStep
  <1>3. ASSUME NEW o \in Operators, DecideSession(o) PROVE SInv'
    <2>1. PICK e \in {"APPROVE", "REJECT"}, r \in Reply : Transition(e, r)
      BY <1>3 DEF DecideSession
    <2>2. QuietMove
      BY <1>a, <2>1, TransitionEffect DEF QuietMove, Event
    <2>3. DecisionAside
      BY <1>3, <1>a DEF DecideSession, DecisionAside, TypeOK
    <2> QED BY <1>3, <2>2, <2>3, QuietStep DEF DecideSession
  <1>4. CASE Crash
    <2>1. /\ UNCHANGED <<status, risk, approval, exec, ran, approved>>
          /\ lpc' = "idle" /\ spc' = "idle"
          /\ opc' = [o \in Operators |-> "idle"]
      BY <1>4 DEF Crash, row
    <2>2. QuietMove /\ LoopAside /\ SweepAside /\ DecisionAside
      BY <2>1 DEF QuietMove, DecisionAside, ExecPC
    <2> QED BY <2>1, <2>2, QuietStep
  <1> QED BY <1>1, <1>2, <1>3, <1>4

\* What every step of the event loop leaves to others.
LEMMA LoopLeaves ==
    ASSUME OthersUnchanged
    PROVE  /\ risk' = risk /\ approved' = approved
           /\ SweepAside /\ DecisionAside
  BY DEF OthersUnchanged, http, SweepAside, DecisionAside

\* The event loop is quiet outside of ExecuteFixActions.
LEMMA HandlerQuiet ==
    ASSUME TInv, SInv,
           \/ \E m \in Observation : Receive(m)
           \/ HandleEvidence \/ DispatchAnalyze \/ HandleRCAResult
           \/ HandleFixAction \/ DropObservation \/ EvaluateRisk
           \/ TriggerApprovalGate \/ RequestApproval \/ GateDone
           \/ CommitOffset
    PROVE  SInv'
  <1>a. TypeOK
    BY DEF TInv
  <1> USE DEF ReturnNil, ReturnError, Goto, LoopAside, ExecPC
  <1>1. CASE \/ (\E m \in Observation : Receive(m)) \/ DropObservation
             \/ TriggerApprovalGate \/ RequestApproval \/ GateDone
             \/ CommitOffset
    <2>1. /\ status' = status /\ approval' = approval /\ exec' = exec
          /\ ran' = ran /\ LoopAside /\ OthersUnchanged
      BY <1>1
      DEF Receive, DropObservation, TriggerApprovalGate, RequestApproval,
          GateDone, CommitOffset, RowsUnchanged
    <2> QED BY <2>1, LoopLeaves, QuietStep DEF QuietMove
  <1>2. CASE HandleEvidence \/ HandleRCAResult \/ HandleFixAction
    <2>1. PICK e \in {"COLLECT_COMPLETE", "ANALYSIS_COMPLETE", "RCA_GENERATED"},
               r \in Reply : Transition(e, r)
      BY <1>2 DEF HandleEvidence, HandleRCAResult, HandleFixAction
    <2>2. QuietMove
      BY <1>a, <2>1, TransitionEffect DEF QuietMove, Event
    <2>3. /\ approval' = approval /\ exec' = exec /\ ran' = ran
          /\ LoopAside /\ OthersUnchanged
      BY <1>2
      DEF HandleEvidence, HandleRCAResult, HandleFixAction, RowsUnchanged
    <2> QED BY <2>2, <2>3, LoopLeaves, QuietStep
  <1>3. CASE EvaluateRisk
    <2>1. PICK r \in Reply :
             /\ Transition("FIX_GENERATED", r)
             /\ CASE r = "ok" -> Goto(IF status' = "AWAITING_APPROVAL"
                                      THEN "gate" ELSE "start")
                  [] r = "invalid" -> ReturnNil
                  [] r = "error" -> ReturnError
      BY <1>3 DEF EvaluateRisk
    <2>2. QuietMove
      BY <1>a, <2>1, TransitionEffect DEF QuietMove, Event
    <2>3. /\ approval' = approval /\ exec' = exec /\ ran' = ran
          /\ LoopAside /\ OthersUnchanged
      BY <1>3, <2>1 DEF EvaluateRisk, RowsUnchanged, Reply
    <2> QED BY <2>2, <2>3, LoopLeaves, QuietStep
  <1>4. CASE DispatchAnalyze
    <2>1. /\ status' = status /\ approval' = approval /\ exec' = exec
          /\ ran' = ran /\ LoopAside /\ SweepAside /\ DecisionAside
          /\ risk' = risk /\ approved' = approved
      BY <1>4
      DEF DispatchAnalyze, RowsUnchanged, SweepAside, DecisionAside, http, row
    <2> QED BY <2>1, QuietStep DEF QuietMove
  <1> QED BY <1>1, <1>2, <1>3, <1>4

\* What the parts of the invariant about the loop, the sweep and the status
\* need of a step that touches none of them: rows keep their risk once they
\* have one, and approvals are not forgotten.
LEMMA RowStep ==
    ASSUME TInv, SInv,
           UNCHANGED <<status, exec, ran, lpc, todo, sweeper>>,
           approved \subseteq approved',
           \A a \in Actions : risk[a] # "NONE" => risk'[a] = risk[a],
           ApprovedKnown'
    PROVE  SInv'
  <1>0. /\ status' = status /\ exec' = exec /\ ran' = ran
        /\ lpc' = lpc /\ todo' = todo /\ spc' = spc /\ sevent' = sevent
        /\ todo \subseteq Actions /\ ran \in [Actions -> Nat]
    BY DEF sweeper, TInv, TypeOK
  <1>r. Rows \subseteq Rows'
    BY DEF Rows
  <1>1. Executing' /\ TodoFresh' /\ VerdictSound'
    BY <1>0, <1>r DEF SInv, Executing, TodoFresh, VerdictSound, First
  <1>2. TodoAllowed'
    BY <1>0 DEF SInv, TodoAllowed
  <1>3. HaveRow'
    BY <1>0 DEF SInv, HaveRow
  <1>4. NoUnapprovedRun'
    BY <1>0 DEF SInv, HaveRow, NoUnapprovedRun
  <1>5. RunAtMostOnce' /\ NothingRunsEarly' /\ NoFailureRecorded'
    BY <1>0, <1>r DEF SInv, RunAtMostOnce, NothingRunsEarly, NoFailureRecorded
  <1> QED BY <1>1, <1>2, <1>3, <1>4, <1>5 DEF SInv

\* Decisions and new rows of the fix agent keep the invariant: neither changes
\* the risk of an action that has run or is left to run.
LEMMA RowsKeep ==
    ASSUME TInv, SInv,
           \/ \E o \in Operators, a \in Actions, d \in {"APPROVED", "REJECTED"} :
                 DecisionApproval(o, a, d)
           \/ \E o \in Operators : DecideFixAction(o)
           \/ FixAgentPersists
    PROVE  SInv'
  <1>a. TypeOK
    BY DEF TInv
  <1> USE DEF row, loop, past, http
  <1>1. ASSUME NEW o \in Operators, NEW a \in Actions,
               NEW d \in {"APPROVED", "REJECTED"}, DecisionApproval(o, a, d)
        PROVE  SInv'
    <2>1. /\ approval' = approval /\ approved \subseteq approved'
          /\ d = "APPROVED" => a \in approved'
          /\ opc'[o] = "action" /\ oact'[o] = a /\ odec'[o] = d
          /\ \A p \in Operators \ {o} :
                opc'[p] = opc[p] /\ oact'[p] = oact[p] /\ odec'[p] = odec[p]
      BY <1>1, <1>a DEF DecisionApproval, TypeOK
    <2>2. ApprovedKnown'
      BY <2>1 DEF SInv, ApprovedKnown
    <2> QED BY <1>1, <2>1, <2>2, RowStep DEF DecisionApproval
  <1>2. ASSUME NEW o \in Operators, DecideFixAction(o) PROVE SInv'
    <2>1. /\ opc[o] = "action" /\ opc'[o] = "advance"
          /\ oact' = oact /\ odec' = odec /\ approved' = approved
          /\ \A p \in Operators \ {o} : opc'[p] = opc[p]
          /\ oact[o] \in Actions
      BY <1>2, <1>a DEF DecideFixAction, TypeOK
    <2>2. \A a \in Actions :
             approval'[a] = approval[a] \/ (a = oact[o] /\ approval'[a] = odec[o])
      BY <1>2, <1>a DEF DecideFixAction, TypeOK
    <2>3. ApprovedKnown'
      BY <2>1, <2>2 DEF SInv, ApprovedKnown
    <2> QED BY <1>2, <2>1, <2>3, RowStep DEF DecideFixAction
  <1>3. CASE FixAgentPersists
    <2>1. \A a \in Actions : risk[a] # "NONE" => risk'[a] = risk[a]
      BY <1>3, <1>a DEF FixAgentPersists, Rows, TypeOK
    <2>2. ApprovedKnown'
      BY <1>3 DEF FixAgentPersists, SInv, ApprovedKnown
    <2> QED BY <1>3, <2>1, <2>2, RowStep DEF FixAgentPersists
  <1> QED BY <1>1, <1>2, <1>3

\* Outside of ExecuteFixActions the loop only takes approvals back.
LEMMA MarkPendingKeeps ==
    ASSUME TInv, SInv, MarkPending
    PROVE  SInv'
  <1>0. /\ lpc = "mark" /\ lpc' = "request"
        /\ status' = status /\ exec' = exec /\ ran' = ran
        /\ OthersUnchanged /\ todo \subseteq Actions
    BY DEF MarkPending, TInv, TypeOK
  <1>1. /\ risk' = risk /\ approved' = approved /\ spc' = spc
        /\ sevent' = sevent /\ opc' = opc /\ odec' = odec /\ oact' = oact
    BY <1>0 DEF OthersUnchanged, sweeper, http
  <1>2. \A a \in Actions : approval'[a] = "APPROVED" => approval[a] = "APPROVED"
    BY DEF MarkPending, TInv, TypeOK
  <1>r. Rows' = Rows
    BY <1>1 DEF Rows
  <1>3. Executing' /\ TodoFresh' /\ TodoAllowed' /\ VerdictSound'
    BY <1>0, <1>1, <1>r
    DEF SInv, Executing, TodoFresh, TodoAllowed, VerdictSound, ExecPC
  <1>4. ApprovedKnown'
    BY <1>1, <1>2 DEF SInv, ApprovedKnown
  <1>5. HaveRow' /\ NoUnapprovedRun' /\ RunAtMostOnce' /\ NothingRunsEarly'
    BY <1>0, <1>1
    DEF SInv, HaveRow, NoUnapprovedRun, RunAtMostOnce, NothingRunsEarly
  <1>6. NoFailureRecorded'
    BY <1>0, <1>r DEF SInv, NoFailureRecorded
  <1> QED BY <1>3, <1>4, <1>5, <1>6 DEF SInv

\* Inside of ExecuteFixActions a step keeps the invariant when it keeps the
\* parts about the actions: the status is not changed, no sweep is between
\* its read and its event, and the session is not resolved.
LEMMA ExecStep ==
    ASSUME TInv, SInv, lpc \in ExecPC, OthersUnchanged,
           UNCHANGED <<status, approval>>,
           TodoFresh', TodoAllowed', HaveRow', NoUnapprovedRun', RunAtMostOnce'
    PROVE  SInv'
  <1>0. /\ status' = status /\ approval' = approval /\ risk' = risk
        /\ approved' = approved /\ spc' = spc /\ sevent' = sevent
        /\ opc' = opc /\ odec' = odec /\ oact' = oact
    BY DEF OthersUnchanged, sweeper, http
  <1>1. status \in AtWork /\ spc \notin {"verdict", "settle"}
    BY DEF SInv, Executing, VerdictSound
  <1>2. Executing' /\ VerdictSound'
    BY <1>0, <1>1 DEF Executing, VerdictSound
  <1>3. NothingRunsEarly' /\ NoFailureRecorded'
    BY <1>0, <1>1 DEF NothingRunsEarly, NoFailureRecorded, AtWork
  <1>4. ApprovedKnown'
    BY <1>0 DEF SInv, ApprovedKnown
  <1> QED BY <1>2, <1>3, <1>4 DEF SInv

\* EXECUTE succeeds only in FIX_SUGGESTED, where nothing has run and no sweep
\* is at a verdict; without success the loop does not read the actions.
LEMMA StartExecutionKeeps ==
    ASSUME TInv, SInv, StartExecution
    PROVE  SInv'
  <1>a. TypeOK
    BY DEF TInv
  <1>1. PICK r \in Reply :
           /\ Transition("EXECUTE", r)
           /\ CASE r = "ok" -> Goto("read")
                [] r = "invalid" -> ReturnNil
                [] r = "error" -> ReturnError
    BY DEF StartExecution
  <1>2. /\ status' = status \/ StatusMove("EXECUTE")
        /\ r = "ok" => StatusMove("EXECUTE")
    BY <1>a, <1>1, TransitionEffect DEF Event
  <1>3. /\ approval' = approval /\ exec' = exec /\ ran' = ran
        /\ OthersUnchanged
    BY DEF StartExecution, RowsUnchanged
  <1>4. CASE r # "ok"
    <2>1. QuietMove
      BY <1>2 DEF QuietMove, Event
    <2>2. LoopAside
      BY <1>1, <1>4 DEF Reply, ReturnNil, ReturnError, LoopAside, ExecPC
    <2> QED BY <1>3, <2>1, <2>2, LoopLeaves, QuietStep
  <1>5. CASE r = "ok"
    <2>1. lpc' = "read"
      BY <1>1, <1>5 DEF Goto
    <2>2. status \notin Begun /\ status' = "FIX_EXECUTING"
      BY <1>2, <1>5, MoveFacts DEF StatusMove
    <2>3. /\ risk' = risk /\ approved' = approved /\ spc' = spc
          /\ sevent' = sevent /\ opc' = opc /\ odec' = odec /\ oact' = oact
      BY <1>3 DEF OthersUnchanged, sweeper, http
    <2>4. \A a \in Actions : ran[a] = 0
      <3>1. \A a \in Actions : ~(ran[a] > 0)
        BY <2>2 DEF SInv, NothingRunsEarly, Begun
      <3>2. \A a \in Actions : ran[a] \in Nat
        BY <1>a DEF TypeOK
      <3> QED BY <3>1, <3>2
    <2>5. spc \notin {"verdict", "settle"}
      BY <2>2 DEF SInv, VerdictSound, Settled
    <2>6. Executing' /\ VerdictSound' /\ NoFailureRecorded'
      BY <2>2, <2>3, <2>5
      DEF Executing, VerdictSound, NoFailureRecorded, AtWork
    <2>7. TodoFresh' /\ TodoAllowed' /\ NothingRunsEarly'
      BY <1>3, <2>1, <2>2, <2>4
      DEF TodoFresh, TodoAllowed, NothingRunsEarly
    <2>8. HaveRow' /\ ApprovedKnown' /\ NoUnapprovedRun' /\ RunAtMostOnce'
      BY <1>3, <2>3
      DEF SInv, HaveRow, ApprovedKnown, NoUnapprovedRun, RunAtMostOnce
    <2> QED BY <2>6, <2>7, <2>8 DEF SInv
  <1> QED BY <1>4, <1>5

\* The actions chosen by ExecuteFixActions have a row, have not run and, if
\* HIGH-risk, carry an approval.
LEMMA ExecuteFixActionsKeeps ==
    ASSUME TInv, SInv, ExecuteFixActions
    PROVE  SInv'
  <1>0. /\ lpc = "read" /\ status' = status /\ approval' = approval
        /\ exec' = exec /\ ran' = ran /\ OthersUnchanged
    BY DEF ExecuteFixActions, RowsUnchanged
  <1>1. CASE ReturnNil
    <2>1. LoopAside /\ QuietMove
      BY <1>0, <1>1 DEF ReturnNil, LoopAside, ExecPC, QuietMove
    <2> QED BY <1>0, <2>1, LoopLeaves, QuietStep
  <1>2. CASE ~ReturnNil
    <2>1. todo' = { a \in Rows : Runnable(a) } /\ lpc' = "running"
      BY <1>2 DEF ExecuteFixActions
    <2>2. TodoFresh'
      BY <1>0, <2>1 DEF SInv, TodoFresh, Rows
    <2>3. TodoAllowed'
      BY <1>0, <2>1, LoopLeaves
      DEF SInv, TodoAllowed, ApprovedKnown, Rows, Runnable
    <2>4. HaveRow' /\ NoUnapprovedRun' /\ RunAtMostOnce'
      BY <1>0, LoopLeaves DEF SInv, HaveRow, NoUnapprovedRun, RunAtMostOnce
    <2> QED BY <1>0, <2>2, <2>3, <2>4, ExecStep DEF ExecPC
  <1> QED BY <1>1, <1>2

\* Marking an action as running is recorded on the first of those left.
LEMMA MarkRunningKeeps ==
    ASSUME TInv, SInv, MarkRunning
    PROVE  SInv'
  <1>0. /\ lpc = "running" /\ lpc' = "run" /\ status' = status
        /\ approval' = approval /\ ran' = ran /\ todo' = todo
        /\ OthersUnchanged
    BY DEF MarkRunning
  <1>1. \A a \in Actions : exec'[a] = "FAILED" => exec[a] = "FAILED"
    BY DEF MarkRunning, TInv, TypeOK
  <1>2. TodoFresh' /\ TodoAllowed'
    BY <1>0, LoopLeaves DEF SInv, TodoFresh, TodoAllowed, ExecPC
  <1>3. HaveRow' /\ NoUnapprovedRun' /\ RunAtMostOnce'
    BY <1>0, <1>1, LoopLeaves
    DEF SInv, HaveRow, NoUnapprovedRun, RunAtMostOnce
  <1> QED BY <1>0, <1>2, <1>3, ExecStep DEF ExecPC

\* The executor runs the first action left, which has not run, has a row and
\* was approved if it has to be.
LEMMA RunActionKeeps ==
    ASSUME TInv, SInv, RunAction
    PROVE  SInv'
  <1>0. /\ lpc = "run" /\ lpc' = "record" /\ status' = status
        /\ approval' = approval /\ exec' = exec /\ todo' = todo
        /\ OthersUnchanged
    BY DEF RunAction
  <1>1. PICK a \in todo : First(a) /\ ran' = [ran EXCEPT ![a] = ran[a] + 1]
    BY DEF RunAction
  <1>2. /\ ran \in [Actions -> Nat] /\ todo \subseteq Actions
    BY DEF TInv, TypeOK
  <1>3. ran[a] = 0
    BY <1>0, <1>1 DEF SInv, TodoFresh
  <1>4. ran'[a] = 1
    BY <1>1, <1>2, <1>3
  <1>5. \A b \in Actions : b # a => ran'[b] = ran[b]
    BY <1>1, <1>2
  <1>6. risk[a] # "NONE" /\ (risk[a] = "HIGH" => a \in approved)
    BY <1>0, <1>1 DEF SInv, TodoAllowed, ExecPC
  <1>7. TodoFresh'
    BY <1>0, <1>1, <1>2, <1>5 DEF SInv, TodoFresh, First
  <1>8. TodoAllowed'
    BY <1>0, LoopLeaves DEF SInv, TodoAllowed, ExecPC
  <1>9. HaveRow' /\ NoUnapprovedRun'
    BY <1>0, <1>5, <1>6, LoopLeaves DEF SInv, HaveRow, NoUnapprovedRun
  <1>10. RunAtMostOnce'
    BY <1>4, <1>5 DEF SInv, RunAtMostOnce
  <1> QED BY <1>0, <1>7, <1>8, <1>9, <1>10, ExecStep DEF ExecPC

\* The result is recorded on an action that has a row.
LEMMA RecordResultKeeps ==
    ASSUME TInv, SInv, RecordResult
    PROVE  SInv'
  <1>0. /\ lpc = "record" /\ lpc' = "incident" /\ status' = status
        /\ approval' = approval /\ ran' = ran /\ todo' = todo
        /\ OthersUnchanged
    BY DEF RecordResult
  <1>1. \A a \in Actions :
           exec'[a] = "FAILED" => exec[a] = "FAILED" \/ a \in todo
    BY DEF RecordResult, TInv, TypeOK
  <1>2. TodoFresh'
    BY <1>0 DEF SInv, TodoFresh, First
  <1>3. TodoAllowed' /\ \A a \in todo : risk[a] # "NONE"
    BY <1>0, LoopLeaves DEF SInv, TodoAllowed, ExecPC
  <1>4. HaveRow' /\ NoUnapprovedRun' /\ RunAtMostOnce'
    BY <1>0, <1>1, <1>3, LoopLeaves
    DEF SInv, HaveRow, NoUnapprovedRun, RunAtMostOnce
  <1> QED BY <1>0, <1>2, <1>3, <1>4, ExecStep DEF ExecPC

\* Going on to the next action drops exactly the one that has run.
LEMMA OpenIncidentKeeps ==
    ASSUME TInv, SInv, OpenIncident
    PROVE  SInv'
  <1>0. /\ lpc = "incident" /\ lpc' = "running" /\ status' = status
        /\ approval' = approval /\ exec' = exec /\ ran' = ran
        /\ OthersUnchanged
    BY DEF OpenIncident
  <1>1. PICK a \in todo : First(a) /\ todo' = todo \ {a}
    BY DEF OpenIncident
  <1>2. \A b \in todo : b # a => ~First(b)
    <2>1. todo \subseteq Nat
      BY DEF TInv, TypeOK, Actions
    <2> QED BY <1>1, <2>1 DEF First
  <1>3. TodoFresh'
    BY <1>0, <1>1, <1>2 DEF SInv, TodoFresh
  <1>4. TodoAllowed'
    BY <1>0, <1>1, LoopLeaves DEF SInv, TodoAllowed, ExecPC
  <1>5. HaveRow' /\ NoUnapprovedRun' /\ RunAtMostOnce'
    BY <1>0, LoopLeaves DEF SInv, HaveRow, NoUnapprovedRun, RunAtMostOnce
  <1> QED BY <1>0, <1>3, <1>4, <1>5, ExecStep DEF ExecPC

\* EXECUTE_COMPLETE is sent when the loop leaves ExecuteFixActions; no sweep
\* is at a verdict then.
LEMMA CompleteExecutionKeeps ==
    ASSUME TInv, SInv, CompleteExecution
    PROVE  SInv'
  <1>0. /\ lpc = "running" /\ lpc' = "commit" /\ approval' = approval
        /\ exec' = exec /\ ran' = ran /\ OthersUnchanged
    BY DEF CompleteExecution, ReturnNil, RowsUnchanged
  <1>1. status' = status \/ StatusMove("EXECUTE_COMPLETE")
    BY TransitionEffect DEF CompleteExecution, TInv, Event
  <1>2. /\ status \in Begun => status' \in Begun
        /\ status' = "RESOLVED" => status = "RESOLVED"
    BY <1>1, MoveFacts DEF StatusMove
  <1>3. /\ risk' = risk /\ approved' = approved /\ spc' = spc
        /\ sevent' = sevent /\ opc' = opc /\ odec' = odec /\ oact' = oact
    BY <1>0 DEF OthersUnchanged, sweeper, http
  <1>r. Rows' = Rows
    BY <1>3 DEF Rows
  <1>4. Executing' /\ TodoFresh' /\ TodoAllowed'
    BY <1>0 DEF Executing, TodoFresh, TodoAllowed, ExecPC
  <1>5. VerdictSound'
    BY <1>0, <1>3, <1>r DEF SInv, VerdictSound, ExecPC
  <1>6. NothingRunsEarly'
    BY <1>0, <1>2 DEF SInv, NothingRunsEarly, Begun
  <1>7. NoFailureRecorded'
    BY <1>0, <1>2, <1>r DEF SInv, NoFailureRecorded
  <1>8. HaveRow' /\ ApprovedKnown' /\ NoUnapprovedRun' /\ RunAtMostOnce'
    BY <1>0, <1>3
    DEF SInv, HaveRow, ApprovedKnown, NoUnapprovedRun, RunAtMostOnce
  <1> QED BY <1>4, <1>5, <1>6, <1>7, <1>8 DEF SInv

\* What every sweep leaves to others.
LEMMA SweepLeaves ==
    ASSUME SweepRest
    PROVE  /\ risk' = risk /\ approval' = approval /\ exec' = exec
           /\ ran' = ran /\ approved' = approved /\ lpc' = lpc /\ todo' = todo
           /\ opc' = opc /\ odec' = odec /\ oact' = oact
           /\ LoopAside /\ DecisionAside /\ Rows' = Rows
  BY DEF SweepRest, fixes, loop, http, past, LoopAside, DecisionAside, Rows

\* The sweeps of stuck and of proposed sessions are quiet.
LEMMA SweepQuiet ==
    ASSUME TInv, SInv,
           \/ SweepSelectStuck \/ SweepFail
           \/ SweepSelectProposed \/ SweepFixProposed
    PROVE  SInv'
  <1>1. SweepRest /\ SweepAside
    BY DEF SweepSelectStuck, SweepFail, SweepSelectProposed, SweepFixProposed,
           SweepAside
  <1>2. CASE SweepSelectStuck \/ SweepSelectProposed
    BY <1>1, <1>2, SweepLeaves, QuietStep
    DEF SweepSelectStuck, SweepSelectProposed, QuietMove
  <1>3. CASE SweepFail \/ SweepFixProposed
    <2>1. PICK e \in {"FAIL", "FIX_GENERATED"}, r \in Reply : Transition(e, r)
      BY <1>3 DEF SweepFail, SweepFixProposed
    <2>2. QuietMove
      BY <2>1, TransitionEffect DEF TInv, QuietMove, Event
    <2> QED BY <1>1, <2>2, SweepLeaves, QuietStep
  <1> QED BY <1>2, <1>3

\* SweepVerifying selects a session in VERIFYING, where the loop is not
\* inside ExecuteFixActions, ...
LEMMA SweepSelectVerifyingKeeps ==
    ASSUME TInv, SInv, SweepSelectVerifying
    PROVE  SInv'
  <1>0. /\ status = "VERIFYING" /\ status' = status /\ spc' = "verdict"
        /\ SweepRest
    BY DEF SweepSelectVerifying
  <1>1. lpc \notin ExecPC
    BY <1>0 DEF SInv, Executing, AtWork
  <1>2. VerdictSound'
    BY <1>0, <1>1, SweepLeaves DEF VerdictSound, Settled, Begun
  <1>3. Executing' /\ TodoFresh' /\ TodoAllowed'
    BY <1>0, <1>1, SweepLeaves
    DEF Executing, TodoFresh, TodoAllowed, ExecPC
  <1>4. HaveRow' /\ ApprovedKnown' /\ NoUnapprovedRun' /\ RunAtMostOnce'
    BY <1>0, SweepLeaves
    DEF SInv, HaveRow, ApprovedKnown, NoUnapprovedRun, RunAtMostOnce
  <1>5. NothingRunsEarly' /\ NoFailureRecorded'
    BY <1>0, SweepLeaves DEF SInv, NothingRunsEarly, NoFailureRecorded
  <1> QED BY <1>2, <1>3, <1>4, <1>5 DEF SInv

\* ... reads the rows, of which a verdict of success has seen every one that
\* can be recorded as failed, ...
LEMMA SweepReadFixesKeeps ==
    ASSUME TInv, SInv, SweepReadFixes
    PROVE  SInv'
  <1>0. /\ spc = "verdict" /\ spc' = "settle" /\ status' = status /\ SweepRest
        /\ sevent' = Verdict(Rows) \/ sevent' = Verdict({})
    BY DEF SweepReadFixes
  <1>1. sevent' = "VERIFY_SUCCESS" =>
           Rows # {} /\ \A a \in Rows : exec[a] # "FAILED"
    BY <1>0 DEF Verdict
  <1>2. sevent' = "VERIFY_SUCCESS" => \A a \in Actions : exec[a] # "FAILED"
    BY <1>1 DEF SInv, HaveRow, Rows
  <1>3. VerdictSound'
    BY <1>0, <1>1, <1>2, SweepLeaves DEF SInv, VerdictSound
  <1>4. Executing' /\ TodoFresh' /\ TodoAllowed'
    BY <1>0, SweepLeaves
    DEF SInv, Executing, TodoFresh, TodoAllowed, First
  <1>5. HaveRow' /\ ApprovedKnown' /\ NoUnapprovedRun' /\ RunAtMostOnce'
    BY <1>0, SweepLeaves
    DEF SInv, HaveRow, ApprovedKnown, NoUnapprovedRun, RunAtMostOnce
  <1>6. NothingRunsEarly' /\ NoFailureRecorded'
    BY <1>0, SweepLeaves DEF SInv, NothingRunsEarly, NoFailureRecorded
  <1> QED BY <1>3, <1>4, <1>5, <1>6 DEF SInv

\* ... and sends its verdict, which is still true.
LEMMA SweepVerifyingKeeps ==
    ASSUME TInv, SInv, SweepVerifying
    PROVE  SInv'
  <1>0. /\ spc = "settle" /\ spc' = "idle" /\ SweepRest
    BY DEF SweepVerifying
  <1>1. sevent \in {"VERIFY_SUCCESS", "VERIFY_FAILURE"}
    BY <1>0 DEF TInv, TypeOK, SweepTyped
  <1>2. status' = status \/ StatusMove(sevent)
    BY <1>1, TransitionEffect DEF SweepVerifying, TInv, Event
  <1>3. lpc \notin ExecPC
    BY <1>0 DEF SInv, VerdictSound
  <1>4. status \in Begun => status' \in Begun
    BY <1>2, MoveFacts DEF StatusMove
  <1>5. NoFailureRecorded'
    <2>1. CASE status' = "RESOLVED" /\ status # "RESOLVED"
      <3>1. sevent = "VERIFY_SUCCESS"
        BY <1>2, <2>1, MoveFacts DEF StatusMove
      <3> QED
        BY <1>0, <3>1, SweepLeaves
        DEF SInv, VerdictSound, NoFailureRecorded
    <2>2. CASE status' = "RESOLVED" => status = "RESOLVED"
      BY <1>0, <2>2, SweepLeaves DEF SInv, NoFailureRecorded
    <2> QED BY <2>1, <2>2
  <1>6. Executing' /\ TodoFresh' /\ TodoAllowed' /\ VerdictSound'
    BY <1>0, <1>3, SweepLeaves
    DEF Executing, TodoFresh, TodoAllowed, VerdictSound, ExecPC
  <1>7. HaveRow' /\ ApprovedKnown' /\ NoUnapprovedRun' /\ RunAtMostOnce'
    BY <1>0, SweepLeaves
    DEF SInv, HaveRow, ApprovedKnown, NoUnapprovedRun, RunAtMostOnce
  <1>8. NothingRunsEarly'
    BY <1>0, <1>4, SweepLeaves DEF SInv, NothingRunsEarly, Begun
  <1> QED BY <1>5, <1>6, <1>7, <1>8 DEF SInv

\* Every step keeps the invariant.
LEMMA SafeStep == TInv /\ SInv /\ [Next]_vars => SInv'
  <1> SUFFICES ASSUME TInv, SInv, [Next]_vars PROVE SInv'
    OBVIOUS
  <1>1. CASE LoopStep
    BY <1>1, HandlerQuiet, MarkPendingKeeps, StartExecutionKeeps,
       ExecuteFixActionsKeeps, MarkRunningKeeps, RunActionKeeps,
       RecordResultKeeps, OpenIncidentKeeps, CompleteExecutionKeeps
    DEF LoopStep
  <1>2. CASE SweepStep
    BY <1>2, SweepQuiet, SweepSelectVerifyingKeeps, SweepReadFixesKeeps,
       SweepVerifyingKeeps
    DEF SweepStep
  <1> QED
    BY <1>1, <1>2, OutsideQuiet, RowsKeep
    DEF Next, OperatorCalls, DecisionStep, FixAgentStep

\* It holds in the beginning.
LEMMA SafeInit == Init => SInv
  BY OrchestratorAssumption
  DEF Init, SInv, Executing, TodoFresh, TodoAllowed, HaveRow, ApprovedKnown,
      VerdictSound, NoUnapprovedRun, RunAtMostOnce, NothingRunsEarly,
      NoFailureRecorded, ExecPC

-----------------------------------------------------------------------------
(***************************************************************************)
(* What becomes of a failure the executor has reported.                    *)
(***************************************************************************)

\* An action that failed has run, and the result about to be written is that
\* of the action it is written to.
FailureKnown ==
    /\ \A a \in failed : ran[a] > 0
    /\ lpc = "record" =>
          \A a \in todo : First(a) /\ a \in failed => outcome = "FAILED"

\* A failure whose write was not refused is in the row, or about to be written
\* there, or was cut off by a crash, and then nobody completes the execution.
FailureKept ==
    \A a \in failed \ unrecorded :
        \/ exec[a] = "FAILED"
        \/ lpc = "record" /\ First(a) /\ outcome = "FAILED"
        \/ status \in AtWork /\ lpc \notin ExecPC

FInv == FailureKnown /\ FailureKept

\* Outside of ExecuteFixActions, and where it is left by a return or a crash,
\* nothing is forgotten as long as the status only moves quietly.
LEMMA FailureAside ==
    ASSUME SInv, FInv, QuietMove, UNCHANGED <<exec, results>>,
           \/ lpc' \notin ExecPC
           \/ UNCHANGED <<lpc, todo, outcome>>
    PROVE  FInv'
  <1>0. exec' = exec /\ ran' = ran /\ failed' = failed /\ unrecorded' = unrecorded
    OBVIOUS
  <1>1. status \in AtWork => status' \in AtWork
    BY QuietFacts
  <1>2. CASE lpc' \notin ExecPC
    <2>1. lpc' # "record"
      BY <1>2 DEF ExecPC
    <2>2. lpc = "record" => status \in AtWork
      BY DEF SInv, Executing, ExecPC
    <2> QED
      BY <1>0, <1>1, <1>2, <2>1, <2>2 DEF FInv, FailureKnown, FailureKept
  <1>3. CASE UNCHANGED <<lpc, todo, outcome>>
    BY <1>0, <1>1, <1>3 DEF FInv, FailureKnown, FailureKept, First
  <1> QED BY <1>2, <1>3

\* Inside of it, away from the write of a result, every failure is in its row.
LEMMA FailureInside ==
    ASSUME FInv, lpc \in ExecPC \ {"record"}, lpc' # "record",
           UNCHANGED results,
           \A a \in failed : exec[a] = "FAILED" => exec'[a] = "FAILED"
    PROVE  FInv'
  <1>0. ran' = ran /\ failed' = failed /\ unrecorded' = unrecorded
    OBVIOUS
  <1>1. \A a \in failed \ unrecorded : exec[a] = "FAILED"
    BY DEF FInv, FailureKept
  <1> QED BY <1>0, <1>1 DEF FInv, FailureKnown, FailureKept

\* Requests, agents, sweeps, time and crashes leave the loop and the rows
\* alone or end what the loop is doing.
LEMMA FailureOutside ==
    ASSUME TInv, SInv, FInv,
           \/ OperatorCalls \/ LoadTarget \/ DispatchCollect \/ RetrySession
           \/ \E o \in Operators : DecisionStep(o)
           \/ \E c \in Collectors : CollectorRuns(c)
           \/ RCARuns \/ FixAgentStep \/ TimePasses \/ Crash
           \/ UNCHANGED vars
    PROVE  FInv'
  <1>a. TypeOK
    BY DEF TInv
  <1> USE DEF fixes, past, loop
  <1>1. CASE StartSession \/ RetrySession \/ IgnoreSession
    <2>1. PICK e \in {"START_COLLECT", "RETRY", "IGNORE"}, r \in Reply :
             Transition(e, r)
      BY <1>1 DEF StartSession, RetrySession, IgnoreSession
    <2>2. QuietMove
      BY <1>a, <2>1, TransitionEffect DEF QuietMove, Event
    <2> QED
      BY <1>1, <2>2, FailureAside
      DEF StartSession, RetrySession, IgnoreSession
  <1>2. ASSUME NEW o \in Operators, DecideSession(o) PROVE FInv'
    <2>1. PICK e \in {"APPROVE", "REJECT"}, r \in Reply : Transition(e, r)
      BY <1>2 DEF DecideSession
    <2>2. QuietMove
      BY <1>a, <2>1, TransitionEffect DEF QuietMove, Event
    <2> QED BY <1>2, <2>2, FailureAside DEF DecideSession
  <1>3. CASE \/ IncrementRetry \/ LoadTarget \/ DispatchCollect
             \/ (\E o \in Operators, a \in Actions,
                    d \in {"APPROVED", "REJECTED"} : DecisionApproval(o, a, d))
             \/ (\E o \in Operators : DecideFixAction(o))
             \/ (\E c \in Collectors : CollectorRuns(c))
             \/ RCARuns \/ FixAgentStep \/ TimePasses \/ UNCHANGED vars
    <2>1. UNCHANGED <<status, exec, results, lpc, todo, outcome>>
      BY <1>3
      DEF IncrementRetry, LoadTarget, DispatchCollect, DecisionApproval,
          DecideFixAction, CollectorRuns, RCARuns, FixAgentStep, FixAgentPlans,
          FixAgentPersists, FixAgentPublishes, TimePasses, vars, row
    <2> QED BY <2>1, FailureAside DEF QuietMove
  <1>4. CASE Crash
    <2>1. UNCHANGED <<status, exec, results>> /\ lpc' = "idle"
      BY <1>4 DEF Crash, row
    <2> QED BY <2>1, FailureAside DEF QuietMove, ExecPC
  <1> QED
    BY <1>1, <1>2, <1>3, <1>4 DEF OperatorCalls, DecisionStep

\* So do the sweeps: while SweepVerifying is at its verdict, no execution is
\* at work.
LEMMA FailureSweep ==
    ASSUME TInv, SInv, FInv, SweepStep
    PROVE  FInv'
  <1>1. UNCHANGED <<exec, results, lpc, todo, outcome>>
    BY DEF SweepStep, SweepSelectStuck, SweepFail, SweepSelectProposed,
           SweepFixProposed, SweepSelectVerifying, SweepReadFixes,
           SweepVerifying, SweepRest, fixes, loop, past
  <1>2. CASE ~SweepVerifying
    <2>1. CASE status' = status
      BY <1>1, <2>1, FailureAside DEF QuietMove
    <2>2. CASE SweepFail \/ SweepFixProposed
      <3>1. PICK e \in {"FAIL", "FIX_GENERATED"}, r \in Reply : Transition(e, r)
        BY <2>2 DEF SweepFail, SweepFixProposed
      <3>2. QuietMove
        BY <3>1, TransitionEffect DEF TInv, QuietMove, Event
      <3> QED BY <1>1, <3>2, FailureAside
    <2> QED
      BY <1>2, <2>1, <2>2
      DEF SweepStep, SweepSelectStuck, SweepSelectProposed,
          SweepSelectVerifying, SweepReadFixes
  <1>3. CASE SweepVerifying
    <2>1. sevent \in {"VERIFY_SUCCESS", "VERIFY_FAILURE"}
      BY <1>3 DEF SweepVerifying, TInv, TypeOK, SweepTyped
    <2>2. status' = status \/ StatusMove(sevent)
      BY <1>3, <2>1, TransitionEffect DEF SweepVerifying, TInv, Event
    <2>3. sevent # "EXECUTE_COMPLETE"
      BY <2>1
    <2>4. status \in AtWork => status' \in AtWork
      BY <2>2, <2>3, MoveFacts DEF StatusMove
    <2> QED
      BY <1>1, <2>4 DEF FInv, FailureKnown, FailureKept, First
  <1> QED BY <1>2, <1>3

\* The event loop outside of ExecuteFixActions, and its way into it: EXECUTE
\* is accepted only where nothing has run, so nothing has failed.
LEMMA FailureHandler ==
    ASSUME TInv, SInv, FInv,
           \/ \E m \in Observation : Receive(m)
           \/ HandleEvidence \/ DispatchAnalyze \/ HandleRCAResult
           \/ HandleFixAction \/ DropObservation \/ EvaluateRisk
           \/ TriggerApprovalGate \/ RequestApproval \/ MarkPending
           \/ GateDone \/ CommitOffset \/ StartExecution
    PROVE  FInv'
  <1>a. TypeOK
    BY DEF TInv
  <1> USE DEF ReturnNil, ReturnError, Goto, ExecPC
  <1>1. CASE \/ (\E m \in Observation : Receive(m)) \/ DropObservation
             \/ TriggerApprovalGate \/ RequestApproval \/ MarkPending
             \/ GateDone \/ CommitOffset \/ DispatchAnalyze
    <2>1. /\ UNCHANGED <<status, exec, results>>
          /\ lpc' \notin ExecPC \/ UNCHANGED <<lpc, todo, outcome>>
      BY <1>1
      DEF Receive, DropObservation, TriggerApprovalGate, RequestApproval,
          MarkPending, GateDone, CommitOffset, DispatchAnalyze, RowsUnchanged,
          row
    <2> QED BY <2>1, FailureAside DEF QuietMove
  <1>2. CASE HandleEvidence \/ HandleRCAResult \/ HandleFixAction
    <2>1. PICK e \in {"COLLECT_COMPLETE", "ANALYSIS_COMPLETE", "RCA_GENERATED"},
               r \in Reply : Transition(e, r)
      BY <1>2 DEF HandleEvidence, HandleRCAResult, HandleFixAction
    <2>2. QuietMove
      BY <1>a, <2>1, TransitionEffect DEF QuietMove, Event
    <2>3. UNCHANGED <<exec, results>> /\ lpc' \notin ExecPC
      BY <1>2
      DEF HandleEvidence, HandleRCAResult, HandleFixAction, RowsUnchanged
    <2> QED BY <2>2, <2>3, FailureAside
  <1>3. CASE EvaluateRisk
    <2>1. PICK r \in Reply :
             /\ Transition("FIX_GENERATED", r)
             /\ CASE r = "ok" -> Goto(IF status' = "AWAITING_APPROVAL"
                                      THEN "gate" ELSE "start")
                  [] r = "invalid" -> ReturnNil
                  [] r = "error" -> ReturnError
      BY <1>3 DEF EvaluateRisk
    <2>2. QuietMove
      BY <1>a, <2>1, TransitionEffect DEF QuietMove, Event
    <2>3. UNCHANGED <<exec, results>> /\ lpc' \notin ExecPC
      BY <1>3, <2>1 DEF EvaluateRisk, RowsUnchanged, Reply
    <2> QED BY <2>2, <2>3, FailureAside
  <1>4. CASE StartExecution
    <2>1. PICK r \in Reply :
             /\ Transition("EXECUTE", r)
             /\ CASE r = "ok" -> Goto("read")
                  [] r = "invalid" -> ReturnNil
                  [] r = "error" -> ReturnError
      BY <1>4 DEF StartExecution
    <2>2. /\ status' = status \/ StatusMove("EXECUTE")
          /\ r = "ok" => StatusMove("EXECUTE")
      BY <1>a, <2>1, TransitionEffect DEF Event
    <2>3. UNCHANGED <<exec, results>>
      BY <1>4 DEF StartExecution, RowsUnchanged
    <2>4. CASE r = "ok"
      <3>1. status \notin Begun
        BY <2>2, <2>4, MoveFacts DEF StatusMove
      <3>2. \A a \in Actions : ~(ran[a] > 0)
        BY <3>1 DEF SInv, NothingRunsEarly, Begun
      <3>3. failed = {}
        BY <3>2, <1>a DEF FInv, FailureKnown, TypeOK
      <3>4. failed' = {}
        BY <2>3, <3>3
      <3> QED BY <3>4 DEF FInv, FailureKnown, FailureKept
    <2>5. CASE r # "ok"
      <3>1. QuietMove
        BY <2>2 DEF QuietMove, Event
      <3>2. lpc' \notin ExecPC
        BY <2>1, <2>5 DEF Reply
      <3> QED BY <2>3, <3>1, <3>2, FailureAside
    <2> QED BY <2>4, <2>5
  <1> QED BY <1>1, <1>2, <1>3, <1>4

\* ExecuteFixActions: a row that records a failure is not written again, for
\* its action has run and only those that have not are left; the result is
\* written to its own action, or the action is marked as unrecorded.
LEMMA FailureExecution ==
    ASSUME TInv, SInv, FInv,
           \/ ExecuteFixActions \/ MarkRunning \/ RunAction
           \/ RecordResult \/ OpenIncident \/ CompleteExecution
    PROVE  FInv'
  <1>a. /\ todo \subseteq Actions /\ ran \in [Actions -> Nat]
        /\ exec \in [Actions -> {"NOT_STARTED", "RUNNING", "SUCCEEDED", "FAILED"}]
        /\ failed \subseteq Actions
    BY DEF TInv, TypeOK
  <1>b. \A a, b \in todo : First(a) /\ First(b) => a = b
    <2>1. todo \subseteq Nat
      BY <1>a DEF Actions
    <2> QED BY <2>1 DEF First
  <1>1. CASE ExecuteFixActions \/ OpenIncident \/ CompleteExecution
    <2>1. /\ lpc \in ExecPC \ {"record"} /\ lpc' # "record"
          /\ UNCHANGED <<exec, results>>
      BY <1>1
      DEF ExecuteFixActions, OpenIncident, CompleteExecution, ReturnNil,
          RowsUnchanged, ExecPC
    <2> QED BY <2>1, FailureInside
  <1>2. CASE MarkRunning
    <2>1. /\ lpc = "running" /\ lpc' = "run" /\ UNCHANGED results
      BY <1>2 DEF MarkRunning
    <2>2. \A a \in Actions : a \notin todo => exec'[a] = exec[a]
      BY <1>2, <1>a DEF MarkRunning
    <2>3. \A a \in failed : a \notin todo
      BY <2>1 DEF SInv, TodoFresh, FInv, FailureKnown
    <2> QED BY <1>a, <2>1, <2>2, <2>3, FailureInside DEF ExecPC
  <1>3. CASE RunAction
    <2>1. PICK a \in todo :
             /\ First(a)
             /\ ran' = [ran EXCEPT ![a] = ran[a] + 1]
             /\ failed' = IF outcome' = "FAILED" THEN failed \cup {a} ELSE failed
      BY <1>3 DEF RunAction
    <2>2. /\ lpc = "run" /\ lpc' = "record" /\ todo' = todo /\ exec' = exec
          /\ unrecorded' = unrecorded
      BY <1>3 DEF RunAction
    <2>3. a \notin failed
      BY <2>1, <2>2 DEF SInv, TodoFresh, FInv, FailureKnown
    <2>4. \A b \in failed' : ran'[b] > 0
      <3>1. ran'[a] > 0
        BY <2>1, <1>a
      <3>2. \A b \in failed : ran'[b] > 0
        BY <2>1, <2>3, <1>a DEF FInv, FailureKnown
      <3> QED BY <2>1, <3>1, <3>2
    <2>5. \A b \in todo : First(b)' <=> First(b)
      BY <2>2 DEF First
    <2>6. FailureKnown'
      BY <1>b, <2>1, <2>2, <2>3, <2>4, <2>5 DEF FailureKnown
    <2>7. \A b \in failed \ unrecorded : exec[b] = "FAILED"
      BY <2>2 DEF FInv, FailureKept, ExecPC
    <2>8. FailureKept'
      BY <2>1, <2>2, <2>5, <2>7 DEF FailureKept
    <2> QED BY <2>6, <2>8 DEF FInv
  <1>4. CASE RecordResult
    <2>1. PICK a \in todo :
             /\ First(a)
             /\ \/ exec' = [exec EXCEPT ![a] = outcome] /\ unrecorded' = unrecorded
                \/ unrecorded' = unrecorded \cup {a} /\ exec' = exec
      BY <1>4 DEF RecordResult
    <2>2. /\ lpc = "record" /\ lpc' = "incident" /\ ran' = ran
          /\ failed' = failed
      BY <1>4 DEF RecordResult
    <2>3. \A b \in failed \ unrecorded : b # a => exec[b] = "FAILED"
      BY <1>b, <2>1, <2>2 DEF FInv, FailureKept, ExecPC, First
    <2>4. a \in failed => outcome = "FAILED"
      BY <2>1, <2>2 DEF FInv, FailureKnown
    <2>5. \A b \in failed \ unrecorded' : exec'[b] = "FAILED"
      BY <1>a, <2>1, <2>3, <2>4
    <2> QED
      BY <2>2, <2>5 DEF FInv, FailureKnown, FailureKept
  <1> QED BY <1>1, <1>2, <1>3, <1>4

\* Every step keeps it, and nothing has failed in the beginning.
LEMMA FailureStep == TInv /\ SInv /\ FInv /\ [Next]_vars => FInv'
  <1> SUFFICES ASSUME TInv, SInv, FInv, [Next]_vars PROVE FInv'
    OBVIOUS
  <1>1. CASE LoopStep
    BY <1>1, FailureHandler, FailureExecution DEF LoopStep
  <1> QED BY <1>1, FailureOutside, FailureSweep DEF Next

IInv == TInv /\ SInv /\ FInv

\* The inductive invariant holds in every reachable state.
LEMMA OrchestratorInvariant == Spec => []IInv
  <1>1. Init => IInv
    BY TypeInit, SafeInit
    DEF IInv, FInv, FailureKnown, FailureKept, Init
  <1>2. IInv /\ [Next]_vars => IInv'
    BY TypeStep, SafeStep, FailureStep DEF IInv
  <1> QED BY <1>1, <1>2, PTL DEF Spec

-----------------------------------------------------------------------------
(***************************************************************************)
(* The theorems.                                                           *)
(***************************************************************************)

\* A HIGH-risk fix action reaches executor.Execute only if some operator
\* approved it, however decisions, their reversals, late rows of the fix
\* agent, repeated observations and crashes interleave with the two reads
\* that route the session and choose the actions.
THEOREM OrchestratorNoUnapprovedRun == Spec => []NoUnapprovedRun
  <1>1. IInv => NoUnapprovedRun
    BY DEF IInv, SInv
  <1> QED BY <1>1, OrchestratorInvariant, PTL

\* executor.Execute is called at most once per fix action: EXECUTE is
\* accepted once in the life of a session, and one execution visits every
\* action once although it may fail to record it.
THEOREM OrchestratorRunAtMostOnce == Spec => []RunAtMostOnce
  <1>1. IInv => RunAtMostOnce
    BY DEF IInv, SInv
  <1> QED BY <1>1, OrchestratorInvariant, PTL

\* Nothing has run in a session that was not put into FIX_EXECUTING first.
THEOREM OrchestratorNothingRunsEarly == Spec => []NothingRunsEarly
  <1>1. IInv => NothingRunsEarly
    BY DEF IInv, SInv
  <1> QED BY <1>1, OrchestratorInvariant, PTL

\* SweepVerifying resolves a session only if it has fix actions and each one
\* that failed in the executor is one whose result could not be written: no
\* failure is lost between the executor and the verdict in any other way,
\* although crashes interrupt executions and the sweep reads the actions in one
\* step and sends its event in another.
THEOREM OrchestratorResolvedWithoutFailure == Spec => []ResolvedWithoutFailure
  <1>1. IInv => ResolvedWithoutFailure
    <2> SUFFICES ASSUME IInv, status = "RESOLVED"
                 PROVE  Rows # {} /\ failed \subseteq unrecorded
      BY DEF ResolvedWithoutFailure
    <2>1. Rows # {} /\ \A a \in Actions : exec[a] # "FAILED"
      BY DEF IInv, SInv, NoFailureRecorded
    <2>2. status \notin AtWork /\ lpc # "record"
      BY DEF IInv, SInv, Executing, AtWork, ExecPC
    <2>3. failed \subseteq Actions
      BY DEF IInv, TInv, TypeOK
    <2> QED BY <2>1, <2>2, <2>3 DEF IInv, FInv, FailureKept
  <1> QED BY <1>1, OrchestratorInvariant, PTL

\* No step touches the status but through Engine.Transition: it stays or
\* makes a move of the table.
LEMMA StatusSteps ==
    ASSUME TInv, [Next]_vars
    PROVE  status' = status \/ \E e \in Event : StatusMove(e)
  <1>a. TypeOK
    BY DEF TInv
  <1>1. CASE \E e \in Event, r \in Reply : Transition(e, r)
    BY <1>a, <1>1, TransitionEffect
  <1>2. CASE OperatorCalls \/ RetrySession
    BY <1>1, <1>2
    DEF OperatorCalls, StartSession, IncrementRetry, IgnoreSession,
        DecisionApproval, RetrySession, Event, row
  <1>3. CASE \E o \in Operators : DecisionStep(o)
    <2>1. PICK o \in Operators : DecideFixAction(o) \/ DecideSession(o)
      BY <1>3 DEF DecisionStep
    <2>2. CASE DecideFixAction(o)
      BY <2>2 DEF DecideFixAction, row
    <2>3. CASE DecideSession(o)
      <3>1. \E e \in {"APPROVE", "REJECT"}, r \in Reply : Transition(e, r)
        BY <2>3 DEF DecideSession
      <3> QED BY <1>1, <3>1 DEF Event
    <2> QED BY <2>1, <2>2, <2>3
  <1>4. CASE LoopStep
    <2>1. CASE \/ HandleEvidence \/ HandleRCAResult \/ HandleFixAction
               \/ EvaluateRisk \/ StartExecution \/ CompleteExecution
      BY <1>1, <2>1
      DEF HandleEvidence, HandleRCAResult, HandleFixAction, EvaluateRisk,
          StartExecution, CompleteExecution, Event
    <2>2. CASE \/ (\E m \in Observation : Receive(m)) \/ DispatchAnalyze
               \/ DropObservation \/ TriggerApprovalGate \/ RequestApproval
               \/ MarkPending \/ GateDone \/ ExecuteFixActions \/ MarkRunning
               \/ RunAction \/ RecordResult \/ OpenIncident \/ CommitOffset
      BY <2>2
      DEF Receive, DispatchAnalyze, DropObservation, TriggerApprovalGate,
          RequestApproval, MarkPending, GateDone, ExecuteFixActions,
          MarkRunning, RunAction, RecordResult, OpenIncident, CommitOffset, row
    <2> QED BY <1>4, <2>1, <2>2 DEF LoopStep
  <1>5. CASE SweepStep
    <2>1. CASE SweepVerifying
      <3>1. sevent \in Event
        BY <2>1 DEF SweepVerifying, TInv, TypeOK, SweepTyped, Event
      <3> QED BY <1>1, <2>1, <3>1 DEF SweepVerifying
    <2>2. CASE SweepFail \/ SweepFixProposed
      BY <1>1, <2>2 DEF SweepFail, SweepFixProposed, Event
    <2> QED
      BY <1>5, <2>1, <2>2
      DEF SweepStep, SweepSelectStuck, SweepSelectProposed,
          SweepSelectVerifying, SweepReadFixes
  <1>6. CASE \/ LoadTarget \/ DispatchCollect
             \/ (\E c \in Collectors : CollectorRuns(c)) \/ RCARuns
             \/ FixAgentStep \/ TimePasses \/ Crash \/ UNCHANGED vars
    BY <1>6
    DEF LoadTarget, DispatchCollect, CollectorRuns, RCARuns, FixAgentStep,
        FixAgentPlans, FixAgentPersists, FixAgentPublishes, TimePasses, Crash,
        vars, row
  <1> QED BY <1>2, <1>3, <1>4, <1>5, <1>6 DEF Next

\* Everything the handlers, the event loop, the sweeps and the agents do to a
\* session is a move of Lifecycle: the status the orchestrator works on obeys
\* the specification that Engine.Transition implements.
THEOREM OrchestratorImplementsLifecycle == Spec => Implements
  <1> DEFINE lc == [s \in {"session"} |-> status]
  <1>1. Init => LC!Init
    BY DEF Init, LC!Init
  <1>2. LC!Moves = Moves
    BY DEF LC!Moves, Moves, LC!ValidTransitions, ValidTransitions, LC!Live, Live
  <1>3. TInv /\ [Next]_vars => [LC!Next]_lc
    <2> SUFFICES ASSUME TInv, [Next]_vars, status' # status
                 PROVE  LC!Next
      OBVIOUS
    <2>1. PICK m \in Moves : m[1] = status /\ m[3] = status'
      BY StatusSteps DEF StatusMove
    <2>2. /\ m[1] = lc["session"]
          /\ lc' = [lc EXCEPT !["session"] = m[3]]
      BY <2>1
    <2> QED BY <1>2, <2>1, <2>2 DEF LC!Next, LC!Apply
  <1>4. TInv /\ [Next]_vars => TInv'
    BY TypeStep
  <1> QED BY <1>1, <1>3, <1>4, TypeInit, PTL DEF Spec, LC!Spec, Implements

\* A session under way only moves forward: no redelivered observation, sweep on
\* old rows, retry or restart brings it back to an earlier status or out of a
\* terminal one.
THEOREM OrchestratorForward == Spec => LC!OnlyForward
  <1> DEFINE lc == [s \in {"session"} |-> status]
  <1>1. LC!Rank = Rank
    BY DEF LC!Rank, Rank
  <1>2. ASSUME NEW m \in Moves
        PROVE  Rank[m[3]] > Rank[m[1]]
    <2>1. CASE \E s \in Live : m[1] = s /\ m[3] \in {"IGNORED", "FAILED"}
      BY <2>1 DEF Rank, Live
    <2>2. CASE ~(\E s \in Live : m[1] = s /\ m[3] \in {"IGNORED", "FAILED"})
      BY <2>2 DEF Moves, ValidTransitions, Rank, Live
    <2> QED BY <2>1, <2>2
  <1>3. TInv /\ [Next]_vars
        => [\A s \in {"session"} :
               lc'[s] # lc[s] => LC!Rank[lc'[s]] > LC!Rank[lc[s]]]_lc
    <2> SUFFICES ASSUME TInv, [Next]_vars, status' # status
                 PROVE  LC!Rank[status'] > LC!Rank[status]
      OBVIOUS
    <2>1. PICK m \in Moves : m[1] = status /\ m[3] = status'
      BY StatusSteps DEF StatusMove
    <2> QED BY <1>1, <1>2, <2>1
  <1>4. TInv /\ [Next]_vars => TInv'
    BY TypeStep
  <1> QED BY <1>3, <1>4, TypeInit, PTL DEF Spec, LC!OnlyForward
=============================================================================
