---------------------------- MODULE SessionTable ----------------------------
(***************************************************************************)
(* The statuses, events and transition table of a diagnostic session       *)
(* (internal/workflow/engine.go, constants of internal/store/session.go).  *)
(***************************************************************************)
EXTENDS Naturals

(***************************************************************************)
(* Statuses and events (engine.go:32-65).  "NONE" stands for a row that    *)
(* has not been inserted yet.                                              *)
(***************************************************************************)
Terminal == {"RESOLVED", "REJECTED", "ROLLED_BACK", "IGNORED", "FAILED"}

Live == {"CREATED", "COLLECTING", "ANALYZING", "RCA_DONE", "FIX_PROPOSED",
         "AWAITING_APPROVAL", "FIX_SUGGESTED", "FIX_EXECUTING", "VERIFYING"}

Status == {"NONE"} \cup Live \cup Terminal

Event == {"START_COLLECT", "COLLECT_COMPLETE", "ANALYSIS_COMPLETE",
          "RCA_GENERATED", "FIX_GENERATED", "APPROVE", "REJECT", "EXECUTE",
          "EXECUTE_COMPLETE", "VERIFY_SUCCESS", "VERIFY_FAILURE",
          "RETRY", "IGNORE", "FAIL"}

(***************************************************************************)
(* The table of engine.go as a set of <<current, event, next>> triples.    *)
(* RETRY is an event of the code that labels no edge of the table.         *)
(***************************************************************************)
ValidTransitions ==
    { <<"CREATED",           "START_COLLECT",     "COLLECTING">>,
      <<"COLLECTING",        "COLLECT_COMPLETE",  "ANALYZING">>,
      <<"ANALYZING",         "ANALYSIS_COMPLETE", "RCA_DONE">>,
      <<"RCA_DONE",          "RCA_GENERATED",     "FIX_PROPOSED">>,
      <<"FIX_PROPOSED",      "APPROVE",           "FIX_EXECUTING">>,
      <<"FIX_PROPOSED",      "FIX_GENERATED",     "FIX_SUGGESTED">>,
      <<"AWAITING_APPROVAL", "APPROVE",           "FIX_EXECUTING">>,
      <<"AWAITING_APPROVAL", "REJECT",            "REJECTED">>,
      <<"FIX_SUGGESTED",     "EXECUTE",           "FIX_EXECUTING">>,
      <<"FIX_EXECUTING",     "EXECUTE_COMPLETE",  "VERIFYING">>,
      <<"VERIFYING",         "VERIFY_SUCCESS",    "RESOLVED">>,
      <<"VERIFYING",         "VERIFY_FAILURE",    "ROLLED_BACK">> }
    \cup { <<s, "IGNORE", "IGNORED">> : s \in Live }
    \cup { <<s, "FAIL",   "FAILED">>  : s \in Live }

(***************************************************************************)
(* The one event whose target is not read from the table: FIX_GENERATED in *)
(* FIX_PROPOSED goes to AWAITING_APPROVAL when a HIGH-risk fix action has  *)
(* not started (determineFixProposedNextStatus).                           *)
(***************************************************************************)
IsRiskRouted(from, event) ==
    from = "FIX_PROPOSED" /\ event = "FIX_GENERATED"

RoutedStatus(highPending) ==
    IF highPending THEN "AWAITING_APPROVAL" ELSE "FIX_SUGGESTED"

\* Every move the engine can commit.
Moves ==
    ValidTransitions
    \cup { <<"FIX_PROPOSED", "FIX_GENERATED", "AWAITING_APPROVAL">> }

\* The rows of the table: the next statuses for a status and an event, one
\* or none.
Targets == [from \in Status |-> [event \in Event |->
    { m[3] : m \in { v \in ValidTransitions : v[1] = from /\ v[2] = event } }]]

(***************************************************************************)
(* How far a status is along the session's life.  Properties compare       *)
(* ranks; nothing in the code stores one.                                  *)
(***************************************************************************)
Rank ==
    [NONE |-> 0, CREATED |-> 1, COLLECTING |-> 2, ANALYZING |-> 3,
     RCA_DONE |-> 4, FIX_PROPOSED |-> 5, AWAITING_APPROVAL |-> 6,
     FIX_SUGGESTED |-> 6, FIX_EXECUTING |-> 7, VERIFYING |-> 8,
     RESOLVED |-> 9, REJECTED |-> 9, ROLLED_BACK |-> 9, IGNORED |-> 9,
     FAILED |-> 9]

=============================================================================
