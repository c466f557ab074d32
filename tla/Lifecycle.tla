----------------------------- MODULE Lifecycle -----------------------------
(***************************************************************************)
(* The life of a diagnostic session as internal/workflow/engine.go         *)
(* promises it to every other part of the hub: one status per session, and *)
(* an event moves it along the transition table in a single atomic step or *)
(* not at all.  Engine.tla shows that the transactions, row locks, retries *)
(* and crashes of Engine.Transition implement this specification.          *)
(***************************************************************************)
EXTENDS SessionTable

CONSTANTS
    Sessions,  \* ids of the rows of diagnostic_sessions
    Start      \* statuses the rows may have in the beginning

ASSUME LifecycleAssumption == Sessions # {} /\ Start \subseteq Status

VARIABLE status     \* status[s]: the committed status column of session s

-----------------------------------------------------------------------------
Init == status \in [Sessions -> Start]

\* SessionDAO.Create: the row is inserted with status CREATED.
CreateSession(s) ==
    /\ status[s] = "NONE"
    /\ status' = [status EXCEPT ![s] = "CREATED"]

\* Engine.Transition as its callers see it when it succeeds: some event moves
\* the session along the table.
Apply(s) ==
    \E m \in Moves :
        /\ m[1] = status[s]
        /\ status' = [status EXCEPT ![s] = m[3]]

Next == \E s \in Sessions : CreateSession(s) \/ Apply(s)

Spec == Init /\ [][Next]_status

-----------------------------------------------------------------------------
TypeOK == status \in [Sessions -> Status]

(***************************************************************************)
(* Every change of a session's status moves it strictly forward: no path   *)
(* through ValidTransitions returns to an earlier status, and a terminal   *)
(* status (engine.go:119-123) is never left, whatever sequence of events   *)
(* the handlers, the event loop and the sweeps send.  RETRY is no          *)
(* exception: RetrySession means to go "back to CREATED"                   *)
(* (orchestrator.go:278), but the table has no row for the event.          *)
(***************************************************************************)
OnlyForward ==
    [][\A s \in Sessions :
          status'[s] # status[s] => Rank[status'[s]] > Rank[status[s]]]_status
=============================================================================
