------------------------------- MODULE Engine -------------------------------
(***************************************************************************)
(* Engine.Transition (internal/workflow/engine.go) run by concurrent       *)
(* workers: HTTP handlers, the event loop and the sweep loops of one or    *)
(* more orchestrator instances.  A call makes up to MaxAttempts database   *)
(* transactions.  Each locks the session row with FOR UPDATE SKIP LOCKED,  *)
(* looks the event up in the table, counts HIGH-risk fix actions where the *)
(* table says so, updates the row and commits; the timeline entry is       *)
(* written afterwards, outside the transaction.  Any database call may     *)
(* fail, a commit may be applied and still be reported as failed, and the  *)
(* process of a worker may crash between any two steps.                    *)
(***************************************************************************)
EXTENDS SessionTable, Sequences

CONSTANTS
    Sessions,      \* ids of diagnostic_sessions rows
    Start,         \* statuses the rows may have when the workers start
    Workers,       \* goroutines that call Transition
    Events,        \* events the callers send
    MaxAttempts,   \* attempts of one call (3 in the code)
    NoWorker       \* "the row is not locked"

ASSUME EngineAssumption ==
    /\ Sessions # {}
    /\ NoWorker \notin Workers
    /\ Events \subseteq Event
    /\ Start \subseteq Status
    /\ MaxAttempts \in Nat \ {0}

VARIABLES
    status,    \* committed status column of each session
    high,      \* high[s]: fix_actions holds a HIGH-risk NOT_STARTED row of s
    lock,      \* lock[s]: the worker whose transaction holds the row lock
    pc,        \* where each worker is in Transition
    sess,      \* session argument of the worker's current or last call
    event,     \* event argument of the worker's current call
    seen,      \* status read under the lock by the current attempt, or by
               \* the attempt with which the last call succeeded
    target,    \* next status the current attempt has decided on
    attempt,   \* number of the current attempt, from 1
    result,    \* how the worker's last call ended
    history,   \* history: committed moves of each session, in commit order
    origin,    \* history: the status each row had at the start
    timeline   \* session_events rows of each session, in insertion order

vars == <<status, high, lock, pc, sess, event, seen, target, attempt, result,
          history, origin, timeline>>

request == <<sess, event>>    \* the arguments of the calls

\* The session lifecycle this module implements.
LC == INSTANCE Lifecycle

InTx == {"lookup", "risk", "update"}    \* the worker's transaction is open

PC == {"idle", "select", "log"} \cup InTx

Result == {"none", "ok", "invalid", "notfound", "exhausted"}

Move == Status \X Status

TypeOK ==
    /\ status \in [Sessions -> Status]
    /\ high \in [Sessions -> BOOLEAN]
    /\ lock \in [Sessions -> Workers \cup {NoWorker}]
    /\ pc \in [Workers -> PC]
    /\ sess \in [Workers -> Sessions]
    /\ event \in [Workers -> Event \cup {"NONE"}]
    /\ seen \in [Workers -> Status]
    /\ target \in [Workers -> Status]
    /\ attempt \in [Workers -> 1..MaxAttempts]
    /\ result \in [Workers -> Result]
    /\ history \in [Sessions -> Seq(Move)]
    /\ origin \in [Sessions -> Status]
    /\ timeline \in [Sessions -> Seq(Move)]

Init ==
    /\ status \in [Sessions -> Start]
    /\ high = [s \in Sessions |-> FALSE]
    /\ lock = [s \in Sessions |-> NoWorker]
    /\ pc = [w \in Workers |-> "idle"]
    /\ sess \in [Workers -> Sessions]
    /\ event = [w \in Workers |-> "NONE"]
    /\ seen = [w \in Workers |-> "NONE"]
    /\ target = [w \in Workers |-> "NONE"]
    /\ attempt = [w \in Workers |-> 1]
    /\ result = [w \in Workers |-> "none"]
    /\ history = [s \in Sessions |-> <<>>]
    /\ origin = status
    /\ timeline = [s \in Sessions |-> <<>>]

-----------------------------------------------------------------------------
(***************************************************************************)
(* Steps of one call of Transition.                                        *)
(***************************************************************************)

\* The call ends with r and its local variables go out of scope; the status
\* a successful call read stays visible to the properties.
Return(w, r) ==
    /\ pc' = [pc EXCEPT ![w] = "idle"]
    /\ result' = [result EXCEPT ![w] = r]
    /\ event' = [event EXCEPT ![w] = "NONE"]
    /\ seen' = [seen EXCEPT ![w] = IF r = "ok" THEN @ ELSE "NONE"]
    /\ target' = [target EXCEPT ![w] = "NONE"]
    /\ attempt' = [attempt EXCEPT ![w] = 1]

\* The deferred tx.Rollback, or the end of a committed transaction.
Unlock(w) ==
    lock' = [s \in Sessions |-> IF lock[s] = w THEN NoWorker ELSE lock[s]]

\* Mutant: the loop has no limit.
BugRetryForever(w) ==
    /\ pc' = [pc EXCEPT ![w] = "select"]
    /\ seen' = [seen EXCEPT ![w] = "NONE"]
    /\ target' = [target EXCEPT ![w] = "NONE"]
    /\ UNCHANGED <<event, result, attempt>>

\* A transient error: the loop of Transition sleeps and tries again, up to
\* MaxAttempts times.
RetryOrGiveUp(w) ==
    IF attempt[w] < MaxAttempts
    THEN /\ pc' = [pc EXCEPT ![w] = "select"]
         /\ attempt' = [attempt EXCEPT ![w] = @ + 1]
         /\ seen' = [seen EXCEPT ![w] = "NONE"]
         /\ target' = [target EXCEPT ![w] = "NONE"]
         /\ UNCHANGED <<event, result>>
    ELSE Return(w, "exhausted")

\* A caller starts Transition(s, e).
Transition(w, s, e) ==
    /\ pc[w] = "idle"
    /\ pc' = [pc EXCEPT ![w] = "select"]
    /\ sess' = [sess EXCEPT ![w] = s]
    /\ event' = [event EXCEPT ![w] = e]
    /\ attempt' = [attempt EXCEPT ![w] = 1]
    /\ seen' = [seen EXCEPT ![w] = "NONE"]
    /\ target' = [target EXCEPT ![w] = "NONE"]
    /\ result' = [result EXCEPT ![w] = "none"]
    /\ UNCHANGED <<status, high, lock, history, origin, timeline>>

\* Mutant: the SELECT does not ask for the row lock.
BugRowVisible(s) == status[s] # "NONE"

\* What SELECT ... FOR UPDATE SKIP LOCKED returns a row for.
RowVisible(s) == status[s] # "NONE" /\ lock[s] = NoWorker

\* SELECT ... FOR UPDATE SKIP LOCKED finds the row: lock it, read its status.
SelectRow(w) ==
    /\ pc[w] = "select"
    /\ RowVisible(sess[w])
    /\ lock' = [lock EXCEPT ![sess[w]] = w]
    /\ seen' = [seen EXCEPT ![w] = status[sess[w]]]
    /\ pc' = [pc EXCEPT ![w] = "lookup"]
    /\ UNCHANGED <<status, high, request, target, attempt, result,
                   history, origin, timeline>>

\* The row does not exist or another transaction holds it: pgx.ErrNoRows,
\* returned as ErrSessionNotFound without a retry.
SelectNoRows(w) ==
    /\ pc[w] = "select"
    /\ ~RowVisible(sess[w])
    /\ Return(w, "notfound")
    /\ UNCHANGED <<status, high, lock, sess, history, origin, timeline>>

\* Mutant: the early return without the deferred rollback.
BugRejectEvent(w) ==
    /\ pc[w] = "lookup"
    /\ Targets[seen[w]][event[w]] = {}
    /\ Return(w, "invalid")
    /\ UNCHANGED <<status, high, lock, sess, history, origin, timeline>>

\* The table has no edge for this status and event: ErrInvalidTransition.
RejectEvent(w) ==
    /\ pc[w] = "lookup"
    /\ Targets[seen[w]][event[w]] = {}
    /\ Return(w, "invalid")
    /\ Unlock(w)
    /\ UNCHANGED <<status, high, sess, history, origin, timeline>>

\* The table has an edge; FIX_GENERATED still has to count HIGH-risk rows.
LookUp(w) ==
    /\ pc[w] = "lookup"
    /\ \E next \in Targets[seen[w]][event[w]] :
          target' = [target EXCEPT ![w] = next]
    /\ pc' = [pc EXCEPT ![w] = IF IsRiskRouted(seen[w], event[w])
                               THEN "risk" ELSE "update"]
    /\ UNCHANGED <<status, high, lock, request, seen, attempt, result,
                   history, origin, timeline>>

\* determineFixProposedNextStatus: the count is a read of another table, which
\* the row lock does not cover.
DetermineNextStatus(w) ==
    /\ pc[w] = "risk"
    /\ target' = [target EXCEPT ![w] = RoutedStatus(high[sess[w]])]
    /\ pc' = [pc EXCEPT ![w] = "update"]
    /\ UNCHANGED <<status, high, lock, request, seen, attempt, result,
                   history, origin, timeline>>

\* UPDATE and COMMIT take effect: the new status is visible, the lock is gone.
CommitUpdate(w) ==
    /\ status' = [status EXCEPT ![sess[w]] = target[w]]
    /\ history' = [history EXCEPT ![sess[w]] =
                        Append(@, <<seen[w], target[w]>>)]
    /\ Unlock(w)

\* The commit succeeds and the worker is told so.
Commit(w) ==
    /\ pc[w] = "update"
    /\ CommitUpdate(w)
    /\ pc' = [pc EXCEPT ![w] = "log"]
    /\ UNCHANGED <<high, request, seen, target, attempt, result,
                   origin, timeline>>

\* The commit takes effect but its reply is lost, so tx.Commit returns an
\* error that Transition treats like any other transient one.
CommitReplyLost(w) ==
    /\ pc[w] = "update"
    /\ CommitUpdate(w)
    /\ RetryOrGiveUp(w)
    /\ UNCHANGED <<high, sess, origin, timeline>>

\* Begin, SELECT, COUNT, UPDATE or COMMIT fails without effect.
TransientError(w) ==
    /\ pc[w] \in {"select", "risk", "update"}
    /\ Unlock(w)
    /\ RetryOrGiveUp(w)
    /\ UNCHANGED <<status, high, sess, history, origin, timeline>>

\* LogStateTransition inserts the timeline row; the call returns nextStatus.
LogStateTransition(w) ==
    /\ pc[w] = "log"
    /\ timeline' = [timeline EXCEPT ![sess[w]] =
                        Append(@, <<seen[w], target[w]>>)]
    /\ Return(w, "ok")
    /\ UNCHANGED <<status, high, lock, sess, history, origin>>

\* Mutant: an insert whose reply was lost is made again.
BugLogStateTransitionFails(w) ==
    /\ pc[w] = "log"
    /\ timeline' = [timeline EXCEPT ![sess[w]] =
                        Append(@, <<seen[w], target[w]>>)]
    /\ UNCHANGED <<status, high, lock, pc, request, seen, target, attempt,
                   result, history, origin>>

\* The error of LogStateTransition is ignored; the call succeeds all the same.
LogStateTransitionFails(w) ==
    /\ pc[w] = "log"
    /\ Return(w, "ok")
    /\ UNCHANGED <<status, high, lock, sess, history, origin, timeline>>

\* The worker's process dies: Postgres rolls the open transaction back.
Crash(w) ==
    /\ pc[w] # "idle"
    /\ Return(w, "none")
    /\ Unlock(w)
    /\ UNCHANGED <<status, high, sess, history, origin, timeline>>

-----------------------------------------------------------------------------
(***************************************************************************)
(* Writers of the two tables that do not go through Transition.            *)
(***************************************************************************)

\* SessionDAO.Create.
CreateSession(s) ==
    /\ status[s] = "NONE"
    /\ status' = [status EXCEPT ![s] = "CREATED"]
    /\ history' = [history EXCEPT ![s] = Append(@, <<"NONE", "CREATED">>)]
    /\ UNCHANGED <<high, lock, pc, request, seen, target, attempt, result,
                   origin, timeline>>

\* FixActionDAO.Create inserts a HIGH-risk, not started fix action.
CreateHighRiskFix(s) ==
    /\ status[s] # "NONE"
    /\ ~high[s]
    /\ high' = [high EXCEPT ![s] = TRUE]
    /\ UNCHANGED <<status, lock, pc, request, seen, target, attempt, result,
                   history, origin, timeline>>

Step(w) ==
    \/ SelectRow(w)
    \/ SelectNoRows(w)
    \/ RejectEvent(w)
    \/ LookUp(w)
    \/ DetermineNextStatus(w)
    \/ Commit(w)
    \/ CommitReplyLost(w)
    \/ TransientError(w)
    \/ LogStateTransition(w)
    \/ LogStateTransitionFails(w)

Next ==
    \/ \E w \in Workers :
          \/ \E s \in Sessions, e \in Events : Transition(w, s, e)
          \/ Step(w)
          \/ Crash(w)
    \/ \E s \in Sessions : CreateSession(s) \/ CreateHighRiskFix(s)

Spec == Init /\ [][Next]_vars

\* Goroutines are scheduled and database calls return, with or without error.
FairSpec == Spec /\ \A w \in Workers : WF_vars(Step(w))

-----------------------------------------------------------------------------
(***************************************************************************)
(* Properties.                                                             *)
(***************************************************************************)

\* A row is locked exactly by the worker whose open transaction is on it, so
\* no error path, crash or retry of tryTransition leaks a lock or goes on
\* without one.
RowLock ==
    \A w \in Workers, s \in Sessions :
        lock[s] = w <=> pc[w] \in InTx /\ sess[w] = s

\* The status a transaction read is still the committed one when the
\* transaction decides and commits, however many calls run on the session:
\* what FOR UPDATE in tryTransition is there for.
ReadIsCurrent ==
    \A w \in Workers : pc[w] \in InTx => seen[w] = status[sess[w]]

\* The call has committed a move that it was told of.
Won(w) == pc[w] = "log" \/ result[w] = "ok"

\* Of the calls that read the same status of a session, at most one succeeds
\* ("exactly one goroutine should succeed", integration_test.go:227), also
\* when the calls carry different events or one of them is a late retry.
OneWinner ==
    \A v, w \in Workers :
        v # w /\ Won(v) /\ Won(w) /\ sess[v] = sess[w] => seen[v] # seen[w]

\* The committed moves of a session form one path from its first to its present
\* status: no update is lost, overwritten or applied twice by concurrent
\* calls, lost commit replies and retries.
HistoryIsPath ==
    \A s \in Sessions :
        LET h == history[s] IN
        /\ status[s] = IF h = <<>> THEN origin[s] ELSE h[Len(h)][2]
        /\ h # <<>> => h[1][1] = origin[s]
        /\ \A i \in 1..(Len(h) - 1) : h[i][2] = h[i + 1][1]

\* The timeline written by LogStateTransition after the commit reports only
\* moves that really happened, and none of them twice; entries may be missing
\* or out of order.
TimelineSound ==
    \A s \in Sessions :
        LET t == timeline[s] IN
        /\ \A i \in DOMAIN t : \E j \in DOMAIN history[s] : t[i] = history[s][j]
        /\ \A i, j \in DOMAIN t : i # j => t[i] # t[j]

\* Every call of Transition returns, with or without an error, after at most
\* MaxAttempts transactions.
CallReturns == \A w \in Workers : pc[w] # "idle" ~> pc[w] = "idle"

\* Transition implements the atomic lifecycle.
Implements == LC!Spec
=============================================================================
