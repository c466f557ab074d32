---------------------------- MODULE EngineProofs ----------------------------
(***************************************************************************)
(* Proofs about Engine.Transition for any number of sessions, workers,     *)
(* events and attempts.                                                    *)
(***************************************************************************)
EXTENDS Engine, SequenceTheorems, TLAPS

(***************************************************************************)
(* Facts about the transition table.                                       *)
(***************************************************************************)

\* The override of determineFixProposedNextStatus only adds a move.
LEMMA TableIsMoves == ValidTransitions \subseteq Moves
  BY DEF Moves

\* Every move goes from a live status to a status further along the
\* session's life; in particular no event leaves a terminal status.
LEMMA MovesAdvance ==
    \A m \in Moves : /\ m[1] \in Live /\ m[3] \in Status
                     /\ Rank[m[1]] \in Nat /\ Rank[m[3]] \in Nat
                     /\ Rank[m[1]] < Rank[m[3]]
  <1> SUFFICES ASSUME NEW m \in Moves
               PROVE  /\ m[1] \in Live /\ m[3] \in Status
                      /\ Rank[m[1]] \in Nat /\ Rank[m[3]] \in Nat
                      /\ Rank[m[1]] < Rank[m[3]]
    OBVIOUS
  <1>1. CASE \E s \in Live : m = <<s, "IGNORE", "IGNORED">>
    BY <1>1 DEF Rank, Status, Live, Terminal
  <1>2. CASE \E s \in Live : m = <<s, "FAIL", "FAILED">>
    BY <1>2 DEF Rank, Status, Live, Terminal
  <1>3. CASE ~(\E s \in Live : \/ m = <<s, "IGNORE", "IGNORED">>
                               \/ m = <<s, "FAIL", "FAILED">>)
    BY <1>3 DEF Moves, ValidTransitions, Rank, Status, Live, Terminal
  <1> QED BY <1>1, <1>2, <1>3

\* A next status found in the rows of the table is the target of a move.
LEMMA TargetsAreMoves ==
    \A from \in Status, e \in Event : \A next \in Targets[from][e] :
        \E m \in Moves : m[1] = from /\ m[3] = next
  BY TableIsMoves DEF Targets

-----------------------------------------------------------------------------
(***************************************************************************)
(* Type correctness.                                                       *)
(***************************************************************************)

\* What the table offers for a status and an event is a status.
LEMMA TargetIsStatus ==
    \A from \in Status, e \in Event : Targets[from][e] \subseteq Status
  BY TargetsAreMoves, MovesAdvance

\* Both next statuses of determineFixProposedNextStatus are statuses.
LEMMA RoutedIsStatus == \A b \in BOOLEAN : RoutedStatus(b) \in Status
  BY DEF RoutedStatus, Status, Live

\* The end of a call keeps the types of the worker's variables.
LEMMA ReturnType ==
    ASSUME TypeOK, NEW w \in Workers, NEW r \in Result, Return(w, r)
    PROVE  /\ pc' \in [Workers -> PC]
           /\ result' \in [Workers -> Result]
           /\ event' \in [Workers -> Event \cup {"NONE"}]
           /\ seen' \in [Workers -> Status]
           /\ target' \in [Workers -> Status]
           /\ attempt' \in [Workers -> 1..MaxAttempts]
  BY EngineAssumption DEF TypeOK, Return, PC, Status

\* So does a transient error.
LEMMA RetryType ==
    ASSUME TypeOK, NEW w \in Workers, RetryOrGiveUp(w)
    PROVE  /\ pc' \in [Workers -> PC]
           /\ result' \in [Workers -> Result]
           /\ event' \in [Workers -> Event \cup {"NONE"}]
           /\ seen' \in [Workers -> Status]
           /\ target' \in [Workers -> Status]
           /\ attempt' \in [Workers -> 1..MaxAttempts]
  <1>1. CASE attempt[w] < MaxAttempts
    <2>1. attempt[w] + 1 \in 1..MaxAttempts
      BY <1>1, EngineAssumption DEF TypeOK
    <2>2. attempt' \in [Workers -> 1..MaxAttempts]
      <3>1. attempt \in [Workers -> 1..MaxAttempts]
        BY DEF TypeOK
      <3>2. attempt' = [attempt EXCEPT ![w] = attempt[w] + 1]
        BY <1>1 DEF RetryOrGiveUp
      <3> QED BY <2>1, <3>1, <3>2
    <2> QED BY <1>1, <2>2 DEF TypeOK, RetryOrGiveUp, PC, Status
  <1>2. CASE ~(attempt[w] < MaxAttempts)
    BY <1>2, ReturnType DEF RetryOrGiveUp, Result
  <1> QED BY <1>1, <1>2

\* Releasing the lock keeps its type.
LEMMA UnlockType ==
    ASSUME TypeOK, NEW w \in Workers, Unlock(w)
    PROVE  lock' \in [Sessions -> Workers \cup {NoWorker}]
  BY DEF TypeOK, Unlock

\* While a call runs it has an event and no result yet.
CallOpen ==
    \A w \in Workers :
        pc[w] # "idle" => event[w] \in Event /\ result[w] = "none"

TInv == TypeOK /\ CallOpen

\* A transient error leaves the call open or ends it.
LEMMA RetryOpen ==
    ASSUME TypeOK, CallOpen, NEW w \in Workers, RetryOrGiveUp(w), pc[w] # "idle"
    PROVE  CallOpen'
  <1>1. CASE attempt[w] < MaxAttempts
    <2>1. /\ pc \in [Workers -> PC]
          /\ pc' = [pc EXCEPT ![w] = "select"]
          /\ UNCHANGED <<event, result>>
      BY <1>1 DEF RetryOrGiveUp, TypeOK
    <2> QED BY <2>1 DEF CallOpen
  <1>2. CASE ~(attempt[w] < MaxAttempts)
    <2>1. /\ pc \in [Workers -> PC]
          /\ pc' = [pc EXCEPT ![w] = "idle"]
          /\ event' = [event EXCEPT ![w] = "NONE"]
          /\ result' = [result EXCEPT ![w] = "exhausted"]
      BY <1>2 DEF RetryOrGiveUp, Return, TypeOK
    <2>2. \A v \in Workers : v # w => event'[v] = event[v] /\ result'[v] = result[v]
      BY <2>1 DEF TypeOK
    <2> QED BY <2>1, <2>2 DEF CallOpen
  <1> QED BY <1>1, <1>2

\* The type invariant is inductive together with CallOpen: the lookup in the
\* table has a status only for an event of engine.go.
LEMMA TypeStep == TInv /\ [Next]_vars => TInv'
  <1> SUFFICES ASSUME TypeOK, CallOpen, [Next]_vars PROVE TypeOK' /\ CallOpen'
    BY DEF TInv
  <1>1. ASSUME NEW w \in Workers, NEW s \in Sessions, NEW e \in Events,
               Transition(w, s, e)
        PROVE  TypeOK' /\ CallOpen'
    BY <1>1, EngineAssumption
    DEF Transition, TypeOK, CallOpen, PC, Status, Result
  <1>2. ASSUME NEW w \in Workers, SelectRow(w) PROVE TypeOK' /\ CallOpen'
    BY <1>2 DEF SelectRow, TypeOK, CallOpen, PC, InTx, request
  <1>3. ASSUME NEW w \in Workers, SelectNoRows(w) PROVE TypeOK' /\ CallOpen'
    <2>1. TypeOK'
      BY <1>3, ReturnType DEF SelectNoRows, TypeOK, Result
    <2>2. CallOpen'
      BY <1>3 DEF SelectNoRows, Return, TypeOK, CallOpen
    <2> QED BY <2>1, <2>2
  <1>4. ASSUME NEW w \in Workers, RejectEvent(w) PROVE TypeOK' /\ CallOpen'
    <2>1. TypeOK'
      BY <1>4, ReturnType, UnlockType DEF RejectEvent, TypeOK, Result
    <2>2. CallOpen'
      BY <1>4 DEF RejectEvent, Return, TypeOK, CallOpen
    <2> QED BY <2>1, <2>2
  <1>5. ASSUME NEW w \in Workers, LookUp(w) PROVE TypeOK' /\ CallOpen'
    BY <1>5, TargetIsStatus DEF LookUp, TypeOK, CallOpen, PC, InTx, request
  <1>6. ASSUME NEW w \in Workers, DetermineNextStatus(w)
        PROVE  TypeOK' /\ CallOpen'
    BY <1>6, RoutedIsStatus
    DEF DetermineNextStatus, TypeOK, CallOpen, PC, InTx, request
  <1>7. ASSUME NEW w \in Workers, Commit(w) PROVE TypeOK' /\ CallOpen'
    BY <1>7, UnlockType
    DEF Commit, CommitUpdate, TypeOK, CallOpen, PC, Move, request
  <1>8. ASSUME NEW w \in Workers, CommitReplyLost(w) PROVE TypeOK' /\ CallOpen'
    <2>1. TypeOK'
      <3>1. /\ status' \in [Sessions -> Status]
            /\ history' \in [Sessions -> Seq(Move)]
        BY <1>8 DEF CommitReplyLost, CommitUpdate, TypeOK, Move
      <3>2. lock' \in [Sessions -> Workers \cup {NoWorker}]
        BY <1>8, UnlockType DEF CommitReplyLost, CommitUpdate
      <3>3. UNCHANGED <<high, sess, origin, timeline>> /\ RetryOrGiveUp(w)
        BY <1>8 DEF CommitReplyLost
      <3> QED BY <3>1, <3>2, <3>3, RetryType DEF TypeOK
    <2>2. CallOpen'
      BY <1>8, RetryOpen DEF CommitReplyLost
    <2> QED BY <2>1, <2>2
  <1>9. ASSUME NEW w \in Workers, TransientError(w) PROVE TypeOK' /\ CallOpen'
    <2>1. TypeOK'
      BY <1>9, RetryType, UnlockType DEF TransientError, TypeOK
    <2>2. CallOpen'
      BY <1>9, RetryOpen DEF TransientError
    <2> QED BY <2>1, <2>2
  <1>10. ASSUME NEW w \in Workers, LogStateTransition(w)
         PROVE  TypeOK' /\ CallOpen'
    <2>1. TypeOK'
      BY <1>10, ReturnType DEF LogStateTransition, TypeOK, Result, Move
    <2>2. CallOpen'
      BY <1>10 DEF LogStateTransition, Return, TypeOK, CallOpen
    <2> QED BY <2>1, <2>2
  <1>11. ASSUME NEW w \in Workers, LogStateTransitionFails(w)
         PROVE  TypeOK' /\ CallOpen'
    <2>1. TypeOK'
      BY <1>11, ReturnType DEF LogStateTransitionFails, TypeOK, Result
    <2>2. CallOpen'
      BY <1>11 DEF LogStateTransitionFails, Return, TypeOK, CallOpen
    <2> QED BY <2>1, <2>2
  <1>12. ASSUME NEW w \in Workers, Crash(w) PROVE TypeOK' /\ CallOpen'
    <2>1. TypeOK'
      BY <1>12, ReturnType, UnlockType DEF Crash, TypeOK, Result
    <2>2. CallOpen'
      BY <1>12 DEF Crash, Return, TypeOK, CallOpen
    <2> QED BY <2>1, <2>2
  <1>13. ASSUME NEW s \in Sessions, CreateSession(s) PROVE TypeOK' /\ CallOpen'
    BY <1>13 DEF CreateSession, TypeOK, CallOpen, Move, Status, Live, request
  <1>14. ASSUME NEW s \in Sessions, CreateHighRiskFix(s)
         PROVE  TypeOK' /\ CallOpen'
    BY <1>14 DEF CreateHighRiskFix, TypeOK, CallOpen, request
  <1>15. CASE UNCHANGED vars
    BY <1>15 DEF vars, TypeOK, CallOpen
  <1> QED
    BY <1>1, <1>2, <1>3, <1>4, <1>5, <1>6, <1>7, <1>8, <1>9, <1>10, <1>11,
       <1>12, <1>13, <1>14, <1>15 DEF Next, Step

\* The initial states have the right types.
LEMMA TypeInit == Init => TInv
  <1> SUFFICES ASSUME Init PROVE TInv
    OBVIOUS
  <1>1. /\ attempt \in [Workers -> 1..MaxAttempts]
        /\ history \in [Sessions -> Seq(Move)]
        /\ timeline \in [Sessions -> Seq(Move)]
    BY EngineAssumption DEF Init
  <1>2. /\ status \in [Sessions -> Status]
        /\ origin \in [Sessions -> Status]
    BY EngineAssumption DEF Init
  <1> QED
    BY <1>1, <1>2 DEF Init, TInv, TypeOK, CallOpen, PC, Status, Result

\* Every variable of the engine keeps its type: the status column, the lock
\* table, and the position, arguments and result of each call.
THEOREM EngineTypeCorrect == Spec => []TypeOK
  <1>1. TInv => TypeOK
    BY DEF TInv
  <1> QED BY <1>1, TypeInit, TypeStep, PTL DEF Spec



(***************************************************************************)
(* The inductive invariant.  RowLock and ReadIsCurrent need each other: a  *)
(* status that was read stays current because only the lock holder changes *)
(* it.  OneWinner also needs to know that a commit moves the session       *)
(* strictly forward, so that every earlier winner read a lower status.     *)
(***************************************************************************)

\* A transaction is open only on a row that exists.
ReadsRow == \A w \in Workers : pc[w] \in InTx => seen[w] # "NONE"

\* Only FIX_GENERATED in FIX_PROPOSED counts the HIGH-risk fix actions.
RiskPoint ==
    \A w \in Workers : pc[w] = "risk" => IsRiskRouted(seen[w], event[w])

\* What a transaction is about to write is a move from what it has read.
TargetIsMove ==
    \A w \in Workers : pc[w] = "update" =>
        \E m \in Moves : m[1] = seen[w] /\ m[3] = target[w]

\* The session has gone beyond the status a successful call read.
WinnersPast ==
    \A w \in Workers :
        Won(w) => Rank[seen[w]] < Rank[status[sess[w]]]

IInv ==
    /\ TInv
    /\ RowLock
    /\ ReadIsCurrent
    /\ ReadsRow
    /\ RiskPoint
    /\ TargetIsMove
    /\ WinnersPast
    /\ OneWinner

-----------------------------------------------------------------------------
\* The variables of the calls of all workers but w are as before.
OthersSame(w) ==
    \A v \in Workers \ {w} :
        /\ pc'[v] = pc[v] /\ sess'[v] = sess[v] /\ event'[v] = event[v]
        /\ seen'[v] = seen[v] /\ target'[v] = target[v]
        /\ result'[v] = result[v]

\* The end of a call touches the variables of its own worker only.
LEMMA ReturnEffect ==
    ASSUME TypeOK, NEW w \in Workers, NEW r, Return(w, r), UNCHANGED sess
    PROVE  /\ OthersSame(w)
           /\ pc'[w] = "idle" /\ sess'[w] = sess[w] /\ result'[w] = r
           /\ r = "ok" => seen'[w] = seen[w]
  BY DEF TypeOK, Return, OthersSame

\* A transient error ends the attempt, and perhaps the call, without success.
LEMMA RetryEffect ==
    ASSUME TypeOK, NEW w \in Workers, RetryOrGiveUp(w), UNCHANGED sess
    PROVE  /\ OthersSame(w)
           /\ pc'[w] \in {"idle", "select"} /\ sess'[w] = sess[w]
           /\ result'[w] \in {result[w], "exhausted"}
  <1>1. CASE attempt[w] < MaxAttempts
    <2>1. /\ pc' = [pc EXCEPT ![w] = "select"]
          /\ seen' = [seen EXCEPT ![w] = "NONE"]
          /\ target' = [target EXCEPT ![w] = "NONE"]
          /\ UNCHANGED <<event, result>>
      BY <1>1 DEF RetryOrGiveUp
    <2> QED BY <2>1 DEF TypeOK, OthersSame
  <1>2. CASE ~(attempt[w] < MaxAttempts)
    BY <1>2, ReturnEffect DEF RetryOrGiveUp
  <1> QED BY <1>1, <1>2

\* Unlock releases what w holds and nothing else.
LEMMA UnlockEffect ==
    ASSUME TypeOK, NEW w \in Workers, Unlock(w)
    PROVE  \A s \in Sessions : /\ lock[s] = w => lock'[s] = NoWorker
                               /\ lock[s] # w => lock'[s] = lock[s]
  BY DEF TypeOK, Unlock

LockInv == RowLock /\ ReadIsCurrent /\ ReadsRow

\* Row locks and the statuses read under them.
LEMMA LockStep ==
    TInv /\ LockInv /\ [Next]_vars => LockInv'
  <1> SUFFICES ASSUME TypeOK, LockInv, [Next]_vars
               PROVE  LockInv'
    BY DEF TInv
  <1> USE EngineAssumption
  \* A step that ends the transaction of w, whether it commits or not.
  <1>1. ASSUME NEW w \in Workers, OthersSame(w), Unlock(w),
               pc'[w] \notin InTx,
               \/ UNCHANGED status
               \/ pc[w] \in InTx /\ \A s \in Sessions \ {sess[w]} :
                                      status'[s] = status[s]
        PROVE  LockInv'
    <2>1. ASSUME NEW v \in Workers, NEW s \in Sessions
          PROVE  lock'[s] = v <=> pc'[v] \in InTx /\ sess'[v] = s
      <3>1. CASE v = w
        BY <1>1, <3>1, UnlockEffect
      <3>2. CASE v # w
        <4>1. lock'[s] = v <=> lock[s] = v
          BY <1>1, <3>2, UnlockEffect
        <4> QED BY <1>1, <3>2, <4>1 DEF OthersSame, LockInv, RowLock
      <3> QED BY <3>1, <3>2
    <2>2. ASSUME NEW v \in Workers, pc'[v] \in InTx
          PROVE  seen'[v] = status'[sess'[v]]
      <3>1. v # w /\ pc[v] \in InTx /\ sess'[v] = sess[v] /\ seen'[v] = seen[v]
        BY <1>1, <2>2 DEF OthersSame
      <3>2. pc[w] \in InTx => sess[v] # sess[w]
        BY <3>1 DEF LockInv, RowLock, TypeOK
      <3> QED BY <1>1, <3>1, <3>2 DEF LockInv, ReadIsCurrent, TypeOK
    <2> QED BY <1>1, <2>1, <2>2
            DEF OthersSame, LockInv, RowLock, ReadIsCurrent, ReadsRow
  \* A step of w inside its transaction.
  <1>2. ASSUME NEW w \in Workers, OthersSame(w), UNCHANGED <<lock, status>>,
               pc'[w] \in InTx <=> pc[w] \in InTx,
               pc[w] \in InTx => sess'[w] = sess[w] /\ seen'[w] = seen[w]
        PROVE  LockInv'
    BY <1>2 DEF OthersSame, LockInv, RowLock, ReadIsCurrent, ReadsRow
  <1>3. ASSUME NEW w \in Workers, NEW s \in Sessions, NEW e \in Events,
               Transition(w, s, e)
        PROVE  LockInv'
    <2>1. OthersSame(w) /\ pc'[w] = "select" /\ pc[w] = "idle"
      BY <1>3 DEF Transition, OthersSame, TypeOK
    <2> QED BY <1>2, <1>3, <2>1 DEF Transition, InTx
  <1>4. ASSUME NEW w \in Workers, SelectRow(w)
        PROVE  LockInv'
    <2>1. /\ OthersSame(w) /\ pc'[w] = "lookup" /\ pc[w] = "select"
          /\ sess'[w] = sess[w] /\ seen'[w] = status'[sess[w]]
          /\ seen'[w] # "NONE"
          /\ lock[sess[w]] = NoWorker /\ lock'[sess[w]] = w
          /\ \A s \in Sessions \ {sess[w]} : lock'[s] = lock[s]
      BY <1>4 DEF SelectRow, RowVisible, OthersSame, TypeOK, request
    <2>2. UNCHANGED status
      BY <1>4 DEF SelectRow
    <2>3. ASSUME NEW v \in Workers, NEW s \in Sessions
          PROVE  lock'[s] = v <=> pc'[v] \in InTx /\ sess'[v] = s
      <3>1. CASE s = sess[w]
        BY <2>1, <3>1 DEF OthersSame, LockInv, RowLock, InTx
      <3>2. CASE s # sess[w]
        BY <2>1, <3>2 DEF OthersSame, LockInv, RowLock, InTx
      <3> QED BY <3>1, <3>2
    <2> QED BY <2>1, <2>2, <2>3
            DEF OthersSame, LockInv, RowLock, ReadIsCurrent, ReadsRow
  <1>5. ASSUME NEW w \in Workers, SelectNoRows(w)
        PROVE  LockInv'
    BY <1>2, <1>5, ReturnEffect DEF SelectNoRows, InTx
  <1>6. ASSUME NEW w \in Workers, RejectEvent(w)
        PROVE  LockInv'
    BY <1>1, <1>6, ReturnEffect DEF RejectEvent, InTx
  <1>7. ASSUME NEW w \in Workers, LookUp(w) \/ DetermineNextStatus(w)
        PROVE  LockInv'
    <2>1. /\ OthersSame(w) /\ UNCHANGED <<lock, status, sess, seen>>
          /\ pc[w] \in InTx /\ pc'[w] \in InTx
      BY <1>7 DEF LookUp, DetermineNextStatus, OthersSame, TypeOK, InTx, request
    <2> QED BY <1>2, <2>1
  <1>8. ASSUME NEW w \in Workers, Commit(w)
        PROVE  LockInv'
    <2>1. /\ OthersSame(w) /\ pc'[w] = "log" /\ pc[w] = "update"
          /\ Unlock(w)
          /\ \A s \in Sessions \ {sess[w]} : status'[s] = status[s]
      BY <1>8 DEF Commit, CommitUpdate, OthersSame, TypeOK, request
    <2> QED BY <1>1, <2>1 DEF InTx
  <1>9. ASSUME NEW w \in Workers, CommitReplyLost(w)
        PROVE  LockInv'
    <2>1. /\ pc[w] = "update" /\ Unlock(w)
          /\ \A s \in Sessions \ {sess[w]} : status'[s] = status[s]
      BY <1>9 DEF CommitReplyLost, CommitUpdate, TypeOK
    <2>2. OthersSame(w) /\ pc'[w] \in {"idle", "select"}
      BY <1>9, RetryEffect DEF CommitReplyLost
    <2> QED BY <1>1, <2>1, <2>2 DEF InTx
  <1>10. ASSUME NEW w \in Workers, TransientError(w)
         PROVE  LockInv'
    BY <1>1, <1>10, RetryEffect DEF TransientError, InTx
  <1>11. ASSUME NEW w \in Workers,
                LogStateTransition(w) \/ LogStateTransitionFails(w)
         PROVE  LockInv'
    BY <1>2, <1>11, ReturnEffect
    DEF LogStateTransition, LogStateTransitionFails, InTx
  <1>12. ASSUME NEW w \in Workers, Crash(w)
         PROVE  LockInv'
    BY <1>1, <1>12, ReturnEffect DEF Crash, InTx
  <1>13. ASSUME NEW s \in Sessions, CreateSession(s)
         PROVE  LockInv'
    BY <1>13
    DEF CreateSession, LockInv, RowLock, ReadIsCurrent, ReadsRow, TypeOK, request
  <1>14. ASSUME NEW s \in Sessions, CreateHighRiskFix(s)
         PROVE  LockInv'
    BY <1>14 DEF CreateHighRiskFix, LockInv, RowLock, ReadIsCurrent, ReadsRow,
                 request
  <1>15. CASE UNCHANGED vars
    BY <1>15 DEF vars, LockInv, RowLock, ReadIsCurrent, ReadsRow
  <1> QED
    BY <1>3, <1>4, <1>5, <1>6, <1>7, <1>8, <1>9, <1>10, <1>11, <1>12, <1>13,
       <1>14, <1>15 DEF Next, Step

-----------------------------------------------------------------------------
TargetInv == RiskPoint /\ TargetIsMove

\* Whichever way the next status was found, the table's or the risk count's,
\* it is the end of a move from the status that was read.
LEMMA TargetStep == TInv /\ TargetInv /\ [Next]_vars => TargetInv'
  <1> SUFFICES ASSUME TypeOK, CallOpen, TargetInv, [Next]_vars
               PROVE  TargetInv'
    BY DEF TInv
  <1>1. ASSUME NEW w \in Workers, OthersSame(w),
               pc'[w] \notin {"risk", "update"}
        PROVE  TargetInv'
    BY <1>1 DEF OthersSame, TargetInv, RiskPoint, TargetIsMove
  <1>2. ASSUME NEW w \in Workers, NEW s \in Sessions, NEW e \in Events,
               Transition(w, s, e)
        PROVE  TargetInv'
    <2>1. OthersSame(w) /\ pc'[w] = "select"
      BY <1>2 DEF Transition, OthersSame, TypeOK
    <2> QED BY <1>1, <2>1
  <1>3. ASSUME NEW w \in Workers, SelectRow(w)
        PROVE  TargetInv'
    <2>1. OthersSame(w) /\ pc'[w] = "lookup"
      BY <1>3 DEF SelectRow, OthersSame, TypeOK, request
    <2> QED BY <1>1, <2>1
  <1>4. ASSUME NEW w \in Workers,
               \/ SelectNoRows(w) \/ RejectEvent(w) \/ LogStateTransition(w)
               \/ LogStateTransitionFails(w) \/ Crash(w)
        PROVE  TargetInv'
    BY <1>1, <1>4, ReturnEffect
    DEF SelectNoRows, RejectEvent, LogStateTransition,
        LogStateTransitionFails, Crash
  <1>5. ASSUME NEW w \in Workers, LookUp(w)
        PROVE  TargetInv'
    <2>1. /\ OthersSame(w) /\ event'[w] = event[w] /\ seen'[w] = seen[w]
          /\ seen[w] \in Status /\ event[w] \in Event
          /\ target'[w] \in Targets[seen[w]][event[w]]
          /\ pc'[w] = "risk" => IsRiskRouted(seen[w], event[w])
      BY <1>5 DEF LookUp, OthersSame, TypeOK, CallOpen, request
    <2>2. \E m \in Moves : m[1] = seen[w] /\ m[3] = target'[w]
      BY <2>1, TargetsAreMoves
    <2> QED BY <2>1, <2>2 DEF OthersSame, TargetInv, RiskPoint, TargetIsMove
  <1>6. ASSUME NEW w \in Workers, DetermineNextStatus(w)
        PROVE  TargetInv'
    <2>1. /\ OthersSame(w) /\ pc[w] = "risk" /\ pc'[w] = "update"
          /\ seen'[w] = seen[w]
          /\ target'[w] \in {"AWAITING_APPROVAL", "FIX_SUGGESTED"}
      BY <1>6 DEF DetermineNextStatus, RoutedStatus, OthersSame, TypeOK, request
    <2>2. seen[w] = "FIX_PROPOSED"
      BY <2>1 DEF TargetInv, RiskPoint, IsRiskRouted
    <2>3. /\ <<"FIX_PROPOSED", "FIX_GENERATED", "AWAITING_APPROVAL">> \in Moves
          /\ <<"FIX_PROPOSED", "FIX_GENERATED", "FIX_SUGGESTED">> \in Moves
      BY DEF Moves, ValidTransitions
    <2>4. \E m \in Moves : m[1] = seen[w] /\ m[3] = target'[w]
      BY <2>1, <2>2, <2>3
    <2> QED BY <2>1, <2>4 DEF OthersSame, TargetInv, RiskPoint, TargetIsMove
  <1>7. ASSUME NEW w \in Workers, Commit(w)
        PROVE  TargetInv'
    <2>1. OthersSame(w) /\ pc'[w] = "log"
      BY <1>7 DEF Commit, OthersSame, TypeOK, request
    <2> QED BY <1>1, <2>1
  <1>8. ASSUME NEW w \in Workers, CommitReplyLost(w) \/ TransientError(w)
        PROVE  TargetInv'
    BY <1>1, <1>8, RetryEffect DEF CommitReplyLost, TransientError
  <1>9. ASSUME NEW s \in Sessions, CreateSession(s) \/ CreateHighRiskFix(s)
        PROVE  TargetInv'
    BY <1>9 DEF CreateSession, CreateHighRiskFix, request, TargetInv,
                RiskPoint, TargetIsMove
  <1>10. CASE UNCHANGED vars
    BY <1>10 DEF vars, TargetInv, RiskPoint, TargetIsMove
  <1> QED
    BY <1>2, <1>3, <1>4, <1>5, <1>6, <1>7, <1>8, <1>9, <1>10 DEF Next, Step

-----------------------------------------------------------------------------
\* The only writes of the status column: the insertion of the row, and the
\* commit of a move from the committed status.
StatusStep ==
    \/ UNCHANGED status
    \/ \E s \in Sessions : /\ status[s] = "NONE"
                           /\ status' = [status EXCEPT ![s] = "CREATED"]
    \/ \E s \in Sessions, m \in Moves :
          /\ m[1] = status[s]
          /\ status' = [status EXCEPT ![s] = m[3]]

\* A commit writes a move from the status that is committed at that moment.
LEMMA CommitIsMove ==
    ASSUME TypeOK, LockInv, TargetInv, NEW w \in Workers, pc[w] = "update",
           CommitUpdate(w)
    PROVE  \E m \in Moves : /\ m[1] = status[sess[w]] /\ m[3] = target[w]
                            /\ status' = [status EXCEPT ![sess[w]] = m[3]]
  <1>1. PICK m \in Moves : m[1] = seen[w] /\ m[3] = target[w]
    BY DEF TargetInv, TargetIsMove
  <1>2. seen[w] = status[sess[w]]
    BY DEF LockInv, ReadIsCurrent, InTx
  <1> QED BY <1>1, <1>2 DEF CommitUpdate

\* Every step of the engine is one of these on the status column.
LEMMA StatusSteps == IInv /\ [Next]_vars => StatusStep
  <1> SUFFICES ASSUME TypeOK, LockInv, TargetInv, [Next]_vars
               PROVE  StatusStep
    BY DEF IInv, TInv, LockInv, TargetInv
  <1>1. ASSUME NEW w \in Workers, Commit(w) \/ CommitReplyLost(w)
        PROVE  StatusStep
    <2>1. sess[w] \in Sessions
      BY DEF TypeOK
    <2> QED BY <1>1, <2>1, CommitIsMove DEF Commit, CommitReplyLost, StatusStep
  <1>2. ASSUME NEW s \in Sessions, CreateSession(s)
        PROVE  StatusStep
    BY <1>2 DEF CreateSession, StatusStep
  <1>3. ASSUME UNCHANGED status PROVE StatusStep
    BY <1>3 DEF StatusStep
  <1> QED
    BY <1>1, <1>2, <1>3
    DEF Next, Step, vars, Transition, SelectRow, SelectNoRows, RejectEvent,
        LookUp, DetermineNextStatus, TransientError, LogStateTransition,
        LogStateTransitionFails, Crash, CreateHighRiskFix

\* Ranks are numbers.
LEMMA RankIsNat == \A x \in Status : Rank[x] \in Nat
  BY DEF Status, Live, Terminal, Rank

\* A step leaves the status of a session alone or moves it up in rank.
LEMMA StatusAdvances ==
    ASSUME IInv, [Next]_vars, NEW s \in Sessions
    PROVE  status'[s] = status[s] \/ Rank[status[s]] < Rank[status'[s]]
  <1> USE DEF IInv, TInv
  <1>1. ASSUME NEW t \in Sessions, status[t] = "NONE",
               status' = [status EXCEPT ![t] = "CREATED"]
        PROVE  status'[s] = status[s] \/ Rank[status[s]] < Rank[status'[s]]
    BY <1>1 DEF TypeOK, Rank
  <1>2. ASSUME NEW t \in Sessions, NEW m \in Moves, m[1] = status[t],
               status' = [status EXCEPT ![t] = m[3]]
        PROVE  status'[s] = status[s] \/ Rank[status[s]] < Rank[status'[s]]
    BY <1>2, MovesAdvance DEF TypeOK
  <1> QED BY <1>1, <1>2, StatusSteps DEF StatusStep

WinnerInv == WinnersPast /\ OneWinner

\* A commit is the only step that makes a winner, and it reads a status that
\* every earlier winner of the session is beyond.
LEMMA WinnerStep == IInv /\ [Next]_vars => WinnerInv'
  <1> SUFFICES ASSUME IInv, [Next]_vars
               PROVE  WinnerInv'
    OBVIOUS
  <1> USE DEF IInv, TInv
  <1>a. TypeOK /\ TypeOK'
    BY TypeStep
  \* Who has won stays ahead while the session moves on.
  <1>b. ASSUME NEW v \in Workers, Won(v), seen'[v] = seen[v],
               sess'[v] = sess[v]
        PROVE  Rank[seen'[v]] < Rank[status'[sess'[v]]]
    <2>1. /\ sess[v] \in Sessions
          /\ Rank[seen[v]] \in Nat
          /\ Rank[status[sess[v]]] \in Nat
          /\ Rank[status'[sess[v]]] \in Nat
      BY <1>a, RankIsNat DEF TypeOK
    <2>2. \/ status'[sess[v]] = status[sess[v]]
          \/ Rank[status[sess[v]]] < Rank[status'[sess[v]]]
      BY <2>1, StatusAdvances
    <2> QED BY <1>b, <2>1, <2>2 DEF WinnersPast
  \* A step of w that makes no winner.
  <1>1. ASSUME NEW w \in Workers, OthersSame(w),
               Won(w)' => Won(w) /\ seen'[w] = seen[w] /\ sess'[w] = sess[w]
        PROVE  WinnerInv'
    <2>1. \A v \in Workers :
             Won(v)' => Won(v) /\ seen'[v] = seen[v] /\ sess'[v] = sess[v]
      BY <1>1 DEF OthersSame, Won
    <2>2. WinnersPast'
      BY <1>b, <2>1 DEF WinnersPast
    <2>3. OneWinner'
      BY <2>1 DEF OneWinner
    <2> QED BY <2>2, <2>3 DEF WinnerInv
  <1>2. ASSUME NEW w \in Workers, NEW s \in Sessions, NEW e \in Events,
               Transition(w, s, e)
        PROVE  WinnerInv'
    <2>1. OthersSame(w) /\ pc'[w] = "select" /\ result'[w] = "none"
      BY <1>2 DEF Transition, OthersSame, TypeOK
    <2> QED BY <1>1, <2>1 DEF Won
  <1>3. ASSUME NEW w \in Workers,
               SelectRow(w) \/ LookUp(w) \/ DetermineNextStatus(w)
        PROVE  WinnerInv'
    <2>1. /\ OthersSame(w) /\ pc[w] # "idle"
          /\ pc'[w] # "log" /\ result'[w] = result[w]
      BY <1>3 DEF SelectRow, LookUp, DetermineNextStatus, OthersSame, TypeOK,
                  request
    <2> QED BY <1>1, <2>1 DEF Won, CallOpen
  <1>4. ASSUME NEW w \in Workers,
               SelectNoRows(w) \/ RejectEvent(w) \/ Crash(w)
        PROVE  WinnerInv'
    <2>1. /\ OthersSame(w) /\ pc'[w] = "idle"
          /\ result'[w] \in {"notfound", "invalid", "none"}
      BY <1>4, ReturnEffect DEF SelectNoRows, RejectEvent, Crash
    <2> QED BY <1>1, <2>1 DEF Won
  <1>5. ASSUME NEW w \in Workers,
               LogStateTransition(w) \/ LogStateTransitionFails(w)
        PROVE  WinnerInv'
    <2>1. /\ OthersSame(w) /\ pc[w] = "log"
          /\ seen'[w] = seen[w] /\ sess'[w] = sess[w]
      BY <1>5, ReturnEffect DEF LogStateTransition, LogStateTransitionFails
    <2> QED BY <1>1, <2>1 DEF Won
  <1>6. ASSUME NEW w \in Workers, CommitReplyLost(w) \/ TransientError(w)
        PROVE  WinnerInv'
    <2>1. /\ OthersSame(w) /\ pc[w] # "idle"
          /\ pc'[w] \in {"idle", "select"}
          /\ result'[w] \in {result[w], "exhausted"}
      BY <1>6, RetryEffect DEF CommitReplyLost, TransientError
    <2> QED BY <1>1, <2>1 DEF Won, CallOpen
  <1>7. ASSUME NEW w \in Workers, Commit(w)
        PROVE  WinnerInv'
    <2>1. /\ OthersSame(w) /\ pc[w] = "update"
          /\ seen'[w] = seen[w] /\ sess'[w] = sess[w]
          /\ sess[w] \in Sessions
          /\ status'[sess[w]] = target[w]
      BY <1>7 DEF Commit, CommitUpdate, OthersSame, TypeOK, request
    <2>2. seen[w] = status[sess[w]]
      BY <2>1 DEF ReadIsCurrent, InTx
    <2>3. Rank[seen'[w]] < Rank[status'[sess'[w]]]
      <3>1. PICK m \in Moves : m[1] = seen[w] /\ m[3] = target[w]
        BY <2>1 DEF TargetIsMove
      <3> QED BY <2>1, <3>1, MovesAdvance
    <2>4. \A v \in Workers \ {w} :
             /\ Won(v)' <=> Won(v)
             /\ seen'[v] = seen[v] /\ sess'[v] = sess[v]
      BY <2>1 DEF OthersSame, Won
    <2>5. WinnersPast'
      BY <1>b, <2>3, <2>4 DEF WinnersPast
    <2>6. ASSUME NEW v \in Workers \ {w}, Won(v), sess[v] = sess[w]
          PROVE  seen[v] # seen[w]
      <3>1. Rank[seen[v]] < Rank[seen[w]]
        BY <2>2, <2>6 DEF WinnersPast
      <3>2. Rank[seen[w]] \in Nat
        BY RankIsNat DEF TypeOK
      <3> QED BY <3>1, <3>2
    <2>7. OneWinner'
      BY <2>1, <2>4, <2>6 DEF OneWinner
    <2> QED BY <2>5, <2>7 DEF WinnerInv
  <1>8. CASE \/ \E s \in Sessions : CreateSession(s) \/ CreateHighRiskFix(s)
             \/ UNCHANGED vars
    <2>1. UNCHANGED <<pc, sess, seen, result>>
      BY <1>8 DEF CreateSession, CreateHighRiskFix, vars, request
    <2>2. WinnersPast'
      BY <1>b, <2>1 DEF WinnersPast, Won
    <2> QED BY <2>1, <2>2 DEF WinnerInv, OneWinner, Won
  <1> QED
    BY <1>2, <1>3, <1>4, <1>5, <1>6, <1>7, <1>8 DEF Next, Step

-----------------------------------------------------------------------------
\* The invariant holds in every reachable state.
LEMMA Invariant == Spec => []IInv
  <1>1. Init => IInv
    <2> SUFFICES ASSUME Init PROVE IInv
      OBVIOUS
    <2>1. TInv
      BY TypeInit
    <2> QED
      BY <2>1, EngineAssumption
      DEF Init, IInv, RowLock, ReadIsCurrent, ReadsRow, RiskPoint,
          TargetIsMove, WinnersPast, OneWinner, Won, InTx
  <1>2. IInv /\ [Next]_vars => IInv'
    BY TypeStep, LockStep, TargetStep, WinnerStep
    DEF IInv, LockInv, TargetInv, WinnerInv
  <1> QED BY <1>1, <1>2, PTL DEF Spec

\* No row lock leaks: in every reachable state a row is locked exactly by the
\* worker whose open transaction is on it.
THEOREM EngineRowLock == Spec => []RowLock
  BY Invariant, PTL DEF IInv

\* The status a transaction decides on is the committed one until it ends, so
\* the read-decide-write of tryTransition is atomic.
THEOREM EngineReadIsCurrent == Spec => []ReadIsCurrent
  BY Invariant, PTL DEF IInv

\* Among any number of concurrent calls that read the same status of a
\* session, at most one succeeds.
THEOREM EngineOneWinner == Spec => []OneWinner
  BY Invariant, PTL DEF IInv

\* Engine.Transition implements the atomic session lifecycle: whatever its
\* callers, transactions, retries, lost replies and crashes do, the committed
\* status moves as Lifecycle allows.
THEOREM EngineImplementsLifecycle == Spec => Implements
  <1>1. Init => LC!Init
    BY DEF Init, LC!Init
  <1>2. LC!Moves = Moves
    BY DEF LC!Moves, Moves, LC!ValidTransitions, ValidTransitions, LC!Live, Live
  <1>3. IInv /\ [Next]_vars => [LC!Next]_status
    BY <1>2, StatusSteps
    DEF StatusStep, LC!Next, LC!CreateSession, LC!Apply
  <1> QED BY <1>1, <1>3, Invariant, PTL DEF Spec, LC!Spec, Implements

\* In the abstract lifecycle a session only moves forward: no sequence of
\* events brings it back to an earlier status or out of a terminal one.
LEMMA AbstractForward == LC!Spec => LC!OnlyForward
  <1> DEFINE Forward ==
        \A s \in Sessions :
            status'[s] # status[s] => LC!Rank[status'[s]] > LC!Rank[status[s]]
  <1>a. LC!Moves = Moves /\ LC!Rank = Rank /\ LC!Status = Status
    BY DEF LC!Moves, Moves, LC!ValidTransitions, ValidTransitions, LC!Live,
           Live, LC!Rank, Rank, LC!Status, Status, LC!Terminal, Terminal
  <1>1. LC!Init => LC!TypeOK
    BY <1>a, EngineAssumption DEF LC!Init, LC!TypeOK
  <1>2. LC!TypeOK /\ [LC!Next]_status => LC!TypeOK' /\ [Forward]_status
    <2> SUFFICES ASSUME LC!TypeOK, LC!Next
                 PROVE  LC!TypeOK' /\ Forward
      BY DEF LC!TypeOK
    <2>1. ASSUME NEW s \in Sessions, LC!CreateSession(s)
          PROVE  LC!TypeOK' /\ Forward
      <3>1. status' \in [Sessions -> Status]
        BY <1>a, <2>1 DEF LC!CreateSession, LC!TypeOK, Status, Live
      <3>2. Forward
        BY <1>a, <2>1 DEF LC!CreateSession, LC!TypeOK, Rank
      <3> QED BY <1>a, <3>1, <3>2 DEF LC!TypeOK
    <2>2. ASSUME NEW s \in Sessions, LC!Apply(s)
          PROVE  LC!TypeOK' /\ Forward
      <3>1. PICK m \in Moves : /\ m[1] = status[s]
                               /\ status' = [status EXCEPT ![s] = m[3]]
        BY <1>a, <2>2 DEF LC!Apply
      <3>2. status' \in [Sessions -> Status]
        BY <1>a, <3>1, MovesAdvance DEF LC!TypeOK
      <3>3. \A t \in Sessions :
               status'[t] # status[t] => t = s /\ status'[t] = m[3]
        BY <1>a, <3>1 DEF LC!TypeOK
      <3>4. Forward
        BY <1>a, <3>1, <3>3, MovesAdvance
      <3> QED BY <1>a, <3>2, <3>4 DEF LC!TypeOK
    <2> QED BY <2>1, <2>2 DEF LC!Next
  <1> QED BY <1>1, <1>2, PTL DEF LC!Spec, LC!OnlyForward

\* The engine inherits it: with any number of workers, retries, lost replies
\* and crashes, no committed update takes a session back.
THEOREM EngineForward == Spec => LC!OnlyForward
  BY EngineImplementsLifecycle, AbstractForward, PTL DEF Implements

-----------------------------------------------------------------------------
(***************************************************************************)
(* The history of commits and the timeline.                                *)
(***************************************************************************)

\* h is a path of moves from status first to status last.
Path(h, first, last) ==
    /\ last = IF h = <<>> THEN first ELSE h[Len(h)][2]
    /\ h # <<>> => h[1][1] = first
    /\ \A i \in 1..(Len(h) - 1) : h[i][2] = h[i + 1][1]

\* A move from the end of a path makes it longer.
LEMMA PathAppend ==
    ASSUME NEW h \in Seq(Move), NEW first \in Status, NEW last \in Status,
           NEW next \in Status, Path(h, first, last)
    PROVE  Path(Append(h, <<last, next>>), first, next)
  <1> DEFINE g == Append(h, <<last, next>>)
  <1>1. /\ Len(h) \in Nat /\ Len(g) = Len(h) + 1 /\ g # <<>>
        /\ g[Len(h) + 1] = <<last, next>>
        /\ \A i \in 1..Len(h) : g[i] = h[i]
    <2>1. <<last, next>> \in Move
      BY DEF Move
    <2> QED BY <2>1, AppendProperties
  <1>2. h = <<>> <=> Len(h) = 0
    OBVIOUS
  <1>3. next = g[Len(g)][2]
    BY <1>1
  <1>4. g[1][1] = first
    <2>1. CASE h = <<>>
      BY <1>1, <1>2, <2>1 DEF Path
    <2>2. CASE h # <<>>
      BY <1>1, <1>2, <2>2 DEF Path
    <2> QED BY <2>1, <2>2
  <1>5. ASSUME NEW i \in 1..(Len(g) - 1)
        PROVE  g[i][2] = g[i + 1][1]
    <2>1. CASE i = Len(h)
      BY <1>1, <1>2, <1>5, <2>1 DEF Path
    <2>2. CASE i # Len(h)
      <3>1. i \in 1..(Len(h) - 1) /\ i + 1 \in 1..Len(h) /\ i \in 1..Len(h)
        BY <1>1, <1>5, <2>2
      <3> QED BY <1>1, <3>1 DEF Path
    <2> QED BY <2>1, <2>2
  <1> HIDE DEF g
  <1>6. Path(g, first, next)
    BY <1>1, <1>3, <1>4, <1>5 DEF Path
  <1> QED BY <1>6 DEF g

\* History and status change together, by one move from the present status.
LEMMA HistoryStep ==
    IInv /\ HistoryIsPath /\ [Next]_vars => HistoryIsPath'
  <1> SUFFICES ASSUME IInv, HistoryIsPath, [Next]_vars, NEW s \in Sessions
               PROVE  Path(history'[s], origin'[s], status'[s])
    BY DEF HistoryIsPath, Path
  <1> USE DEF IInv, TInv
  <1>a. Path(history[s], origin[s], status[s])
    BY DEF HistoryIsPath, Path
  <1>1. ASSUME history'[s] = history[s], origin'[s] = origin[s],
               status'[s] = status[s]
        PROVE  Path(history'[s], origin'[s], status'[s])
    BY <1>a, <1>1
  <1>2. ASSUME NEW w \in Workers, Commit(w) \/ CommitReplyLost(w)
        PROVE  Path(history'[s], origin'[s], status'[s])
    <2>1. /\ pc[w] = "update" /\ CommitUpdate(w) /\ UNCHANGED origin
      BY <1>2 DEF Commit, CommitReplyLost
    <2>2. CASE s # sess[w]
      BY <1>1, <2>1, <2>2 DEF CommitUpdate, TypeOK
    <2>3. CASE s = sess[w]
      <3>1. seen[w] = status[s]
        BY <2>1, <2>3 DEF ReadIsCurrent, InTx
      <3>2. /\ history'[s] = Append(history[s], <<status[s], target[w]>>)
            /\ status'[s] = target[w] /\ origin'[s] = origin[s]
        BY <2>1, <2>3, <3>1 DEF CommitUpdate, TypeOK
      <3>3. /\ history[s] \in Seq(Move) /\ origin[s] \in Status
            /\ status[s] \in Status /\ target[w] \in Status
        BY DEF TypeOK
      <3> QED BY <1>a, <3>2, <3>3, PathAppend
    <2> QED BY <2>2, <2>3
  <1>3. ASSUME NEW t \in Sessions, CreateSession(t)
        PROVE  Path(history'[s], origin'[s], status'[s])
    <2>1. CASE s # t
      BY <1>1, <1>3, <2>1 DEF CreateSession, TypeOK
    <2>2. CASE s = t
      <3>1. /\ history'[s] = Append(history[s], <<status[s], "CREATED">>)
            /\ status'[s] = "CREATED" /\ origin'[s] = origin[s]
        BY <1>3, <2>2 DEF CreateSession, TypeOK
      <3>2. /\ history[s] \in Seq(Move) /\ origin[s] \in Status
            /\ status[s] \in Status /\ "CREATED" \in Status
        BY DEF TypeOK, Status, Live
      <3> QED BY <1>a, <3>1, <3>2, PathAppend
    <2> QED BY <2>1, <2>2
  <1> QED
    BY <1>1, <1>2, <1>3
    DEF Next, Step, vars, Transition, SelectRow, SelectNoRows, RejectEvent,
        LookUp, DetermineNextStatus, TransientError, LogStateTransition,
        LogStateTransitionFails, Crash, CreateHighRiskFix

\* The committed moves of a session form one path from its first to its
\* present status: no update is lost, overwritten or applied twice.
THEOREM EngineHistoryIsPath == Spec => []HistoryIsPath
  <1>1. Init => HistoryIsPath
    BY DEF Init, HistoryIsPath
  <1> QED BY <1>1, HistoryStep, Invariant, PTL DEF Spec

\* The move x of session s has been committed.
Committed(s, x) == \E j \in DOMAIN history[s] : history[s][j] = x

\* Every timeline entry is a committed move out of a status the session has
\* gone beyond, and no two entries are moves out of the same status.
TimelinePast ==
    \A s \in Sessions :
        /\ \A i \in DOMAIN timeline[s] :
              /\ Committed(s, timeline[s][i])
              /\ Rank[timeline[s][i][1]] < Rank[status[s]]
        /\ \A i, j \in DOMAIN timeline[s] :
              i # j => timeline[s][i][1] # timeline[s][j][1]

\* A call about to write its entry has committed that move, and no entry is
\* a move out of the status it read.
EntryPending ==
    \A w \in Workers : pc[w] = "log" =>
        /\ Committed(sess[w], <<seen[w], target[w]>>)
        /\ \A i \in DOMAIN timeline[sess[w]] :
              timeline[sess[w]][i][1] # seen[w]

TimelineInv == TimelinePast /\ EntryPending

\* A committed move stays committed.
LEMMA CommittedStays ==
    ASSUME IInv, [Next]_vars, NEW s \in Sessions, NEW x, Committed(s, x)
    PROVE  Committed(s, x)'
  <1> USE DEF IInv, TInv
  <1>1. CASE history'[s] = history[s]
    BY <1>1 DEF Committed
  <1>2. ASSUME NEW m \in Move, history'[s] = Append(history[s], m)
        PROVE  Committed(s, x)'
    <2>1. history[s] \in Seq(Move)
      BY DEF TypeOK
    <2>2. PICK j \in 1..Len(history[s]) : history[s][j] = x
      BY <2>1 DEF Committed
    <2>3. j \in DOMAIN history'[s] /\ history'[s][j] = x
      BY <1>2, <2>1, <2>2, AppendProperties
    <2> QED BY <2>3 DEF Committed
  <1>3. ASSUME NEW w \in Workers, Commit(w) \/ CommitReplyLost(w)
        PROVE  \/ history'[s] = history[s]
               \/ \E m \in Move : history'[s] = Append(history[s], m)
    <2>1. <<seen[w], target[w]>> \in Move /\ sess[w] \in Sessions
      BY DEF TypeOK, Move
    <2>2. history' = [history EXCEPT ![sess[w]] =
                          Append(@, <<seen[w], target[w]>>)]
      BY <1>3 DEF Commit, CommitReplyLost, CommitUpdate
    <2> QED BY <2>1, <2>2 DEF TypeOK
  <1>4. ASSUME NEW t \in Sessions, CreateSession(t)
        PROVE  \/ history'[s] = history[s]
               \/ \E m \in Move : history'[s] = Append(history[s], m)
    <2>1. <<"NONE", "CREATED">> \in Move
      BY DEF Move, Status, Live
    <2> QED BY <1>4, <2>1 DEF CreateSession, TypeOK
  <1> QED
    BY <1>1, <1>2, <1>3, <1>4
    DEF Next, Step, vars, Transition, SelectRow, SelectNoRows, RejectEvent,
        LookUp, DetermineNextStatus, TransientError, LogStateTransition,
        LogStateTransitionFails, Crash, CreateHighRiskFix

\* The timeline reports committed moves, each once.
LEMMA TimelineStep ==
    IInv /\ TimelineInv /\ [Next]_vars => TimelineInv'
  <1> SUFFICES ASSUME IInv, TimelineInv, [Next]_vars
               PROVE  TimelineInv'
    OBVIOUS
  <1> USE DEF IInv, TInv
  <1>a. TypeOK /\ TypeOK'
    BY TypeStep
  <1>b. ASSUME NEW s \in Sessions, NEW x \in Status,
               Rank[x] < Rank[status[s]]
        PROVE  Rank[x] < Rank[status'[s]]
    <2>1. /\ Rank[x] \in Nat /\ Rank[status[s]] \in Nat
          /\ Rank[status'[s]] \in Nat
      BY <1>a, RankIsNat DEF TypeOK
    <2> QED BY <1>b, <2>1, StatusAdvances
  <1>c. \A s \in Sessions : \A i \in DOMAIN timeline[s] :
            timeline[s][i][1] \in Status
    BY <1>a DEF TypeOK, Move
  <1>d. UNCHANGED timeline => TimelinePast'
    BY <1>b, <1>c, CommittedStays DEF TimelineInv, TimelinePast
  \* A step of w after which w has no entry to write.
  <1>1. ASSUME NEW w \in Workers, OthersSame(w), UNCHANGED timeline,
               pc'[w] # "log"
        PROVE  TimelineInv'
    <2>1. ASSUME NEW v \in Workers, pc'[v] = "log"
          PROVE  /\ Committed(sess[v], <<seen[v], target[v]>>)'
                 /\ \A i \in DOMAIN timeline'[sess'[v]] :
                       timeline'[sess'[v]][i][1] # seen'[v]
      <3>1. /\ pc[v] = "log" /\ sess'[v] = sess[v] /\ seen'[v] = seen[v]
            /\ target'[v] = target[v] /\ sess[v] \in Sessions
        BY <1>1, <1>a, <2>1 DEF OthersSame, TypeOK
      <3>2. Committed(sess[v], <<seen[v], target[v]>>)
        BY <3>1 DEF TimelineInv, EntryPending
      <3>3. \E j \in DOMAIN history'[sess[v]] :
               history'[sess[v]][j] = <<seen[v], target[v]>>
        BY <3>1, <3>2, CommittedStays DEF Committed
      <3> QED BY <1>1, <3>1, <3>3 DEF TimelineInv, EntryPending, Committed
    <2> QED BY <1>1, <1>d, <2>1 DEF TimelineInv, EntryPending
  <1>2. ASSUME NEW w \in Workers, NEW s \in Sessions, NEW e \in Events,
               Transition(w, s, e)
        PROVE  TimelineInv'
    <2>1. OthersSame(w) /\ pc'[w] = "select" /\ UNCHANGED timeline
      BY <1>2 DEF Transition, OthersSame, TypeOK
    <2> QED BY <1>1, <2>1
  <1>3. ASSUME NEW w \in Workers,
               SelectRow(w) \/ LookUp(w) \/ DetermineNextStatus(w)
        PROVE  TimelineInv'
    <2>1. OthersSame(w) /\ pc'[w] # "log" /\ UNCHANGED timeline
      BY <1>3 DEF SelectRow, LookUp, DetermineNextStatus, OthersSame, TypeOK,
                  request
    <2> QED BY <1>1, <2>1
  <1>4. ASSUME NEW w \in Workers,
               \/ SelectNoRows(w) \/ RejectEvent(w) \/ Crash(w)
               \/ LogStateTransitionFails(w)
        PROVE  TimelineInv'
    <2>1. OthersSame(w) /\ pc'[w] = "idle" /\ UNCHANGED timeline
      BY <1>4, ReturnEffect
      DEF SelectNoRows, RejectEvent, Crash, LogStateTransitionFails
    <2> QED BY <1>1, <2>1
  <1>5. ASSUME NEW w \in Workers, CommitReplyLost(w) \/ TransientError(w)
        PROVE  TimelineInv'
    <2>1. OthersSame(w) /\ pc'[w] # "log" /\ UNCHANGED timeline
      BY <1>5, RetryEffect DEF CommitReplyLost, TransientError
    <2> QED BY <1>1, <2>1
  \* The new entry of w leaves the present status, which no entry has left.
  <1>6. ASSUME NEW w \in Workers, Commit(w)
        PROVE  TimelineInv'
    <2>1. /\ OthersSame(w) /\ pc[w] = "update" /\ UNCHANGED timeline
          /\ sess'[w] = sess[w] /\ seen'[w] = seen[w] /\ target'[w] = target[w]
          /\ sess[w] \in Sessions
          /\ history'[sess[w]] =
                Append(history[sess[w]], <<seen[w], target[w]>>)
      BY <1>6 DEF Commit, CommitUpdate, OthersSame, TypeOK, request
    <2>2. \E j \in DOMAIN history'[sess[w]] :
             history'[sess[w]][j] = <<seen[w], target[w]>>
      <3>1. /\ history[sess[w]] \in Seq(Move)
            /\ <<seen[w], target[w]>> \in Move
        BY <2>1 DEF TypeOK, Move
      <3>2. Len(history[sess[w]]) + 1 \in DOMAIN history'[sess[w]]
        BY <2>1, <3>1, AppendProperties
      <3> QED BY <2>1, <3>1, <3>2, AppendProperties
    <2>3. seen[w] = status[sess[w]]
      BY <2>1 DEF ReadIsCurrent, InTx
    <2>4. ASSUME NEW i \in DOMAIN timeline[sess[w]]
          PROVE  timeline[sess[w]][i][1] # seen[w]
      <3>1. Rank[timeline[sess[w]][i][1]] < Rank[seen[w]]
        BY <2>1, <2>3 DEF TimelineInv, TimelinePast
      <3>2. Rank[seen[w]] \in Nat
        BY RankIsNat DEF TypeOK
      <3> QED BY <3>1, <3>2
    <2>5. ASSUME NEW v \in Workers, v # w, pc'[v] = "log"
          PROVE  /\ Committed(sess[v], <<seen[v], target[v]>>)'
                 /\ \A i \in DOMAIN timeline'[sess'[v]] :
                       timeline'[sess'[v]][i][1] # seen'[v]
      <3>1. /\ pc[v] = "log" /\ sess'[v] = sess[v] /\ seen'[v] = seen[v]
            /\ target'[v] = target[v] /\ sess[v] \in Sessions
        BY <2>1, <2>5 DEF OthersSame, TypeOK
      <3>2. Committed(sess[v], <<seen[v], target[v]>>)
        BY <3>1 DEF TimelineInv, EntryPending
      <3>3. \E j \in DOMAIN history'[sess[v]] :
               history'[sess[v]][j] = <<seen[v], target[v]>>
        BY <3>1, <3>2, CommittedStays DEF Committed
      <3> QED BY <2>1, <3>1, <3>3 DEF TimelineInv, EntryPending, Committed
    <2>6. /\ Committed(sess[w], <<seen[w], target[w]>>)'
          /\ \A i \in DOMAIN timeline'[sess'[w]] :
                timeline'[sess'[w]][i][1] # seen'[w]
      BY <2>1, <2>2, <2>4 DEF Committed
    <2>7. ASSUME NEW v \in Workers, pc'[v] = "log"
          PROVE  /\ Committed(sess[v], <<seen[v], target[v]>>)'
                 /\ \A i \in DOMAIN timeline'[sess'[v]] :
                       timeline'[sess'[v]][i][1] # seen'[v]
      BY <2>5, <2>6, <2>7
    <2>8. EntryPending'
      BY <2>7 DEF EntryPending
    <2> QED BY <1>d, <2>1, <2>8 DEF TimelineInv
  \* Whoever else has an entry to write for the session read another status.
  <1>7. ASSUME NEW w \in Workers, LogStateTransition(w)
        PROVE  TimelineInv'
    <2> DEFINE q == sess[w]
               t == timeline[q]
               e == <<seen[w], target[w]>>
    <2>1. /\ OthersSame(w) /\ pc[w] = "log" /\ pc'[w] = "idle"
          /\ UNCHANGED <<status, history>>
      BY <1>7, ReturnEffect DEF LogStateTransition
    <2>2. /\ q \in Sessions /\ t \in Seq(Move) /\ e \in Move
          /\ timeline'[q] = Append(t, e)
          /\ \A s \in Sessions \ {q} : timeline'[s] = timeline[s]
      BY <1>7 DEF LogStateTransition, TypeOK, Move
    <2>3. /\ DOMAIN timeline'[q] = 1..(Len(t) + 1) /\ DOMAIN t = 1..Len(t)
          /\ Len(t) \in Nat
          /\ timeline'[q][Len(t) + 1] = e
          /\ \A i \in 1..Len(t) : timeline'[q][i] = t[i]
      BY <2>2, AppendProperties
    <2>4. /\ Committed(q, e) /\ Rank[e[1]] < Rank[status[q]]
          /\ \A i \in DOMAIN t : t[i][1] # e[1]
      BY <2>1 DEF TimelineInv, EntryPending, WinnersPast, Won
    <2> HIDE DEF q, t, e
    <2>5. ASSUME NEW s \in Sessions
          PROVE  /\ \A i \in DOMAIN timeline'[s] :
                       /\ Committed(s, timeline'[s][i])
                       /\ Rank[timeline'[s][i][1]] < Rank[status[s]]
                 /\ \A i, j \in DOMAIN timeline'[s] :
                       i # j => timeline'[s][i][1] # timeline'[s][j][1]
      <3>1. CASE s # q
        BY <2>2, <3>1 DEF TimelineInv, TimelinePast
      <3>2. CASE s = q
        <4>1. \A i \in 1..Len(t) : /\ Committed(q, t[i])
                                   /\ Rank[t[i][1]] < Rank[status[q]]
          BY <2>2, <2>3 DEF TimelineInv, TimelinePast, t
        <4>2. \A i, j \in 1..Len(t) : i # j => t[i][1] # t[j][1]
          BY <2>2, <2>3 DEF TimelineInv, TimelinePast, t
        <4>3. ASSUME NEW i \in 1..(Len(t) + 1)
              PROVE  i \in 1..Len(t) \/ i = Len(t) + 1
          BY <2>3
        <4> QED BY <2>3, <2>4, <3>2, <4>1, <4>2, <4>3
      <3> QED BY <3>1, <3>2
    <2>6. TimelinePast'
      BY <2>1, <2>5 DEF TimelinePast, Committed
    <2>7. ASSUME NEW v \in Workers, pc'[v] = "log"
          PROVE  /\ Committed(sess[v], <<seen[v], target[v]>>)'
                 /\ \A i \in DOMAIN timeline'[sess'[v]] :
                       timeline'[sess'[v]][i][1] # seen'[v]
      <3>1. /\ v # w /\ pc[v] = "log" /\ sess'[v] = sess[v]
            /\ seen'[v] = seen[v] /\ target'[v] = target[v]
            /\ sess[v] \in Sessions
        BY <2>1, <2>7 DEF OthersSame, TypeOK
      <3>2. sess[v] = q => seen[v] # e[1]
        BY <2>1, <3>1 DEF OneWinner, Won, q, e
      <3>3. /\ Committed(sess[v], <<seen[v], target[v]>>)
            /\ \A i \in DOMAIN timeline[sess[v]] :
                  timeline[sess[v]][i][1] # seen[v]
        BY <3>1 DEF TimelineInv, EntryPending
      <3>4. ASSUME NEW i \in DOMAIN timeline'[sess[v]]
            PROVE  timeline'[sess[v]][i][1] # seen[v]
        <4>1. CASE sess[v] # q
          BY <2>2, <3>1, <3>3, <3>4, <4>1
        <4>2. CASE sess[v] = q
          <5>1. i \in 1..Len(t) \/ i = Len(t) + 1
            BY <2>3, <3>4, <4>2
          <5> QED BY <2>3, <3>2, <3>3, <4>2, <5>1 DEF t
        <4> QED BY <4>1, <4>2
      <3> QED BY <2>1, <3>1, <3>3, <3>4 DEF Committed
    <2> QED BY <2>6, <2>7 DEF TimelineInv, EntryPending
  <1>8. CASE \/ \E s \in Sessions : CreateSession(s) \/ CreateHighRiskFix(s)
             \/ UNCHANGED vars
    <2>1. UNCHANGED <<pc, sess, seen, target, timeline>>
      BY <1>8 DEF CreateSession, CreateHighRiskFix, vars, request
    <2>2. ASSUME NEW v \in Workers, pc'[v] = "log"
          PROVE  Committed(sess[v], <<seen[v], target[v]>>)'
      <3>1. sess[v] \in Sessions /\ Committed(sess[v], <<seen[v], target[v]>>)
        BY <2>1, <2>2 DEF TimelineInv, EntryPending, TypeOK
      <3>2. \E j \in DOMAIN history'[sess[v]] :
               history'[sess[v]][j] = <<seen[v], target[v]>>
        BY <3>1, CommittedStays DEF Committed
      <3> QED BY <2>1, <3>2 DEF Committed
    <2> QED BY <1>d, <2>1, <2>2 DEF TimelineInv, EntryPending
  <1> QED
    BY <1>2, <1>3, <1>4, <1>5, <1>6, <1>7, <1>8 DEF Next, Step

\* The timeline reports only moves that were committed, and none twice, for
\* any interleaving of commits, late timeline writes, retries and crashes.
THEOREM EngineTimelineSound == Spec => []TimelineSound
  <1>1. Init => TimelineInv
    BY DEF Init, TimelineInv, TimelinePast, EntryPending
  <1>2. TimelineInv => TimelineSound
    BY DEF TimelineInv, TimelinePast, TimelineSound, Committed
  <1> QED BY <1>1, <1>2, TimelineStep, Invariant, PTL DEF Spec
=============================================================================
