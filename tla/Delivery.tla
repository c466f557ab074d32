------------------------------ MODULE Delivery ------------------------------
(***************************************************************************)
(* How observations reach handleObservation (internal/server/event_loop.go)*)
(* and how their offsets are committed: skipBacklogFast before the readers *)
(* are created, the reader goroutines, the fan-in channel, and the loop of *)
(* Run that handles one message after the other and commits it unless the  *)
(* handler fails.  The module follows one of the five topics; the others   *)
(* share the channel and the loop and have offsets of their own.  The      *)
(* orchestrator is stopped, killed and started again; a previous instance  *)
(* may still be a member of the consumer group.                            *)
(***************************************************************************)
EXTENDS Integers, Sequences

CONSTANTS
    Partitions,    \* partitions of the topic
    N,             \* messages a partition ever holds; offsets are 0..N-1
    Cap,           \* capacity of the fan-in channel (1024 in the code)
    Threshold,     \* lag from which the backlog is skipped (10,000)
    MaxStops,      \* bound: how often the orchestrator ends
    MaxRebalances  \* bound: how often the group is rebalanced

ASSUME DeliveryAssumption ==
    /\ N \in Nat /\ Threshold \in Nat /\ Cap \in Nat \ {0}
    /\ MaxStops \in Nat /\ MaxRebalances \in Nat

Message == Partitions \X (0..(N - 1))

VARIABLES
    end,         \* next offset to be written in each partition
    committed,   \* committed offset of each partition, -1 for none
    member,      \* a previous instance in the group: "none", "alive", "dead"
    lpc,         \* position of Run
    base,        \* committed offsets that skipBacklogFast has read
    last,        \* end offsets that skipBacklogFast has read
    next,        \* offset each reader fetches next
    msgCh,       \* the fan-in channel
    cur,         \* message the loop works on
    stops,       \* number of times the orchestrator ended
    rebalances,  \* number of rebalances
    handled,     \* history: messages handled without error, or discarded
    failed,      \* history: messages whose handler returned an error
    skipped      \* history: messages passed over with the backlog

group   == <<committed, member>>
skipper == <<base, last>>
intake  == <<next, msgCh>>
bounds  == <<stops, rebalances>>
record  == <<handled, failed, skipped>>
vars    == <<end, group, lpc, skipper, intake, cur, bounds, record>>

NoMessage == <<"none", -1>>

Zero == [p \in Partitions |-> 0]

\* Where a reader of the group begins: the committed offset or FirstOffset.
Resume(c) == IF c = -1 THEN 0 ELSE c

\* The readers exist.
Reading == lpc \in {"run", "handle", "commit"}

-----------------------------------------------------------------------------
\* The orchestrator starts beside the instance it replaces, or alone.
Init ==
    /\ end = Zero
    /\ committed = [p \in Partitions |-> -1]
    /\ member \in {"none", "alive"}
    /\ lpc = "measure"
    /\ base = Zero /\ last = Zero /\ next = Zero
    /\ msgCh = <<>> /\ cur = NoMessage
    /\ stops = 0 /\ rebalances = 0
    /\ handled = {} /\ failed = {} /\ skipped = {}

\* An agent publishes an observation.
Publish(p) ==
    /\ end[p] < N
    /\ end' = [end EXCEPT ![p] = @ + 1]
    /\ UNCHANGED <<group, lpc, skipper, intake, cur, bounds, record>>

-----------------------------------------------------------------------------
(* skipBacklogFast. *)

\* skipBacklogFast has returned: readers are created and resume where the
\* group is.
StartReaders(offsets) ==
    /\ lpc' = "run"
    /\ base' = Zero /\ last' = Zero
    /\ next' = [p \in Partitions |-> Resume(offsets[p])]

Skipping == UNCHANGED <<end, member, msgCh, cur, bounds, handled, failed>>

\* The committed offsets are fetched.
FetchCommitted ==
    /\ lpc = "measure"
    /\ base' = committed /\ lpc' = "list"
    /\ Skipping /\ UNCHANGED <<committed, last, next, skipped>>

\* A request fails: Run logs it and goes on.
SkipBacklogFails ==
    /\ lpc \in {"measure", "list"}
    /\ StartReaders(committed)
    /\ Skipping /\ UNCHANGED <<committed, skipped>>

\* Mutant: a fresh group is moved to the tail as well.
BugBacklogged(from, to) ==
    \E p \in Partitions : to[p] - Resume(from[p]) > Threshold

\* The backlog of some partition is larger than the threshold, and the group
\* is not a fresh one.
Backlogged(from, to) ==
    /\ \E p \in Partitions : to[p] - Resume(from[p]) > Threshold
    /\ \A p \in Partitions : from[p] # -1

\* The end offsets are listed and the decision is made.
ListOffsets ==
    /\ lpc = "list"
    /\ IF Backlogged(base, end)
       THEN lpc' = "skip" /\ last' = end /\ UNCHANGED <<base, next>>
       ELSE StartReaders(committed)
    /\ Skipping /\ UNCHANGED <<committed, skipped>>

\* OffsetCommit for the partitions in ps.
MoveToTail(ps) ==
    /\ committed' =
         [p \in Partitions |-> IF p \in ps THEN last[p] ELSE committed[p]]
    /\ skipped' = skipped \cup
         {m \in Message : /\ m[1] \in ps
                          /\ Resume(committed[m[1]]) <= m[2]
                          /\ m[2] < last[m[1]]}

\* A commit that the broker accepts for some partitions, or whose reply is
\* lost: it is tried again.
CommitTailPartly ==
    /\ lpc = "skip" /\ member = "none"
    /\ \E ps \in SUBSET Partitions : MoveToTail(ps)
    /\ Skipping /\ UNCHANGED <<lpc, skipper, next>>

\* The commit is accepted: only while the group has no member.
CommitTail ==
    /\ lpc = "skip" /\ member = "none"
    /\ MoveToTail(Partitions)
    /\ StartReaders(last)
    /\ Skipping

\* skipBacklogTimeout elapses.
SkipTimeout ==
    /\ lpc = "skip"
    /\ StartReaders(committed)
    /\ Skipping /\ UNCHANGED <<committed, skipped>>

-----------------------------------------------------------------------------
(* Run. *)

\* Mutant: a message that finds the channel full is dropped.
BugForwardDrops(p) ==
    /\ Reading /\ member = "none"
    /\ next[p] < end[p]
    /\ msgCh' = IF Len(msgCh) < Cap THEN Append(msgCh, <<p, next[p]>>) ELSE msgCh
    /\ next' = [next EXCEPT ![p] = @ + 1]
    /\ UNCHANGED <<end, group, lpc, skipper, cur, bounds, record>>

\* The reader of p forwards a message; it blocks while the channel is full.
\* The group gives it p when no previous member holds it any more.
Forward(p) ==
    /\ Reading /\ member = "none"
    /\ next[p] < end[p] /\ Len(msgCh) < Cap
    /\ msgCh' = Append(msgCh, <<p, next[p]>>)
    /\ next' = [next EXCEPT ![p] = @ + 1]
    /\ UNCHANGED <<end, group, lpc, skipper, cur, bounds, record>>

Looping(p) ==
    lpc = p /\ UNCHANGED <<end, member, skipper, next, bounds, skipped>>

\* Mutant: the offset is committed when the message is received.
BugReceive ==
    /\ Looping("run")
    /\ msgCh # <<>>
    /\ cur' = Head(msgCh) /\ msgCh' = Tail(msgCh) /\ lpc' = "handle"
    /\ committed' = [committed EXCEPT ![Head(msgCh)[1]] = Head(msgCh)[2] + 1]
    /\ UNCHANGED <<handled, failed>>

Receive ==
    /\ Looping("run")
    /\ msgCh # <<>>
    /\ cur' = Head(msgCh) /\ msgCh' = Tail(msgCh) /\ lpc' = "handle"
    /\ UNCHANGED <<committed, handled, failed>>

\* handleObservation returns nil, or the message has no valid session id.
HandleObservation ==
    /\ Looping("handle")
    /\ handled' = handled \cup {cur} /\ lpc' = "commit"
    /\ UNCHANGED <<committed, msgCh, cur, failed>>

\* handleObservation returns an error: the message is not committed.
HandlerFails ==
    /\ Looping("handle")
    /\ failed' = failed \cup {cur} /\ lpc' = "run" /\ cur' = NoMessage
    /\ UNCHANGED <<committed, msgCh, handled>>

\* commitOffset commits the partition up to the message; an error is logged.
CommitOffset ==
    /\ Looping("commit")
    /\ committed' \in {committed, [committed EXCEPT ![cur[1]] = cur[2] + 1]}
    /\ lpc' = "run" /\ cur' = NoMessage
    /\ UNCHANGED <<msgCh, handled, failed>>

-----------------------------------------------------------------------------
(* Instances and the group. *)

\* The previous instance handles and commits the next message.
PreviousRuns(p) ==
    /\ member = "alive"
    /\ Resume(committed[p]) < end[p]
    /\ handled' = handled \cup {<<p, Resume(committed[p])>>}
    /\ committed' = [committed EXCEPT ![p] = Resume(@) + 1]
    /\ UNCHANGED <<end, member, lpc, skipper, intake, cur, bounds, failed,
                   skipped>>

\* The previous instance leaves, or its session with the group times out; the
\* partitions are assigned anew, and the readers resume where the group is.
PreviousLeaves ==
    /\ member # "none" /\ member' = "none"
    /\ next' = IF Reading THEN [p \in Partitions |-> Resume(committed[p])]
                          ELSE next
    /\ UNCHANGED <<end, committed, lpc, skipper, msgCh, cur, bounds, record>>

\* The group is rebalanced and readers fetch again from the committed offsets.
Rebalance ==
    /\ Reading /\ rebalances < MaxRebalances
    /\ rebalances' = rebalances + 1
    /\ next' = [p \in Partitions |-> Resume(committed[p])]
    /\ UNCHANGED <<end, group, lpc, skipper, msgCh, cur, stops, record>>

\* The process ends: after SIGTERM it leaves the group, when it is killed it
\* stays a member until its session times out.
Stop ==
    /\ lpc # "down" /\ stops < MaxStops
    /\ stops' = stops + 1
    /\ lpc' = "down" /\ msgCh' = <<>> /\ cur' = NoMessage
    /\ base' = Zero /\ last' = Zero /\ next' = Zero
    /\ member' \in IF Reading THEN {member, "dead"} ELSE {member}
    /\ UNCHANGED <<end, committed, rebalances, record>>

Restart ==
    /\ lpc = "down"
    /\ lpc' = "measure"
    /\ UNCHANGED <<end, group, skipper, intake, cur, bounds, record>>

SkipStep ==
    \/ FetchCommitted \/ SkipBacklogFails \/ ListOffsets
    \/ CommitTailPartly \/ CommitTail \/ SkipTimeout

LoopStep == Receive \/ HandleObservation \/ HandlerFails \/ CommitOffset

Next ==
    \/ \E p \in Partitions : Publish(p) \/ Forward(p) \/ PreviousRuns(p)
    \/ SkipStep \/ LoopStep
    \/ PreviousLeaves \/ Rebalance \/ Stop \/ Restart

Spec == Init /\ [][Next]_vars

\* Goroutines are scheduled, requests return, the previous instance leaves the
\* group or is timed out, the retry loop ends with its timeout at the latest,
\* and a process that ended is started again ("redelivered on next start").
FairSpec ==
    /\ Spec
    /\ WF_vars(FetchCommitted \/ ListOffsets) /\ WF_vars(SkipTimeout)
    /\ \A p \in Partitions : WF_vars(Forward(p))
    /\ WF_vars(LoopStep) /\ WF_vars(PreviousLeaves) /\ WF_vars(Restart)

-----------------------------------------------------------------------------
Offset == -1..N

TypeOK ==
    /\ end \in [Partitions -> 0..N]
    /\ committed \in [Partitions -> Offset]
    /\ member \in {"none", "alive", "dead"}
    /\ lpc \in {"measure", "list", "skip", "run", "handle", "commit", "down"}
    /\ base \in [Partitions -> Offset] /\ last \in [Partitions -> 0..N]
    /\ next \in [Partitions -> 0..N]
    /\ msgCh \in Seq(Message) /\ Len(msgCh) <= Cap
    /\ lpc \in {"handle", "commit"} => cur \in Message
    /\ stops \in Nat /\ rebalances \in Nat
    /\ handled \subseteq Message /\ failed \subseteq Message
    /\ skipped \subseteq Message

Settled == handled \cup failed \cup skipped

\* A committed offset covers only messages that were handled, whose handler
\* failed, or that were skipped with the backlog: what waits in a reader or in
\* the fan-in channel when the orchestrator dies is delivered again, although
\* commits are cumulative and messages may be in the channel twice after a
\* rebalance.
CommitCoversSettled ==
    \A p \in Partitions : \A o \in 0..(Resume(committed[p]) - 1) :
        <<p, o>> \in Settled

\* A group that has no committed offset for a partition is left to backfill
\* from the first offset: nothing of that partition is skipped
\* (event_loop.go:177-180), although the decision is taken from offsets read
\* earlier.
FreshGroupBackfills ==
    [][skipped' # skipped => \A p \in Partitions : committed[p] # -1]_vars

\* Every observation is settled at last: a full channel, a lingering member of
\* the group, retries of the backlog commit and restarts do not hold it up
\* for ever.
Settles ==
    \A p \in Partitions : \A o \in 0..(N - 1) :
        o < end[p] ~> <<p, o>> \in Settled
=============================================================================
