--------------------------- MODULE AgentConsumer ---------------------------
(***************************************************************************)
(* An agent process reading its input topic: the forwarding goroutine of   *)
(* ConsumerChannel.Subscribe around kafkaConsumer.Consume                  *)
(* (internal/bus), the buffered channel, and the consume-handle-produce    *)
(* loop of Runner (internal/agent/runner.go).  The topic has one partition *)
(* and the agent is the only member of its group.  An offset is committed  *)
(* when its message has entered the channel, which is before the runner    *)
(* has seen it.  SIGTERM, crashes, restarts, failed commits, failed        *)
(* publications and rebalances happen at any time.                         *)
(***************************************************************************)
EXTENDS Integers, Sequences, FiniteSets

CONSTANTS
    N,             \* messages that the topic ever holds; offsets are 1..N
    Cap,           \* capacity of the subscription channel (100 in the code)
    MaxTries,      \* attempts of publishWithRetry (3 in the code)
    MaxStops,      \* bound: how often the process ends
    MaxRebalances  \* bound: how often the group is rebalanced

ASSUME ConsumerAssumption ==
    /\ N \in Nat /\ MaxStops \in Nat /\ MaxRebalances \in Nat
    /\ Cap \in Nat \ {0} /\ MaxTries \in Nat \ {0}

Offsets == 1..N

VARIABLES
    end,         \* last offset of the topic
    committed,   \* last offset committed for the group, 0 for none
    next,        \* offset that FetchMessage returns next
    fpc,         \* position of the forwarding goroutine
    held,        \* message the forwarding goroutine works on
    chan,        \* the subscription channel
    rpc,         \* position of Runner.Run
    cur,         \* message that processMessage works on
    tries,       \* attempts of publishWithRetry made for it
    cancelled,   \* the context was cancelled by SIGTERM
    stops,       \* number of times the process ended
    rebalances,  \* number of rebalances
    done,        \* history: messages that processMessage has finished
    dropped      \* history: committed messages lost with a process's memory

reader    == <<next, fpc, held, chan>>
runner    == <<rpc, cur, tries>>
lifetime  == <<cancelled, stops, rebalances>>
record    == <<done, dropped>>
vars      == <<end, committed, reader, runner, lifetime, record>>

InChan == {chan[i] : i \in 1..Len(chan)}

\* Messages that this process has fetched and not finished.
Memory ==
    InChan \cup (IF fpc \in {"send", "commit"} THEN {held} ELSE {})
           \cup (IF rpc \in {"handle", "publish"} THEN {cur} ELSE {})

-----------------------------------------------------------------------------
\* A fresh group on an empty topic: NewConsumer starts from FirstOffset.
Init ==
    /\ end = 0 /\ committed = 0
    /\ next = 1 /\ fpc = "fetch" /\ held = 0 /\ chan = <<>>
    /\ rpc = "poll" /\ cur = 0 /\ tries = 0
    /\ cancelled = FALSE /\ stops = 0 /\ rebalances = 0
    /\ done = {} /\ dropped = {}

\* Another process publishes to the topic.
Publish ==
    /\ end < N
    /\ end' = end + 1
    /\ UNCHANGED <<committed, reader, runner, lifetime, record>>

-----------------------------------------------------------------------------
(* The forwarding goroutine. *)

Forwarding(p) == fpc = p /\ UNCHANGED <<end, runner, lifetime, record>>

\* Mutant: the offset is committed when the message is fetched (ReadMessage in
\* place of FetchMessage).
BugFetchMessage ==
    /\ Forwarding("fetch")
    /\ next <= end
    /\ held' = next /\ next' = next + 1 /\ fpc' = "send" /\ committed' = next
    /\ UNCHANGED chan

\* FetchMessage; a transient error is retried after a backoff and changes
\* nothing.
FetchMessage ==
    /\ Forwarding("fetch")
    /\ next <= end
    /\ held' = next /\ next' = next + 1 /\ fpc' = "send"
    /\ UNCHANGED <<committed, chan>>

\* Mutant: a full channel drops the message (select with a default case).
BugForward ==
    /\ Forwarding("send")
    /\ chan' = IF Len(chan) < Cap THEN Append(chan, held) ELSE chan
    /\ fpc' = "commit"
    /\ UNCHANGED <<committed, next, held>>

\* The handler's send on the channel, which blocks while the channel is full.
Forward ==
    /\ Forwarding("send")
    /\ Len(chan) < Cap
    /\ chan' = Append(chan, held)
    /\ fpc' = "commit"
    /\ UNCHANGED <<committed, next, held>>

\* The handler returned nil: the offset is committed, or the commit fails, and
\* after a backoff the same reader goes on with the next message.
CommitMessages ==
    /\ Forwarding("commit")
    /\ committed' \in {held, committed}
    /\ fpc' = "fetch"
    /\ UNCHANGED <<next, held, chan>>

\* The context is done: Consume returns without a commit, and the goroutine
\* closes and removes the channel.
StopForwarding ==
    /\ cancelled /\ fpc # "exited"
    /\ fpc' = "exited"
    /\ UNCHANGED <<end, committed, next, held, chan, runner, lifetime, record>>

-----------------------------------------------------------------------------
(* The runner. *)

Running(p) ==
    rpc = p /\ UNCHANGED <<end, committed, next, fpc, held, lifetime, dropped>>

\* Top of the loop: Messages() returns the channel.
Messages ==
    /\ Running("poll")
    /\ fpc # "exited"
    /\ rpc' = "wait"
    /\ UNCHANGED <<chan, cur, tries, done>>

\* A message is received, from a closed channel too while it is not empty.
Receive ==
    /\ Running("wait")
    /\ chan # <<>>
    /\ cur' = Head(chan) /\ chan' = Tail(chan)
    /\ rpc' = "handle" /\ tries' = 0
    /\ UNCHANGED done

\* The end of processMessage.  MarkAsProcessed does nothing.
Finish == rpc' = "poll" /\ done' = done \cup {cur} /\ UNCHANGED <<chan, cur>>

\* processMessage up to Handle: a message that is not for this agent or cannot
\* be parsed, an error of Handle and an empty result end here; otherwise there
\* is an observation to publish.
Handle ==
    /\ Running("handle")
    /\ UNCHANGED tries
    /\ \/ Finish
       \/ rpc' = "publish" /\ UNCHANGED <<chan, cur, done>>

\* Mutant: the attempts are counted afresh after the last one.
BugRetryForever ==
    /\ Running("publish")
    /\ \/ Finish /\ UNCHANGED tries
       \/ /\ tries' = (tries + 1) % MaxTries
          /\ UNCHANGED <<rpc, chan, cur, done>>

\* publishWithRetry: an attempt succeeds or is reported as failed.  The last
\* failure is only logged, and a cancelled context may end the backoff.  The
\* outputs of one message are published as one.
PublishWithRetry ==
    /\ Running("publish")
    /\ \/ Finish /\ UNCHANGED tries
       \/ /\ tries' = tries + 1
          /\ \/ (tries' = MaxTries \/ cancelled) /\ Finish
             \/ tries' < MaxTries /\ UNCHANGED <<rpc, chan, cur, done>>

\* Run returns: the context is done, the channel is closed and empty, or
\* Messages() finds no subscription.
StopRunning ==
    /\ \/ rpc \in {"poll", "wait"} /\ cancelled
       \/ rpc = "poll" /\ fpc = "exited"
       \/ rpc = "wait" /\ fpc = "exited" /\ chan = <<>>
    /\ rpc' = "stopped"
    /\ UNCHANGED <<end, committed, reader, cur, tries, lifetime, record>>

-----------------------------------------------------------------------------
(* The process and the group. *)

Terminate ==
    /\ ~cancelled /\ rpc # "down" /\ stops < MaxStops
    /\ cancelled' = TRUE
    /\ UNCHANGED <<end, committed, reader, runner, stops, rebalances, record>>

\* The process ends and its memory with it.
ProcessEnds ==
    /\ stops' = stops + 1
    /\ dropped' = dropped \cup {o \in Memory \ done : o <= committed}
    /\ rpc' = "down" /\ fpc' = "exited" /\ chan' = <<>>
    /\ UNCHANGED <<end, committed, next, held, cur, tries, cancelled,
                   rebalances, done>>

\* Run has returned; main closes the consumer and exits.
Exit == rpc = "stopped" /\ ProcessEnds

\* The process is killed.
Crash == rpc # "down" /\ stops < MaxStops /\ ProcessEnds

\* The process is started again and reads on from the committed offset.
Restart ==
    /\ rpc = "down"
    /\ next' = committed + 1 /\ fpc' = "fetch" /\ held' = 0
    /\ rpc' = "poll" /\ cur' = 0 /\ tries' = 0
    /\ cancelled' = FALSE
    /\ UNCHANGED <<end, committed, chan, stops, rebalances, record>>

\* The group is rebalanced, and the reader fetches from the committed offset.
Rebalance ==
    /\ fpc # "exited" /\ rebalances < MaxRebalances
    /\ rebalances' = rebalances + 1
    /\ next' = committed + 1
    /\ UNCHANGED <<end, committed, fpc, held, chan, runner, cancelled, stops,
                   record>>

ForwarderStep == FetchMessage \/ Forward \/ CommitMessages \/ StopForwarding

RunnerStep == Messages \/ Receive \/ Handle \/ PublishWithRetry \/ StopRunning

Next ==
    \/ Publish \/ ForwarderStep \/ RunnerStep
    \/ Terminate \/ Exit \/ Crash \/ Restart \/ Rebalance

Spec == Init /\ [][Next]_vars

\* Both goroutines are scheduled, a returned Run ends the process, and a
\* process that ended is started again ("redelivered on next start").
FairSpec ==
    /\ Spec
    /\ WF_vars(ForwarderStep) /\ WF_vars(RunnerStep)
    /\ WF_vars(Exit) /\ WF_vars(Restart)

-----------------------------------------------------------------------------
TypeOK ==
    /\ end \in 0..N /\ committed \in 0..N /\ next \in 1..(N + 1)
    /\ fpc \in {"fetch", "send", "commit", "exited"} /\ held \in 0..N
    /\ chan \in Seq(Offsets) /\ Len(chan) <= Cap
    /\ rpc \in {"poll", "wait", "handle", "publish", "stopped", "down"}
    /\ cur \in 0..N /\ tries \in 0..MaxTries
    /\ cancelled \in BOOLEAN /\ stops \in Nat /\ rebalances \in Nat
    /\ done \subseteq Offsets /\ dropped \subseteq Offsets

\* The only way to lose a message is to stop the process: every committed
\* offset was processed, is still in memory, or was in memory when a process
\* ended.  No full channel, failed commit, rebalance or redelivery skips one
\* ("no message is silently dropped", consumer_channel.go:51).
CommittedIsAccounted ==
    \A o \in 1..committed : o \in done \cup Memory \cup dropped

\* A stop loses no more than the channel's capacity and the message that the
\* runner is working on.
LossBound == Cardinality(dropped) <= stops * (Cap + 1)

\* Every message of the topic is processed at last or was lost with a
\* process: the blocking send, the retries of publishWithRetry and restarts
\* do not keep a message from the runner for ever.
Delivered ==
    \A o \in Offsets : o <= end ~> o \in done \cup dropped
=============================================================================
