# TLA+ models of the microservice diagnosis hub

The hub diagnoses faults of microservices. An orchestrator process drives
*diagnostic sessions*: it asks agents for evidence, has the root cause
analysed, has a fix planned, waits for an approval where a step is risky,
executes the fix and verifies it. State is kept in PostgreSQL; orchestrator
and agents talk over Kafka. This directory models that control flow, checks it
with TLC and proves the central results with TLAPS.

## 1. Inventory

| Component | State | Operations | Talks to |
|---|---|---|---|
| Session state machine (`internal/workflow/engine.go`, table) | `diagnostic_sessions.status` | the events of `ValidTransitions` | everyone |
| Workflow engine (`Engine.Transition`) | row locks, open transactions, `session_events` | lock, look up, count HIGH risk, update, commit, log; three attempts | PostgreSQL; called by handlers, event loop, sweeps of every instance |
| Sweeps (`Sweep`, `SweepFixProposed`, `SweepVerifying`) | `updated_at`, `fix_actions` | every 30 s: select, then transition | engine |
| Event loop (`internal/server/event_loop.go`) | offsets of five topics, one fan-in channel | receive, handle by status and type, commit | Kafka, engine, gate, execution |
| HTTP handlers (`internal/server/orchestrator.go`) | – | create, start, retry, ignore, decide; list, detail, reports, agents | engine, DAOs, collectors' topics |
| Approval gate and fix execution (same file) | `fix_actions`, `approvals` | request approvals; run, record, open incidents | executor, notifier |
| Agents (`internal/agent`) | consumer offsets, `fix_actions` | detect, analyse, plan and persist fixes, publish | Kafka, LLM, PostgreSQL |
| Bus (`internal/bus`) | consumer channels, offsets | subscribe, consume, commit, replay | Kafka |
| Backlog skipping (`skipBacklogFast`) | group offsets | measure lag, seek | Kafka |
| Approval tokens (`internal/approval`) | token map with expiry | issue, resolve (get and cancel have no caller) | gate |
| Webhook notifier (`internal/notify`) | deliveries in progress, `webhook_deliveries` | notify every channel, retry, log | gate, external endpoints |
| LLM client (`internal/llm`) | time stamp of the last slot, mutex | chat with rate limit, retry, cancellation | agents, model service |
| Service discovery and bootstrap (`internal/discovery`, `internal/bootstrap`) | Consul entry with TTL, goroutines of the process | start, register, refresh, shut down, deregister | Consul |
| Reports (`internal/report`) | – | load, render Markdown or PDF | DAOs |
| Executor, observation model | – | execute a step, validate | Kubernetes |
| Configuration, logging, generated API | – | I/O and formatting | – |

What is hard in this system: transitions of one session are requested
concurrently by handlers, event loop and sweeps; the reply to a commit can be
lost; the process can die between any two database calls; observations of
different topics overtake each other and are delivered again after a restart;
most errors of database writes are ignored; and the sweeps act on rows they
read a moment ago. `PROJECT.json` lists these hazards at their lines, each with
the properties aimed at it.

What makes each component correct:

* **State machine**: a session only moves forward; terminal statuses are final.
* **Engine**: concurrent calls behave as if each were atomic; no lock leaks;
  every call returns; the timeline tells the truth.
* **Orchestrator**: a HIGH-risk action runs only if it was approved; no action
  runs twice or before the session is in `FIX_EXECUTING`; a session is not
  resolved over a failed action, unless the failure could not be written down;
  sessions do not get stuck in the statuses the sweeps watch.
* **Event loop intake and backlog skipping**: committed offsets cover nothing
  that was not settled; a fresh group is backfilled; every observation is
  settled at last.
* **Agent consumers**: no message is lost but by a stop, and then no more than
  the channel and the one in work; every message is processed or lost so.
* **Agents**: the root-cause agent always answers, and its rules are monotone in
  the evidence; no step is planned with a lower risk than `PLAN.md` gives its
  kind, with one exception (`scale_down`).
* **Gate, notifications**: who is notified finds the request; duplicates have a
  cause; working channels that were listed are reached whatever the others do.
* **LLM client**: the slots given to all callers together are an interval apart,
  and so on average are the requests; callers that wake late may send together.
  Every call returns.
* **API**: paging shows every session to a client whose parameters arrive, and a
  document is not behind what was true when it was asked for.
* **Discovery**: a live process is listed, a dead one is not for longer than
  Consul takes.

## 2. Modules

| Module | Models |
|---|---|
| `SessionTable` | statuses, events, the transition table, the one edge that depends on the risk count |
| `Lifecycle` | abstract specification: one atomic status per session |
| `Engine` | `Engine.Transition`, step by step, for concurrent workers; `LC == INSTANCE Lifecycle` is what it implements |
| `Orchestrator` | one session end to end: handlers, agents, event loop, gate, execution, sweeps; also implements `Lifecycle` |
| `AgentConsumer` | an agent's reader, `ConsumerChannel` and `Runner` with offsets, stops and rebalances |
| `Delivery` | the event loop's intake: `skipBacklogFast`, readers, fan-in channel, commits |
| `Evidence` | pure operators: validation, the detectors of the log, metric and trace agents, the heuristic and the clamping of the RCA agent, step decoding and risk rules of the fix agent |
| `Diagnosis` | the agents as handlers around `Evidence`: what is reported, concluded and planned for one session, with repeated deliveries and failing inserts |
| `LLM` | the rate limiter and retries of `llm.Client` for concurrent callers |
| `Outbound` | approval gate with the requests of the NOOP and the webhook client, and the webhook notifier |
| `Api` | the reading handlers over `Lifecycle`: list, detail, timeline, reports |
| `Registry` | a process from `config.Load` to exit and its entry in Consul |
| `MC...` | instances for TLC: `MCEngine`, `MCOrchestrator`, `MCAgentConsumer`, `MCDelivery`, `MCDiagnosis`, `MCLLM`, `MCOutbound`, `MCApi`, `MCRegistry` |
| `EngineProofs`, `OrchestratorProofs`, `AgentConsumerProofs`, `DeliveryProofs`, `DiagnosisProofs`, `LLMProofs`, `OutboundProofs`, `ServerProofs` (about `Api`, `Registry` and `Lifecycle`) | theorems and their proofs |

`Engine` and `Orchestrator` each implement `Lifecycle`; `Api` extends it, so
the sessions it reads move as the other two were shown to move them.
`Diagnosis` composes the operators of `Evidence`.

Operators named `Bug...` are deliberate mutations of the definition that
follows them. They are used nowhere; they exist so that each property can be
seen to fail when the code is changed that way.

### Engine

`pc[w]` is the position of worker `w` in `tryTransition`: `select` (begin and
`SELECT ... FOR UPDATE SKIP LOCKED`), `lookup`, `risk` (the `COUNT` of
`determineFixProposedNextStatus`), `update` (`UPDATE` and `COMMIT`), `log`
(`LogStateTransition`). `lock` is PostgreSQL's row lock. `SelectNoRows` covers
both a missing row and a locked one, which `SKIP LOCKED` cannot tell apart.
`CommitReplyLost` is a commit that took effect and was reported as an error;
`TransientError` is any failure without effect; `Crash` kills the worker and
rolls its transaction back. `CreateSession` and `CreateHighRiskFix` are the
writers that do not use `Transition`. `history` and `origin` are history
variables.

### Orchestrator

Sessions share no row, so the module follows one session. `Transition(e, r)`
is one step with the replies that `Engine` shows a caller can get, including
the committed move that is reported as an error. An error without effect is
possible at every call and is no fault: a row that another worker holds is
passed over by `SKIP LOCKED` and reported as `ErrSessionNotFound`, without a
retry (engine.go:179-188). Every other database call, publication and executor
call is a step of its own.

* `lpc` is the position of the event-loop goroutine: `handleObservation`, and
  inside it `TriggerApprovalGate` (`gate`, `request`, `mark`) and
  `ExecuteFixActions` (`read`, `running`, `run`, `record`, `incident`).
  `lstat` is the status read at the beginning; it may be stale later.
* `spc` is the position of the sweep goroutine, which selects first and
  sends its event later.
* `opc[o]` is the position of operator `o`'s `DecisionApproval` request.
* `obs`, `cmds`, `rcaIn` are unread messages. They are sets (a count for
  `rcaIn`): topics are not ordered with respect to each other, and a repeated
  delivery that the event loop has not read yet is not told from the first.
  `unacked` are observations whose offset was not committed; after a crash the
  one in work is delivered again and any of the others may be.
* Data is reduced to what properties tell apart: a fix action is its sequence
  number, its risk is HIGH or not, the executor succeeds or fails.
* `ran`, `failed`, `unrecorded` and `approved` are history: what the executor was
  called with, what it reported as failed, whose result could not be written,
  and what an operator approved.
* `StartSession` is followed by `LoadTarget` and `DispatchCollect`, and
  `IncrementRetry` by `RetrySession`: a handler that fails or dies between its
  calls has done the first.

Not in this module: a second orchestrator instance (`Engine` has concurrent
workers), crashes of agents between two insertions (a failed insertion and a
lost publication stand for them), and the tokens of the approval client
(`Outbound`). That messages are lost and delivered again is an assumption here;
the next two modules look at the offsets behind it.

### AgentConsumer

`fpc` is the position of the forwarding goroutine: `fetch` (`FetchMessage`),
`send` (the handler's blocking send), `commit` (`CommitMessages`), `exited`.
`rpc` is the position of `Runner.Run`: `poll` (`Messages()`), `wait` (the
select), `handle` and `publish` (`processMessage` up to and after `Handle`),
`stopped` (Run has returned), `down`. Offsets are 1..N of one partition;
`committed` is the last one committed. `Terminate` is SIGTERM, `Crash` a kill,
`Rebalance` moves the reader back to the committed offset. `done` and `dropped`
are history: what `processMessage` has finished with any outcome, and what was
committed and unfinished when a process ended. What `Handle` computes is data.

### Delivery

One topic with several partitions, offsets 0..N-1. `lpc` is the position of
`Run`: `measure`, `list` and `skip` are the requests of `skipBacklogFast`
(committed offsets; end offsets and the decision; the retried commit), then
`run`, `handle`, `commit` are the loop. `member` is a previous instance of the
orchestrator in the same group: while it is there the backlog commit is refused
and the new readers get no partition; an `alive` one goes on handling and
committing, a `dead` one was killed and waits for its session timeout.
`handled`, `failed` and `skipped` are history. The five topics have separate
groups and offsets and share only the channel and the loop; a message of
another topic in the channel delays this one and changes nothing else.
A reader's fetch and its send into the channel are one step: the message it
holds in between is in the order of the channel already.

### Evidence and Diagnosis

`Evidence` has no variables. A severity is its protobuf number, a confidence
its percentage, durations and thresholds are milliseconds; texts are left out.
`New` keeps the code's behaviour that an invalid observation is dropped.
`Diagnosis` feeds the detectors: `HandleLogs`, `HandleMetric`, `HandleSpan` and
`HandleCollect` (the synthetic evidence of a collect command) report to the
orchestrator, which takes the first report as the signal to send the analyze
command (`HandleAnalyze`). That command carries no evidence: the RCA agent reads
`TopicCommandsRCA` and the Runner hands it one message at a time (rca.go:31,
46-52), so it concludes from the model's answer or from nothing (`NoEvidence`).
The branch of `RCAgent.Handle` for a batch of evidence is not reached and not
modelled; `reported` is kept for what is said about the rules alone.
`HandleRCAResult` is the fix agent with its three sources of steps (knowledge
base, model, built-in plan), its inserts and its publications. An RCA result may
be delivered `MaxDeliveries` times, and any insert of a plan may fail. An
observation stands for its severity, confidence and whether its span is slow,
which is all the heuristic looks at.

### LLM

`pc[c]` is the position of caller `c` in `chatWithRetry`; the mutex, the two
clock readings under it (`Lock` computes `wait`, `Reserve` reads the clock
again and writes `lastRequest`), the sleep outside of it, the request and the
back-off are separate steps. `Tick` may come between any two of them, so
sleepers wake late and clocks run on. `slots` and `sends` are history.

### Outbound

`gate` and `todo` are the loop of `TriggerApprovalGate`: per action a token
(`RequestApproval`, of the client that `buildApprovalClient` chose), then a row
(`PersistRecord`), and after the loop `Notify`, which starts one goroutine per
configuration that `ListEnabled` gave it. That may be any part of the enabled
ones: an error of the query or of one `Scan` gives none, and a connection that
breaks off gives the first few, since `rows.Err` is not asked. `listed` keeps
what it was. `delivery` and `attempt` are the goroutines: `BuildFails` (the URL
gives no request), `Send`, then `Succeed` or `Retry`, which log the attempt; any
insert into the log may fail and is ignored. `received`, `failures` and
`answered` are history, so that copies are counted whether or not the log could
be written. `entry` is the token map and `Restart` empties what is only in
memory. `columns` says whether the webhook tables have the columns that the
notifier names; the migrations do not create them.

### Api

The world (`PostSession`, `Transition`, `LogStateTransition`, changes of fix
actions and approvals) moves between any two queries. `ListSessions`,
`CountTotal`, `ListPage` and `NextPage` are a client that goes through all
pages. `Hits` are the rows that the `WHERE` clause selects and `Before` counts
the newer ones among them, which is what `ORDER BY created_at DESC` with
`LIMIT` and `OFFSET` goes by (`Result`). `order` is a total order: two rows with
the same microsecond of creation, which PostgreSQL may return either way round,
are left out. `ShouldBindQuery` is what gin makes of the client's parameters:
the request struct has no `form` tags, so they arrive under the names of its
fields (`Page`, `PageSize`, `TargetService`) and under no other. A client is one
that uses these or the documented ones (`spelling`), and the second is always
given the first page. A fix action goes from `NOT_STARTED` through `RUNNING`, if
that write succeeds, to its result (`Progress`). `GetSession`,
`GetReport` and `DownloadReport` load a session and then fix actions,
approvals and events (`LoadReportData`), each of which may fail: the first
answers 404 or 500, the others are dropped. Requests only read, so one client
at a time is enough.

### Registry

`proc[p]` is the position of process `p` in `bootstrap.Run`; an orchestrator
connects to PostgreSQL and starts its event loop in `NewGinServer`, an agent
starts its consumer in `agent.Run`. `entry[p]` is the age of its check in
Consul: ticks since it last passed. The registration sets no status, so a check
starts critical, as old as one that has just expired (`Register`); a
registration that Consul refuses is only logged. `Fires` is the ticker of
`refreshTTLLoop`, whose channel keeps one tick while a call is in work (`due`);
`PassTTL` is the moment at which Consul handles a call or the call fails, and
time may pass before it (`Tick` waits for nobody). A call that is handled after
its process ended is taken to be handled just before. `Aged` is Consul: critical
after the TTL, dropped when the reaper (`reaper`, every 30 seconds) finds it
critical for longer than a minute. The registration asks for 30 seconds
(consul.go:57); Consul raises that to its minimum. `passed`, `missed`, `late` and
`dead` are history. How Consul treats its checks is taken from Consul's
documented behaviour, as external code.

## 3. Runs

| Run | Instance | Shows |
|---|---|---|
| `engine` | 1 session, 2 workers, 3 attempts, 4 events | row locks, current reads, one winner, history, timeline, refinement of `Lifecycle`; every call returns |
| `session` | from `ANALYZING`, 2 fix actions, 1 operator, 1 fault, 1 crash | safety of approval and execution |
| `session_live` | from `CREATED`, 1 fix action, 1 retry, 1 fault, 1 crash | sweeps get sessions unstuck; refinement of `Lifecycle` |
| `session_as_wired` | from `CREATED`, 2 collectors, 1 retry, no fault, fix agent without database | the analysis is carried through and a `FIX_ACTION` that comes in time takes the session on, unless another worker holds the row just then and the observation stays uncommitted |
| `approved_is_executed` | from `ANALYZING`, 1 fix action, no fault | expected violation, see below |
| `agent_consumer` | 3 messages, channel of 1, 3 attempts, 2 stops, 1 rebalance | committed messages are accounted for, the loss per stop is bounded, every message ends |
| `delivery` | 2 partitions of 2 messages, channel of 2, threshold 0, 1 stop, 1 rebalance, with or without a previous instance | commits cover settled messages only, a fresh group backfills, every observation is settled |
| `diagnosis` | payloads on both sides of every threshold, 2 deliveries | the RCA agent always answers, the confidence of the rules grows with evidence, no risk is lowered |
| `llm` | 2 callers, interval 2, 2 attempts | slots are spaced, the rate is bounded, every call returns |
| `outbound` | 2 actions, a good, a failing and a malformed channel, 3 attempts, 1 restart | notices find their request, duplicates have a cause, healthy channels that were listed are reached |
| `api` | 2 sessions of 2 services, pages of 1, 4 filters, both spellings, 3 changes, 1 fault | paging is complete for a client with the field names, documents are not behind |
| `registry` | 1 orchestrator, 1 agent, TTL 4, critical time 3, reaping every 2, 2 faults | dead processes leave the catalog in time, live ones stay as long as failed and late refreshes allow |

`approved_is_executed` checks a statement of the code that the model refutes:
approval leads to `FIX_EXECUTING`, but what executes actions is on another
path, so nothing runs. `PROJECT.json` quotes the line.

More disagreements between code, comments and migrations are visible in the
models and have no run of their own.

Session control:

* a session whose `FIX_ACTION` came early "will be re-evaluated by
  SweepFixProposed after RCA_DONE" (event_loop.go:549-550): that sweep looks only
  at `FIX_PROPOSED`, so the session stays in `RCA_DONE`;
* the gate is "called by the workflow sweep loop" (orchestrator.go:649-650): the
  sweep moves sessions to `AWAITING_APPROVAL` and makes no request;
* "a transition that is already done is a no-op" (engine.go:8): a retry after a
  lost commit reply (`CommitReplyLost`) finds the new status and reports
  `ErrInvalidTransition` for the call's own committed move;
* `SweepVerifying` "auto-resolves or rolls back based on whether all fix actions
  succeeded" (engine.go:315-316): it looks for rows that say `FAILED`
  (engine.go:344-349). An action that failed and whose result could not be
  written is still `RUNNING` or `NOT_STARTED`, one that was never run is
  `NOT_STARTED`, and neither keeps the session from `RESOLVED` (`Verdict`).
  `ResolvedWithoutFailure` therefore excepts what is in `unrecorded`;
* the gate writes `PENDING` to the action after the approval record is visible
  (orchestrator.go:704), over a decision made in between (`MarkPending`);
* `tryTransition` reports a locked row as `ErrSessionNotFound`, which
  engine.go:28 reserves for a session that does not exist, and `Transition` does
  not retry it: a handler answers 404 or 500, a sweep comes back 30 seconds later, and
  the event loop leaves the observation uncommitted until a restart, with the
  session where it was;
* `RetrySession` announces a "Transition back to CREATED"
  (orchestrator.go:278), but `RETRY` labels no edge of the table; it and
  `IgnoreSession` drop the error of `GetByID` and would use a nil session, and the
  retry of a missing session answers 500 where 404 is meant;
* `Sweep` fails a session that evidence has moved on between its SELECT and its
  event, although it looks for "sessions stuck in COLLECTING" (engine.go:262).

Messages:

* agents receive "at least once" (consumer_channel.go:19-21): the offset is
  committed when the message enters a buffered channel, and a stop loses it
  (`LossBound` says how much);
* after a handler error the message is to be delivered again
  (event_loop.go:473-474): the next message of the partition commits past it.

Agents:

* `FixStep` has no JSON tags (agent/interfaces.go:42-49), while the prompt and the
  seeded knowledge base use `action_type`: the field is lost in decoding and the
  step is planned with an empty action (`DecodeStep`), which is rated HIGH like
  any unknown one. An empty list of steps becomes an empty plan;
* the rule table of fix.go:262 is "from PLAN 6", where `scale_down` is HIGH
  (`PLAN.md:265`); `assessRisk` rates it MEDIUM (fix.go:268), so it runs without
  approval. `NoDowngrade` measures by the plan's table and excepts this one;
* `RCAgent.Handle` "aggregates evidence from LOG/ METRIC / TRACE agents"
  (rca.go:36): the collectors' observations go to the orchestrator only, and
  what reaches the RCA agent is a command without evidence;
* handlers are to be idempotent (interfaces.go:7); the fix agent publishes a
  plan again for every delivery, and its rows of the second are refused by the
  unique sequence number;
* as wired, agents have neither model client nor pool and get batches of one,
  so grouping rules that need several logs never apply.

Outbound:

* the migrations create webhook tables without the columns `created_at` and
  `response_code` that notify/webhook.go:69,95 name: no channel is found and no
  delivery is logged (`columns`), so as shipped `HealthyIsReached` is about
  nobody;
* `secret` may be NULL (migration 001:90) and is scanned into a string: one such
  row fails `ListEnabled`, no channel is notified, and the gate drops the error
  (orchestrator.go:714). `rows.Err` is not checked, so a broken connection
  shortens the list without an error;
* an approval mode that is not known gives the client that approves everything,
  whose answer nobody reads; the HTTP client of the webhook mode is a stub;
* `GetApproval` and `CancelApproval` have no caller and are not modelled. By
  reading: `GetApproval` answers "no decision" when its poll fails, although the
  map may hold one, and `CancelApproval`, which "retracts a pending approval
  request" (interfaces.go:39) and "removes a pending token" (client.go:114),
  resolves it as REJECTED, which a poll in progress may overwrite;
* the executor has no `circuit_break`, which the built-in plan proposes; it passes
  "namespace/name" to a call that takes a name, and reports a restart as done
  when deleting pods failed.

API and discovery:

* total and page of one list answer are two queries and may disagree; paging
  under a status filter can miss a session that moves meanwhile; a PDF of a
  missing session answers 500;
* the documented parameters of the list (`page`, `pageSize`, `targetService` in
  mfdh.swagger.json:168-207, `page`, `page_size`, `target_service` in
  `PLAN.md:306`) and the dashboard's `page_size=100` (web/index.html:166) are
  ignored, because the request struct has no `form`
  tags (orchestrator.go:112): such a client gets the first 20 sessions, whatever
  it asks for (`ShouldBindQuery`);
* the detail of a session shows a timeline made up from its status, not the one
  in `session_events` (`BuildTimeline`);
* `Discover` "returns all healthy instances" (discovery/interfaces.go:26): it
  lists every instance in the catalog and calls it healthy, critical ones too,
  so a dead process is shown as healthy until it is dropped;
* the registration asks for deregistration after 30 seconds, which Consul raises
  to a minute; the check starts critical until the first refresh five seconds
  later; it sets both a TTL and an HTTP target without an interval
  (consul.go:56, 63, 80), which Consul may refuse, and a refused registration is
  only logged; a live process that Consul has dropped never registers again.

**Wiring.** agent_run.go:42 builds the fix agent without a database pool, so as
shipped it writes no `fix_actions` row, and a session has nothing to execute.
`session_as_wired` is that system; the other runs set `PersistFixes` to check
the code as it works with a pool.

**Bounds.** `MaxAttempts` is the code's 3 in `engine`, `agent_consumer` and
`outbound`; in `llm` it is 2: one attempt that
is followed by a back-off and one that is the last.
The number of `Engine` calls is not bounded. Two workers make every pair of
conflicting transactions; the proofs cover any number of workers and attempts.
Two fix actions are needed for a plan in which one action is HIGH and one is
not, or one fails and one succeeds. `MaxFaults` and `MaxCrashes` of 1 allow
every single failure at every point, and one of each together; the proofs about
`Engine` have no bound. Start statuses are chosen so that the interesting part
of the table is within reach: `FIX_PROPOSED` for the risk-routed edge, `NONE`
for the creation of a row, `VERIFYING` for sessions that end while they are
read. In `agent_consumer` a channel of one is full as
soon as the runner is busy, three messages fill reader, channel and runner at
once, and a second stop loses messages on top of a first. In `delivery` a
threshold of 0 makes a single message a backlog; two messages per partition
are what a cumulative commit needs to pass over one, and a second partition
makes the backlog commit one that can be accepted in part. `MaxStops` and
`MaxRebalances` bound only these runs, not the proofs. In `diagnosis` each
detector gets values just below, at and above its limits, and the counts of the
heuristic are cut off one past its highest rule (`MaxTally`). In `llm` the
clock stops at `MaxTime` only while nobody sleeps. In `outbound` each kind of
channel occurs once; deliveries do not share state, so a second of a kind would
add nothing. In `api` pages of one make every session a page boundary, and three
changes can create a session, move it and log the move; `MaxPages` ends the
client that is shown the same page again and again. In `registry` the ticks are
scaled: two of them make a refresh period, Consul's minute and half minute are
three and two, and two faults are enough to miss refreshes until a live process
is dropped; the proofs are for any of these.

**Fairness.** `Engine`: every step of a running call is weakly fair, which says
that goroutines are scheduled and database calls return (with or without
error). `Orchestrator`: event loop, sweep goroutine, a request in progress
(`LoadTarget`, `DispatchCollect`, the second half of a retry) and
each agent are weakly fair and the clock advances; the runtime, the 30-second
ticker and the consumers' polling loops justify that. A sweep that meets a
locked row fails without effect, so the sweep that gets through is strongly fair
(`SweepMoves`): a worker holds a row for one transaction and the sweep comes back
every 30 seconds, so it does not find the row locked every time. Nothing of the
kind is assumed of the event loop, which handles an observation once. No operator is obliged
to start, decide or retry anything, and no failure is obliged to happen.
`AgentConsumer`: the two goroutines are scheduled, a process whose `Run` has
returned exits, and a process that ended is started again: whoever operates it
does so, and the code counts on it ("redelivered on next start",
consumer_channel.go:23). `Delivery`: each reader and the loop are scheduled, the requests of
`skipBacklogFast` return, its retry loop ends with its 55-second timeout at the
latest, a previous instance leaves the group or is timed out by the broker
(45 seconds), and the process is started again. Nobody is obliged to publish, stop
or rebalance. `LLM`: time passes, and each caller's steps are weakly fair:
timers fire, a request ends within the 60 seconds of the HTTP client, and the
mutex is held over two clock readings only, so that with every holder leaving
a waiting caller gets it when the others have used up their calls.
`Outbound`: the gate and each delivery goroutine are weakly fair, since the
HTTP client gives up after ten seconds. The deadlock check is off in the runs of `AgentConsumer`, `Delivery`,
`Diagnosis`, `LLM` and `Outbound`: with everything processed they are at rest.

## 4. Proofs

`EngineProofs` is about any sessions, workers, events and number of attempts,
under `EngineAssumption`: there is a session, `NoWorker` is no worker, `Events`
and `Start` are events and statuses of the code and there is at least one
attempt. The inductive invariant is `IInv`:

* `TInv`: the types, and that a running call has an event of the table and no
  result yet (without it the lookup has no type);
* `RowLock`, `ReadIsCurrent`, `ReadsRow`: only the lock holder changes a status,
  so what it read stays current; a transaction is open only on an existing row,
  so `CreateSession` cannot change a status under a lock;
* `RiskPoint`, `TargetIsMove`: what is about to be committed is a move from what
  was read, whether it came from the table or from the risk count;
* `WinnersPast`, `OneWinner`: a winner's session is beyond the status it read, so
  the next winner read another one. `OneWinner` alone is not inductive.

From it follow `EngineTypeCorrect`, `EngineRowLock`, `EngineReadIsCurrent`,
`EngineOneWinner` and the refinement `EngineImplementsLifecycle` (every step
leaves the status column alone, inserts a row, or commits a move).
`EngineHistoryIsPath` adds that history and status change together;
`EngineTimelineSound` adds `TimelineInv`: entries are committed moves out of
statuses the session has left behind, and a pending entry is of none of them.

The module begins with what the table itself says: every move goes from a live
status to one of higher rank, the risk-routed ones included. So the abstract
session only moves forward (`AbstractForward`), and `EngineForward` carries that
over to the engine through the refinement.

`OrchestratorProofs` is about one session with any number of fix actions,
retries, faults and crashes, any start the handlers allow, and a fix agent with
or without its database pool (`OrchestratorAssumption`). `TInv` is `TypeOK`
with what its types rest on: a working event loop has an observation, an
executed action an outcome, a settling sweep a verdict. `SInv` says what makes
execution safe, and TLC checked it on the instance of `MCOrchestrator` before it was
proved:

* `Executing`: while `ExecuteFixActions` is at work the session is in
  FIX_EXECUTING, or was ignored or failed under it;
* `TodoFresh`, `TodoAllowed`: what is still to be run has not run yet, has a
  row, and was approved if it is HIGH risk: the rows are read once, and
  decisions, sweeps and redeliveries come between the read and the run;
* `HaveRow`, `ApprovedKnown`: only an action with a row is run or fails, so that
  its risk is not set afterwards; an approval in a row, or on its way there, is
  one an operator gave;
* `VerdictSound`: the verdict of `SweepVerifying` outlives its read, because in a
  session it has picked no execution can be at work any more, and what failed
  says so in its row or is in `unrecorded`.

From it follow `OrchestratorTypes`, `OrchestratorNoUnapprovedRun`,
`OrchestratorRunAtMostOnce`, `OrchestratorNothingRunsEarly` and
`OrchestratorResolvedWithoutFailure`; `OrchestratorImplementsLifecycle` shows
step by step that every action leaves the status alone or makes a move of
`Lifecycle`, and `OrchestratorForward` that it therefore never takes the session
back. The key fact is about the table: what has begun stays begun,
what is settled stays settled, and EXECUTE is accepted only before anything has
begun (`MoveFacts`).

`DeliveryProofs` is about any partitions, lengths, capacities, thresholds,
stops and rebalances (`DeliveryAssumption`: they are numbers, and the channel
holds at least one message). `CommitsAreCovered` is `CommitCoversSettled`. It
is not inductive, because a commit is cumulative: `Inv` adds that everything
below a message in the channel is settled, in the loop's hands or further to
the front (`ChannelOrdered`), that the same holds of a reader's position with
the whole channel (`NextCovered`), and that everything below the message in
hand is settled (`CurCovered`). A reader that resumes from the committed offset
after a rebalance has nothing unsettled behind it, so duplicates keep the order.
`FreshGroupsBackfill` is `FreshGroupBackfills`, an action property:
`skipBacklogFast` decides from offsets it read before, and the decision stays
right because no step takes a committed offset away (`OffsetsStay`).

`AgentConsumerProofs` is about any length, capacity, attempts, stops and
rebalances (`ConsumerAssumption`). `CommitsAreAccounted` is
`CommittedIsAccounted`; its `Inv` leaves the message held by the forwarding
goroutine out of what is safe, because the goroutine drops it on cancellation,
and says that everything committed, everything below the held message and
everything the reader has passed is safe. `ConsumerLossBound` counts on top of
that: a stop adds to the lost messages only what is in the channel or in the
runner's hands (`LostByStop`), which is the capacity and one (`ChannelCount`).

`LLMProofs` is about any callers, interval, attempts, back-off and bounds
(`LLMAssumption`). `LLMSlotsSpaced` is not inductive: two callers compute their
slots from the same time stamp. `LimiterInv` adds that the callers between
`Lock` and `Reserve` are those that hold the mutex, and one at most (`Mutex`),
that the time stamp is the latest slot (`LastIsLatest`), and that what a caller
computed leads past the interval of that slot however late it reserves
(`WaitSuffices`: the clock only runs on, and nobody else writes the stamp).
`AttemptLeft` is what the type of `attempt` rests on.

`LLMRateBound` pays for each request with a slot: a slot is open when its time
has come and nobody sleeps for it any more, and requests sent and callers about
to send are together no more than the open slots (`Paid`, which needs that
sleepers own distinct slots). Slots an interval apart are at most one per
interval (`SpacedCount`). `LLMAssumption` has finitely many callers for this:
a process has finitely many goroutines.

`OutboundProofs` is about any actions, channels of each kind and attempts
(`OutboundAssumption`). `OutboundNoticeFindsRequest`: every HIGH-risk action is
still to be asked for, recorded or refused, and no channel is served before the
gate is through (`GateInv`). `OutboundDuplicatesHaveCause` is not inductive: the
invariant adds what each position of a delivery says about its counters, that
a delivery under way has an attempt for every failure it has seen and none that
was answered (`Paid`), so that a success is the end of it.

`DiagnosisProofs` is about any metrics, spans, answers and knowledge base, any
finite log batch and any number of deliveries (`DiagnosisAssumption`; the
answers are typed as the decoder types them).
`DiagnosisRCAAlwaysAnswers` rests on the clamping of the confidence
(`ConclusionValid`), `DiagnosisConfidenceGrows` on the heuristic being monotone
in every count (`HeuristicMonotone`), `DiagnosisNoDowngrade` on the order of
decoding and risk rules, against the plan's table.

`ServerProofs` is about the hub as its clients see it, in three parts.

*Documents*, for any sessions and any number of changes and failing queries.
`LifecycleForward` says that the abstract lifecycle, which the sessions under the
reading handlers live by, only moves sessions forward. `ApiReportNotBehind` is not inductive.
`DocInv` adds that while a document is put together the tables are not behind
what they held when the session row was read (`TablesGrow`: rows are appended
and only make progress, events are added), and that neither is what has been
copied from them, except for the part whose query failed (`CopiesFresh`).
"Not behind" is transitive (`NotBehindTransitive`), so it does not matter how
much is written between two queries.

*Pages*, for any page size and table (`ApiAssumption`: a page has room for at
least one row), and a client whose parameters arrive. `ApiPagingComplete` rests on `PageInv`: a session that the
client expects and has not seen has at least as many selected rows before it as
the pages read so far hold, and a page that is not full was the last one. It
takes four facts. An insertion anywhere in the order maps the rows before
another one to rows before it, one to one, so it never has fewer
(`InsertKeepsAfter`). Different rows have different numbers of rows before them,
less than there are rows (`AfterOrders`, by proper subsets), so the row with
number `Offset + k - 1` is well defined and a page shows all rows within its
range (`PageShows`). The next page begins where the page ends (`OffsetNext`).
And with the status left open the `WHERE` clause does not depend on the status,
so moves do not matter (`OpenStatus`). All of this is counting of finite sets;
none of it needs an induction over the table.

*The catalog*, for any processes, TTL of at least two ticks, critical time and
reaping period (`RegistryAssumption`). Neither property is inductive.
`DeadLeaves` needs that a process that ended does not refresh (`BeatsAlive`),
that a listed entry is at least as old as its process is dead (`DeadAges`), and
that an entry outlives its critical time by no more than the reaper's clock
shows (`Reaped`). `LiveStaysListed` needs the age of a running process's entry:
at most what it started with, a period for each refresh that failed, the part of
the present period that has passed and the time that refreshes waited, and
absent only when that exceeds what Consul allows (`BeatsInTime`). A late refresh
is paid for tick by tick, because a refresh that is due ages entry and wait
together (`Pending`).

Types are proved of `Lifecycle`, `Engine`, `Orchestrator`, `AgentConsumer`,
`Delivery` and `LLM`, and as far as the properties need them of `Outbound`,
`Diagnosis`, `Api` and `Registry`.

Every safety invariant, action property and refinement that a passing run checks
is proved. Only model-checked is liveness: `CallReturns`, `Settles`,
`Delivered`, `ChatReturns`, `HealthyIsReached`, `CollectingEnds`,
`ProposedEnds`, `VerifyingEnds`, `AnalyzingEnds` and `FixActionAdvances`.
Liveness under fairness and `ENABLED` are outside the prover's reach.

## 5. Not modelled

* Generated protobuf and gRPC code and its generator: no gRPC server is started;
  the enumerations the handlers convert are in `Api` and `Evidence`.
* The Kubernetes calls of the executor: in `Orchestrator` an execution succeeds
  or fails; what the cluster does then is outside of the repository.
* `bus.Replay`, the topic helpers, the in-memory bus and the health server have
  no caller in the program, or no state.
* `GetApproval`, `CancelApproval` and the expiry of tokens, and the evidence branch
  of the RCA agent: nothing in the program calls or reaches them.
* Texts, prompts, layout of reports, logging, and the parsing of configuration
  files beyond success and failure.

## 6. Plan

1. Lemmas that several proofs state in their own form (the forward moves of the
   table, counting a channel, appending to a log) in one place.
2. Rows with the same `created_at`: whether paging misses one depends on the order
   in which PostgreSQL returns ties, which the query leaves open.
