------------------------------ MODULE Registry ------------------------------
(***************************************************************************)
(* A process of the hub from start to exit (internal/bootstrap, the        *)
(* wiring in server/gin.go, agent_run.go) and its entry in Consul          *)
(* (internal/discovery): registration with a TTL check, the goroutine that *)
(* refreshes it, deregistration on shutdown and on no other exit, failing  *)
(* Consul calls, and what GET /v1/agents reports from the catalog.         *)
(***************************************************************************)
EXTENDS Integers, FiniteSets

CONSTANTS
    Procs,          \* processes; a restart is a new process with a new id
    Orchestrators,  \* those with a database and an HTTP server
    TTL,            \* ticks until an unrefreshed check is critical (10 s)
    Critical,       \* ticks that Consul lets a service be critical (1 min)
    ReapPeriod,     \* ticks between two looks of Consul at them (30 s)
    MaxFailures     \* bound: failing calls and kills

ASSUME RegistryAssumption ==
    /\ Orchestrators \subseteq Procs
    /\ TTL \in Nat \ {0, 1} /\ Critical \in Nat /\ ReapPeriod \in Nat \ {0}
    /\ MaxFailures \in Nat

VARIABLES
    proc,       \* proc[p]: position in bootstrap.Run
    registry,   \* registry[p]: "consul" or "mock", "none" before
    beat,       \* processes whose refreshTTLLoop runs
    timer,      \* timer[p]: ticks since its ticker last fired
    due,        \* due[p]: refreshes in work or waiting in the ticker's channel
    entry,      \* entry[p]: ticks since p's check last passed, or absent
    reaper,     \* ticks since Consul last dropped critical services
    work,       \* processes whose event loop or consumer runs
    passed,     \* history: processes whose check has passed
    missed,     \* history: missed[p], refreshes in a row that failed until p was dropped
    late,       \* history: late[p], ticks until then that they and the next one waited
    dead,       \* history: dead[p], ticks since p exited
    failures    \* number of failed calls and kills so far

loop         == <<beat, timer, due, passed, missed, late>>
registryVars == <<proc, registry, loop, entry, reaper, work, dead, failures>>

Absent == -1
Limit  == TTL + Critical + ReapPeriod

RegistryInit ==
    /\ proc = [p \in Procs |-> "off"] /\ registry = [p \in Procs |-> "none"]
    /\ beat = {} /\ work = {} /\ passed = {}
    /\ timer = [p \in Procs |-> 0] /\ due = [p \in Procs |-> 0]
    /\ missed = [p \in Procs |-> 0] /\ late = [p \in Procs |-> 0]
    /\ entry = [p \in Procs |-> Absent] /\ dead = [p \in Procs |-> 0]
    /\ reaper \in 0..ReapPeriod - 1
    /\ failures = 0

Goto(p, x) == proc' = [proc EXCEPT ![p] = x]

Fault == failures < MaxFailures /\ failures' = failures + 1

\* The process ends: its goroutines and its ticker end with it.
Ends(p) ==
    /\ Goto(p, "exited")
    /\ beat' = beat \ {p} /\ work' = work \ {p} /\ passed' = passed \ {p}
    /\ timer' = [timer EXCEPT ![p] = 0] /\ due' = [due EXCEPT ![p] = 0]
    /\ missed' = [missed EXCEPT ![p] = 0] /\ late' = [late EXCEPT ![p] = 0]

\* config.Load; an error ends the process.
Load(p) ==
    /\ proc[p] = "off"
    /\ \/ /\ Goto(p, IF p \in Orchestrators THEN "connect" ELSE "register")
          /\ UNCHANGED <<loop, work, failures>>
       \/ Fault /\ Ends(p)
    /\ UNCHANGED <<registry, entry, reaper, dead>>

\* The connection to PostgreSQL, which agents skip; an error ends the process.
Connect(p) ==
    /\ proc[p] = "connect"
    /\ \/ Goto(p, "register") /\ UNCHANGED <<loop, work, failures>>
       \/ Fault /\ Ends(p)
    /\ UNCHANGED <<registry, entry, reaper, dead>>

\* Registration with Consul.  Without a Status the check starts as critical:
\* the entry is as old as one that has just expired.  A registration that
\* fails, or that Consul refuses (it has an HTTP check without Interval), is
\* only logged, and then nothing refreshes.
Register(p) ==
    /\ proc[p] = "register" /\ Goto(p, "build")
    /\ registry' = [registry EXCEPT ![p] = "consul"]
    /\ \/ entry' = [entry EXCEPT ![p] = TTL] /\ beat' = beat \cup {p}
       \/ UNCHANGED <<entry, beat>>
    /\ UNCHANGED <<timer, due, passed, missed, late, reaper, work, dead, failures>>

\* Without a Consul client the process runs with the mock registry.
RunWithoutConsul(p) ==
    /\ proc[p] = "register" /\ Fault /\ Goto(p, "build")
    /\ registry' = [registry EXCEPT ![p] = "mock"]
    /\ UNCHANGED <<loop, entry, reaper, work, dead>>

\* NewGinServer starts the event loop of an orchestrator, unless it has no
\* producer: then the server runs without one.
NewGinServer(p) ==
    /\ proc[p] = "build" /\ Goto(p, "ready")
    /\ \/ /\ work' = IF p \in Orchestrators THEN work \cup {p} ELSE work
          /\ UNCHANGED failures
       \/ p \in Orchestrators /\ Fault /\ UNCHANGED work
    /\ UNCHANGED <<registry, loop, entry, reaper, dead>>

\* OrchestratorReady, or agent.Run: consumer, producer and runner; an error
\* is os.Exit(1), without deregistration.
Ready(p) ==
    /\ proc[p] = "ready"
    /\ \/ /\ Goto(p, "up")
          /\ work' = IF p \in Orchestrators THEN work ELSE work \cup {p}
          /\ UNCHANGED <<loop, failures>>
       \/ p \notin Orchestrators /\ Fault /\ Ends(p)
    /\ UNCHANGED <<registry, entry, reaper, dead>>

\* The HTTP server fails, or the runner of an agent: Run returns the error or
\* the process exits, without deregistration.
Fails(p) ==
    /\ proc[p] = "up" /\ Fault /\ Ends(p)
    /\ UNCHANGED <<registry, entry, reaper, dead>>

\* SIGINT or SIGTERM cancels the context: loops and consumers stop.
Signal(p) ==
    /\ proc[p] = "up" /\ Goto(p, "shutdown")
    /\ work' = work \ {p}
    /\ UNCHANGED <<registry, loop, entry, reaper, dead, failures>>

\* Shutdown of the HTTP server, within ten seconds.
Shutdown(p) ==
    /\ proc[p] = "shutdown" /\ Goto(p, "deregister")
    /\ UNCHANGED <<registry, loop, entry, reaper, work, dead, failures>>

\* Deregister and return; an error is only logged.
Deregister(p) ==
    /\ proc[p] = "deregister" /\ registry[p] = "consul" /\ Ends(p)
    /\ \/ entry' = [entry EXCEPT ![p] = Absent] /\ UNCHANGED failures
       \/ Fault /\ UNCHANGED entry
    /\ UNCHANGED <<registry, reaper, dead>>

\* The mock forgets an instance it never had.
DeregisterMock(p) ==
    /\ proc[p] = "deregister" /\ registry[p] = "mock" /\ Ends(p)
    /\ UNCHANGED <<registry, entry, reaper, dead, failures>>

\* The process is killed.
Kill(p) ==
    /\ proc[p] \notin {"off", "exited"} /\ Fault /\ Ends(p)
    /\ UNCHANGED <<registry, entry, reaper, dead>>

\* Mutant: the ticker is as slow as the check.
BugRefresh == TTL

\* The period of the ticker: ttlSecs / 2
Refresh == TTL \div 2

\* A call of PassTTL by refreshTTLLoop, at the moment when Consul handles it or
\* it fails, however late.  It also fails for a check that is not in the catalog
\* any more: nothing registers it again.
PassTTL(p) ==
    /\ p \in beat /\ due[p] > 0
    /\ due' = [due EXCEPT ![p] = @ - 1]
    /\ \/ /\ entry[p] # Absent
          /\ entry' = [entry EXCEPT ![p] = 0] /\ passed' = passed \cup {p}
          /\ missed' = [missed EXCEPT ![p] = 0] /\ late' = [late EXCEPT ![p] = 0]
          /\ UNCHANGED failures
       \/ /\ entry[p] # Absent /\ Fault
          /\ missed' = [missed EXCEPT ![p] = @ + 1]
          /\ UNCHANGED <<entry, passed, late>>
       \/ entry[p] = Absent /\ UNCHANGED <<entry, passed, missed, late, failures>>
    /\ UNCHANGED <<proc, registry, beat, timer, reaper, work, dead>>

\* The ticker fires: the channel keeps one tick while another is in work.
Fires(p) == p \in beat /\ timer[p] + 1 >= Refresh

\* Mutant: the registration does not ask Consul to drop critical services.
BugAged(e) == IF e = Absent THEN Absent ELSE IF e <= Limit THEN e + 1 ELSE e

\* The check of the registration as Consul keeps it: critical after TTL,
\* dropped when Consul next looks for services that were critical for too long.
\* The 30s that the registration asks for are below Consul's minimum.
Aged(e) ==
    IF e = Absent \/ (reaper + 1 = ReapPeriod /\ e + 1 > TTL + Critical)
    THEN Absent ELSE e + 1

\* Time passes, whether or not a refresh is due or hangs.
Tick ==
    /\ entry' = [p \in Procs |-> Aged(entry[p])]
    /\ reaper' = (reaper + 1) % ReapPeriod
    /\ timer' = [p \in Procs |-> IF p \in beat /\ ~Fires(p) THEN timer[p] + 1 ELSE 0]
    /\ due' = [p \in Procs |-> IF Fires(p) /\ due[p] < 2 THEN due[p] + 1 ELSE due[p]]
    /\ late' = [p \in Procs |->
                  IF due[p] > 0 /\ entry[p] # Absent THEN late[p] + 1 ELSE late[p]]
    /\ dead' = [p \in Procs |->
                  IF proc[p] = "exited" /\ dead[p] <= Limit THEN dead[p] + 1 ELSE dead[p]]
    /\ UNCHANGED <<proc, registry, beat, work, passed, missed, failures>>

RegistryNext ==
    \/ Tick
    \/ \E p \in Procs :
          \/ Load(p) \/ Connect(p) \/ Register(p) \/ RunWithoutConsul(p) \/ NewGinServer(p) \/ Ready(p)
          \/ Signal(p) \/ Shutdown(p) \/ Deregister(p) \/ DeregisterMock(p)
          \/ Fails(p) \/ Kill(p) \/ PassTTL(p)

RegistrySpec == RegistryInit /\ [][RegistryNext]_registryVars

-----------------------------------------------------------------------------
\* Discover lists what the local Consul agent knows, whatever its checks say,
\* and calls all of it healthy.
Discover == {p \in Procs : entry[p] # Absent}

\* GET /v1/agents
ListAgents == [p \in Discover |-> "healthy"]

(***************************************************************************)
(* What GET /v1/agents shows is not much older than the truth: a process   *)
(* that ended in any way (killed, failed, deregistration lost) is gone     *)
(* from the catalog when its TTL, Consul's minute and the period of its    *)
(* reaper are over, because nothing outside the process refreshes its      *)
(* check (consul.go:55-59, 93-107).  Until then it is shown as healthy.    *)
(***************************************************************************)
DeadLeaves == \A p \in DOMAIN ListAgents : proc[p] = "exited" => dead[p] <= Limit

\* A check that has not passed yet is critical from the start.
FirstAge(p) == IF p \in passed THEN 0 ELSE TTL

(***************************************************************************)
(* The refreshes of a live process keep it in the catalog although calls   *)
(* fail, hang or come late.  After its first refresh it is not critical as *)
(* long as no call failed and the calls waited for less than half of the   *)
(* TTL; and it stays listed, from the registration on, as long as the      *)
(* periods of the failed refreshes and the time they waited do not exceed  *)
(* what Consul allows (consul.go:55-59, 99-107).                           *)
(***************************************************************************)
LiveStaysListed ==
    \A p \in beat :
        /\ p \in passed /\ missed[p] = 0 /\ late[p] < TTL \div 2
              => entry[p] \in 0..TTL - 1
        /\ FirstAge(p) + (missed[p] + 1) * Refresh + late[p] <= TTL + Critical
              => p \in DOMAIN ListAgents
=============================================================================
