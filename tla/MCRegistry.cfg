CONSTANTS
    Procs = {orch, agent}
    Orchestrators = {orch}
    TTL = 4
    Critical = 3
    ReapPeriod = 2
    MaxFailures = 2
SPECIFICATION RegistrySpec
INVARIANTS DeadLeaves LiveStaysListed
