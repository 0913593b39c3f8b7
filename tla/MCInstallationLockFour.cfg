SPECIFICATION Spec
CONSTANTS
    cli = cli
    worker = worker
    dead = dead
    other = other
    NoPid = NoPid
    Pids = {cli, worker, dead, other}
    Workers = {worker}
    MaxRetries = 0
    MaxFaults = 1
INVARIANT MutualExclusion
CHECK_DEADLOCK FALSE
