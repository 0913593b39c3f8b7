SPECIFICATION Spec
CONSTANTS
    cli = cli
    worker = worker
    dead = dead
    other = other
    NoPid = NoPid
    Pids = {cli, worker, dead, other}
    Workers = {worker}
    MaxRetries = 1
    MaxFaults = 2
SYMMETRY Symmetry
INVARIANTS TypeOK OnlyDeadLocksDropped SplitTakesFour OwnFileAtPath
CHECK_DEADLOCK FALSE
