SPECIFICATION Spec
CONSTANTS
    Requests = {r1, r2, r3}
    Ids = {a, b}
    Procs = {server, cli}
    Server = server
    None = None
    PortRangeStart = 8100
    MaxPortScan = 2
    MaxInstances = 2
    RegistryRetries = 2
    Faults = {"registry", "fs", "docker", "health", "crash"}
    Overlap = FALSE
SYMMETRY Symmetry
INVARIANTS NoOrphan SuccessMeansServed FailedLeavesNothing
PROPERTY RefinesLifecycle
