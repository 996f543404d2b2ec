SPECIFICATION Spec
CONSTANTS
    Requests = {r1, r2}
    Ids = {a}
    Procs = {server}
    Server = server
    None = None
    PortRangeStart = 8100
    MaxPortScan = 1
    MaxInstances = 1
    RegistryRetries = 2
    Faults = {}
    Overlap = TRUE
INVARIANT NoOrphan
