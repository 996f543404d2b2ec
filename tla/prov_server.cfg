SPECIFICATION Spec
CONSTANTS
    Requests = {r1, r2, r3}
    Ids = {a, b}
    Procs = {server}
    Server = server
    None = None
    PortRangeStart = 8100
    MaxPortScan = 2
    MaxInstances = 1
    RegistryRetries = 2
    Faults = {"registry", "fs", "docker", "health", "cleanup", "crash"}
    Overlap = TRUE
SYMMETRY Symmetry
INVARIANTS CapRespected SoleOwner FreshPort RowMatchesContainer
