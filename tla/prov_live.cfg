SPECIFICATION FairSpec
CONSTANTS
    Requests = {r1, r2}
    Ids = {a, b}
    Procs = {server}
    Server = server
    None = None
    PortRangeStart = 8100
    MaxPortScan = 2
    MaxInstances = 2
    RegistryRetries = 2
    Faults = {"registry", "fs", "docker", "health"}
    Overlap = TRUE
PROPERTIES InFlightCleared ProvisioningResolves
