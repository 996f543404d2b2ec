SPECIFICATION Spec
CONSTANTS
    Procs = {server, cli}
    Server = server
    Registry = registry
    events = events
    Stores <- OneStore
    Environments <- AllEnvironments
    MaxGen = 1
    None = None
    Torn = Torn
INVARIANTS Durable VersionTellsSchema OpenedComplete
PROPERTIES BackupFaithful
