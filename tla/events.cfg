SPECIFICATION Spec
CONSTANTS
    c1 = c1
    NEmits = 3
    Clients = {c1}
    Capacity = 2
    ChanCap = 2
    MaxEmitting = 2
    Burst = 2
    MaxDrops = 1
    MaxRestarts = 1
    StoreFails = TRUE
INVARIANTS NoDuplicate NoGap BurstAllowed
PROPERTIES RingIsFeed
CHECK_DEADLOCK FALSE
