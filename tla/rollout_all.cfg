SPECIFICATION Spec
CONSTANTS
    Jobs = {j1, j2}
    a = a
    b = b
    Order <- OrderTwo
    Images = {v1, v2}
    BadImages = {}
    First = v1
    Unknown = Unknown
    Empty = Empty
    Faults = {"docker", "registry", "flaky", "cancel"}
    Tags = TRUE
    Tagged = {b}
    Failing = {a}
SYMMETRY Symmetry
INVARIANTS BlastRadius UpgradesExclusive
PROPERTIES ReportTruthful UpgradeRollsBack
