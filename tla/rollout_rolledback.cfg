SPECIFICATION Spec
CONSTANTS
    Jobs = {j1}
    a = a
    b = b
    Order <- OrderTwo
    Images = {v1, v2, bad}
    BadImages = {bad}
    First = v1
    Unknown = Unknown
    Empty = Empty
    Faults = {}
    Tags = FALSE
    Tagged = {}
    Failing = {}
PROPERTY RolledBackIsPrevious
