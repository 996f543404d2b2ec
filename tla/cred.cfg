SPECIFICATION Spec
CONSTANTS
    a = a
    c1 = c1
    c2 = c2
    t1 = t1
    None = None
    Ids = {a}
    Clis = {c1,c2}
    Tokens = {t1}
    TTL = 1
    Zone = 2
    MaxNow = 4
    MaxKeys = 3
    MaxDrawn = 4
SYMMETRY Symmetry
INVARIANTS RevokedAtRestart SSELifetime RestartSuffices NoRevival
