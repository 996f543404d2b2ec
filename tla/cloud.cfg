SPECIFICATION Spec
CONSTANTS
    a = a
    b = b
    t1 = t1
    r1 = r1
    None = None
    Slugs = {a, b}
    Tokens = {t1}
    Reqs = {r1}
    TTL = 1
    Limits <- EditsTimeOrErrors
    MaxGen = 2
SYMMETRY Symmetry
INVARIANTS References ServedOwn SessionLifetime
PROPERTIES PurgedWasExpired ProvisionOutcome OnlyOwnUser
