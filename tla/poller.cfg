SPECIFICATION FairSpec
CONSTANTS
    a = a
    b = b
    Ids = {a, b}
    Threshold = 2
    Cooldown = 2
INVARIANTS FeedShowsHealth
PROPERTIES ThresholdRespected Retried
