CONSTANTS
    r1 = r1
    r2 = r2
    Replicas <- TwoReplicas
    Revs <- SixRevs
    TTL = 1
    Period = 1
    Slack = 1
    Faults = TRUE
SPECIFICATION FairSpec
PROPERTIES LostForGood LostRunStops OrphanExpires
