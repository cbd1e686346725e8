CONSTANTS
    r1 = r1
    r2 = r2
    Replicas <- TwoReplicas
    Revs <- SixRevs
    TTL = 3
    Period = 1
    Slack = 4
    Faults = FALSE
SPECIFICATION Spec
PROPERTY HeldUntilExpiry
