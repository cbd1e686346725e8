CONSTANTS
    r1 = r1
    r2 = r2
    Replicas <- TwoReplicas
    Revs <- SixRevs
    TTL = 6
    Period = 2
    Slack = 1
    Faults = TRUE
SPECIFICATION Spec
SYMMETRY Symmetry
INVARIANTS TypeOK MutualExclusion RunningIsVisible
PROPERTIES HeldUntilExpiry RunsExclusively
