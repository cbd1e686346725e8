CONSTANTS
    a1 = a1
    e1 = e1
    r1 = r1
    r2 = r2
    Agents <- OneAgent
    Exts <- OneExt
    Replicas <- TwoReplicas
    ExtOf <- MCExtOf
    MaxStarts = 4
    Faults <- AllFaults
SPECIFICATION FairSpec
INVARIANTS TypeOK KnowsThePresent ForgetsTheAbsent
PROPERTY SiblingsRecover
