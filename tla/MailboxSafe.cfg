CONSTANTS
    k1 = k1
    k2 = k2
    j1 = j1
    j2 = j2
    m1 = m1
    m2 = m2
    m3 = m3
    NoMsg = NoMsg
    Consumers <- TwoConsumers
    Readers <- TwoReaders
    Msgs <- ThreeMsgs
    Own <- AllButSecond
    Limit = 2
    MaxFailures = 0
    Malformed <- ThirdMsg
    Undecodable <- None
    Poison <- None
    Faults <- AllFaults
SPECIFICATION Spec
CHECK_DEADLOCK FALSE
SYMMETRY Symmetry
INVARIANTS TypeOK NothingLost LettersKept
CONSTRAINT Scenes
