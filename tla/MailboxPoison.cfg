CONSTANTS
    k1 = k1
    k2 = k2
    j1 = j1
    j2 = j2
    m1 = m1
    m2 = m2
    m3 = m3
    NoMsg = NoMsg
    Consumers <- TwoConsumers
    Readers <- OneReader
    Msgs <- ThreeMsgs
    Own <- ThreeMsgs
    Limit = 2
    MaxFailures = 3
    Malformed <- SecondMsg
    Undecodable <- ThirdMsg
    Poison <- FirstMsg
    Faults <- SlowHandlers
SPECIFICATION FairSpec
CHECK_DEADLOCK FALSE
INVARIANT PoisonBounded
PROPERTIES ParkedForCause PoisonParked EventuallyClosed
