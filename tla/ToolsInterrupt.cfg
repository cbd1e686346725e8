CONSTANTS
    x1 = x1
    x2 = x2
    c1 = c1
    c2 = c2
    c3 = c3
    s1 = s1
    s2 = s2
    s3 = s3
    t1 = t1
    t2 = t2
    u1 = u1
    i1 = i1
    i2 = i2
    NoTenant = NoTenant
    NoSession = NoSession
    NoReplica = NoReplica
    Replicas <- OneReplica
    Calls <- ThreeCalls
    Signals <- ThreeSignals
    Tenant <- MCTenant
    Session <- MCSession
    CallId <- MCCallId
    MayStop = TRUE
    BadMessages = TRUE
SPECIFICATION Spec
CHECK_DEADLOCK FALSE
INVARIANTS TypeOK CancelScope Abortable NoLeak
PROPERTY SignalAborts
