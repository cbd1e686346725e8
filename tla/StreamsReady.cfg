CONSTANTS
    p1 = p1
    p2 = p2
    NilPayload = NilPayload
    NullPayload = NullPayload
    Procs <- TwoProcs
    Channels <- Events
    Ages <- TwoAges
    Layouts <- AllLayouts
    MaxTries = 3
    MaxMsgs = 2
    MaxStarts = 2
    MaxAgain = 1
    Faults <- AllFaults
SPECIFICATION Spec
CHECK_DEADLOCK FALSE
SYMMETRY Symmetry
CONSTRAINT UsualAges
ACTION_CONSTRAINTS OneAgePublishes OneReads
INVARIANTS Ready FailsForCause ReplaysAll
