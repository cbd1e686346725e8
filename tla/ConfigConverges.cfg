CONSTANTS
    a1 = a1
    a2 = a2
    x1 = x1
    x2 = x2
    v1 = v1
    v2 = v2
    NoValue = NoValue
    Null = Null
    Envelope = Envelope
    Agents <- OneAgent
    Exts <- TwoExts
    Values <- JsonValues
    Rejected <- RejectedValues
    Acks <- AnyAck
    Scopes <- AnyScope
    MaxSets = 2
    Faults <- AllFaults
    Bytes <- SomeBytes
    MaxLength = 3
    ItemNames <- SomeNames
SPECIFICATION Spec
CHECK_DEADLOCK FALSE
SYMMETRY Symmetry
INVARIANTS TypeOK KeyIsReadBack Converges RejectedIsGone
PROPERTY RevisionsGrow
