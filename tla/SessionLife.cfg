CONSTANTS
    r1 = r1
    r2 = r2
    c1 = c1
    agent = agent
    locale = locale
    motd = motd
    theme = theme
    NilPayload = NilPayload
    NullPayload = NullPayload
    Absent = Absent
    Replicas <- TwoReplicas
    Clients <- OneClient
    Variables <- AllVariables
    Scoped <- SessionVariables
    Identity <- Ids
    Agent <- agent
    CallSchema <- TheCall
    EventSchema <- TheEvent
    Args <- FewArgs
    Schemas <- TheSchemas
    Values <- TheValues
    Bounds <- FourBounds
    Faults <- AllFaults
SPECIFICATION Spec
CHECK_DEADLOCK FALSE
SYMMETRY Symmetry
INVARIANTS CleanedUp NoInheritance HandledConforms CallsAreHeld
