CONSTANTS
    p1 = p1
    p2 = p2
    p3 = p3
    c1 = c1
    c2 = c2
    h1 = h1
    h2 = h2
    NoContent = NoContent
    NoCode = NoCode
    Clients <- ThreeClients
    Codes <- TwoCodes
    Contents <- TwoContents
    Faults = TRUE
SPECIFICATION Spec
SYMMETRY Symmetry
INVARIANTS TypeOK MetaHasBytes IndexIsSound
