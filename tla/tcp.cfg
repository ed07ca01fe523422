SPECIFICATION Spec
CONSTANTS
    UIP_CONNS = 2
    Peers = {p1, p2}
    iss = 0
    MaxSeq = 4
    MaxLen = 1
    Acks = {1, 2}
    FlagSets <- ModelFlags
SYMMETRY Symmetry
INVARIANTS TypeOK OnePerPeer
PROPERTY InOrder
