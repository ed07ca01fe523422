SPECIFICATION FairLink
CONSTANTS
    UIP_CONNS = 1
    Peers = {p1}
    iss = 0
    MaxSeq = 5
    MaxLen = 1
    Acks <- ModelAcks
    FlagSets <- ModelFlags
    ReqLen = 2
    PageLen = 2
    EarlyFin = TRUE
    MaxFaults = 1
CHECK_DEADLOCK FALSE
INVARIANT AnswerExact
