SPECIFICATION FairLink
CONSTANTS
    UIP_CONNS = 1
    Peers = {p1}
    iss = 0
    MaxSeq = 5
    MaxLen = 1
    Acks <- ModelAcks
    FlagSets <- ModelFlags
    ReqLen = 2
    PageLen = 2
    EarlyFin = FALSE
    MaxFaults = 3
INVARIANTS AckedIsHanded AnswerExact
PROPERTIES RequestArrives Completes SlotFreed
CHECK_DEADLOCK FALSE
