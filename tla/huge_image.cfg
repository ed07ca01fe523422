CONSTANTS
    Requests <- HugeRequests
    Noise = Noise
    BufSize = 120
    Mss = 40
    Ulong = 65536
    BootBound = 20
    LoaderMax = 24
    LoaderHwidAt = 3
    KernelSector = 3
    NormalEnd = 6
    BackupEnd = 3
    Stacks <- NoStack
    Conns = {c1}
    Sectors = 8
    SectorUnits = 10
    MaxOpens = 1
    MaxBoots = 1
SPECIFICATION Spec
INVARIANT ProgramsErased
CHECK_DEADLOCK FALSE
