CONSTANTS
    Requests <- AllRequests
    Noise = Noise
    BufSize = 120
    Mss = 13
    Ulong = 65536
    BootBound = 20
    LoaderMax = 24
    LoaderHwidAt = 3
    KernelSector = 3
    NormalEnd = 6
    BackupEnd = 3
    Stacks <- TameStacks
    Conns = {c1, c2}
    Sectors = 8
    SectorUnits = 10
    MaxOpens = 2
    MaxBoots = 2
SPECIFICATION Spec
INVARIANT TypeOK WritesAcceptable OneUpload
PROPERTY CheckedImageFrozen LoaderSectorsSafe
CHECK_DEADLOCK FALSE
SYMMETRY Symmetry
