SPECIFICATION CmdSpec
CONSTANTS
    PageSize = 4
    SectorPages = 1
    Sectors = 3
    MaxCalls = 2
    Base = 16
    Ulong = 64
    Addrs <- ModelAddrs
    Lens <- ModelLens
INVARIANT WriteExact
PROPERTIES Inside ProtectedKept
