CONSTANTS
    IPs <- AllIPs
    Macs = {m1, m2}
    ZeroMac = ZeroMac
    Broadcast = Broadcast
    HostAddr <- Host
    LocalNet <- Net
    Slots = 2
    Wrap = 3
    MaxAge = 2
    Polls = 2
    MaxTicks = 3
SPECIFICATION Spec
INVARIANT TypeOK OneEntryPerHost AnswerReachesSender
PROPERTY NoEarlyExpiry
