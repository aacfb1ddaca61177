SPECIFICATION Spec
CONSTANTS
    VPN <- MCVPN
    PPN <- MCPPN
    RAM <- MCRAM
    ASID = {0, 1}
    GuestMemory <- MCMemory
    GuestStore <- MCStore3
    GuestVAddr <- MCVAddr
    GuestSATP <- MCSatp3
    GuestFence <- MCFence3
    Garbage <- MCGarbage
    TLB_SIZE = 3
    AllAddrs = AllAddrs
    NoEntry = NoEntry
    NoAnswer = NoAnswer
INVARIANT
    ScanFindsAtMostOne
CHECK_DEADLOCK FALSE
