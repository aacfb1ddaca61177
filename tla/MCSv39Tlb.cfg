SPECIFICATION Spec
CONSTANTS
    VPN <- MCVPN
    PPN <- MCPPN
    RAM <- MCRAM
    ASID = {0, 1}
    GuestMemory <- MCMemory
    GuestStore <- MCStore
    GuestVAddr <- MCVAddrFault
    GuestSATP <- MCSatp
    GuestFence <- MCFence
    Garbage <- MCGarbage
    TLB_SIZE = 2
    AllAddrs = AllAddrs
    NoEntry = NoEntry
    NoAnswer = NoAnswer
INVARIANTS
    TypeOK
    CacheSound
    LiveAllowed
PROPERTY
    Transparent
CHECK_DEADLOCK FALSE
