SPECIFICATION Spec
CONSTANTS
    ram = ram
    uart = uart
    plic = plic
    NoDev = NoDev
    Dev <- MCDev
    Addr <- MCAddr
    Size <- MCSize
    RegionSize <- MCRegionSize
    Ram <- MCRam
INVARIANTS CacheAgrees
PROPERTIES DecodeStable
CHECK_DEADLOCK FALSE
