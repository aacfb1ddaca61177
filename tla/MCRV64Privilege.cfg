SPECIFICATION Spec
CONSTANTS
    GuestPC = {0}
    GuestEpc = {1}
    GuestTvec <- MCTvec
    GuestStatus <- MCStatus
    GuestExc <- MCExc
    GuestInt <- MCInt
    Faults = {5}
    Lines <- MCLines
    GuestSatp = {0}
    NoTrap = NoTrap
INVARIANTS
    TypeOK
    OneTrapPerStep
    TrapEntry
    RiseOnlyByTrap
    InterruptGate
    MachineInterruptServed
PROPERTY
    MachineStateProtected
CHECK_DEADLOCK FALSE
