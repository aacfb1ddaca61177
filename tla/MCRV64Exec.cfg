SPECIFICATION Spec
CONSTANTS
    Loaded <- MCLoaded
    Faulting <- MCFaulting
    Program <- MCProgram
INVARIANTS
    AluMatchesIsa
    AmoMatchesIsa
    CompressedAgrees
    TrapsArePrecise
CHECK_DEADLOCK FALSE
