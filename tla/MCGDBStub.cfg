SPECIFICATION FairSpec
CONSTANTS
    Pc <- MCPc
    Value <- MCValue
    Region <- MCRegion
    Walk <- MCWalk
    LLONG_MAX = 5
    StackSize = 2
    Command <- MCCommand
    Link <- MCLink
    MaxRetry = 1
INVARIANTS AckReadMeetsNoPacket NoiseIsSurvived
PROPERTIES SessionSpec CommandEnds
