SPECIFICATION Spec
CONSTANTS
    Source = {1}
    Context = {1, 3}
    MaxLevel = 1
    StepPeriod = 3
    MaxIn = 3
    MaxOut = 2
    MaxMoves = 2
INVARIANTS
    PlatformTypeOK
    OneHandler
    RxInOrder
    TxInOrder
PROPERTIES
    PlicSpec
    InputRead
    InterruptsSettle
