SPECIFICATION Spec
CONSTANTS
    Hart = {"core0", "core1"}
    Half = 3
    MaxTime = 5
    MaxArms = 1
    MaxSends = 2
    Deadline <- MCDeadline
INVARIANTS NotEarly NoLostMessage
PROPERTIES TimerExpires MessageTaken LinesSettle
