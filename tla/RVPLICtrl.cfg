SPECIFICATION PlicSpec
CONSTANTS
    Source = {1, 2}
    Context = {1, 3}
    MaxLevel = 1
INVARIANTS
    ExclusiveClaim
    NoOrphanClaim
