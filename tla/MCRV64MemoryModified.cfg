SPECIFICATION Spec
CONSTANTS
    Hart = {h1, h2}
    VA = {"a", "b"}
    PA = {"p1", "p2"}
    RAM = {"p1", "p2"}
    Space = {"s"}
    Table <- MCTable
    Bare <- MCBare
    Mode <- MCMode
    Val = {0, 1}
    NoPage = NoPage
    None = None
INVARIANT
    ScFailsIfModified
