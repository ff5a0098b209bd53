SPECIFICATION Spec
CONSTANTS
    Calls = {c1, c2}
    None = None
    Environments <- AnyEnvironment
INVARIANTS
    TypeOK
    MutedAsAsked
SYMMETRY Symmetry
CHECK_DEADLOCK FALSE
