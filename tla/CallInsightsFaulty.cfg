SPECIFICATION Spec
CONSTANTS
    Calls = {c1}
    Clients = {w1, w2}
    MaxTicks = 1
    None = None
    Environments <- Faulty
INVARIANTS
    TypeOK
    NothingLost
    FirstDeliveryInOrder
SYMMETRY Symmetry
CHECK_DEADLOCK FALSE
