SPECIFICATION Spec
CONSTANTS
    Calls = {c1, c2}
    Dialogs = {d1, d2}
    None = None
    Unset = Unset
    Liberties = {}
INVARIANT
    DoneMeansDestroyed
CHECK_DEADLOCK FALSE
