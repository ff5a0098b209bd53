SPECIFICATION Spec
CONSTANTS
    Calls = {c1}
    Dialogs = {d1, d2}
    None = None
    Unset = Unset
    Liberties = {"hasty", "earlyHangup", "lateAnswer", "lateIce", "callWaiting",
                 "logoutInCall", "reject", "staleReject", "foreignAgent", "bodiless",
                 "noMessage", "fork", "reinvite"}
INVARIANTS
    TypeOK
    EndedOnce
SYMMETRY Symmetry
CHECK_DEADLOCK FALSE
