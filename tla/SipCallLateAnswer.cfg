SPECIFICATION Spec
CONSTANTS
    Calls = {c1, c2}
    Dialogs = {d1, d2}
    None = None
    Unset = Unset
    Liberties = {"lateAnswer"}
INVARIANT
    AnsweredOnlyIfAccepted
CHECK_DEADLOCK FALSE
