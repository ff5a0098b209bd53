SPECIFICATION FairSpec
CONSTANTS
    Calls = {c1, c2, c3}
    Dialogs = {d1, d2, d3}
    None = None
    Unset = Unset
    Liberties = {}
INVARIANTS
    CrashTakesNoCall
    OneInvitePerCall
    CleanWhenQuiet
    HangupReaches
PROPERTIES
    CallGoesOut
    AcceptGoesOut
    LineKept
CHECK_DEADLOCK FALSE
