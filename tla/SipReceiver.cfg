SPECIFICATION FairSpec
CONSTANTS
    Receivers = {r1, r2, r3}
    MaxEvents = 1
    Liberties = {"logoutFirst", "relogin", "proxy"}
INVARIANTS
    TypeOK
    NoLostWakeup
    LoginServed
PROPERTIES
    LogoutReturns
    ReceiversWindDown
