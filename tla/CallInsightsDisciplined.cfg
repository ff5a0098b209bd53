SPECIFICATION FairSpec
CONSTANTS
    Calls = {c1, c2}
    Clients = {w1, w2, w3}
    MaxTicks = 1
    None = None
    Environments <- NoLiberty
INVARIANTS
    TimerStopsWithCall
PROPERTY
    ChannelKept
CHECK_DEADLOCK FALSE
