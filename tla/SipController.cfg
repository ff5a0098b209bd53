SPECIFICATION FairSpec
CONSTANTS
    Calls = {c1, c2}
    None = None
    Environments <- Environment
INVARIANTS
    TypeOK
    OnlyHangupThrows
    AnswerReported
    ReportsOwnCall
    SummaryLast
    TimersStopped
PROPERTIES
    CallProceeds
CHECK_DEADLOCK FALSE
