SPECIFICATION FairSpec
CONSTANTS
    Handles = {h1, h2}
    Reqs = {q1, q2}
    Calls = {c1}
    NoHandle = NoHandle
    EngineWaits = TRUE
    SingleMonitor = TRUE
INVARIANTS
    TypeOK
    CallsSeeLiveModule
    AnsweredOnce
    NothingLeftBehind
    SessionClosedOnce
    FilterFindsItsModule
PROPERTIES
    CloseEnds
