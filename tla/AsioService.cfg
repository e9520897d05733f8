SPECIFICATION Spec
CONSTANTS
    Handles = {h1, h2}
    Workers = {w1, w2}
    Main = main
    NoHandle = none
    MaxCalls = 2
INVARIANTS
    TypeOK
    NothingOutlivesChannel
    AbortOnlyUnbound
    ShutdownEmpties
PROPERTIES
    TimerFires
    ShutdownEnds
CHECK_DEADLOCK FALSE
