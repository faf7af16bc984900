\* A quick, a slow and an unknown task; faults, disconnects, signals, timeouts.
SPECIFICATION FairSpec
CONSTANTS
    a = a  s = s  u = u
    Tasks = {a, s, u}
    Registered = {a, s}
    Slow = {s}
    StoreFaults = TRUE
INVARIANTS
    TypeOK
    SuccessIsComplete
    ErrorIsRecorded
    GracefulExitFinishesTasks
PROPERTIES
    ImplementsLifecycle
    ClientsAreAnswered
    ShutdownEnds
\* The process exits.
CHECK_DEADLOCK FALSE
