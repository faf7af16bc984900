\* Two tasks with a handler and one without, two workers, nothing fails.
SPECIFICATION FairSpec
CONSTANTS
    a = a  b = b  u = u
    w1 = w1  w2 = w2
    NoCopy = NoCopy
    Tasks = {a, b, u}
    Registered = {a, b}
    Workers = {w1, w2}
    MaxAttempts = 1
    LossyNetwork = FALSE
    StoreFaults = FALSE
    MaxCrashes = 0
INVARIANTS
    TypeOK
    OutcomeIsRecorded
PROPERTIES
    ImplementsLifecycle
\* Once every client was answered the system rests.
CHECK_DEADLOCK FALSE
