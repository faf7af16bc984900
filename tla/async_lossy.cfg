\* Answers of Redis are lost, LPUSH is sent up to three times, the store may refuse, one crash.
SPECIFICATION Spec
CONSTANTS
    a = a  b = b  u = u
    w1 = w1  w2 = w2
    NoCopy = NoCopy
    Tasks = {a}
    Registered = {a}
    Workers = {w1, w2}
    MaxAttempts = 3
    LossyNetwork = TRUE
    StoreFaults = TRUE
    MaxCrashes = 1
SYMMETRY Symmetry
INVARIANTS
    RunsOnce
    HonestDone
    HonestFailure
PROPERTIES
    ImplementsQueue
\* Once every client was answered the system rests.
CHECK_DEADLOCK FALSE
