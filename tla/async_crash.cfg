\* The store may refuse any call and the process may be killed once.
SPECIFICATION Spec
CONSTANTS
    a = a  b = b  u = u
    w1 = w1  w2 = w2
    NoCopy = NoCopy
    Tasks = {a, b, u}
    Registered = {a, b}
    Workers = {w1, w2}
    MaxAttempts = 1
    LossyNetwork = FALSE
    StoreFaults = TRUE
    MaxCrashes = 1
SYMMETRY Symmetry
INVARIANTS
    RunsOnce
    HonestDone
    NoTaskStranded
    RejectedIsFailed
PROPERTIES
    NoGhostRecords
    TerminalStatusIsFinal
\* Once every client was answered the system rests.
CHECK_DEADLOCK FALSE
