\* One answer of Redis lost: the error path of the submission races a worker.
SPECIFICATION Spec
CONSTANTS
    a = a  b = b  u = u
    w1 = w1  w2 = w2
    NoCopy = NoCopy
    Tasks = {a}
    Registered = {a}
    Workers = {w1}
    MaxAttempts = 1
    LossyNetwork = TRUE
    StoreFaults = FALSE
    MaxCrashes = 0
PROPERTIES
    TerminalStatusIsFinal
CHECK_DEADLOCK FALSE
