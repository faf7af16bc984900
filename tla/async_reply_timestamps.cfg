\* No fault at all: the worker finishes before the response is filled.
SPECIFICATION Spec
CONSTANTS
    a = a  b = b  u = u
    w1 = w1  w2 = w2
    NoCopy = NoCopy
    Tasks = {a}
    Registered = {a}
    Workers = {w1}
    MaxAttempts = 1
    LossyNetwork = FALSE
    StoreFaults = FALSE
    MaxCrashes = 0
INVARIANTS
    ReplyHasTimestamps
CHECK_DEADLOCK FALSE
