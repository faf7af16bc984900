\* One task that outlasts the server's WriteTimeout.
SPECIFICATION Spec
CONSTANTS
    a = a  s = s  u = u
    Tasks = {s}
    Registered = {s}
    Slow = {s}
    StoreFaults = FALSE
INVARIANTS
    FinalResultIsReturned
CHECK_DEADLOCK FALSE
