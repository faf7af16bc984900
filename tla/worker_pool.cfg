\* Two Starts and two Stops, called in any order and at the same time.
SPECIFICATION FairSpec
CONSTANTS
    s1 = s1  s2 = s2
    p1 = p1  p2 = p2
    w1 = w1  w2 = w2
    Nobody = Nobody
    Workers = {w1}
    Starts = {s1, s2}
    Stops = {p1, p2}
INVARIANTS
    TypeOK
    CounterIsExact
    GracefulStopIsQuiet
    OnlyStartIsCancelled
    OnlyCrossedStopsPanic
    StoppedWorkersTakeNoMore
PROPERTIES
    StopReturns
    StoppedWorkersExit
\* The pool rests once it is stopped, or is dead.
CHECK_DEADLOCK FALSE
