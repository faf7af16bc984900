\* Two Starts, one after the other, and a Stop after both.
SPECIFICATION Spec
CONSTANTS
    s1 = s1  s2 = s2
    p1 = p1  p2 = p2
    w1 = w1  w2 = w2
    Nobody = Nobody
    Workers = {w1}
    Starts = {s1, s2}
    Stops = {p1}
INVARIANTS
    StopReachesEveryWorker
CHECK_DEADLOCK FALSE
