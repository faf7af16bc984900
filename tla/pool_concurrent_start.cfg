\* One Start and one Stop at the same time.
SPECIFICATION Spec
CONSTANTS
    s1 = s1  s2 = s2
    p1 = p1  p2 = p2
    w1 = w1  w2 = w2
    Nobody = Nobody
    Workers = {w1, w2}
    Starts = {s1}
    Stops = {p1}
INVARIANTS
    NeverPanics
CHECK_DEADLOCK FALSE
