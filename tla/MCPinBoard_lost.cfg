SPECIFICATION Spec
CONSTANTS
    t1 = t1
    t2 = t2
    t3 = t3
    p1 = p1
    p2 = p2
    p3 = p3
    p4 = p4
    Threads = {t1, t2}
    Pins = {p1, p2, p3}
    MaxUnpins = 1
    MaxCrashes = 0
SYMMETRY Interchangeable
CHECK_DEADLOCK FALSE
INVARIANT PinnedStays
