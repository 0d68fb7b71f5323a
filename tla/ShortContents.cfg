\* A chunk that is answered with fewer bytes than were asked for.
CONSTANTS
    r1 = r1
    r2 = r2
    w1 = w1
    c1 = c1
    c2 = c2
    Reads = {r1, r2}
    Writes = {w1}
    Chunks = {c1, c2}
    Timeouts = TRUE
SPECIFICATION Spec
SYMMETRY Symmetry
INVARIANTS
    ReturnedWasRead
CHECK_DEADLOCK FALSE
