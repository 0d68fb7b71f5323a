\* A chunk that times out while libnfs still holds its slice.
CONSTANTS
    r1 = r1
    r2 = r2
    w1 = w1
    c1 = c1
    c2 = c2
    Reads = {r1, r2}
    Writes = {w1}
    Chunks = {c1, c2}
    Timeouts = TRUE
SPECIFICATION Spec
SYMMETRY Symmetry
INVARIANTS
    ReadBufferAlive
CHECK_DEADLOCK FALSE
