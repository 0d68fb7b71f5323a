\* Two export queries beside a submitted call, a bulk operation and a mount,
\* with the timeout timer.  No symmetry: a liveness property is checked.
CONSTANTS
    s1 = s1
    b1 = b1
    m1 = m1
    e1 = e1
    e2 = e2
    SubmitOps = {s1}
    BulkOps = {b1}
    HandleOps = {}
    MountOps = {m1}
    ExportOps = {e1, e2}
    MaxPendingOperations = 1
    TimeoutEnabled = TRUE
    Unit = 2
    MinDepth = 1
    MaxDepth = 4
    DefaultDepth = 2
    DefaultSsthresh = 4
SPECIFICATION TimedSpec
INVARIANTS
    ExportsExclusive
    ExportsReleased
PROPERTIES
    OneRecordPerEvent
    TimedCallsReturn
CHECK_DEADLOCK FALSE
