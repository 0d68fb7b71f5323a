\* A server that answers everything, no timeouts, and a close that is answered
\* inline while the pipeline is one slot deep.
CONSTANTS
    s1 = s1
    h1 = h1
    m1 = m1
    SubmitOps = {s1}
    BulkOps = {}
    HandleOps = {h1}
    MountOps = {m1}
    ExportOps = {}
    MaxPendingOperations = 1
    TimeoutEnabled = FALSE
    Unit = 2
    MinDepth = 1
    MaxDepth = 2
    DefaultDepth = 1
    DefaultSsthresh = 2
SPECIFICATION ResponsiveSpec
PROPERTIES
    CallsReturn
CHECK_DEADLOCK FALSE
