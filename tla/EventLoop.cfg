\* Two submitted calls, two operations on handles and a mount share the metadata
\* pipeline, whose depth moves between 1 and 3, beside a bulk operation.
CONSTANTS
    s1 = s1
    s2 = s2
    h1 = h1
    h2 = h2
    b1 = b1
    m1 = m1
    SubmitOps = {s1, s2}
    BulkOps = {b1}
    HandleOps = {h1, h2}
    MountOps = {m1}
    ExportOps = {}
    MaxPendingOperations = 1
    TimeoutEnabled = TRUE
    Unit = 2
    MinDepth = 1
    MaxDepth = 3
    DefaultDepth = 2
    DefaultSsthresh = 3
SPECIFICATION Spec
SYMMETRY Symmetry
INVARIANTS
    TypeOK
    WaitingIsActive
    CallbackDataAlive
    ClosedIsQuiet
    DefiniteOutcomes
    OvercountAtMostOne
    UndercountExplained
    WorkConserving
    ResumesOnQueue
PROPERTIES
    NeverSentTwice
    CompletesOnce
CHECK_DEADLOCK FALSE
