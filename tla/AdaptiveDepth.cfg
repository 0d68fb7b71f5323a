\* The defaults of PipelineController.swift, in thirty-seconds of a slot.
CONSTANTS
    Unit = 32
    MinDepth = 1
    MaxDepth = 32
    DefaultDepth = 2
    DefaultSsthresh = 16
SPECIFICATION Spec
INVARIANTS
    TypeOK
    WindowGrowsByOne
PROPERTIES
    Recovers
