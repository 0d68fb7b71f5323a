\* Two files, a directory, one operation at a time and two log handlers.
CONSTANTS
    Files = {f1, f2}
    Dirs = {d1}
    Ops = {c1}
    Handlers = {h1, h2}
    MaxHandleID = 2
    None = None
SPECIFICATION FairSpec
INVARIANTS
    ReleasedOnce
    RegistryIsOpen
    AwaitedHandleIsOpen
    NoOrphans
    LogCallbackAlive
PROPERTIES
    DroppedIsClosed
    OpsReturn
CHECK_DEADLOCK FALSE
