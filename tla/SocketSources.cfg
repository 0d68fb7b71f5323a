\* Two descriptor numbers; the third and fourth socket have no inode.
CONSTANTS
    Fds = {3, 4}
    MaxSockets = 5
    Opaque = {3, 4}
SPECIFICATION Spec
INVARIANTS
    SuspensionsBalance
    WatchesSocket
    WriteInterestServed
CHECK_DEADLOCK FALSE
