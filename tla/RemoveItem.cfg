\* Eight entries, two links out of the tree and one back into it; others touch three.
CONSTANTS
    Entries = {"r", "a", "k", "l", "m", "o", "x", "y"}
    Parent <- TreeParent
    Root = "r"
    Links = {"k", "l", "m"}
    LinkTo <- TreeLinkTo
    Directories = {"r", "a", "o"}
    Shared = {"l", "m", "x"}
    MaxDepth = 4
    None = "none"
SPECIFICATION Spec
INVARIANTS
    OnlyReachable
PROPERTIES
    SuccessMeansGone
    Terminates
CHECK_DEADLOCK FALSE
