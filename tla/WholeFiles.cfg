\* Two chunks, the second one short; a first attempt and two retries.
CONSTANTS
    Size = 3
    ChunkSize = 2
    MaxAttempts = 3
SPECIFICATION Spec
INVARIANTS
    RetryIsSafe
    ReadInPlace
    ReadYourWrites
PROPERTIES
    BothEnd
CHECK_DEADLOCK FALSE
