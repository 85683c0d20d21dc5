CONSTANTS
    Scenarios <- MCScenarios
    Undeliverable <- MCUndeliverable
    Chunks = 2
    BufferCap = 1
    MaxPosts = 3
    MaxCopies = 2
    MaxLoops = 2
SPECIFICATION Spec
CHECK_DEADLOCK FALSE
INVARIANTS CursorCoversEnqueued DuplicateHasCause ReplyDelivered
