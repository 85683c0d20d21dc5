\* One conversation, a crash or a restart.
SPECIFICATION Spec
CONSTANTS
    m1 = m1  m2 = m2
    Blank = Blank
    Msg <- TwoOfAThread
    Payload <- ThreadPayload
    Redirected = {}
    Untargetable = {}
    MultiStep = {m1, m2}
    Torn = {}
    MaxConcurrency = 2
    ClaimFactor = 1
    MaxAttempts = 2
    AttemptCeiling = 3
    MaxReplies = 2
    MaxStarts = 2
    MaxIoErrors = 0
INVARIANTS TypeOK KeyExclusion SlotAccounting RetryBound OvertakenOnlyIfRetried NoRerunWhileReplyQueued
SYMMETRY ThreadSymmetry
CHECK_DEADLOCK FALSE
