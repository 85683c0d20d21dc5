\* Liveness of one conversation while the daemon lives.
SPECIFICATION FairSpec
CONSTANTS
    m1 = m1  m2 = m2
    Blank = Blank
    Msg <- TwoOfAThread
    Payload <- ThreadPayload
    Redirected = {}
    Untargetable = {}
    MultiStep = {}
    Torn = {}
    MaxConcurrency = 2
    ClaimFactor = 1
    MaxAttempts = 2
    AttemptCeiling = 2
    MaxReplies = 1
    MaxStarts = 2
    MaxIoErrors = 0
PROPERTIES EventuallySettled
CHECK_DEADLOCK FALSE
