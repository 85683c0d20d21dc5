\* A Slack message whose outbound target does not resolve beside a scheduler
\* trigger answered in Slack: two keys, one slot,
\* one failing file operation.
SPECIFICATION Spec
CONSTANTS
    m1 = m1  m2 = m2
    Blank = Blank
    Msg <- MessageAndTrigger
    Payload <- MixedPayload
    Redirected = {m2}
    Untargetable = {m1}
    MultiStep = {}
    Torn = {}
    MaxConcurrency = 1
    ClaimFactor = 1
    MaxAttempts = 2
    AttemptCeiling = 3
    MaxReplies = 1
    MaxStarts = 2
    MaxIoErrors = 1
INVARIANTS NoMessageLost OneStage
PROPERTIES ImplementsContract
CHECK_DEADLOCK FALSE
