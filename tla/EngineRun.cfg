\* A review loop, a cancel command, one crash or error.
SPECIFICATION FairSpec
CONSTANTS
    review = review  done = done  e1 = e1
    NoStep = NoStep
    Step <- ReviewLoop
    First = review
    Successors <- ReviewSuccessors
    Engine = {e1}
    MaxIter = 3
    MaxRetries = 1
    MaxResumes = 1
    MaxCancels = 1
    MaxCuts = 1
INVARIANTS TypeOK InvocationBound PathFollowed CancelTakesEffect
PROPERTIES TerminalIsFinal EventuallyTerminal
CHECK_DEADLOCK FALSE
