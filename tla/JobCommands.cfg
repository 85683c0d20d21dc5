\* One interval job, a client that changes it while it runs, and a crash or an
\* error at any step.
SPECIFICATION Spec
CONSTANTS
    Job = {1}
    Worker = {w1}
    Schedules <- IntervalOnly
    Policies = {"fire_once_on_recovery"}
    Overlaps = {FALSE}
    StaleAge = 1
    MaxRecent = 1
    MaxTime = 2
    MaxOps = 2
    MaxCuts = 1
    MaxFailures = 0
INVARIANTS TypeOK WedgedOnlyByRace DispatchBound OverlapHasCause
CHECK_DEADLOCK FALSE
