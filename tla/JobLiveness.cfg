\* One job of any kind whose active execution may be leaked, one retried failure.
SPECIFICATION FairSpec
CONSTANTS
    Job = {1}
    Worker = {w1}
    Schedules <- AllSchedules
    Policies = {"fire_once_on_recovery", "skip_missed"}
    Overlaps = {FALSE}
    StaleAge = 0
    MaxRecent = 1
    MaxTime = 3
    MaxOps = 1
    MaxCuts = 0
    MaxFailures = 1
PROPERTY DueIsHandled
