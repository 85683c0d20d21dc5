\* The heartbeat message among the others of Dispatch.cfg.
SPECIFICATION Spec
CONSTANTS
    StepIds <- Alphabet
    Outputs <- KeysOf
    Msgs = {"m1", "m2"}
    Scenarios <- Stories
    Threads = {d1, d2}
    Workflows <- Declared
    Default = "short"
    Retries = 1
    ChanceTries = 2
    MaxTries = 2
    StepTries = 2
SYMMETRY Sym
INVARIANTS HeartbeatReachesAgent
CHECK_DEADLOCK FALSE
