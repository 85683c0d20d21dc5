SPECIFICATION Spec
CONSTANTS
    Rank <- MCRank
    Orchs = {"main", "ops"}
    AgentNames = {"extra"}
    WorkflowNames = {"extra"}
    StepNames = {"extra"}
    Templates = {"product"}
    SharedKeys = {"docs"}
    AccessInputs <- MCAccessInputs
    OutputInputs <- MCOutputInputs
    Starts <- MCStarts
INVARIANTS DiskConfigsValid UnloadableHasCause DraftLostHasCause
CHECK_DEADLOCK FALSE
