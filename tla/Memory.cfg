CONSTANTS
    Scenarios <- MCScenarios
    Bodies <- MCBodies
    FileNames <- MCFileNames
    Messages = {"m1", "m2", "m3"}
    TopN = 2
SPECIFICATION Spec
CHECK_DEADLOCK FALSE
INVARIANTS FileAccounted RejectionHasCause EmbeddingCurrent
    EmptyBulletinHasCause BulletinKeepsPriorities
PROPERTIES ReplayChangesNothing
