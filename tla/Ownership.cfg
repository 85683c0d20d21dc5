CONSTANTS
    MaxProcs = 4
    Budgets <- MCBudgets
SPECIFICATION Spec
CHECK_DEADLOCK FALSE
INVARIANTS TwoSupervisorsHasCause StopStops
