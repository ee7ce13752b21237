\* One run over plans with destructive steps, and an operator who may refuse.
SPECIFICATION Spec
CONSTANTS
    StepId <- MCStepId
    Tool <- MCTool
    DESTRUCTIVE_TOOLS <- MCDestructive
    Plans <- MCPlans
    MAX_ITERATIONS = 1
    PLAN_MAX_PARALLEL = 2
    MaxCrashes = 0
    MaxRuns = 1
    Nil = Nil
INVARIANTS
    ApprovedBeforeEffects
CHECK_DEADLOCK FALSE
