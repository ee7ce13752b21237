\* Two iterations over plans with distinct ids.
SPECIFICATION Spec
CONSTANTS
    StepId <- MCStepId
    Tool <- MCTool
    DESTRUCTIVE_TOOLS <- MCDestructive
    Plans <- MCPlainPlans
    MAX_ITERATIONS = 2
    PLAN_MAX_PARALLEL = 2
    MaxCrashes = 0
    MaxRuns = 1
    Nil = Nil
INVARIANTS
    SkippedOnlyOnReplay
CHECK_DEADLOCK FALSE
