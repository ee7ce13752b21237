\* Agents: the orchestrator by itself and crews of up to two agents; two iterations over
\* seven small plans, one crash, two runs of a thread, sequential and parallel.  Optimizer:
\* two jobs, three traces, one kill or failed commit.  Knowledge: two texts by two owners.
SPECIFICATION MCSpec
CONSTANTS
    StepId <- MCStepId
    Tool <- MCTool
    DESTRUCTIVE_TOOLS <- MCDestructive
    Plans <- MCPlans
    MAX_ITERATIONS = 2
    PLAN_MAX_PARALLEL = 2
    MaxCrashes = 1
    MaxRuns = 2
    Nil = Nil
    Crews <- MCCrews
    RolePatterns <- MCRolePatterns
    Matches <- MCMatches
    p1 = p1
    p2 = p2
    Pair = {p1, p2}
    Trace <- MCTrace
    Synthetic <- MCSynthetic
    Base <- MCBase
    Demos <- MCDemos
    population_size = 4
    limit = 2
    MaxTraces = 3
    MaxJobs = 2
    MaxFaults = 1
    Absent = Absent
    Torn = Torn
    Owner = {o1, o2}
    Document <- MCDocument
    chunk_size = 4
    overlap = 2
    KeyLen = 2
    MaxMessages = 2
INVARIANTS
    AnsweredBeforeEffects
    EffectsNotRepeated
    DependenciesFirst
    PlanInv
    ToolsWithinScope
    CrewHonest
    ManifestResolves
    TracesUsedOnce
    IngestedIsSearchable
PROPERTIES
    EveryAgentRunEnds
\* Runs end, jobs and messages are bounded, the ingestion worker may have died.
CHECK_DEADLOCK FALSE
