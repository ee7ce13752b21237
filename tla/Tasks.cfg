\* Scheduler: three tasks, two calls of run(), stop() or a cancellation at
\* any time.  Workers: two consumers, three messages, and two of: keys or results that
\* expire, failures, deaths.  Auctions of up to three profiles.
SPECIFICATION MCFairSpec
CONSTANTS
    t1 = t1
    t2 = t2
    t3 = t3
    j1 = j1
    j2 = j2
    j3 = j3
    Task = {t1, t2, t3}
    Priority <- MCPriority
    MaxRetries <- MCMaxRetries
    MaxRuns = 2
    Nil = Nil
    Worker = {w1, w2}
    Job = {j1, j2, j3}
    Window = 1
    MaxPublished = 3
    MaxLapses = 2
    MaxErrors = 2
    Nobody = Nobody
    AuctionTasks <- MCAuctionTasks
    Profiles <- MCProfiles
    MaxProfiles = 3
INVARIANTS
    TaskConserved
    ExecutedOncePerMark
    AckedWasHandled
    WinnerIsBest
PROPERTIES
    EveryTaskFinishes
    MessagesSettle
\* A scheduler that was stopped or cancelled is not run again once MaxRuns is reached; consumers may all be dead.
CHECK_DEADLOCK FALSE
