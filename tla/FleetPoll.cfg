\* Polling a batch of two while jobs run, a call fails and a record is evicted.
SPECIFICATION FairPollSpec
CONSTANTS
    Job = {j1, j2}
    Request = {b1}
    Batch = {b1}
    Size <- MCSize
    Gateway = {g1}
    FLEET_CONCURRENCY = 1
    Evictable = {j1}
    MaxFaults = 1
    MaxCrashes = 0
    Nil = Nil
INVARIANTS
    PollIsTruthful
PROPERTIES
    PollCompletes
CHECK_DEADLOCK FALSE
