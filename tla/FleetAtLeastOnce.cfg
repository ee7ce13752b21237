\* One process exit, no other fault: a claimed job is never delivered again.
SPECIFICATION FairSpec
CONSTANTS
    b1 = b1
    s1 = s1
    Job = {j1}
    Request = {s1}
    Batch = {}
    Size <- MCSize
    Gateway = {g1}
    FLEET_CONCURRENCY = 1
    Evictable = {}
    MaxFaults = 0
    MaxCrashes = 1
    Nil = Nil
PROPERTIES
    AtLeastOnceDelivery
CHECK_DEADLOCK FALSE
