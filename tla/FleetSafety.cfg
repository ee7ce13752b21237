\* Two gateway processes with one permit each, one batch of two jobs; a Redis call
\* fails, a process exits and records are evicted at any point.
SPECIFICATION Spec
CONSTANTS
    b1 = b1
    s1 = s1
    Job = {j1, j2}
    Request = {b1}
    Batch = {b1}
    Size <- MCSize
    Gateway = {g1, g2}
    FLEET_CONCURRENCY = 1
    Evictable = {j1, j2}
    MaxFaults = 1
    MaxCrashes = 1
    Nil = Nil
SYMMETRY JobAndGatewaySymmetry
INVARIANTS
    PermitsConserved
    AckedIsFinal
    ExecutedAtMostOnce
    RepliesAreBacked
    NothingStranded
PROPERTIES
    ImplementsJobLife
\* Everything submitted, settled and no fault left: the fleet is idle.
CHECK_DEADLOCK FALSE
