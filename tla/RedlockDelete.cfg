\* A key that expires between the GET and the DELETE of its release.
SPECIFICATION RedlockSpec
CONSTANTS
    Session = {s1, s2}
    LockClient = {c1, c2}
    N = 1
    TTL = 1
    RetryCount = 1
    MaxFaults = 0
    MaxClock = 3
    Nil = Nil
SYMMETRY RedlockSymmetry
PROPERTIES
    DeletesOnlyOwnToken
CHECK_DEADLOCK FALSE
