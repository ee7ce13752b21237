\* Codes and tokens: one code, two competing /token requests, two concurrent bridge
\* calls; a token outlives the margin, and the clock outlives a token.
\* Lock: two sessions on three nodes, one failing call, expiry, one retry.
\* Breaker: three threads share one that opens at the second failure; up to three calls
\* raise, and those under way when the third is counted may raise too.
SPECIFICATION MCSpec
CONSTANTS
    c1 = c1
    c2 = c2
    s1 = s1
    s2 = s2
    k1 = k1
    v1 = v1
    v2 = v2
    user = user
    UserTime = 3
    Client = {c1, c2}
    Secret = {s1, s2}
    User = {user}
    BadUser = {c2}
    Verifier = {v1, v2}
    Code = {k1}
    Scope <- MCScope
    Request = {r1, r2}
    Form <- MCForm
    Registration <- MCRegistration
    Authorization <- MCAuthorization
    CodeTTL = 2
    TokenTTL = 4
    MaxTime = 6
    None = None
    Call = {b1, b2}
    BridgeClient = c1
    BridgeSecret = s1
    Margin = 2
    Timeout = 1
    Session = {l1, l2}
    LockClient = {lc1, lc2}
    N = 3
    TTL = 2
    RetryCount = 2
    MaxFaults = 1
    MaxClock = 3
    Nil = Nil
    Caller = {th1, th2, th3}
    Threshold = 2
    MaxFailures = 3
SYMMETRY RedlockSymmetry
INVARIANTS
    CodeConsumedOnce
    TokenBacked
    RefusalExplained
    NeverRejectedAsExpired
    MutualExclusion
    NothingLeftBehind
    BreakerSound
CHECK_DEADLOCK FALSE
