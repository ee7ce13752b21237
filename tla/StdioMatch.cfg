\* The answer of a call that timed out is taken for the next one's.
SPECIFICATION Spec
CONSTANTS
    echo = echo
    unknown = unknown
    overflow = overflow
    Call <- MCCall
    Effect <- MCEffect
    RawPlan <- MCRawPlan
    Task <- MCTask
    ErrCap = 8
    MaxSession = 1
    MaxId = 3
    None = None
INVARIANT MatchingResponse
CHECK_DEADLOCK FALSE
