\* Two connections, plans of two steps, a tool that ends the server, and a stderr
\* pipe that fills up during the third job.
SPECIFICATION Spec
CONSTANTS
    echo = echo
    unknown = unknown
    overflow = overflow
    Call <- MCCall
    Effect <- MCEffect
    RawPlan <- MCRawPlan
    Task <- MCTask
    ErrCap = 8
    MaxSession = 2
    MaxId = 3
    None = None
INVARIANTS
    ReportIsTrue
PROPERTIES
    ClosedConnectionEnds
    ImplementsRemoteCall
CHECK_DEADLOCK FALSE
