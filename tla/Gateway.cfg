\* Two concurrent requests of every kind, two streams, one posted event, one
\* failing call of the event log or of Redis.
SPECIFICATION MCFairSpec
CONSTANTS
    c1 = c1
    c2 = c2
    q1 = q1
    p1 = p1
    p2 = p2
    Conn = {c1, c2}
    Topic = {"gateway.tool_calls", "knowledge.retrieved"}
    Opens <- MCOpens
    MaxEvents = 1
    None = None
    HasKey = {"anthropic"}
    LLM_PROVIDER = "anthropic"
    DEV_MODE = FALSE
    Req = {q1, q2}
    Input <- MCInput
    Prompt = {p1, p2}
    MaxFaults = 1
INVARIANTS
    FanOutInOrder
    SseAnswersOnce
    AccountInv
    CacheSound
PROPERTIES
    EveryRequestAnswered
    AnswerArrives
CHECK_DEADLOCK FALSE
