SPECIFICATION JobSpec
\* Nothing moves once a submission has ended.
CHECK_DEADLOCK FALSE
CONSTANTS
    r1 = r1
    w1 = w1
    None = None
    Workers = {w1, w2}
    Runners = {r1, r2}
    WorkersFor <- MCWorkersFor
    Threshold = 2
    Requests = {q1}
    Attempts = 3
    Ttl = 2
    Skew = 1
    MaxAge = 4
    Offsets <- MCOffsets
    NoResult = NoResult
    Unreadable = Unreadable
INVARIANTS
    ActiveBelowThreshold
    NothingLeftBehind
    OneAnswer
    ExecutedOnceUntilExpiry
PROPERTIES
    OnlyOperatorsReadmit
    RanAlone
