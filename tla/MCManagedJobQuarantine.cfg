\* Two failing jobs, each after a passed probe of its own.
SPECIFICATION JobSpec
CONSTANTS
    r1 = r1
    w1 = w1
    None = None
    Workers = {w1}
    Runners = {r1}
    WorkersFor <- MCWorkersFor
    Threshold = 3
    Requests = {q1}
    Attempts = 3
    Ttl = 2
    Skew = 1
    MaxAge = 4
    Offsets <- MCOffsets
    NoResult = NoResult
    Unreadable = Unreadable
CHECK_DEADLOCK FALSE
INVARIANT RepeatedFailuresQuarantine
