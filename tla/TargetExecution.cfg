SPECIFICATION FairExecutionSpec
\* Nothing moves once the call has returned or the report is made.
CHECK_DEADLOCK FALSE
CONSTANTS
    \* One stream, a limit below what one read waits for, one process allowed.
    Leader = leader
    Children = {c1}
    Streams = {stdout}
    Chunk = 2
    Limit = 1
    MaxProcesses = 1
    MaxWritten = 2
    MaxHooks = 1
INVARIANTS
    ResultsHold
    TargetSound
PROPERTY
    CommandReturns
