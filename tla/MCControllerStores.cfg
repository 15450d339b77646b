SPECIFICATION ControllerSpec
CHECK_DEADLOCK FALSE
CONSTANTS
    k1 = k1
    w51 = w51
    p1 = p1
    p2 = p2
    p3 = p3
    x = x
    y = y
    None = None
    Keys = {k1}
    Clients = {c1, c2}
    Owners = {c1, c2}
    Recovering = {c1}
    Runtimes = {w51}
    OwnerOf <- MCOwnerOf
    RuntimeOf <- MCRuntimeOf
    Serves <- MCServes
    Priority <- MCPriority
    MaxAttempts <- MCMaxAttempts
    LeaseTime = 0
    MaxDelay = 0
    MaxGeneration = 4
    Procs = {p1, p2, p3}
    Nobody = Nobody
    Tails = {"nothing", "cut", "bare"}
    MaxRecords = 4
    Runs = {p1, p2}
    Sources = {x, y}
    Contents = {"good", "bad"}
    Passing = {"good"}
    Modes <- ResumingRuns
    PoolSize = 2
    MaxEdits = 1
SYMMETRY Interchangeable
INVARIANTS
    ControllerTypeOK
    CopiesHonest
    CopiedJobsPreserved
    JournalSound
    RunsSound
PROPERTIES
    ServedAsQueue
    StaleWritersRevertNothing
