SPECIFICATION RecoverySpec
SYMMETRY Controllers
CONSTANTS
    k1 = k1
    w51 = w51
    None = None
    Keys = {k1}
    Clients = {c1, c2}
    Owners = {c1, c2}
    Runtimes = {w51}
    OwnerOf <- MCOwnerOf
    RuntimeOf <- MCRuntimeOf
    Serves <- MCServes
    Priority <- MCPriority
    MaxAttempts <- MCMaxAttempts
    LeaseTime = 0
    MaxDelay = 0
    MaxGeneration = 3
INVARIANTS
    CopiedJobsPreserved
