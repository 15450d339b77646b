SPECIFICATION LiveSpec
CONSTANTS
    k1 = k1
    k2 = k2
    w51 = w51
    None = None
    Keys = {k1}
    Clients = {c1, c2}
    Owners = {c1, c2}
    Runtimes = {w51}
    OwnerOf <- MCOwnerOf
    RuntimeOf <- MCRuntimeOf
    Serves <- MCServes
    Priority <- MCPriority
    MaxAttempts <- MCMaxAttempts
    LeaseTime = 1
    MaxDelay = 1
PROPERTIES
    EveryJobSettles
