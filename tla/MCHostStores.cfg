SPECIFICATION HostSpec
CHECK_DEADLOCK FALSE
CONSTANTS
    p1 = p1
    p2 = p2
    x = x
    y = y
    Attempts = {p1, p2}
    Sessions = {x, y}
    Files = {"f", "g"}
    Versions = {"v0", "v1"}
    MaxAttempts = 1
    MaxFaults = 1
    Threads = {p1, p2}
    TransferIds = {x, y}
    Controllers = {c1}
    Chunks = {1}
    MaxStoreTroubles = 1
    Handlers = {p1, p2}
    Jobs = {j1}
    Uploads = {"good", "bad"}
    Valid = {"good"}
    PoolWorkers = 1
    Packages = {x, y}
    Users = {p1, p2}
    NoUser = NoUser
    Gone = gone
    MaxCalls = 3
    MaxPackageTroubles = 1
    Generations = {1, 2}
    Appliers = {p1, p2}
    MaxApplies = 3
    MaxRotationCrashes = 1
    Signers = {p1, p2}
    MaxIssues = 2
    MaxGateTroubles = 1
    Admins = {p1, p2}
    Identities = {x, y}
    Keys = {"k1"}
    MaxCommands = 3
    MaxKeyDeaths = 1
    Makers = {p1, p2}
    MaxMakes = 2
    MaxMakerDeaths = 1
    Requesters = {p1, p2}
    RequestKeys = {x, y}
    Contents = {x, y}
    MaxRemembered = 1
    MaxConcurrent = 1
    MaxRequests = 3
    MaxHttpTroubles = 1
SYMMETRY Interchangeable
INVARIANTS
    StoresTypeOK
    FilesSound
    OneActiveSession
    AcknowledgedUploadsStay
    CompletionFollowsTheObject
    OnlyCutWorkIsHalfDone
    OnlyRacesDeliverUnvalidated
    TerminatedStaysRemoved
    CredentialsSound
    ServersSound
PROPERTIES
    InstalledIsWhole
