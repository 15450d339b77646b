SPECIFICATION WorkSpec
CHECK_DEADLOCK FALSE
CONSTANTS
    p1 = p1
    p2 = p2
    x = x
    y = y
    Certifiers = {p1, p2}
    Manifests = {0, 1}
    Packs = {0, 1}
    Iterations = 2
    Unwritten = Unwritten
    MaxExecutions = 4
    MaxRevisions = 1
    Gates = {"signed", "auth"}
    PublicGates = {"auth"}
    SeededGates = {"signed"}
    MaxRuns = 3
    MaxEvaluations = 1
    MaxRewrites = 2
    Operators = {p1, p2}
    Assets = {a1}
    Ids = {1, 2}
    MaxTroubles = 1
    Cleaners = {p1, p2}
    Branches = {1, 2}
    Commits = {x, y}
    NoRef = NoRef
    MaxUpsets = 1
    ReleaseIds = {1, 2}
    Heads = {1, 2}
    MaxChanges = 1
    Absent = Absent
    MaxReplaced = 1
SYMMETRY Interchangeable
INVARIANTS
    ReleaseTypeOK
    CertificationSound
    EvidenceSound
    ReleaseSound
    ClosedIsTrue
