SPECIFICATION DeliverySpec
CHECK_DEADLOCK FALSE
CONSTANTS
    Handlers = {h1, h2}
    Jobs = {j1, j2}
    Uploads = {"good", "bad"}
    Valid = {"good"}
    PoolWorkers = 1
INVARIANT ReadyMeansValidated
