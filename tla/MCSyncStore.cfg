CONSTANTS
    Parts = {"store"}
    d1 = d1
    d2 = d2
    t1 = t1
    t2 = t2
    e1 = e1
    e2 = e2
    Ids = {1, 2}
    Keys = {"early", "middle", "late"}
    KeyTime <- StoreKeyTime
    Blocks = {"b"}
    Ciphertexts = {"x", "y"}
    NoCiphertext = "none"
    Requests <- StoreRequests
    RequestOf <- StoreRequestOf
    Lifetime = 2
    Skew = 0
    Retention = 1
    MaxTime = 4
    MaxSequence = 5
    PageSize = 1
    MaxInterrupts = 0
SPECIFICATION RootSpec
INVARIANTS
    AtMostOnce
    NoResurrection
    StoreSafe
PROPERTIES
    ImplementsRegisters
CHECK_DEADLOCK FALSE
