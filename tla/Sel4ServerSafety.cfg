SPECIFICATION OpenSpec
CONSTANTS
    Clients = {c1, c2, c3, c4}
    Threads = {t1, t2, t3, t4}
    NoClient = NoClient
    Rounds = 1
    buffer_limit = 1
    SEL4_GREEN = TRUE
SYMMETRY Symmetry
INVARIANTS
    MutualExclusion
    AssertsHold
    NoStranding
    RequestsKept
PROPERTIES
    ImplementsBuffer
    ImplementsMutex
