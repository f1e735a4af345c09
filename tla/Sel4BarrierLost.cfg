SPECIFICATION Spec
CONSTANTS
    Clients = {c1, c2}
    Threads = {t1, t2}
    NoClient = NoClient
    Rounds = 0
    buffer_limit = 1
    SEL4_GREEN = FALSE
CHECK_DEADLOCK FALSE
INVARIANTS
    BarrierAnswersAll
