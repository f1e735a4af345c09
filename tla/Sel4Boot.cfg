SPECIFICATION FairSpec
CONSTANTS
    Clients = {c1, c2}
    Threads = {t1, t2}
    NoClient = NoClient
    Rounds = 2
    buffer_limit = 1
    SEL4_GREEN = FALSE
CHECK_DEADLOCK FALSE
INVARIANTS
    UniqueIds
PROPERTIES
    OpenBarrierAnswersAll
    EveryRequestAnswered
