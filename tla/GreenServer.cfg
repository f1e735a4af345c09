SPECIFICATION FairSpec
CONSTANTS
    Clients = {c1, c2, c3, c4}
    NoClient = NoClient
    Rounds = 1
    buffer_limit = 1
INVARIANTS
    TypeOK
    LockNeverContended
    NoLostWakeup
    NoRequestForgotten
    EndMeansServed
PROPERTIES
    ImplementsBuffer
    EveryRequestAnswered
    TestEnds
