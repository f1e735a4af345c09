SPECIFICATION FairSpec
CONSTANTS
    Clients = {c1, c2, c3}
    NoClient = NoClient
    Rounds = 3
PROPERTY EndReported
