SPECIFICATION Spec
CONSTANTS
    Token = {UpToken}
    Bids = {b1, b2}
    Asks = {a1}
    Size = {0, 1, 2}
    Budget = 1
    HashWindow = 3
    MaxTime = 3
    MaxMoves = 2
    MaxWire = 3
    MaxConnections = 2
    FirstBook <- MCFirstBook
INVARIANT
    FreshBookIsVenues
CHECK_DEADLOCK FALSE
