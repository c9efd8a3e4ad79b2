SPECIFICATION LiveSpec
CONSTANTS
    Token = {UpToken, DownToken}
    Bids = {b1}
    Asks = {a1}
    Size = {0, 1}
    Budget = 1
    HashWindow = 3
    MaxTime = 3
    MaxMoves = 1
    MaxWire = 3
    MaxConnections = 2
    FirstBook <- MCFirstBook
INVARIANTS
    BooksAreWhole
    UptimeBanked
PROPERTIES
    ComesBack
CHECK_DEADLOCK FALSE
