CONSTANTS
    MaxVersion = 3
    MaxFlights = 2
    NoFetch = NoFetch
SPECIFICATION Spec
INVARIANTS TypeOK OwnWritesSeen
PROPERTIES OwnWritesShown EveryReadSettles LedgerFollowed
