SPECIFICATION FairSpec
CONSTANTS
    k1 = k1
    k2 = k2
    alice = alice
    bob = bob
    Items = {alice, bob}
    NoConn = NoConn
    Slots = {k1, k2}
    StatusCap = 1
    InCap = 1
    OutCap = 1
    Kinds = {"say", "quit"}
    Frames <- TwoLists
    MaxTyped = 2
    MaxCuts = 1
    MaxFrames = 2
CHECK_DEADLOCK FALSE
INVARIANTS
    TypeOK
    DeliveredOnce
    StatusTrue
    NothingStale
    OnlineIsAList
PROPERTIES
    OnlineAgain
