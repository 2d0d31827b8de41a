SPECIFICATION FairSpec
CONSTANTS
    k1 = k1
    k2 = k2
    alice = alice
    bob = bob
    Items = {alice, bob}
    NoConn = NoConn
    Slots = {k1, k2}
    StatusCap = 2
    InCap = 3
    OutCap = 1
    Kinds = {"say"}
    Frames = {}
    MaxTyped = 2
    MaxCuts = 1
    MaxFrames = 0
CHECK_DEADLOCK FALSE
PROPERTIES
    AutoReconnect
