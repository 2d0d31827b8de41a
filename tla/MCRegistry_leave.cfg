SPECIFICATION FairSpec
CONSTANTS
    c1 = c1
    c2 = c2
    c3 = c3
    alice = alice
    bob = bob
    carol = carol
    Conns = {c1, c2}
    Admin = Admin
    Users = {alice, bob}
    NameOf <- ThreeNames
    Rooms = {"general"}
    General = "general"
    Cap = 1
    Quitters = {c1}
    Requests = {"pm", "quit", "other"}
    Orders = {"block", "unblock", "say"}
    Budget <- TwiceAndAdmin
CHECK_DEADLOCK FALSE
INVARIANTS
    RightName
    BlockLag
PROPERTIES
    GoneIsUnlisted
    ServiceSpec
