SPECIFICATION Spec
CONSTANTS
    c1 = c1
    c2 = c2
    c3 = c3
    alice = alice
    bob = bob
    carol = carol
    Conns = {c1, c2, c3}
    Admin = Admin
    Users = {alice, bob}
    NameOf <- TwoNames
    Rooms = {"general", "lobby"}
    General = "general"
    Cap = 2
    Quitters = {c1}
    Requests = {"say", "join"}
    Orders = {}
    Budget <- Twice
CHECK_DEADLOCK FALSE
INVARIANTS
    TypeOK
    IndexesAgree
    ListedIsServed
    ViewIsRight
PROPERTIES
    ServiceSpec
