SPECIFICATION Spec
CONSTANTS
    c1 = c1
    c2 = c2
    c3 = c3
    alice = alice
    bob = bob
    Conns = {c1, c2, c3}
    Console = Console
    Fds = {3, 4}
    NoFd = 0
    Users = {alice, bob}
    NameOf <- MCNameOf
    Rooms = {"general"}
    General = "general"
    AllRooms = ""
    Quitters = {c1}
    WireAdmins = {c2}
    Requests = {}
    Orders = {"kick"}
    Budget <- OneSender
CHECK_DEADLOCK FALSE
PROPERTIES
    KickHitsNamedUser
