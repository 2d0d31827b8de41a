SPECIFICATION FairSpec
CONSTANTS
    c1 = c1
    c2 = c2
    c3 = c3
    alice = alice
    bob = bob
    Conns = {c1, c2}
    Console = Console
    Fds = {3, 4}
    NoFd = 0
    Users = {alice, bob}
    NameOf <- MCNameOf
    Rooms = {"general"}
    General = "general"
    AllRooms = ""
    Quitters = {c1}
    WireAdmins = {}
    Requests = {"chat", "other"}
    Orders = {"kick", "block", "unblock", "say", "slowmode"}
    Budget <- ConsoleAndTalker
VIEW Shared
CHECK_DEADLOCK FALSE
INVARIANTS
    BlockLag
PROPERTIES
    SentAsAimed
    ShutAimed
    KickedIsGone
    ShutIsGone
