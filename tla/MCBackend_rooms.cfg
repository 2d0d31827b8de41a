SPECIFICATION Spec
CONSTANTS
    c1 = c1
    c2 = c2
    c3 = c3
    alice = alice
    bob = bob
    Conns = {c1, c2}
    Console = Console
    Fds = {f3, f4}
    NoFd = 0
    Users = {alice}
    NameOf <- OneName
    Rooms = {"general", "lobby"}
    General = "general"
    AllRooms = ""
    Quitters = {c1, c2}
    WireAdmins = {}
    Requests = {"join", "chat", "pm"}
    Orders = {}
    Budget <- Pair
SYMMETRY Alike
CHECK_DEADLOCK FALSE
INVARIANTS
    TypeOK
    ListedIsServed
    UnlistedOnlyByReuse
    HistoryGap
PROPERTIES
    OwnerCloses
    SentAsAimed
