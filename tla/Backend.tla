------------------------------ MODULE Backend ------------------------------
(***************************************************************************)
(* The C++ chat backend: cpp-server/vector-com.cpp.                        *)
(*                                                                         *)
(* One thread per accepted connection runs handleClient, one more runs the *)
(* admin console.  They share the `clients` vector, the block list and the *)
(* history files; `clientsMutex` makes each critical section one step, and *)
(* whatever the code does between two critical sections (a send, a close,  *)
(* a shutdown, an append to a file) is a step of its own.                  *)
(*                                                                         *)
(* A descriptor is a number the kernel hands out again once it is closed,  *)
(* and the code keeps descriptors in the vector, in the list of recipients *)
(* of a broadcast and in the target of a kick.  That is what this module   *)
(* is about: which connection a kept descriptor denotes when it is used.   *)
(*                                                                         *)
(* Abstractions.  A connection is accepted once, so the entry its thread   *)
(* pushes, the descriptor and the name are functions of the connection.    *)
(* The rate limit, the slowmode and every refusal or listing that changes  *)
(* no shared state are one action, Ignore (module SendGate has the first   *)
(* two in detail, PinBoard the pin board).  Peers read what they are sent: *)
(* a send does not block here.                                             *)
(***************************************************************************)
EXTENDS Naturals, FiniteSets

CONSTANTS
    Conns,      \* connections; each one has its own handleClient thread
    Console,    \* the thread of the admin console (stdin)
    Fds,        \* socket descriptors
    NoFd,       \* "not accepted yet"
    Users,      \* user names
    NameOf,     \* the name each peer sends in its first frame
    Rooms,      \* room names
    General,    \* the room every client starts in
    AllRooms,   \* the empty room name, which broadcastMessage takes for all
    Quitters,   \* the peers that may drop their connection by themselves
    WireAdmins, \* the connections whose /admin carries the right token
    Requests,   \* the kinds of frames the peers send
    Orders,     \* the admin commands in use
    Budget      \* bound: frames a peer sends after its name, and commands
                \* typed at the console

Threads == Conns \cup {Console}

ASSUME BackendAssumption ==
    /\ Console \notin Conns
    /\ NoFd \notin Fds
    /\ NameOf \in [Conns -> Users]
    /\ General \in Rooms
    /\ AllRooms \notin Rooms
    /\ Quitters \subseteq Conns /\ WireAdmins \subseteq Conns
    /\ Budget \in [Threads -> Nat]

Kinds == {"hello", "chat", "leave", "enter", "bye", "say", "pm", "kicked", "notice", "none"}

(* `to`, `gone` and `before` are history fields, filled in when the sender *)
(* chooses: the connections whose entries it chose, those of them that     *)
(* were closed and still listed, and the connections that already had the  *)
(* descriptor of another one chosen.  No action reads them, except `to` to *)
(* know which descriptors the code is holding.                             *)
Messages == [kind : Kinds, from : Threads, no : Nat, room : Rooms \cup {AllRooms},
             to : SUBSET Conns, gone : SUBSET Conns, before : SUBSET Conns]

Idle(t) == [kind |-> "none", from |-> t, no |-> 0, room |-> AllRooms,
            to |-> {}, gone |-> {}, before |-> {}]

(* saveMessage is called after these broadcasts, and only after these.     *)
Saved == {"hello", "chat", "leave", "enter", "bye"}

(* These broadcasts leave out the sender's own descriptor.                 *)
SkipsSender == {"hello", "chat", "leave", "enter"}

VARIABLES
    fdOf,       \* descriptor of each connection, kept after it is closed
    sock,       \* the kernel's view of the connection
    clients,    \* the connections that have an entry in the vector
    seat,       \* position of the entry: the vector grows at its end
    seats,      \* entries pushed so far
    room,       \* the `room` field of the entry
    blocked,    \* blockedUsers
    history,    \* history files: the messages saved for each room
    pc,         \* where each thread is
    cur,        \* the message a thread is sending
    todo,       \* entries whose descriptors it still has to send to
    dest,       \* newRoom of a /join in progress
    subject,    \* user of a block or unblock in progress
    issued,     \* frames read from a peer, commands read from stdin
    inbox,      \* what was written to each connection
    shown,      \* what sendRoomHistory replayed to each connection
    heirOf,     \* history: former owners of its descriptor that were still
                \* to run removeClient when it registered
    late,       \* history: chats a connection got out since it was blocked
    gap         \* history: messages in flight when it entered its room

kernel == <<fdOf, sock>>
roster == <<clients, seat, seats, room, heirOf>>
local  == <<pc, cur, todo, dest, subject, issued>>
vars   == <<kernel, roster, blocked, history, local, inbox, shown, late, gap>>

-----------------------------------------------------------------------------
(* Lookups.  The vector is searched from its front, so the first entry is  *)
(* the one with the smallest seat.                                         *)

First(S) == CHOOSE c \in S : \A d \in S : seat[c] =< seat[d]
Last(S)  == CHOOSE c \in S : \A d \in S : seat[d] =< seat[c]

Named(u) == {d \in clients : NameOf[d] = u}

(* Entries that carry the descriptor of connection c: its own, and that of *)
(* a connection which had the descriptor before and is not removed yet.    *)
WithFdOf(c) == {d \in clients : fdOf[d] = fdOf[c]}

RoomOf(c) == IF WithFdOf(c) = {} THEN General ELSE room[First(WithFdOf(c))]

(* The connection that holds, now, the descriptor kept for e.              *)
Holders(e) == {o \in Conns : fdOf[o] = fdOf[e] /\ sock[o] \in {"open", "shut"}}

NoticesOnlyLeavers(c) == c \in Quitters

(* recv and send on the socket fail: it was shut down, or the peer left.   *)
Hangs(c) == sock[c] = "shut" \/ c \in Quitters

(* A write reaches the holder unless its socket was shut down.             *)
Deliver(e, m) ==
    inbox' = [o \in Conns |-> IF o \in Holders(e) /\ sock[o] = "open"
                              THEN inbox[o] \cup {m} ELSE inbox[o]]

CloseFd(c) ==
    sock' = [o \in Conns |-> IF o \in Holders(c) THEN "closed" ELSE sock[o]]

NoShutdown(e) == UNCHANGED sock

Shutdown(e) ==
    sock' = [o \in Conns |-> IF o \in Holders(e) THEN "shut" ELSE sock[o]]

(* A thread that may read its next frame or command.                       *)
Ready(t) ==
    /\ pc[t] = "recv"
    /\ issued[t] < Budget[t]

Consume(t) == issued' = [issued EXCEPT ![t] = @ + 1]

Goto(t, label) == pc' = [pc EXCEPT ![t] = label]

Message(t, kind, r) ==
    [kind |-> kind, from |-> t, no |-> issued[t], room |-> r,
     to |-> {}, gone |-> {}, before |-> {}]

(* Message m once the entries S are chosen for it.                         *)
Addressed(m, S) ==
    [m EXCEPT !.to = S,
              !.gone = {e \in S : pc[e] = "removing"},
              !.before = {c \in Conns : /\ sock[c] # "none"
                                        /\ \E e \in S \ {c} : fdOf[e] = fdOf[c]}]

(* Start a broadcast.                                                      *)
Announce(t, kind, r) ==
    /\ cur' = [cur EXCEPT ![t] = Message(t, kind, r)]
    /\ Goto(t, "snap")

-----------------------------------------------------------------------------
(* Connecting.                                                             *)

Init ==
    /\ fdOf = [c \in Conns |-> NoFd]
    /\ sock = [c \in Conns |-> "none"]
    /\ clients = {}
    /\ seat = [c \in Conns |-> 0]
    /\ seats = 0
    /\ heirOf = [c \in Conns |-> {}]
    /\ room = [c \in Conns |-> General]
    /\ blocked = {}
    /\ history = [r \in Rooms \cup {AllRooms} |-> {}]
    /\ pc = [t \in Threads |-> IF t = Console THEN "recv" ELSE "none"]
    /\ cur = [t \in Threads |-> Idle(t)]
    /\ todo = [t \in Threads |-> {}]
    /\ dest = [c \in Conns |-> General]
    /\ subject = [t \in Threads |-> {}]
    /\ issued = [t \in Threads |-> 0]
    /\ inbox = [c \in Conns |-> {}]
    /\ shown = [c \in Conns |-> {}]
    /\ late = [c \in Conns |-> 0]
    /\ gap = [c \in Conns |-> {}]

(* accept(): the kernel picks a descriptor that no open socket has.        *)
Accept(c, f) ==
    /\ pc[c] = "none"
    /\ \A d \in Conns : fdOf[d] = f => sock[d] \notin {"open", "shut"}
    /\ fdOf' = [fdOf EXCEPT ![c] = f]
    /\ sock' = [sock EXCEPT ![c] = "open"]
    /\ Goto(c, "accepted")
    /\ UNCHANGED <<roster, blocked, history, cur, todo, dest, subject, issued,
                   inbox, shown, late, gap>>

(* No first frame: the thread closes the socket and ends.                  *)
HandshakeFails(c) ==
    /\ pc[c] = "accepted"
    /\ Hangs(c)
    /\ CloseFd(c)
    /\ Goto(c, "done")
    /\ UNCHANGED <<fdOf, roster, blocked, history, cur, todo, dest, subject,
                   issued, inbox, shown, late, gap>>

(* Messages of room r that are on their way while a client enters r.       *)
InFlight(r) ==
    {cur[t] : t \in {u \in Threads : /\ pc[u] \in {"cast", "reap"}
                                     /\ cur[u].kind \in Saved
                                     /\ cur[u].room = r}}

NoRoom == AllRooms
StartRoom == General

(* The first frame is the name: push_back of the entry, under the lock.    *)
Register(c) ==
    /\ pc[c] = "accepted"
    /\ clients' = clients \cup {c}
    /\ seats' = seats + 1
    /\ seat' = [seat EXCEPT ![c] = seats + 1]
    /\ room' = [room EXCEPT ![c] = StartRoom]
    /\ heirOf' = [heirOf EXCEPT ![c] = {d \in Conns : /\ pc[d] = "removing"
                                                     /\ fdOf[d] = fdOf[c]}]
    /\ gap' = [gap EXCEPT ![c] = InFlight(StartRoom)]
    /\ Announce(c, "hello", General)
    /\ UNCHANGED <<kernel, blocked, history, todo, dest, subject, issued, inbox,
                   shown, late>>

-----------------------------------------------------------------------------
(* broadcastMessage: the recipients' descriptors are collected under the   *)
(* lock, the frames are sent without it.                                   *)

Snapshot(t) ==
    LET listeners == {e \in clients :
              /\ cur[t].room \in {AllRooms, room[e]}
              /\ (cur[t].kind \in SkipsSender => fdOf[e] # fdOf[t])}
    IN
    /\ pc[t] = "snap"
    /\ todo' = [todo EXCEPT ![t] = listeners]
    /\ cur' = [cur EXCEPT ![t] = Addressed(@, listeners)]
    /\ late' = IF cur[t].kind = "chat" /\ NameOf[t] \in blocked
               THEN [late EXCEPT ![t] = @ + 1] ELSE late
    /\ Goto(t, "cast")
    /\ UNCHANGED <<kernel, roster, blocked, history, dest, subject, issued, inbox,
                   shown, gap>>

(* One sendAll of the loop.                                                *)
CastSend(t) ==
    /\ pc[t] = "cast" /\ todo[t] # {}
    /\ LET e == First(todo[t]) IN
       /\ \E o \in Holders(e) : sock[o] = "open"
       /\ Deliver(e, cur[t])
       /\ todo' = [todo EXCEPT ![t] = @ \ {e}]
    /\ UNCHANGED <<kernel, roster, blocked, history, pc, cur, dest, subject,
                   issued, shown, late, gap>>

(* sendAll fails: the descriptor is closed or shut down, or the peer reset *)
(* the connection.                                                         *)
CastFails(t) ==
    /\ pc[t] = "cast" /\ todo[t] # {}
    /\ \A o \in Holders(First(todo[t])) : Hangs(o)
    /\ Goto(t, "reap")
    /\ UNCHANGED <<kernel, roster, blocked, history, cur, todo, dest, subject,
                   issued, inbox, shown, late, gap>>

(* The shutdown that follows a failed send is a second system call.        *)
Reap(t) ==
    /\ pc[t] = "reap"
    /\ LET e == First(todo[t]) IN
       /\ Shutdown(e)
       /\ todo' = [todo EXCEPT ![t] = @ \ {e}]
    /\ Goto(t, "cast")
    /\ UNCHANGED <<fdOf, roster, blocked, history, cur, dest, subject, issued,
                   inbox, shown, late, gap>>

NoReplayAfterJoin == [hello |-> "replay", chat |-> "recv", leave |-> "switch",
                      enter |-> "recv", bye |-> "done"]

(* What a thread does once its announcement is saved.                      *)
AfterSave == [hello |-> "replay", chat |-> "recv", leave |-> "switch",
              enter |-> "replay", bye |-> "done"]

(* The loop is over: saveMessage, then on to what the caller does next.    *)
Save(t) ==
    /\ pc[t] = "cast" /\ todo[t] = {} /\ cur[t].kind \in Saved
    /\ history' = [history EXCEPT ![cur[t].room] = @ \cup {cur[t]}]
    /\ Goto(t, AfterSave[cur[t].kind])
    /\ cur' = IF cur[t].kind \in {"chat", "bye"}
              THEN [cur EXCEPT ![t] = Idle(t)] ELSE cur
    /\ UNCHANGED <<kernel, roster, blocked, todo, dest, subject, issued, inbox,
                   shown, late, gap>>

EndCast(t) ==
    /\ pc[t] = "cast" /\ todo[t] = {} /\ cur[t].kind \notin Saved
    /\ cur' = [cur EXCEPT ![t] = Idle(t)]
    /\ Goto(t, "recv")
    /\ UNCHANGED <<kernel, roster, blocked, history, todo, dest, subject, issued,
                   inbox, shown, late, gap>>

(* sendRoomHistory, of the room just entered.                              *)
Replay(c) ==
    /\ pc[c] = "replay"
    /\ shown' = [shown EXCEPT ![c] = @ \cup history[cur[c].room]]
    /\ cur' = [cur EXCEPT ![c] = Idle(c)]
    /\ Goto(c, "recv")
    /\ UNCHANGED <<kernel, roster, blocked, history, todo, dest, subject, issued,
                   inbox, late, gap>>

-----------------------------------------------------------------------------
(* Frames of a client.                                                     *)

(* A frame that changes nothing the threads share: an empty one, /list,    *)
(* /rooms, /help, a malformed or refused command, a chat message stopped   *)
(* by the rate limit, the slowmode or the block list, an error reply.      *)
Ignore(c) ==
    /\ "other" \in Requests
    /\ Ready(c)
    /\ Consume(c)
    /\ UNCHANGED <<kernel, roster, blocked, history, pc, cur, todo, dest, subject,
                   inbox, shown, late, gap>>

NeverRefused(c) == FALSE
Refused(c) == NameOf[c] \in blocked

(* A chat message that passes the checks.  The room is read here.          *)
Chat(c) ==
    /\ "chat" \in Requests
    /\ Ready(c)
    /\ ~Refused(c)
    /\ Consume(c)
    /\ Announce(c, "chat", RoomOf(c))
    /\ UNCHANGED <<kernel, roster, blocked, history, todo, dest, subject, inbox,
                   shown, late, gap>>

(* sendPrivateMessage looks up, checks and sends under one lock.           *)
Pm(c, u) ==
    /\ "pm" \in Requests
    /\ Ready(c)
    /\ ~Refused(c)
    /\ Named(u) # {}
    /\ LET e == First(Named(u)) IN
       Deliver(e, Addressed(Message(c, "pm", AllRooms), {e}))
    /\ Consume(c)
    /\ UNCHANGED <<kernel, roster, blocked, history, pc, cur, todo, dest, subject,
                   shown, late, gap>>

(* The loop that reads oldRoom has no break and starts from the empty name.*)
OldRoom(c) == IF WithFdOf(c) = {} THEN AllRooms ELSE room[Last(WithFdOf(c))]

(* /join r: "left room" to the old room first, the move after it.          *)
Join(c, r) ==
    /\ "join" \in Requests
    /\ Ready(c)
    /\ OldRoom(c) # r
    /\ dest' = [dest EXCEPT ![c] = r]
    /\ Consume(c)
    /\ Announce(c, "leave", OldRoom(c))
    /\ UNCHANGED <<kernel, roster, blocked, history, todo, subject, inbox, shown,
                   late, gap>>

(* The move changes every entry that has this thread's descriptor.         *)
Switch(c) ==
    /\ pc[c] = "switch"
    /\ room' = [d \in Conns |-> IF d \in WithFdOf(c) THEN dest[c] ELSE room[d]]
    /\ gap' = [gap EXCEPT ![c] = InFlight(dest[c])]
    /\ dest' = [dest EXCEPT ![c] = General]
    /\ Announce(c, "enter", dest[c])
    /\ UNCHANGED <<kernel, clients, seat, seats, heirOf, blocked, history, todo,
                   subject, issued, inbox, shown, late>>

-----------------------------------------------------------------------------
(* The end of a connection: recvFrame returns false because the peer left, *)
(* broke the framing, or the socket was shut down.  Frames that were       *)
(* received before a shutdown are still read first.                        *)

RecvFails(c) ==
    /\ pc[c] = "recv"
    /\ Hangs(c)
    /\ cur' = [cur EXCEPT ![c] = Message(c, "bye", RoomOf(c))]
    /\ Goto(c, "closing")
    /\ UNCHANGED <<kernel, roster, blocked, history, todo, dest, subject, issued,
                   inbox, shown, late, gap>>

(* close() comes first: from here on the kernel may reuse the descriptor.  *)
Close(c) ==
    /\ pc[c] = "closing"
    /\ CloseFd(c)
    /\ Goto(c, "removing")
    /\ UNCHANGED <<fdOf, roster, blocked, history, cur, todo, dest, subject,
                   issued, inbox, shown, late, gap>>

ErasedFirst(c) == {d \in WithFdOf(c) : d = First(WithFdOf(c))}
ErasedLast(c) == {d \in WithFdOf(c) : d = Last(WithFdOf(c))}
ErasedByName(c) == Named(NameOf[c])
Erased(c) == WithFdOf(c)

(* removeClient erases every entry that has the descriptor.                *)
Remove(c) ==
    /\ pc[c] = "removing"
    /\ clients' = clients \ Erased(c)
    /\ Goto(c, "snap")
    /\ UNCHANGED <<kernel, seat, seats, room, heirOf, blocked, history, cur, todo,
                   dest, subject, issued, inbox, shown, late, gap>>

-----------------------------------------------------------------------------
(* Admin commands, from the console or as /admin from a connection that    *)
(* has the token.                                                          *)

MayOrder(t, order) ==
    /\ order \in Orders
    /\ t \in WireAdmins \cup {Console}
    /\ Ready(t)

(* kickUser: the lookup, under the lock.                                   *)
Kick(t, u) ==
    /\ MayOrder(t, "kick")
    /\ Named(u) # {}
    /\ cur' = [cur EXCEPT ![t] = Addressed(Message(t, "kicked", AllRooms),
                                           {First(Named(u))})]
    /\ Consume(t)
    /\ Goto(t, "kick")
    /\ UNCHANGED <<kernel, roster, blocked, history, todo, dest, subject, inbox,
                   shown, late, gap>>

(* The notice to the kicked user, without the lock; a failure is ignored.  *)
KickNotice(t) ==
    /\ pc[t] = "kick"
    /\ \E e \in cur[t].to : Deliver(e, cur[t])
    /\ Goto(t, "kickshut")
    /\ UNCHANGED <<kernel, roster, blocked, history, cur, todo, dest, subject,
                   issued, shown, late, gap>>

(* shutdown() of the descriptor found by the lookup.                       *)
KickShut(t) ==
    /\ pc[t] = "kickshut"
    /\ \E e \in cur[t].to : Shutdown(e)
    /\ cur' = [cur EXCEPT ![t] = Idle(t)]
    /\ Goto(t, "recv")
    /\ UNCHANGED <<fdOf, roster, blocked, history, todo, dest, subject, issued,
                   inbox, shown, late, gap>>

(* A new block or unblock starts a new count of late messages.             *)
Recount(u) == late' = [c \in Conns |-> IF NameOf[c] = u THEN 0 ELSE late[c]]

Block(t, u) ==
    /\ MayOrder(t, "block")
    /\ blocked' = blocked \cup {u}
    /\ Recount(u)
    /\ subject' = [subject EXCEPT ![t] = {u}]
    /\ Consume(t)
    /\ Goto(t, "notify")
    /\ UNCHANGED <<kernel, roster, history, cur, todo, dest, inbox, shown, gap>>

Unblock(t, u) ==
    /\ MayOrder(t, "unblock")
    /\ blocked' = blocked \ {u}
    /\ Recount(u)
    /\ subject' = [subject EXCEPT ![t] = {u}]
    /\ Consume(t)
    /\ Goto(t, "notify")
    /\ UNCHANGED <<kernel, roster, history, cur, todo, dest, inbox, shown, gap>>

(* notifyUser finds the user again, in a critical section of its own.      *)
Notify(t) ==
    LET found == UNION {Named(u) : u \in subject[t]} IN
    /\ pc[t] = "notify"
    /\ IF found = {} THEN UNCHANGED inbox
       ELSE Deliver(First(found),
                    Addressed(Message(t, "notice", AllRooms), {First(found)}))
    /\ subject' = [subject EXCEPT ![t] = {}]
    /\ Goto(t, "recv")
    /\ UNCHANGED <<kernel, roster, blocked, history, cur, todo, dest, issued, shown,
                   late, gap>>

(* say: a broadcast to all rooms.  slowmode: a notice to one room.         *)
Say(t, r) ==
    /\ MayOrder(t, IF r = AllRooms THEN "say" ELSE "slowmode")
    /\ Consume(t)
    /\ Announce(t, "say", r)
    /\ UNCHANGED <<kernel, roster, blocked, history, todo, dest, subject, inbox,
                   shown, late, gap>>

-----------------------------------------------------------------------------

(* What a thread does by itself, without waiting for a frame.              *)
Work(t) ==
    \/ Snapshot(t) \/ CastSend(t) \/ Reap(t) \/ Save(t) \/ EndCast(t)
    \/ KickNotice(t) \/ KickShut(t) \/ Notify(t)

ConnWork(c) == Replay(c) \/ Switch(c) \/ Close(c) \/ Remove(c)

Frame(c) ==
    \/ Ignore(c) \/ Chat(c)
    \/ \E u \in Users : Pm(c, u)
    \/ \E r \in Rooms : Join(c, r)

Order(t) ==
    \/ \E u \in Users : Kick(t, u) \/ Block(t, u) \/ Unblock(t, u)
    \/ \E r \in Rooms \cup {AllRooms} : Say(t, r)

Next ==
    \/ \E c \in Conns :
          \/ \E f \in Fds : Accept(c, f)
          \/ HandshakeFails(c) \/ Register(c) \/ RecvFails(c)
          \/ ConnWork(c) \/ Frame(c)
    \/ \E t \in Threads : Work(t) \/ CastFails(t) \/ Order(t)

Spec == Init /\ [][Next]_vars

(* A thread that is not waiting for its peer or for stdin is scheduled,    *)
(* and recv() on a socket that was shut down returns.  Nothing makes a     *)
(* peer connect, send or leave.                                            *)
Runs(c) ==
    \/ Work(c) \/ CastFails(c) \/ ConnWork(c)
    \/ sock[c] = "shut" /\ (Register(c) \/ HandshakeFails(c) \/ RecvFails(c))

Fairness ==
    /\ \A c \in Conns : WF_vars(Runs(c))
    /\ WF_vars(Work(Console) \/ CastFails(Console))

FairSpec == Spec /\ Fairness

-----------------------------------------------------------------------------
(* Properties.                                                             *)

PCs == {"none", "accepted", "snap", "cast", "reap", "replay", "switch", "recv",
        "kick", "kickshut", "notify", "closing", "removing", "done"}

(* Every variable has the values the code can give it.                     *)
TypeOK ==
    /\ fdOf \in [Conns -> Fds \cup {NoFd}]
    /\ sock \in [Conns -> {"none", "open", "shut", "closed"}]
    /\ clients \subseteq Conns
    /\ seats \in Nat /\ seat \in [Conns -> 0..seats]
    /\ heirOf \in [Conns -> SUBSET Conns]
    /\ room \in [Conns -> Rooms]
    /\ blocked \subseteq Users
    /\ history \in [Rooms \cup {AllRooms} -> SUBSET Messages]
    /\ pc \in [Threads -> PCs]
    /\ cur \in [Threads -> Messages]
    /\ todo \in [Threads -> SUBSET Conns]
    /\ dest \in [Conns -> Rooms]
    /\ subject \in [Threads -> SUBSET Users]
    /\ issued \in [Threads -> Nat]
    /\ inbox \in [Conns -> SUBSET Messages]
    /\ shown \in [Conns -> SUBSET Messages]
    /\ late \in [Conns -> Nat]
    /\ gap \in [Conns -> SUBSET Messages]

(* The thread of c sends its last announcement, or is about to.            *)
Leaving(c) == pc[c] \in {"snap", "cast", "reap"} /\ cur[c].kind = "bye"

(* The thread of c has run removeClient.                                   *)
Past(c) == pc[c] = "done" \/ Leaving(c)

(* The thread of c has pushed its entry and has not run removeClient yet.  *)
Serves(c) == pc[c] \notin {"none", "accepted"} /\ ~Past(c)

(* Whether c is where the code meant to send m, or to shut down, with the  *)
(* entry of e in hand.  Besides e itself that is the heir of its           *)
(* descriptor, and only in the two windows the code leaves open: e had     *)
(* been closed and was not removed yet when it was chosen (417-418), or    *)
(* the choice and the use are not under one lock and c was accepted in     *)
(* between.                                                                *)
UnderOneLock == {"pm", "notice"}

Aim(m, e, c) ==
    \/ c = e
    \/ /\ fdOf[c] = fdOf[e]
       /\ e \in m.gone \/ (c \notin m.before /\ m.kind \notin UnderOneLock)

(* Whoever is listed as online has a thread that will take the entry out   *)
(* (vector-com.cpp:154-156, "the owners close the fds and remove their     *)
(* entries"): no thread ends, and no connection stays closed, with an      *)
(* entry left behind for /list, /pm and the broadcasts.                    *)
ListedIsServed == \A c \in clients : Serves(c)

(* A descriptor is closed by the thread that was given it and by no one    *)
(* else (vector-com.cpp:945-948), though kicks, failed broadcasts and the  *)
(* reuse of descriptors all act on the sockets of others.                  *)
OwnerCloses ==
    [][\A c \in Conns : sock[c] \in {"open", "shut"} /\ sock'[c] = "closed"
            => pc[c] \in {"accepted", "closing"} /\ pc'[c] # pc[c]]_vars

(* A message reaches the connections it was addressed to, or one that took *)
(* the descriptor of one of them in a window the code leaves open: nobody  *)
(* reads what was sent to an entry that outlived its connection, and a     *)
(* private message or a notice, sent under the lock it was looked up with, *)
(* goes astray only while a closed connection waits for removeClient.      *)
SentAsAimed ==
    [][\A c \in Conns : \A m \in inbox'[c] \ inbox[c] :
         \E e \in m.to : Aim(m, e, c)]_vars

(* A client with an open connection is missing from the vector only if an  *)
(* earlier owner of its descriptor, closed and still listed when it        *)
(* registered, has run removeClient since and took its entry along.        *)
UnlistedOnlyByReuse ==
    \A c \in Conns : Serves(c) /\ c \notin clients /\ sock[c] # "closed"
        => \E d \in heirOf[c] : Past(d)

(* A kick, or the shutdown after a failed broadcast, hits the connection   *)
(* it was meant for, or one that took its descriptor in a window the code  *)
(* leaves open: one accepted since the lookup, or while the target was     *)
(* closed and still listed.                                                *)
ShutAimed ==
    [][\A c \in Conns : sock[c] = "open" /\ sock'[c] = "shut"
         => \E t \in Threads :
               \/ pc[t] = "kickshut" /\ \E e \in cur[t].to : Aim(cur[t], e, c)
               \/ pc[t] = "reap" /\ Aim(cur[t], First(todo[t]), c)]_vars

(* Blocking takes effect: a connection of a blocked user gets at most one  *)
(* more chat message out, the one it was sending (the check of             *)
(* vector-com.cpp:704 and the broadcast do not share a critical section).  *)
BlockLag == \A c \in Conns : late[c] =< 1

(* Nothing said in a room is lost to a client that is in it: a listed      *)
(* client that is back at recv() has been sent every message of its room's *)
(* history, live or in the replay, but for its own, those sent to it and   *)
(* dropped with its connection, and those in flight when it came in.       *)
HistoryGap ==
    \A c \in clients : pc[c] = "recv" /\ sock[c] = "open" =>
        \A m \in history[room[c]] :
            m \in inbox[c] \cup shown[c] \cup gap[c] \/ m.from = c

(* A connection that was shut down is closed and its entry removed.        *)
ShutIsGone ==
    \A c \in Conns : sock[c] = "shut" ~> sock[c] = "closed" /\ c \notin clients

(* A kick ends with the kicked user's connection closed and unlisted.      *)
KickedIsGone ==
    \A c \in Conns :
        (\E t \in Threads : pc[t] = "kick" /\ c \in cur[t].to)
            ~> sock[c] = "closed" /\ c \notin clients

(* Not true of this code.  kickUser shuts the descriptor down, rather than *)
(* close it, so as not to touch a descriptor the kernel reuses             *)
(* (vector-com.cpp:945-948), and `kick <username>` is to "disconnect a     *)
(* user" (README.md:91): no connection but the one found under the user's  *)
(* name is shut down by a kick.                                            *)
KickHitsNamedUser ==
    [][\A t \in Threads, c \in Conns :
         pc[t] = "kickshut" /\ pc'[t] = "recv" /\ c \notin cur[t].to
            => sock'[c] = sock[c]]_vars

=============================================================================
