------------------------------ MODULE Registry ------------------------------
(***************************************************************************)
(* The Rust chat server: rust-tui/server/src/state.rs (the registry of     *)
(* clients, names and rooms) and the connection tasks of main.rs.          *)
(*                                                                         *)
(* Each accepted connection has a task (handle_client with its read_loop)  *)
(* and, once it is welcomed, a writer task that drains its bounded queue;  *)
(* one more task applies the admin's commands.  The runtime runs them in   *)
(* parallel.  Each critical section of the registry's mutex is one step;   *)
(* handle_say, handle_pm, handle_join, unregister and admin_block each     *)
(* take several, with other tasks in between.                              *)
(*                                                                         *)
(* Abstractions.  The replies a client gets to its own requests (lists,    *)
(* errors) are one kind of message, Reply.  The log, the counters and the  *)
(* dashboard's snapshot are left out.  A peer that has hung up is seen by  *)
(* the read loop at some later time; a peer that is slow to read is a      *)
(* writer that does not run.                                               *)
(***************************************************************************)
EXTENDS Naturals, Sequences, FiniteSets

CONSTANTS
    Conns,     \* connections
    Admin,     \* the task of the admin's commands
    Users,     \* user names
    NameOf,    \* the name each peer sends in its first frame
    Rooms,     \* room names that validate_room accepts
    General,   \* DEFAULT_ROOM
    Cap,       \* 64: room in a client's queue
    Quitters,  \* the peers that may hang up or fail the handshake
    Requests,  \* the kinds of frames the peers send
    Orders,    \* the admin commands in use
    Budget     \* bound: frames a peer sends, commands the admin gives

Tasks == Conns \cup {Admin}

ASSUME RegistryAssumption ==
    /\ Admin \notin Conns
    /\ NameOf \in [Conns -> Users]
    /\ General \in Rooms
    /\ Cap \in Nat \ {0}
    /\ Quitters \subseteq Conns
    /\ Budget \in [Tasks -> Nat]

NoId == 0   \* next_id starts at 1

Kinds == {"welcome", "joined", "left", "chat", "pm", "moved", "reply", "notice", "say"}

(* `from` and `no` tell messages apart; `about` is the room of a chat or   *)
(* an announcement, and the user a private message or a notice was for.    *)
Messages == [kind : Kinds, from : Tasks, no : Nat, about : Rooms \cup Users]

VARIABLES
    nextId,      \* ServerState::next_id
    idOf,        \* the ClientId of each connection, kept in its task
    clients,     \* connections in Inner::clients
    nameToId,    \* Inner::name_to_id, NoId where there is no entry
    room,        \* Client::room
    rooms,       \* Inner::rooms, a function on the rooms that exist
    blocked,     \* Inner::blocked
    pc,          \* where each task is
    kept,        \* what a task read in an earlier critical section: a room
                 \* (handle_say, old_room, unregister), the id of a user
                 \* (handle_pm, admin_block)
    queue,       \* messages in the channel of each connection
    writer,      \* the writer task: "none", "running", "ended"
    written,     \* messages taken out to be written to each peer, but for
                 \* announcements and replies
    gone,        \* peers that have hung up
    issued,      \* frames read from a peer, admin commands
    view,        \* history: the names a client has in its room if it asked
                 \* for the list when it entered and followed what it is told
    missed,      \* history: clients that had a message dropped since then
    overlapped,  \* history: names that were taken again before their former
                 \* holder's leaving was announced
    late         \* history: messages a connection sent since it was blocked

registry == <<nextId, clients, nameToId, room, rooms>>
local    == <<pc, kept, issued>>
channels == <<queue, view, missed>>
vars     == <<registry, idOf, blocked, local, channels, writer, written, gone,
              overlapped, late>>

-----------------------------------------------------------------------------

(* Who is stored under an id.                                              *)
ById(i) == {c \in clients : idOf[c] = i}

Msg(t, kind, about) ==
    [kind |-> kind, from |-> t, no |-> issued[t], about |-> about]

PutFirst(q, m) == <<m>> \o q
Put(q, m) == Append(q, m)

Overfull(c) == writer[c] # "ended" /\ Len(queue[c]) =< Cap
Takes(c) == writer[c] # "ended" /\ Len(queue[c]) < Cap

(* What an announcement changes for a client that follows them.            *)
Told(v, m) ==
    CASE m.kind = "joined" -> v \cup {NameOf[m.from]}
      [] m.kind = "left"   -> v \ {NameOf[m.from]}
      [] OTHER             -> v

(* try_send to each of S: a queue that is full or closed loses the message *)
(* and nobody is told.                                                     *)
Send(S, m) ==
    /\ queue' = [c \in Conns |-> IF c \in S /\ Takes(c)
                                 THEN Put(queue[c], m) ELSE queue[c]]
    /\ view' = [c \in Conns |-> IF c \in S /\ Takes(c)
                                THEN Told(view[c], m) ELSE view[c]]
    /\ missed' = missed \cup {c \in S : ~Takes(c)}

(* broadcast_room: one critical section, all members but one.              *)
Members(r, except) ==
    IF r \in DOMAIN rooms
    THEN UNION {ById(i) : i \in rooms[r] \ {idOf[except]}}
    ELSE {}

Goto(t, label) == pc' = [pc EXCEPT ![t] = label]

Nothing == [room |-> General, id |-> NoId, user |-> {}]
Keep(t, r) == kept' = [kept EXCEPT ![t] = [Nothing EXCEPT !.room = r]]
Find(t, u) == kept' = [kept EXCEPT ![t] = [Nothing EXCEPT !.id = nameToId[u], !.user = {u}]]

(* The end of a handler: its local variables are gone.                     *)
Return(t) == Goto(t, "recv") /\ kept' = [kept EXCEPT ![t] = Nothing]

Ready(t) ==
    /\ pc[t] = "recv"
    /\ issued[t] < Budget[t]

Consume(t) == issued' = [issued EXCEPT ![t] = @ + 1]

(* A room with a member put in, and one with a member taken out.           *)
PutIn(rs, r, i) ==
    [q \in DOMAIN rs \cup {r} |->
        (IF q \in DOMAIN rs THEN rs[q] ELSE {}) \cup (IF q = r THEN {i} ELSE {})]
TakeOut(rs, r, i) ==
    [q \in DOMAIN rs |-> IF q = r THEN rs[q] \ {i} ELSE rs[q]]

PruneAny(rs, r) ==
    [q \in {p \in DOMAIN rs : p # r \/ rs[p] # {}} |-> rs[q]]

(* prune_empty_room                                                        *)
Prune(rs, r) ==
    [q \in {p \in DOMAIN rs : p = General \/ p # r \/ rs[p] # {}} |-> rs[q]]

(* The names a list of the room's users would show.                        *)
NamesIn(r, S) == {NameOf[d] : d \in {e \in S : room[e] = r}}

-----------------------------------------------------------------------------
(* Connecting.                                                             *)

Init ==
    /\ nextId = 1
    /\ idOf = [c \in Conns |-> NoId]
    /\ clients = {}
    /\ nameToId = [u \in Users |-> NoId]
    /\ room = [c \in Conns |-> General]
    /\ rooms = [r \in {General} |-> {}]
    /\ blocked = {}
    /\ pc = [t \in Tasks |-> IF t = Admin THEN "recv" ELSE "hello"]
    /\ kept = [t \in Tasks |-> Nothing]
    /\ queue = [c \in Conns |-> <<>>]
    /\ writer = [c \in Conns |-> "none"]
    /\ written = [c \in Conns |-> <<>>]
    /\ gone = {}
    /\ issued = [t \in Tasks |-> 0]
    /\ view = [c \in Conns |-> {}]
    /\ missed = {}
    /\ overlapped = {}
    /\ late = [c \in Conns |-> 0]

(* The handshake times out, fails, or gives a name that is not valid.      *)
HandshakeFails(c) ==
    /\ pc[c] = "hello"
    /\ c \in Quitters
    /\ Goto(c, "done")
    /\ UNCHANGED <<registry, idOf, blocked, kept, issued, channels,
                   writer, written, gone, overlapped, late>>

SmallestFree == CHOOSE i \in 1..nextId :
    /\ ById(i) = {}
    /\ \A j \in 1..nextId : ById(j) = {} => i =< j
FreshId == nextId

(* register: a name in use is refused, and the connection dropped.         *)
Register(c) ==
    /\ pc[c] = "hello"
    /\ nameToId[NameOf[c]] = NoId
    /\ nextId' = nextId + 1
    /\ idOf' = [idOf EXCEPT ![c] = FreshId]
    /\ clients' = clients \cup {c}
    /\ nameToId' = [nameToId EXCEPT ![NameOf[c]] = FreshId]
    /\ room' = [room EXCEPT ![c] = General]
    /\ rooms' = PutIn(rooms, General, FreshId)
    /\ view' = [view EXCEPT ![c] = NamesIn(General, clients)]
    /\ overlapped' = IF \E d \in Conns : pc[d] = "farewell" /\ NameOf[d] = NameOf[c]
                     THEN overlapped \cup {NameOf[c]} ELSE overlapped
    /\ Goto(c, "welcome")
    /\ UNCHANGED <<blocked, kept, issued, queue, missed, writer, written,
                   gone, late>>

NameTaken(c) ==
    /\ pc[c] = "hello"
    /\ nameToId[NameOf[c]] # NoId
    /\ Goto(c, "done")
    /\ UNCHANGED <<registry, idOf, blocked, kept, issued, channels,
                   writer, written, gone, overlapped, late>>

(* tx.send(..).await waits for room in the queue.                          *)
Welcome(c) ==
    /\ pc[c] = "welcome"
    /\ Len(queue[c]) < Cap
    /\ queue' = [queue EXCEPT ![c] = Append(@, Msg(c, "welcome", General))]
    /\ Goto(c, "greet")
    /\ UNCHANGED <<registry, idOf, blocked, kept, issued, view, missed,
                   writer, written, gone, overlapped, late>>

(* The others are told, and the writer task is started.                    *)
Greet(c) ==
    /\ pc[c] = "greet"
    /\ Send(Members(General, c), Msg(c, "joined", General))
    /\ writer' = [writer EXCEPT ![c] = "running"]
    /\ Goto(c, "recv")
    /\ UNCHANGED <<registry, idOf, blocked, kept, issued, written, gone,
                   overlapped, late>>

-----------------------------------------------------------------------------
(* The writer task.                                                        *)

Talk == {"chat", "pm", "notice", "say"}

Write(c) ==
    /\ writer[c] = "running" /\ queue[c] # <<>>
    /\ written' = IF Head(queue[c]).kind \in Talk
                  THEN [written EXCEPT ![c] = Append(@, Head(queue[c]))] ELSE written
    /\ queue' = [queue EXCEPT ![c] = Tail(@)]
    /\ UNCHANGED <<registry, idOf, blocked, local, view, missed, writer, gone,
                   overlapped, late>>

(* A write fails: the task ends, and the queue closes with it.             *)
WriteFails(c) ==
    /\ writer[c] = "running" /\ queue[c] # <<>>
    /\ c \in gone
    /\ writer' = [writer EXCEPT ![c] = "ended"]
    /\ queue' = [queue EXCEPT ![c] = <<>>]
    /\ UNCHANGED <<registry, idOf, blocked, local, view, missed, written, gone,
                   overlapped, late>>

-----------------------------------------------------------------------------
(* Requests.                                                               *)

(* A request answered to its sender only: a list, a malformed command, a   *)
(* room name that is not valid, /block.                                    *)
Reply(c) ==
    /\ "other" \in Requests
    /\ Ready(c)
    /\ Consume(c)
    /\ Send({c}, Msg(c, "reply", General))
    /\ UNCHANGED <<registry, idOf, blocked, pc, kept, writer, written,
                   gone, overlapped, late>>

(* handle_say: the sender's room is read ...                               *)
Say(c) ==
    /\ "say" \in Requests
    /\ Ready(c)
    /\ Consume(c)
    /\ Keep(c, room[c])
    /\ Goto(c, "say")
    /\ UNCHANGED <<registry, idOf, blocked, channels, writer, written,
                   gone, overlapped, late>>

NeverBlocked(c) == FALSE
IsBlocked(c) == NameOf[c] \in blocked

(* ... the block list is looked at, for this one and handle_pm ...         *)
Check(c) ==
    /\ pc[c] \in {"say", "pm"}
    /\ Goto(c, IF IsBlocked(c) \/ (pc[c] = "pm" /\ kept[c].id = NoId) THEN "refused"
               ELSE IF pc[c] = "say" THEN "cast" ELSE "send")
    /\ UNCHANGED <<registry, idOf, blocked, kept, issued, channels,
                   writer, written, gone, overlapped, late>>

Refuse(c) ==
    /\ pc[c] = "refused"
    /\ Send({c}, Msg(c, "reply", General))
    /\ Return(c)
    /\ UNCHANGED <<registry, idOf, blocked, issued, writer, written,
                   gone, overlapped, late>>

Counted(c) == late' = IF NameOf[c] \in blocked
                      THEN [late EXCEPT ![c] = @ + 1] ELSE late

(* ... and the message is sent to the room that was read.                  *)
Cast(c) ==
    /\ pc[c] = "cast"
    /\ Send(Members(kept[c].room, c), Msg(c, "chat", kept[c].room))
    /\ Counted(c)
    /\ Return(c)
    /\ UNCHANGED <<registry, idOf, blocked, issued, writer, written,
                   gone, overlapped>>

(* handle_pm: the name is looked up, and later the id.                     *)
Pm(c, u) ==
    /\ "pm" \in Requests
    /\ Ready(c)
    /\ Consume(c)
    /\ Find(c, u)
    /\ Goto(c, "pm")
    /\ UNCHANGED <<registry, idOf, blocked, channels, writer, written, gone,
                   overlapped, late>>

PmSend(c) ==
    /\ pc[c] = "send"
    /\ \E u \in kept[c].user : Send(ById(kept[c].id), Msg(c, "pm", u))
    /\ Counted(c)
    /\ Return(c)
    /\ UNCHANGED <<registry, idOf, blocked, issued, writer, written,
                   gone, overlapped>>

(* handle_join: the move is one critical section, ...                      *)
Join(c, r) ==
    /\ "join" \in Requests
    /\ Ready(c)
    /\ room[c] # r
    /\ Consume(c)
    /\ Keep(c, room[c])
    /\ room' = [room EXCEPT ![c] = r]
    /\ rooms' = PutIn(Prune(TakeOut(rooms, room[c], idOf[c]), room[c]), r, idOf[c])
    /\ view' = [view EXCEPT ![c] = NamesIn(r, clients)]
    /\ missed' = missed \ {c}
    /\ Goto(c, "left")
    /\ UNCHANGED <<nextId, idOf, clients, nameToId, blocked, queue,
                   writer, written, gone, overlapped, late>>

RoomNow(c) == room[c]
RoomLeft(c) == kept[c].room

(* ... and then the old room, the client and the new room are told.        *)
TellOld(c) ==
    /\ pc[c] = "left"
    /\ Send(Members(RoomLeft(c), c), Msg(c, "left", RoomLeft(c)))
    /\ Goto(c, "moved")
    /\ UNCHANGED <<registry, idOf, blocked, kept, issued, writer, written,
                   gone, overlapped, late>>

TellSelf(c) ==
    /\ pc[c] = "moved"
    /\ Send({c}, Msg(c, "moved", room[c]))
    /\ Goto(c, "entered")
    /\ UNCHANGED <<registry, idOf, blocked, kept, issued, writer, written,
                   gone, overlapped, late>>

TellNew(c) ==
    /\ pc[c] = "entered"
    /\ Send(Members(room[c], c), Msg(c, "joined", room[c]))
    /\ Return(c)
    /\ UNCHANGED <<registry, idOf, blocked, issued, writer, written,
                   gone, overlapped, late>>

-----------------------------------------------------------------------------
(* The end of a connection.                                                *)

HangUp(c) ==
    /\ c \in Quitters \ gone
    /\ gone' = gone \cup {c}
    /\ UNCHANGED <<registry, idOf, blocked, local, channels, writer, written,
                   overlapped, late>>

EarlyReturn == "abort"
AfterReadLoop == "unregister"

(* read_loop returns: end of file, a broken frame, or /quit.               *)
ReadEnds(c) ==
    /\ pc[c] = "recv"
    /\ c \in gone \/ ("quit" \in Requests /\ Ready(c))
    /\ Goto(c, AfterReadLoop)
    /\ UNCHANGED <<registry, idOf, blocked, kept, issued, channels,
                   writer, written, gone, overlapped, late>>

(* unregister: the entries go in one critical section, ...                 *)
Unregister(c) ==
    /\ pc[c] = "unregister"
    /\ clients' = clients \ {c}
    /\ nameToId' = [nameToId EXCEPT ![NameOf[c]] = NoId]
    /\ rooms' = Prune(TakeOut(rooms, room[c], idOf[c]), room[c])
    /\ Keep(c, room[c])
    /\ Goto(c, "farewell")
    /\ UNCHANGED <<nextId, idOf, room, blocked, issued, channels,
                   writer, written, gone, overlapped, late>>

(* ... the room is told in another, ...                                    *)
Farewell(c) ==
    /\ pc[c] = "farewell"
    /\ Send(Members(kept[c].room, c), Msg(c, "left", kept[c].room))
    /\ Goto(c, "abort")
    /\ UNCHANGED <<registry, idOf, blocked, kept, issued, writer, written,
                   gone, overlapped, late>>

(* ... and the writer is aborted with what it has not written.             *)
Abort(c) ==
    /\ pc[c] = "abort"
    /\ writer' = [writer EXCEPT ![c] = "ended"]
    /\ queue' = [queue EXCEPT ![c] = <<>>]
    /\ Goto(c, "done")
    /\ UNCHANGED <<registry, idOf, blocked, kept, issued, view, missed,
                   written, gone, overlapped, late>>

-----------------------------------------------------------------------------
(* The admin.                                                              *)

(* admin_say: every client, in one critical section.                       *)
AdminSay ==
    /\ "say" \in Orders
    /\ Ready(Admin)
    /\ Consume(Admin)
    /\ Send(clients, Msg(Admin, "say", General))
    /\ UNCHANGED <<registry, idOf, blocked, pc, kept, writer, written,
                   gone, overlapped, late>>

(* admin_block: the list and the lookup in one critical section, ...       *)
AdminBlock(u, block) ==
    /\ (IF block THEN "block" ELSE "unblock") \in Orders
    /\ Ready(Admin)
    /\ Consume(Admin)
    /\ blocked' = IF block THEN blocked \cup {u} ELSE blocked \ {u}
    /\ late' = [c \in Conns |-> IF NameOf[c] = u THEN 0 ELSE late[c]]
    /\ IF nameToId[u] = NoId THEN UNCHANGED <<pc, kept>>
       ELSE Find(Admin, u) /\ Goto(Admin, "notify")
    /\ UNCHANGED <<registry, idOf, channels, writer, written, gone, overlapped>>

(* ... the notice, by id, in another.                                      *)
AdminNotify ==
    /\ pc[Admin] = "notify"
    /\ \E u \in kept[Admin].user : Send(ById(kept[Admin].id), Msg(Admin, "notice", u))
    /\ Return(Admin)
    /\ UNCHANGED <<registry, idOf, blocked, issued, writer, written,
                   gone, overlapped, late>>

-----------------------------------------------------------------------------

(* What the task of a connection does without waiting for its peer.        *)
TaskWork(c) ==
    \/ Welcome(c) \/ Greet(c) \/ Check(c) \/ Refuse(c) \/ Cast(c) \/ PmSend(c)
    \/ TellOld(c) \/ TellSelf(c) \/ TellNew(c)
    \/ Unregister(c) \/ Farewell(c) \/ Abort(c)

Frame(c) ==
    \/ Reply(c) \/ Say(c)
    \/ \E u \in Users : Pm(c, u)
    \/ \E r \in Rooms : Join(c, r)

(* apply_admin_local: block, unblock, and anything else is said to all.     *)
Command == AdminSay \/ \E u \in Users, block \in BOOLEAN : AdminBlock(u, block)

Next ==
    \/ \E c \in Conns :
          \/ HandshakeFails(c) \/ Register(c) \/ NameTaken(c)
          \/ TaskWork(c) \/ Frame(c)
          \/ Write(c) \/ WriteFails(c)
          \/ HangUp(c) \/ ReadEnds(c)
    \/ Command \/ AdminNotify

Spec == Init /\ [][Next]_vars

(* Tasks are scheduled, and a read from a peer that hung up returns.       *)
(* Nothing makes a peer read or send.                                      *)
Fairness ==
    \A c \in Conns :
        /\ WF_vars(TaskWork(c))
        /\ WF_vars(c \in gone /\ ReadEnds(c))

FairSpec == Spec /\ Fairness

-----------------------------------------------------------------------------
(* Properties.                                                             *)

PCs == {"hello", "welcome", "greet", "recv", "say", "pm", "refused", "cast",
        "send", "left", "moved", "entered", "unregister", "farewell", "abort",
        "done", "notify"}

(* Every variable has the values the code can give it; in particular no    *)
(* queue is ever longer than its capacity.                                 *)
TypeOK ==
    /\ nextId \in Nat \ {0}
    /\ idOf \in [Conns -> Nat]
    /\ clients \subseteq Conns
    /\ nameToId \in [Users -> Nat]
    /\ room \in [Conns -> Rooms]
    /\ DOMAIN rooms \subseteq Rooms /\ \A r \in DOMAIN rooms : rooms[r] \subseteq Nat
    /\ blocked \subseteq Users
    /\ pc \in [Tasks -> PCs]
    /\ kept \in [Tasks -> [room : Rooms, id : Nat, user : SUBSET Users]]
    /\ queue \in [Conns -> Seq(Messages)]
    /\ \A c \in Conns : Len(queue[c]) =< Cap
    /\ writer \in [Conns -> {"none", "running", "ended"}]
    /\ written \in [Conns -> Seq(Messages)]
    /\ gone \subseteq Conns
    /\ issued \in [Tasks -> Nat]
    /\ view \in [Conns -> SUBSET Users]
    /\ missed \subseteq Conns
    /\ overlapped \subseteq Users
    /\ late \in [Conns -> Nat]

(* The three indexes of the registry agree: an id stands in the room of    *)
(* its client and in no other, a name leads to the client that has it, and *)
(* a room exists as long as it has members ("/rooms and the dashboard      *)
(* don't accumulate ghost rooms", state.rs:310-311), the default one       *)
(* always.                                                                 *)
IndexesAgree ==
    /\ \A r \in DOMAIN rooms : rooms[r] = {idOf[c] : c \in {d \in clients : room[d] = r}}
    /\ DOMAIN rooms = {General} \cup {room[c] : c \in clients}
    /\ \A u \in Users :
          IF nameToId[u] = NoId THEN \A c \in clients : NameOf[c] # u
          ELSE \E c \in clients : NameOf[c] = u /\ idOf[c] = nameToId[u]

(* A name is held by a connection whose task will give it back: no task    *)
(* ends with its client registered, or nobody could ever take the name.    *)
ListedIsServed ==
    \A c \in clients : pc[c] \notin {"hello", "farewell", "abort", "done"}

Stream(c) == written[c] \o queue[c]

(* A private message, or the notice of a block, reaches nobody but a       *)
(* client of the name it was for: the id looked up is used later, but ids  *)
(* are not given out again.                                                *)
RightName ==
    \A c \in Conns : \A i \in DOMAIN Stream(c) :
        Stream(c)[i].kind \in {"pm", "notice"} => Stream(c)[i].about = NameOf[c]

(* A block takes effect: a blocked client gets at most one more message    *)
(* out, the one whose check was already done.                              *)
BlockLag == \A c \in Conns : late[c] =< 1

(* Tasks that have moved, or registered, or unregistered their client and  *)
(* not told everyone yet.                                                  *)
Announcing(c) == pc[c] \in {"welcome", "greet", "left", "moved", "entered", "farewell"}

(* A client that asks for the users of its room when it enters, and then   *)
(* follows the announcements, knows who is in the room: whenever nobody of *)
(* that name is about to announce something, the client has lost nothing   *)
(* to a full queue, and the name was not taken again before its former     *)
(* holder's leaving was announced.                                         *)
ViewIsRight ==
    \A c \in clients \ missed : \A u \in Users \ (overlapped \cup {NameOf[c]}) :
        (\A d \in Conns : NameOf[d] = u => ~Announcing(d))
            => (u \in view[c] <=> u \in NamesIn(room[c], clients))

(* The welcome waits for room in a queue that nobody empties yet.          *)
Stuck(c) == pc[c] = "welcome" /\ Len(queue[c]) = Cap

(* A client whose peer hung up is taken out of the registry, and its name  *)
(* is free again, unless its queue filled up before its welcome.           *)
GoneIsUnlisted ==
    \A c \in Conns : c \in gone /\ c \in clients ~> c \notin clients \/ Stuck(c)

(* The abstract service: who is in which room at each moment, and what     *)
(* each client was sent.                                                   *)
TalkIn(s) ==
    LET upto[n \in 0..Len(s)] ==
            IF n = 0 THEN <<>>
            ELSE IF s[n].kind \in Talk THEN Append(upto[n - 1], s[n])
            ELSE upto[n - 1]
    IN  upto[Len(s)]

Talked(c) == TalkIn(Stream(c))

Service == INSTANCE ChatService WITH
    Clients <- Conns,
    Numbers <- UNION {0..Budget[t] : t \in Tasks},
    where   <- [c \in clients |-> room[c]],
    busy    <- {c \in Conns : ~Takes(c)},
    cut     <- gone,
    heard   <- [c \in Conns |-> Talked(c)]

(* The registry implements it.  The sender's room, the block list, and the *)
(* members of a room are read in different critical sections, rooms are    *)
(* kept in two indexes, and queues overflow; yet every message reaches all *)
(* of its room, and no one else, in one order for all.                     *)
ServiceSpec == Service!Spec

=============================================================================
