------------------------------- MODULE Observer -------------------------------
(***************************************************************************)
(* The dashboard attached to the C++ backend: observe_loop and             *)
(* ObserveCollector of rust-tui/server/src/main.rs, and framing on both    *)
(* sides (write_frame and read_frame of rust-tui/shared/src/lib.rs,        *)
(* sendAll of cpp-server/vector-com.cpp).                                  *)
(*                                                                         *)
(* One select! waits for the refresh timer, for an admin command and for   *)
(* the next frame.  When the timer or a command wins, the read_frame in    *)
(* progress is dropped, with the bytes it has.  In the backend, the thread *)
(* of this connection answers, and other threads broadcast to it: a frame  *)
(* that does not fit in the socket's buffer goes out in portions, and the  *)
(* portions of two threads may alternate.                                  *)
(*                                                                         *)
(* Abstractions.  A frame is three pieces of one size: its length, and two *)
(* halves of its text.  Bytes read as a length that are none either exceed *)
(* MAX_FRAME_BYTES or pass for the length of a frame.  Text decoded at the *)
(* wrong place is one line that no parser knows (Junk).  A list shows one  *)
(* state of the backend, a number, in each of its halves; the observer's   *)
(* own entry is left out.  Writes of the observer do not wait.             *)
(***************************************************************************)
EXTENDS Naturals, SequencesExt, Listing

CONSTANTS
    Casters,     \* threads that broadcast
    Replier,     \* the thread of the observer's connection
    WireCap,     \* room, in pieces, between the backend and the observer
    AdminCap,    \* 32: room in the queue of admin commands
    MaxAsks,     \* bound: commands on their way to the backend
    MaxChanges,  \* bound: changes of the users and rooms
    MaxEvents    \* bound: changes, broadcasts, admin commands, connections cut
                 \* and stops of the backend, together

ASSUME ObserverAssumption ==
    /\ Replier \notin Casters
    /\ WireCap \in Nat \ {0} /\ AdminCap \in Nat \ {0} /\ MaxAsks \in Nat \ {0}
    /\ Items = 0..MaxChanges
    /\ MaxChanges \in Nat /\ MaxEvents \in Nat

Threads == Casters \cup {Replier}

(* A piece: its place in its frame, and what the frame says.               *)
Pieces == [place : 1..3, kind : {"users", "rooms", "line"}, number : Items]
Frame(kind, n) == [i \in 1..3 |-> [place |-> i, kind |-> kind, number |-> n]]
LineFrame == Frame("line", 0)

(* The lines that end in a piece: a list is its header and an entry, then  *)
(* another entry.                                                          *)
Entry(n) == Line("item", <<n>>)
LinesIn(piece) ==
    CASE piece.place = 1 -> <<>>
      [] piece.place = 2 -> IF piece.kind = "line" THEN <<>>
                            ELSE <<Line(piece.kind, <<>>), Entry(piece.number)>>
      [] OTHER -> <<IF piece.kind = "line" THEN Line("chat", <<>>) ELSE Entry(piece.number)>>
Junk == Line("notice", <<>>)

Whole(n) == <<n, n>>

VARIABLES
    place,       \* the observer: "dial", "hello", "loop", "wait"
    link,        \* its connection: "none", "open", "cut"
    askRooms,    \* the next refresh asks for rooms, not users
    have,        \* what the read_frame in progress has read
    collector,   \* ObserveCollector
    users, rooms,      \* ServerState::observed_users, observed_rooms
    orders,      \* the queue of admin commands
    token,       \* VECTORCOM_ADMIN_TOKEN is set
    up,          \* the backend runs
    state,       \* the number of its users and rooms as they are
    toBackend,   \* commands written and not read by the backend
    sending,     \* what each of its threads has still to send
    stream,      \* pieces sent to the observer and not read
    mixed,       \* history: frames of two threads alternated in this stream
    slipped,     \* history: bytes of this stream were read and dropped
    events       \* history: what happened outside, for the bound

observerVars == <<place, link, askRooms, have, collector, users, rooms, orders, token, slipped>>
backendVars  == <<up, state, toBackend, sending, stream, mixed>>
vars         == <<observerVars, backendVars, events>>

-----------------------------------------------------------------------------

Init ==
    /\ place = "dial" /\ link = "none" /\ askRooms = FALSE
    /\ have = <<>> /\ collector = NewCollector
    /\ users = <<>> /\ rooms = <<>>
    /\ orders = <<>> /\ token \in BOOLEAN
    /\ up = FALSE /\ state = 0
    /\ toBackend = <<>> /\ sending = [t \in Threads |-> <<>>] /\ stream = <<>>
    /\ mixed = FALSE /\ slipped = FALSE
    /\ events = 0

(* Something happens that the observer has no part in.                     *)
Event == events < MaxEvents /\ events' = events + 1

-----------------------------------------------------------------------------
(* The observer: connecting.                                               *)

ConnectFails ==
    /\ place = "dial" /\ ~up
    /\ place' = "wait"
    /\ UNCHANGED <<link, askRooms, have, collector, users, rooms, orders, token, slipped,
                   backendVars, events>>

Connect ==
    /\ place = "dial" /\ up
    /\ place' = "hello" /\ link' = "open"
    /\ UNCHANGED <<askRooms, have, collector, users, rooms, orders, token, slipped,
                   backendVars, events>>

(* The name is sent; the panels keep what they show.                       *)
StartLoop ==
    /\ place = "hello"
    /\ place' = "loop"
    /\ askRooms' = FALSE /\ have' = <<>> /\ collector' = NewCollector
    /\ UNCHANGED <<link, users, rooms, orders, token, slipped, backendVars, events>>

(* The connection is closed, and what is on it lost.                       *)
Closed ==
    /\ link' = "none"
    /\ toBackend' = <<>> /\ sending' = [t \in Threads |-> <<>>] /\ stream' = <<>>
    /\ mixed' = FALSE /\ slipped' = FALSE

HandshakeFails ==
    /\ place = "hello" /\ link = "cut"
    /\ place' = "dial" /\ Closed
    /\ UNCHANGED <<askRooms, have, collector, users, rooms, orders, token,
                   up, state, events>>

(* After the backoff or the pause of 800 ms.                               *)
Wake ==
    /\ place = "wait"
    /\ place' = "dial" /\ Closed
    /\ UNCHANGED <<askRooms, have, collector, users, rooms, orders, token,
                   up, state, events>>

-----------------------------------------------------------------------------
(* The observer: the branches of its select!.                              *)

(* The loop is left; the connection stays open until the pause is over.    *)
Break ==
    /\ place' = "wait" /\ have' = <<>>
    /\ UNCHANGED <<link, toBackend, slipped>>

(* Another branch of the select! wins: the read_frame in progress is       *)
(* dropped.                                                                *)
DropRead ==
    /\ have' = <<>>
    /\ slipped' = (slipped \/ have # <<>>)

WriteCommand(command) ==
    /\ DropRead
    /\ toBackend' = IF link = "open" THEN Append(toBackend, command) ELSE toBackend
    /\ UNCHANGED <<place, link>>

SameAsk(rest) == rest
NextAsk(rest) == ~rest

(* refresh.tick()                                                          *)
Tick ==
    /\ place = "loop" /\ Len(toBackend) < MaxAsks
    /\ askRooms' = NextAsk(askRooms)
    /\ \/ WriteCommand(IF askRooms THEN "rooms" ELSE "list")
       \/ link = "cut" /\ Break
    /\ UNCHANGED <<collector, users, rooms, orders, token, up, state, sending, stream,
                   mixed, events>>

(* admin_rx.recv(): without a token the command is only logged.            *)
TakeOrder ==
    /\ place = "loop" /\ orders # <<>> /\ Len(toBackend) < MaxAsks
    /\ orders' = Tail(orders)
    /\ \/ token /\ WriteCommand("admin")
       \/ token /\ link = "cut" /\ Break
       \/ ~token /\ DropRead /\ UNCHANGED <<place, link, toBackend>>
    /\ UNCHANGED <<askRooms, collector, users, rooms, token, up, state, sending, stream,
                   mixed, events>>

(* Two reads make a frame: the length, and as many bytes as it says.       *)
AnyTwo(pieces) == Len(pieces) = 2
Complete(pieces) == Len(pieces) = 3

InStep(pieces) == pieces = <<>> \/ pieces[1].place = 1

(* The text of the pieces read: what is not where it was encrypted cannot  *)
(* be read.                                                                *)
TextOf(pieces) ==
    FlattenSeq([i \in DOMAIN pieces |->
        IF InStep(pieces) /\ pieces[i].place = i THEN LinesIn(pieces[i]) ELSE <<Junk>>])

LastOf(messages, kind, default) ==
    LET found == {i \in DOMAIN messages : messages[i].kind = kind}
    IN IF found = {} THEN default
       ELSE messages[CHOOSE i \in found : \A j \in found : j =< i].items

(* More of the frame arrives; once it is complete, its lines are collected *)
(* and the lists in them shown.                                            *)
Read ==
    /\ place = "loop" /\ stream # <<>>
    /\ stream' = Tail(stream)
    /\ LET got == Append(have, Head(stream))
       IN IF Complete(got)
          THEN \E text \in {TextOf(got)} : \E out \in {CollectFrame(collector, text)} :
                  /\ have' = <<>>
                  /\ collector' = out.collector
                  /\ users' = LastOf(out.messages, "user_list", users)
                  /\ rooms' = LastOf(out.messages, "room_list", rooms)
          ELSE have' = got /\ UNCHANGED <<collector, users, rooms>>
    /\ UNCHANGED <<place, link, askRooms, orders, token, slipped, up, state, toBackend, sending,
                   mixed, events>>

(* End of file, or a length that cannot be: "upstream closed".             *)
ReadFails ==
    /\ place = "loop"
    /\ \/ link = "cut"
       \/ have = <<>> /\ stream # <<>> /\ Head(stream).place # 1
    /\ Break
    /\ UNCHANGED <<askRooms, collector, users, rooms, orders, token, up, state, sending,
                   stream, mixed, events>>

(* The operator presses enter in the dashboard; the queue is full at       *)
(* AdminCap, and the dashboard waits.                                      *)
Order ==
    /\ Len(orders) < AdminCap
    /\ Event
    /\ orders' = Append(orders, "admin")
    /\ UNCHANGED <<place, link, askRooms, have, collector, users, rooms, token, slipped,
                   backendVars>>

-----------------------------------------------------------------------------
(* The backend.                                                            *)

(* The backend has the name, and lists the observer.                       *)
Served == link = "open" /\ place # "hello"

Answer(command) ==
    CASE command = "list"  -> Frame("users", state)
      [] command = "rooms" -> Frame("rooms", state)
      [] OTHER             -> LineFrame

(* The connection's thread takes the next command.                         *)
Serve ==
    /\ Served /\ toBackend # <<>> /\ sending[Replier] = <<>>
    /\ sending' = [sending EXCEPT ![Replier] = Answer(Head(toBackend))]
    /\ toBackend' = Tail(toBackend)
    /\ UNCHANGED <<observerVars, up, state, stream, mixed, events>>

Broadcast(t) ==
    /\ Served /\ sending[t] = <<>>
    /\ sending' = [sending EXCEPT ![t] = LineFrame]
    /\ Event
    /\ UNCHANGED <<observerVars, up, state, toBackend, stream, mixed>>

Begun(t) == Len(sending[t]) \in 1..2

AllOf(pieces, room) == Len(pieces)
Portion(pieces, room) == IF Len(pieces) < room THEN Len(pieces) ELSE room

(* send(): as much as there is room for.                                   *)
Send(t) ==
    /\ link = "open" /\ sending[t] # <<>> /\ Len(stream) < WireCap
    /\ LET n == Portion(sending[t], WireCap - Len(stream))
       IN /\ stream' = stream \o SubSeq(sending[t], 1, n)
          /\ sending' = [sending EXCEPT ![t] = SubSeq(@, n + 1, Len(@))]
    /\ mixed' = (mixed \/ \E other \in Threads \ {t} : Begun(other))
    /\ UNCHANGED <<observerVars, up, state, toBackend, events>>

Change ==
    /\ state < MaxChanges
    /\ state' = state + 1
    /\ Event
    /\ UNCHANGED <<observerVars, up, toBackend, sending, stream, mixed>>

Lost == link' = IF link = "open" THEN "cut" ELSE link

CutLink ==
    /\ link = "open"
    /\ Lost
    /\ Event
    /\ UNCHANGED <<place, askRooms, have, collector, users, rooms, orders, token, slipped,
                   up, state, toBackend, sending, stream, mixed>>

BackendStops ==
    /\ up
    /\ up' = FALSE /\ Lost
    /\ Event
    /\ UNCHANGED <<place, askRooms, have, collector, users, rooms, orders, token, slipped,
                   state, toBackend, sending, stream, mixed>>

BackendStarts ==
    /\ ~up
    /\ up' = TRUE
    /\ UNCHANGED <<observerVars, state, toBackend, sending, stream, mixed, events>>

-----------------------------------------------------------------------------

ObserverStep ==
    \/ ConnectFails \/ Connect \/ StartLoop \/ HandshakeFails \/ Wake

Next ==
    \/ ObserverStep \/ Tick \/ TakeOrder \/ Read \/ ReadFails \/ Order
    \/ Serve \/ (\E t \in Casters : Broadcast(t)) \/ (\E t \in Threads : Send(t))
    \/ Change \/ CutLink \/ BackendStops \/ BackendStarts

Spec == Init /\ [][Next]_vars

(* The timer fires, tasks and threads are scheduled, what was sent arrives *)
(* and a dead connection is noticed.  Who runs the backend or types owes   *)
(* nothing.                                                                *)
Fairness ==
    /\ WF_vars(ObserverStep) /\ WF_vars(Tick) /\ WF_vars(Read)
    /\ WF_vars(link = "cut" /\ ReadFails)
    /\ WF_vars(Serve) /\ \A t \in Threads : WF_vars(Send(t))

FairSpec == Spec /\ Fairness

-----------------------------------------------------------------------------
(* Properties.                                                             *)

Commands == {"list", "rooms", "admin"}

(* Every variable has the values the code can give it; in particular there *)
(* is never more on the way than fits.                                     *)
TypeOK ==
    /\ place \in {"dial", "hello", "loop", "wait"} /\ link \in {"none", "open", "cut"}
    /\ askRooms \in BOOLEAN /\ token \in BOOLEAN /\ up \in BOOLEAN /\ mixed \in BOOLEAN
    /\ slipped \in BOOLEAN
    /\ have \in Seq(Pieces) /\ Len(have) < 3
    /\ collector \in [mode : {"none", "users", "rooms"}, items : Seq(Items)]
    /\ users \in Seq(Items) /\ rooms \in Seq(Items)
    /\ orders \in Seq(Commands) /\ Len(orders) =< AdminCap
    /\ state \in Items
    /\ toBackend \in Seq(Commands) /\ Len(toBackend) =< MaxAsks
    /\ sending \in [Threads -> Seq(Pieces)]
    /\ stream \in Seq(Pieces) /\ Len(stream) =< WireCap
    /\ events \in 0..MaxEvents

(* However reads are dropped in the middle, a panel never changes to       *)
(* anything but a list that the backend sent, whole, unless frames of two  *)
(* threads were mixed in the stream.                                       *)
PanelsReal ==
    [][\A p \in {<<users, users'>>, <<rooms, rooms'>>} :
         p[2] # p[1] /\ ~mixed => \E n \in Items : p[2] = Whole(n)]_vars

(* The next byte read is not where a frame begins, though no frame is      *)
(* being read.                                                             *)
OutOfStep ==
    \/ place = "loop" /\ have = <<>> /\ stream # <<>> /\ Head(stream).place # 1
    \/ ~InStep(have)

(* "The length prefix is unencrypted so the receiver can always find frame *)
(* boundaries" (lib.rs:21-23, and vector-com.cpp:168-170), and "Framing    *)
(* guarantees one frame per command, so we can interleave freely"          *)
(* (main.rs:261): wherever the observer is in the stream, it knows where   *)
(* the next frame begins.  Not true of this code: a refresh or an admin    *)
(* command drops a read with bytes in it, and two threads of the backend   *)
(* write their frames into each other.                                     *)
BoundariesFound == ~OutOfStep

(* What is true of it: there is no third way to lose a frame's beginning.  *)
LostInTwoWays == OutOfStep => mixed \/ slipped

Current == users = Whole(state) /\ rooms = Whole(state)

(* If the backend runs for good, both panels come to show its users and    *)
(* rooms as they are, over errors and reconnections, unless the observer   *)
(* gets out of step again and again.                                       *)
PanelsCatchUp == <>[]up => <>[]Current \/ []<>OutOfStep

=============================================================================
