-------------------------------- MODULE Client --------------------------------
(***************************************************************************)
(* The Rust client: rust-tui/client/src/net.rs (the network task, and the  *)
(* reader task it starts for each connection) and main.rs (the user        *)
(* interface).  The three run in parallel and meet in three bounded        *)
(* queues: status and inbound lead to the user interface, outbound leads   *)
(* to the network task.  A send waits for room in its queue.               *)
(*                                                                         *)
(* The peer is the Rust server, as far as a client notices it: it accepts, *)
(* registers a name that is free, reads lines, sends frames, stops, starts *)
(* again, and learns only later that a connection is over.                 *)
(*                                                                         *)
(* Abstractions.  Time: a pause ends at some moment, the backoff only says *)
(* how long it is.  A write never waits for the peer.  A write on a        *)
(* connection that is cut may fail or be lost.  What the user types is a   *)
(* number and the kind of message it becomes; lines typed without effect   *)
(* on the queues (help, usage errors, editing, scrolling) are left out,    *)
(* and so is what scrolls by on the screen.                                *)
(***************************************************************************)
EXTENDS Naturals, Sequences, Listing

CONSTANTS
    Slots,      \* connections that exist at the same time, for the server
    NoConn,     \* no connection yet
    StatusCap,  \* 8: room in the status queue
    InCap,      \* 128: room in the inbound queue
    OutCap,     \* 128: room in the outbound queue
    Kinds,      \* the kinds of messages the user sends
    Frames,     \* the frames the server sends, as sequences of lines
    MaxTyped,   \* bound: messages typed
    MaxCuts,    \* bound: connections cut, and stops of the server
    MaxFrames   \* bound: frames the server sends

ASSUME ClientAssumption ==
    /\ NoConn \notin Slots
    /\ StatusCap \in Nat \ {0} /\ InCap \in Nat \ {0} /\ OutCap \in Nat \ {0}
    /\ Kinds \subseteq {"say", "join", "pm", "list", "rooms", "quit"}
    /\ Frames \subseteq Seq(Lines)
    /\ MaxTyped \in Nat /\ MaxCuts \in Nat /\ MaxFrames \in Nat

(* ClientMessage, after parse_command; `no` counts what the user entered.  *)
Outgoing == [no : 1..MaxTyped, kind : Kinds]

(* ServerMessage, with the connection it came over.                        *)
Incoming == [kind : {"welcome", "reconnected", "error"} \cup MessageKinds,
             conn : Slots \cup {NoConn}, items : Seq(Items)]

(* The first frame of a connection, the name.                              *)
Hello == [no |-> 0, kind |-> "hello"]

Statuses == {"Connecting", "Online", "Reconnecting", "Closed"}

VARIABLES
    net,        \* where the network task is
    greeted,    \* ~first_connect
    conn, link, \* its connection, and whether that is open or cut
    reader,     \* the reader task of a connection: "none", "reading", "passing",
                \* "ended"
    pending,    \* the messages of a frame it has still to pass on
    collector,  \* its ListCollector
    status, inbound, outbound,   \* the three queues
    ui,         \* the user interface: "idle", "sending", "left"
    draft,      \* the message it is sending
    typed,      \* messages typed so far
    connection, online,    \* App: the status and the users shown
    greeting,   \* the connection of the last greeting shown
    up,         \* the server runs
    stage,      \* what each connection is to the server: "free", "new",
                \* "in" (its name is registered)
    toServer,   \* written on a connection and not read by the server
    toClient,   \* frames sent on a connection and not read by the client
    delivered,  \* history: the numbers of the messages the server read, with
                \* that of Hello where a connection was registered
    cuts, said  \* history: what happened, for the bounds

netVars    == <<net, greeted, conn, link>>
readerVars == <<reader, pending, collector>>
uiVars     == <<ui, draft, typed, connection, online, greeting>>
serverVars == <<up, stage, toServer, toClient, delivered, cuts, said>>
vars       == <<netVars, readerVars, status, inbound, outbound, uiVars, serverVars>>

-----------------------------------------------------------------------------

Alive == ui # "left"
At(here) == Alive /\ net = here
Goto(there) == net' = there

TellAnyway(s) == status' = Append(status, s)
TellIfRoom(s) == status' = IF Len(status) < StatusCap THEN Append(status, s) ELSE status
Tell(s) == Len(status) < StatusCap /\ status' = Append(status, s)

Note(kind) == [kind |-> kind, conn |-> conn, items |-> <<>>]
Show(m) == Len(inbound) < InCap /\ inbound' = Append(inbound, m)

(* write_frame: on a connection that is cut the bytes go nowhere.          *)
Write(frame) ==
    toServer' = IF link = "open" THEN [toServer EXCEPT ![conn] = Append(@, frame)]
                ELSE toServer

(* abort: the network task gave up the reader, but a poll in progress goes *)
(* on.                                                                     *)
Aborted(k) == k # conn \/ net \in {"lost", "sorry", "pause", "stopped"}

ReaderGone(k) == reader[k] \in {"none", "ended"}

Registered == {k \in Slots : stage[k] = "in"}

Init ==
    /\ net = "top" /\ greeted = FALSE /\ conn = NoConn /\ link = "none"
    /\ reader = [k \in Slots |-> "none"] /\ pending = [k \in Slots |-> <<>>]
    /\ collector = [k \in Slots |-> NewCollector]
    /\ status = <<>> /\ inbound = <<>> /\ outbound = <<>>
    /\ ui = "idle" /\ draft = <<>> /\ typed = 0
    /\ connection = "Connecting" /\ online = <<>>
    /\ greeting = NoConn
    /\ up \in BOOLEAN
    /\ stage = [k \in Slots |-> "free"]
    /\ toServer = [k \in Slots |-> <<>>] /\ toClient = [k \in Slots |-> <<>>]
    /\ delivered = <<>> /\ cuts = 0 /\ said = 0

-----------------------------------------------------------------------------
(* The network task: connecting.                                           *)

Top ==
    /\ At("top")
    /\ Tell("Connecting") /\ Goto("dial")
    /\ UNCHANGED <<greeted, conn, link, readerVars, inbound, outbound, uiVars, serverVars>>

Refused ==
    /\ At("dial") /\ ~up
    /\ Goto("refused")
    /\ UNCHANGED <<greeted, conn, link, readerVars, status, inbound, outbound,
                   uiVars, serverVars>>

(* Whatever the client wrote before the connection before is gone from its *)
(* side; the server may still have that connection.                        *)
Connect(k) ==
    /\ At("dial") /\ up
    /\ k # conn /\ stage[k] = "free" /\ ReaderGone(k)
    /\ conn' = k /\ link' = "open"
    /\ stage' = [stage EXCEPT ![k] = "new"]
    /\ toServer' = [toServer EXCEPT ![k] = <<>>]
    /\ toClient' = [toClient EXCEPT ![k] = <<>>]
    /\ Goto("hello")
    /\ UNCHANGED <<greeted, readerVars, status, inbound, outbound, uiVars, up,
                   delivered, cuts, said>>

SendName ==
    /\ At("hello")
    /\ Write(Hello) /\ Goto("online")
    /\ UNCHANGED <<greeted, conn, link, readerVars, status, inbound, outbound, uiVars,
                   up, stage, toClient, delivered, cuts, said>>

NameNotSent ==
    /\ At("hello") /\ link = "cut"
    /\ Goto("unsent")
    /\ UNCHANGED <<greeted, conn, link, readerVars, status, inbound, outbound,
                   uiVars, serverVars>>

Online ==
    /\ At("online")
    /\ Tell("Online") /\ Goto("greet")
    /\ UNCHANGED <<greeted, conn, link, readerVars, inbound, outbound, uiVars, serverVars>>

(* The first time a welcome, later "reconnected"; the reader is started.   *)
Greet ==
    /\ At("greet")
    /\ Show(Note(IF greeted THEN "reconnected" ELSE "welcome"))
    /\ greeted' = TRUE
    /\ reader' = [reader EXCEPT ![conn] = "reading"]
    /\ collector' = [collector EXCEPT ![conn] = NewCollector]
    /\ Goto("select")
    /\ UNCHANGED <<conn, link, pending, status, outbound, uiVars, serverVars>>

(* Each failure is told twice, as a status and as a line, and the task     *)
(* waits for room in both queues.                                          *)
Failures == {<<"refused", "regret">>, <<"unsent", "excuse">>, <<"lost", "sorry">>}
AfterApology == [regret |-> "backoff", excuse |-> "top", sorry |-> "pause"]

TellFailure ==
    /\ Alive
    /\ \E f \in Failures : net = f[1] /\ Goto(f[2])
    /\ Tell("Reconnecting")
    /\ UNCHANGED <<greeted, conn, link, readerVars, inbound, outbound, uiVars, serverVars>>

ShowFailure ==
    /\ Alive
    /\ net \in DOMAIN AfterApology /\ Goto(AfterApology[net])
    /\ Show(Note("error"))
    /\ UNCHANGED <<greeted, conn, link, readerVars, status, outbound, uiVars, serverVars>>

NotWaitedFor(k) == TRUE
Ended(k) == ReaderGone(k)

(* A poll of the aborted reader is over long before the pause of 800 ms.   *)
Wake ==
    /\ Alive
    /\ net = "backoff" \/ (net = "pause" /\ Ended(conn))
    /\ Goto("top")
    /\ UNCHANGED <<greeted, conn, link, readerVars, status, inbound, outbound,
                   uiVars, serverVars>>

-----------------------------------------------------------------------------
(* The network task: connected.                                            *)

(* outbound.recv: the message is written, or lost with the connection.     *)
Forward ==
    /\ At("select") /\ outbound # <<>>
    /\ Write(Head(outbound))
    /\ outbound' = Tail(outbound)
    /\ Goto(IF Head(outbound).kind = "quit" THEN "closing" ELSE "select")
    /\ UNCHANGED <<greeted, conn, link, readerVars, status, inbound, uiVars,
                   up, stage, toClient, delivered, cuts, said>>

ForwardFails ==
    /\ At("select") /\ outbound # <<>> /\ link = "cut"
    /\ outbound' = Tail(outbound)
    /\ Goto("lost")
    /\ UNCHANGED <<greeted, conn, link, readerVars, status, inbound, uiVars, serverVars>>

NeverDone(k) == FALSE
Done(k) == reader[k] = "ended"

(* wait_done                                                               *)
ReaderDone ==
    /\ At("select") /\ Done(conn)
    /\ Goto("lost")
    /\ UNCHANGED <<greeted, conn, link, readerVars, status, inbound, outbound,
                   uiVars, serverVars>>

(* After "/quit" the task ends, and the queues end with it.                *)
Stop ==
    /\ At("closing")
    /\ Tell("Closed") /\ Goto("stopped")
    /\ link' = "none"
    /\ outbound' = <<>>
    /\ UNCHANGED <<greeted, conn, readerVars, inbound, uiVars, serverVars>>

-----------------------------------------------------------------------------
(* The reader task.                                                        *)

Reading(k) == Alive /\ reader[k] = "reading"

(* A frame is split into lines, and the lines are collected into messages. *)
Read(k) ==
    /\ Reading(k) /\ toClient[k] # <<>>
    /\ LET out == CollectFrame(collector[k], Head(toClient[k])) IN
          /\ pending' = [pending EXCEPT ![k] = out.messages]
          /\ collector' = [collector EXCEPT ![k] = out.collector]
          /\ reader' = [reader EXCEPT ![k] =
                           IF out.messages = <<>> THEN "reading" ELSE "passing"]
    /\ toClient' = [toClient EXCEPT ![k] = Tail(@)]
    /\ UNCHANGED <<netVars, status, inbound, outbound, uiVars, up, stage, toServer,
                   delivered, cuts, said>>

Pass(k) ==
    /\ Alive /\ reader[k] = "passing"
    /\ LET m == Head(pending[k]) IN Show([kind |-> m.kind, conn |-> k, items |-> m.items])
    /\ pending' = [pending EXCEPT ![k] = Tail(@)]
    /\ reader' = [reader EXCEPT ![k] = IF Tail(pending[k]) = <<>> THEN "reading" ELSE @]
    /\ UNCHANGED <<netVars, collector, status, outbound, uiVars, serverVars>>

(* End of file, or a reset that takes with it what was not read.           *)
ReadFails(k) ==
    /\ Reading(k) /\ (k # conn \/ link # "open")
    /\ reader' = [reader EXCEPT ![k] = "ended"]
    /\ UNCHANGED <<netVars, pending, collector, status, inbound, outbound, uiVars, serverVars>>

Cancelled(k) ==
    /\ Alive /\ Aborted(k) /\ ~ReaderGone(k)
    /\ reader' = [reader EXCEPT ![k] = "ended"]
    /\ pending' = [pending EXCEPT ![k] = <<>>]
    /\ UNCHANGED <<netVars, collector, status, inbound, outbound, uiVars, serverVars>>

-----------------------------------------------------------------------------
(* The user interface: run_app, handle_key, handle_server_msg.             *)

Idle == ui = "idle"

(* Enter: the line becomes a message.                                      *)
Type(kind) ==
    /\ Idle /\ typed < MaxTyped
    /\ typed' = typed + 1
    /\ draft' = <<[no |-> typed + 1, kind |-> kind]>>
    /\ ui' = "sending"
    /\ UNCHANGED <<netVars, readerVars, status, inbound, outbound, connection,
                   online, greeting, serverVars>>

(* out.send(..).await, in the middle of the key's handler: until there is  *)
(* room the interface handles nothing else.  A queue whose receiver is     *)
(* gone takes the message and loses it.                                    *)
SendOut ==
    /\ ui = "sending"
    /\ IF net = "stopped" THEN UNCHANGED outbound
       ELSE Len(outbound) < OutCap /\ outbound' = outbound \o draft
    /\ ui' = "idle" /\ draft' = <<>>
    /\ UNCHANGED <<netVars, readerVars, status, inbound, typed, connection,
                   online, greeting, serverVars>>

TakeStatus ==
    /\ Idle /\ status # <<>>
    /\ connection' = Head(status) /\ status' = Tail(status)
    /\ UNCHANGED <<netVars, readerVars, inbound, outbound, ui, draft, typed,
                   online, greeting, serverVars>>

(* handle_server_msg: what changes but for the lines on the screen.  A     *)
(* `joined`, the one message that would change the room shown, never comes *)
(* (ParseLine): the room is not modelled.                                  *)
TakeInbound ==
    /\ Idle /\ inbound # <<>>
    /\ LET m == Head(inbound) IN
          /\ online' = IF m.kind = "user_list" THEN m.items ELSE online
          /\ greeting' = IF m.kind \in {"welcome", "reconnected"} THEN m.conn ELSE greeting
    /\ inbound' = Tail(inbound)
    /\ UNCHANGED <<netVars, readerVars, status, outbound, ui, draft, typed, connection,
                   serverVars>>

(* Esc on an empty line, or Ctrl-C: run_app returns and the process ends.  *)
Leave ==
    /\ Idle
    /\ ui' = "left" /\ link' = "none"
    /\ UNCHANGED <<net, greeted, conn, readerVars, status, inbound, outbound, draft,
                   typed, connection, online, greeting, serverVars>>

-----------------------------------------------------------------------------
(* The server.                                                             *)

Free(k) ==
    /\ stage' = [stage EXCEPT ![k] = "free"]
    /\ toServer' = [toServer EXCEPT ![k] = <<>>]
    /\ link' = IF k = conn /\ link = "open" THEN "cut" ELSE link

AnyName == TRUE
NameFree == Registered = {}

(* A name is registered once.                                              *)
Register(k) ==
    /\ stage[k] = "new" /\ toServer[k] # <<>>
    /\ NameFree
    /\ stage' = [stage EXCEPT ![k] = "in"]
    /\ toServer' = [toServer EXCEPT ![k] = Tail(@)]
    /\ delivered' = Append(delivered, Hello.no)
    /\ UNCHANGED <<netVars, readerVars, status, inbound, outbound, uiVars, up,
                   toClient, cuts, said>>

NameInUse(k) ==
    /\ stage[k] = "new" /\ toServer[k] # <<>>
    /\ ~NameFree
    /\ Free(k)
    /\ toClient' = [toClient EXCEPT ![k] = Append(@, <<Line("error", <<>>)>>)]
    /\ UNCHANGED <<net, greeted, conn, readerVars, status, inbound, outbound, uiVars,
                   up, delivered, cuts, said>>

Receive(k) ==
    /\ stage[k] = "in" /\ toServer[k] # <<>>
    /\ LET m == Head(toServer[k]) IN
          /\ delivered' = Append(delivered, m.no)
          /\ IF m.kind = "quit" THEN Free(k)
             ELSE toServer' = [toServer EXCEPT ![k] = Tail(@)] /\ UNCHANGED <<stage, link>>
    /\ UNCHANGED <<net, greeted, conn, readerVars, status, inbound, outbound, uiVars,
                   up, toClient, cuts, said>>

(* A read fails, or times out before the name came.                        *)
Notice(k) ==
    /\ stage[k] # "free"
    /\ k # conn \/ link # "open"
    /\ Free(k)
    /\ UNCHANGED <<net, greeted, conn, readerVars, status, inbound, outbound, uiVars,
                   up, toClient, delivered, cuts, said>>

SendFrame(f) ==
    /\ link = "open" /\ conn \in Registered /\ said < MaxFrames
    /\ toClient' = [toClient EXCEPT ![conn] = Append(@, f)]
    /\ said' = said + 1
    /\ UNCHANGED <<netVars, readerVars, status, inbound, outbound, uiVars, up, stage,
                   toServer, delivered, cuts>>

CutLink ==
    /\ link = "open" /\ cuts < MaxCuts
    /\ link' = "cut" /\ cuts' = cuts + 1
    /\ UNCHANGED <<net, greeted, conn, readerVars, status, inbound, outbound, uiVars,
                   up, stage, toServer, toClient, delivered, said>>

ServerStops ==
    /\ up /\ cuts < MaxCuts
    /\ up' = FALSE /\ cuts' = cuts + 1
    /\ stage' = [k \in Slots |-> "free"]
    /\ toServer' = [k \in Slots |-> <<>>]
    /\ link' = IF link = "open" THEN "cut" ELSE link
    /\ UNCHANGED <<net, greeted, conn, readerVars, status, inbound, outbound, uiVars,
                   toClient, delivered, said>>

ServerStarts ==
    /\ ~up
    /\ up' = TRUE
    /\ UNCHANGED <<netVars, readerVars, status, inbound, outbound, uiVars, stage,
                   toServer, toClient, delivered, cuts, said>>

-----------------------------------------------------------------------------

NetStep ==
    \/ Top \/ Refused \/ (\E k \in Slots : Connect(k)) \/ SendName \/ NameNotSent
    \/ Online \/ Greet \/ TellFailure \/ ShowFailure \/ Wake
    \/ Forward \/ ForwardFails \/ ReaderDone \/ Stop

ReaderStep(k) == Read(k) \/ Pass(k) \/ ReadFails(k) \/ Cancelled(k)

ServerStep(k) == Register(k) \/ NameInUse(k) \/ Receive(k) \/ Notice(k)

Environment ==
    \/ \E kind \in Kinds : Type(kind)
    \/ Leave
    \/ \E f \in Frames : SendFrame(f)
    \/ CutLink \/ ServerStops \/ ServerStarts

Next ==
    \/ NetStep \/ (\E k \in Slots : ReaderStep(k) \/ ServerStep(k))
    \/ SendOut \/ TakeStatus \/ TakeInbound
    \/ Environment

Spec == Init /\ [][Next]_vars

(* Tasks are scheduled, select! tries its branches in random order, and    *)
(* the server goes on.  The user, the network and who runs the server owe  *)
(* nothing, with one exception: a cut is noticed at last, by an error or   *)
(* an end of file.  Neither side has a read timeout or a keepalive once    *)
(* the name is sent, so on a connection that just goes silent the client   *)
(* would wait for good.                                                    *)
Fairness ==
    /\ WF_vars(NetStep)
    /\ WF_vars(\E k \in Slots : ReaderStep(k))
    /\ WF_vars(SendOut \/ TakeStatus \/ TakeInbound)
    /\ \A k \in Slots : WF_vars(ServerStep(k))

FairSpec == Spec /\ Fairness

-----------------------------------------------------------------------------
(* Properties.                                                             *)

NetPlaces == {"top", "dial", "refused", "regret", "backoff", "hello", "unsent", "excuse",
              "online", "greet", "select", "lost", "sorry", "pause", "closing", "stopped"}

(* Every variable has the values the code can give it; in particular no    *)
(* queue is ever longer than its capacity.                                 *)
TypeOK ==
    /\ net \in NetPlaces /\ greeted \in BOOLEAN
    /\ conn \in Slots \cup {NoConn} /\ link \in {"none", "open", "cut"}
    /\ reader \in [Slots -> {"none", "reading", "passing", "ended"}]
    /\ pending \in [Slots -> Seq([kind : MessageKinds, items : Seq(Items)])]
    /\ collector \in [Slots -> [mode : {"none", "users", "rooms"}, items : Seq(Items)]]
    /\ status \in Seq(Statuses) /\ Len(status) =< StatusCap
    /\ inbound \in Seq(Incoming) /\ Len(inbound) =< InCap
    /\ outbound \in Seq(Outgoing) /\ Len(outbound) =< OutCap
    /\ ui \in {"idle", "sending", "left"} /\ draft \in Seq(Outgoing)
    /\ typed \in 0..MaxTyped
    /\ connection \in Statuses /\ online \in Seq(Items)
    /\ greeting \in Slots \cup {NoConn}
    /\ up \in BOOLEAN /\ stage \in [Slots -> {"free", "new", "in"}]
    /\ toServer \in [Slots -> Seq(Outgoing \cup {Hello})]
    /\ toClient \in [Slots -> Seq(Seq(Lines))]
    /\ delivered \in Seq(0..MaxTyped)
    /\ cuts \in 0..MaxCuts /\ said \in 0..MaxFrames

(* What the user enters reaches the server at most once, over all          *)
(* connections, and over each connection in the order it was entered and   *)
(* without a gap: what is missing was lost with a connection.  There is no *)
(* such order between connections: the server may come to a connection the *)
(* client gave up after it has served the next one.                        *)
DeliveredOnce ==
    \A i, j \in DOMAIN delivered :
        i < j /\ delivered[i] # Hello.no /\ delivered[j] # Hello.no =>
            /\ delivered[i] # delivered[j]
            /\ j = i + 1 => delivered[j] = delivered[i] + 1

Connected == {"greet", "select", "lost", "closing"}

(* Once the interface has caught up with the status queue, it shows the    *)
(* client as online exactly when the network task has a connection.        *)
StatusTrue ==
    status = <<>> => (connection = "Online" <=> net \in Connected)

(* The last greeting before position i of the inbound queue.               *)
GreetingBefore(i) ==
    LET seen == {j \in 1..(i - 1) : inbound[j].kind \in {"welcome", "reconnected"}}
    IN IF seen = {} THEN greeting
       ELSE inbound[CHOOSE j \in seen : \A l \in seen : l =< j].conn

(* Nothing that came over an earlier connection is shown after the line    *)
(* "reconnected" of a later one: the reader of the earlier connection is   *)
(* aborted, and over, by then.                                             *)
NothingStale ==
    \A i \in DOMAIN inbound :
        inbound[i].kind \in MessageKinds => inbound[i].conn = GreetingBefore(i)

(* The list of users shown is one that the server sent, whole and with     *)
(* nothing from another list or frame in it.                               *)
OnlineIsAList == online = <<>> \/ \E f \in Frames : online \in ListedIn(f, "users")

(* All three queues full at the wrong time: the interface waits for room   *)
(* in outbound, and the network task, not connected, for room in a queue   *)
(* of the interface.                                                       *)
Jammed ==
    /\ ui = "sending" /\ Len(outbound) = OutCap
    /\ \/ net \in {"top", "refused", "unsent", "lost", "online", "closing"}
             /\ Len(status) = StatusCap
       \/ net \in {"regret", "excuse", "sorry", "greet"} /\ Len(inbound) = InCap

Over == ui = "left" \/ net \in {"closing", "stopped"}
Served == link = "open" /\ conn \in Registered

(* If the server runs for good, and connections are no longer cut, the     *)
(* client is registered again for good, unless it is over or jammed.       *)
OnlineAgain == <>[]up => <>[](Served \/ Over) \/ <>[]Jammed

(* "auto-reconnect on the client" (README.md:210) and "graceful reconnect" *)
(* (README.md:73): a server that comes back gets its client back.          *)
AutoReconnect == <>[]up => <>[](Served \/ Over)

=============================================================================
