# A TLA+ model of Vectorcom

Vectorcom is a multi-client chat system: a C++ backend, a C++ command line
client, and a Rust workspace with a standalone chat server (which is also the
dashboard of the backend) and a terminal client. These modules model the parts
of it where several threads, tasks or peers meet, check them on small
instances with TLC, and prove the central facts about them for every size with
TLAPS.

    tlc   -config MCBackend_rooms.cfg MCBackend.tla
    tlapm BackendProofs.tla

## 1. The system

| Component | State it keeps | Operations | What makes it correct | Model |
|---|---|---|---|---|
| C++ backend: connections, rooms, broadcasts, admin (`cpp-server/vector-com.cpp`) | `clients` vector (descriptor, name, room), block list, history files, one detached thread per connection, admin console thread | accept, name frame, chat, `/pm`, `/join`, leaving, `kick`, `block`, `unblock`, `say`, `slowmode`, the same as `/admin` over the wire | a descriptor is closed once, by its owner; messages, notices and shutdowns reach whom they are meant for; every listed client is served and every one that is shut down goes away; a block takes effect; a room's history and its live messages together leave no hole | `Backend` |
| C++ backend: rate limit and slowmode | the timing fields of `ClientInfo`, `roomSlowmodeSeconds` | `isRateLimited`, the slowmode check, `slowmode` | what passes is bounded, only a busy peer is refused, messages keep the room's distance | `SendGate` |
| C++ backend: pin board | one file per room, with no lock | `/pin`, `/pins`, `/unpin` | a pin stays until it is unpinned | `PinBoard` |
| C++ backend: shutdown and lock | `running`, `clientsMutex` | `stop()`, the signal handler, sends under the lock | the server ends; no thread waits for a peer with the lock | next in the plan |
| Rust server: registry and connection tasks (`rust-tui/server/src/state.rs`, `main.rs`) | clients by id, names, rooms, block list; a bounded queue, a reader task and a writer task per client | register, say, pm, join, list, unregister, admin say/block/unblock | the three indexes agree; who is told what fits who is where; what is said reaches exactly those it is for, in one order; a name is given back | `Registry`, which implements `ChatService` |
| Rust dashboard as observer of the backend (`main.rs:232-400`) | lists rebuilt from text replies, a queue of admin commands, a read in progress | connecting, polling, reading frames, collecting lists, relaying admin commands | the panels show lists the backend sent, and in the end its state; a frame's beginning is not lost | `Observer`, with `Listing` |
| Rust client: connection and reconnection (`rust-tui/client/src/net.rs`, `main.rs`) | three queues between the network task, its readers and the interface; the status and users shown | connect, reconnect, send, receive, `/join`, `/list`, `/quit`, leave | no message is sent twice; what is shown is true of the connection; the client comes back; neither side waits for the other for good | `Client`, with `Listing` |
| Framing and XOR (`shared/src/lib.rs`, `vector-com.cpp:172-228`) | position in the stream | write a frame, read a frame | a receiver stays on frame boundaries | in `Observer`: frames in portions, two senders, interrupted reads |
| C++ command line client (`client.cpp`) | a socket shared by two threads | copy stdin to the socket and back | the socket is closed once | a peer of `Backend`; not modelled |
| Screens and line editing (`ui.rs`, `app.rs`) | cursor, scroll, input line | draw, edit | sequential, no shared state | not modelled |
| Texts on the wire (`wire.rs`, parsing in `net.rs`) | the list collector's mode and entries | format, parse, collect | a list is put together from its own entries | `Listing`: shapes of lines, not their wording |

### How the parts interact

A peer opens a TCP connection, sends its name as the first frame and commands
or chat lines after it. Both servers speak the same protocol. In the C++
backend the connection's thread works on the shared vector under
`clientsMutex` and sends to other peers' descriptors after releasing it. In
the Rust server a task works on the registry under a mutex and puts messages
in the queues of other clients (`try_send`), each of which is drained by that
client's own writer task. The dashboard is a peer of the C++ backend that
polls `/list` and `/rooms` and relays the admin's input as `/admin`. The Rust
client is three tasks: the interface, the network task, and a reader per
connection; they share nothing but three bounded queues, and a send waits for
room in them.

### What is hard about it

* **Descriptors are reused.** The C++ code closes a descriptor before it takes
  the entry out of the vector (`vector-com.cpp:417-418`), keeps descriptors
  across the release of the lock in broadcasts and kicks, and searches the
  vector for the first entry with a descriptor, which may be a former owner's.
* **Handlers are not atomic.** `/join` moves, announces, saves and replays in
  separate critical sections; the block list is checked in one and the message
  is sent in another; `/unpin` reads a file, empties it and writes it later.
* **Everyone waits.** The client's tasks wait for room in each other's queues;
  the server's never do, but for the welcome, and lose messages instead.
* **A read is dropped.** The dashboard's `select!` abandons a read when its
  timer or a command is first; the backend's threads write to one descriptor in
  portions.
* **Two ends disagree.** A client has given up a connection that the server
  still serves; the reader of a dead connection still holds lines; a new
  connection starts in the default room.
* **Failure in the middle.** A send fails in a broadcast; a peer leaves while
  its thread is busy; a restart falls between the emptying and the writing of
  the pin board; a queue is full.
* **Time.** The rate limit has windows of more than 1000 ms, the slowmode
  counts whole seconds rounded down, settings and rooms change in between.

`PROJECT.json` lists each hazard at its line, with the properties about it.

## 2. The modules

Mutated forms of some definitions stand just before the definition they are a
mutant of (`ErasedFirst` and `ErasedByName` before `Erased`, for instance).
They model plausible bugs, no action uses them, and each property of a passing
run has one that breaks it; `PROJECT.json` says which.

### Backend

One `pc` per thread; a step is one critical section of `clientsMutex`, or one
system call outside of it.

* `fdOf`, `sock` are the kernel's: which number each connection was given, and
  whether its socket is open, shut down or closed. `Accept` takes any number no
  open socket has. `Holders(e)` is who has, now, the number kept for entry `e`;
  `Deliver`, `Shutdown` and `CloseFd` act on the holder, not on `e`.
* `clients`, `seat`, `room` are the vector. Searches that stop at the first
  match take the smallest `seat`; the one in `/join` that does not stop takes
  the largest (`OldRoom`). `Erased` is `removeClient`, which erases *all*
  entries with the descriptor.
* A broadcast is `Announce` (its room is read), `Snapshot` (recipients, under
  the lock), `CastSend` for each, `CastFails` and `Reap` when a send fails, and
  `Save` (`saveMessage`) or `EndCast`. What follows depends on what was
  announced (`AfterSave`): a hello is followed by the replay of the history, a
  "left room" by the move (`Switch`), and so on.
* The end of a connection is `RecvFails`, `Close`, `Remove`, a last broadcast.
* A kick is `Kick` (lookup), `KickNotice`, `KickShut`; a block or unblock is
  the change and then `Notify`, in a second critical section. The console and a
  connection with the token run the same definitions, as the two copies in the
  source do the same.

History (never read by the code's own decisions): the fields that `Addressed`
fills in when a sender has chosen whom to send to, or to shut down: `to`, the
connections whose entries it chose (`CastSend` and `KickShut` read it for the
descriptors the code holds), `gone`, those of them that were closed and not
removed yet, and `before`, the connections that had the descriptor of another
one chosen already; `heirOf`, whose descriptor a connection took
over before its former owner had run `removeClient`; `late` counts chats of a
blocked connection since the block; `gap` has the messages that were on their
way when a client came into its room.

`Aim` says who may be hit when an entry is used: the one it is for, or another
that has its descriptor now, in one of the two windows the code leaves open:
the one meant was closed and not removed when the entry was chosen, or the
other was accepted between the choice and the use, which takes a sender that
lets go of the lock in between. A private message and a notice are sent under
the lock they were looked up with, and have the first window only.

Left out: error replies and listings (one action, `Ignore`, reads such a frame
and changes nothing shared), and with them the answer to a failed `/pm`, which
goes to the *last* entry with the sender's name. Peers read what they are sent,
so a send never blocks: what a full socket buffer does to a lock holder is not
modelled. A write the kernel accepted counts as delivered. The check of the
block list and the read of the room are one step.

### SendGate

The timing part of the `ClientInfo` that a connection's searches find, a clock
of `Second` ticks to the second, and the slowmode table. `RateCheck` is
`isRateLimited`; `Lookup`, `SlowCheck` and `Accept` are the three critical
sections a chat message goes through after it, with clock ticks, the admin's
changes (`SetSlowmode`) and the loss of the entry (`Unlist`) in between.

`owner` says whose entry the first one with the descriptor is: the connection's
own, that of a former owner which is closed and has still to run
`removeClient`, with whatever count, times and room it left (`FormerEntry`,
`Before` messages at most, at any tick up to `Start`), or none, after that
`removeClient` has erased both. `Join` compares with the last entry's room and
moves both (`ownRoom`). `inherited` is history: the messages of the former
owner in the count of the window.

`SlidingBound` is twice the limit because the window restarts, at the first
frame after it, and does not slide, though `vector-com.cpp:59` calls it a
"rolling 1-second window": three messages at its end and three at the start of
the next may fall into one second.

### PinBoard

The file of one room. `Pin` appends; `/unpin` is `UnpinRead`, `UnpinCut`
(opening for writing empties the file) and `UnpinWrite` (the stream is flushed
when it goes out of scope, after "Unpinned" was sent). `Restart` drops what the
threads hold. Lines have one length, so that a flush covers whole lines.

### Registry

One `pc` per connection task and one for the admin task; a step is one critical
section of the registry's mutex. `clients`, `nameToId`, `room` and `rooms` are
`Inner`'s maps, `rooms` a function on the rooms that exist. `handle_say` is
`Say`, `Check`, then `Cast` or `Refuse`; `handle_pm` is `Pm`, `Check`, then
`PmSend` or `Refuse`; `handle_join` is `Join` (the move), `TellOld`,
`TellSelf`, `TellNew`; `unregister` is `Unregister` and `Farewell`, with
`Abort` of the writer after it. `kept` has the local variables a handler
carries from one critical section to the next. `queue` is the channel of 64
messages (`Cap`), `Send` is `try_send` to each receiver, `Welcome` the one
`send(..).await`; `Write` takes a message out of the queue and is never forced
to happen, as a peer may not read. `written` keeps talk only.

History variables: `view` is what a client believes about who is in its room if
it asked on entering and followed the announcements, `missed` who had a message
dropped since it entered its room, `overlapped` the names taken again before
their former holder's leaving was announced, `late` as above.

Left out: the log, counters and snapshot of the dashboard; the difference
between the replies a client gets (`Reply`); the cut of a name of more than 63
bytes, which panics inside a character (`main.rs:145`).

### ChatService, and how Registry implements it

`ChatService` is what the Rust server promises: `where` each client is, who is
`busy` (can take nothing at the moment), whose connection is `cut`, and what
each client `heard`. `Say`, `SayToAll`, `Tell` and `Notify` reach, in one step,
everyone they are for who is not busy. Only a connection that is cut, or ends,
loses what it was sent, and then the newest of it.

`Registry!Service` instantiates it: `where` is `room` on the registered
clients, `busy` those whose queue is full or closed, `cut` is `gone`, and
`heard` the talk a client was written followed by the talk in its queue.
`ServiceSpec` says that every step of `Registry` is one of the service or
changes nothing of it. The service reads a sender's room, the block list and
the members of the room at one moment, `handle_say` in three critical
sections, so this is where a message to the wrong room, to a member in one of
the two indexes only, in another order, or to a later owner of an id would
show.

### Listing

`ListCollector` of the client, and with it the collector of the dashboard,
which has the same control. `Feed` is `feed`, `CollectFrame` what the readers do
with a frame: all its lines, then `flush`. A line is its shape for the parsers
and, for an entry, what it names.

### Client

The network task (`net` says where it is, the failures as pairs of a status and
a line), the reader of each connection (`reader`, `pending`, `collector`), the
interface (`ui`, `draft` and what `App` shows), and the three queues with their
capacities. `Tell` and `Show` are the awaiting sends to the interface,
`SendOut` the one to the network task. `Type` and `SendOut` together are the
handler of Enter: the interface handles nothing else in between.

The peer is the part of the Rust server a client notices: `Register`,
`NameInUse`, `Receive`, `Notice` (it learns of the end of a connection later
than the client does). `Slots` are the connections the server may still have at
one time; the name is registered by one at a time. `CutLink`, `ServerStops` and
`ServerStarts` are the environment.

Left out: lines on the screen, editing, how long the backoff is, and the room:
the room shown is set when the program starts and by a `Joined` message
(`client/src/main.rs:139-142`), which no parser of the client makes, so that
after any `/join` it is wrong and nothing of it depends on an order of steps.
Writes never wait for the peer (with full socket buffers the network task would
wait in `write_frame` too). A poll of an aborted reader is assumed to be over
before the pause of 800 ms is (`Ended` in `Wake`); `NothingStale` rests on it,
and on nothing else.

### Observer

`observe_loop` and its `select!`: `Tick`, `TakeOrder` and `Read` are its
branches, and the first two drop the read in progress (`DropRead`). A frame is
three pieces (its length and two halves of its text), so that a read can stop
in the middle of either and a list can be torn. `have` is what `read_frame` has
read of it. On the other side, `Serve` and `Broadcast` put a frame in a
thread's hands, and `Send` sends a portion of it: as much as the socket takes.
`TextOf` is what the text decodes to; pieces that are not where they were
encrypted give a line no parser knows, because the offset of the cipher starts
anew with each frame. (A shift by a multiple of 17, the key's length, would
decode.)

`mixed` and `slipped` are history: the portions of two threads alternated in
this stream; a read with bytes in it was dropped. `state` numbers the users and
rooms of the backend, and a list shows one number in each half.

Left out: the log and counters; the observer's own entry in the list; writes
that wait.

## 3. What TLC checks

`CHECK_DEADLOCK FALSE` is in every configuration: peers may stop sending, and
the bounds on frames and commands end every behaviour.

| Run | Question | Properties | Bounds |
|---|---|---|---|
| `Backend_rooms` | What can go wrong when descriptors are handed out again, and does someone who enters a room miss what is said there? | `TypeOK`, `ListedIsServed`, `UnlistedOnlyByReuse`, `HistoryGap`, `OwnerCloses`, `SentAsAimed` | 2 connections of one name, 2 descriptors, 2 rooms, both may drop, one frame each; symmetric in connections and descriptors |
| `Backend_admin` | Do kicks and blocks take effect and end, and whom do they hit? | `BlockLag`, `SentAsAimed`, `ShutAimed`, `KickedIsGone`, `ShutIsGone` | 2 connections, 2 descriptors, the user to be kicked may quit, 1 command of any kind, 2 frames; fair; seen through `Shared` |
| `Backend_wrongkick` | *violation:* does a kick shut down the named user only? | `KickHitsNamedUser` | 3 connections, 2 descriptors, an admin over the wire |
| `SendGate_gate` | What do rate limit and slowmode guarantee? | `TypeOK`, `SlidingBound`, `RefusedOnlyWhenBusy`, `SlowSpacing` | 2 ticks to the second, registered at tick 2 of 7, a former owner's entry with up to 4 messages or none, 7 messages, 2 slowmode commands (-1, 1 or 2 s), limit 3 as in the code |
| `PinBoard_board` | When is the board as the answers say? | `SettledBoard` | 3 threads, 4 pins, 4 unpins, 1 restart; symmetric in threads and pins |
| `PinBoard_lost` | *violation:* does a pin stay? | `PinnedStays` | 2 threads, 3 pins, 1 unpin |
| `Registry_rooms` | Do the indexes agree, are clients told who is where, and is it the service? | `TypeOK`, `IndexesAgree`, `ListedIsServed`, `ViewIsRight`, `ServiceSpec` | 3 connections, two with one name, 2 rooms, queues of 2, two frames |
| `Registry_leave` | What do private messages, blocks, words of the admin and leaving do to each other, and is it the service? | `RightName`, `BlockLag`, `GoneIsUnlisted`, `ServiceSpec` | 2 connections, queues of 1, 2 frames, 1 command; fair |
| `Client_link` | Does the client come back, and is what it sends and shows right over disconnections? | `TypeOK`, `DeliveredOnce`, `StatusTrue`, `NothingStale`, `OnlineIsAList`, `OnlineAgain` | 2 connections at the server at a time, queues of 1, 2 messages typed, 1 cut or stop, 2 frames (either of two lists of users, of two and of one); fair |
| `Client_jam` | *violation:* does the client always come back? | `AutoReconnect` | status queue of 2, inbound of 3, outbound of 1, 2 messages, the server away at first or 1 stop; fair |
| `Observer_panels` | Do the panels show what the backend sent, and in the end what is so? | `TypeOK`, `PanelsReal`, `PanelsCatchUp` | one broadcasting thread, 2 pieces on the way, 1 request on the way, 2 events (changes, broadcasts, commands, cuts, stops); fair |
| `Observer_frames` | *violation:* does the observer always know where a frame begins? | `BoundariesFound` | nobody broadcasts, no command is typed, 2 pieces and 1 request on the way |

Why the bounds are enough to be of use: reuse of a descriptor takes one
connection that closes and one that is given the number, which the two of
`Backend_rooms` do in either order and while either acts; in `Backend_admin`
the user looked up quits before, or after, the console's notice and shutdown,
and the one who chats is given the number (a third party among the peers is in
`Backend_wrongkick`, and in the proofs, which bound nothing). A former owner's
entry can have run out of messages, or of its window, or not. Two rooms are
what a move needs; one blocked sender needs two messages to break `BlockLag`;
two windows of the rate limit take two seconds and twice the limit; an unpin is
raced by one other command; a queue of 2 holds an order and one of 1 is full at
once. For the client, every send has to wait with queues of 1; a connection
given up and a new one are the two the server needs to have; two messages can
be lost, doubled or reordered, and two lists, in two frames of one connection
or of two, can be mixed. In `Client_jam` the smallest queues that still let the
failures be told show the same wait as 8, 128 and 128. For the observer a frame
is longer than what is on the way, so every send is partial and every read can
be interrupted; with two events a broadcast falls into a reply, or a change
between two. Each property of a passing run is broken under the same bounds by
the mutant `PROJECT.json` names, so the bounds reach the situation the property
is about.

`Alike` exchanges peers, and descriptors, in `Backend_rooms`: nothing tells two
peers of one name with the same budget apart, a descriptor is only compared,
and the run checks no liveness. `Shared`, the view of `Backend_admin`, leaves
out what is written there and never read. With one room there is no `/join`, so
`room` is constant and `history` goes only into a replay; `inbox`, `shown` and
`gap` serve `HistoryGap`, which that run does not check, and `heirOf` serves
`UnlistedOnlyByReuse`; `seats` is the largest seat given. `SentAsAimed` speaks
of `inbox`, but only of what a step adds to it, and whether a message may be
added to a peer's is decided by the message and by descriptors that never
change, so that it does not matter which of two steps adds it first.

### What the violations show

* A kick can disconnect a user who has just connected: `kickUser` keeps the
  descriptor over the release of the lock (`vector-com.cpp:934-949`). The
  comment there explains `shutdown` as the way not to touch a reused descriptor.
* A message answered "Pinned." is lost when another client unpins one at the
  same time (`vector-com.cpp:602-622`).
* The client may not come back ("auto-reconnect", `README.md:210`): while the
  server is away the network task reports failures into queues that only the
  interface empties, and the interface, in the handler of a key
  (`client/src/main.rs:176-178`), waits for room in a queue that only a
  connected network task empties. With the status and the outbound queue full,
  both wait for good. In the program it takes 129 messages typed while the
  server is away, the last of which waits, and then four failed attempts to
  connect, which fill the status queue.
* The dashboard may lose the beginning of a frame. "The length prefix is
  unencrypted so the receiver can always find frame boundaries"
  (`shared/src/lib.rs:22-23`, with the same words in `vector-com.cpp:169-170`),
  and "we can interleave freely" (`server/src/main.rs:261`): but when the
  refresh timer, or a command, comes first in `select!` while a frame is half
  read, what was read of it is dropped, and the rest is taken for a length. The
  portions of two threads of the backend, mixed in one stream, do the same.
  `LostInTwoWays`, which is proved, says that there is no third way.

### Fairness

`Backend!Fairness`: a thread that can go on by itself is scheduled (they are
detached OS threads), sends return because peers read, and `recv` on a socket
that was shut down returns, so the connection's thread notices. Nothing makes a
peer connect, send, read a reply or leave, and nothing makes an admin type.
`Registry!Fairness`: tasks are scheduled, and a read from a peer that has hung
up returns. The writer is *not* fair: a peer may stop reading.
`GoneIsUnlisted` therefore has one excuse, `Stuck`: the welcome waits for room
in a queue that broadcasts filled before the writer task exists, and the name
stays taken for good.

`Client!Fairness`: the three tasks are scheduled and the server goes on;
`select!` tries its branches in random order, so neither starves, and a
connection that was cut is noticed: neither side has a timeout for reads or
keepalives, so a cut that neither end is told of (a machine that vanishes) is
not covered, and the client would wait for good. The user, the
network and who runs the server owe nothing: `OnlineAgain` assumes that the
server runs for good in the end, and cuts are bounded. Its excuse, `Jammed`, is
the state of `Client_jam`, spelled out: which queue is full and who waits.

`Observer!Fairness`: the timer fires, frames that came are read, threads send,
and a dead connection is noticed. Admin commands are not fair. `PanelsCatchUp`
excuses an observer that gets out of step again and again: each time the panels
may keep an old list until the stream fails or comes into step by accident, and
nothing limits how often a timer interrupts a read. `PanelsReal` has a weaker
excuse: an interrupted read never makes a panel show a list that was not sent;
only portions of two threads in one stream do.

## 4. What is proved

Every safety invariant and every action property that a passing run checks is
also proved, for every value of the constants, and so is the refinement of
`ChatService` by `Registry`. The only assumptions are the named ones on the
constants (`BackendAssumption` and so on): that values which are to be
distinct are, that capacities and the second are not zero, that bounds are
numbers. Sets of connections, descriptors, users, rooms, pins and frames may be
of any size.

The invariants are seldom inductive as they stand. Each proof module defines
the strengthening, has one lemma that every step keeps it (one step of the
proof per action), and derives the properties from it.

| Module | Theorem | States | Inductive invariant |
|---|---|---|---|
| `BackendProofs` | `TypeCorrect` | `TypeOK` | itself |
| | `Inductive` | `IInv` | itself |
| | `Listed`, `Unlisted` | `ListedIsServed`, `UnlistedOnlyByReuse` | `IInv` |
| | `ClosedByOwner`, `AimedMessages`, `Aimed` | `OwnerCloses`, `SentAsAimed`, `ShutAimed` | `IInv` |
| | `BlockedSoon` | `BlockLag` | `BlockInv` |
| | `NothingMissed` | `HistoryGap` | `GapInv` |
| `SendGateProofs` | `TypeCorrect` | `TypeOK` | with `CountsInv` |
| | `Spaced` | `SlowSpacing` | `SpacedInv` |
| | `TwoWindows`, `BusyRefused` | `SlidingBound`, `RefusedOnlyWhenBusy` | `WindowInv` |
| `PinBoardProofs` | `BoardSettles` | `SettledBoard` | `BoardInv` |
| `RegistryProofs` | `TypeCorrect` | `TypeOK` | itself |
| | `Indexes`, `Listed` | `IndexesAgree`, `ListedIsServed` | `IndexInv` |
| | `BlockTakesEffect` | `BlockLag` | `LateInv` |
| | `RightRecipient` | `RightName` | `Known`, `Addressed` |
| | `FollowersKnow` | `ViewIsRight` | `IndexInv`, `ViewInv` |
| `RegistryRefinement` | `Implements` | `ServiceSpec` | `RefInv` |
| `ListingProofs` | `ListsAreWhole` | of `CollectFrame`, for every frame | |
| `ClientProofs` | `TypeCorrect` | `TypeOK` | `TypeInv` |
| | `StatusIsTrue` | `StatusTrue` | `StatusInv` |
| | `OnlineIsReal` | `OnlineIsAList` | `ListInv` |
| | `StaleNever` | `NothingStale` | `FreshInv` |
| | `NothingTwice` | `DeliveredOnce` | `DeliveredInv` |
| `ObserverProofs` | `TypeCorrect`, `BeginningsFound`, `PanelsAreReal` | `TypeOK`, `LostInTwoWays`, `PanelsReal` | `ReadInv` |

**Backend.** `IInv` adds to the types `SocketLife`, which ties a thread's phase
to its socket (open or shut exactly while its thread is between `accept` and
`close`); `OneHolder`, no descriptor has two open sockets; `HeldEntries`, every
entry kept in a broadcast or in the target of a kick is a connection that was
accepted; `Foreseen`, an entry chosen while another connection already had its
descriptor is one that was closed and not removed; and `HeirsKnown`, a former
owner that is still to run `removeClient` is in `heirOf` of whoever has its
descriptor now. From `Foreseen` and `OneHolder` follow `SentAsAimed` and
`ShutAimed`: whoever has the number of a kept entry when it is used is the one
meant, or had it when the entry was chosen, or was accepted later. From
`HeirsKnown` follows `UnlistedOnlyByReuse`: `removeClient` takes the entries of
the connection itself and of its heirs, and of nobody else. `BlockInv`: a
connection whose user is blocked has sent a chat since the block only if it was
past the check, and it is not past it again. `GapInv` is about the clients with
an open socket. `RoomInv`: the room a client announces is the one its entry is
in. `FlightInv`: whoever is in the room of a message on its way is still to be
sent it, or has it, or came in after it left. `HistoryInv`: whoever is not just
entering has everything that was saved. The delicate steps are `Switch` and
`Snapshot`, which work on all entries with the thread's descriptor: `OneHolder`
says that no other open one has it.

**SendGate.** A message's age is a tick more at each tick of the clock, so the
last second is a sum over ages. `WindowInv`: what passed since the window
began, with what is inherited in it, is what was counted, up to the limit; what
passed in the second before is no more than that and a limit more; and nothing
of it is left when the window is over. The sums are a recursive function
(`SumTo`), and `SumSteps`, `SumGrows`, `SumShifted` and `SumCounted` are what
the proof needs of it. `Spaced` rests on `WholeUnits` (what rounding down to
whole seconds still tells of the time that passed) and on the fact that the
looked-up seconds and the time of the last message do not change between check
and acceptance.

**PinBoard.** `BoardInv` says of a pin that raced with nothing where it is: on
the board once if no `/unpin` runs, and otherwise once in the copy of the one
that does, which is off the board once it was emptied; and if it was unpinned,
nowhere, but for the board that the one who took it out is about to empty.

**Registry.** `IndexInv` ties the three maps to the tasks: which places of a
task have a registered client (`Placed`), that ids are not given twice
(`Numbered`), and what is in `rooms` and `nameToId`. `Known`: the id a task
kept from an earlier critical section is that of a connection of the name it
looked up, or of none. `ViewInv` says what a client believes of another that has
moved and not told everyone yet: it may still have it on its list exactly if it
was told of it in the room they shared (`SeenAs`), and a name that is not
`overlapped` belongs to one such connection (`OneActive`).

**The refinement.** `Implements` maps each step of `Registry` to one of
`ChatService` or to no change. `RefInv` has what the mapping needs besides the
indexes: the room a task read is still the client's when it sends (`SayInv`),
and the id it looked up still the right one's. What a client has heard is the
talk in `written` followed by that in `queue`; the first part of the module
proves what filtering and appending do to it.

**Listing.** `ListsAreWhole` is by induction over the lines of the frame: every
list under construction is a run of entries after the last header. Both readers
of frames use it.

**Client.** `DeliveredInv` numbers what the user typed and says where each
number may be: delivered, written on one connection, or still on this side. On
a connection they follow one another after the name; the connection whose name
is registered goes on where what was delivered ends, and the open one where the
client forwards next. A connection is dropped by either side, registered, read
or written, and each such step is a lemma. `FreshInv`: a reader that is not over
is that of the last connection, whose greeting is in the queue before anything
that it passes on. `ListInv`: every list on its way to the screen is one of a
frame the server sent.

**Observer.** `ReadInv`: unless portions of two threads were mixed, the pieces
read of a frame, those on the way and those a thread is still to send are frames
one after the other (`FlowInv`), and unless a read was dropped with bytes in it,
they begin where a frame does (`AlignInv`). What is complete is then a frame,
or, after a dropped read, the end of one and the beginning of another, whose
text decodes to nothing that the collector makes a list of.

The prover has no rule for induction that takes a predicate; the proofs by
induction over numbers take a least counterexample (`LeastNatural`, from the
well-foundedness of `<`). A recursive function is shown to exist and to obey
its equation first (`SumsExist`, `FeedsExist`). No module uses RECURSIVE
operators.

Model-checked only: the liveness properties (`KickedIsGone`, `ShutIsGone`,
`GoneIsUnlisted`, `OnlineAgain`, `PanelsCatchUp`), because the prover has no
rules for fairness and ENABLED, and the violations.

## 5. Plan

Done: `Backend`, `SendGate`, `PinBoard`, `Registry` and `ChatService`,
`Listing`, `Client`, `Observer`, and the proofs of all their safety and action
properties and of the refinement. Next:

1. The lock and the end of the C++ backend: the signal handler takes
   `clientsMutex`, which the interrupted thread may hold; sends under the lock
   to a peer that does not read.
2. What safety can say of the liveness properties, to be proved: that a thread
   whose socket was shut down always has a step left, that `Stuck` and `Jammed`
   are the only states in which nothing can go on.

## 6. Not modelled

* Drawing, editing a line, suggestions and scrolling (`ui.rs`, `app.rs`): one
  task, no shared state. Two oddities there are listed as hazards:
  `scroll_offset` may pass the end of the history, and a chat that begins with
  "left" or "joined" is taken for an announcement (`Listing!ParseLine` has it,
  the screen does not).
* The wording of texts, the bytes of the cipher, the size limits.
* Full socket buffers: sends of the backend under its lock, and writes of the
  Rust programs, never wait for the peer.
* `stop()` and the signal handler of the backend.
* The C++ command line client beyond its part as a peer; log and counters;
  startup and arguments.
