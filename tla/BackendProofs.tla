--------------------------- MODULE BackendProofs ---------------------------
(***************************************************************************)
(* Proofs about Backend, for every set of connections, descriptors, users  *)
(* and rooms.  The inductive invariant IInv ties each entry the code keeps *)
(* (in the vector, in a list of recipients, in the target of a kick) to a  *)
(* connection that was accepted, and the phase of each thread to its       *)
(* socket; it also says which of the entries a thread holds may have been  *)
(* inherited already when the thread chose them, so that who is hit by a   *)
(* message or a shutdown is known exactly.                                 *)
(***************************************************************************)
EXTENDS Backend, TLAPS, WellFoundedInduction

(* A set of natural numbers that is not empty has a least one.             *)
LEMMA LeastNatural ==
    ASSUME NEW T, T \subseteq Nat, T # {}
    PROVE  \E x \in T : \A y \in T : x =< y
<1>1. IsWellFoundedOn({ss \in Nat \X Nat : ss[1] < ss[2]}, Nat)
  BY NatLessThanWellFounded DEF OpToRel
<1>2. \E x \in T : \A y \in T : <<y, x>> \notin {ss \in Nat \X Nat : ss[1] < ss[2]}
  BY <1>1, WFMin, Zenon
<1>3. PICK x \in T : \A y \in T : <<y, x>> \notin {ss \in Nat \X Nat : ss[1] < ss[2]}
  BY <1>2
<1>4. ASSUME NEW y \in T PROVE x =< y
  <2>1. <<y, x>> \in Nat \X Nat /\ <<y, x>>[1] = y /\ <<y, x>>[2] = x
    OBVIOUS
  <2>2. ~(y < x)
    BY <1>3, <2>1
  <2> QED
    BY <2>2
<1> QED
  BY <1>4

(* A search of the vector from its front finds an entry of the set         *)
(* searched for, when there is one.                                        *)
LEMMA FirstIsMember ==
    ASSUME NEW S, S \subseteq Conns, S # {}, seat \in [Conns -> Nat]
    PROVE  First(S) \in S
<1> DEFINE Seats == {seat[c] : c \in S}
<1>1. Seats \subseteq Nat /\ Seats # {}
  OBVIOUS
<1> HIDE DEF Seats
<1>2. PICK x \in Seats : \A y \in Seats : x =< y
  BY <1>1, LeastNatural
<1>3. \E c \in S : \A d \in S : seat[c] =< seat[d]
  BY <1>2 DEF Seats
<1> QED
  BY <1>3 DEF First

(* The same of the search in /join, which keeps the last entry it meets.   *)
LEMMA LastIsMember ==
    ASSUME NEW S, S \subseteq Conns, S # {}, seats \in Nat,
           seat \in [Conns -> 0..seats]
    PROVE  Last(S) \in S
<1> DEFINE After == {seats - seat[c] : c \in S}
<1>1. After \subseteq Nat /\ After # {}
  OBVIOUS
<1> HIDE DEF After
<1>2. PICK x \in After : \A y \in After : x =< y
  BY <1>1, LeastNatural
<1>3. PICK c \in S : x = seats - seat[c]
  BY <1>2 DEF After
<1>4. \A d \in S : seats - seat[c] =< seats - seat[d]
  BY <1>2, <1>3 DEF After
<1>5. \A d \in S : seat[d] =< seat[c]
  <2> TAKE d \in S
  <2>1. seat[c] \in 0..seats /\ seat[d] \in 0..seats
    OBVIOUS
  <2> QED
    BY <1>4, <2>1
<1> QED
  BY <1>5 DEF Last

(* The lookups find connections and rooms.                                 *)
LEMMA LookupTypes ==
    ASSUME TypeOK
    PROVE  /\ \A c \in Conns : RoomOf(c) \in Rooms
           /\ \A c \in Conns : OldRoom(c) \in Rooms \cup {AllRooms}
           /\ \A u \in Users : Named(u) # {} => First(Named(u)) \in Named(u)
<1>1. clients \subseteq Conns /\ seat \in [Conns -> Nat] /\ room \in [Conns -> Rooms]
  BY DEF TypeOK
<1>2. seats \in Nat /\ seat \in [Conns -> 0..seats]
  BY DEF TypeOK
<1>3. ASSUME NEW c \in Conns PROVE RoomOf(c) \in Rooms
  <2>1. WithFdOf(c) \subseteq Conns
    BY <1>1 DEF WithFdOf
  <2> QED
    BY <1>1, <2>1, FirstIsMember, BackendAssumption DEF RoomOf
<1>4. ASSUME NEW c \in Conns PROVE OldRoom(c) \in Rooms \cup {AllRooms}
  <2>1. WithFdOf(c) \subseteq Conns
    BY <1>1 DEF WithFdOf
  <2> QED
    BY <1>1, <1>2, <2>1, LastIsMember DEF OldRoom
<1>5. ASSUME NEW u \in Users, Named(u) # {} PROVE First(Named(u)) \in Named(u)
  <2>1. Named(u) \subseteq Conns
    BY <1>1 DEF Named
  <2> QED
    BY <1>1, <1>5, <2>1, FirstIsMember
<1> QED
  BY <1>3, <1>4, <1>5

(* What a message is made of when it is started.                           *)
LEMMA MessageShape ==
    ASSUME TypeOK, NEW t \in Threads, NEW k \in Kinds, NEW r \in Rooms \cup {AllRooms}
    PROVE  /\ Message(t, k, r) \in Messages
           /\ Message(t, k, r).kind = k /\ Message(t, k, r).from = t
           /\ Message(t, k, r).room = r /\ Message(t, k, r).to = {}
BY DEF TypeOK, Message, Messages

(* Choosing the recipients of a message changes what it says of them only. *)
LEMMA AddressedShape ==
    ASSUME NEW m \in Messages, NEW S \in SUBSET Conns
    PROVE  /\ Addressed(m, S) \in Messages
           /\ Addressed(m, S).kind = m.kind /\ Addressed(m, S).from = m.from
           /\ Addressed(m, S).room = m.room /\ Addressed(m, S).to = S
           /\ Addressed(m, S).gone = {e \in S : pc[e] = "removing"}
           /\ Addressed(m, S).before =
                  {c \in Conns : sock[c] # "none" /\ \E e \in S \ {c} : fdOf[e] = fdOf[c]}
<1> DEFINE G == {e \in S : pc[e] = "removing"}
           B == {c \in Conns : sock[c] # "none" /\ \E e \in S \ {c} : fdOf[e] = fdOf[c]}
<1>1. Addressed(m, S) = [m EXCEPT !.to = S, !.gone = G, !.before = B]
  BY DEF Addressed
<1>2. G \in SUBSET Conns /\ B \in SUBSET Conns
  OBVIOUS
<1> HIDE DEF G, B
<1>3. /\ [m EXCEPT !.to = S, !.gone = G, !.before = B] \in Messages
      /\ [m EXCEPT !.to = S, !.gone = G, !.before = B].kind = m.kind
      /\ [m EXCEPT !.to = S, !.gone = G, !.before = B].from = m.from
      /\ [m EXCEPT !.to = S, !.gone = G, !.before = B].room = m.room
      /\ [m EXCEPT !.to = S, !.gone = G, !.before = B].to = S
      /\ [m EXCEPT !.to = S, !.gone = G, !.before = B].gone = G
      /\ [m EXCEPT !.to = S, !.gone = G, !.before = B].before = B
  BY <1>2 DEF Messages
<1> QED
  BY <1>1, <1>3 DEF G, B

-----------------------------------------------------------------------------
(* Type correctness, one step per action.                                  *)

(* The variables start with values the code can give them.                 *)
LEMMA TypeInit == Init => TypeOK
BY BackendAssumption DEF Init, TypeOK, Messages, Idle, Kinds, PCs, Threads

(* No step of any thread gives a variable another kind of value.           *)
LEMMA TypeStep == TypeOK /\ [Next]_vars => TypeOK'
<1> SUFFICES ASSUME TypeOK, [Next]_vars PROVE TypeOK'
  OBVIOUS
<1>m. ASSUME NEW t \in Threads, NEW r \in Rooms \cup {AllRooms},
             NEW k \in {"hello", "chat", "leave", "enter", "bye", "say", "pm",
                        "kicked", "notice"}
      PROVE  Message(t, k, r) \in Messages
  BY MessageShape DEF Kinds
<1> USE BackendAssumption
        DEF TypeOK, Messages, Kinds, PCs, Threads, kernel, roster, Goto, Consume
<1>1. ASSUME NEW c \in Conns, NEW f \in Fds, Accept(c, f) PROVE TypeOK'
  BY <1>1 DEF Accept
<1>2. ASSUME NEW c \in Conns, HandshakeFails(c) PROVE TypeOK'
  BY <1>2 DEF HandshakeFails, CloseFd
<1>3. ASSUME NEW c \in Conns, Register(c) PROVE TypeOK'
  BY <1>3, MessageShape DEF Register, Announce, StartRoom, InFlight
<1>4. ASSUME NEW t \in Threads, Snapshot(t) PROVE TypeOK'
  <2> DEFINE listeners == {e \in clients :
                 /\ cur[t].room \in {AllRooms, room[e]}
                 /\ (cur[t].kind \in SkipsSender => fdOf[e] # fdOf[t])}
  <2>1. listeners \subseteq Conns
    OBVIOUS
  <2>2. cur' = [cur EXCEPT ![t] = Addressed(@, listeners)] /\ todo' = [todo EXCEPT ![t] = listeners]
    BY <1>4 DEF Snapshot
  <2> HIDE DEF listeners
  <2>a. todo' \in [Threads -> SUBSET Conns]
    BY <2>1, <2>2
  <2>3. cur' \in [Threads -> Messages]
    <3> HIDE DEF Messages
    <3>1. Addressed(cur[t], listeners) \in Messages
      BY <2>1, AddressedShape
    <3> QED
      BY <2>2, <3>1
  <2>4. late' \in [Conns -> Nat]
    <3>1. CASE UNCHANGED late
      BY <3>1
    <3>2. CASE late' = [late EXCEPT ![t] = @ + 1]
      <4>1. late \in [Conns -> Nat]
        OBVIOUS
      <4>2. CASE t \in Conns
        BY <3>2, <4>1, <4>2
      <4>3. CASE t \notin Conns
        <5>1. late' = [c \in Conns |-> late[c]]
          BY <3>2, <4>1, <4>3
        <5> QED
          BY <4>1, <5>1
      <4> QED
        BY <4>2, <4>3
    <3> QED
      BY <1>4, <3>1, <3>2 DEF Snapshot
  <2> HIDE DEF Messages
  <2> QED
    BY <1>4, <2>a, <2>3, <2>4 DEF Snapshot
<1>5. ASSUME NEW t \in Threads, CastSend(t) PROVE TypeOK'
  BY <1>5 DEF CastSend, Deliver
<1>6. ASSUME NEW t \in Threads, CastFails(t) PROVE TypeOK'
  BY <1>6 DEF CastFails
<1>7. ASSUME NEW t \in Threads, Reap(t) PROVE TypeOK'
  BY <1>7 DEF Reap, Shutdown
<1>8. ASSUME NEW t \in Threads, Save(t) PROVE TypeOK'
  BY <1>8 DEF Save, AfterSave, Saved, Idle
<1>9. ASSUME NEW t \in Threads, EndCast(t) PROVE TypeOK'
  BY <1>9 DEF EndCast, Idle
<1>10. ASSUME NEW c \in Conns, Replay(c) PROVE TypeOK'
  BY <1>10 DEF Replay, Idle
<1>11. ASSUME NEW c \in Conns, Ignore(c) PROVE TypeOK'
  BY <1>11 DEF Ignore
<1>12. ASSUME NEW c \in Conns, Chat(c) PROVE TypeOK'
  <2> HIDE DEF Messages
  <2>1. Message(c, "chat", RoomOf(c)) \in Messages
    BY <1>m, LookupTypes
  <2> QED
    BY <1>12, <2>1 DEF Chat, Announce
<1>13. ASSUME NEW c \in Conns, NEW u \in Users, Pm(c, u) PROVE TypeOK'
  <2>1. First(Named(u)) \in Conns
    BY <1>13, LookupTypes DEF Pm, Named
  <2> HIDE DEF Messages
  <2>2. Addressed(Message(c, "pm", AllRooms), {First(Named(u))}) \in Messages
    BY <1>m, <2>1, AddressedShape
  <2> QED
    BY <1>13, <2>1, <2>2 DEF Pm, Deliver
<1>14. ASSUME NEW c \in Conns, NEW r \in Rooms, Join(c, r) PROVE TypeOK'
  BY <1>14, LookupTypes, MessageShape DEF Join, Announce
<1>15. ASSUME NEW c \in Conns, Switch(c) PROVE TypeOK'
  BY <1>15, MessageShape DEF Switch, Announce, InFlight
<1>16. ASSUME NEW c \in Conns, RecvFails(c) PROVE TypeOK'
  BY <1>16, LookupTypes, MessageShape DEF RecvFails
<1>17. ASSUME NEW c \in Conns, Close(c) PROVE TypeOK'
  BY <1>17 DEF Close, CloseFd
<1>18. ASSUME NEW c \in Conns, Remove(c) PROVE TypeOK'
  BY <1>18 DEF Remove
<1>19. ASSUME NEW t \in Threads, NEW u \in Users, Kick(t, u) PROVE TypeOK'
  <2>1. First(Named(u)) \in Conns
    BY <1>19, LookupTypes DEF Kick, Named
  <2> HIDE DEF Messages
  <2>2. Addressed(Message(t, "kicked", AllRooms), {First(Named(u))}) \in Messages
    BY <1>m, <2>1, AddressedShape
  <2> QED
    BY <1>19, <2>1, <2>2 DEF Kick
<1>20. ASSUME NEW t \in Threads, KickNotice(t) PROVE TypeOK'
  BY <1>20 DEF KickNotice, Deliver
<1>21. ASSUME NEW t \in Threads, KickShut(t) PROVE TypeOK'
  BY <1>21 DEF KickShut, Shutdown, Idle
<1>22. ASSUME NEW t \in Threads, NEW u \in Users, Block(t, u) PROVE TypeOK'
  BY <1>22 DEF Block, Recount
<1>23. ASSUME NEW t \in Threads, NEW u \in Users, Unblock(t, u) PROVE TypeOK'
  BY <1>23 DEF Unblock, Recount
<1>24. ASSUME NEW t \in Threads, Notify(t) PROVE TypeOK'
  <2> DEFINE found == UNION {Named(u) : u \in subject[t]}
  <2>1. found \subseteq Conns
    BY DEF Named
  <2>2. found # {} => First(found) \in Conns
    <3>1. seat \in [Conns -> Nat]
      OBVIOUS
    <3> HIDE DEF found
    <3> QED
      BY <2>1, <3>1, FirstIsMember
  <2>3. inbox' \in [Conns -> SUBSET Messages]
    <3>1. CASE found = {}
      BY <1>24, <3>1 DEF Notify
    <3>2. CASE found # {}
      <4> DEFINE m == Addressed(Message(t, "notice", AllRooms), {First(found)})
      <4>0. First(found) \in Conns
        BY <2>2, <3>2
      <4>1. m \in Messages
        <5> HIDE DEF Messages, found
        <5> QED
          BY <1>m, <4>0, AddressedShape
      <4>2. Deliver(First(found), m)
        BY <1>24, <3>2 DEF Notify
      <4> HIDE DEF m, found, Messages
      <4> QED
        BY <4>1, <4>2 DEF Deliver
    <3> QED
      BY <3>1, <3>2
  <2> QED
    BY <1>24, <2>3 DEF Notify
<1>25. ASSUME NEW t \in Threads, NEW r \in Rooms \cup {AllRooms}, Say(t, r) PROVE TypeOK'
  BY <1>25, MessageShape DEF Say, Announce
<1>26. UNCHANGED vars => TypeOK'
  BY DEF vars, local
<1> HIDE DEF TypeOK
<1> QED
  BY <1>1, <1>2, <1>3, <1>4, <1>5, <1>6, <1>7, <1>8, <1>9, <1>10, <1>11, <1>12,
     <1>13, <1>14, <1>15, <1>16, <1>17, <1>18, <1>19, <1>20, <1>21, <1>22, <1>23,
     <1>24, <1>25, <1>26
  DEF Next, Work, ConnWork, Frame, Order

(* In every behaviour the variables have the values the code can give them.*)
THEOREM TypeCorrect == Spec => []TypeOK
<1>1. Init => TypeOK
  BY TypeInit
<1>2. TypeOK /\ [Next]_vars => TypeOK'
  BY TypeStep
<1> QED
  BY <1>1, <1>2, PTL DEF Spec

-----------------------------------------------------------------------------
(* The inductive invariant.                                                *)

Live(c) == sock[c] \in {"open", "shut"}

(* The thread of c has closed its socket.                                  *)
Gone(c) == pc[c] = "removing" \/ Past(c)

(* The phase of the thread tells the state of its socket.                  *)
SocketLife ==
    \A c \in Conns :
        /\ sock[c] = "none" <=> pc[c] = "none"
        /\ sock[c] = "closed" <=> Gone(c)
        /\ sock[c] # "none" <=> fdOf[c] \in Fds
        /\ pc[c] \in {"closing", "removing"} => cur[c].kind = "bye"

(* The kernel gives a descriptor to one open connection at a time.         *)
OneHolder ==
    \A c, d \in Conns : Live(c) /\ Live(d) /\ fdOf[c] = fdOf[d] => c = d

(* Every entry the code holds on to is that of a connection that was       *)
(* accepted, so its descriptor is a real one, of an open or a closed       *)
(* socket.                                                                 *)
Accepted == {c \in Conns : sock[c] # "none"}

HeldBy(t) ==
    /\ cur[t].to \subseteq Accepted
    /\ cur[t].kind \notin UnderOneLock
    /\ pc[t] \in {"cast", "reap"} => todo[t] \subseteq cur[t].to
    /\ pc[t] = "reap" => todo[t] # {}

HeldEntries == clients \subseteq Accepted /\ \A t \in Threads : HeldBy(t)

(* A thread that holds descriptors chose the entries while they were       *)
(* listed: an entry whose descriptor already had a new owner then is one   *)
(* that was closed and still listed.                                       *)
Holding == {"cast", "reap", "kick", "kickshut"}

ForeseenBy(t) ==
    pc[t] \in Holding =>
        /\ cur[t].before \subseteq Accepted
        /\ \A e \in cur[t].to, c \in cur[t].before :
               c # e /\ Live(c) /\ fdOf[c] = fdOf[e] => e \in cur[t].gone

Foreseen == \A t \in Threads : ForeseenBy(t)

(* A former owner of its descriptor that is still to run removeClient was  *)
(* waiting to already when the connection registered.                      *)
HeirsKnown ==
    \A c, d \in Conns :
        Live(c) /\ pc[c] # "accepted" /\ pc[d] = "removing" /\ fdOf[d] = fdOf[c]
            => d \in heirOf[c]

IInv ==
    /\ TypeOK
    /\ SocketLife
    /\ OneHolder
    /\ HeldEntries
    /\ Foreseen
    /\ HeirsKnown
    /\ ListedIsServed
    /\ UnlistedOnlyByReuse

-----------------------------------------------------------------------------
(* A connection that was accepted keeps its descriptor, and once closed    *)
(* stays closed.                                                           *)
AcceptedStays ==
    \A e \in Accepted : /\ sock'[e] # "none"
                        /\ fdOf'[e] = fdOf[e]
                        /\ sock[e] = "closed" => sock'[e] = "closed"

(* The recipients of a message are collected, its kind stays.              *)
LEMMA SnapshotKeeps ==
    ASSUME TypeOK, NEW t \in Threads, Snapshot(t)
    PROVE  /\ pc[t] = "snap" /\ pc'[t] = "cast"
           /\ \A u \in Threads : cur'[u].kind = cur[u].kind
           /\ \A u \in Threads \ {t} : pc'[u] = pc[u]
<1>1. cur \in [Threads -> Messages] /\ pc \in [Threads -> PCs]
  BY DEF TypeOK
<1>2. PICK S \in SUBSET Conns : cur' = [cur EXCEPT ![t] = Addressed(cur[t], S)]
  BY DEF Snapshot, TypeOK
<1>3. Addressed(cur[t], S).kind = cur[t].kind
  BY <1>1, AddressedShape
<1>4. pc[t] = "snap" /\ pc' = [pc EXCEPT ![t] = "cast"]
  BY DEF Snapshot, Goto
<1> HIDE DEF Messages
<1> QED
  BY <1>1, <1>2, <1>3, <1>4

(* An announcement of an admin starts from where orders are read.          *)
LEMMA SayKeeps ==
    ASSUME TypeOK, NEW t \in Threads, NEW r \in Rooms \cup {AllRooms}, Say(t, r)
    PROVE  /\ pc[t] = "recv" /\ pc'[t] = "snap"
           /\ cur'[t].kind = "say"
           /\ \A u \in Threads \ {t} : pc'[u] = pc[u] /\ cur'[u] = cur[u]
<1>1. cur \in [Threads -> Messages] /\ pc \in [Threads -> PCs]
  BY DEF TypeOK
<1>2. PICK m : m.kind = "say" /\ cur' = [cur EXCEPT ![t] = m]
  BY DEF Say, Announce, Message
<1>3. pc[t] = "recv" /\ pc' = [pc EXCEPT ![t] = "snap"]
  BY DEF Say, MayOrder, Ready, Announce, Goto
<1> HIDE DEF Messages
<1> QED
  BY <1>1, <1>2, <1>3

(* The phase of a thread keeps telling the state of its socket: kicks and  *)
(* failed broadcasts shut sockets down but never close them.               *)
LEMMA SocketLifeStep == IInv /\ [Next]_vars => SocketLife'
<1> SUFFICES ASSUME IInv, [Next]_vars PROVE SocketLife'
  OBVIOUS
<1>same. ASSUME NEW t \in Threads, UNCHANGED <<fdOf, sock>>,
                \A u \in Threads \ {t} : pc'[u] = pc[u] /\ cur'[u].kind = cur[u].kind,
                pc[t] # "none", pc'[t] \notin {"none", "closing", "removing"},
                t \in Conns => (Gone(t)' <=> Gone(t))
         PROVE  SocketLife'
  BY <1>same DEF IInv, SocketLife, Gone, Past, Leaving, Threads
<1>snap. ASSUME NEW t \in Threads, Snapshot(t) PROVE SocketLife'
  <2>1. TypeOK
    BY DEF IInv
  <2>2. UNCHANGED <<fdOf, sock>>
    BY <1>snap DEF Snapshot, kernel
  <2>3. t \in Conns => (Gone(t)' <=> Gone(t))
    BY <1>snap, <2>1, SnapshotKeeps DEF Gone, Past, Leaving
  <2> QED
    BY <1>snap, <1>same, <2>1, <2>2, <2>3, SnapshotKeeps
<1>say. ASSUME NEW t \in Threads, NEW r \in Rooms \cup {AllRooms}, Say(t, r)
        PROVE  SocketLife'
  <2>1. TypeOK
    BY DEF IInv
  <2>2. UNCHANGED <<fdOf, sock>>
    BY <1>say DEF Say, kernel
  <2>3. t \in Conns => (Gone(t)' <=> Gone(t))
    BY <1>say, <2>1, SayKeeps DEF Gone, Past, Leaving
  <2> QED
    BY <1>say, <1>same, <2>1, <2>2, <2>3, SayKeeps
<1> USE BackendAssumption DEF IInv, SocketLife, OneHolder, Live, Gone, Past,
        Leaving, TypeOK, Messages, Threads, kernel, roster, Goto, Consume
<1>1. ASSUME NEW c \in Conns, NEW f \in Fds, Accept(c, f)
      PROVE  SocketLife'
  BY <1>1 DEF Accept
<1>2. ASSUME NEW c \in Conns, HandshakeFails(c)
      PROVE  SocketLife'
  BY <1>2 DEF HandshakeFails, CloseFd, Holders
<1>3. ASSUME NEW c \in Conns, Close(c)
      PROVE  SocketLife'
  BY <1>3 DEF Close, CloseFd, Holders
<1>4. ASSUME NEW c \in Conns, Remove(c)
      PROVE  SocketLife'
  <2>1. /\ UNCHANGED <<fdOf, sock, cur>>
        /\ pc[c] = "removing" /\ pc' = [pc EXCEPT ![c] = "snap"]
    BY <1>4 DEF Remove
  <2> QED
    BY <2>1
<1>5. ASSUME NEW t \in Threads, Save(t)
      PROVE  SocketLife'
  BY <1>5 DEF Save, AfterSave, Saved, Idle
<1>6. ASSUME NEW t \in Threads, Reap(t)
      PROVE  SocketLife'
  BY <1>6 DEF Reap, Shutdown, Holders
<1>7. ASSUME NEW t \in Threads, KickShut(t)
      PROVE  SocketLife'
  BY <1>7 DEF KickShut, Shutdown, Holders, Idle
<1>8. ASSUME NEW c \in Conns,
             \/ Register(c) \/ Replay(c)
      PROVE  SocketLife'
  BY <1>8 DEF Register, Announce, Replay, Idle, Message
<1>9. ASSUME NEW c \in Conns,
             \/ Chat(c) \/ (\E r \in Rooms : Join(c, r))
      PROVE  SocketLife'
  BY <1>9 DEF Chat, Ready, Announce, Join, Message
<1>10. ASSUME NEW c \in Conns, Switch(c)
      PROVE  SocketLife'
  BY <1>10 DEF Switch, Announce, Message
<1>11. ASSUME NEW c \in Conns, RecvFails(c)
      PROVE  SocketLife'
  BY <1>11 DEF RecvFails, Message
<1>12. ASSUME NEW c \in Conns,
             \/ Ignore(c) \/ (\E u \in Users : Pm(c, u))
      PROVE  SocketLife'
  BY <1>12 DEF Ignore, Ready, Pm
<1>13. ASSUME NEW t \in Threads,
             \/ CastSend(t) \/ CastFails(t) \/ EndCast(t)
             \/ KickNotice(t) \/ Notify(t)
             \/ \E u \in Users : Kick(t, u) \/ Block(t, u) \/ Unblock(t, u)
      PROVE  SocketLife'
  <2>1. CASE CastSend(t) \/ CastFails(t) \/ EndCast(t)
    BY <2>1 DEF CastSend, CastFails, EndCast, Idle, Saved
  <2>2. CASE KickNotice(t) \/ Notify(t)
    <3>1. UNCHANGED <<fdOf, sock, cur>> /\ pc[t] \in {"kick", "notify"}
      BY <2>2 DEF KickNotice, Notify, kernel
    <3>2. \E p \in {"kickshut", "recv"} : pc' = [pc EXCEPT ![t] = p]
      BY <2>2 DEF KickNotice, Notify, Goto
    <3> QED
      BY <3>1, <3>2
  <2>3. ASSUME NEW u \in Users, Kick(t, u) PROVE SocketLife'
    BY <2>3 DEF Kick, MayOrder, Ready
  <2>4. ASSUME NEW u \in Users, Block(t, u) \/ Unblock(t, u) PROVE SocketLife'
    BY <2>4 DEF Block, Unblock, MayOrder, Ready
  <2> HIDE DEF SocketLife
  <2> QED
    BY <1>13, <2>1, <2>2, <2>3, <2>4
<1>14. UNCHANGED vars => SocketLife'
  BY DEF vars, local
<1> HIDE DEF SocketLife, IInv, TypeOK
<1> QED
  BY <1>1, <1>2, <1>3, <1>4, <1>5, <1>6, <1>7, <1>8, <1>9, <1>10, <1>11,
     <1>12, <1>13, <1>14, <1>snap, <1>say
  DEF Next, Work, ConnWork, Frame, Order

(* accept() never hands out a descriptor that an open socket has.          *)
LEMMA OneHolderStep == IInv /\ [Next]_vars => OneHolder'
<1> SUFFICES ASSUME IInv, [Next]_vars PROVE OneHolder'
  OBVIOUS
<1> USE BackendAssumption DEF IInv, SocketLife, OneHolder, Live, Gone, Past,
        Leaving, TypeOK, Threads, kernel, roster, Goto, Consume
<1>1. ASSUME NEW c \in Conns, NEW f \in Fds, Accept(c, f)
      PROVE  OneHolder'
  BY <1>1 DEF Accept
<1>2. ASSUME NEW c \in Conns, HandshakeFails(c)
      PROVE  OneHolder'
  BY <1>2 DEF HandshakeFails, CloseFd, Holders
<1>3. ASSUME NEW c \in Conns, Close(c)
      PROVE  OneHolder'
  BY <1>3 DEF Close, CloseFd, Holders
<1>4. ASSUME NEW t \in Threads, Reap(t)
      PROVE  OneHolder'
  BY <1>4 DEF Reap, Shutdown, Holders
<1>5. ASSUME NEW t \in Threads, KickShut(t)
      PROVE  OneHolder'
  BY <1>5 DEF KickShut, Shutdown, Holders, Idle
<1>6. ASSUME NEW c \in Conns,
             \/ Register(c) \/ Replay(c) \/ Ignore(c) \/ Chat(c)
             \/ (\E u \in Users : Pm(c, u)) \/ (\E r \in Rooms : Join(c, r))
             \/ Switch(c) \/ RecvFails(c) \/ Remove(c)
      PROVE  OneHolder'
  <2>1. UNCHANGED <<fdOf, sock>>
    BY <1>6 DEF Register, Replay, Ignore, Chat, Pm, Join, Switch, RecvFails, Remove
  <2> QED
    BY <2>1
<1>7. ASSUME NEW t \in Threads,
             \/ Snapshot(t) \/ CastSend(t) \/ CastFails(t) \/ Save(t)
             \/ EndCast(t) \/ KickNotice(t) \/ Notify(t)
             \/ (\E u \in Users : Kick(t, u))
             \/ (\E u \in Users : Block(t, u))
             \/ (\E u \in Users : Unblock(t, u))
             \/ (\E r \in Rooms \cup {AllRooms} : Say(t, r))
      PROVE  OneHolder'
  <2>1. UNCHANGED <<fdOf, sock>>
    BY <1>7 DEF Snapshot, CastSend, CastFails, Save, EndCast, KickNotice, Notify,
      Kick, Block, Unblock, Say
  <2> QED
    BY <2>1
<1>8. UNCHANGED vars => OneHolder'
  BY DEF vars, local
<1> HIDE DEF OneHolder, IInv, TypeOK
<1> QED
  BY <1>1, <1>2, <1>3, <1>4, <1>5, <1>6, <1>7, <1>8
  DEF Next, Work, ConnWork, Frame, Order

(* A thread that ends, or goes past removeClient, has no entry left.       *)
LEMMA ListedStep == IInv /\ [Next]_vars => ListedIsServed'
<1> SUFFICES ASSUME IInv, [Next]_vars PROVE ListedIsServed'
  OBVIOUS
<1>snap. ASSUME NEW t \in Threads, Snapshot(t) PROVE ListedIsServed'
  <2>1. TypeOK
    BY DEF IInv
  <2>2. UNCHANGED clients
    BY <1>snap DEF Snapshot, roster
  <2>3. \A c \in Conns : Serves(c) => Serves(c)'
    BY <1>snap, <2>1, SnapshotKeeps DEF Serves, Past, Leaving, Threads
  <2> QED
    BY <2>1, <2>2, <2>3 DEF IInv, ListedIsServed, TypeOK
<1>say. ASSUME NEW t \in Threads, NEW r \in Rooms \cup {AllRooms}, Say(t, r)
        PROVE  ListedIsServed'
  <2>1. TypeOK
    BY DEF IInv
  <2>2. UNCHANGED clients
    BY <1>say DEF Say, roster
  <2>3. \A c \in Conns : Serves(c) => Serves(c)'
    BY <1>say, <2>1, SayKeeps DEF Serves, Past, Leaving, Threads
  <2> QED
    BY <2>1, <2>2, <2>3 DEF IInv, ListedIsServed, TypeOK
<1> USE BackendAssumption DEF IInv, ListedIsServed, Serves, Past, Leaving,
        TypeOK, Messages, Threads, kernel, roster, Goto, Consume
<1>1. ASSUME NEW c \in Conns, NEW f \in Fds, Accept(c, f)
      PROVE  ListedIsServed'
  BY <1>1 DEF Accept
<1>2. ASSUME NEW c \in Conns, Register(c)
      PROVE  ListedIsServed'
  BY <1>2 DEF Register, Announce, Message
<1>3. ASSUME NEW c \in Conns, RecvFails(c)
      PROVE  ListedIsServed'
  BY <1>3 DEF RecvFails
<1>4. ASSUME NEW c \in Conns, Remove(c)
      PROVE  ListedIsServed'
  BY <1>4 DEF Remove, Erased, WithFdOf
<1>5. ASSUME NEW t \in Threads, Save(t)
      PROVE  ListedIsServed'
  BY <1>5 DEF Save, AfterSave, Saved, Idle
<1>6. ASSUME NEW c \in Conns,
             \/ HandshakeFails(c) \/ Close(c)
      PROVE  ListedIsServed'
  BY <1>6 DEF HandshakeFails, CloseFd, Holders, Close
<1>7. ASSUME NEW c \in Conns,
             \/ Chat(c) \/ (\E r \in Rooms : Join(c, r)) \/ Switch(c)
      PROVE  ListedIsServed'
  BY <1>7 DEF Chat, Ready, Announce, Join, Switch, Message
<1>8. ASSUME NEW c \in Conns,
             \/ Replay(c) \/ Ignore(c) \/ (\E u \in Users : Pm(c, u))
      PROVE  ListedIsServed'
  BY <1>8 DEF Replay, Idle, Ignore, Ready, Pm
<1>9. ASSUME NEW t \in Threads,
             \/ CastSend(t) \/ CastFails(t) \/ Reap(t)
             \/ EndCast(t) \/ KickNotice(t) \/ KickShut(t) \/ Notify(t)
             \/ \E u \in Users : Kick(t, u) \/ Block(t, u) \/ Unblock(t, u)
      PROVE  ListedIsServed'
  <2>1. CASE CastSend(t) \/ CastFails(t) \/ Reap(t)
    BY <2>1 DEF CastSend, CastFails, Reap
  <2>2. CASE EndCast(t) \/ KickNotice(t) \/ KickShut(t) \/ Notify(t)
    BY <2>2 DEF EndCast, Idle, Saved, KickNotice, KickShut, Notify
  <2>3. ASSUME NEW u \in Users, Kick(t, u) PROVE ListedIsServed'
    BY <2>3 DEF Kick, MayOrder, Ready
  <2>4. ASSUME NEW u \in Users, Block(t, u) \/ Unblock(t, u) PROVE ListedIsServed'
    BY <2>4 DEF Block, Unblock, MayOrder, Ready
  <2> HIDE DEF ListedIsServed
  <2> QED
    BY <1>9, <2>1, <2>2, <2>3, <2>4
<1>10. UNCHANGED vars => ListedIsServed'
  BY DEF vars, local
<1> HIDE DEF ListedIsServed, IInv, TypeOK
<1> QED
  BY <1>1, <1>2, <1>3, <1>4, <1>5, <1>6, <1>7, <1>8, <1>9, <1>10, <1>snap, <1>say
  DEF Next, Work, ConnWork, Frame, Order

(* No step gives a connection that was accepted another descriptor or      *)
(* opens its socket again.                                                 *)
LEMMA OnceAccepted == IInv /\ [Next]_vars => AcceptedStays
<1> SUFFICES ASSUME IInv, [Next]_vars PROVE AcceptedStays
  OBVIOUS
<1> USE BackendAssumption DEF IInv, AcceptedStays, Accepted, SocketLife,
        Leaving, Gone, Past, TypeOK, Threads, kernel, roster, Goto, Consume
<1>1. ASSUME NEW c \in Conns, NEW f \in Fds, Accept(c, f)
      PROVE  AcceptedStays
  BY <1>1 DEF Accept
<1>2. ASSUME NEW c \in Conns,
             \/ HandshakeFails(c) \/ Close(c)
      PROVE  AcceptedStays
  BY <1>2 DEF HandshakeFails, CloseFd, Holders, Close
<1>3. ASSUME NEW t \in Threads,
             \/ Reap(t) \/ KickShut(t)
      PROVE  AcceptedStays
  BY <1>3 DEF Reap, Shutdown, Holders, KickShut, Idle
<1>4. ASSUME NEW c \in Conns,
             \/ Register(c) \/ Replay(c) \/ Ignore(c) \/ Chat(c)
             \/ (\E u \in Users : Pm(c, u)) \/ (\E r \in Rooms : Join(c, r))
             \/ Switch(c) \/ RecvFails(c) \/ Remove(c)
      PROVE  AcceptedStays
  <2>1. UNCHANGED <<fdOf, sock>>
    BY <1>4 DEF Register, Replay, Ignore, Chat, Pm, Join, Switch, RecvFails, Remove
  <2> QED
    BY <2>1
<1>5. ASSUME NEW t \in Threads,
             \/ Snapshot(t) \/ CastSend(t) \/ CastFails(t) \/ Save(t)
             \/ EndCast(t) \/ KickNotice(t) \/ Notify(t)
             \/ (\E u \in Users : Kick(t, u))
             \/ (\E u \in Users : Block(t, u))
             \/ (\E u \in Users : Unblock(t, u))
             \/ (\E r \in Rooms \cup {AllRooms} : Say(t, r))
      PROVE  AcceptedStays
  <2>1. UNCHANGED <<fdOf, sock>>
    BY <1>5 DEF Snapshot, CastSend, CastFails, Save, EndCast, KickNotice, Notify,
      Kick, Block, Unblock, Say
  <2> QED
    BY <2>1
<1>6. UNCHANGED vars => AcceptedStays
  BY DEF vars, local
<1> HIDE DEF AcceptedStays, IInv, TypeOK
<1> QED
  BY <1>1, <1>2, <1>3, <1>4, <1>5, <1>6
  DEF Next, Work, ConnWork, Frame, Order

(* removeClient takes the entry of another connection only if that one has *)
(* the same descriptor, and it was waited for when that one registered.    *)
(* Steps that change no entry and move no thread into or out of service    *)
(* preserve this (step <1>0).                                              *)
LEMMA UnlistedStep == IInv /\ [Next]_vars => UnlistedOnlyByReuse'
<1> SUFFICES ASSUME IInv, [Next]_vars PROVE UnlistedOnlyByReuse'
  OBVIOUS
<1>a. \A e \in Conns : Serves(e) /\ sock'[e] # "closed" => sock[e] # "closed"
  BY OnceAccepted DEF AcceptedStays, Accepted, IInv, SocketLife
<1>0. ASSUME UNCHANGED <<clients, heirOf>>,
             \A e \in Conns : (Serves(e)' => Serves(e)) /\ (Past(e) => Past(e)')
      PROVE  UnlistedOnlyByReuse'
  BY <1>0, <1>a DEF IInv, UnlistedOnlyByReuse, TypeOK
<1> USE BackendAssumption DEF IInv, UnlistedOnlyByReuse, SocketLife, Gone,
        Serves, Past, Leaving, TypeOK, Messages, Threads, kernel, roster,
        Goto, Consume
<1>1. ASSUME NEW c \in Conns, NEW f \in Fds, Accept(c, f)
      PROVE  UnlistedOnlyByReuse'
  BY <1>1, SMTT(30) DEF Accept
<1>2. ASSUME NEW c \in Conns, Register(c)
      PROVE  UnlistedOnlyByReuse'
  BY <1>2 DEF Register, Announce, Message
<1>3. ASSUME NEW c \in Conns, Remove(c)
      PROVE  UnlistedOnlyByReuse'
  <2>1. Past(c)' /\ ~Serves(c)'
    BY <1>3 DEF Remove
  <2>2. \A e \in Conns \ {c} : (Serves(e)' => Serves(e)) /\ (Past(e) => Past(e)')
    BY <1>3 DEF Remove
  <2>3. \A e \in clients \ clients' : fdOf[e] = fdOf[c]
    BY <1>3 DEF Remove, Erased, WithFdOf
  <2>4. UNCHANGED <<fdOf, sock, heirOf>> /\ pc[c] = "removing"
    BY <1>3 DEF Remove
  <2>5. ASSUME NEW e \in Conns, Serves(e)', e \notin clients', sock'[e] # "closed"
        PROVE  \E d \in heirOf'[e] : Past(d)'
    <3>1. e # c /\ Serves(e)
      BY <2>1, <2>2, <2>5
    <3>2. CASE e \in clients
      <4>1. fdOf[c] = fdOf[e]
        BY <2>3, <2>5, <3>2
      <4>2. Live(e) /\ pc[e] # "accepted"
        BY <2>4, <2>5, <3>1 DEF Live
      <4>3. c \in heirOf[e]
        BY <2>4, <4>1, <4>2 DEF HeirsKnown
      <4> QED
        BY <2>1, <2>4, <4>3
    <3>3. CASE e \notin clients
      <4>1. PICK d \in heirOf[e] : Past(d)
        BY <2>4, <2>5, <3>1, <3>3
      <4>2. d \in Conns
        BY <4>1
      <4>3. Past(d)'
        BY <2>1, <2>2, <4>1, <4>2
      <4> QED
        BY <2>4, <4>1, <4>3
    <3> QED
      BY <3>2, <3>3
  <2> QED
    BY <2>5
<1>4. ASSUME NEW t \in Threads, Save(t)
      PROVE  UnlistedOnlyByReuse'
  <2>1. \A e \in Conns : (Serves(e)' => Serves(e)) /\ (Past(e) => Past(e)')
    BY <1>4 DEF Save, AfterSave, Saved, Idle
  <2>2. UNCHANGED <<clients, heirOf>>
    BY <1>4 DEF Save, AfterSave, Saved, Idle
  <2> QED
    BY <2>1, <2>2, <1>0
<1>5. ASSUME NEW c \in Conns,
             \/ HandshakeFails(c) \/ Close(c)
      PROVE  UnlistedOnlyByReuse'
  <2>1. \A e \in Conns : (Serves(e)' => Serves(e)) /\ (Past(e) => Past(e)')
    BY <1>5 DEF HandshakeFails, CloseFd, Holders, Close
  <2>2. UNCHANGED <<clients, heirOf>>
    BY <1>5 DEF HandshakeFails, CloseFd, Holders, Close
  <2> QED
    BY <2>1, <2>2, <1>0
<1>6. ASSUME NEW c \in Conns,
             \/ Chat(c) \/ (\E r \in Rooms : Join(c, r))
      PROVE  UnlistedOnlyByReuse'
  <2>1. \A e \in Conns : (Serves(e)' => Serves(e)) /\ (Past(e) => Past(e)')
    BY <1>6 DEF Chat, Ready, Announce, Join
  <2>2. UNCHANGED <<clients, heirOf>>
    BY <1>6 DEF Chat, Ready, Announce, Join
  <2> QED
    BY <2>1, <2>2, <1>0
<1>7. ASSUME NEW c \in Conns,
             \/ Switch(c) \/ RecvFails(c)
      PROVE  UnlistedOnlyByReuse'
  <2>1. \A e \in Conns : (Serves(e)' => Serves(e)) /\ (Past(e) => Past(e)')
    BY <1>7 DEF Switch, Announce, RecvFails
  <2>2. UNCHANGED <<clients, heirOf>>
    BY <1>7 DEF Switch, Announce, RecvFails
  <2> QED
    BY <2>1, <2>2, <1>0
<1>8. ASSUME NEW t \in Threads,
             \/ Reap(t) \/ KickShut(t)
      PROVE  UnlistedOnlyByReuse'
  <2>1. \A e \in Conns : (Serves(e)' => Serves(e)) /\ (Past(e) => Past(e)')
    BY <1>8 DEF Reap, Shutdown, Holders, KickShut, Idle
  <2>2. UNCHANGED <<clients, heirOf>>
    BY <1>8 DEF Reap, Shutdown, Holders, KickShut, Idle
  <2> QED
    BY <2>1, <2>2, <1>0
<1>9. ASSUME NEW t \in Threads,
             \/ Snapshot(t) \/ CastSend(t)
      PROVE  UnlistedOnlyByReuse'
  <2>1. \A e \in Conns : (Serves(e)' => Serves(e)) /\ (Past(e) => Past(e)')
    <3>1. CASE Snapshot(t)
      BY <3>1, SnapshotKeeps
    <3>2. CASE CastSend(t)
      BY <3>2 DEF CastSend
    <3> QED
      BY <1>9, <3>1, <3>2
  <2>2. UNCHANGED <<clients, heirOf>>
    BY <1>9 DEF Snapshot, CastSend
  <2> QED
    BY <2>1, <2>2, <1>0
<1>10. ASSUME NEW t \in Threads,
             \/ CastFails(t) \/ EndCast(t)
      PROVE  UnlistedOnlyByReuse'
  <2>1. \A e \in Conns : (Serves(e)' => Serves(e)) /\ (Past(e) => Past(e)')
    BY <1>10 DEF CastFails, EndCast, Idle, Saved
  <2>2. UNCHANGED <<clients, heirOf>>
    BY <1>10 DEF CastFails, EndCast, Idle, Saved
  <2> QED
    BY <2>1, <2>2, <1>0
<1>11. ASSUME NEW c \in Conns,
             \/ Replay(c) \/ Ignore(c) \/ (\E u \in Users : Pm(c, u))
      PROVE  UnlistedOnlyByReuse'
  <2>1. \A e \in Conns : (Serves(e)' => Serves(e)) /\ (Past(e) => Past(e)')
    BY <1>11 DEF Replay, Idle, Ignore, Ready, Pm
  <2>2. UNCHANGED <<clients, heirOf>>
    BY <1>11 DEF Replay, Idle, Ignore, Ready, Pm
  <2> QED
    BY <2>1, <2>2, <1>0
<1>12. ASSUME NEW t \in Threads,
             \/ KickNotice(t) \/ Notify(t) \/ (\E u \in Users : Kick(t, u))
             \/ (\E u \in Users : Block(t, u))
             \/ (\E u \in Users : Unblock(t, u))
             \/ (\E r \in Rooms \cup {AllRooms} : Say(t, r))
      PROVE  UnlistedOnlyByReuse'
  <2>1. \A e \in Conns : (Serves(e)' => Serves(e)) /\ (Past(e) => Past(e)')
    BY <1>12 DEF KickNotice, Notify, Kick, MayOrder, Ready, Block, Unblock,
        Say, Announce
  <2>2. UNCHANGED <<clients, heirOf>>
    BY <1>12 DEF KickNotice, Notify, Kick, MayOrder, Ready, Block, Unblock,
        Say, Announce
  <2> QED
    BY <2>1, <2>2, <1>0
<1>13. UNCHANGED vars => UnlistedOnlyByReuse'
  BY DEF vars, local
<1> HIDE DEF UnlistedOnlyByReuse, IInv, TypeOK
<1> QED
  BY <1>1, <1>2, <1>3, <1>4, <1>5, <1>6, <1>7, <1>8, <1>9, <1>10, <1>11,
     <1>12, <1>13
  DEF Next, Work, ConnWork, Frame, Order

(* Whatever a thread holds on to while it sends or kicks was in the vector *)
(* once.  An action changes what one thread holds (step <1>0).             *)
LEMMA HeldEntriesStep == IInv /\ [Next]_vars => HeldEntries'
<1> SUFFICES ASSUME IInv, [Next]_vars PROVE HeldEntries'
  OBVIOUS
<1>0. ASSUME clients' \subseteq clients \cup Accepted, NEW t \in Threads, HeldBy(t)',
             \A u \in Threads \ {t} :
                 cur'[u] = cur[u] /\ todo'[u] = todo[u] /\ pc'[u] = pc[u]
      PROVE  HeldEntries'
  BY <1>0, OnceAccepted DEF IInv, HeldEntries, HeldBy, AcceptedStays, Accepted
<1> USE BackendAssumption DEF IInv, HeldEntries, HeldBy, UnderOneLock, Accepted,
        SocketLife, TypeOK, Messages, Threads, kernel, roster, Goto, Consume
<1>1. ASSUME NEW c \in Conns, NEW f \in Fds, Accept(c, f)
      PROVE  HeldEntries'
  BY <1>1 DEF Accept
<1>2. ASSUME NEW c \in Conns, Register(c)
      PROVE  HeldEntries'
  <2>1. clients' \subseteq clients \cup Accepted
    BY <1>2 DEF Register, Announce
  <2>2. \A u \in Threads \ {c} :
            cur'[u] = cur[u] /\ todo'[u] = todo[u] /\ pc'[u] = pc[u]
    BY <1>2 DEF Register, Announce
  <2>3. HeldBy(c)'
    BY <1>2 DEF Register, Announce, Message
  <2> QED
    BY <1>0, <2>1, <2>2, <2>3
<1>3. ASSUME NEW t \in Threads, Snapshot(t)
      PROVE  HeldEntries'
  <2>1. clients' \subseteq clients \cup Accepted
    BY <1>3 DEF Snapshot
  <2>2. \A u \in Threads \ {t} :
            cur'[u] = cur[u] /\ todo'[u] = todo[u] /\ pc'[u] = pc[u]
    BY <1>3 DEF Snapshot
  <2>3. HeldBy(t)'
    <3> DEFINE S == {e \in clients :
                       /\ cur[t].room \in {AllRooms, room[e]}
                       /\ (cur[t].kind \in SkipsSender => fdOf[e] # fdOf[t])}
    <3>1. /\ cur' = [cur EXCEPT ![t] = Addressed(cur[t], S)]
          /\ todo' = [todo EXCEPT ![t] = S] /\ pc' = [pc EXCEPT ![t] = "cast"]
          /\ UNCHANGED <<sock, clients>>
      BY <1>3 DEF Snapshot
    <3>2. S \subseteq clients
      OBVIOUS
    <3> HIDE DEF S, Messages
    <3>3. /\ cur'[t].to = S /\ cur'[t].kind = cur[t].kind
          /\ todo'[t] = S /\ pc'[t] = "cast"
      BY <3>1, <3>2, AddressedShape
    <3> QED
      BY <3>1, <3>2, <3>3
  <2> QED
    BY <1>0, <2>1, <2>2, <2>3
<1>4. ASSUME NEW t \in Threads, CastSend(t)
      PROVE  HeldEntries'
  <2>1. clients' \subseteq clients \cup Accepted
    BY <1>4 DEF CastSend
  <2>2. \A u \in Threads \ {t} :
            cur'[u] = cur[u] /\ todo'[u] = todo[u] /\ pc'[u] = pc[u]
    BY <1>4 DEF CastSend
  <2>3. HeldBy(t)'
    BY <1>4 DEF CastSend
  <2> QED
    BY <1>0, <2>1, <2>2, <2>3
<1>5. ASSUME NEW t \in Threads, CastFails(t)
      PROVE  HeldEntries'
  <2>1. clients' \subseteq clients \cup Accepted
    BY <1>5 DEF CastFails
  <2>2. \A u \in Threads \ {t} :
            cur'[u] = cur[u] /\ todo'[u] = todo[u] /\ pc'[u] = pc[u]
    BY <1>5 DEF CastFails
  <2>3. HeldBy(t)'
    BY <1>5 DEF CastFails
  <2> QED
    BY <1>0, <2>1, <2>2, <2>3
<1>6. ASSUME NEW t \in Threads, Reap(t)
      PROVE  HeldEntries'
  <2>1. clients' \subseteq clients \cup Accepted
    BY <1>6 DEF Reap, Shutdown, Holders
  <2>2. \A u \in Threads \ {t} :
            cur'[u] = cur[u] /\ todo'[u] = todo[u] /\ pc'[u] = pc[u]
    BY <1>6 DEF Reap, Shutdown, Holders
  <2>3. HeldBy(t)'
    BY <1>6 DEF Reap, Shutdown, Holders
  <2> QED
    BY <1>0, <2>1, <2>2, <2>3
<1>7. ASSUME NEW t \in Threads, (\E u \in Users : Kick(t, u))
      PROVE  HeldEntries'
  <2>1. PICK u \in Users : Kick(t, u)
    BY <1>7
  <2>2. First(Named(u)) \in clients
    <3>1. Named(u) # {}
      BY <2>1 DEF Kick
    <3>2. First(Named(u)) \in Named(u)
      BY <3>1, LookupTypes
    <3>3. Named(u) \subseteq clients
      BY DEF Named
    <3> QED
      BY <3>2, <3>3
  <2>3. UNCHANGED <<clients, sock>>
    BY <2>1 DEF Kick
  <2>4. \A x \in Threads \ {t} :
            cur'[x] = cur[x] /\ todo'[x] = todo[x] /\ pc'[x] = pc[x]
    BY <2>1 DEF Kick
  <2>5. /\ cur'[t].to = {First(Named(u))} /\ pc'[t] = "kick"
        /\ cur'[t].kind = "kicked"
    <3>1. /\ Message(t, "kicked", AllRooms) \in Messages
          /\ Message(t, "kicked", AllRooms).kind = "kicked"
          /\ {First(Named(u))} \in SUBSET Conns
      <4> HIDE DEF Messages
      <4> QED
        BY <2>2, MessageShape DEF Kinds
    <3>2. /\ cur'[t] = Addressed(Message(t, "kicked", AllRooms), {First(Named(u))})
          /\ pc'[t] = "kick"
      BY <2>1 DEF Kick
    <3> DEFINE m == Message(t, "kicked", AllRooms)
               S == {First(Named(u))}
    <3> HIDE DEF Messages, m, S
    <3>3. Addressed(m, S).to = S /\ Addressed(m, S).kind = m.kind
      BY <3>1, AddressedShape DEF m, S
    <3> QED
      BY <3>1, <3>2, <3>3 DEF m, S
  <2>6. HeldBy(t)'
    BY <2>2, <2>3, <2>5 DEF UnderOneLock
  <2> QED
    BY <1>0, <2>3, <2>4, <2>6
<1>8. ASSUME NEW c \in Conns,
             \/ HandshakeFails(c) \/ Close(c)
      PROVE  HeldEntries'
  <2>1. clients' \subseteq clients \cup Accepted
    BY <1>8 DEF HandshakeFails, CloseFd, Holders, Close
  <2>2. \A u \in Threads \ {c} :
            cur'[u] = cur[u] /\ todo'[u] = todo[u] /\ pc'[u] = pc[u]
    BY <1>8 DEF HandshakeFails, CloseFd, Holders, Close
  <2>3. HeldBy(c)'
    BY <1>8 DEF HandshakeFails, CloseFd, Holders, Close
  <2> QED
    BY <1>0, <2>1, <2>2, <2>3
<1>9. ASSUME NEW t \in Threads, KickShut(t)
      PROVE  HeldEntries'
  <2>1. clients' \subseteq clients \cup Accepted
    BY <1>9 DEF KickShut, Shutdown, Holders, Idle
  <2>2. \A u \in Threads \ {t} :
            cur'[u] = cur[u] /\ todo'[u] = todo[u] /\ pc'[u] = pc[u]
    BY <1>9 DEF KickShut, Shutdown, Holders, Idle
  <2>3. HeldBy(t)'
    BY <1>9 DEF KickShut, Shutdown, Holders, Idle
  <2> QED
    BY <1>0, <2>1, <2>2, <2>3
<1>10. ASSUME NEW c \in Conns,
             \/ Replay(c) \/ Ignore(c)
      PROVE  HeldEntries'
  <2>1. clients' \subseteq clients \cup Accepted
    BY <1>10 DEF Replay, Idle, Ignore, Ready
  <2>2. \A u \in Threads \ {c} :
            cur'[u] = cur[u] /\ todo'[u] = todo[u] /\ pc'[u] = pc[u]
    BY <1>10 DEF Replay, Idle, Ignore, Ready
  <2>3. HeldBy(c)'
    BY <1>10 DEF Replay, Idle, Ignore, Ready
  <2> QED
    BY <1>0, <2>1, <2>2, <2>3
<1>11. ASSUME NEW c \in Conns, (\E u \in Users : Pm(c, u))
      PROVE  HeldEntries'
  <2>1. clients' \subseteq clients \cup Accepted
    BY <1>11 DEF Pm, Ready
  <2>2. \A u \in Threads \ {c} :
            cur'[u] = cur[u] /\ todo'[u] = todo[u] /\ pc'[u] = pc[u]
    BY <1>11 DEF Pm, Ready
  <2>3. HeldBy(c)'
    BY <1>11 DEF Pm, Ready
  <2> QED
    BY <1>0, <2>1, <2>2, <2>3
<1>12. ASSUME NEW c \in Conns,
             \/ Chat(c) \/ (\E r \in Rooms : Join(c, r))
      PROVE  HeldEntries'
  <2>1. clients' \subseteq clients \cup Accepted
    BY <1>12 DEF Chat, Ready, Announce, Join
  <2>2. \A u \in Threads \ {c} :
            cur'[u] = cur[u] /\ todo'[u] = todo[u] /\ pc'[u] = pc[u]
    BY <1>12 DEF Chat, Ready, Announce, Join
  <2>3. HeldBy(c)'
    BY <1>12 DEF Chat, Ready, Announce, Join, Message
  <2> QED
    BY <1>0, <2>1, <2>2, <2>3
<1>13. ASSUME NEW c \in Conns,
             \/ Switch(c) \/ RecvFails(c)
      PROVE  HeldEntries'
  <2>1. clients' \subseteq clients \cup Accepted
    BY <1>13 DEF Switch, Announce, RecvFails
  <2>2. \A u \in Threads \ {c} :
            cur'[u] = cur[u] /\ todo'[u] = todo[u] /\ pc'[u] = pc[u]
    BY <1>13 DEF Switch, Announce, RecvFails
  <2>3. HeldBy(c)'
    BY <1>13 DEF Switch, Announce, RecvFails, Message
  <2> QED
    BY <1>0, <2>1, <2>2, <2>3
<1>14. ASSUME NEW t \in Threads,
             \/ Save(t) \/ EndCast(t)
      PROVE  HeldEntries'
  <2>1. clients' \subseteq clients \cup Accepted
    BY <1>14 DEF Save, AfterSave, Saved, Idle, EndCast
  <2>2. \A u \in Threads \ {t} :
            cur'[u] = cur[u] /\ todo'[u] = todo[u] /\ pc'[u] = pc[u]
    BY <1>14 DEF Save, AfterSave, Saved, Idle, EndCast
  <2>3. HeldBy(t)'
    BY <1>14 DEF Save, AfterSave, Saved, Idle, EndCast
  <2> QED
    BY <1>0, <2>1, <2>2, <2>3
<1>15. ASSUME NEW c \in Conns, Remove(c)
      PROVE  HeldEntries'
  <2>1. clients' \subseteq clients \cup Accepted
    BY <1>15 DEF Remove, Erased, WithFdOf
  <2>2. \A u \in Threads \ {c} :
            cur'[u] = cur[u] /\ todo'[u] = todo[u] /\ pc'[u] = pc[u]
    BY <1>15 DEF Remove, Erased, WithFdOf
  <2>3. HeldBy(c)'
    BY <1>15 DEF Remove, Erased, WithFdOf
  <2> QED
    BY <1>0, <2>1, <2>2, <2>3
<1>16. ASSUME NEW t \in Threads,
             \/ KickNotice(t) \/ Notify(t) \/ (\E u \in Users : Block(t, u))
             \/ (\E u \in Users : Unblock(t, u))
             \/ (\E r \in Rooms \cup {AllRooms} : Say(t, r))
      PROVE  HeldEntries'
  <2>1. clients' \subseteq clients \cup Accepted
    BY <1>16 DEF KickNotice, Notify, Block, MayOrder, Ready, Unblock, Say,
        Announce
  <2>2. \A u \in Threads \ {t} :
            cur'[u] = cur[u] /\ todo'[u] = todo[u] /\ pc'[u] = pc[u]
    BY <1>16 DEF KickNotice, Notify, Block, MayOrder, Ready, Unblock, Say,
        Announce
  <2>3. HeldBy(t)'
    <3>1. ASSUME NEW r \in Rooms \cup {AllRooms}, Say(t, r) PROVE HeldBy(t)'
      <4>1. UNCHANGED <<clients, sock>>
        BY <3>1 DEF Say
      <4>2. cur'[t] = Message(t, "say", r) /\ pc'[t] = "snap"
        BY <3>1 DEF Say, Announce
      <4>3. Message(t, "say", r).kind = "say" /\ Message(t, "say", r).to = {}
        BY DEF Message
      <4> QED
        BY <4>1, <4>2, <4>3
    <3>2. ASSUME ~\E r \in Rooms \cup {AllRooms} : Say(t, r) PROVE HeldBy(t)'
      BY <1>16, <3>2 DEF KickNotice, Notify, Block, MayOrder, Ready, Unblock
    <3> QED
      BY <3>1, <3>2
  <2> QED
    BY <1>0, <2>1, <2>2, <2>3
<1>17. UNCHANGED vars => HeldEntries'
  BY DEF vars, local
<1> HIDE DEF HeldEntries, IInv, TypeOK
<1> QED
  BY <1>1, <1>2, <1>3, <1>4, <1>5, <1>6, <1>7, <1>8, <1>9, <1>10, <1>11,
     <1>12, <1>13, <1>14, <1>15, <1>16, <1>17
  DEF Next, Work, ConnWork, Frame, Order

(* The step of a thread that chooses nothing keeps what it foresaw: no     *)
(* descriptor changes hands but by close() and accept(), and a connection  *)
(* accepted later is not among those there were.                           *)
LEMMA ForeseenKept ==
    ASSUME IInv, [Next]_vars, NEW t \in Threads,
           pc'[t] \in Holding => pc[t] \in Holding /\ cur'[t] = cur[t]
    PROVE  ForeseenBy(t)'
<1>1. AcceptedStays
  BY OnceAccepted
<1>2. TypeOK /\ ForeseenBy(t) /\ HeldBy(t)
  BY DEF IInv, Foreseen, HeldEntries
<1>3. SUFFICES ASSUME pc'[t] \in Holding PROVE ForeseenBy(t)'
  BY DEF ForeseenBy
<1>4. pc[t] \in Holding /\ cur'[t] = cur[t]
  BY <1>3
<1>5. cur[t].before \subseteq Accepted /\ cur[t].to \subseteq Accepted
  BY <1>2, <1>4 DEF ForeseenBy, HeldBy
<1>6. Accepted \subseteq Accepted'
  BY <1>1 DEF AcceptedStays, Accepted
<1>7. ASSUME NEW e \in cur[t].to, NEW c \in cur[t].before,
             c # e, Live(c)', fdOf'[c] = fdOf'[e]
      PROVE  e \in cur[t].gone
  <2>1. c \in Accepted /\ e \in Accepted
    BY <1>5
  <2>2. fdOf[c] = fdOf[e] /\ sock[c] # "closed" /\ sock[c] # "none"
    BY <1>1, <1>7, <2>1 DEF AcceptedStays, Live, Accepted
  <2>3. Live(c)
    BY <1>2, <2>1, <2>2 DEF Live, Accepted, TypeOK
  <2> QED
    BY <1>2, <1>4, <1>7, <2>2, <2>3 DEF ForeseenBy
<1> QED
  BY <1>4, <1>5, <1>6, <1>7 DEF ForeseenBy

(* What a thread chooses is listed: of two connections with one descriptor *)
(* one is closed, and a closed one that is listed waits for removeClient.  *)
LEMMA ChoiceForeseen ==
    ASSUME IInv, NEW t \in Threads, NEW m \in Messages, NEW S, S \subseteq clients,
           UNCHANGED <<fdOf, sock>>, cur'[t] = Addressed(m, S)
    PROVE  ForeseenBy(t)'
<1>1. TypeOK /\ SocketLife /\ OneHolder /\ ListedIsServed
  BY DEF IInv
<1>2. S \in SUBSET Conns
  BY <1>1 DEF TypeOK
<1>3. /\ cur'[t].to = S /\ cur'[t].gone = {e \in S : pc[e] = "removing"}
      /\ cur'[t].before =
            {c \in Conns : sock[c] # "none" /\ \E e \in S \ {c} : fdOf[e] = fdOf[c]}
  BY <1>2, AddressedShape
<1>4. cur'[t].before \subseteq Accepted'
  BY <1>3 DEF Accepted
<1>5. ASSUME NEW e \in S, NEW c \in Conns, c # e, Live(c), fdOf[c] = fdOf[e]
      PROVE  pc[e] = "removing"
  <2>1. e \in Conns /\ Serves(e)
    BY <1>1, <1>2 DEF ListedIsServed
  <2>2. ~Live(e)
    BY <1>1, <1>5, <2>1 DEF OneHolder
  <2>3. sock[e] = "closed"
    BY <1>1, <2>1, <2>2 DEF Live, SocketLife, Serves, TypeOK
  <2> QED
    BY <1>1, <2>1, <2>3 DEF SocketLife, Gone, Serves
<1> QED
  BY <1>3, <1>4, <1>5 DEF ForeseenBy, Live

(* The two places where a thread chooses are the start of a broadcast and  *)
(* the lookup of a kick.                                                   *)
LEMMA ForeseenStep == IInv /\ [Next]_vars => Foreseen'
<1> SUFFICES ASSUME IInv, [Next]_vars, NEW t \in Threads PROVE ForeseenBy(t)'
  BY DEF Foreseen
<1>0. TypeOK
  BY DEF IInv
<1> DEFINE Kept == pc'[t] \in Holding => pc[t] \in Holding /\ cur'[t] = cur[t]
<1>1. ASSUME Snapshot(t) PROVE ForeseenBy(t)'
  <2> DEFINE S == {e \in clients :
              /\ cur[t].room \in {AllRooms, room[e]}
              /\ (cur[t].kind \in SkipsSender => fdOf[e] # fdOf[t])}
  <2>1. /\ UNCHANGED <<fdOf, sock>> /\ cur' = [cur EXCEPT ![t] = Addressed(cur[t], S)]
    BY <1>1 DEF Snapshot, kernel
  <2>2. S \subseteq clients
    OBVIOUS
  <2> HIDE DEF S
  <2>3. cur[t] \in Messages /\ cur'[t] = Addressed(cur[t], S)
    BY <1>0, <2>1 DEF TypeOK
  <2> QED
    BY <2>1, <2>2, <2>3, ChoiceForeseen
<1>2. ASSUME NEW u \in Users, Kick(t, u) PROVE ForeseenBy(t)'
  <2> DEFINE S == {First(Named(u))}
             m == Message(t, "kicked", AllRooms)
  <2>1. UNCHANGED <<fdOf, sock>> /\ cur' = [cur EXCEPT ![t] = Addressed(m, S)]
    BY <1>2 DEF Kick, kernel
  <2>2. S \subseteq clients
    BY <1>0, <1>2, LookupTypes DEF Kick, Named
  <2>3. m \in Messages
    BY <1>0, MessageShape DEF Kinds
  <2> HIDE DEF S, m
  <2>4. cur'[t] = Addressed(m, S)
    BY <1>0, <2>1 DEF TypeOK
  <2> QED
    BY <2>1, <2>2, <2>3, <2>4, ChoiceForeseen
<1> USE <1>0 DEF TypeOK, Holding, Goto, Threads
<1>3. ASSUME NEW c \in Conns,
             \/ \E f \in Fds : Accept(c, f)
             \/ HandshakeFails(c) \/ Register(c) \/ RecvFails(c)
      PROVE  Kept
  BY <1>3 DEF Accept, HandshakeFails, Register, RecvFails, Announce
<1>4. ASSUME NEW c \in Conns, Replay(c) \/ Switch(c) \/ Close(c) \/ Remove(c)
      PROVE  Kept
  BY <1>4 DEF Replay, Switch, Close, Remove, Announce
<1>5. ASSUME NEW c \in Conns, Frame(c) PROVE Kept
  BY <1>5 DEF Frame, Ignore, Chat, Pm, Join, Announce
<1>6. ASSUME NEW u \in Threads, CastSend(u) \/ CastFails(u) \/ Reap(u) \/ EndCast(u)
      PROVE  Kept
  BY <1>6 DEF CastSend, CastFails, Reap, EndCast
<1>7. ASSUME NEW u \in Threads, KickNotice(u) \/ KickShut(u) \/ Notify(u)
      PROVE  Kept
  BY <1>7 DEF KickNotice, KickShut, Notify
<1>8. ASSUME NEW u \in Threads, Save(u) PROVE Kept
  BY <1>8 DEF Save, AfterSave, Saved
<1>9. ASSUME NEW u \in Threads, Order(u), ~\E x \in Users : Kick(u, x) PROVE Kept
  BY <1>9 DEF Order, Block, Unblock, Say, Announce
<1>10. ASSUME NEW u \in Threads, u # t, Snapshot(u) \/ \E x \in Users : Kick(u, x)
       PROVE  Kept
  BY <1>10 DEF Snapshot, Kick
<1>11. CASE UNCHANGED vars
  <2>1. UNCHANGED <<fdOf, sock, pc, cur>>
    BY <1>11 DEF vars, kernel, local
  <2> QED
    BY <2>1, ForeseenKept
<1> HIDE <1>0 DEF TypeOK, Kept
<1>12. Kept => ForeseenBy(t)'
  BY ForeseenKept DEF Kept
<1> QED
  BY <1>1, <1>2, <1>3, <1>4, <1>5, <1>6, <1>7, <1>8, <1>9, <1>10, <1>11, <1>12
  DEF Next, Work, ConnWork

(* A connection that is closed while another has its descriptor was closed *)
(* before that one was accepted, so before it registered.                  *)
LEMMA HeirsStep == IInv /\ [Next]_vars => HeirsKnown'
<1> SUFFICES ASSUME IInv, [Next]_vars PROVE HeirsKnown'
  OBVIOUS
<1> SUFFICES ASSUME NEW c \in Conns, NEW d \in Conns,
                    Live(c)', pc'[c] # "accepted",
                    pc'[d] = "removing", fdOf'[d] = fdOf'[c]
             PROVE  d \in heirOf'[c]
  BY DEF HeirsKnown
<1>0. TypeOK /\ SocketLife /\ OneHolder /\ HeirsKnown /\ AcceptedStays
  BY OnceAccepted DEF IInv
<1>1. ASSUME Live(c), Live(d), fdOf[c] = fdOf[d] PROVE c = d
  BY <1>0, <1>1 DEF OneHolder
<1> USE <1>0 DEF TypeOK, Live, Goto, Threads
<1>2. ASSUME NEW e \in Conns, NEW f \in Fds, Accept(e, f) PROVE d \in heirOf'[c]
  BY <1>2 DEF Accept, roster, SocketLife, Gone, HeirsKnown
<1>3. ASSUME NEW e \in Conns, HandshakeFails(e) PROVE d \in heirOf'[c]
  <2>1. /\ UNCHANGED <<fdOf, heirOf>> /\ pc[e] = "accepted" /\ CloseFd(e)
        /\ pc' = [pc EXCEPT ![e] = "done"]
    BY <1>3 DEF HandshakeFails, roster
  <2>2. Live(c)
    BY <2>1 DEF CloseFd
  <2>3. d # e /\ pc[d] = "removing"
    BY <2>1
  <2>4. c # e
    <3>1. Live(e)
      BY <2>1 DEF SocketLife, Gone, Past, Leaving
    <3>2. sock'[e] = "closed"
      BY <2>1, <3>1 DEF CloseFd, Holders
    <3> QED
      BY <3>2
  <2>5. pc[c] # "accepted"
    BY <2>1, <2>4
  <2> QED
    BY <2>1, <2>2, <2>3, <2>5 DEF HeirsKnown
<1>4. ASSUME NEW e \in Conns, Close(e) PROVE d \in heirOf'[c]
  <2>1. /\ UNCHANGED <<fdOf, heirOf>> /\ pc[e] = "closing" /\ CloseFd(e)
        /\ pc' = [pc EXCEPT ![e] = "removing"]
    BY <1>4 DEF Close, roster
  <2>2. Live(c) /\ pc[c] # "accepted"
    BY <2>1 DEF CloseFd
  <2>3. CASE d # e
    BY <2>1, <2>2, <2>3 DEF HeirsKnown
  <2>4. CASE d = e
    <3>1. sock'[c] = "closed"
      <4>1. Live(d)
        BY <2>1, <2>4 DEF SocketLife, Gone, Past, Leaving
      <4>2. c = d
        BY <1>1, <2>1, <2>2, <4>1
      <4> QED
        BY <2>1, <2>4, <4>1, <4>2 DEF CloseFd, Holders
    <3> QED
      BY <3>1
  <2> QED
    BY <2>3, <2>4
<1>5. ASSUME NEW e \in Conns, Register(e) PROVE d \in heirOf'[c]
  <2>1. /\ UNCHANGED <<fdOf, sock>> /\ pc' = [pc EXCEPT ![e] = "snap"]
        /\ heirOf' = [heirOf EXCEPT ![e] = {x \in Conns : pc[x] = "removing" /\ fdOf[x] = fdOf[e]}]
    BY <1>5 DEF Register, kernel, Announce
  <2> QED
    BY <2>1 DEF HeirsKnown
<1>6. ASSUME UNCHANGED <<fdOf, heirOf>>, \A x \in Conns : sock'[x] = sock[x]
                 \/ (sock[x] = "open" /\ sock'[x] = "shut"),
             pc'[d] = "removing" => pc[d] = "removing",
             pc'[c] # "accepted" => pc[c] # "accepted"
      PROVE  d \in heirOf'[c]
  BY <1>6 DEF HeirsKnown
<1>7. ASSUME NEW e \in Conns, Replay(e) \/ Switch(e) \/ Remove(e) \/ RecvFails(e)
      PROVE  d \in heirOf'[c]
  <2>1. UNCHANGED <<fdOf, sock, heirOf>>
    BY <1>7 DEF Replay, Switch, Remove, RecvFails, kernel, roster
  <2>2. pc' = [pc EXCEPT ![e] = pc'[e]] /\ pc'[e] # "removing" /\ pc[e] # "accepted"
    BY <1>7 DEF Replay, Switch, Remove, RecvFails, Announce
  <2> QED
    BY <1>6, <2>1, <2>2
<1>8. ASSUME NEW e \in Conns, Frame(e) PROVE d \in heirOf'[c]
  <2>1. UNCHANGED <<fdOf, sock, heirOf>>
    BY <1>8 DEF Frame, Ignore, Chat, Pm, Join, kernel, roster
  <2>2. pc' = pc \/ (pc' = [pc EXCEPT ![e] = "snap"] /\ pc[e] = "recv")
    BY <1>8 DEF Frame, Ignore, Chat, Pm, Join, Announce, Ready
  <2> QED
    BY <1>6, <2>1, <2>2
<1>9. ASSUME NEW t \in Threads, Work(t) \/ CastFails(t) \/ Order(t)
      PROVE  d \in heirOf'[c]
  <2>1. UNCHANGED <<fdOf, heirOf>>
    BY <1>9 DEF Work, Order, Snapshot, CastSend, CastFails, Reap, Save, EndCast,
      KickNotice, KickShut, Notify, Kick, Block, Unblock, Say, kernel, roster
  <2>2. \A x \in Conns : sock'[x] = sock[x] \/ (sock[x] = "open" /\ sock'[x] = "shut")
    <3>1. CASE Reap(t) \/ KickShut(t)
      BY <3>1 DEF Reap, KickShut, Shutdown, Holders
    <3>2. CASE ~(Reap(t) \/ KickShut(t))
      BY <1>9, <3>2 DEF Work, Order, Snapshot, CastSend, CastFails, Save, EndCast,
        KickNotice, Notify, Kick, Block, Unblock, Say, kernel
    <3> QED
      BY <3>1, <3>2
  <2>3. pc' = pc \/ (pc' = [pc EXCEPT ![t] = pc'[t]] /\ pc'[t] # "removing" /\ pc[t] # "accepted")
    <3>1. CASE Save(t)
      <4>1. pc' = [pc EXCEPT ![t] = AfterSave[cur[t].kind]] /\ pc[t] = "cast"
            /\ cur[t].kind \in {"hello", "chat", "leave", "enter", "bye"}
        BY <3>1 DEF Save, Saved
      <4>2. AfterSave[cur[t].kind] \in {"replay", "recv", "switch", "done"}
        BY <4>1 DEF AfterSave
      <4> QED
        BY <4>1, <4>2
    <3>2. CASE Snapshot(t) \/ CastSend(t) \/ CastFails(t) \/ Reap(t) \/ EndCast(t)
      BY <3>2 DEF Snapshot, CastSend, CastFails, Reap, EndCast
    <3>3. CASE KickNotice(t) \/ KickShut(t) \/ Notify(t)
      BY <3>3 DEF KickNotice, KickShut, Notify
    <3>4. CASE Order(t)
      BY <3>4 DEF Order, Kick, Block, Unblock, Say, MayOrder, Ready, Announce
    <3> QED
      BY <1>9, <3>1, <3>2, <3>3, <3>4 DEF Work
  <2> QED
    BY <1>6, <2>1, <2>2, <2>3
<1>10. CASE UNCHANGED vars
  BY <1>10 DEF vars, kernel, roster, local, HeirsKnown
<1> HIDE <1>0 DEF TypeOK
<1> QED
  BY <1>2, <1>3, <1>4, <1>5, <1>7, <1>8, <1>9, <1>10 DEF Next, ConnWork

-----------------------------------------------------------------------------
(* The theorems.                                                           *)

(* Before anyone connects the invariant holds.                             *)
LEMMA IInvInit == Init => IInv
<1> SUFFICES ASSUME Init PROVE IInv
  OBVIOUS
<1>1. TypeOK
  BY TypeInit
<1>2. \A c \in Conns : sock[c] = "none" /\ pc[c] = "none" /\ fdOf[c] = NoFd
  BY BackendAssumption DEF Init, Threads
<1>3. \A t \in Threads : cur[t] = Idle(t) /\ todo[t] = {} /\ pc[t] \in {"none", "recv"}
  BY DEF Init
<1>4. SocketLife /\ OneHolder
  BY <1>2, BackendAssumption DEF SocketLife, OneHolder, Live, Gone, Past, Leaving
<1>5. HeldEntries
  <2>1. clients = {}
    BY DEF Init
  <2> QED
    <3>1. ASSUME NEW t \in Threads PROVE HeldBy(t)
      <4>1. Idle(t).to = {} /\ Idle(t).kind = "none"
        BY DEF Idle
      <4> QED
        BY <1>3, <4>1 DEF HeldBy, UnderOneLock
    <3> QED
      BY <2>1, <3>1 DEF HeldEntries
<1>6. Foreseen /\ HeirsKnown
  <2>1. Foreseen
    BY <1>3 DEF Foreseen, ForeseenBy, Holding
  <2>2. HeirsKnown
    BY <1>2 DEF HeirsKnown, Live
  <2> QED
    BY <2>1, <2>2
<1>7. ListedIsServed /\ UnlistedOnlyByReuse
  BY <1>2 DEF Init, ListedIsServed, UnlistedOnlyByReuse, Serves
<1> QED
  BY <1>1, <1>4, <1>5, <1>6, <1>7 DEF IInv

(* The invariant holds in every reachable state.                           *)
THEOREM Inductive == Spec => []IInv
<1>1. IInv /\ [Next]_vars => IInv'
  <2> SUFFICES ASSUME IInv, [Next]_vars PROVE IInv'
    OBVIOUS
  <2>1. TypeOK
    BY DEF IInv
  <2>2. TypeOK' /\ SocketLife' /\ OneHolder' /\ HeldEntries'
    BY <2>1, TypeStep, SocketLifeStep, OneHolderStep, HeldEntriesStep
  <2>3. Foreseen' /\ HeirsKnown'
    BY ForeseenStep, HeirsStep
  <2>4. ListedIsServed' /\ UnlistedOnlyByReuse'
    BY ListedStep, UnlistedStep
  <2> QED
    BY <2>2, <2>3, <2>4 DEF IInv
<1> QED
  BY <1>1, IInvInit, PTL DEF Spec

(* An entry of the client list always has a thread that will remove it.    *)
THEOREM Listed == Spec => []ListedIsServed
<1>1. IInv => ListedIsServed
  BY DEF IInv
<1> QED
  BY <1>1, Inductive, PTL

(* A client with an open connection is listed, unless a former owner of    *)
(* its descriptor, still listed when it registered, was removed after it.  *)
THEOREM Unlisted == Spec => []UnlistedOnlyByReuse
<1>1. IInv => UnlistedOnlyByReuse
  BY DEF IInv
<1> QED
  BY <1>1, Inductive, PTL

(* A socket is closed by its own thread and by no other.                   *)
THEOREM ClosedByOwner == Spec => OwnerCloses
<1> DEFINE P == \A c \in Conns : sock[c] \in {"open", "shut"} /\ sock'[c] = "closed"
                  => pc[c] \in {"accepted", "closing"} /\ pc'[c] # pc[c]
<1>1. IInv /\ [Next]_vars => [P]_vars
  <2> SUFFICES ASSUME IInv, [Next]_vars PROVE P
    OBVIOUS
  <2> USE DEF IInv, SocketLife, OneHolder, Live, Gone, Past, Leaving, TypeOK, kernel,
              Goto, Threads
  <2>1. ASSUME NEW d \in Conns, HandshakeFails(d) \/ Close(d) PROVE P
    <3>1. Live(d)
      BY <2>1 DEF HandshakeFails, Close
    <3>2. CloseFd(d) /\ pc'[d] # pc[d] /\ pc[d] \in {"accepted", "closing"}
      BY <2>1 DEF HandshakeFails, Close
    <3>3. \A c \in Conns : c # d /\ Live(c) => sock'[c] = sock[c]
      BY <3>1, <3>2 DEF CloseFd, Holders
    <3> QED
      BY <3>2, <3>3
  <2>2. ASSUME NEW d \in Conns, NEW f \in Fds, Accept(d, f) PROVE P
    BY <2>2 DEF Accept
  <2>3. ASSUME NEW t \in Threads, Reap(t) \/ KickShut(t) PROVE P
    BY <2>3 DEF Reap, KickShut, Shutdown
  <2>4. CASE UNCHANGED sock
    BY <2>4
  <2>5. ASSUME NEW d \in Conns,
               \/ Register(d) \/ RecvFails(d) \/ Replay(d) \/ Switch(d) \/ Remove(d)
               \/ Frame(d)
        PROVE  UNCHANGED sock
    BY <2>5 DEF Register, RecvFails, Replay, Switch, Remove, Frame, Ignore, Chat, Pm, Join
  <2>6. ASSUME NEW t \in Threads,
               \/ Snapshot(t) \/ CastSend(t) \/ CastFails(t) \/ Save(t) \/ EndCast(t)
               \/ KickNotice(t) \/ Notify(t) \/ Order(t)
        PROVE  UNCHANGED sock
    BY <2>6 DEF Snapshot, CastSend, CastFails, Save, EndCast, KickNotice, Notify, Order,
                Kick, Block, Unblock, Say
  <2> QED
    BY <2>1, <2>2, <2>3, <2>4, <2>5, <2>6 DEF Next, Work, ConnWork, vars
<1>2. Spec => [][P]_vars
  BY <1>1, Inductive, PTL DEF Spec
<1> QED
  BY <1>2 DEF OwnerCloses

(* What a thread does to the descriptor of e, an entry it chose for m,     *)
(* happens to e, or to the heir of a descriptor that was free already when *)
(* it chose, or has been accepted since.                                   *)
LEMMA HeldAim ==
    ASSUME IInv, NEW t \in Threads, pc[t] \in Holding, NEW e \in cur[t].to,
           NEW c \in Holders(e)
    PROVE  Aim(cur[t], e, c)
<1>1. ForeseenBy(t) /\ HeldBy(t)
  BY DEF IInv, Foreseen, HeldEntries
<1>2. c \in Conns /\ Live(c) /\ fdOf[c] = fdOf[e]
  BY DEF Holders, Live
<1> QED
  BY <1>1, <1>2 DEF ForeseenBy, HeldBy, Aim

(* Under one lock the heir of a descriptor was there before: the entry is  *)
(* of a closed connection that waits for removeClient.                     *)
LEMMA LockedAim ==
    ASSUME IInv, NEW m \in Messages, NEW e \in clients, NEW c \in Holders(e)
    PROVE  Aim(Addressed(m, {e}), e, c)
<1>1. TypeOK /\ SocketLife /\ OneHolder /\ ListedIsServed
  BY DEF IInv
<1>2. e \in Conns /\ Serves(e)
  BY <1>1 DEF ListedIsServed, TypeOK
<1>3. c \in Conns /\ Live(c) /\ fdOf[c] = fdOf[e]
  BY DEF Holders, Live
<1>4. c # e => pc[e] = "removing"
  <2>1. c # e => ~Live(e)
    BY <1>1, <1>2, <1>3 DEF OneHolder
  <2>2. ~Live(e) => sock[e] = "closed"
    BY <1>1, <1>2 DEF Live, SocketLife, Serves, TypeOK
  <2> QED
    BY <1>1, <1>2, <2>1, <2>2 DEF SocketLife, Gone, Serves
<1>5. Addressed(m, {e}).gone = {x \in {e} : pc[x] = "removing"}
  BY <1>2, AddressedShape
<1> QED
  BY <1>3, <1>4, <1>5 DEF Aim

(* Chat, private messages and notices reach those they were addressed to,  *)
(* or the heir of a descriptor that was, or became, free in a window the   *)
(* code leaves open.                                                       *)
THEOREM AimedMessages == Spec => SentAsAimed
<1> DEFINE P(c, m) == \E e \in m.to : Aim(m, e, c)
           Q == \A c \in Conns : \A m \in inbox'[c] \ inbox[c] : P(c, m)
<1>1. IInv /\ [Next]_vars => [Q]_vars
  <2> SUFFICES ASSUME IInv, [Next]_vars, NEW c \in Conns, NEW m \in inbox'[c] \ inbox[c]
               PROVE  P(c, m)
    OBVIOUS
  <2>0. TypeOK /\ HeldEntries
    BY DEF IInv
  <2>a. ASSUME NEW e, NEW x, Deliver(e, x) PROVE m = x /\ c \in Holders(e)
    BY <2>0, <2>a DEF Deliver, TypeOK
  <2>1. ASSUME NEW t \in Threads, CastSend(t) PROVE P(c, m)
    <3> DEFINE e == First(todo[t])
    <3>1. todo[t] \subseteq Conns /\ todo[t] # {} /\ seat \in [Conns -> Nat]
      BY <2>0, <2>1 DEF CastSend, TypeOK
    <3>2. e \in todo[t]
      BY <3>1, FirstIsMember
    <3>3. pc[t] \in Holding /\ e \in cur[t].to /\ Deliver(e, cur[t])
      BY <2>0, <2>1, <3>2 DEF CastSend, HeldEntries, HeldBy, Holding
    <3> HIDE DEF e
    <3> QED
      BY <2>a, <3>3, HeldAim
  <2>2. ASSUME NEW d \in Conns, NEW u \in Users, Pm(d, u) PROVE P(c, m)
    <3> DEFINE e == First(Named(u))
               x == Message(d, "pm", AllRooms)
    <3>1. e \in clients /\ e \in Conns
      BY <2>0, <2>2, LookupTypes DEF Pm, Named, TypeOK
    <3>2. x \in Messages
      BY <2>0, MessageShape DEF Threads, Kinds
    <3>3. Deliver(e, Addressed(x, {e}))
      BY <2>2 DEF Pm
    <3> HIDE DEF e, x
    <3>4. Addressed(x, {e}).to = {e}
      BY <3>1, <3>2, AddressedShape
    <3> QED
      BY <2>a, <3>1, <3>2, <3>3, <3>4, LockedAim
  <2>3. ASSUME NEW t \in Threads, KickNotice(t) PROVE P(c, m)
    <3>1. PICK e \in cur[t].to : Deliver(e, cur[t])
      BY <2>3 DEF KickNotice
    <3>2. pc[t] \in Holding
      BY <2>3 DEF KickNotice, Holding
    <3> QED
      BY <2>a, <3>1, <3>2, HeldAim
  <2>4. ASSUME NEW t \in Threads, Notify(t) PROVE P(c, m)
    <3> DEFINE found == UNION {Named(u) : u \in subject[t]}
               e == First(found)
               x == Message(t, "notice", AllRooms)
    <3>1. found # {} /\ Deliver(e, Addressed(x, {e}))
      <4>1. inbox' # inbox
        OBVIOUS
      <4> QED
        BY <2>4, <4>1 DEF Notify
    <3>2. found \subseteq clients
      BY DEF Named
    <3>3. clients \subseteq Conns /\ seat \in [Conns -> Nat]
      BY <2>0 DEF TypeOK
    <3> HIDE DEF found
    <3>4. e \in clients /\ e \in Conns
      BY <3>1, <3>2, <3>3, FirstIsMember
    <3>5. x \in Messages
      BY <2>0, MessageShape DEF Kinds
    <3> HIDE DEF e, x
    <3>6. Addressed(x, {e}).to = {e}
      BY <3>4, <3>5, AddressedShape
    <3>7. m = Addressed(x, {e}) /\ c \in Holders(e)
      BY <2>a, <3>1
    <3>8. Aim(Addressed(x, {e}), e, c)
      BY <3>4, <3>5, <3>7, LockedAim
    <3> QED
      BY <3>6, <3>7, <3>8
  <2>5. ASSUME NEW d \in Conns,
               \/ \E f \in Fds : Accept(d, f)
               \/ HandshakeFails(d) \/ Register(d) \/ RecvFails(d)
               \/ ConnWork(d) \/ Ignore(d) \/ Chat(d) \/ \E r \in Rooms : Join(d, r)
        PROVE  inbox' = inbox
    BY <2>5 DEF Accept, HandshakeFails, Register, RecvFails, ConnWork, Replay,
      Switch, Close, Remove, Ignore, Chat, Join
  <2>6. ASSUME NEW t \in Threads,
               \/ Snapshot(t) \/ CastFails(t) \/ Reap(t) \/ Save(t) \/ EndCast(t)
               \/ KickShut(t) \/ Order(t)
        PROVE  inbox' = inbox
    BY <2>6 DEF Snapshot, CastFails, Reap, Save, EndCast, KickShut, Order, Kick,
      Block, Unblock, Say
  <2>7. CASE UNCHANGED vars
    BY <2>7 DEF vars
  <2>8. inbox' # inbox
    OBVIOUS
  <2> HIDE DEF P
  <2> QED
    BY <2>1, <2>2, <2>3, <2>4, <2>5, <2>6, <2>7, <2>8 DEF Next, Work, Frame
<1>2. Spec => [][Q]_vars
  BY <1>1, Inductive, PTL DEF Spec
<1> QED
  BY <1>2 DEF SentAsAimed

(* Kicks and failed broadcasts shut down who they mean, or one that has    *)
(* inherited its descriptor in a window the code leaves open.              *)
THEOREM Aimed == Spec => ShutAimed
<1> DEFINE P(c) == \E t \in Threads :
                      \/ pc[t] = "kickshut" /\ \E e \in cur[t].to : Aim(cur[t], e, c)
                      \/ pc[t] = "reap" /\ Aim(cur[t], First(todo[t]), c)
           Q == \A c \in Conns : sock[c] = "open" /\ sock'[c] = "shut" => P(c)
<1>1. IInv /\ [Next]_vars => [Q]_vars
  <2> SUFFICES ASSUME IInv, [Next]_vars,
                      NEW c \in Conns, sock[c] = "open", sock'[c] = "shut"
               PROVE  P(c)
    OBVIOUS
  <2>0. TypeOK /\ HeldEntries
    BY DEF IInv
  <2>a. ASSUME NEW e, Shutdown(e) PROVE c \in Holders(e)
    BY <2>0, <2>a DEF Shutdown, TypeOK
  <2>1. ASSUME NEW t \in Threads, KickShut(t) PROVE P(c)
    <3>1. PICK e \in cur[t].to : Shutdown(e)
      BY <2>1 DEF KickShut
    <3>2. pc[t] = "kickshut" /\ pc[t] \in Holding
      BY <2>1 DEF KickShut, Holding
    <3>3. Aim(cur[t], e, c)
      BY <2>a, <3>1, <3>2, HeldAim
    <3> QED
      BY <3>2, <3>3
  <2>2. ASSUME NEW t \in Threads, Reap(t) PROVE P(c)
    <3>1. todo[t] \subseteq Conns /\ todo[t] # {} /\ seat \in [Conns -> Nat]
      BY <2>0, <2>2 DEF Reap, TypeOK, HeldEntries, HeldBy
    <3>2. First(todo[t]) \in todo[t]
      BY <3>1, FirstIsMember
    <3>3. First(todo[t]) \in cur[t].to
      BY <2>0, <2>2, <3>2 DEF Reap, HeldEntries, HeldBy
    <3>4. Shutdown(First(todo[t])) /\ pc[t] = "reap" /\ pc[t] \in Holding
      BY <2>2 DEF Reap, Holding
    <3>5. Aim(cur[t], First(todo[t]), c)
      BY <2>a, <3>3, <3>4, HeldAim
    <3> QED
      BY <3>4, <3>5
  <2>3. ASSUME NEW d \in Conns, NEW f \in Fds, Accept(d, f) PROVE P(c)
    BY <2>0, <2>3 DEF Accept, TypeOK
  <2>4. ASSUME NEW d \in Conns, HandshakeFails(d) \/ Close(d) PROVE P(c)
    BY <2>0, <2>4 DEF HandshakeFails, Close, CloseFd, TypeOK
  <2>5. ASSUME NEW d \in Conns,
               \/ Register(d) \/ RecvFails(d) \/ Replay(d) \/ Switch(d) \/ Remove(d)
               \/ Frame(d)
        PROVE  P(c)
    BY <2>5 DEF Register, RecvFails, Replay, Switch, Remove, Frame, Ignore, Chat, Pm,
                Join, kernel
  <2>6. ASSUME NEW t \in Threads,
               \/ Snapshot(t) \/ CastSend(t) \/ CastFails(t) \/ Save(t) \/ EndCast(t)
               \/ KickNotice(t) \/ Notify(t) \/ Order(t)
        PROVE  P(c)
    BY <2>6 DEF Snapshot, CastSend, CastFails, Save, EndCast, KickNotice, Notify, Order,
                Kick, Block, Unblock, Say, kernel
  <2>7. CASE UNCHANGED vars
    BY <2>7 DEF vars, kernel
  <2> HIDE DEF P
  <2> QED
    BY <2>1, <2>2, <2>3, <2>4, <2>5, <2>6, <2>7 DEF Next, Work, ConnWork
<1>2. Spec => [][Q]_vars
  BY <1>1, Inductive, PTL DEF Spec
<1> QED
  BY <1>2 DEF ShutAimed

-----------------------------------------------------------------------------
(* The block list.                                                         *)

(* A connection that got a chat out since its user was blocked is not      *)
(* about to send another; the count starts at zero for each block.         *)
BlockInv ==
    \A c \in Conns :
        /\ late[c] =< 1
        /\ late[c] = 1 => ~(pc[c] = "snap" /\ cur[c].kind = "chat")
        /\ NameOf[c] \notin blocked => late[c] = 0

(* After a block each connection of the user gets at most one chat out.    *)
THEOREM BlockedSoon == Spec => []BlockLag
<1>1. Init => BlockInv
  BY BackendAssumption DEF Init, BlockInv, Idle
<1>2. IInv /\ BlockInv /\ [Next]_vars => BlockInv'
  <2> SUFFICES ASSUME IInv, BlockInv, [Next]_vars PROVE BlockInv'
    OBVIOUS
  <2>0. TypeOK /\ SocketLife
    BY DEF IInv
  <2> USE <2>0, BackendAssumption DEF TypeOK, BlockInv, Threads, Goto, Consume
  <2>1. ASSUME NEW t \in Threads, Snapshot(t) PROVE BlockInv'
    BY <2>1 DEF Snapshot
  <2>2. ASSUME NEW t \in Threads, NEW u \in Users, Block(t, u) PROVE BlockInv'
    BY <2>2 DEF Block, Recount
  <2>3. ASSUME NEW t \in Threads, NEW u \in Users, Unblock(t, u) PROVE BlockInv'
    BY <2>3 DEF Unblock, Recount
  <2>4. ASSUME NEW c \in Conns, Chat(c) PROVE BlockInv'
    BY <2>4 DEF Chat, Refused, Announce
  <2>5. ASSUME NEW c \in Conns, Register(c) PROVE BlockInv'
    BY <2>5 DEF Register, Announce, Message
  <2>6. ASSUME NEW c \in Conns, Switch(c) PROVE BlockInv'
    BY <2>6 DEF Switch, Announce, Message
  <2>7. ASSUME NEW c \in Conns, NEW r \in Rooms, Join(c, r) PROVE BlockInv'
    BY <2>7 DEF Join, Announce, Message
  <2>8. ASSUME NEW t \in Threads, NEW r \in Rooms \cup {AllRooms}, Say(t, r)
        PROVE  BlockInv'
    BY <2>8 DEF Say, Announce, Message
  <2>9. ASSUME NEW c \in Conns,
               \/ \E f \in Fds : Accept(c, f)
               \/ HandshakeFails(c) \/ Replay(c) \/ Ignore(c)
               \/ (\E u \in Users : Pm(c, u))
        PROVE  BlockInv'
    BY <2>9 DEF Accept, HandshakeFails, Replay, Ignore, Pm
  <2>10. ASSUME NEW c \in Conns, RecvFails(c) PROVE BlockInv'
    <3>1. UNCHANGED <<late, blocked>> /\ pc'[c] = "closing"
      BY <2>10 DEF RecvFails
    <3>2. \A d \in Conns \ {c} : pc'[d] = pc[d] /\ cur'[d] = cur[d]
      BY <2>10 DEF RecvFails
    <3> QED
      BY <3>1, <3>2
  <2>11. ASSUME NEW c \in Conns, Close(c) \/ Remove(c) PROVE BlockInv'
    BY <2>11 DEF Close, Remove, SocketLife
  <2>12. ASSUME NEW t \in Threads,
               CastSend(t) \/ CastFails(t) \/ Reap(t) \/ Save(t) \/ EndCast(t)
        PROVE  BlockInv'
    BY <2>12 DEF CastSend, CastFails, Reap, Save, AfterSave, Saved, EndCast
  <2>13. ASSUME NEW t \in Threads,
                \/ KickNotice(t) \/ KickShut(t) \/ Notify(t)
                \/ (\E u \in Users : Kick(t, u))
         PROVE  BlockInv'
    BY <2>13 DEF KickNotice, KickShut, Notify, Kick
  <2>14. CASE UNCHANGED vars
    BY <2>14 DEF vars, local
  <2> QED
    BY <2>1, <2>2, <2>3, <2>4, <2>5, <2>6, <2>7,
       <2>8, <2>9, <2>10, <2>11, <2>12, <2>13, <2>14
    DEF Next, Work, ConnWork, Frame, Order
<1>3. BlockInv => BlockLag
  BY DEF BlockInv, BlockLag
<1> QED
  BY <1>1, <1>2, <1>3, Inductive, PTL DEF Spec

-----------------------------------------------------------------------------
(* What a client in a room is told.                                        *)

Active == {c \in clients : sock[c] = "open"}

(* The thread announces a room, and has not replayed its history yet.      *)
Entering(t) ==
    \/ pc[t] = "replay"
    \/ pc[t] \in {"snap", "cast", "reap"} /\ cur[t].kind \in {"hello", "enter"}

Knows(c, m) == m \in inbox[c] \cup shown[c] \cup gap[c] \/ m.from = c

(* A thread sends its own messages, and only those of clients are saved.   *)
OwnInv == \A t \in Threads : cur[t].from = t /\ (cur[t].kind \in Saved => t \in Conns)

(* The room a client announces is the one its entry is in: no thread that  *)
(* has the same descriptor moves it.                                       *)
RoomInv == \A c \in Active : Entering(c) => cur[c].room = room[c]

(* A message on its way to a room gets to everyone in it.                  *)
Casting(t) == pc[t] \in {"cast", "reap"} /\ cur[t].kind \in Saved
FlightInv ==
    \A c \in Active, t \in Threads :
        Casting(t) /\ cur[t].room = room[c] => c \in todo[t] \/ Knows(c, cur[t])

(* Whoever is in a room, and not just entering, knows what was saved.      *)
HistoryInv == \A c \in Active : ~Entering(c) => \A m \in history[room[c]] : Knows(c, m)

GapInv == OwnInv /\ RoomInv /\ FlightInv /\ HistoryInv

(* Nothing is forgotten.                                                   *)
Remembers(c) == inbox[c] \subseteq inbox'[c] /\ shown[c] \subseteq shown'[c] /\ gap'[c] = gap[c]

LEMMA KnowsStays ==
    ASSUME NEW c, Remembers(c), NEW m, Knows(c, m)
    PROVE  Knows(c, m)'
BY DEF Remembers, Knows

(* A step of a thread that saves nothing and enters no room.               *)
LEMMA PlainStep ==
    ASSUME GapInv, NEW t \in Threads,
           Active' \subseteq Active,
           UNCHANGED <<room, history>>,
           \A c \in Conns : Remembers(c),
           clients \subseteq Conns,
           \A u \in Threads \ {t} : pc'[u] = pc[u] /\ cur'[u] = cur[u] /\ todo'[u] = todo[u],
           Entering(t)' <=> Entering(t),
           Entering(t) => cur'[t] = cur[t],
           cur'[t].from = t, cur'[t].kind \in Saved => t \in Conns,
           Casting(t)' => /\ Casting(t) /\ cur'[t] = cur[t]
                          /\ \A c \in todo[t] \ todo'[t] : c \in Active' => cur[t] \in inbox'[c]
    PROVE  GapInv'
<1>1. OwnInv'
  BY DEF GapInv, OwnInv
<1>2. \A c \in Active' : c \in Active /\ c \in Conns
  BY DEF Active
<1>3. RoomInv'
  <2>1. ASSUME NEW c \in Active', Entering(c)' PROVE cur'[c].room = room'[c]
    <3>1. CASE c = t
      BY <1>2, <2>1, <3>1 DEF GapInv, RoomInv
    <3>2. CASE c # t
      <4>1. c \in Active /\ c \in Threads
        BY <1>2 DEF Threads
      <4>2. pc'[c] = pc[c] /\ cur'[c] = cur[c]
        BY <3>2, <4>1
      <4>3. Entering(c)
        BY <2>1, <4>2 DEF Entering
      <4> QED
        BY <4>1, <4>2, <4>3 DEF GapInv, RoomInv
    <3> QED
      BY <3>1, <3>2
  <2> QED
    BY <2>1 DEF RoomInv
<1>4. FlightInv'
  <2>1. ASSUME NEW c \in Active', NEW u \in Threads, Casting(u)', cur'[u].room = room'[c]
        PROVE  c \in todo'[u] \/ Knows(c, cur[u])'
    <3>1. Casting(u) /\ cur'[u] = cur[u]
      <4>1. CASE u = t
        BY <2>1, <4>1
      <4>2. CASE u # t
        BY <2>1, <4>2 DEF Casting
      <4> QED
        BY <4>1, <4>2
    <3>2. c \in todo[u] \/ Knows(c, cur[u])
      BY <1>2, <2>1, <3>1 DEF GapInv, FlightInv
    <3>3. CASE Knows(c, cur[u])
      <4>1. Knows(c, cur[u])'
        BY <1>2, <3>1, <3>3 DEF Remembers, Knows
      <4> QED
        BY <4>1
    <3>4. CASE c \in todo[u] /\ c \notin todo'[u]
      <4>1. u = t
        BY <3>4
      <4>2. cur[t] \in inbox'[c]
        BY <2>1, <3>4, <4>1
      <4> QED
        BY <3>1, <4>1, <4>2 DEF Knows
    <3> QED
      BY <3>2, <3>3, <3>4
  <2> QED
    BY <2>1 DEF FlightInv
<1>5. HistoryInv'
  <2>1. ASSUME NEW c \in Active', ~Entering(c)', NEW m \in history'[room'[c]]
        PROVE  Knows(c, m)'
    <3>1. ~Entering(c)
      <4>1. CASE c = t
        BY <2>1, <4>1
      <4>2. CASE c # t
        <5>1. c \in Threads
          BY <1>2 DEF Threads
        <5> QED
          BY <2>1, <4>2, <5>1 DEF Entering
      <4> QED
        BY <4>1, <4>2
    <3>2. Knows(c, m)
      BY <1>2, <2>1, <3>1 DEF GapInv, HistoryInv
    <3> QED
      BY <1>2, <3>2 DEF Remembers, Knows
  <2> QED
    BY <2>1 DEF HistoryInv
<1> QED
  BY <1>1, <1>3, <1>4, <1>5 DEF GapInv

(* A step of a thread that neither sends to a room nor enters one.         *)
Quiet(t) ==
    /\ \A u \in Threads \ {t} : pc'[u] = pc[u] /\ cur'[u] = cur[u]
    /\ pc[t] \notin {"snap", "cast", "reap", "replay"}
    /\ pc'[t] \notin {"cast", "reap", "replay"}
    /\ pc'[t] = "snap" => cur'[t].kind \notin {"hello", "enter"}
    /\ cur'[t].from = t /\ (cur'[t].kind \in Saved => t \in Conns)

LEMMA QuietStep ==
    ASSUME TypeOK, GapInv, NEW t \in Threads, Quiet(t),
           Active' \subseteq Active,
           room' = room, history' = history, todo' = todo,
           \A c \in Conns : Remembers(c)
    PROVE  GapInv'
<1>1. clients \subseteq Conns
  BY DEF TypeOK
<1>2. ~Entering(t) /\ ~Entering(t)' /\ ~Casting(t)'
  BY DEF Entering, Casting, Quiet
<1>3. \A u \in Threads \ {t} : pc'[u] = pc[u] /\ cur'[u] = cur[u] /\ todo'[u] = todo[u]
  BY DEF Quiet
<1>4. cur'[t].from = t /\ (cur'[t].kind \in Saved => t \in Conns)
  BY DEF Quiet
<1> QED
  BY <1>1, <1>2, <1>3, <1>4, PlainStep

(* It is one when the message of the thread stays what it is.              *)
LEMMA QuietMoves ==
    ASSUME TypeOK, OwnInv, NEW t \in Threads, NEW p, pc' = [pc EXCEPT ![t] = p],
           cur' = cur,
           pc[t] \notin {"snap", "cast", "reap", "replay"},
           p \notin {"cast", "reap", "replay"},
           p = "snap" => cur[t].kind \notin {"hello", "enter"}
    PROVE  Quiet(t)
BY DEF TypeOK, OwnInv, Quiet

(* What was delivered stays delivered.                                     *)
LEMMA MailKept ==
    ASSUME TypeOK, NEW e, NEW m, Deliver(e, m), UNCHANGED <<shown, gap>>
    PROVE  \A c \in Conns : Remembers(c)
BY DEF TypeOK, Deliver, Remembers

LEMMA MailSame ==
    ASSUME UNCHANGED <<inbox, shown, gap>>
    PROVE  \A c \in Conns : Remembers(c)
BY DEF Remembers

(* No socket opens again, and no entry comes by itself.                    *)
LEMMA NoneNew ==
    ASSUME clients' \subseteq clients,
           \A c \in clients : sock'[c] = "open" => sock[c] = "open"
    PROVE  Active' \subseteq Active
BY DEF Active

LEMMA SocketsOnlyShut ==
    ASSUME NEW e, clients \subseteq Conns, clients' \subseteq clients,
           CloseFd(e) \/ Shutdown(e)
    PROVE  Active' \subseteq Active
BY DEF Active, CloseFd, Shutdown

LEMMA ConnQuiet ==
    ASSUME IInv, GapInv, NEW c \in Conns,
           \/ \E f \in Fds : Accept(c, f)
           \/ HandshakeFails(c) \/ RecvFails(c) \/ Close(c) \/ Remove(c)
           \/ Frame(c)
    PROVE  GapInv'
<1>1. TypeOK /\ SocketLife /\ ListedIsServed /\ clients \subseteq Conns /\ c \in Threads
  BY DEF IInv, TypeOK, Threads
<1>2. OwnInv
  BY DEF GapInv
<1>3. ASSUME NEW f \in Fds, Accept(c, f) PROVE GapInv'
  <2>1. c \notin clients
    BY <1>1, <1>3 DEF ListedIsServed, Serves, Accept
  <2>2. Active' \subseteq Active
    BY <1>1, <1>3, <2>1 DEF Accept, roster, TypeOK, Active
  <2>3. pc[c] = "none" /\ pc' = [pc EXCEPT ![c] = "accepted"]
    BY <1>3 DEF Accept, Goto
  <2>4. UNCHANGED <<room, history, todo, cur, inbox, shown, gap>>
    BY <1>3 DEF Accept, roster
  <2>5. \A d \in Conns : Remembers(d)
    BY <2>4, MailSame
  <2>6. Quiet(c)
    BY <1>1, <1>2, <2>3, <2>4, QuietMoves
  <2> QED
    BY <1>1, <2>2, <2>4, <2>6, <2>5, QuietStep
<1>4. CASE HandshakeFails(c)
  <2>1. CloseFd(c) /\ clients' = clients
    BY <1>4 DEF HandshakeFails, roster
  <2>2. Active' \subseteq Active
    BY <1>1, <2>1, SocketsOnlyShut
  <2>3. pc[c] = "accepted" /\ pc' = [pc EXCEPT ![c] = "done"]
    BY <1>4 DEF HandshakeFails, Goto
  <2>4. UNCHANGED <<room, history, todo, cur, inbox, shown, gap>>
    BY <1>4 DEF HandshakeFails, roster
  <2>5. \A d \in Conns : Remembers(d)
    BY <2>4, MailSame
  <2>6. Quiet(c)
    BY <1>1, <1>2, <2>3, <2>4, QuietMoves
  <2> QED
    BY <1>1, <2>2, <2>4, <2>6, <2>5, QuietStep
<1>5. CASE RecvFails(c)
  <2> DEFINE m == Message(c, "bye", RoomOf(c))
  <2>1. cur' = [cur EXCEPT ![c] = m] /\ m.from = c /\ m.kind = "bye"
    BY <1>5 DEF RecvFails, Message
  <2>2. UNCHANGED <<clients, sock>>
    BY <1>5 DEF RecvFails, roster, kernel
  <2>3. pc[c] = "recv" /\ pc' = [pc EXCEPT ![c] = "closing"]
    BY <1>5 DEF RecvFails, Goto
  <2>4. UNCHANGED <<room, history, todo, inbox, shown, gap>>
    BY <1>5 DEF RecvFails, roster
  <2>5. Active' \subseteq Active
    BY <2>2, NoneNew
  <2> HIDE DEF m
  <2>6. \A d \in Conns : Remembers(d)
    BY <2>4, MailSame
  <2>7. cur'[c] = m /\ \A u \in Threads \ {c} : cur'[u] = cur[u]
    BY <1>1, <2>1 DEF TypeOK
  <2>8. pc'[c] = "closing" /\ \A u \in Threads \ {c} : pc'[u] = pc[u]
    BY <1>1, <2>3 DEF TypeOK
  <2>9. Quiet(c)
    BY <2>1, <2>3, <2>7, <2>8 DEF Quiet
  <2> QED
    BY <1>1, <2>5, <2>4, <2>9, <2>6, QuietStep
<1>6. CASE Close(c)
  <2>1. CloseFd(c) /\ clients' = clients
    BY <1>6 DEF Close, roster
  <2>2. Active' \subseteq Active
    BY <1>1, <2>1, SocketsOnlyShut
  <2>3. pc[c] = "closing" /\ pc' = [pc EXCEPT ![c] = "removing"]
    BY <1>6 DEF Close, Goto
  <2>4. UNCHANGED <<room, history, todo, cur, inbox, shown, gap>>
    BY <1>6 DEF Close, roster
  <2>5. \A d \in Conns : Remembers(d)
    BY <2>4, MailSame
  <2>6. Quiet(c)
    BY <1>1, <1>2, <2>3, <2>4, QuietMoves
  <2> QED
    BY <1>1, <2>2, <2>4, <2>6, <2>5, QuietStep
<1>7. CASE Remove(c)
  <2>1. clients' \subseteq clients /\ sock' = sock
    BY <1>7 DEF Remove, kernel
  <2>2. Active' \subseteq Active
    BY <2>1, NoneNew
  <2>3. pc[c] = "removing" /\ pc' = [pc EXCEPT ![c] = "snap"] /\ cur[c].kind = "bye"
    BY <1>1, <1>7 DEF Remove, Goto, SocketLife
  <2>4. UNCHANGED <<room, history, todo, cur, inbox, shown, gap>>
    BY <1>7 DEF Remove
  <2>5. \A d \in Conns : Remembers(d)
    BY <2>4, MailSame
  <2>6. Quiet(c)
    BY <1>1, <1>2, <2>3, <2>4, QuietMoves
  <2> QED
    BY <1>1, <2>2, <2>4, <2>6, <2>5, QuietStep
<1>8. CASE Ignore(c)
  <2>1. UNCHANGED <<clients, sock>>
    BY <1>8 DEF Ignore, roster, kernel
  <2>2. Active' \subseteq Active
    BY <2>1, NoneNew
  <2>3. pc[c] = "recv" /\ pc' = [pc EXCEPT ![c] = "recv"]
    BY <1>1, <1>8 DEF Ignore, Ready, TypeOK
  <2>4. UNCHANGED <<room, history, todo, cur, inbox, shown, gap>>
    BY <1>8 DEF Ignore, roster
  <2>5. \A d \in Conns : Remembers(d)
    BY <2>4, MailSame
  <2>6. Quiet(c)
    BY <1>1, <1>2, <2>3, <2>4, QuietMoves
  <2> QED
    BY <1>1, <2>2, <2>4, <2>6, <2>5, QuietStep
<1>9. CASE Chat(c)
  <2> DEFINE m == Message(c, "chat", RoomOf(c))
  <2>1. cur' = [cur EXCEPT ![c] = m] /\ m.from = c /\ m.kind = "chat"
    BY <1>9 DEF Chat, Announce, Message
  <2>2. UNCHANGED <<clients, sock>>
    BY <1>9 DEF Chat, roster, kernel
  <2>3. pc[c] = "recv" /\ pc' = [pc EXCEPT ![c] = "snap"]
    BY <1>9 DEF Chat, Announce, Ready, Goto
  <2>4. UNCHANGED <<room, history, todo, inbox, shown, gap>>
    BY <1>9 DEF Chat, roster
  <2>5. Active' \subseteq Active
    BY <2>2, NoneNew
  <2> HIDE DEF m
  <2>6. \A d \in Conns : Remembers(d)
    BY <2>4, MailSame
  <2>7. cur'[c] = m /\ \A u \in Threads \ {c} : cur'[u] = cur[u]
    BY <1>1, <2>1 DEF TypeOK
  <2>8. pc'[c] = "snap" /\ \A u \in Threads \ {c} : pc'[u] = pc[u]
    BY <1>1, <2>3 DEF TypeOK
  <2>9. Quiet(c)
    BY <2>1, <2>3, <2>7, <2>8 DEF Quiet
  <2> QED
    BY <1>1, <2>5, <2>4, <2>9, <2>6, QuietStep
<1>10. ASSUME NEW r \in Rooms, Join(c, r) PROVE GapInv'
  <2> DEFINE m == Message(c, "leave", OldRoom(c))
  <2>1. cur' = [cur EXCEPT ![c] = m] /\ m.from = c /\ m.kind = "leave"
    BY <1>10 DEF Join, Announce, Message
  <2>2. UNCHANGED <<clients, sock>>
    BY <1>10 DEF Join, roster, kernel
  <2>3. pc[c] = "recv" /\ pc' = [pc EXCEPT ![c] = "snap"]
    BY <1>10 DEF Join, Announce, Ready, Goto
  <2>4. UNCHANGED <<room, history, todo, inbox, shown, gap>>
    BY <1>10 DEF Join, roster
  <2>5. Active' \subseteq Active
    BY <2>2, NoneNew
  <2> HIDE DEF m
  <2>6. \A d \in Conns : Remembers(d)
    BY <2>4, MailSame
  <2>7. cur'[c] = m /\ \A u \in Threads \ {c} : cur'[u] = cur[u]
    BY <1>1, <2>1 DEF TypeOK
  <2>8. pc'[c] = "snap" /\ \A u \in Threads \ {c} : pc'[u] = pc[u]
    BY <1>1, <2>3 DEF TypeOK
  <2>9. Quiet(c)
    BY <2>1, <2>3, <2>7, <2>8 DEF Quiet
  <2> QED
    BY <1>1, <2>5, <2>4, <2>9, <2>6, QuietStep
<1>11. ASSUME NEW u \in Users, Pm(c, u) PROVE GapInv'
  <2>1. UNCHANGED <<clients, sock, shown, gap>> /\ \E e, m : Deliver(e, m)
    BY <1>11 DEF Pm, roster, kernel
  <2>2. Active' \subseteq Active /\ \A d \in Conns : Remembers(d)
    BY <1>1, <2>1, NoneNew, MailKept
  <2>3. pc[c] = "recv" /\ pc' = [pc EXCEPT ![c] = "recv"]
    BY <1>1, <1>11 DEF Pm, Ready, TypeOK
  <2>4. UNCHANGED <<room, history, todo, cur>>
    BY <1>11 DEF Pm, roster
  <2>5. Quiet(c)
    BY <1>1, <1>2, <2>3, <2>4, QuietMoves
  <2> QED
    BY <1>1, <2>2, <2>4, <2>5, QuietStep
<1> QED
  BY <1>3, <1>4, <1>5, <1>6, <1>7, <1>8, <1>9, <1>10, <1>11 DEF Frame

LEMMA OrderQuiet ==
    ASSUME IInv, GapInv, NEW t \in Threads,
           Order(t) \/ KickNotice(t) \/ KickShut(t) \/ Notify(t)
    PROVE  GapInv'
<1>1. TypeOK /\ clients \subseteq Conns
  BY DEF IInv, TypeOK
<1>2. OwnInv
  BY DEF GapInv
<1>3. ASSUME NEW u \in Users, Kick(t, u) PROVE GapInv'
  <2> DEFINE m == Addressed(Message(t, "kicked", AllRooms), {First(Named(u))})
  <2>1. cur' = [cur EXCEPT ![t] = m] /\ m.from = t /\ m.kind = "kicked"
    <3>1. cur' = [cur EXCEPT ![t] = m]
      BY <1>3 DEF Kick
    <3>2. {First(Named(u))} \in SUBSET Conns
      BY <1>1, <1>3, LookupTypes DEF Kick, Named
    <3>3. /\ Message(t, "kicked", AllRooms) \in Messages
          /\ Message(t, "kicked", AllRooms).from = t
          /\ Message(t, "kicked", AllRooms).kind = "kicked"
      BY <1>1, MessageShape DEF Kinds
    <3>4. m.from = t /\ m.kind = "kicked"
      BY <3>2, <3>3, AddressedShape
    <3> QED
      BY <3>1, <3>4
  <2>2. UNCHANGED <<clients, sock>>
    BY <1>3 DEF Kick, roster, kernel
  <2>3. pc[t] = "recv" /\ pc' = [pc EXCEPT ![t] = "kick"]
    BY <1>3 DEF Kick, MayOrder, Ready, Goto
  <2>4. UNCHANGED <<room, history, todo, inbox, shown, gap>>
    BY <1>3 DEF Kick, roster
  <2>5. Active' \subseteq Active
    BY <2>2, NoneNew
  <2> HIDE DEF m
  <2>6. cur'[t] = m /\ \A v \in Threads \ {t} : cur'[v] = cur[v]
    BY <1>1, <2>1 DEF TypeOK
  <2>7. pc'[t] = "kick" /\ \A v \in Threads \ {t} : pc'[v] = pc[v]
    BY <1>1, <2>3 DEF TypeOK
  <2>8. Quiet(t)
    BY <2>1, <2>3, <2>6, <2>7 DEF Quiet, Saved
  <2>9. \A d \in Conns : Remembers(d)
    BY <2>4, MailSame
  <2> QED
    BY <1>1, <2>5, <2>4, <2>8, <2>9, QuietStep
<1>4. CASE KickNotice(t)
  <2>1. UNCHANGED <<clients, sock, shown, gap>> /\ \E e, m : Deliver(e, m)
    BY <1>4 DEF KickNotice, roster, kernel
  <2>2. Active' \subseteq Active /\ \A d \in Conns : Remembers(d)
    BY <1>1, <2>1, NoneNew, MailKept
  <2>3. pc[t] = "kick" /\ pc' = [pc EXCEPT ![t] = "kickshut"]
    BY <1>4 DEF KickNotice, Goto
  <2>4. UNCHANGED <<room, history, todo, cur>>
    BY <1>4 DEF KickNotice, roster
  <2>5. Quiet(t)
    BY <1>1, <1>2, <2>3, <2>4, QuietMoves
  <2> QED
    BY <1>1, <2>2, <2>4, <2>5, QuietStep
<1>5. CASE KickShut(t)
  <2>1. cur' = [cur EXCEPT ![t] = Idle(t)] /\ Idle(t).from = t /\ Idle(t).kind = "none"
    BY <1>5 DEF KickShut, Idle
  <2>2. clients' = clients /\ \E e : Shutdown(e)
    BY <1>5 DEF KickShut, roster
  <2>3. pc[t] = "kickshut" /\ pc' = [pc EXCEPT ![t] = "recv"]
    BY <1>5 DEF KickShut, Goto
  <2>4. UNCHANGED <<room, history, todo, inbox, shown, gap>>
    BY <1>5 DEF KickShut, roster
  <2>5. Active' \subseteq Active
    BY <1>1, <2>2, SocketsOnlyShut
  <2>6. cur'[t] = Idle(t) /\ \A v \in Threads \ {t} : cur'[v] = cur[v]
    BY <1>1, <2>1 DEF TypeOK
  <2>7. pc'[t] = "recv" /\ \A v \in Threads \ {t} : pc'[v] = pc[v]
    BY <1>1, <2>3 DEF TypeOK
  <2>8. Quiet(t)
    BY <2>1, <2>3, <2>6, <2>7 DEF Quiet, Saved
  <2>9. \A d \in Conns : Remembers(d)
    BY <2>4, MailSame
  <2> QED
    BY <1>1, <2>5, <2>4, <2>8, <2>9, QuietStep
<1>6. ASSUME NEW u \in Users, Block(t, u) \/ Unblock(t, u) PROVE GapInv'
  <2>1. UNCHANGED <<clients, sock>>
    BY <1>6 DEF Block, Unblock, roster, kernel
  <2>2. Active' \subseteq Active
    BY <2>1, NoneNew
  <2>3. pc[t] = "recv" /\ pc' = [pc EXCEPT ![t] = "notify"]
    BY <1>6 DEF Block, Unblock, MayOrder, Ready, Goto
  <2>4. UNCHANGED <<room, history, todo, cur, inbox, shown, gap>>
    BY <1>6 DEF Block, Unblock, roster
  <2>5. Quiet(t)
    BY <1>1, <1>2, <2>3, <2>4, QuietMoves
  <2>6. \A d \in Conns : Remembers(d)
    BY <2>4, MailSame
  <2> QED
    BY <1>1, <2>2, <2>4, <2>5, <2>6, QuietStep
<1>7. CASE Notify(t)
  <2>1. /\ UNCHANGED <<clients, sock, shown, gap>>
        /\ inbox' = inbox \/ \E e, m : Deliver(e, m)
    BY <1>7 DEF Notify, roster, kernel
  <2>2. Active' \subseteq Active
    BY <2>1, NoneNew
  <2>3. \A d \in Conns : Remembers(d)
    <3>1. CASE inbox' = inbox
      BY <2>1, <3>1, MailSame
    <3>2. CASE \E e, m : Deliver(e, m)
      BY <1>1, <2>1, <3>2, MailKept
    <3> QED
      BY <2>1, <3>1, <3>2
  <2>4. pc[t] = "notify" /\ pc' = [pc EXCEPT ![t] = "recv"]
    BY <1>7 DEF Notify, Goto
  <2>5. UNCHANGED <<room, history, todo, cur>>
    BY <1>7 DEF Notify, roster
  <2>6. Quiet(t)
    BY <1>1, <1>2, <2>4, <2>5, QuietMoves
  <2> QED
    BY <1>1, <2>2, <2>5, <2>3, <2>6, QuietStep
<1>8. ASSUME NEW r \in Rooms \cup {AllRooms}, Say(t, r) PROVE GapInv'
  <2> DEFINE m == Message(t, "say", r)
  <2>1. cur' = [cur EXCEPT ![t] = m] /\ m.from = t /\ m.kind = "say"
    BY <1>8 DEF Say, Announce, Message
  <2>2. UNCHANGED <<clients, sock>>
    BY <1>8 DEF Say, roster, kernel
  <2>3. pc[t] = "recv" /\ pc' = [pc EXCEPT ![t] = "snap"]
    BY <1>8 DEF Say, MayOrder, Ready, Announce, Goto
  <2>4. UNCHANGED <<room, history, todo, inbox, shown, gap>>
    BY <1>8 DEF Say, roster
  <2>5. Active' \subseteq Active
    BY <2>2, NoneNew
  <2> HIDE DEF m
  <2>6. cur'[t] = m /\ \A v \in Threads \ {t} : cur'[v] = cur[v]
    BY <1>1, <2>1 DEF TypeOK
  <2>7. pc'[t] = "snap" /\ \A v \in Threads \ {t} : pc'[v] = pc[v]
    BY <1>1, <2>3 DEF TypeOK
  <2>8. Quiet(t)
    BY <2>1, <2>3, <2>6, <2>7 DEF Quiet, Saved
  <2>9. \A d \in Conns : Remembers(d)
    BY <2>4, MailSame
  <2> QED
    BY <1>1, <2>5, <2>4, <2>8, <2>9, QuietStep
<1> QED
  BY <1>3, <1>4, <1>5, <1>6, <1>7, <1>8 DEF Order

(* A thread that sends a message to a room, up to the point of saving it.  *)
LEMMA CastStep ==
    ASSUME IInv, GapInv, NEW t \in Threads,
           CastSend(t) \/ CastFails(t) \/ Reap(t) \/ EndCast(t)
    PROVE  GapInv'
<1>1. /\ TypeOK /\ clients \subseteq Conns
      /\ seat \in [Conns -> Nat] /\ todo[t] \subseteq Conns
      /\ pc \in [Threads -> PCs] /\ todo \in [Threads -> SUBSET Conns]
  BY DEF IInv, TypeOK
<1>2. cur[t].from = t /\ (cur[t].kind \in Saved => t \in Conns)
  BY DEF GapInv, OwnInv
<1>3. CASE CastSend(t)
  <2> DEFINE e == First(todo[t])
  <2>1. e \in todo[t] /\ e \in Conns
    BY <1>1, <1>3, FirstIsMember DEF CastSend
  <2>2. /\ UNCHANGED <<clients, sock, room, history, pc, cur, shown, gap>>
        /\ Deliver(e, cur[t]) /\ pc[t] = "cast"
        /\ todo' = [todo EXCEPT ![t] = @ \ {e}]
    BY <1>3 DEF CastSend, roster, kernel
  <2> HIDE DEF e
  <2>3. Active' \subseteq Active /\ \A d \in Conns : Remembers(d)
    BY <1>1, <2>2, NoneNew, MailKept
  <2>4. todo'[t] = todo[t] \ {e} /\ \A u \in Threads \ {t} : todo'[u] = todo[u]
    BY <1>1, <2>2
  <2>5. ASSUME NEW c \in todo[t] \ todo'[t], c \in Active' PROVE cur[t] \in inbox'[c]
    <3>1. c = e /\ sock[c] = "open" /\ c \in Conns
      BY <2>1, <2>2, <2>4, <2>5 DEF Active
    <3>2. c \in Holders(e)
      BY <3>1 DEF Holders
    <3> QED
      BY <2>2, <3>1, <3>2 DEF Deliver
  <2>6. Entering(t)' <=> Entering(t)
    BY <2>2 DEF Entering
  <2>7. Casting(t)' => Casting(t)
    BY <2>2 DEF Casting
  <2>8. room' = room /\ history' = history /\ cur' = cur /\ pc' = pc
    BY <2>2
  <2> QED
    BY <1>1, <1>2, <2>3, <2>4, <2>5, <2>6, <2>7, <2>8, PlainStep
<1>4. CASE CastFails(t)
  <2>1. /\ UNCHANGED <<clients, sock, room, history, todo, cur, inbox, shown, gap>>
        /\ pc[t] = "cast" /\ pc' = [pc EXCEPT ![t] = "reap"]
    BY <1>4 DEF CastFails, roster, kernel, Goto
  <2>2. Active' \subseteq Active /\ \A d \in Conns : Remembers(d)
    BY <2>1, NoneNew, MailSame
  <2>3. pc'[t] = "reap" /\ \A u \in Threads \ {t} : pc'[u] = pc[u]
    BY <1>1, <2>1
  <2>4. Entering(t)' <=> Entering(t)
    BY <2>1, <2>3 DEF Entering
  <2>5. Casting(t)' => Casting(t)
    BY <2>1 DEF Casting
  <2>6. room' = room /\ history' = history /\ cur' = cur /\ todo' = todo
    BY <2>1
  <2> QED
    BY <1>1, <1>2, <2>2, <2>3, <2>4, <2>5, <2>6, PlainStep
<1>5. CASE Reap(t)
  <2> DEFINE e == First(todo[t])
  <2>1. e \in todo[t] /\ e \in Conns
    BY <1>1, <1>5, FirstIsMember DEF Reap, IInv, HeldEntries, HeldBy
  <2>2. /\ UNCHANGED <<clients, room, history, cur, inbox, shown, gap>>
        /\ Shutdown(e) /\ pc[t] = "reap" /\ pc' = [pc EXCEPT ![t] = "cast"]
        /\ todo' = [todo EXCEPT ![t] = @ \ {e}]
    BY <1>5 DEF Reap, roster, Goto
  <2> HIDE DEF e
  <2>3. Active' \subseteq Active /\ \A d \in Conns : Remembers(d)
    BY <1>1, <2>2, SocketsOnlyShut, MailSame
  <2>4. /\ todo'[t] = todo[t] \ {e} /\ pc'[t] = "cast"
        /\ \A u \in Threads \ {t} : todo'[u] = todo[u] /\ pc'[u] = pc[u]
    BY <1>1, <2>2
  <2>5. ASSUME NEW c \in todo[t] \ todo'[t], c \in Active' PROVE cur[t] \in inbox'[c]
    <3>1. c = e /\ sock'[c] = "open" /\ c \in Conns
      BY <2>1, <2>2, <2>4, <2>5 DEF Active
    <3>2. sock[c] = "open" /\ c \notin Holders(e)
      BY <2>2, <3>1 DEF Shutdown
    <3> QED
      BY <3>1, <3>2 DEF Holders
  <2>6. Entering(t)' <=> Entering(t)
    BY <2>2, <2>4 DEF Entering
  <2>7. Casting(t)' => Casting(t)
    BY <2>2 DEF Casting
  <2>8. room' = room /\ history' = history /\ cur' = cur
    BY <2>2
  <2> QED
    BY <1>1, <1>2, <2>3, <2>4, <2>5, <2>6, <2>7, <2>8, PlainStep
<1>6. CASE EndCast(t)
  <2>1. /\ UNCHANGED <<clients, sock, room, history, todo, inbox, shown, gap>>
        /\ pc[t] = "cast" /\ pc' = [pc EXCEPT ![t] = "recv"]
        /\ cur[t].kind \notin Saved /\ cur' = [cur EXCEPT ![t] = Idle(t)]
    BY <1>6 DEF EndCast, roster, kernel, Goto
  <2>2. Active' \subseteq Active /\ \A d \in Conns : Remembers(d)
    BY <2>1, NoneNew, MailSame
  <2>3. pc'[t] = "recv" /\ \A u \in Threads \ {t} : pc'[u] = pc[u]
    BY <1>1, <2>1
  <2>4. cur'[t] = Idle(t) /\ \A u \in Threads \ {t} : cur'[u] = cur[u]
    BY <1>1, <2>1 DEF TypeOK
  <2>5. ~Entering(t)' /\ ~Entering(t)
    BY <2>1, <2>3 DEF Entering, Saved
  <2>6. ~Casting(t)'
    BY <2>3 DEF Casting
  <2>7. room' = room /\ history' = history /\ todo' = todo
    BY <2>1
  <2>8. cur'[t].from = t /\ cur'[t].kind \notin Saved
    BY <2>4 DEF Idle, Saved
  <2> QED
    BY <1>1, <2>2, <2>3, <2>4, <2>5, <2>6, <2>7, <2>8, PlainStep
<1> QED
  BY <1>3, <1>4, <1>5, <1>6

(* A client that enters room r: what is on its way there is in its gap.    *)
LEMMA EnterStep ==
    ASSUME TypeOK, GapInv, NEW c \in Conns, NEW r,
           \A d \in Active' \ {c} : d \in Active /\ room'[d] = room[d],
           c \in Active' => room'[c] = r,
           UNCHANGED <<history, todo, inbox, shown>>,
           gap' = [gap EXCEPT ![c] = InFlight(r)],
           pc'[c] = "snap", cur'[c].kind \in {"hello", "enter"},
           cur'[c].from = c, cur'[c].room = r,
           \A u \in Threads \ {c} : pc'[u] = pc[u] /\ cur'[u] = cur[u]
    PROVE  GapInv'
<1>1. /\ c \in Threads /\ clients \subseteq Conns /\ Conns \subseteq Threads
      /\ gap'[c] = InFlight(r) /\ \A d \in Conns \ {c} : gap'[d] = gap[d]
  BY DEF TypeOK, Threads
<1>2. \A d \in Active' \ {c} : Remembers(d) /\ d \in Conns /\ d \in Threads
  BY <1>1 DEF Remembers, Active
<1>3. Entering(c)' /\ ~Casting(c)'
  BY DEF Entering, Casting
<1>4. OwnInv'
  BY <1>1 DEF GapInv, OwnInv
<1>5. \A d \in Active' \ {c} : Entering(d)' <=> Entering(d)
  BY <1>2 DEF Entering
<1>6. RoomInv'
  <2>1. ASSUME NEW d \in Active', Entering(d)' PROVE cur'[d].room = room'[d]
    <3>1. CASE d = c
      BY <2>1, <3>1
    <3>2. CASE d # c
      BY <1>2, <1>5, <2>1, <3>2 DEF GapInv, RoomInv
    <3> QED
      BY <3>1, <3>2
  <2> QED
    BY <2>1 DEF RoomInv
<1>7. FlightInv'
  <2>1. ASSUME NEW d \in Active', NEW u \in Threads, Casting(u)', cur'[u].room = room'[d]
        PROVE  d \in todo'[u] \/ Knows(d, cur[u])'
    <3>1. u # c /\ Casting(u) /\ cur'[u] = cur[u] /\ todo'[u] = todo[u]
      BY <1>3, <2>1 DEF Casting
    <3>2. CASE d = c
      <4>1. cur[u] \in InFlight(r)
        BY <2>1, <3>1, <3>2 DEF InFlight, Casting
      <4> QED
        BY <1>1, <3>1, <3>2, <4>1 DEF Knows
    <3>3. CASE d # c
      <4>1. d \in todo[u] \/ Knows(d, cur[u])
        BY <2>1, <3>1, <3>3 DEF GapInv, FlightInv
      <4>2. Remembers(d)
        BY <1>2, <3>3
      <4> QED
        BY <3>1, <4>1, <4>2 DEF Remembers, Knows
    <3> QED
      BY <3>2, <3>3
  <2> QED
    BY <2>1 DEF FlightInv
<1>8. HistoryInv'
  <2>1. ASSUME NEW d \in Active', ~Entering(d)', NEW m \in history'[room'[d]]
        PROVE  Knows(d, m)'
    <3>1. d # c
      BY <1>3, <2>1
    <3>2. Knows(d, m)
      BY <1>5, <2>1, <3>1 DEF GapInv, HistoryInv
    <3>3. Remembers(d)
      BY <1>2, <3>1
    <3> QED
      BY <3>2, <3>3 DEF Remembers, Knows
  <2> QED
    BY <2>1 DEF HistoryInv
<1> QED
  BY <1>4, <1>6, <1>7, <1>8 DEF GapInv

LEMMA RegisterGap ==
    ASSUME IInv, GapInv, NEW c \in Conns, Register(c)
    PROVE  GapInv'
<1> DEFINE m == Message(c, "hello", General)
<1>1. /\ TypeOK /\ clients \subseteq Conns /\ room \in [Conns -> Rooms]
      /\ c \in Threads /\ pc \in [Threads -> PCs] /\ DOMAIN cur = Threads
  BY DEF IInv, TypeOK, Threads
<1>2. /\ clients' = clients \cup {c} /\ sock' = sock
      /\ room' = [room EXCEPT ![c] = General]
      /\ UNCHANGED <<history, todo, inbox, shown>>
      /\ gap' = [gap EXCEPT ![c] = InFlight(General)]
      /\ pc' = [pc EXCEPT ![c] = "snap"] /\ cur' = [cur EXCEPT ![c] = m]
  BY DEF Register, kernel, StartRoom, Announce, Goto
<1>3. m.kind = "hello" /\ m.from = c /\ m.room = General
  BY DEF Message
<1> HIDE DEF m
<1>4. /\ pc'[c] = "snap" /\ cur'[c].kind \in {"hello", "enter"}
      /\ cur'[c].from = c /\ cur'[c].room = General
  BY <1>1, <1>2, <1>3 DEF TypeOK
<1>5. \A u \in Threads \ {c} : pc'[u] = pc[u] /\ cur'[u] = cur[u]
  BY <1>1, <1>2 DEF TypeOK
<1>6. \A d \in Active' \ {c} : d \in Active /\ room'[d] = room[d]
  BY <1>1, <1>2 DEF Active
<1>7. room'[c] = General
  BY <1>1, <1>2
<1> QED
  BY <1>1, <1>2, <1>4, <1>5, <1>6, <1>7, EnterStep

(* The move takes no open entry along but its own.                         *)
LEMMA SwitchGap ==
    ASSUME IInv, GapInv, NEW c \in Conns, Switch(c)
    PROVE  GapInv'
<1> DEFINE m == Message(c, "enter", dest[c])
<1>1. /\ TypeOK /\ clients \subseteq Conns /\ SocketLife /\ OneHolder
      /\ c \in Threads /\ pc \in [Threads -> PCs] /\ DOMAIN cur = Threads
  BY DEF IInv, TypeOK, Threads
<1>2. /\ UNCHANGED <<clients, sock, history, todo, inbox, shown>>
      /\ room' = [d \in Conns |-> IF d \in WithFdOf(c) THEN dest[c] ELSE room[d]]
      /\ gap' = [gap EXCEPT ![c] = InFlight(dest[c])]
      /\ pc[c] = "switch" /\ pc' = [pc EXCEPT ![c] = "snap"] /\ cur' = [cur EXCEPT ![c] = m]
  BY DEF Switch, kernel, Announce, Goto
<1>3. m.kind = "enter" /\ m.from = c /\ m.room = dest[c]
  BY DEF Message
<1> HIDE DEF m
<1>4. /\ pc'[c] = "snap" /\ cur'[c].kind \in {"hello", "enter"}
      /\ cur'[c].from = c /\ cur'[c].room = dest[c]
  BY <1>1, <1>2, <1>3 DEF TypeOK
<1>5. \A u \in Threads \ {c} : pc'[u] = pc[u] /\ cur'[u] = cur[u]
  BY <1>1, <1>2 DEF TypeOK
<1>6. Live(c)
  BY <1>1, <1>2 DEF SocketLife, Gone, Past, Leaving, Live, TypeOK
<1>7. \A d \in Active' \ {c} : d \in Active /\ room'[d] = room[d]
  <2>1. ASSUME NEW d \in Active' \ {c} PROVE d \in Active /\ room'[d] = room[d]
    <3>1. d \in Active /\ d \in Conns /\ Live(d)
      BY <1>1, <1>2 DEF Active, Live
    <3>2. fdOf[d] # fdOf[c]
      BY <1>1, <1>6, <3>1 DEF OneHolder
    <3> QED
      BY <1>2, <3>1, <3>2 DEF WithFdOf
  <2> QED
    BY <2>1
<1>8. c \in Active' => room'[c] = dest[c]
  BY <1>2 DEF Active, WithFdOf
<1> QED
  BY <1>1, <1>2, <1>4, <1>5, <1>7, <1>8, EnterStep

(* sendRoomHistory is of the room the entry is in.                         *)
LEMMA ReplayGap ==
    ASSUME IInv, GapInv, NEW c \in Conns, Replay(c)
    PROVE  GapInv'
<1>1. /\ TypeOK /\ clients \subseteq Conns /\ Conns \subseteq Threads /\ c \in Threads
      /\ pc \in [Threads -> PCs] /\ DOMAIN cur = Threads /\ DOMAIN shown = Conns
  BY DEF IInv, TypeOK, Threads
<1>2. /\ UNCHANGED <<clients, sock, room, history, todo, inbox, gap>>
      /\ pc[c] = "replay" /\ pc' = [pc EXCEPT ![c] = "recv"]
      /\ cur' = [cur EXCEPT ![c] = Idle(c)]
      /\ shown' = [shown EXCEPT ![c] = @ \cup history[cur[c].room]]
  BY DEF Replay, kernel, roster, Goto
<1>3. /\ pc'[c] = "recv" /\ cur'[c] = Idle(c)
      /\ \A u \in Threads \ {c} : pc'[u] = pc[u] /\ cur'[u] = cur[u]
  BY <1>1, <1>2 DEF TypeOK
<1>4. /\ shown'[c] = shown[c] \cup history[cur[c].room]
      /\ \A d \in Conns \ {c} : shown'[d] = shown[d]
  BY <1>1, <1>2 DEF TypeOK
<1>5. \A d \in Conns : Remembers(d)
  BY <1>2, <1>4 DEF Remembers
<1>6. Entering(c) /\ ~Entering(c)' /\ ~Casting(c)'
  BY <1>2, <1>3 DEF Entering, Casting
<1>7. Active' = Active /\ Active \subseteq Conns
  BY <1>1, <1>2 DEF Active
<1>8. OwnInv'
  BY <1>1, <1>3 DEF GapInv, OwnInv, Idle, Saved
<1>9. \A d \in Active \ {c} : Entering(d)' <=> Entering(d)
  BY <1>1, <1>3, <1>7 DEF Entering
<1>10. RoomInv'
  BY <1>1, <1>2, <1>3, <1>6, <1>7, <1>9 DEF GapInv, RoomInv
<1>11. FlightInv'
  <2>1. ASSUME NEW d \in Active', NEW u \in Threads, Casting(u)', cur'[u].room = room'[d]
        PROVE  d \in todo'[u] \/ Knows(d, cur[u])'
    <3>1. u # c /\ Casting(u) /\ cur'[u] = cur[u]
      BY <1>3, <1>6, <2>1 DEF Casting
    <3>2. d \in todo[u] \/ Knows(d, cur[u])
      BY <1>2, <1>7, <2>1, <3>1 DEF GapInv, FlightInv
    <3>3. Remembers(d)
      BY <1>5, <1>7
    <3> QED
      BY <1>2, <3>1, <3>2, <3>3 DEF Remembers, Knows
  <2> QED
    BY <2>1 DEF FlightInv
<1>12. HistoryInv'
  <2>1. ASSUME NEW d \in Active', ~Entering(d)', NEW m \in history'[room'[d]]
        PROVE  Knows(d, m)'
    <3>1. CASE d = c
      <4>1. cur[c].room = room[c]
        BY <1>6, <1>7, <3>1 DEF GapInv, RoomInv
      <4> QED
        BY <1>2, <1>4, <2>1, <3>1, <4>1 DEF Knows
    <3>2. CASE d # c
      <4>1. Knows(d, m)
        BY <1>2, <1>7, <1>9, <2>1, <3>2 DEF GapInv, HistoryInv
      <4>2. Remembers(d)
        BY <1>5, <1>7
      <4> QED
        BY <4>1, <4>2 DEF Remembers, Knows
    <3> QED
      BY <3>1, <3>2
  <2> QED
    BY <2>1 DEF HistoryInv
<1> QED
  BY <1>8, <1>10, <1>11, <1>12 DEF GapInv

(* The recipients are everyone in the room, for a client alone leaves out  *)
(* entries that have the sender's descriptor, and no other open one has.   *)
LEMMA SnapshotGap ==
    ASSUME IInv, GapInv, NEW t \in Threads, Snapshot(t)
    PROVE  GapInv'
<1> DEFINE listeners == {e \in clients :
              /\ cur[t].room \in {AllRooms, room[e]}
              /\ (cur[t].kind \in SkipsSender => fdOf[e] # fdOf[t])}
           m == Addressed(cur[t], listeners)
<1>1. /\ TypeOK /\ clients \subseteq Conns /\ SocketLife /\ OneHolder
      /\ pc \in [Threads -> PCs] /\ DOMAIN cur = Threads /\ DOMAIN todo = Threads
  BY DEF IInv, TypeOK
<1>2. cur[t] \in Messages
  BY DEF IInv, TypeOK
<1>3. m.kind = cur[t].kind /\ m.from = cur[t].from /\ m.room = cur[t].room
  <2>1. listeners \in SUBSET Conns
    BY <1>1
  <2> HIDE DEF listeners
  <2> QED
    BY <1>2, <2>1, AddressedShape
<1>4. /\ UNCHANGED <<clients, sock, room, history, inbox, shown, gap>>
      /\ pc[t] = "snap" /\ pc' = [pc EXCEPT ![t] = "cast"]
      /\ todo' = [todo EXCEPT ![t] = listeners]
  BY DEF Snapshot, kernel, roster, Goto
<1>5. cur' = [cur EXCEPT ![t] = m]
  BY DEF Snapshot
<1>6. /\ pc'[t] = "cast" /\ todo'[t] = listeners
      /\ \A u \in Threads \ {t} : pc'[u] = pc[u] /\ todo'[u] = todo[u]
  BY <1>1, <1>4 DEF TypeOK
<1> HIDE DEF m
<1>7. cur'[t] = m /\ \A u \in Threads \ {t} : cur'[u] = cur[u]
  BY <1>1, <1>5
<1>8. \A d \in Conns : Remembers(d)
  BY <1>4, MailSame
<1>9. Active' = Active /\ Active \subseteq Conns /\ Active \subseteq Threads
  BY <1>1, <1>4 DEF Active, Threads
<1>10. OwnInv'
  BY <1>3, <1>7 DEF GapInv, OwnInv
<1>11. \A u \in Threads : /\ Entering(u)' <=> Entering(u)
                          /\ cur'[u].room = cur[u].room
                          /\ cur'[u].kind = cur[u].kind
                          /\ cur'[u].from = cur[u].from
  BY <1>3, <1>4, <1>6, <1>7 DEF Entering
<1>12. RoomInv'
  BY <1>4, <1>9, <1>11 DEF GapInv, RoomInv
<1>13. ASSUME NEW d \in Active, cur[t].kind \in Saved, cur[t].room = room[d], d \notin listeners
       PROVE  d = t
  <2>1. d \in clients /\ d \in Conns /\ Live(d)
    BY <1>9 DEF Active, Live
  <2>2. cur[t].kind \in SkipsSender /\ fdOf[d] = fdOf[t]
    BY <1>13, <2>1
  <2>3. t \in Conns
    BY <1>13 DEF GapInv, OwnInv
  <2>4. pc[t] = "snap" /\ cur[t].kind # "bye"
    BY <1>4, <2>2 DEF SkipsSender
  <2>5. Live(t)
    BY <1>1, <2>3, <2>4 DEF SocketLife, Gone, Past, Leaving, Live, TypeOK
  <2> QED
    BY <1>1, <2>1, <2>2, <2>3, <2>5 DEF OneHolder
<1> HIDE DEF listeners
<1>14. FlightInv'
  <2>1. ASSUME NEW d \in Active', NEW u \in Threads, Casting(u)', cur'[u].room = room'[d]
        PROVE  d \in todo'[u] \/ Knows(d, cur[u])'
    <3>1. d \in Active /\ d \in Conns /\ Remembers(d) /\ cur[u].room = room[d]
      BY <1>4, <1>8, <1>9, <1>11, <2>1
    <3>2. CASE u = t
      <4>1. cur[t].kind \in Saved
        BY <1>11, <2>1, <3>2 DEF Casting
      <4>2. CASE d \in listeners
        BY <1>6, <3>2, <4>2
      <4>3. CASE d \notin listeners
        <5>1. d = t
          BY <1>13, <3>1, <3>2, <4>1, <4>3
        <5>2. cur'[u].from = d
          BY <1>10, <3>2, <5>1 DEF OwnInv
        <5> QED
          BY <5>2 DEF Knows
      <4> QED
        BY <4>2, <4>3
    <3>3. CASE u # t
      <4>1. Casting(u) /\ cur'[u] = cur[u] /\ todo'[u] = todo[u]
        BY <1>6, <1>7, <2>1, <3>3 DEF Casting
      <4>2. d \in todo[u] \/ Knows(d, cur[u])
        BY <3>1, <4>1 DEF GapInv, FlightInv
      <4> QED
        BY <3>1, <4>1, <4>2 DEF Remembers, Knows
    <3> QED
      BY <3>2, <3>3
  <2> QED
    BY <2>1 DEF FlightInv
<1>15. HistoryInv'
  <2>1. ASSUME NEW d \in Active', ~Entering(d)', NEW x \in history'[room'[d]]
        PROVE  Knows(d, x)'
    <3>1. Knows(d, x) /\ Remembers(d)
      BY <1>4, <1>8, <1>9, <1>11, <2>1 DEF GapInv, HistoryInv
    <3> QED
      BY <3>1 DEF Remembers, Knows
  <2> QED
    BY <2>1 DEF HistoryInv
<1> QED
  BY <1>10, <1>12, <1>14, <1>15 DEF GapInv

(* saveMessage comes after the loop: whoever is in the room has the message.*)
LEMMA SaveGap ==
    ASSUME IInv, GapInv, NEW t \in Threads, Save(t)
    PROVE  GapInv'
<1>1. /\ TypeOK /\ clients \subseteq Conns
      /\ pc \in [Threads -> PCs] /\ DOMAIN cur = Threads
      /\ history \in [Rooms \cup {AllRooms} -> SUBSET Messages]
  BY DEF IInv, TypeOK
<1>2. /\ UNCHANGED <<clients, sock, room, todo, inbox, shown, gap>>
      /\ pc[t] = "cast" /\ todo[t] = {} /\ cur[t].kind \in Saved
      /\ pc' = [pc EXCEPT ![t] = AfterSave[cur[t].kind]]
      /\ history' = [history EXCEPT ![cur[t].room] = @ \cup {cur[t]}]
      /\ cur' = IF cur[t].kind \in {"chat", "bye"}
                THEN [cur EXCEPT ![t] = Idle(t)] ELSE cur
  BY DEF Save, kernel, roster, Goto
<1>3. /\ pc'[t] = AfterSave[cur[t].kind]
      /\ \A u \in Threads \ {t} : pc'[u] = pc[u] /\ cur'[u] = cur[u]
      /\ cur'[t] = IF cur[t].kind \in {"chat", "bye"} THEN Idle(t) ELSE cur[t]
  BY <1>1, <1>2
<1>4. \A d \in Conns : Remembers(d)
  BY <1>2, MailSame
<1>5. Active' = Active /\ Active \subseteq Conns /\ Active \subseteq Threads
  BY <1>1, <1>2 DEF Active, Threads
<1>6. ~Casting(t)' /\ Casting(t)
  BY <1>2, <1>3 DEF Casting, AfterSave, Saved
<1>7. Entering(t)' <=> Entering(t)
  BY <1>2, <1>3 DEF Entering, AfterSave, Saved
<1>8. Entering(t) => cur'[t] = cur[t]
  BY <1>2, <1>3 DEF Entering
<1>9. \A u \in Threads : /\ Entering(u)' <=> Entering(u)
                         /\ Entering(u) => cur'[u] = cur[u]
  <2>1. ASSUME NEW u \in Threads, u # t
        PROVE  Entering(u)' <=> Entering(u)
    BY <1>3, <2>1 DEF Entering
  <2> QED
    BY <1>3, <1>7, <1>8, <2>1
<1>10. OwnInv'
  BY <1>3 DEF GapInv, OwnInv, Idle, Saved
<1>11. RoomInv'
  BY <1>2, <1>5, <1>9 DEF GapInv, RoomInv
<1>12. FlightInv'
  <2>1. ASSUME NEW d \in Active', NEW u \in Threads, Casting(u)', cur'[u].room = room'[d]
        PROVE  d \in todo'[u] \/ Knows(d, cur[u])'
    <3>1. u # t /\ Casting(u) /\ cur'[u] = cur[u]
      BY <1>3, <1>6, <2>1 DEF Casting
    <3>2. d \in todo[u] \/ Knows(d, cur[u])
      BY <1>2, <1>5, <2>1, <3>1 DEF GapInv, FlightInv
    <3>3. Remembers(d)
      BY <1>4, <1>5
    <3> QED
      BY <1>2, <3>1, <3>2, <3>3 DEF Remembers, Knows
  <2> QED
    BY <2>1 DEF FlightInv
<1>13. HistoryInv'
  <2>1. ASSUME NEW d \in Active', ~Entering(d)', NEW x \in history'[room'[d]]
        PROVE  Knows(d, x)'
    <3>1. d \in Active /\ d \in Threads /\ Remembers(d) /\ room' = room
      BY <1>2, <1>4, <1>5
    <3>2. ~Entering(d)
      BY <1>9, <2>1, <3>1
    <3>3. x \in history[room[d]] \/ (x = cur[t] /\ cur[t].room = room[d])
      BY <1>1, <1>2, <2>1, <3>1
    <3>4. CASE x \in history[room[d]]
      BY <3>1, <3>4, <3>2 DEF GapInv, HistoryInv, Remembers, Knows
    <3>5. CASE x = cur[t] /\ cur[t].room = room[d]
      <4>1. Knows(d, cur[t])
        BY <1>2, <1>6, <3>1, <3>5 DEF GapInv, FlightInv
      <4> QED
        BY <3>1, <3>5, <4>1 DEF Remembers, Knows
    <3> QED
      BY <3>3, <3>4, <3>5
  <2> QED
    BY <2>1 DEF HistoryInv
<1> QED
  BY <1>10, <1>11, <1>12, <1>13 DEF GapInv

LEMMA GapInit == Init => GapInv
<1> SUFFICES ASSUME Init PROVE GapInv
  OBVIOUS
<1>1. OwnInv
  BY DEF Init, OwnInv, Idle, Saved
<1>2. Active = {} /\ \A t \in Threads : ~Casting(t)
  BY DEF Init, Active, Casting
<1> QED
  BY <1>1, <1>2 DEF GapInv, RoomInv, FlightInv, HistoryInv

LEMMA GapStep ==
    ASSUME IInv, GapInv, [Next]_vars
    PROVE  GapInv'
<1>1. ASSUME NEW c \in Conns,
             \/ \E f \in Fds : Accept(c, f)
             \/ HandshakeFails(c) \/ Register(c) \/ RecvFails(c)
             \/ ConnWork(c) \/ Frame(c)
      PROVE  GapInv'
  BY <1>1, ConnQuiet, RegisterGap, ReplayGap, SwitchGap DEF ConnWork
<1>2. ASSUME NEW t \in Threads, Work(t) \/ CastFails(t) \/ Order(t) PROVE GapInv'
  BY <1>2, OrderQuiet, CastStep, SnapshotGap, SaveGap DEF Work
<1>3. CASE UNCHANGED vars
  <2>1. UNCHANGED <<clients, sock, room, history, pc, cur, todo, inbox, shown, gap>>
    BY <1>3 DEF vars, kernel, roster, local
  <2> QED
    BY <2>1 DEF GapInv, OwnInv, RoomInv, FlightInv, HistoryInv, Active, Entering,
      Casting, Knows
<1> QED
  BY <1>1, <1>2, <1>3 DEF Next

(* A client that is back at recv() has been sent every message saved for   *)
(* the room it is in, but for its own and those that were on their way     *)
(* when it came in.                                                        *)
THEOREM NothingMissed == Spec => []HistoryGap
<1>1. GapInv => HistoryGap
  BY DEF GapInv, HistoryInv, HistoryGap, Active, Entering, Knows
<1> QED
  BY <1>1, GapInit, GapStep, Inductive, PTL DEF Spec

=============================================================================
