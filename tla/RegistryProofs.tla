--------------------------- MODULE RegistryProofs ---------------------------
(***************************************************************************)
(* Proofs about Registry, for any number of connections, names, rooms and  *)
(* frames, and for every capacity of the queues.                           *)
(***************************************************************************)
EXTENDS Registry, TLAPS, SequenceTheorems

-----------------------------------------------------------------------------
(* Types.                                                                  *)

(* Whoever a message goes to is a registered client.                       *)
LEMMA Recipients ==
    \A r, i : \A c \in Conns : ById(i) \subseteq clients /\ Members(r, c) \subseteq clients
BY DEF ById, Members

(* What a task makes is a message.                                         *)
LEMMA MsgType ==
    ASSUME TypeOK, NEW t \in Tasks, NEW kind \in Kinds, NEW about \in Rooms \cup Users
    PROVE  Msg(t, kind, about) \in Messages
BY DEF TypeOK, Msg, Messages

(* A send leaves every queue a sequence of messages within its capacity.   *)
(* Only connections, which have a name, are announced.                     *)
LEMMA SendType ==
    ASSUME TypeOK, NEW S \in SUBSET Conns, NEW m \in Messages, Send(S, m),
           m.kind \in {"joined", "left"} => m.from \in Conns
    PROVE  /\ queue' \in [Conns -> Seq(Messages)]
           /\ \A c \in Conns : Len(queue'[c]) =< Cap
           /\ view' \in [Conns -> SUBSET Users]
           /\ missed' \subseteq Conns
<1> USE RegistryAssumption DEF TypeOK
<1>1. ASSUME NEW c \in Conns
      PROVE  /\ Put(queue[c], m) \in Seq(Messages)
             /\ Len(Put(queue[c], m)) = Len(queue[c]) + 1
  BY DEF Put
<1>2. ASSUME NEW c \in Conns PROVE Len(queue'[c]) =< Cap
  <2>1. CASE c \in S /\ Takes(c)
    BY <2>1, <1>1 DEF Send, Takes
  <2>2. CASE ~(c \in S /\ Takes(c))
    BY <2>2 DEF Send
  <2> QED
    BY <2>1, <2>2
<1>3. queue' \in [Conns -> Seq(Messages)]
  BY <1>1 DEF Send
<1>4. ASSUME NEW c \in Conns PROVE Told(view[c], m) \in SUBSET Users
  BY DEF Told
<1>5. view' \in [Conns -> SUBSET Users]
  BY <1>4 DEF Send
<1> QED
  BY <1>2, <1>3, <1>5 DEF Send

(* The registry is well typed when the server starts.                      *)
LEMMA TypeInit == Init => TypeOK
BY RegistryAssumption
   DEF Init, TypeOK, Nothing, NoId, PCs, Tasks

(* Every step of a task, of a writer, of a peer or of the admin keeps the  *)
(* types, and no queue gets longer than its capacity.                      *)
LEMMA TypeStep == TypeOK /\ [Next]_vars => TypeOK'
<1> SUFFICES ASSUME TypeOK, [Next]_vars PROVE TypeOK'
  OBVIOUS
<1> USE RegistryAssumption DEF TypeOK, registry, local, channels
<1> DEFINE Sent == /\ queue' \in [Conns -> Seq(Messages)]
                   /\ \A c \in Conns : Len(queue'[c]) =< Cap
                   /\ view' \in [Conns -> SUBSET Users]
                   /\ missed' \subseteq Conns
<1>r. \A t \in Tasks : Return(t) => /\ pc' \in [Tasks -> PCs]
                                   /\ kept' \in [Tasks -> [room : Rooms, id : Nat, user : SUBSET Users]]
  BY DEF Return, Goto, Nothing, NoId, PCs
<1>g. \A t \in Tasks, label \in PCs : Goto(t, label) => pc' \in [Tasks -> PCs]
  BY DEF Goto
<1>c. \A t \in Tasks : Consume(t) => issued' \in [Tasks -> Nat]
  BY DEF Consume
<1>k. /\ \A t \in Tasks, r \in Rooms :
            Keep(t, r) => kept' \in [Tasks -> [room : Rooms, id : Nat, user : SUBSET Users]]
      /\ \A t \in Tasks, u \in Users :
            Find(t, u) => kept' \in [Tasks -> [room : Rooms, id : Nat, user : SUBSET Users]]
  <2> DEFINE Local == [room : Rooms, id : Nat, user : SUBSET Users]
  <2>1. ASSUME NEW t \in Tasks, NEW k \in Local, kept' = [kept EXCEPT ![t] = k]
        PROVE  kept' \in [Tasks -> Local]
    BY <2>1
  <2>2. ASSUME NEW t \in Tasks, NEW r \in Rooms, Keep(t, r)
        PROVE  kept' \in [Tasks -> Local]
    <3> DEFINE k == [Nothing EXCEPT !.room = r]
    <3>1. k \in Local
      BY DEF Nothing, NoId
    <3>2. kept' = [kept EXCEPT ![t] = k]
      BY <2>2 DEF Keep
    <3> HIDE DEF k
    <3> QED
      BY <3>1, <3>2
  <2>3. ASSUME NEW t \in Tasks, NEW u \in Users, Find(t, u)
        PROVE  kept' \in [Tasks -> Local]
    <3> DEFINE k == [Nothing EXCEPT !.id = nameToId[u], !.user = {u}]
    <3>1. k \in Local
      BY DEF Nothing, NoId
    <3>2. kept' = [kept EXCEPT ![t] = k]
      BY <2>3 DEF Find
    <3> HIDE DEF k
    <3> QED
      BY <3>1, <3>2
  <2> QED
    BY <2>2, <2>3
<1>s. ASSUME NEW t \in Tasks, NEW S, S \subseteq Conns, NEW kind \in Kinds,
             NEW about \in Rooms \cup Users,
             kind \in {"joined", "left"} => t \in Conns,
             Send(S, Msg(t, kind, about))
      PROVE  Sent
  BY <1>s, MsgType, SendType DEF Msg
<1>1. ASSUME NEW c \in Conns, HandshakeFails(c) \/ NameTaken(c) \/ HangUp(c) PROVE TypeOK'
  BY <1>1, <1>g DEF HandshakeFails, NameTaken, HangUp, PCs, Tasks
<1>2. ASSUME NEW c \in Conns, Register(c) PROVE TypeOK'
  <2>1. \A r \in DOMAIN rooms' : rooms'[r] \subseteq Nat
    BY <1>2 DEF Register, PutIn, FreshId
  <2>2. DOMAIN rooms' \subseteq Rooms
    BY <1>2 DEF Register, PutIn
  <2>3. view' \in [Conns -> SUBSET Users]
    BY <1>2 DEF Register, NamesIn
  <2>4. /\ nextId' \in Nat \ {0} /\ idOf' \in [Conns -> Nat] /\ nameToId' \in [Users -> Nat]
        /\ clients' \subseteq Conns /\ room' \in [Conns -> Rooms]
        /\ overlapped' \subseteq Users
    <3>1. FreshId \in Nat /\ NameOf[c] \in Users
      BY DEF FreshId
    <3>2. overlapped' \subseteq Users
      BY <1>2, <3>1 DEF Register
    <3>3. nextId' \in Nat \ {0}
      BY <1>2 DEF Register
    <3> QED
      BY <1>2, <3>1, <3>2, <3>3 DEF Register
  <2>5. pc' \in [Tasks -> PCs]
    BY <1>2, <1>g DEF Register, Tasks, PCs
  <2> QED
    BY <1>2, <2>1, <2>2, <2>3, <2>4, <2>5 DEF Register
<1>3. ASSUME NEW c \in Conns, Welcome(c) PROVE TypeOK'
  <2>1. Msg(c, "welcome", General) \in Messages
    BY MsgType DEF Kinds, Tasks
  <2>2. queue' \in [Conns -> Seq(Messages)] /\ \A d \in Conns : Len(queue'[d]) =< Cap
    BY <1>3, <2>1 DEF Welcome
  <2> QED
    BY <1>3, <1>g, <2>2 DEF Welcome, PCs, Tasks
<1>4. ASSUME NEW c \in Conns, Greet(c) PROVE TypeOK'
  BY <1>4, <1>g, <1>s, Recipients DEF Greet, PCs, Tasks, Kinds
<1>5. ASSUME NEW c \in Conns, Write(c) PROVE TypeOK'
  <2>1. Head(queue[c]) \in Messages /\ Tail(queue[c]) \in Seq(Messages)
          /\ Len(Tail(queue[c])) =< Cap
    BY <1>5, HeadTailProperties DEF Write
  <2>2. queue' \in [Conns -> Seq(Messages)] /\ \A d \in Conns : Len(queue'[d]) =< Cap
    BY <1>5, <2>1 DEF Write
  <2>3. written' \in [Conns -> Seq(Messages)]
    BY <1>5, <2>1 DEF Write
  <2> QED
    BY <1>5, <2>2, <2>3 DEF Write
<1>6. ASSUME NEW c \in Conns, WriteFails(c) \/ Abort(c) PROVE TypeOK'
  <2>1. queue' = [queue EXCEPT ![c] = <<>>] /\ writer' = [writer EXCEPT ![c] = "ended"]
    BY <1>6 DEF WriteFails, Abort
  <2>2. queue' \in [Conns -> Seq(Messages)] /\ \A d \in Conns : Len(queue'[d]) =< Cap
    BY <2>1
  <2> QED
    BY <1>6, <1>g, <2>1, <2>2 DEF WriteFails, Abort, PCs, Tasks
<1>7. ASSUME NEW c \in Conns, Reply(c) PROVE TypeOK'
  BY <1>7, <1>c, <1>s, ZenonT(30) DEF Reply, Tasks, Kinds
<1>8. ASSUME NEW c \in Conns, Say(c) PROVE TypeOK'
  BY <1>8, <1>c, <1>k, <1>g DEF Say, Tasks, PCs
<1>9. ASSUME NEW c \in Conns, Check(c) PROVE TypeOK'
  BY <1>9, <1>g DEF Check, Tasks, PCs
<1>10. ASSUME NEW c \in Conns, Refuse(c) PROVE TypeOK'
  <2>1. Sent
    BY <1>10, <1>s, ZenonT(30) DEF Refuse, Tasks, Kinds
  <2> HIDE DEF Sent
  <2>2. Return(c) /\ c \in Tasks
    BY <1>10 DEF Refuse, Tasks
  <2> QED
    BY <1>10, <1>r, <2>1, <2>2 DEF Refuse, Sent
<1>11. ASSUME NEW c \in Conns, Cast(c) PROVE TypeOK'
  <2>1. Sent
    BY <1>11, <1>s, Recipients DEF Cast, Tasks, Kinds
  <2>2. Return(c) /\ c \in Tasks
    BY <1>11 DEF Cast, Tasks
  <2>3. late' \in [Conns -> Nat]
    BY <1>11 DEF Cast, Counted
  <2> QED
    BY <1>11, <1>r, <2>1, <2>2, <2>3 DEF Cast
<1>12. ASSUME NEW c \in Conns, NEW u \in Users, Pm(c, u) PROVE TypeOK'
  BY <1>12, <1>c, <1>k, <1>g DEF Pm, Tasks, PCs
<1>13. ASSUME NEW c \in Conns, PmSend(c) PROVE TypeOK'
  <2>1. Sent
    BY <1>13, <1>s, Recipients DEF PmSend, Tasks, Kinds
  <2>2. Return(c) /\ c \in Tasks
    BY <1>13 DEF PmSend, Tasks
  <2>3. late' \in [Conns -> Nat]
    BY <1>13 DEF PmSend, Counted
  <2> QED
    BY <1>13, <1>r, <2>1, <2>2, <2>3 DEF PmSend
<1>14. ASSUME NEW c \in Conns, NEW r \in Rooms, Join(c, r) PROVE TypeOK'
  <2>1. DOMAIN rooms' \subseteq Rooms /\ \A q \in DOMAIN rooms' : rooms'[q] \subseteq Nat
    <3> DEFINE rs == Prune(TakeOut(rooms, room[c], idOf[c]), room[c])
    <3>1. DOMAIN rs \subseteq DOMAIN rooms /\ \A q \in DOMAIN rs : rs[q] \subseteq rooms[q]
      BY DEF Prune, TakeOut
    <3> HIDE DEF rs
    <3>2. rooms' = PutIn(rs, r, idOf[c])
      BY <1>14 DEF Join, rs
    <3> QED
      BY <3>1, <3>2 DEF PutIn
  <2>2. view' \in [Conns -> SUBSET Users]
    BY <1>14, SMTT(30) DEF Join, NamesIn
  <2> QED
    BY <1>14, <1>c, <1>k, <1>g, <2>1, <2>2 DEF Join, Tasks, PCs
<1>15. ASSUME NEW c \in Conns, TellOld(c) PROVE TypeOK'
  BY <1>15, <1>s, <1>g, Recipients DEF TellOld, RoomLeft, Tasks, Kinds, PCs
<1>16. ASSUME NEW c \in Conns, TellSelf(c) PROVE TypeOK'
  <2>1. Sent
    BY <1>16, <1>s, ZenonT(30) DEF TellSelf, Tasks, Kinds
  <2> QED
    BY <1>16, <1>g, <2>1 DEF TellSelf, Tasks, PCs
<1>17. ASSUME NEW c \in Conns, TellNew(c) PROVE TypeOK'
  BY <1>17, <1>s, <1>r, Recipients DEF TellNew, Tasks, Kinds
<1>18. ASSUME NEW c \in Conns, ReadEnds(c) PROVE TypeOK'
  BY <1>18, <1>g DEF ReadEnds, AfterReadLoop, Tasks, PCs
<1>19. ASSUME NEW c \in Conns, Unregister(c) PROVE TypeOK'
  <2>1. DOMAIN rooms' \subseteq Rooms /\ \A q \in DOMAIN rooms' : rooms'[q] \subseteq Nat
    BY <1>19 DEF Unregister, Prune, TakeOut
  <2> QED
    BY <1>19, <1>k, <1>g, <2>1 DEF Unregister, NoId, Tasks, PCs
<1>20. ASSUME NEW c \in Conns, Farewell(c) PROVE TypeOK'
  BY <1>20, <1>s, <1>g, Recipients DEF Farewell, Tasks, Kinds, PCs
<1>21. CASE AdminSay
  BY <1>21, <1>s, <1>c DEF AdminSay, Tasks, Kinds
<1>22. ASSUME NEW u \in Users, NEW block \in BOOLEAN, AdminBlock(u, block) PROVE TypeOK'
  BY <1>22, <1>c, <1>k, <1>g DEF AdminBlock, Tasks, PCs
<1>23. CASE AdminNotify
  <2>1. Sent
    <3>1. PICK u \in kept[Admin].user : Send(ById(kept[Admin].id), Msg(Admin, "notice", u))
      BY <1>23 DEF AdminNotify
    <3>2. u \in Users /\ Admin \in Tasks
      BY DEF Tasks
    <3>3. ById(kept[Admin].id) \subseteq Conns
      BY DEF ById
    <3> QED
      BY <3>1, <3>2, <3>3, <1>s DEF Kinds
  <2>2. Return(Admin) /\ Admin \in Tasks
    BY <1>23 DEF AdminNotify, Tasks
  <2> QED
    BY <1>23, <1>r, <2>1, <2>2 DEF AdminNotify
<1>24. CASE UNCHANGED vars
  BY <1>24 DEF vars
<1> HIDE DEF TypeOK, registry, local, channels
<1> QED
  BY <1>1, <1>2, <1>3, <1>4, <1>5, <1>6, <1>7, <1>8, <1>9, <1>10, <1>11, <1>12,
     <1>13, <1>14, <1>15, <1>16, <1>17, <1>18, <1>19, <1>20, <1>21, <1>22, <1>23,
     <1>24
  DEF Next, TaskWork, Frame, Command

(* Every variable keeps to the values the code can give it, and no queue   *)
(* is ever longer than its capacity.                                       *)
THEOREM TypeCorrect == Spec => []TypeOK
BY TypeInit, TypeStep, PTL DEF Spec

-----------------------------------------------------------------------------
(* The indexes of the registry.                                            *)

(* Where the task of a registered client can be.                           *)
Served == {"welcome", "greet", "recv", "say", "pm", "refused", "cast", "send",
           "left", "moved", "entered", "unregister"}

Placed == \A c \in Conns : c \in clients <=> pc[c] \in Served

(* An id is given once.                                                    *)
Numbered ==
    /\ \A c \in Conns : idOf[c] < nextId
    /\ \A c \in clients : idOf[c] # NoId
    /\ \A c, d \in Conns : idOf[c] = idOf[d] /\ idOf[c] # NoId => c = d

RoomsHold ==
    /\ General \in DOMAIN rooms
    /\ \A c \in clients : room[c] \in DOMAIN rooms /\ idOf[c] \in rooms[room[c]]
    /\ \A r \in DOMAIN rooms :
          /\ r = General \/ rooms[r] # {}
          /\ \A i \in rooms[r] : \E c \in clients : room[c] = r /\ idOf[c] = i

NamesLead ==
    /\ \A c \in clients : nameToId[NameOf[c]] = idOf[c]
    /\ \A u \in Users : nameToId[u] # NoId => \E c \in clients : NameOf[c] = u

IndexInv == Placed /\ Numbered /\ RoomsHold /\ NamesLead

(* Two clients with one name would be one client.                          *)
LEMMA NamedOnce ==
    ASSUME TypeOK, IndexInv, NEW c \in clients, NEW d \in clients, NameOf[c] = NameOf[d]
    PROVE  c = d
<1>1. idOf[c] = idOf[d] /\ idOf[c] # NoId
  BY DEF IndexInv, NamesLead, Numbered
<1>2. c \in Conns /\ d \in Conns
  BY DEF TypeOK
<1> QED
  BY <1>1, <1>2 DEF IndexInv, Numbered

(* The invariant tells what IndexesAgree does, and where the tasks of the  *)
(* clients are.                                                            *)
LEMMA IndexesHold == TypeOK /\ IndexInv => IndexesAgree /\ ListedIsServed
<1> SUFFICES ASSUME TypeOK, IndexInv PROVE IndexesAgree /\ ListedIsServed
  OBVIOUS
<1> USE RegistryAssumption DEF IndexInv
<1>1. ASSUME NEW r \in DOMAIN rooms
      PROVE  rooms[r] = {idOf[c] : c \in {d \in clients : room[d] = r}}
  BY DEF RoomsHold
<1>2. DOMAIN rooms = {General} \cup {room[c] : c \in clients}
  <2>1. ASSUME NEW r \in DOMAIN rooms, r # General
        PROVE  \E c \in clients : room[c] = r
    <3>1. PICK i \in rooms[r] : TRUE
      BY <2>1 DEF RoomsHold
    <3> QED
      BY <3>1 DEF RoomsHold
  <2>2. General \in DOMAIN rooms /\ \A c \in clients : room[c] \in DOMAIN rooms
    BY DEF RoomsHold
  <2> QED
    BY <2>1, <2>2
<1>3. ASSUME NEW u \in Users
      PROVE  IF nameToId[u] = NoId THEN \A c \in clients : NameOf[c] # u
             ELSE \E c \in clients : NameOf[c] = u /\ idOf[c] = nameToId[u]
  BY DEF NamesLead, Numbered
<1>4. ListedIsServed
  BY DEF ListedIsServed, Placed, Served, TypeOK
<1> QED
  BY <1>1, <1>2, <1>3, <1>4 DEF IndexesAgree

(* A step that leaves the registry alone, of a task that neither starts    *)
(* nor ends to be served.                                                  *)
LEMMA QuietStep ==
    ASSUME IndexInv, UNCHANGED <<registry, idOf>>,
           \A d \in Conns : pc'[d] \in Served <=> pc[d] \in Served
    PROVE  IndexInv'
<1> USE DEF IndexInv, registry
<1>1. Placed'
  BY DEF Placed
<1>2. Numbered'
  BY DEF Numbered
<1>3. RoomsHold'
  BY DEF RoomsHold
<1>4. NamesLead'
  BY DEF NamesLead
<1> QED
  BY <1>1, <1>2, <1>3, <1>4

(* A name that is free is given to the new client, with an id nobody has.  *)
LEMMA RegisterIndex ==
    ASSUME TypeOK, IndexInv, NEW c \in Conns, Register(c)
    PROVE  IndexInv'
<1> USE RegistryAssumption
<1>a. /\ pc[c] = "hello" /\ nameToId[NameOf[c]] = NoId
      /\ nextId' = nextId + 1 /\ idOf' = [idOf EXCEPT ![c] = nextId]
      /\ clients' = clients \cup {c}
      /\ nameToId' = [nameToId EXCEPT ![NameOf[c]] = nextId]
      /\ room' = [room EXCEPT ![c] = General]
      /\ rooms' = PutIn(rooms, General, nextId)
      /\ pc' = [pc EXCEPT ![c] = "welcome"]
  BY DEF Register, FreshId, Goto
<1>b. /\ nextId \in Nat \ {0} /\ idOf \in [Conns -> Nat] /\ clients \subseteq Conns
      /\ nameToId \in [Users -> Nat] /\ room \in [Conns -> Rooms] /\ pc \in [Tasks -> PCs]
      /\ NameOf \in [Conns -> Users] /\ c \in Tasks
  BY DEF TypeOK, Tasks
<1>c. c \notin clients
  BY <1>a DEF IndexInv, Placed, Served
<1>1. Placed'
  BY <1>a, <1>b, <1>c DEF IndexInv, Placed, Served, Tasks
<1>2. Numbered'
  <2>1. \A d \in Conns : idOf'[d] = IF d = c THEN nextId ELSE idOf[d]
    BY <1>a, <1>b
  <2>2. \A d \in Conns : idOf[d] < nextId /\ idOf[d] \in Nat
    BY <1>b DEF IndexInv, Numbered
  <2>3. \A d \in clients' : idOf'[d] # NoId
    BY <1>a, <1>b, <1>c, <2>1 DEF IndexInv, Numbered, NoId
  <2>4. \A d \in Conns : idOf'[d] < nextId'
    BY <1>a, <1>b, <2>1, <2>2
  <2>5. \A d, e \in Conns : idOf'[d] = idOf'[e] /\ idOf'[d] # NoId => d = e
    BY <1>b, <2>1, <2>2 DEF IndexInv, Numbered
  <2> QED
    BY <2>3, <2>4, <2>5 DEF Numbered
<1>3. RoomsHold'
  <2>1. General \in DOMAIN rooms
    BY DEF IndexInv, RoomsHold
  <2>2. /\ DOMAIN rooms' = DOMAIN rooms
        /\ \A q \in DOMAIN rooms : q # General => rooms'[q] = rooms[q]
        /\ rooms'[General] = rooms[General] \cup {nextId}
    BY <1>a, <2>1 DEF PutIn
  <2>3. ASSUME NEW d \in clients'
        PROVE  room'[d] \in DOMAIN rooms' /\ idOf'[d] \in rooms'[room'[d]]
    BY <1>a, <1>b, <1>c, <2>1, <2>2 DEF IndexInv, RoomsHold
  <2>4. ASSUME NEW r \in DOMAIN rooms', NEW i \in rooms'[r]
        PROVE  \E d \in clients' : room'[d] = r /\ idOf'[d] = i
    <3>1. CASE r = General /\ i = nextId
      BY <3>1, <1>a, <1>b
    <3>2. CASE i \in rooms[r]
      <4>1. PICK d \in clients : room[d] = r /\ idOf[d] = i
        BY <2>2, <3>2 DEF IndexInv, RoomsHold
      <4> QED
        BY <4>1, <1>a, <1>b, <1>c
    <3> QED
      BY <2>2, <2>4, <3>1, <3>2
  <2>5. \A r \in DOMAIN rooms' : r = General \/ rooms'[r] # {}
    BY <2>2 DEF IndexInv, RoomsHold
  <2> QED
    BY <2>1, <2>2, <2>3, <2>4, <2>5 DEF RoomsHold
<1>4. NamesLead'
  <2>1. \A d \in clients : NameOf[d] # NameOf[c]
    BY <1>a DEF IndexInv, NamesLead, Numbered
  <2> QED
    BY <1>a, <1>b, <1>c, <2>1 DEF IndexInv, NamesLead
<1> QED
  BY <1>1, <1>2, <1>3, <1>4 DEF IndexInv

(* A client that moves is in the new room and no more in the old one,      *)
(* which goes if nobody is left in it.                                     *)
LEMMA JoinIndex ==
    ASSUME TypeOK, IndexInv, NEW c \in Conns, NEW r \in Rooms, Join(c, r)
    PROVE  IndexInv'
<1> USE RegistryAssumption
<1> DEFINE old == room[c]
           i == idOf[c]
           ps == Prune(TakeOut(rooms, old, i), old)
<1>a. /\ pc[c] = "recv" /\ room[c] # r
      /\ room' = [room EXCEPT ![c] = r]
      /\ rooms' = PutIn(ps, r, i)
      /\ pc' = [pc EXCEPT ![c] = "left"]
      /\ UNCHANGED <<nextId, idOf, clients, nameToId>>
  BY DEF Join, Goto, Ready
<1>b. /\ idOf \in [Conns -> Nat] /\ clients \subseteq Conns
      /\ room \in [Conns -> Rooms] /\ pc \in [Tasks -> PCs] /\ c \in Tasks
  BY DEF TypeOK, Tasks
<1>c. c \in clients
  BY <1>a DEF IndexInv, Placed, Served
<1>1. Placed'
  BY <1>a, <1>b DEF IndexInv, Placed, Served, Tasks
<1>2. Numbered'
  BY <1>a DEF IndexInv, Numbered
<1>3. RoomsHold'
  <2>1. /\ DOMAIN ps = {q \in DOMAIN rooms : q = General \/ q # old \/ rooms[q] \ {i} # {}}
        /\ \A q \in DOMAIN ps : ps[q] = IF q = old THEN rooms[q] \ {i} ELSE rooms[q]
    BY DEF Prune, TakeOut
  <2> HIDE DEF ps
  <2>2. /\ DOMAIN rooms' = DOMAIN ps \cup {r}
        /\ \A q \in DOMAIN ps : q # r => rooms'[q] = ps[q]
        /\ rooms'[r] = (IF r \in DOMAIN ps THEN ps[r] ELSE {}) \cup {i}
    BY <1>a DEF PutIn
  <2>3. /\ General \in DOMAIN rooms
        /\ \A d \in clients : room[d] \in DOMAIN rooms /\ idOf[d] \in rooms[room[d]]
        /\ \A q \in DOMAIN rooms : \A j \in rooms[q] : \E d \in clients : room[d] = q /\ idOf[d] = j
        /\ \A q \in DOMAIN rooms : q = General \/ rooms[q] # {}
    BY DEF IndexInv, RoomsHold
  <2>4. \A d \in clients : d # c => idOf[d] # i
    BY <1>b, <1>c DEF IndexInv, Numbered
  <2>5. ASSUME NEW d \in clients
        PROVE  room'[d] \in DOMAIN rooms' /\ idOf'[d] \in rooms'[room'[d]]
    <3>1. CASE d = c
      BY <3>1, <1>a, <1>b, <2>2
    <3>2. CASE d # c
      <4>1. room'[d] = room[d] /\ idOf'[d] = idOf[d]
        BY <3>2, <1>a, <1>b
      <4>2. room[d] \in DOMAIN ps /\ idOf[d] \in ps[room[d]]
        <5>1. idOf[d] \in rooms[room[d]] \ {i} /\ room[d] \in DOMAIN rooms
          BY <3>2, <2>3, <2>4
        <5> HIDE DEF old, i
        <5> QED
          BY <5>1, <2>1
      <4> QED
        BY <4>1, <4>2, <2>2
    <3> QED
      BY <3>1, <3>2
  <2>6. ASSUME NEW q \in DOMAIN rooms', NEW j \in rooms'[q]
        PROVE  \E d \in clients : room'[d] = q /\ idOf'[d] = j
    <3>1. CASE q = r /\ j = i
      BY <3>1, <1>a, <1>b, <1>c
    <3>2. CASE q \in DOMAIN ps /\ j \in ps[q]
      <4>1. PICK d \in clients : room[d] = q /\ idOf[d] = j
        <5>1. q \in DOMAIN rooms /\ j \in rooms[q]
          BY <3>2, <2>1
        <5> QED
          BY <5>1, <2>3
      <4>2. d # c
        BY <3>2, <4>1, <2>1
      <4> QED
        BY <4>1, <4>2, <1>a, <1>b
    <3> QED
      BY <3>1, <3>2, <2>2, <2>6
  <2>7. General \in DOMAIN rooms' /\ \A q \in DOMAIN rooms' : q = General \/ rooms'[q] # {}
    BY <2>1, <2>2, <2>3
  <2> QED
    BY <1>a, <2>5, <2>6, <2>7 DEF RoomsHold
<1>4. NamesLead'
  BY <1>a DEF IndexInv, NamesLead
<1> QED
  BY <1>1, <1>2, <1>3, <1>4 DEF IndexInv

(* A client that leaves takes its entries in all three indexes with it.    *)
LEMMA UnregisterIndex ==
    ASSUME TypeOK, IndexInv, NEW c \in Conns, Unregister(c)
    PROVE  IndexInv'
<1> USE RegistryAssumption
<1> DEFINE old == room[c]
           i == idOf[c]
<1>a. /\ pc[c] = "unregister"
      /\ clients' = clients \ {c}
      /\ nameToId' = [nameToId EXCEPT ![NameOf[c]] = NoId]
      /\ rooms' = Prune(TakeOut(rooms, old, i), old)
      /\ pc' = [pc EXCEPT ![c] = "farewell"]
      /\ UNCHANGED <<nextId, idOf, room>>
  BY DEF Unregister, Goto
<1>b. /\ idOf \in [Conns -> Nat] /\ clients \subseteq Conns /\ nameToId \in [Users -> Nat]
      /\ pc \in [Tasks -> PCs] /\ c \in Tasks /\ NameOf \in [Conns -> Users]
  BY DEF TypeOK, Tasks
<1>c. c \in clients
  BY <1>a DEF IndexInv, Placed, Served
<1>1. Placed'
  BY <1>a, <1>b DEF IndexInv, Placed, Served, Tasks
<1>2. Numbered'
  BY <1>a DEF IndexInv, Numbered
<1>3. RoomsHold'
  <2>1. /\ DOMAIN rooms' = {q \in DOMAIN rooms : q = General \/ q # old \/ rooms[q] \ {i} # {}}
        /\ \A q \in DOMAIN rooms' : rooms'[q] = IF q = old THEN rooms[q] \ {i} ELSE rooms[q]
    BY <1>a DEF Prune, TakeOut
  <2>3. /\ General \in DOMAIN rooms
        /\ \A d \in clients : room[d] \in DOMAIN rooms /\ idOf[d] \in rooms[room[d]]
        /\ \A q \in DOMAIN rooms : \A j \in rooms[q] : \E d \in clients : room[d] = q /\ idOf[d] = j
        /\ \A q \in DOMAIN rooms : q = General \/ rooms[q] # {}
    BY DEF IndexInv, RoomsHold
  <2>4. \A d \in clients : d # c => idOf[d] # i
    BY <1>b, <1>c DEF IndexInv, Numbered
  <2>5. ASSUME NEW d \in clients'
        PROVE  room'[d] \in DOMAIN rooms' /\ idOf'[d] \in rooms'[room'[d]]
    <3>1. /\ d \in clients /\ room'[d] = room[d] /\ idOf'[d] = idOf[d]
          /\ idOf[d] \in rooms[room[d]] \ {i} /\ room[d] \in DOMAIN rooms
      BY <1>a, <2>3, <2>4
    <3> HIDE DEF old, i
    <3> QED
      BY <3>1, <2>1
  <2>6. ASSUME NEW q \in DOMAIN rooms', NEW j \in rooms'[q]
        PROVE  \E d \in clients' : room'[d] = q /\ idOf'[d] = j
    <3>1. PICK d \in clients : room[d] = q /\ idOf[d] = j
      <4>1. q \in DOMAIN rooms /\ j \in rooms[q]
        BY <2>1
      <4> QED
        BY <4>1, <2>3
    <3>2. d # c
      BY <3>1, <2>1
    <3> QED
      BY <3>1, <3>2, <1>a
  <2>7. General \in DOMAIN rooms' /\ \A q \in DOMAIN rooms' : q = General \/ rooms'[q] # {}
    BY <2>1, <2>3
  <2> QED
    BY <2>5, <2>6, <2>7 DEF RoomsHold
<1>4. NamesLead'
  <2>1. \A d \in clients' : NameOf[d] # NameOf[c] /\ d \in clients
    BY <1>a, <1>c, NamedOnce
  <2>2. \A d \in clients' : nameToId'[NameOf[d]] = idOf'[d]
    BY <1>a, <1>b, <2>1 DEF IndexInv, NamesLead
  <2>3. ASSUME NEW u \in Users, nameToId'[u] # NoId
        PROVE  \E d \in clients' : NameOf[d] = u
    <3>1. u # NameOf[c] /\ nameToId[u] # NoId
      BY <2>3, <1>a, <1>b
    <3> QED
      BY <3>1, <1>a DEF IndexInv, NamesLead
  <2> QED
    BY <2>2, <2>3 DEF NamesLead
<1> QED
  BY <1>1, <1>2, <1>3, <1>4 DEF IndexInv

(* Nobody is registered at first.                                          *)
LEMMA IndexInit == Init => IndexInv
BY RegistryAssumption
   DEF Init, IndexInv, Placed, Served, Numbered, RoomsHold, NamesLead, Tasks, NoId

(* The steps that disturb the registry are those three; the tasks of all   *)
(* others go from one place where they are served to another, or are       *)
(* served no more when their client is out.                                *)
LEMMA IndexStep == TypeOK /\ IndexInv /\ [Next]_vars => IndexInv'
<1> SUFFICES ASSUME TypeOK, IndexInv, [Next]_vars PROVE IndexInv'
  OBVIOUS
<1> DEFINE Quiet == /\ UNCHANGED <<registry, idOf>>
                    /\ \A d \in Conns : pc'[d] \in Served <=> pc[d] \in Served
<1>q. Quiet => IndexInv'
  BY QuietStep
<1>p. pc \in [Tasks -> PCs] /\ Admin \notin Conns /\ \A c \in Conns : c \in Tasks
  BY RegistryAssumption DEF TypeOK, Tasks
<1> USE DEF registry, local
<1>1. ASSUME NEW c \in Conns, HandshakeFails(c) \/ NameTaken(c) PROVE Quiet
  BY <1>1, <1>p DEF HandshakeFails, NameTaken, Goto, Served
<1>2. ASSUME NEW c \in Conns, TaskWork(c), ~Unregister(c) PROVE Quiet
  <2>1. CASE Welcome(c) \/ Greet(c)
    BY <2>1, <1>p DEF Welcome, Greet, Goto, Served
  <2>2. CASE Check(c) \/ Refuse(c) \/ Cast(c) \/ PmSend(c)
    BY <2>2, <1>p DEF Check, Refuse, Cast, PmSend, Return, Goto, Served
  <2>3. CASE TellOld(c) \/ TellSelf(c) \/ TellNew(c)
    BY <2>3, <1>p DEF TellOld, TellSelf, TellNew, Return, Goto, Served
  <2>4. CASE Farewell(c) \/ Abort(c)
    BY <2>4, <1>p DEF Farewell, Abort, Goto, Served
  <2> QED
    BY <1>2, <2>1, <2>2, <2>3, <2>4 DEF TaskWork
<1>3. ASSUME NEW c \in Conns, Reply(c) \/ Say(c) \/ \E u \in Users : Pm(c, u) PROVE Quiet
  BY <1>3, <1>p DEF Reply, Say, Pm, Ready, Goto, Served
<1>4. ASSUME NEW c \in Conns, Write(c) \/ WriteFails(c) \/ HangUp(c) PROVE Quiet
  BY <1>4 DEF Write, WriteFails, HangUp
<1>5. ASSUME NEW c \in Conns, ReadEnds(c) PROVE Quiet
  BY <1>5, <1>p DEF ReadEnds, AfterReadLoop, Goto, Served
<1>6. ASSUME Command \/ AdminNotify PROVE Quiet
  <2>1. UNCHANGED <<registry, idOf>>
    BY <1>6 DEF Command, AdminSay, AdminBlock, AdminNotify
  <2>2. \A d \in Conns : pc'[d] = pc[d]
    BY <1>6, <1>p DEF Command, AdminSay, AdminBlock, AdminNotify, Return, Goto
  <2> QED
    BY <2>1, <2>2
<1>7. ASSUME UNCHANGED vars PROVE Quiet
  BY <1>7 DEF vars
<1> HIDE DEF Quiet, registry, local
<1> QED
  BY <1>q, <1>1, <1>2, <1>3, <1>4, <1>5, <1>6, <1>7, RegisterIndex, JoinIndex,
     UnregisterIndex
  DEF Next, Frame

LEMMA IndexAlways == Spec => [](TypeOK /\ IndexInv)
<1>1. Init => TypeOK /\ IndexInv
  BY TypeInit, IndexInit
<1>2. TypeOK /\ IndexInv /\ [Next]_vars => (TypeOK /\ IndexInv)'
  BY TypeStep, IndexStep
<1> QED
  BY <1>1, <1>2, PTL DEF Spec

(* The registry's three indexes tell the same of every client.             *)
THEOREM Indexes == Spec => []IndexesAgree
BY IndexAlways, IndexesHold, PTL

(* A task that ends has taken its client out of the indexes.               *)
THEOREM Listed == Spec => []ListedIsServed
BY IndexAlways, IndexesHold, PTL

-----------------------------------------------------------------------------
(* Blocks.                                                                 *)

(* A message after a block was checked before it: the task is past the     *)
(* check no more when it has been counted.                                 *)
LateInv ==
    \A c \in Conns :
        /\ late[c] =< 1
        /\ NameOf[c] \notin blocked => late[c] = 0
        /\ late[c] = 1 => pc[c] \notin {"cast", "send"}

(* A message checked before the block is the only one on its way.          *)
LEMMA LateStep == TypeOK /\ LateInv /\ [Next]_vars => LateInv'
<1> SUFFICES ASSUME TypeOK, LateInv, [Next]_vars PROVE LateInv'
  OBVIOUS
<1>p. /\ pc \in [Tasks -> PCs] /\ Admin \notin Conns /\ \A c \in Conns : c \in Tasks
      /\ late \in [Conns -> Nat]
  BY RegistryAssumption DEF TypeOK, Tasks
<1> DEFINE Calm == /\ UNCHANGED <<late, blocked>>
                   /\ \A d \in Conns : pc'[d] = pc[d] \/ pc'[d] \notin {"cast", "send"}
<1>q. Calm => LateInv'
  BY <1>p DEF LateInv
<1> USE DEF local
<1>1. ASSUME NEW c \in Conns,
             HandshakeFails(c) \/ Register(c) \/ NameTaken(c) \/ Welcome(c) \/ Greet(c)
      PROVE  Calm
  BY <1>1, <1>p DEF HandshakeFails, Register, NameTaken, Welcome, Greet, Goto
<1>2. ASSUME NEW c \in Conns, Refuse(c) \/ TellOld(c) \/ TellSelf(c) \/ TellNew(c) PROVE Calm
  BY <1>2, <1>p DEF Refuse, TellOld, TellSelf, TellNew, Return, Goto
<1>3. ASSUME NEW c \in Conns, ReadEnds(c) \/ Unregister(c) \/ Farewell(c) \/ Abort(c) PROVE Calm
  BY <1>3, <1>p DEF ReadEnds, AfterReadLoop, Unregister, Farewell, Abort, Goto
<1>4. ASSUME NEW c \in Conns, Frame(c) PROVE Calm
  BY <1>4, <1>p DEF Frame, Reply, Say, Pm, Join, Goto
<1>5. ASSUME NEW c \in Conns, Write(c) \/ WriteFails(c) \/ HangUp(c) PROVE Calm
  BY <1>5, <1>p DEF Write, WriteFails, HangUp
<1>6. ASSUME NEW c \in Conns, Check(c) PROVE LateInv'
  <2>1. UNCHANGED <<late, blocked>>
    BY <1>6 DEF Check
  <2>2. /\ \A d \in Conns \ {c} : pc'[d] = pc[d]
        /\ NameOf[c] \in blocked => pc'[c] = "refused"
    BY <1>6, <1>p DEF Check, Goto, IsBlocked
  <2> QED
    BY <2>1, <2>2, <1>p DEF LateInv
<1>7. ASSUME NEW c \in Conns, Cast(c) \/ PmSend(c) PROVE LateInv'
  <2>1. pc[c] \in {"cast", "send"} /\ pc' = [pc EXCEPT ![c] = "recv"]
    BY <1>7 DEF Cast, PmSend, Return, Goto
  <2>2. late[c] = 0
    BY <2>1, <1>p DEF LateInv
  <2>3. UNCHANGED blocked /\ late' = IF NameOf[c] \in blocked
                                      THEN [late EXCEPT ![c] = 1] ELSE late
    BY <1>7, <2>2 DEF Cast, PmSend, Counted
  <2> QED
    BY <2>1, <2>3, <1>p DEF LateInv
<1>8. ASSUME AdminSay \/ AdminNotify PROVE Calm
  <2>1. UNCHANGED <<late, blocked>>
    BY <1>8 DEF AdminSay, AdminNotify
  <2>2. \A d \in Conns : pc'[d] = pc[d]
    BY <1>8, <1>p DEF AdminSay, AdminNotify, Return, Goto
  <2> QED
    BY <2>1, <2>2
<1>9. ASSUME NEW u \in Users, NEW block \in BOOLEAN, AdminBlock(u, block) PROVE LateInv'
  <2>1. \A d \in Conns : pc'[d] = pc[d]
    BY <1>9, <1>p DEF AdminBlock, Goto
  <2>2. \A d \in Conns : late'[d] = IF NameOf[d] = u THEN 0 ELSE late[d]
    BY <1>9 DEF AdminBlock
  <2>3. \A v \in Users : v # u => (v \in blocked' <=> v \in blocked)
    BY <1>9 DEF AdminBlock
  <2> QED
    BY <2>1, <2>2, <2>3, RegistryAssumption DEF LateInv
<1>10. ASSUME UNCHANGED vars PROVE Calm
  BY <1>10 DEF vars
<1> HIDE DEF Calm, local
<1> QED
  BY <1>q, <1>1, <1>2, <1>3, <1>4, <1>5, <1>6, <1>7, <1>8, <1>9, <1>10
  DEF Next, TaskWork, Command

(* A blocked client gets at most the one message out whose check was done  *)
(* before the block.                                                       *)
THEOREM BlockTakesEffect == Spec => []BlockLag
<1>1. Init => TypeOK /\ LateInv
  BY TypeInit DEF Init, LateInv
<1>2. TypeOK /\ LateInv /\ [Next]_vars => (TypeOK /\ LateInv)'
  BY TypeStep, LateStep
<1>3. LateInv => BlockLag
  BY DEF LateInv, BlockLag
<1> QED
  BY <1>1, <1>2, <1>3, PTL DEF Spec

-----------------------------------------------------------------------------
(* Private messages and notices.                                           *)

(* An id that was looked up for a name is, if anybody's, that of a         *)
(* connection of the name, since no id is given twice.                     *)
Known ==
    \A t \in Tasks :
        /\ kept[t].id < nextId
        /\ \A u \in kept[t].user, c \in Conns :
              idOf[c] = kept[t].id /\ idOf[c] # NoId => NameOf[c] = u

(* What a step may put in the variables of a task.                         *)
KeptStep ==
    \A t \in Tasks :
        \/ kept'[t] = kept[t]
        \/ kept'[t].id = NoId /\ kept'[t].user = {}
        \/ \E u \in Users : kept'[t].id = nameToId[u] /\ kept'[t].user = {u}

(* Nothing is kept at first.                                               *)
LEMMA KnownInit == Init => Known
BY DEF Init, Known, Nothing, NoId

(* Every step keeps what is kept, forgets it or looks up a name.           *)
LEMMA EveryKeptStep == TypeOK /\ [Next]_vars => KeptStep
<1> SUFFICES ASSUME TypeOK, [Next]_vars PROVE KeptStep
  OBVIOUS
<1>p. /\ kept \in [Tasks -> [room : Rooms, id : Nat, user : SUBSET Users]]
      /\ \A c \in Conns : c \in Tasks
      /\ Admin \in Tasks
  BY DEF TypeOK, Tasks
<1> USE DEF local
<1>1. ASSUME UNCHANGED kept PROVE KeptStep
  BY <1>1 DEF KeptStep
<1>2. ASSUME NEW t \in Tasks, Return(t) PROVE KeptStep
  BY <1>2, <1>p DEF KeptStep, Return, Nothing
<1>3. ASSUME NEW t \in Tasks, NEW r \in Rooms, Keep(t, r) PROVE KeptStep
  BY <1>3, <1>p DEF KeptStep, Keep, Nothing
<1>4. ASSUME NEW t \in Tasks, NEW u \in Users, Find(t, u) PROVE KeptStep
  BY <1>4, <1>p DEF KeptStep, Find, Nothing
<1>5. ASSUME NEW c \in Conns,
             \/ HandshakeFails(c) \/ Register(c) \/ NameTaken(c) \/ Welcome(c) \/ Greet(c)
             \/ Check(c) \/ TellOld(c) \/ TellSelf(c) \/ Farewell(c) \/ Abort(c)
             \/ Reply(c) \/ Write(c) \/ WriteFails(c) \/ HangUp(c) \/ ReadEnds(c)
      PROVE  UNCHANGED kept
  BY <1>5 DEF HandshakeFails, Register, NameTaken, Welcome, Greet, Check, TellOld,
     TellSelf, Farewell, Abort, Reply, Write, WriteFails, HangUp, ReadEnds
<1>6. ASSUME NEW c \in Conns, Refuse(c) \/ Cast(c) \/ PmSend(c) \/ TellNew(c)
      PROVE  Return(c)
  BY <1>6 DEF Refuse, Cast, PmSend, TellNew
<1>7. \A c \in Conns : room[c] \in Rooms
  BY DEF TypeOK
<1>8. ASSUME NEW c \in Conns, Say(c) \/ Unregister(c) \/ \E r \in Rooms : Join(c, r)
      PROVE  KeptStep
  BY <1>8, <1>3, <1>7, <1>p DEF Say, Unregister, Join
<1>9. ASSUME NEW c \in Conns, NEW u \in Users, Pm(c, u) PROVE KeptStep
  BY <1>9, <1>4, <1>p DEF Pm
<1>10. CASE AdminSay
  BY <1>10, <1>1 DEF AdminSay
<1>11. ASSUME NEW u \in Users, NEW block \in BOOLEAN, AdminBlock(u, block) PROVE KeptStep
  BY <1>11, <1>1, <1>4, <1>p DEF AdminBlock
<1>12. CASE AdminNotify
  BY <1>12, <1>2, <1>p DEF AdminNotify
<1>13. CASE UNCHANGED vars
  BY <1>13, <1>1 DEF vars
<1> HIDE DEF local
<1> QED
  BY <1>1, <1>2, <1>5, <1>6, <1>8, <1>9, <1>10, <1>11, <1>12, <1>13, <1>p
  DEF Next, TaskWork, Frame, Command

(* Ids are given by Register alone, one after the other.                   *)
LEMMA IdsStep ==
    TypeOK /\ [Next]_vars =>
        \/ UNCHANGED <<nextId, idOf>>
        \/ nextId' = nextId + 1 /\ \E c \in Conns : idOf' = [idOf EXCEPT ![c] = nextId]
<1> SUFFICES ASSUME TypeOK, [Next]_vars
             PROVE  \/ UNCHANGED <<nextId, idOf>>
                    \/ /\ nextId' = nextId + 1
                       /\ \E c \in Conns : idOf' = [idOf EXCEPT ![c] = nextId]
  OBVIOUS
<1> USE DEF registry
<1>1. ASSUME NEW c \in Conns, TaskWork(c) PROVE UNCHANGED <<nextId, idOf>>
  BY <1>1 DEF TaskWork, Welcome, Greet, Check, Refuse, Cast, PmSend, TellOld, TellSelf,
     TellNew, Unregister, Farewell, Abort
<1>2. ASSUME NEW c \in Conns, Frame(c) PROVE UNCHANGED <<nextId, idOf>>
  BY <1>2 DEF Frame, Reply, Say, Pm, Join
<1>3. ASSUME NEW c \in Conns,
             \/ HandshakeFails(c) \/ NameTaken(c)
             \/ Write(c) \/ WriteFails(c) \/ HangUp(c) \/ ReadEnds(c)
      PROVE  UNCHANGED <<nextId, idOf>>
  BY <1>3 DEF HandshakeFails, NameTaken, Write, WriteFails, HangUp, ReadEnds
<1>4. ASSUME NEW c \in Conns, Register(c)
      PROVE  nextId' = nextId + 1 /\ idOf' = [idOf EXCEPT ![c] = nextId]
  BY <1>4 DEF Register, FreshId
<1>5. ASSUME Command \/ AdminNotify PROVE UNCHANGED <<nextId, idOf>>
  BY <1>5 DEF Command, AdminSay, AdminBlock, AdminNotify
<1>6. ASSUME UNCHANGED vars PROVE UNCHANGED <<nextId, idOf>>
  BY <1>6 DEF vars
<1> HIDE DEF registry
<1> QED
  BY <1>1, <1>2, <1>3, <1>4, <1>5, <1>6 DEF Next

(* An id that was looked up belongs to the name it was looked up for, as   *)
(* long as the client is registered, and to nobody afterwards.             *)
LEMMA KnownStep == TypeOK /\ IndexInv /\ Known /\ [Next]_vars => Known'
<1> SUFFICES ASSUME TypeOK, IndexInv, Known, KeptStep, [Next]_vars PROVE Known'
  BY EveryKeptStep
<1>p. /\ kept \in [Tasks -> [room : Rooms, id : Nat, user : SUBSET Users]]
      /\ nextId \in Nat \ {0} /\ idOf \in [Conns -> Nat] /\ nameToId \in [Users -> Nat]
      /\ clients \subseteq Conns
  BY DEF TypeOK
<1>1. ASSUME NEW t \in Tasks
      PROVE  /\ kept'[t].id < nextId
             /\ \A u \in kept'[t].user, c \in Conns :
                   idOf[c] = kept'[t].id /\ idOf[c] # NoId => NameOf[c] = u
  <2>1. CASE kept'[t] = kept[t]
    BY <2>1 DEF Known
  <2>2. CASE kept'[t].id = NoId /\ kept'[t].user = {}
    BY <2>2, <1>p DEF NoId
  <2>3. ASSUME NEW u \in Users, kept'[t].id = nameToId[u], kept'[t].user = {u}
        PROVE  /\ kept'[t].id < nextId
               /\ \A v \in kept'[t].user, c \in Conns :
                     idOf[c] = kept'[t].id /\ idOf[c] # NoId => NameOf[c] = v
    <3>1. CASE nameToId[u] = NoId
      BY <2>3, <3>1, <1>p DEF NoId
    <3>2. CASE nameToId[u] # NoId
      <4>1. PICK d \in clients : NameOf[d] = u /\ nameToId[u] = idOf[d]
        BY <3>2 DEF IndexInv, NamesLead
      <4>2. d \in Conns /\ idOf[d] < nextId
        BY <1>p DEF IndexInv, Numbered
      <4>3. \A c \in Conns : idOf[c] = idOf[d] /\ idOf[c] # NoId => c = d
        BY <4>2 DEF IndexInv, Numbered
      <4> QED
        BY <2>3, <4>1, <4>2, <4>3
    <3> QED
      BY <3>1, <3>2
  <2> QED
    BY <2>1, <2>2, <2>3 DEF KeptStep
<1>2. CASE UNCHANGED <<nextId, idOf>>
  BY <1>1, <1>2 DEF Known
<1>3. ASSUME NEW c \in Conns, nextId' = nextId + 1, idOf' = [idOf EXCEPT ![c] = nextId]
      PROVE  Known'
  <2>1. \A t \in Tasks : kept'[t].id \in Nat
    BY <1>p DEF KeptStep, NoId
  <2>2. \A d \in Conns : idOf'[d] = IF d = c THEN nextId ELSE idOf[d]
    BY <1>3, <1>p
  <2>3. \A t \in Tasks : kept'[t].id < nextId /\ kept'[t].id < nextId'
    BY <1>1, <1>3, <1>p, <2>1
  <2>4. ASSUME NEW t \in Tasks, NEW u \in kept'[t].user, NEW d \in Conns,
               idOf'[d] = kept'[t].id, idOf'[d] # NoId
        PROVE  NameOf[d] = u
    <3>1. d # c
      BY <2>1, <2>2, <2>3, <2>4, <1>p
    <3> QED
      BY <3>1, <2>2, <2>4, <1>1
  <2> QED
    BY <2>3, <2>4 DEF Known
<1> QED
  BY <1>2, <1>3, IdsStep

(* A private message or a notice is where it was to go.                    *)
Meant(m, c) == m.kind \in {"pm", "notice"} => m.about = NameOf[c]

Addressed ==
    \A c \in Conns :
        /\ \A i \in 1..Len(queue[c]) : Meant(queue[c][i], c)
        /\ \A i \in 1..Len(written[c]) : Meant(written[c][i], c)

(* A message that is sent to its addressees is in the right queues.        *)
LEMMA SendAddressed ==
    ASSUME TypeOK, Addressed, NEW S \in SUBSET Conns, NEW m \in Messages, Send(S, m),
           \A c \in S : Meant(m, c), UNCHANGED written
    PROVE  Addressed'
<1>1. ASSUME NEW c \in Conns, NEW i \in 1..Len(queue'[c])
      PROVE  Meant(queue'[c][i], c)
  <2>1. queue[c] \in Seq(Messages)
    BY DEF TypeOK
  <2>2. CASE c \in S /\ Takes(c)
    <3>1. queue'[c] = Append(queue[c], m)
      BY <2>2 DEF Send, Put
    <3>2. i \in 1..Len(queue[c]) \/ i = Len(queue[c]) + 1
      BY <2>1, <3>1
    <3>3. queue'[c][i] = IF i = Len(queue[c]) + 1 THEN m ELSE queue[c][i]
      BY <2>1, <3>1, <3>2
    <3> QED
      BY <2>2, <3>2, <3>3 DEF Addressed
  <2>3. CASE ~(c \in S /\ Takes(c))
    BY <2>3 DEF Send, Addressed
  <2> QED
    BY <2>2, <2>3
<1>2. \A c \in Conns : \A i \in 1..Len(written'[c]) : Meant(written'[c][i], c)
  BY DEF Addressed
<1> QED
  BY <1>1, <1>2 DEF Addressed, Meant

(* Every message in a queue, or written, is for the name of its client.    *)
LEMMA AddressedStep ==
    TypeOK /\ IndexInv /\ Known /\ Addressed /\ [Next]_vars => Addressed'
<1> SUFFICES ASSUME TypeOK, IndexInv, Known, Addressed, [Next]_vars PROVE Addressed'
  OBVIOUS
<1>p. /\ \A c \in Conns : c \in Tasks /\ room[c] \in Rooms /\ kept[c].room \in Rooms
      /\ \A t \in Tasks : kept[t].user \subseteq Users
      /\ Admin \in Tasks /\ General \in Rooms /\ clients \subseteq Conns
  BY RegistryAssumption DEF TypeOK, Tasks
<1>s. ASSUME NEW t \in Tasks, NEW S, S \subseteq Conns, NEW kind \in Kinds,
             NEW about \in Rooms \cup Users, kind \notin {"pm", "notice"},
             Send(S, Msg(t, kind, about)), UNCHANGED written
      PROVE  Addressed'
  <2>1. Msg(t, kind, about) \in Messages /\ Msg(t, kind, about).kind = kind
    BY MsgType DEF Msg
  <2> QED
    BY <1>s, <2>1, SendAddressed DEF Meant
<1>t. ASSUME NEW t \in Tasks, NEW kind \in Kinds, NEW u \in kept[t].user,
             Send(ById(kept[t].id), Msg(t, kind, u)), UNCHANGED written
      PROVE  Addressed'
  <2>1. Msg(t, kind, u) \in Messages /\ Msg(t, kind, u).about = u
    BY <1>p, MsgType DEF Msg
  <2>2. ASSUME NEW d \in ById(kept[t].id) PROVE NameOf[d] = u
    BY <1>p DEF ById, Known, IndexInv, Numbered
  <2>3. ById(kept[t].id) \in SUBSET Conns
    BY <1>p DEF ById
  <2> QED
    BY <1>t, <2>1, <2>2, <2>3, SendAddressed DEF Meant
<1>u. ASSUME UNCHANGED <<queue, written>> PROVE Addressed'
  BY <1>u DEF Addressed, Meant
<1>1. ASSUME NEW c \in Conns,
             \/ HandshakeFails(c) \/ Register(c) \/ NameTaken(c) \/ HangUp(c) \/ ReadEnds(c)
             \/ Say(c) \/ Check(c) \/ Unregister(c) \/ (\E u \in Users : Pm(c, u))
             \/ \E r \in Rooms : Join(c, r)
      PROVE  UNCHANGED <<queue, written>>
  BY <1>1 DEF HandshakeFails, Register, NameTaken, HangUp, ReadEnds, Say, Check,
     Unregister, Pm, Join, channels
<1>2. ASSUME NEW c \in Conns, Welcome(c) PROVE Addressed'
  <2>1. queue[c] \in Seq(Messages) /\ Msg(c, "welcome", General) \in Messages
    BY <1>p, MsgType DEF TypeOK, Kinds
  <2>2. ASSUME NEW i \in 1..Len(Append(queue[c], Msg(c, "welcome", General)))
        PROVE  Meant(Append(queue[c], Msg(c, "welcome", General))[i], c)
    <3>1. CASE i = Len(queue[c]) + 1
      BY <2>1, <3>1 DEF Meant, Msg
    <3>2. CASE i \in 1..Len(queue[c])
      BY <2>1, <3>2 DEF Addressed
    <3> QED
      BY <2>1, <3>1, <3>2
  <2>3. /\ queue \in [Conns -> Seq(Messages)] /\ UNCHANGED written
        /\ queue' = [queue EXCEPT ![c] = Append(queue[c], Msg(c, "welcome", General))]
    BY <1>2 DEF Welcome, TypeOK
  <2> HIDE DEF Meant
  <2>4. \A d \in Conns : \A i \in 1..Len(queue'[d]) : Meant(queue'[d][i], d)
    BY <2>2, <2>3 DEF Addressed
  <2> QED
    BY <2>3, <2>4 DEF Addressed, Meant
<1>3. ASSUME NEW c \in Conns, Greet(c) \/ TellSelf(c) \/ TellOld(c) \/ TellNew(c) \/ Farewell(c)
      PROVE  Addressed'
  BY <1>3, <1>s, <1>p, Recipients DEF Greet, TellSelf, TellOld, TellNew, Farewell, RoomLeft, Kinds
<1>4. ASSUME NEW c \in Conns, Reply(c) \/ Refuse(c) \/ Cast(c) PROVE Addressed'
  BY <1>4, <1>s, <1>p, Recipients DEF Reply, Refuse, Cast, Kinds
<1>5. ASSUME NEW c \in Conns, PmSend(c) PROVE Addressed'
  BY <1>5, <1>t, <1>p DEF PmSend, Kinds
<1>6. ASSUME NEW c \in Conns, Write(c) PROVE Addressed'
  <2>1. /\ queue \in [Conns -> Seq(Messages)] /\ written \in [Conns -> Seq(Messages)]
        /\ queue[c] # <<>>
        /\ queue' = [queue EXCEPT ![c] = Tail(queue[c])]
        /\ \/ written' = [written EXCEPT ![c] = Append(written[c], Head(queue[c]))]
           \/ written' = written
    BY <1>6 DEF Write, TypeOK
  <2>2. ASSUME NEW d \in Conns, NEW i \in 1..Len(queue'[d]) PROVE Meant(queue'[d][i], d)
    <3>1. CASE d = c
      <4>1. i + 1 \in 1..Len(queue[c]) /\ queue'[c][i] = queue[c][i + 1]
        BY <2>1, <3>1, HeadTailProperties
      <4> QED
        BY <3>1, <4>1 DEF Addressed
    <3>2. CASE d # c
      BY <2>1, <3>2 DEF Addressed
    <3> QED
      BY <3>1, <3>2
  <2>3. Meant(Head(queue[c]), c)
    <3>1. 1 \in 1..Len(queue[c]) /\ Head(queue[c]) = queue[c][1]
      BY <2>1
    <3> QED
      BY <3>1 DEF Addressed
  <2>4. ASSUME NEW d \in Conns, NEW i \in 1..Len(written'[d]) PROVE Meant(written'[d][i], d)
    <3>1. CASE d = c /\ written' = [written EXCEPT ![c] = Append(written[c], Head(queue[c]))]
      <4>1. written'[c] = Append(written[c], Head(queue[c])) /\ written[c] \in Seq(Messages)
              /\ Head(queue[c]) \in Messages
        BY <2>1, <3>1
      <4>2. \/ written'[c][i] = Head(queue[c])
            \/ i \in 1..Len(written[c]) /\ written'[c][i] = written[c][i]
        <5> DEFINE w == written[c]
                   h == Head(queue[c])
        <5>1. w \in Seq(Messages) /\ h \in Messages /\ i \in 1..Len(Append(w, h))
                /\ written'[c] = Append(w, h)
          BY <3>1, <4>1
        <5> HIDE DEF w, h
        <5>2. \/ written'[c][i] = h
              \/ i \in 1..Len(w) /\ written'[c][i] = w[i]
          BY <5>1
        <5> QED
          BY <5>2 DEF w, h
      <4> QED
        BY <3>1, <2>3, <4>2 DEF Addressed
    <3>2. CASE written'[d] = written[d]
      BY <3>2 DEF Addressed
    <3> QED
      BY <2>1, <3>1, <3>2
  <2> QED
    BY <2>2, <2>4 DEF Addressed, Meant
<1>7. ASSUME NEW c \in Conns, WriteFails(c) \/ Abort(c) PROVE Addressed'
  <2>1. /\ queue \in [Conns -> Seq(Messages)] /\ UNCHANGED written
        /\ queue' = [queue EXCEPT ![c] = <<>>]
    BY <1>7 DEF WriteFails, Abort, TypeOK
  <2>2. \A d \in Conns : \A i \in 1..Len(queue'[d]) : Meant(queue'[d][i], d)
    BY <2>1 DEF Addressed
  <2> QED
    BY <2>1, <2>2 DEF Addressed, Meant
<1>8. CASE AdminSay
  BY <1>8, <1>s, <1>p DEF AdminSay, Kinds
<1>9. ASSUME NEW u \in Users, NEW block \in BOOLEAN, AdminBlock(u, block)
      PROVE  UNCHANGED <<queue, written>>
  BY <1>9 DEF AdminBlock, channels
<1>10. CASE AdminNotify
  BY <1>10, <1>t, <1>p DEF AdminNotify, Kinds
<1>11. ASSUME UNCHANGED vars PROVE UNCHANGED <<queue, written>>
  BY <1>11 DEF vars, channels
<1> QED
  BY <1>u, <1>1, <1>2, <1>3, <1>4, <1>5, <1>6, <1>7, <1>8, <1>9, <1>10, <1>11
  DEF Next, TaskWork, Frame, Command

(* What is in a queue or written to a peer is for its name, if it is for   *)
(* one name only.                                                          *)
LEMMA AddressedIsRight == TypeOK /\ Addressed => RightName
<1> SUFFICES ASSUME TypeOK, Addressed, NEW c \in Conns, NEW i \in DOMAIN Stream(c),
                    Stream(c)[i].kind \in {"pm", "notice"}
             PROVE  Stream(c)[i].about = NameOf[c]
  BY DEF RightName
<1>1. written[c] \in Seq(Messages) /\ queue[c] \in Seq(Messages)
  BY DEF TypeOK
<1>2. \/ i \in 1..Len(written[c]) /\ Stream(c)[i] = written[c][i]
      \/ i - Len(written[c]) \in 1..Len(queue[c]) /\ Stream(c)[i] = queue[c][i - Len(written[c])]
  <2> DEFINE w == written[c]
             q == queue[c]
  <2>1. w \in Seq(Messages) /\ q \in Seq(Messages) /\ Stream(c) = w \o q
    BY <1>1 DEF Stream
  <2>2. i \in DOMAIN (w \o q)
    BY <2>1
  <2> HIDE DEF w, q
  <2>3. i \in 1..Len(w) + Len(q) /\ Len(w) \in Nat /\ Len(q) \in Nat
    BY <2>1, <2>2, ConcatProperties
  <2>4. (w \o q)[i] = IF i <= Len(w) THEN w[i] ELSE q[i - Len(w)]
    BY <2>1, <2>3, ConcatProperties
  <2>5. \/ i \in 1..Len(w) /\ Stream(c)[i] = w[i]
        \/ i - Len(w) \in 1..Len(q) /\ Stream(c)[i] = q[i - Len(w)]
    BY <2>1, <2>3, <2>4
  <2> QED
    BY <2>5 DEF w, q
<1> QED
  BY <1>2 DEF Addressed, Meant

(* A private message, or the notice of a block, reaches nobody but a       *)
(* client of the name it was for, though the name was looked up in a       *)
(* critical section before and the client may have gone in between.        *)
THEOREM RightRecipient == Spec => []RightName
<1> DEFINE Inv == TypeOK /\ IndexInv /\ Known /\ Addressed
<1>1. Init => Inv
  BY TypeInit, IndexInit, KnownInit DEF Init, Addressed
<1>2. Inv /\ [Next]_vars => Inv'
  BY TypeStep, IndexStep, KnownStep, AddressedStep
<1>3. Inv => RightName
  BY AddressedIsRight
<1> QED
  BY <1>1, <1>2, <1>3, PTL DEF Spec

-----------------------------------------------------------------------------
(* What a client that follows the announcements knows.                     *)

(* Connections others may know of: registered, or about to be said gone.   *)
Active(d) == pc[d] \in Served \cup {"farewell"}

(* A task that owes nobody an announcement.                                *)
Settled == Served \ {"welcome", "greet", "left", "moved", "entered"}

(* The rooms whose members may have a connection on their lists.           *)
WasIn(d) == IF pc[d] = "left" THEN {room[d], kept[d].room}
            ELSE IF pc[d] = "farewell" THEN {kept[d].room}
            ELSE {room[d]}

Knows(c, d) == NameOf[d] \in view[c]

SeenAs(c, d) ==
    /\ Knows(c, d) => room[c] \in WasIn(d)
    /\ pc[d] \in Settled => (Knows(c, d) <=> room[c] = room[d])

(* Whose leaving is not announced yet shares its name with nobody, unless  *)
(* the name is overlapped.                                                 *)
OneActive ==
    \A d, e \in Conns :
        Active(d) /\ Active(e) /\ NameOf[d] = NameOf[e] /\ NameOf[d] \notin overlapped
            => d = e

Entering == \A c \in Conns : pc[c] \in {"welcome", "greet"} => room[c] = General

(* A follower knows of each other connection what was announced, and of    *)
(* nobody else.                                                            *)
Informed ==
    \A c \in clients \ missed :
        /\ \A d \in Conns :
              Active(d) /\ NameOf[d] \notin overlapped \cup {NameOf[c]} => SeenAs(c, d)
        /\ \A u \in view[c] \ (overlapped \cup {NameOf[c]}) :
              \E d \in Conns : Active(d) /\ NameOf[d] = u

ViewInv == OneActive /\ Entering /\ Informed

(* Nobody knows anybody at first.                                          *)
LEMMA ViewInit == Init => ViewInv
BY RegistryAssumption
   DEF Init, ViewInv, OneActive, Entering, Informed, Active, Served, Tasks

(* The members of a room, without the one that asks.                       *)
LEMMA MembersAre ==
    ASSUME TypeOK, IndexInv, NEW c \in Conns, NEW r
    PROVE  Members(r, c) = {d \in clients : room[d] = r /\ d # c}
<1>1. clients \subseteq Conns /\ idOf \in [Conns -> Nat]
  BY DEF TypeOK
<1>2. \A d \in clients : idOf[d] = idOf[c] <=> d = c
  BY <1>1 DEF IndexInv, Numbered
<1>3. CASE r \notin DOMAIN rooms
  BY <1>3 DEF Members, IndexInv, RoomsHold
<1>4. CASE r \in DOMAIN rooms
  <2>1. ASSUME NEW d PROVE d \in Members(r, c) <=> d \in clients /\ idOf[d] \in rooms[r] /\ idOf[d] # idOf[c]
    BY <1>4 DEF Members, ById
  <2>2. \A d \in clients : idOf[d] \in rooms[r] <=> room[d] = r
    <3>1. ASSUME NEW d \in clients, idOf[d] \in rooms[r] PROVE room[d] = r
      <4>1. PICK e \in clients : room[e] = r /\ idOf[e] = idOf[d]
        BY <1>4, <3>1 DEF IndexInv, RoomsHold
      <4>2. e = d
        BY <4>1, <1>1 DEF IndexInv, Numbered
      <4> QED
        BY <4>1, <4>2
    <3> QED
      BY <3>1 DEF IndexInv, RoomsHold
  <2> QED
    BY <2>1, <2>2, <1>2
<1> QED
  BY <1>3, <1>4

(* A send changes what a client knows if it is to it and gets through, and *)
(* else the client has missed something or nothing changes for it.         *)
LEMMA SendTells ==
    ASSUME TypeOK, NEW S, NEW m, Send(S, m)
    PROVE  /\ missed \subseteq missed'
           /\ \A c \in Conns : c \notin missed' =>
                 view'[c] = IF c \in S THEN Told(view[c], m) ELSE view[c]
BY DEF Send, TypeOK

(* A step after which everybody knows the same about tasks that are where  *)
(* it makes no difference to what others know.                             *)
CalmTask(d) ==
    \/ pc'[d] = pc[d] /\ (kept'[d] = kept[d] \/ pc[d] \notin {"left", "farewell"})
    \/ pc[d] \in Settled /\ pc'[d] \in Settled
    \/ pc[d] = "welcome" /\ pc'[d] = "greet"
    \/ pc[d] = "moved" /\ pc'[d] = "entered"
    \/ pc[d] \in {"hello", "abort"} /\ pc'[d] = "done"

(* A step of one task that sends nothing and leaves the registry alone     *)
(* keeps what the clients know.                                            *)
LEMMA CalmView ==
    ASSUME ViewInv, TypeOK, UNCHANGED <<clients, room, overlapped>>, missed \subseteq missed',
           \A c \in Conns : c \notin missed' => view'[c] = view[c],
           \A d \in Conns : CalmTask(d)
    PROVE  ViewInv'
<1>1. \A d \in Conns : /\ Active(d)' <=> Active(d)
                       /\ pc'[d] \in Settled => pc[d] \in Settled
                       /\ Active(d) => WasIn(d)' = WasIn(d)
                       /\ pc'[d] \in {"welcome", "greet"} => pc[d] \in {"welcome", "greet"}
  BY SMTT(30) DEF CalmTask, Active, Served, Settled, WasIn
<1>2. OneActive'
  BY <1>1 DEF ViewInv, OneActive
<1>3. Entering'
  BY <1>1 DEF ViewInv, Entering
<1>4. Informed'
  <2> SUFFICES ASSUME NEW c \in clients \ missed'
               PROVE  /\ \A d \in Conns :
                            Active(d)' /\ NameOf[d] \notin overlapped \cup {NameOf[c]}
                                => SeenAs(c, d)'
                      /\ \A u \in view'[c] \ (overlapped \cup {NameOf[c]}) :
                            \E d \in Conns : Active(d)' /\ NameOf[d] = u
    BY DEF Informed
  <2>1. c \in clients \ missed /\ c \in Conns /\ view'[c] = view[c]
    BY DEF TypeOK
  <2>2. ASSUME NEW d \in Conns, Active(d)', NameOf[d] \notin overlapped \cup {NameOf[c]}
        PROVE  SeenAs(c, d)'
    <3>1. SeenAs(c, d) /\ Active(d)
      BY <2>1, <2>2, <1>1 DEF ViewInv, Informed
    <3> QED
      BY <3>1, <2>1, <1>1 DEF SeenAs, Knows
  <2>3. \A u \in view'[c] \ (overlapped \cup {NameOf[c]}) :
           \E d \in Conns : Active(d)' /\ NameOf[d] = u
    BY <2>1, <1>1 DEF ViewInv, Informed
  <2> QED
    BY <2>2, <2>3
<1> QED
  BY <1>2, <1>3, <1>4 DEF ViewInv

(* An announcement about one connection changes what is known of its name  *)
(* only, and of no other connection, unless the name is overlapped.        *)
LEMMA AnnounceView ==
    ASSUME ViewInv, TypeOK, UNCHANGED <<clients, room, overlapped>>, missed \subseteq missed',
           NEW a \in Conns, Active(a), pc'[a] \notin {"welcome", "greet"},
           \A d \in Conns \ {a} : pc'[d] = pc[d] /\ kept'[d] = kept[d],
           \A c \in Conns : \A u : c \notin missed' /\ u # NameOf[a]
               => (u \in view'[c] <=> u \in view[c]),
           \A c \in clients \ missed' : NameOf[a] \notin overlapped \cup {NameOf[c]}
               => IF Active(a)' THEN SeenAs(c, a)' ELSE ~Knows(c, a)'
    PROVE  ViewInv'
<1>1. \A d \in Conns \ {a} : /\ Active(d)' <=> Active(d)
                             /\ pc'[d] \in Settled <=> pc[d] \in Settled
                             /\ WasIn(d)' = WasIn(d)
  BY DEF Active, Settled, WasIn
<1>2. OneActive'
  <2> SUFFICES ASSUME NEW d \in Conns, NEW e \in Conns, Active(d)', Active(e)',
                      NameOf[d] = NameOf[e], NameOf[d] \notin overlapped
               PROVE  d = e
    BY DEF OneActive
  <2>1. Active(d) /\ Active(e)
    BY <1>1
  <2> QED
    BY <2>1 DEF ViewInv, OneActive
<1>3. Entering'
  BY DEF ViewInv, Entering
<1>4. Informed'
  <2> SUFFICES ASSUME NEW c \in clients \ missed'
               PROVE  /\ \A d \in Conns :
                            Active(d)' /\ NameOf[d] \notin overlapped \cup {NameOf[c]}
                                => SeenAs(c, d)'
                      /\ \A u \in view'[c] \ (overlapped \cup {NameOf[c]}) :
                            \E d \in Conns : Active(d)' /\ NameOf[d] = u
    BY DEF Informed
  <2>1. c \in clients \ missed /\ c \in Conns
    BY DEF TypeOK
  <2>2. ASSUME NEW d \in Conns, Active(d)', NameOf[d] \notin overlapped \cup {NameOf[c]}
        PROVE  SeenAs(c, d)'
    <3>1. CASE d = a
      BY <2>2, <3>1
    <3>2. CASE d # a
      <4>1. Active(d) /\ SeenAs(c, d)
        BY <2>1, <2>2, <3>2, <1>1 DEF ViewInv, Informed
      <4>2. NameOf[d] # NameOf[a]
        BY <2>2, <3>2, <4>1 DEF ViewInv, OneActive
      <4>3. Knows(c, d)' <=> Knows(c, d)
        BY <2>1, <4>2 DEF Knows
      <4> QED
        BY <4>1, <4>3, <3>2, <1>1 DEF SeenAs
    <3> QED
      BY <3>1, <3>2
  <2>3. ASSUME NEW u \in view'[c] \ (overlapped \cup {NameOf[c]})
        PROVE  \E d \in Conns : Active(d)' /\ NameOf[d] = u
    <3>1. CASE u = NameOf[a]
      BY <2>3, <3>1 DEF Knows
    <3>2. CASE u # NameOf[a]
      <4>1. PICK d \in Conns : Active(d) /\ NameOf[d] = u
        BY <2>1, <2>3, <3>2 DEF ViewInv, Informed
      <4> QED
        BY <4>1, <3>2, <1>1
    <3> QED
      BY <3>1, <3>2
  <2> QED
    BY <2>2, <2>3
<1> QED
  BY <1>2, <1>3, <1>4 DEF ViewInv

(* A client joins the room all start in, and the others hear of it.        *)
LEMMA GreetView ==
    ASSUME TypeOK, IndexInv, ViewInv, NEW a \in Conns, Greet(a)
    PROVE  ViewInv'
<1> DEFINE m == Msg(a, "joined", General)
           S == Members(General, a)
<1>1. /\ pc[a] = "greet" /\ Send(S, m) /\ pc' = [pc EXCEPT ![a] = "recv"]
      /\ UNCHANGED <<clients, room, overlapped, kept>>
  BY DEF Greet, Goto, registry
<1>2. pc \in [Tasks -> PCs] /\ clients \subseteq Conns /\ a \in Tasks
  BY DEF TypeOK, Tasks
<1>3. S = {d \in clients : room[d] = General /\ d # a}
  BY MembersAre
<1>4. \A v : Told(v, m) = v \cup {NameOf[a]}
  BY DEF Told, Msg
<1> HIDE DEF m, S
<1>5. /\ missed \subseteq missed'
      /\ \A c \in Conns : c \notin missed' =>
             view'[c] = IF c \in S THEN view[c] \cup {NameOf[a]} ELSE view[c]
  BY <1>1, <1>4, SendTells
<1>6. Active(a) /\ Active(a)' /\ pc'[a] = "recv" /\ room[a] = General
  BY <1>1, <1>2 DEF Active, Served, ViewInv, Entering
<1>7. \A d \in Conns \ {a} : pc'[d] = pc[d] /\ kept'[d] = kept[d]
  BY <1>1, <1>2 DEF Tasks
<1>8. ASSUME NEW c \in clients \ missed', NameOf[a] \notin overlapped \cup {NameOf[c]}
      PROVE  SeenAs(c, a)'
  <2>1. SeenAs(c, a) /\ c \in Conns /\ c # a
    BY <1>2, <1>5, <1>6, <1>8 DEF ViewInv, Informed
  <2>2. Knows(c, a) => room[c] = General
    BY <2>1, <1>1, <1>6 DEF SeenAs, WasIn
  <2>3. Knows(c, a)' <=> room[c] = General
    BY <1>3, <1>5, <1>8, <2>1, <2>2 DEF Knows
  <2> QED
    BY <2>3, <1>1, <1>6 DEF SeenAs, WasIn
<1>9. \A c \in Conns : \A u : c \notin missed' /\ u # NameOf[a]
         => (u \in view'[c] <=> u \in view[c])
  BY <1>5
<1> QED
  BY <1>1, <1>5, <1>6, <1>7, <1>8, <1>9, AnnounceView

(* A client that moved is taken off the lists in the old room.             *)
LEMMA TellOldView ==
    ASSUME TypeOK, IndexInv, ViewInv, NEW a \in Conns, TellOld(a)
    PROVE  ViewInv'
<1> DEFINE m == Msg(a, "left", kept[a].room)
           S == Members(kept[a].room, a)
<1>1. /\ pc[a] = "left" /\ Send(S, m) /\ pc' = [pc EXCEPT ![a] = "moved"]
      /\ UNCHANGED <<clients, room, overlapped, kept>>
  BY DEF TellOld, RoomLeft, Goto, registry
<1>2. pc \in [Tasks -> PCs] /\ clients \subseteq Conns /\ a \in Tasks
  BY DEF TypeOK, Tasks
<1>3. S = {d \in clients : room[d] = kept[a].room /\ d # a}
  BY MembersAre
<1>4. \A v : Told(v, m) = v \ {NameOf[a]}
  BY DEF Told, Msg
<1> HIDE DEF m, S
<1>5. /\ missed \subseteq missed'
      /\ \A c \in Conns : c \notin missed' =>
             view'[c] = IF c \in S THEN view[c] \ {NameOf[a]} ELSE view[c]
  BY <1>1, <1>4, SendTells
<1>6. Active(a) /\ Active(a)' /\ pc'[a] = "moved"
  BY <1>1, <1>2 DEF Active, Served
<1>7. \A d \in Conns \ {a} : pc'[d] = pc[d] /\ kept'[d] = kept[d]
  BY <1>1, <1>2 DEF Tasks
<1>8. ASSUME NEW c \in clients \ missed', NameOf[a] \notin overlapped \cup {NameOf[c]}
      PROVE  SeenAs(c, a)'
  <2>1. SeenAs(c, a) /\ c \in Conns /\ c # a
    BY <1>2, <1>5, <1>6, <1>8 DEF ViewInv, Informed
  <2>2. Knows(c, a) => room[c] \in {room[a], kept[a].room}
    BY <2>1, <1>1 DEF SeenAs, WasIn
  <2>3. Knows(c, a)' => room[c] = room[a]
    BY <1>3, <1>5, <1>8, <2>1, <2>2 DEF Knows
  <2> QED
    BY <2>3, <1>1, <1>6 DEF SeenAs, WasIn, Settled
<1>9. \A c \in Conns : \A u : c \notin missed' /\ u # NameOf[a]
         => (u \in view'[c] <=> u \in view[c])
  BY <1>5
<1> QED
  BY <1>1, <1>5, <1>6, <1>7, <1>8, <1>9, AnnounceView

(* It is put on the lists in the new one.                                  *)
LEMMA TellNewView ==
    ASSUME TypeOK, IndexInv, ViewInv, NEW a \in Conns, TellNew(a)
    PROVE  ViewInv'
<1> DEFINE m == Msg(a, "joined", room[a])
           S == Members(room[a], a)
<1>1. /\ pc[a] = "entered" /\ Send(S, m) /\ pc' = [pc EXCEPT ![a] = "recv"]
      /\ kept' = [kept EXCEPT ![a] = Nothing]
      /\ UNCHANGED <<clients, room, overlapped>>
  BY DEF TellNew, Return, Goto, registry
<1>2. /\ pc \in [Tasks -> PCs] /\ clients \subseteq Conns /\ a \in Tasks
      /\ kept \in [Tasks -> [room : Rooms, id : Nat, user : SUBSET Users]]
  BY DEF TypeOK, Tasks
<1>3. S = {d \in clients : room[d] = room[a] /\ d # a}
  BY MembersAre
<1>4. \A v : Told(v, m) = v \cup {NameOf[a]}
  BY DEF Told, Msg
<1> HIDE DEF m, S
<1>5. /\ missed \subseteq missed'
      /\ \A c \in Conns : c \notin missed' =>
             view'[c] = IF c \in S THEN view[c] \cup {NameOf[a]} ELSE view[c]
  BY <1>1, <1>4, SendTells
<1>6. Active(a) /\ Active(a)' /\ pc'[a] = "recv"
  BY <1>1, <1>2 DEF Active, Served
<1>7. \A d \in Conns \ {a} : pc'[d] = pc[d] /\ kept'[d] = kept[d]
  BY <1>1, <1>2 DEF Tasks
<1>8. ASSUME NEW c \in clients \ missed', NameOf[a] \notin overlapped \cup {NameOf[c]}
      PROVE  SeenAs(c, a)'
  <2>1. SeenAs(c, a) /\ c \in Conns /\ c # a
    BY <1>2, <1>5, <1>6, <1>8 DEF ViewInv, Informed
  <2>2. Knows(c, a) => room[c] = room[a]
    BY <2>1, <1>1 DEF SeenAs, WasIn
  <2>3. Knows(c, a)' <=> room[c] = room[a]
    BY <1>3, <1>5, <1>8, <2>1, <2>2 DEF Knows
  <2> QED
    BY <2>3, <1>1, <1>6 DEF SeenAs, WasIn
<1>9. \A c \in Conns : \A u : c \notin missed' /\ u # NameOf[a]
         => (u \in view'[c] <=> u \in view[c])
  BY <1>5
<1> QED
  BY <1>1, <1>5, <1>6, <1>7, <1>8, <1>9, AnnounceView

(* A client that has left is on nobody's list when the room has been told. *)
LEMMA FarewellView ==
    ASSUME TypeOK, IndexInv, ViewInv, NEW a \in Conns, Farewell(a)
    PROVE  ViewInv'
<1> DEFINE m == Msg(a, "left", kept[a].room)
           S == Members(kept[a].room, a)
<1>1. /\ pc[a] = "farewell" /\ Send(S, m) /\ pc' = [pc EXCEPT ![a] = "abort"]
      /\ UNCHANGED <<clients, room, overlapped, kept>>
  BY DEF Farewell, Goto, registry
<1>2. pc \in [Tasks -> PCs] /\ clients \subseteq Conns /\ a \in Tasks
  BY DEF TypeOK, Tasks
<1>3. S = {d \in clients : room[d] = kept[a].room /\ d # a}
  BY MembersAre
<1>4. \A v : Told(v, m) = v \ {NameOf[a]}
  BY DEF Told, Msg
<1> HIDE DEF m, S
<1>5. /\ missed \subseteq missed'
      /\ \A c \in Conns : c \notin missed' =>
             view'[c] = IF c \in S THEN view[c] \ {NameOf[a]} ELSE view[c]
  BY <1>1, <1>4, SendTells
<1>6. Active(a) /\ ~Active(a)' /\ pc'[a] = "abort"
  BY <1>1, <1>2 DEF Active, Served
<1>7. \A d \in Conns \ {a} : pc'[d] = pc[d] /\ kept'[d] = kept[d]
  BY <1>1, <1>2 DEF Tasks
<1>8. ASSUME NEW c \in clients \ missed', NameOf[a] \notin overlapped \cup {NameOf[c]}
      PROVE  ~Knows(c, a)'
  <2>1. SeenAs(c, a) /\ c \in Conns /\ c # a
    BY <1>2, <1>5, <1>6, <1>8 DEF ViewInv, Informed
  <2>2. Knows(c, a) => room[c] = kept[a].room
    BY <2>1, <1>1 DEF SeenAs, WasIn
  <2> QED
    BY <1>3, <1>5, <1>8, <2>1, <2>2 DEF Knows
<1>9. \A c \in Conns : \A u : c \notin missed' /\ u # NameOf[a]
         => (u \in view'[c] <=> u \in view[c])
  BY <1>5
<1> QED
  BY <1>1, <1>5, <1>6, <1>7, <1>8, <1>9, AnnounceView

(* Who enters a room sees the names of the clients that are in it at that  *)
(* moment; the announcements of those that are on their way are to come.   *)
LEMMA EnteringSees ==
    ASSUME TypeOK, IndexInv, ViewInv, NEW r, NEW v, v = NamesIn(r, clients),
           NEW d \in Conns, Active(d), NameOf[d] \notin overlapped
    PROVE  /\ NameOf[d] \in v => r \in WasIn(d)
           /\ pc[d] \in Settled => (NameOf[d] \in v <=> r = room[d])
<1>1. \A e \in clients : e \in Conns /\ Active(e)
  BY DEF TypeOK, IndexInv, Placed, Active
<1>2. NameOf[d] \in v <=> \E e \in clients : room[e] = r /\ NameOf[e] = NameOf[d]
  BY DEF NamesIn
<1>3. NameOf[d] \in v <=> d \in clients /\ room[d] = r
  BY <1>1, <1>2 DEF ViewInv, OneActive
<1>4. pc[d] = "farewell" => d \notin clients
  BY DEF IndexInv, Placed, Served
<1>5. pc[d] \in Settled => d \in clients
  BY DEF IndexInv, Placed, Settled
<1> QED
  BY <1>3, <1>4, <1>5 DEF WasIn

(* A name that is registered is on no list before it is announced, unless  *)
(* its old connection is still to be said gone.                            *)
LEMMA RegisterView ==
    ASSUME TypeOK, IndexInv, ViewInv, NEW a \in Conns, Register(a)
    PROVE  ViewInv'
<1>1. /\ pc[a] = "hello" /\ nameToId[NameOf[a]] = NoId
      /\ clients' = clients \cup {a}
      /\ room' = [room EXCEPT ![a] = General]
      /\ view' = [view EXCEPT ![a] = NamesIn(General, clients)]
      /\ pc' = [pc EXCEPT ![a] = "welcome"]
      /\ UNCHANGED <<kept, missed>>
  BY DEF Register, Goto
<1>2. /\ overlapped \subseteq overlapped'
      /\ \A d \in Conns : pc[d] = "farewell" /\ NameOf[d] = NameOf[a] => NameOf[a] \in overlapped'
  BY DEF Register
<1>3. /\ pc \in [Tasks -> PCs] /\ clients \subseteq Conns /\ \A d \in Conns : d \in Tasks
      /\ room \in [Conns -> Rooms] /\ view \in [Conns -> SUBSET Users]
  BY DEF TypeOK, Tasks
<1>4. a \notin clients /\ ~Active(a) /\ Active(a)'
  BY <1>1, <1>3 DEF IndexInv, Placed, Served, Active
<1>5. \A d \in Conns \ {a} : /\ pc'[d] = pc[d] /\ room'[d] = room[d] /\ view'[d] = view[d]
                             /\ Active(d)' <=> Active(d)
                             /\ WasIn(d)' = WasIn(d)
  BY <1>1, <1>3 DEF Active, WasIn
<1>6. /\ pc'[a] = "welcome" /\ room'[a] = General /\ WasIn(a)' = {General}
      /\ view'[a] = NamesIn(General, clients)
  BY <1>1, <1>3 DEF WasIn
<1>7. \A d \in Conns : Active(d) /\ NameOf[d] = NameOf[a] => NameOf[a] \in overlapped'
  <2>1. \A d \in clients : NameOf[d] # NameOf[a]
    BY <1>1 DEF IndexInv, NamesLead, Numbered
  <2>2. \A d \in Conns : Active(d) => d \in clients \/ pc[d] = "farewell"
    BY DEF Active, IndexInv, Placed
  <2> QED
    BY <2>1, <2>2, <1>2
<1>8. OneActive'
  BY <1>2, <1>4, <1>5, <1>7 DEF ViewInv, OneActive
<1>9. Entering'
  BY <1>5, <1>6 DEF ViewInv, Entering
<1>10. Informed'
  <2>1. ASSUME NEW c \in clients' \ missed', c # a,
               NEW d \in Conns, Active(d)', NameOf[d] \notin overlapped' \cup {NameOf[c]}
        PROVE  SeenAs(c, d)'
    <3>1. c \in clients \ missed /\ c \in Conns /\ view'[c] = view[c] /\ room'[c] = room[c]
      BY <2>1, <1>1, <1>3, <1>5
    <3>2. CASE d = a
      <4>1. NameOf[a] \notin view[c]
        BY <2>1, <3>1, <3>2, <1>2, <1>7 DEF ViewInv, Informed
      <4> QED
        BY <3>1, <3>2, <4>1, <1>6 DEF SeenAs, Knows, Settled
    <3>3. CASE d # a
      <4>1. Active(d) /\ SeenAs(c, d)
        BY <2>1, <3>1, <3>3, <1>2, <1>5 DEF ViewInv, Informed
      <4> QED
        BY <3>1, <3>3, <4>1, <1>5 DEF SeenAs, Knows
    <3> QED
      BY <3>2, <3>3
  <2>2. ASSUME NEW d \in Conns, Active(d)', NameOf[d] \notin overlapped' \cup {NameOf[a]}
        PROVE  SeenAs(a, d)'
    <3>1. d # a /\ Active(d) /\ NameOf[d] \notin overlapped
      BY <2>2, <1>2, <1>5
    <3>2. /\ NameOf[d] \in view'[a] => General \in WasIn(d)
          /\ pc[d] \in Settled => (NameOf[d] \in view'[a] <=> General = room[d])
      BY <3>1, <1>6, EnteringSees
    <3> QED
      BY <3>1, <3>2, <1>5, <1>6 DEF SeenAs, Knows
  <2>3. ASSUME NEW c \in clients' \ missed', NEW u \in view'[c] \ (overlapped' \cup {NameOf[c]})
        PROVE  \E d \in Conns : Active(d)' /\ NameOf[d] = u
    <3>1. CASE c = a
      <4>1. PICK d \in clients : NameOf[d] = u
        BY <2>3, <3>1, <1>6 DEF NamesIn
      <4>2. d \in Conns /\ Active(d) /\ d # a
        BY <4>1, <1>3, <1>4 DEF IndexInv, Placed, Active
      <4> QED
        BY <4>1, <4>2, <1>5
    <3>2. CASE c # a
      <4>1. c \in clients \ missed /\ view'[c] = view[c]
        BY <3>2, <1>1, <1>3, <1>5
      <4>2. PICK d \in Conns : Active(d) /\ NameOf[d] = u
        BY <2>3, <4>1, <1>2 DEF ViewInv, Informed
      <4> QED
        BY <4>2, <1>4, <1>5
    <3> QED
      BY <3>1, <3>2
  <2> QED
    BY <2>1, <2>2, <2>3 DEF Informed
<1> QED
  BY <1>8, <1>9, <1>10 DEF ViewInv

(* A client that moves leaves one list for another when both rooms have    *)
(* been told.                                                              *)
LEMMA JoinView ==
    ASSUME TypeOK, IndexInv, ViewInv, NEW a \in Conns, NEW r \in Rooms, Join(a, r)
    PROVE  ViewInv'
<1>1. /\ pc[a] = "recv" /\ clients' = clients
      /\ room' = [room EXCEPT ![a] = r]
      /\ view' = [view EXCEPT ![a] = NamesIn(r, clients)]
      /\ missed' = missed \ {a}
      /\ pc' = [pc EXCEPT ![a] = "left"]
      /\ kept' = [kept EXCEPT ![a] = [Nothing EXCEPT !.room = room[a]]]
      /\ overlapped' = overlapped
  BY DEF Join, Goto, Ready, Keep
<1>3. /\ pc \in [Tasks -> PCs] /\ clients \subseteq Conns /\ \A d \in Conns : d \in Tasks
      /\ room \in [Conns -> Rooms] /\ view \in [Conns -> SUBSET Users]
      /\ kept \in [Tasks -> [room : Rooms, id : Nat, user : SUBSET Users]]
  BY DEF TypeOK, Tasks
<1>4. Active(a) /\ Active(a)' /\ pc[a] \in Settled
  BY <1>1, <1>3 DEF Active, Settled, Served
<1>5. \A d \in Conns \ {a} : /\ pc'[d] = pc[d] /\ room'[d] = room[d] /\ view'[d] = view[d]
                             /\ Active(d)' <=> Active(d)
                             /\ WasIn(d)' = WasIn(d)
  BY <1>1, <1>3 DEF Active, WasIn
<1>6. /\ pc'[a] = "left" /\ room'[a] = r /\ view'[a] = NamesIn(r, clients)
      /\ room[a] \in WasIn(a)'
  BY <1>1, <1>3 DEF WasIn, Nothing
<1>8. OneActive'
  BY <1>1, <1>4, <1>5 DEF ViewInv, OneActive
<1>9. Entering'
  BY <1>5, <1>6 DEF ViewInv, Entering
<1>10. Informed'
  <2>1. ASSUME NEW c \in clients' \ missed', c # a,
               NEW d \in Conns, Active(d)', NameOf[d] \notin overlapped' \cup {NameOf[c]}
        PROVE  SeenAs(c, d)'
    <3>1. c \in clients \ missed /\ c \in Conns /\ view'[c] = view[c] /\ room'[c] = room[c]
      BY <2>1, <1>1, <1>3, <1>5
    <3>2. SeenAs(c, d) /\ Active(d)
      BY <2>1, <3>1, <1>1, <1>4, <1>5 DEF ViewInv, Informed
    <3>3. CASE d = a
      <4>1. Knows(c, a)' => room'[c] = room[a]
        BY <3>1, <3>2, <3>3, <1>4 DEF SeenAs, Knows
      <4> QED
        BY <3>3, <4>1, <1>6 DEF SeenAs, Settled
    <3>4. CASE d # a
      BY <3>1, <3>2, <3>4, <1>5 DEF SeenAs, Knows
    <3> QED
      BY <3>3, <3>4
  <2>2. ASSUME NEW d \in Conns, Active(d)', NameOf[d] \notin overlapped' \cup {NameOf[a]}
        PROVE  SeenAs(a, d)'
    <3>1. d # a /\ Active(d) /\ NameOf[d] \notin overlapped
      BY <2>2, <1>1, <1>5
    <3>2. /\ NameOf[d] \in view'[a] => r \in WasIn(d)
          /\ pc[d] \in Settled => (NameOf[d] \in view'[a] <=> r = room[d])
      BY <3>1, <1>6, EnteringSees
    <3> QED
      BY <3>1, <3>2, <1>5, <1>6 DEF SeenAs, Knows
  <2>3. ASSUME NEW c \in clients' \ missed', NEW u \in view'[c] \ (overlapped' \cup {NameOf[c]})
        PROVE  \E d \in Conns : Active(d)' /\ NameOf[d] = u
    <3>1. CASE c = a
      <4>1. PICK d \in clients : NameOf[d] = u
        BY <2>3, <3>1, <1>6 DEF NamesIn
      <4>2. d \in Conns /\ Active(d)
        BY <4>1, <1>3 DEF IndexInv, Placed, Active
      <4> QED
        BY <4>1, <4>2, <1>4, <1>5
    <3>2. CASE c # a
      <4>1. c \in clients \ missed /\ view'[c] = view[c]
        BY <3>2, <1>1, <1>3, <1>5
      <4>2. PICK d \in Conns : Active(d) /\ NameOf[d] = u
        BY <2>3, <4>1, <1>1 DEF ViewInv, Informed
      <4> QED
        BY <4>2, <1>4, <1>5
    <3> QED
      BY <3>1, <3>2
  <2> QED
    BY <2>1, <2>2, <2>3 DEF Informed
<1> QED
  BY <1>8, <1>9, <1>10 DEF ViewInv

(* A client that goes is on the lists in the room it was in until the room *)
(* is told.                                                                *)
LEMMA UnregisterView ==
    ASSUME TypeOK, IndexInv, ViewInv, NEW a \in Conns, Unregister(a)
    PROVE  ViewInv'
<1>1. /\ pc[a] = "unregister" /\ clients' = clients \ {a}
      /\ pc' = [pc EXCEPT ![a] = "farewell"]
      /\ kept' = [kept EXCEPT ![a] = [Nothing EXCEPT !.room = room[a]]]
      /\ UNCHANGED <<room, view, missed, overlapped>>
  BY DEF Unregister, Goto, Keep, channels
<1>3. /\ pc \in [Tasks -> PCs] /\ clients \subseteq Conns /\ \A d \in Conns : d \in Tasks
      /\ kept \in [Tasks -> [room : Rooms, id : Nat, user : SUBSET Users]]
  BY DEF TypeOK, Tasks
<1>4. Active(a) /\ Active(a)' /\ pc[a] \in Settled
  BY <1>1, <1>3 DEF Active, Settled, Served
<1>5. \A d \in Conns \ {a} : /\ pc'[d] = pc[d]
                             /\ Active(d)' <=> Active(d)
                             /\ WasIn(d)' = WasIn(d)
  BY <1>1, <1>3 DEF Active, WasIn
<1>6. pc'[a] = "farewell" /\ room[a] \in WasIn(a)'
  BY <1>1, <1>3 DEF WasIn, Nothing
<1>8. OneActive'
  BY <1>1, <1>4, <1>5 DEF ViewInv, OneActive
<1>9. Entering'
  BY <1>1, <1>5, <1>6 DEF ViewInv, Entering
<1>10. Informed'
  <2>1. ASSUME NEW c \in clients' \ missed',
               NEW d \in Conns, Active(d)', NameOf[d] \notin overlapped' \cup {NameOf[c]}
        PROVE  SeenAs(c, d)'
    <3>1. c \in clients \ missed /\ view'[c] = view[c] /\ room'[c] = room[c]
      BY <2>1, <1>1
    <3>2. SeenAs(c, d) /\ Active(d)
      BY <2>1, <3>1, <1>1, <1>4, <1>5 DEF ViewInv, Informed
    <3>3. CASE d = a
      BY <3>1, <3>2, <3>3, <1>4, <1>6 DEF SeenAs, Knows, Settled, Served
    <3>4. CASE d # a
      BY <3>1, <3>2, <3>4, <1>1, <1>5 DEF SeenAs, Knows
    <3> QED
      BY <3>3, <3>4
  <2>2. ASSUME NEW c \in clients' \ missed', NEW u \in view'[c] \ (overlapped' \cup {NameOf[c]})
        PROVE  \E d \in Conns : Active(d)' /\ NameOf[d] = u
    <3>1. PICK d \in Conns : Active(d) /\ NameOf[d] = u
      BY <2>2, <1>1 DEF ViewInv, Informed
    <3> QED
      BY <3>1, <1>4, <1>5
  <2> QED
    BY <2>1, <2>2 DEF Informed
<1> QED
  BY <1>8, <1>9, <1>10 DEF ViewInv

(* Messages that announce nobody leave what clients know as it is.         *)
LEMMA QuietSend ==
    ASSUME TypeOK, NEW S, NEW m, Send(S, m), m.kind \notin {"joined", "left"}
    PROVE  /\ missed \subseteq missed'
           /\ \A c \in Conns : c \notin missed' => view'[c] = view[c]
<1>1. \A v : Told(v, m) = v
  BY DEF Told
<1> QED
  BY <1>1, SendTells

(* What the clients know is right, up to the announcements that are still  *)
(* to come, after every step.                                              *)
LEMMA ViewStep == TypeOK /\ IndexInv /\ ViewInv /\ [Next]_vars => ViewInv'
<1> SUFFICES ASSUME TypeOK, IndexInv, ViewInv, [Next]_vars PROVE ViewInv'
  OBVIOUS
<1>p. /\ pc \in [Tasks -> PCs] /\ \A c \in Conns : c \in Tasks /\ c # Admin
      /\ kept \in [Tasks -> [room : Rooms, id : Nat, user : SUBSET Users]]
  BY RegistryAssumption DEF TypeOK, Tasks
<1> DEFINE Same == /\ missed \subseteq missed'
                   /\ \A c \in Conns : c \notin missed' => view'[c] = view[c]
           Fixed == UNCHANGED <<clients, room, overlapped>>
           Calm == \A d \in Conns : CalmTask(d)
<1>q. Same /\ Fixed /\ Calm => ViewInv'
  BY CalmView
<1>s. ASSUME NEW t, NEW S, NEW kind, NEW about, Send(S, Msg(t, kind, about)),
             kind \notin {"joined", "left"}
      PROVE  Same
  BY <1>s, QuietSend DEF Msg
<1> USE DEF registry, channels, local
<1>1. ASSUME NEW c \in Conns,
             \/ HandshakeFails(c) \/ NameTaken(c) \/ Welcome(c) \/ Check(c) \/ Say(c)
             \/ (\E u \in Users : Pm(c, u)) \/ ReadEnds(c) \/ Abort(c)
      PROVE  Same /\ Fixed /\ Calm
  <2>1. Same /\ Fixed
    BY <1>1 DEF HandshakeFails, NameTaken, Welcome, Check, Say, Pm, ReadEnds, Abort
  <2>2. \A d \in Conns \ {c} : pc'[d] = pc[d] /\ kept'[d] = kept[d]
    BY <1>1, <1>p DEF HandshakeFails, NameTaken, Welcome, Check, Say, Pm, ReadEnds, Abort,
       Goto, Keep, Find
  <2>3. \/ pc[c] = "hello" /\ pc'[c] = "done"
        \/ pc[c] = "welcome" /\ pc'[c] = "greet"
        \/ pc[c] \in Settled /\ pc'[c] \in Settled
        \/ pc[c] = "abort" /\ pc'[c] = "done"
    BY <1>1, <1>p DEF HandshakeFails, NameTaken, Welcome, Check, Say, Pm, ReadEnds, Abort,
       Goto, Ready, AfterReadLoop, Settled, Served
  <2>4. Calm
    BY <2>2, <2>3 DEF CalmTask
  <2> QED
    BY <2>1, <2>4
<1>2. ASSUME NEW c \in Conns, Refuse(c) \/ Cast(c) \/ PmSend(c) PROVE Same /\ Fixed /\ Calm
  <2>1. Same
    BY <1>2, <1>s DEF Refuse, Cast, PmSend
  <2>2. /\ Fixed /\ pc[c] \in Settled /\ pc'[c] \in Settled
        /\ \A d \in Conns \ {c} : pc'[d] = pc[d] /\ kept'[d] = kept[d]
    BY <1>2, <1>p DEF Refuse, Cast, PmSend, Return, Goto, Settled, Served
  <2> QED
    BY <2>1, <2>2 DEF CalmTask
<1>3. ASSUME NEW c \in Conns, Reply(c) PROVE Same /\ Fixed /\ Calm
  <2>1. Same
    BY <1>3, <1>s DEF Reply
  <2> QED
    BY <1>3, <2>1 DEF Reply, CalmTask
<1>4. ASSUME NEW c \in Conns, TellSelf(c) PROVE Same /\ Fixed /\ Calm
  <2>1. Same
    BY <1>4, <1>s DEF TellSelf
  <2>2. /\ Fixed /\ pc[c] = "moved" /\ pc'[c] = "entered" /\ kept' = kept
        /\ \A d \in Conns \ {c} : pc'[d] = pc[d]
    BY <1>4, <1>p DEF TellSelf, Goto
  <2> QED
    BY <2>1, <2>2 DEF CalmTask
<1>5. ASSUME NEW c \in Conns, Write(c) \/ WriteFails(c) \/ HangUp(c)
      PROVE  Same /\ Fixed /\ Calm
  BY <1>5 DEF Write, WriteFails, HangUp, CalmTask
<1>6. ASSUME AdminSay \/ AdminNotify PROVE Same /\ Fixed /\ Calm
  <2>1. Same
    BY <1>6, <1>s DEF AdminSay, AdminNotify
  <2>2. Fixed /\ \A d \in Conns : pc'[d] = pc[d] /\ kept'[d] = kept[d]
    BY <1>6, <1>p DEF AdminSay, AdminNotify, Return, Goto
  <2> QED
    BY <2>1, <2>2 DEF CalmTask
<1>7. ASSUME NEW u \in Users, NEW block \in BOOLEAN, AdminBlock(u, block)
      PROVE  Same /\ Fixed /\ Calm
  <2>1. Same /\ Fixed
    BY <1>7 DEF AdminBlock
  <2>2. \A d \in Conns : pc'[d] = pc[d] /\ kept'[d] = kept[d]
    BY <1>7, <1>p DEF AdminBlock, Find, Goto
  <2> QED
    BY <2>1, <2>2 DEF CalmTask
<1>8. ASSUME UNCHANGED vars PROVE Same /\ Fixed /\ Calm
  BY <1>8 DEF vars, CalmTask
<1> HIDE DEF registry, channels, local, Same, Fixed, Calm
<1> QED
  BY <1>q, <1>1, <1>2, <1>3, <1>4, <1>5, <1>6, <1>7, <1>8, RegisterView, GreetView,
     TellOldView, TellNewView, JoinView, UnregisterView, FarewellView
  DEF Next, TaskWork, Frame, Command

(* Where nothing is to come any more, it is right without reserve.         *)
LEMMA InformedIsRight == TypeOK /\ IndexInv /\ ViewInv => ViewIsRight
<1> SUFFICES ASSUME TypeOK, IndexInv, ViewInv, NEW c \in clients \ missed,
                    NEW u \in Users \ (overlapped \cup {NameOf[c]}),
                    \A d \in Conns : NameOf[d] = u => ~Announcing(d)
             PROVE  u \in view[c] <=> u \in NamesIn(room[c], clients)
  BY DEF ViewIsRight
<1>1. \A d \in clients : d \in Conns /\ Active(d)
  BY DEF TypeOK, IndexInv, Placed, Active
<1>2. \A d \in Conns : Active(d) /\ NameOf[d] = u => d \in clients /\ pc[d] \in Settled
  BY DEF Active, Announcing, Settled, IndexInv, Placed
<1>3. \A d \in Conns : Active(d) /\ NameOf[d] = u => (u \in view[c] <=> room[c] = room[d])
  BY <1>2 DEF ViewInv, Informed, SeenAs, Knows
<1>4. ASSUME u \in view[c] PROVE u \in NamesIn(room[c], clients)
  <2>1. PICK d \in Conns : Active(d) /\ NameOf[d] = u
    BY <1>4 DEF ViewInv, Informed
  <2> QED
    BY <2>1, <1>2, <1>3, <1>4 DEF NamesIn
<1>5. ASSUME u \in NamesIn(room[c], clients) PROVE u \in view[c]
  BY <1>5, <1>1, <1>3 DEF NamesIn
<1> QED
  BY <1>4, <1>5

(* A client that asks for the users of its room when it enters, and then   *)
(* follows the announcements, knows who is in the room whenever no         *)
(* announcement of the name is to come, if it lost nothing to a full queue *)
(* and the name was not taken again before it was said gone.               *)
THEOREM FollowersKnow == Spec => []ViewIsRight
<1> DEFINE Inv == TypeOK /\ IndexInv /\ ViewInv
<1>1. Init => Inv
  BY TypeInit, IndexInit, ViewInit
<1>2. Inv /\ [Next]_vars => Inv'
  BY TypeStep, IndexStep, ViewStep
<1>3. Inv => ViewIsRight
  BY InformedIsRight
<1> QED
  BY <1>1, <1>2, <1>3, PTL DEF Spec

=============================================================================
