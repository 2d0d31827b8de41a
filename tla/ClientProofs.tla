----------------------------- MODULE ClientProofs -----------------------------
(***************************************************************************)
(* Proofs about Client, for every number of connections, every capacity of *)
(* its queues and whatever the server sends.                               *)
(***************************************************************************)
EXTENDS Client, ListingProofs

(* What is left of a queue when its first element is taken.                *)
LEMMA Removed ==
    ASSUME NEW S, NEW s \in Seq(S), s # <<>>
    PROVE  /\ Head(s) = s[1] /\ Head(s) \in S
           /\ Tail(s) \in Seq(S) /\ Len(s) \in Nat \ {0}
           /\ Len(Tail(s)) = Len(s) - 1
           /\ \A i \in 1..(Len(s) - 1) : Tail(s)[i] = s[i + 1]
<1>1. Len(s) \in Nat \ {0}
  BY EmptySeq
<1> QED
  BY <1>1, HeadTailProperties

(* A queue with one element more.                                          *)
LEMMA Added ==
    ASSUME NEW S, NEW s \in Seq(S), NEW e \in S
    PROVE  /\ Append(s, e) \in Seq(S) /\ Append(s, e) # <<>>
           /\ Len(s) \in Nat /\ Len(Append(s, e)) = Len(s) + 1
           /\ Append(s, e)[Len(s) + 1] = e
           /\ \A i \in 1..Len(s) : Append(s, e)[i] = s[i]
OBVIOUS

(* A reader that passes messages on has some; a key handler has the one    *)
(* message it sends; between frames a collector is empty.                  *)
Shape ==
    /\ \A k \in Slots : reader[k] = "passing" => pending[k] # <<>>
    /\ ui = "sending" => Len(draft) = 1
    /\ ui # "sending" => draft = <<>>
    /\ \A k \in Slots : collector[k] = NewCollector

(* The types, by who keeps the variables.                                  *)
NetType ==
    /\ net \in NetPlaces /\ greeted \in BOOLEAN
    /\ conn \in Slots \cup {NoConn} /\ link \in {"none", "open", "cut"}
ReaderType ==
    /\ reader \in [Slots -> {"none", "reading", "passing", "ended"}]
    /\ pending \in [Slots -> Seq(Collected)]
    /\ collector \in [Slots -> Collectors]
StatusType == status \in Seq(Statuses) /\ Len(status) =< StatusCap
InType == inbound \in Seq(Incoming) /\ Len(inbound) =< InCap
OutType == outbound \in Seq(Outgoing) /\ Len(outbound) =< OutCap
UiType ==
    /\ ui \in {"idle", "sending", "left"} /\ draft \in Seq(Outgoing)
    /\ typed \in 0..MaxTyped
    /\ connection \in Statuses /\ online \in Seq(Items)
    /\ greeting \in Slots \cup {NoConn}
ServerType ==
    /\ up \in BOOLEAN /\ stage \in [Slots -> {"free", "new", "in"}]
    /\ toServer \in [Slots -> Seq(Outgoing \cup {Hello})]
    /\ toClient \in [Slots -> Seq(Seq(Lines))]
    /\ delivered \in Seq(0..MaxTyped)
    /\ cuts \in 0..MaxCuts /\ said \in 0..MaxFrames

AllTypes ==
    /\ NetType /\ ReaderType /\ StatusType /\ InType /\ OutType /\ UiType /\ ServerType

(* Together they are TypeOK.                                               *)
LEMMA TypeParts == TypeOK <=> AllTypes
BY DEF TypeOK, AllTypes, NetType, ReaderType, StatusType, InType, OutType, UiType, ServerType,
       Collected, Collectors

TypeInv == AllTypes /\ Shape

(* The client starts well typed.                                           *)
LEMMA TypeInit == Init => TypeInv
<1> SUFFICES ASSUME Init PROVE TypeInv
  OBVIOUS
<1>1. NewCollector \in Collectors
  BY EmptySeq DEF NewCollector, Collectors
<1>2. /\ <<>> \in Seq(Statuses) /\ <<>> \in Seq(Incoming) /\ <<>> \in Seq(Outgoing)
      /\ <<>> \in Seq(Items) /\ <<>> \in Seq(Collected) /\ <<>> \in Seq(Seq(Lines))
      /\ <<>> \in Seq(Outgoing \cup {Hello}) /\ <<>> \in Seq(0..MaxTyped) /\ Len(<<>>) = 0
  BY EmptySeq
<1>3. "top" \in NetPlaces /\ "Connecting" \in Statuses
  BY DEF NetPlaces, Statuses
<1>4. AllTypes
  <2>0. NetType
    BY <1>3 DEF Init, NetType
  <2>1. StatusType /\ InType /\ OutType
    <3>1. 0 =< StatusCap /\ 0 =< InCap /\ 0 =< OutCap
      BY ClientAssumption
    <3> QED
      BY <1>2, <3>1 DEF Init, StatusType, InType, OutType
  <2>2. ReaderType
    BY <1>1, <1>2 DEF Init, ReaderType
  <2>3. UiType
    BY <1>2, <1>3, ClientAssumption DEF Init, UiType
  <2>4. ServerType
    BY <1>2, ClientAssumption DEF Init, ServerType
  <2> QED
    BY <2>0, <2>1, <2>2, <2>3, <2>4 DEF AllTypes
<1>5. Shape
  BY DEF Init, Shape
<1> QED
  BY <1>4, <1>5 DEF TypeInv

(* Every step keeps the types, and no queue gets longer than its capacity. *)
LEMMA TypeStep == AllTypes /\ Shape /\ [Next]_vars => AllTypes'
<1> SUFFICES ASSUME AllTypes, Shape, [Next]_vars PROVE AllTypes'
  OBVIOUS
<1>p. /\ StatusCap \in Nat /\ InCap \in Nat /\ OutCap \in Nat
      /\ MaxTyped \in Nat /\ MaxCuts \in Nat /\ MaxFrames \in Nat /\ Frames \subseteq Seq(Lines)
  BY ClientAssumption
<1>q. /\ {"top", "dial", "refused", "regret", "backoff", "hello", "unsent", "excuse", "online",
          "greet", "select", "lost", "sorry", "pause", "closing", "stopped"} \subseteq NetPlaces
      /\ {"Connecting", "Online", "Reconnecting", "Closed"} \subseteq Statuses
  BY DEF NetPlaces, Statuses
<1>t. /\ NetType /\ ReaderType /\ StatusType /\ InType /\ OutType /\ UiType /\ ServerType
  BY DEF AllTypes
<1>u. /\ (UNCHANGED netVars => NetType') /\ (UNCHANGED readerVars => ReaderType')
      /\ (UNCHANGED status => StatusType') /\ (UNCHANGED inbound => InType')
      /\ (UNCHANGED outbound => OutType') /\ (UNCHANGED uiVars => UiType')
      /\ (UNCHANGED serverVars => ServerType')
  BY <1>t DEF NetType, ReaderType, StatusType, InType, OutType, UiType, ServerType,
        netVars, readerVars, uiVars, serverVars
<1>1. CASE Top
  <2> USE <1>1 DEF Top, At, Goto, Tell
  <2>1. NetType'
    BY <1>p, <1>q, <1>t DEF NetType
  <2>2. StatusType'
    BY <1>p, <1>q, <1>t DEF StatusType
  <2>3. UNCHANGED <<readerVars, inbound, outbound, uiVars, serverVars>>
    BY DEF netVars, readerVars, uiVars, serverVars
  <2> QED
    BY <2>1, <2>2, <2>3, <1>u DEF AllTypes
<1>2. CASE Refused
  <2> USE <1>2 DEF Refused, At, Goto
  <2>1. NetType'
    BY <1>p, <1>q, <1>t DEF NetType
  <2>2. UNCHANGED <<readerVars, status, inbound, outbound, uiVars, serverVars>>
    BY DEF netVars, readerVars, uiVars, serverVars
  <2> QED
    BY <2>1, <2>2, <1>u DEF AllTypes
<1>3. ASSUME NEW k \in Slots, Connect(k) PROVE AllTypes'
  <2> USE <1>3 DEF Connect, At, Goto
  <2>1. NetType'
    BY <1>p, <1>q, <1>t DEF NetType
  <2>2. ServerType'
    BY <1>p, <1>q, <1>t DEF ServerType
  <2>3. UNCHANGED <<readerVars, status, inbound, outbound, uiVars>>
    BY DEF netVars, readerVars, uiVars, serverVars
  <2> QED
    BY <2>1, <2>2, <2>3, <1>u DEF AllTypes
<1>4. CASE SendName
  <2> USE <1>4 DEF SendName, At, Goto, Write
  <2>1. NetType'
    BY <1>p, <1>q, <1>t DEF NetType
  <2>2. ServerType'
    <3> DEFINE W == Outgoing \cup {Hello}
    <3>1. \A l \in Slots : Append(toServer[l], Hello) \in Seq(W)
      BY <1>t DEF ServerType, OutType
    <3>2. toServer' \in [Slots -> Seq(W)]
      BY <1>t, <3>1 DEF ServerType
    <3>3. UNCHANGED <<up, stage, toClient, delivered, cuts, said>>
      OBVIOUS
    <3> QED
      BY <1>t, <3>2, <3>3 DEF ServerType
  <2>3. UNCHANGED <<readerVars, status, inbound, outbound, uiVars>>
    BY DEF netVars, readerVars, uiVars, serverVars
  <2> QED
    BY <2>1, <2>2, <2>3, <1>u DEF AllTypes
<1>5. CASE NameNotSent
  <2> USE <1>5 DEF NameNotSent, At, Goto
  <2>1. NetType'
    BY <1>p, <1>q, <1>t DEF NetType
  <2>2. UNCHANGED <<readerVars, status, inbound, outbound, uiVars, serverVars>>
    BY DEF netVars, readerVars, uiVars, serverVars
  <2> QED
    BY <2>1, <2>2, <1>u DEF AllTypes
<1>6. CASE Online
  <2> USE <1>6 DEF Online, At, Goto, Tell
  <2>1. NetType'
    BY <1>p, <1>q, <1>t DEF NetType
  <2>2. StatusType'
    BY <1>p, <1>q, <1>t DEF StatusType
  <2>3. UNCHANGED <<readerVars, inbound, outbound, uiVars, serverVars>>
    BY DEF netVars, readerVars, uiVars, serverVars
  <2> QED
    BY <2>1, <2>2, <2>3, <1>u DEF AllTypes
<1>7. CASE Greet
  <2> USE <1>7 DEF Greet, At, Goto, Show, Note
  <2>1. NetType'
    BY <1>p, <1>q, <1>t DEF NetType
  <2>2. ReaderType'
    <3>1. NewCollector \in Collectors
      BY EmptySeq DEF NewCollector, Collectors
    <3> QED
      BY <1>t, <3>1 DEF ReaderType
  <2>3. InType'
    <3>1. \A kind \in {"welcome", "reconnected"} : Note(kind) \in Incoming
      BY <1>t, EmptySeq DEF Note, Incoming, NetType
    <3> HIDE DEF Note
    <3> QED
      BY <1>p, <1>t, <3>1 DEF InType
  <2>4. UNCHANGED <<status, outbound, uiVars, serverVars>>
    BY DEF netVars, readerVars, uiVars, serverVars
  <2> QED
    BY <2>1, <2>2, <2>3, <2>4, <1>u DEF AllTypes
<1>8. CASE TellFailure
  <2> USE <1>8 DEF TellFailure, Goto, Tell, Failures
  <2>1. NetType'
    BY <1>p, <1>q, <1>t DEF NetType
  <2>2. StatusType'
    BY <1>p, <1>q, <1>t DEF StatusType
  <2>3. UNCHANGED <<readerVars, inbound, outbound, uiVars, serverVars>>
    BY DEF netVars, readerVars, uiVars, serverVars
  <2> QED
    BY <2>1, <2>2, <2>3, <1>u DEF AllTypes
<1>9. CASE ShowFailure
  <2> USE <1>9 DEF ShowFailure, Goto, Show, Note, AfterApology
  <2>1. NetType'
    BY <1>p, <1>q, <1>t DEF NetType
  <2>2. InType'
    <3>1. \A kind \in {"error"} : Note(kind) \in Incoming
      BY <1>t, EmptySeq DEF Note, Incoming, NetType
    <3> HIDE DEF Note
    <3> QED
      BY <1>p, <1>t, <3>1 DEF InType
  <2>3. UNCHANGED <<readerVars, status, outbound, uiVars, serverVars>>
    BY DEF netVars, readerVars, uiVars, serverVars
  <2> QED
    BY <2>1, <2>2, <2>3, <1>u DEF AllTypes
<1>10. CASE Wake
  <2> USE <1>10 DEF Wake, Goto
  <2>1. NetType'
    BY <1>p, <1>q, <1>t DEF NetType
  <2>2. UNCHANGED <<readerVars, status, inbound, outbound, uiVars, serverVars>>
    BY DEF netVars, readerVars, uiVars, serverVars
  <2> QED
    BY <2>1, <2>2, <1>u DEF AllTypes
<1>11. CASE Forward
  <2> USE <1>11 DEF Forward, At, Goto, Write
  <2>1. NetType'
    BY <1>p, <1>q, <1>t DEF NetType
  <2>2. OutType'
    BY <1>p, <1>q, <1>t DEF OutType
  <2>3. ServerType'
    <3> DEFINE W == Outgoing \cup {Hello}
    <3>1. \A l \in Slots : Append(toServer[l], Head(outbound)) \in Seq(W)
      BY <1>t DEF ServerType, OutType
    <3>2. toServer' \in [Slots -> Seq(W)]
      BY <1>t, <3>1 DEF ServerType
    <3>3. UNCHANGED <<up, stage, toClient, delivered, cuts, said>>
      OBVIOUS
    <3> QED
      BY <1>t, <3>2, <3>3 DEF ServerType
  <2>4. UNCHANGED <<readerVars, status, inbound, uiVars>>
    BY DEF netVars, readerVars, uiVars, serverVars
  <2> QED
    BY <2>1, <2>2, <2>3, <2>4, <1>u DEF AllTypes
<1>12. CASE ForwardFails
  <2> USE <1>12 DEF ForwardFails, At, Goto
  <2>1. NetType'
    BY <1>p, <1>q, <1>t DEF NetType
  <2>2. OutType'
    BY <1>p, <1>q, <1>t DEF OutType
  <2>3. UNCHANGED <<readerVars, status, inbound, uiVars, serverVars>>
    BY DEF netVars, readerVars, uiVars, serverVars
  <2> QED
    BY <2>1, <2>2, <2>3, <1>u DEF AllTypes
<1>13. CASE ReaderDone
  <2> USE <1>13 DEF ReaderDone, At, Goto
  <2>1. NetType'
    BY <1>p, <1>q, <1>t DEF NetType
  <2>2. UNCHANGED <<readerVars, status, inbound, outbound, uiVars, serverVars>>
    BY DEF netVars, readerVars, uiVars, serverVars
  <2> QED
    BY <2>1, <2>2, <1>u DEF AllTypes
<1>14. CASE Stop
  <2> USE <1>14 DEF Stop, At, Goto, Tell
  <2>1. NetType'
    BY <1>p, <1>q, <1>t DEF NetType
  <2>2. StatusType'
    BY <1>p, <1>q, <1>t DEF StatusType
  <2>3. OutType'
    BY <1>p, <1>q, <1>t DEF OutType
  <2>4. UNCHANGED <<readerVars, inbound, uiVars, serverVars>>
    BY DEF netVars, readerVars, uiVars, serverVars
  <2> QED
    BY <2>1, <2>2, <2>3, <2>4, <1>u DEF AllTypes
<1>15. ASSUME NEW k \in Slots, Read(k) PROVE AllTypes'
  <2> USE <1>15 DEF Read, Reading
  <2>1. ReaderType'
    <3> DEFINE out == CollectFrame(NewCollector, Head(toClient[k]))
    <3>1. collector[k] = NewCollector
      BY DEF Shape
    <3>2. Head(toClient[k]) \in Seq(Lines)
      BY <1>t DEF ServerType
    <3>3. out.messages \in Seq(Collected) /\ out.collector \in Collectors
      <4>1. NewCollector \in Collectors
        BY EmptySeq DEF NewCollector, Collectors
      <4> QED
        BY <3>2, <4>1, ListsAreWhole
    <3>4. /\ pending' = [pending EXCEPT ![k] = out.messages]
          /\ collector' = [collector EXCEPT ![k] = out.collector]
          /\ reader' = [reader EXCEPT ![k] =
                           IF out.messages = <<>> THEN "reading" ELSE "passing"]
      BY <3>1
    <3> HIDE DEF out
    <3> QED
      BY <1>t, <3>3, <3>4 DEF ReaderType
  <2>2. ServerType'
    BY <1>p, <1>q, <1>t DEF ServerType
  <2>3. UNCHANGED <<netVars, status, inbound, outbound, uiVars>>
    BY DEF netVars, readerVars, uiVars, serverVars
  <2> QED
    BY <2>1, <2>2, <2>3, <1>u DEF AllTypes
<1>16. ASSUME NEW k \in Slots, Pass(k) PROVE AllTypes'
  <2> USE <1>16 DEF Pass, Show
  <2>1. ReaderType'
    <3>1. pending[k] \in Seq(Collected) /\ pending[k] # <<>>
      BY <1>t DEF ReaderType, Shape
    <3>2. Tail(pending[k]) \in Seq(Collected)
      BY <3>1
    <3> QED
      BY <1>t, <3>2 DEF ReaderType
  <2>2. InType'
    <3> DEFINE m == Head(pending[k])
    <3>1. pending[k] \in Seq(Collected) /\ pending[k] # <<>>
      BY <1>t DEF ReaderType, Shape
    <3>2. m \in Collected
      BY <3>1
    <3> DEFINE in == [kind |-> m.kind, conn |-> k, items |-> m.items]
    <3>3. in \in Incoming
      BY <3>2 DEF Incoming, Collected
    <3>4. Len(inbound) < InCap /\ inbound' = Append(inbound, in)
      OBVIOUS
    <3> HIDE DEF in
    <3> QED
      BY <1>p, <1>t, <3>3, <3>4 DEF InType
  <2>3. UNCHANGED <<netVars, status, outbound, uiVars, serverVars>>
    BY DEF netVars, readerVars, uiVars, serverVars
  <2> QED
    BY <2>1, <2>2, <2>3, <1>u DEF AllTypes
<1>17. ASSUME NEW k \in Slots, ReadFails(k) PROVE AllTypes'
  <2> USE <1>17 DEF ReadFails, Reading
  <2>1. ReaderType'
    BY <1>p, <1>q, <1>t DEF ReaderType
  <2>2. UNCHANGED <<netVars, status, inbound, outbound, uiVars, serverVars>>
    BY DEF netVars, readerVars, uiVars, serverVars
  <2> QED
    BY <2>1, <2>2, <1>u DEF AllTypes
<1>18. ASSUME NEW k \in Slots, Cancelled(k) PROVE AllTypes'
  <2> USE <1>18 DEF Cancelled
  <2>1. ReaderType'
    <3>1. <<>> \in Seq(Collected)
      BY EmptySeq
    <3> QED
      BY <1>t, <3>1 DEF ReaderType
  <2>2. UNCHANGED <<netVars, status, inbound, outbound, uiVars, serverVars>>
    BY DEF netVars, readerVars, uiVars, serverVars
  <2> QED
    BY <2>1, <2>2, <1>u DEF AllTypes
<1>19. ASSUME NEW kind \in Kinds, Type(kind)
      PROVE  AllTypes'
  <2> USE <1>19 DEF Type, Idle
  <2>1. UiType'
    <3> DEFINE m == [no |-> typed + 1, kind |-> kind]
    <3>1. m \in Outgoing /\ typed + 1 \in 0..MaxTyped
      BY <1>p, <1>t DEF UiType, Outgoing
    <3>2. draft' \in Seq(Outgoing) /\ typed' \in 0..MaxTyped
      BY <3>1
    <3> HIDE DEF m
    <3> QED
      BY <1>t, <3>2 DEF UiType
  <2>2. UNCHANGED <<netVars, readerVars, status, inbound, outbound, serverVars>>
    BY DEF netVars, readerVars, uiVars, serverVars
  <2> QED
    BY <2>1, <2>2, <1>u DEF AllTypes
<1>20. CASE SendOut
  <2> USE <1>20 DEF SendOut
  <2>1. OutType'
    <3>1. draft \in Seq(Outgoing) /\ Len(draft) = 1
      BY <1>t DEF UiType, Shape
    <3>2. outbound \in Seq(Outgoing) /\ Len(outbound) =< OutCap
      BY <1>t DEF OutType
    <3>3. outbound \o draft \in Seq(Outgoing) /\ Len(outbound \o draft) = Len(outbound) + 1
      <4>1. \A a, b \in Seq(Outgoing) : a \o b \in Seq(Outgoing) /\ Len(a \o b) = Len(a) + Len(b)
        BY ConcatProperties
      <4> QED
        BY <3>1, <3>2, <4>1
    <3>4. \/ UNCHANGED outbound
          \/ Len(outbound) < OutCap /\ outbound' = outbound \o draft
      BY <1>20 DEF SendOut
    <3> QED
      BY <1>p, <3>2, <3>3, <3>4 DEF OutType
  <2>2. UiType'
    <3>1. <<>> \in Seq(Outgoing)
      BY EmptySeq
    <3> QED
      BY <1>t, <3>1 DEF UiType
  <2>3. UNCHANGED <<netVars, readerVars, status, inbound, serverVars>>
    BY DEF netVars, readerVars, uiVars, serverVars
  <2> QED
    BY <2>1, <2>2, <2>3, <1>u DEF AllTypes
<1>21. CASE TakeStatus
  <2> USE <1>21 DEF TakeStatus, Idle
  <2>1. StatusType'
    BY <1>p, <1>q, <1>t DEF StatusType
  <2>2. UiType'
    <3>1. Head(status) \in Statuses
      BY <1>t DEF StatusType
    <3> QED
      BY <1>t, <3>1 DEF UiType
  <2>3. UNCHANGED <<netVars, readerVars, inbound, outbound, serverVars>>
    BY DEF netVars, readerVars, uiVars, serverVars
  <2> QED
    BY <2>1, <2>2, <2>3, <1>u DEF AllTypes
<1>22. CASE TakeInbound
  <2> USE <1>22 DEF TakeInbound, Idle
  <2>1. InType'
    BY <1>p, <1>q, <1>t DEF InType
  <2>2. UiType'
    <3>1. Head(inbound) \in Incoming
      BY <1>t DEF InType
    <3>2. Head(inbound).conn \in Slots \cup {NoConn} /\ Head(inbound).items \in Seq(Items)
      BY <3>1 DEF Incoming
    <3> QED
      BY <1>p, <1>t, <3>2 DEF UiType
  <2>3. UNCHANGED <<netVars, readerVars, status, outbound, serverVars>>
    BY DEF netVars, readerVars, uiVars, serverVars
  <2> QED
    BY <2>1, <2>2, <2>3, <1>u DEF AllTypes
<1>23. CASE Leave
  <2> USE <1>23 DEF Leave, Idle
  <2>1. NetType'
    BY <1>p, <1>q, <1>t DEF NetType
  <2>2. UiType'
    BY <1>p, <1>q, <1>t DEF UiType
  <2>3. UNCHANGED <<readerVars, status, inbound, outbound, serverVars>>
    BY DEF netVars, readerVars, uiVars, serverVars
  <2> QED
    BY <2>1, <2>2, <2>3, <1>u DEF AllTypes
<1>24. ASSUME NEW k \in Slots, Register(k) PROVE AllTypes'
  <2> USE <1>24 DEF Register, Hello
  <2>1. ServerType'
    <3> DEFINE W == Outgoing \cup {Hello}
    <3>1. toServer[k] \in Seq(W) /\ toServer[k] # <<>>
      BY <1>t DEF ServerType
    <3>2. Tail(toServer[k]) \in Seq(W) /\ Head(toServer[k]) \in W /\ <<>> \in Seq(W)
      BY <3>1, EmptySeq
    <3>3. toServer' \in [Slots -> Seq(W)]
      BY <1>t, <3>2 DEF ServerType
    <3>4. delivered' \in Seq(0..MaxTyped)
      BY <1>p, <1>t DEF ServerType
    <3> HIDE DEF W
    <3>5. stage' \in [Slots -> {"free", "new", "in"}]
      BY <1>p, <1>t DEF ServerType
    <3>6. UNCHANGED <<up, toClient, cuts, said>>
      BY DEF serverVars
    <3> QED
      BY <1>t, <3>3, <3>4, <3>5, <3>6 DEF ServerType, W
  <2>2. UNCHANGED <<netVars, readerVars, status, inbound, outbound, uiVars>>
    BY DEF netVars, readerVars, uiVars, serverVars
  <2> QED
    BY <2>1, <2>2, <1>u DEF AllTypes
<1>25. ASSUME NEW k \in Slots, NameInUse(k) PROVE AllTypes'
  <2> USE <1>25 DEF NameInUse, Free
  <2>1. NetType'
    BY <1>p, <1>q, <1>t DEF NetType
  <2>2. ServerType'
    <3> DEFINE e == <<Line("error", <<>>)>>
    <3>1. e \in Seq(Lines)
      <4>1. Line("error", <<>>) \in Lines
        BY DEF Line, Lines, Shapes
      <4> QED
        BY <4>1
    <3>2. <<>> \in Seq(Outgoing \cup {Hello})
      BY EmptySeq
    <3>3. toClient' \in [Slots -> Seq(Seq(Lines))]
      <4>1. \A l \in Slots : Append(toClient[l], e) \in Seq(Seq(Lines))
        BY <1>t, <3>1 DEF ServerType
      <4> QED
        BY <1>t, <4>1 DEF ServerType
    <3>4. toServer' \in [Slots -> Seq(Outgoing \cup {Hello})]
      BY <1>t, <3>2 DEF ServerType
    <3>5. stage' \in [Slots -> {"free", "new", "in"}]
      BY <1>t DEF ServerType
    <3>6. UNCHANGED <<up, delivered, cuts, said>>
      OBVIOUS
    <3> QED
      BY <1>t, <3>3, <3>4, <3>5, <3>6 DEF ServerType
  <2>3. UNCHANGED <<readerVars, status, inbound, outbound, uiVars>>
    BY DEF netVars, readerVars, uiVars, serverVars
  <2> QED
    BY <2>1, <2>2, <2>3, <1>u DEF AllTypes
<1>26. ASSUME NEW k \in Slots, Receive(k) PROVE AllTypes'
  <2> USE <1>26 DEF Receive, Free
  <2>1. NetType'
    BY <1>p, <1>q, <1>t DEF NetType
  <2>2. ServerType'
    <3> DEFINE W == Outgoing \cup {Hello}
    <3>1. toServer[k] \in Seq(W) /\ toServer[k] # <<>>
      BY <1>t DEF ServerType
    <3>2. Tail(toServer[k]) \in Seq(W) /\ Head(toServer[k]) \in W /\ <<>> \in Seq(W)
      BY <3>1, EmptySeq
    <3>3. toServer' \in [Slots -> Seq(W)] /\ stage' \in [Slots -> {"free", "new", "in"}]
      BY <1>t, <3>2 DEF ServerType
    <3>4. Head(toServer[k]).no \in 0..MaxTyped
      BY <1>p, <3>2 DEF Outgoing, Hello
    <3>5. delivered' \in Seq(0..MaxTyped)
      BY <1>t, <3>4 DEF ServerType
    <3>6. UNCHANGED <<up, toClient, cuts, said>>
      OBVIOUS
    <3> QED
      BY <1>t, <3>3, <3>5, <3>6 DEF ServerType
  <2>3. UNCHANGED <<readerVars, status, inbound, outbound, uiVars>>
    BY DEF netVars, readerVars, uiVars, serverVars
  <2> QED
    BY <2>1, <2>2, <2>3, <1>u DEF AllTypes
<1>27. ASSUME NEW k \in Slots, Notice(k) PROVE AllTypes'
  <2> USE <1>27 DEF Notice, Free
  <2>1. NetType'
    BY <1>p, <1>q, <1>t DEF NetType
  <2>2. ServerType'
    BY <1>p, <1>q, <1>t DEF ServerType
  <2>3. UNCHANGED <<readerVars, status, inbound, outbound, uiVars>>
    BY DEF netVars, readerVars, uiVars, serverVars
  <2> QED
    BY <2>1, <2>2, <2>3, <1>u DEF AllTypes
<1>28. ASSUME NEW f \in Frames, SendFrame(f) PROVE AllTypes'
  <2> USE <1>28 DEF SendFrame
  <2>1. ServerType'
    <3>1. \A l \in Slots : Append(toClient[l], f) \in Seq(Seq(Lines))
      BY <1>p, <1>t DEF ServerType
    <3>2. toClient' \in [Slots -> Seq(Seq(Lines))]
      BY <1>t, <3>1 DEF ServerType
    <3>4. said' \in 0..MaxFrames
      BY <1>p, <1>t DEF ServerType
    <3>3. UNCHANGED <<up, stage, toServer, delivered, cuts>>
      OBVIOUS
    <3> QED
      BY <1>t, <3>2, <3>3, <3>4 DEF ServerType
  <2>2. UNCHANGED <<netVars, readerVars, status, inbound, outbound, uiVars>>
    BY DEF netVars, readerVars, uiVars, serverVars
  <2> QED
    BY <2>1, <2>2, <1>u DEF AllTypes
<1>29. CASE CutLink
  <2> USE <1>29 DEF CutLink
  <2>1. NetType'
    BY <1>p, <1>q, <1>t DEF NetType
  <2>2. ServerType'
    BY <1>p, <1>q, <1>t DEF ServerType
  <2>3. UNCHANGED <<readerVars, status, inbound, outbound, uiVars>>
    BY DEF netVars, readerVars, uiVars, serverVars
  <2> QED
    BY <2>1, <2>2, <2>3, <1>u DEF AllTypes
<1>30. CASE ServerStops
  <2> USE <1>30 DEF ServerStops
  <2>1. NetType'
    BY <1>p, <1>q, <1>t DEF NetType
  <2>2. ServerType'
    <3>1. toServer' \in [Slots -> Seq(Outgoing \cup {Hello})]
      BY EmptySeq
    <3>2. stage' \in [Slots -> {"free", "new", "in"}] /\ up' \in BOOLEAN
      OBVIOUS
    <3>3. cuts' \in 0..MaxCuts
      BY <1>p, <1>t DEF ServerType
    <3>4. UNCHANGED <<toClient, delivered, said>>
      OBVIOUS
    <3> QED
      BY <1>t, <3>1, <3>2, <3>3, <3>4 DEF ServerType
  <2>3. UNCHANGED <<readerVars, status, inbound, outbound, uiVars>>
    BY DEF netVars, readerVars, uiVars, serverVars
  <2> QED
    BY <2>1, <2>2, <2>3, <1>u DEF AllTypes
<1>31. CASE ServerStarts
  <2> USE <1>31 DEF ServerStarts
  <2>1. ServerType'
    BY <1>p, <1>q, <1>t DEF ServerType
  <2>2. UNCHANGED <<netVars, readerVars, status, inbound, outbound, uiVars>>
    BY DEF netVars, readerVars, uiVars, serverVars
  <2> QED
    BY <2>1, <2>2, <1>u DEF AllTypes
<1>32. CASE UNCHANGED vars
  <2> USE <1>32 DEF vars
  <2>1. UNCHANGED <<netVars, readerVars, status, inbound, outbound, uiVars, serverVars>>
    BY DEF netVars, readerVars, uiVars, serverVars
  <2> QED
    BY <2>1, <1>u DEF AllTypes
<1> QED
  BY <1>1, <1>2, <1>3, <1>4, <1>5, <1>6, <1>7, <1>8, <1>9, <1>10, <1>11, <1>12, <1>13,
     <1>14, <1>15, <1>16, <1>17, <1>18, <1>19, <1>20, <1>21, <1>22, <1>23, <1>24, <1>25,
     <1>26, <1>27, <1>28, <1>29, <1>30, <1>31, <1>32
     DEF Next, NetStep, ReaderStep, ServerStep, Environment

(* Every step keeps the shape.                                             *)
LEMMA ShapeStep == AllTypes /\ Shape /\ [Next]_vars => Shape'
<1> SUFFICES ASSUME AllTypes, Shape, [Next]_vars PROVE Shape'
  OBVIOUS
<1>t. /\ reader \in [Slots -> {"none", "reading", "passing", "ended"}]
      /\ pending \in [Slots -> Seq(Collected)] /\ collector \in [Slots -> Collectors]
      /\ toClient \in [Slots -> Seq(Seq(Lines))] /\ draft \in Seq(Outgoing)
  BY DEF AllTypes, ReaderType, ServerType, UiType
<1>1. CASE UNCHANGED <<readerVars, ui, draft>>
  BY <1>1 DEF Shape, readerVars
<1>2. CASE Greet
  BY <1>t, <1>2 DEF Greet, Shape, uiVars, At
<1>3. ASSUME NEW k \in Slots, Read(k) PROVE Shape'
  <2>1. Head(toClient[k]) \in Seq(Lines)
    BY <1>t, <1>3 DEF Read
  <2>2. CollectFrame(collector[k], Head(toClient[k])).collector = NewCollector
    BY <2>1, ListsAreWhole DEF Shape
  <2> QED
    BY <1>t, <1>3, <2>2 DEF Read, Shape, uiVars
<1>4. ASSUME NEW k \in Slots, Pass(k) PROVE Shape'
  BY <1>t, <1>4 DEF Pass, Shape, uiVars
<1>5. ASSUME NEW k \in Slots, ReadFails(k) \/ Cancelled(k) PROVE Shape'
  BY <1>t, <1>5 DEF ReadFails, Cancelled, Shape, uiVars
<1>6. CASE SendOut \/ Leave \/ \E kind \in Kinds : Type(kind)
  BY <1>6 DEF SendOut, Leave, Type, Idle, Shape, readerVars
<1>7. CASE \/ Top \/ Refused \/ (\E k \in Slots : Connect(k)) \/ SendName \/ NameNotSent
           \/ Online \/ TellFailure \/ ShowFailure \/ Wake
           \/ Forward \/ ForwardFails \/ ReaderDone \/ Stop
  <2>1. UNCHANGED <<readerVars, ui, draft>>
    BY <1>7 DEF Top, Refused, Connect, SendName, NameNotSent, Online, TellFailure, ShowFailure,
       Wake, Forward, ForwardFails, ReaderDone, Stop, uiVars
  <2> QED
    BY <1>1, <2>1
<1>8. CASE \/ TakeStatus \/ TakeInbound \/ (\E k \in Slots : ServerStep(k))
           \/ (\E f \in Frames : SendFrame(f)) \/ CutLink \/ ServerStops \/ ServerStarts
           \/ UNCHANGED vars
  <2>1. UNCHANGED <<readerVars, ui, draft>>
    BY <1>8 DEF TakeStatus, TakeInbound, ServerStep, Register, NameInUse, Receive, Notice,
       SendFrame, CutLink, ServerStops, ServerStarts, vars, uiVars
  <2> QED
    BY <1>1, <2>1
<1> QED
  BY <1>2, <1>3, <1>4, <1>5, <1>6, <1>7, <1>8
     DEF Next, NetStep, ReaderStep, Environment

(* Types and shape hold in every state.                                    *)
LEMMA AlwaysTyped == Spec => []TypeInv
BY TypeInit, TypeStep, ShapeStep, PTL DEF Spec, TypeInv

(* Every variable keeps to the values the code can give it, and no queue   *)
(* is ever longer than its capacity.                                       *)
THEOREM TypeCorrect == Spec => []TypeOK
<1>1. TypeInv => TypeOK
  BY TypeParts DEF TypeInv
<1> QED
  BY <1>1, AlwaysTyped, PTL

-----------------------------------------------------------------------------
(* The status shown.                                                       *)

(* What the interface will show when it has caught up with the queue.      *)
Latest == IF status = <<>> THEN connection ELSE status[Len(status)]

StatusInv == Latest = "Online" <=> net \in Connected

(* A status that is told is the latest.                                    *)
LEMMA Told ==
    ASSUME NEW s, StatusType, Append(status, s) = status'
    PROVE  Latest' = s
<1>1. Len(status') = Len(status) + 1 /\ status'[Len(status) + 1] = s /\ status' # <<>>
  BY DEF StatusType
<1> QED
  BY <1>1 DEF Latest

(* Each status is told when the task goes where it is true.                *)
LEMMA StatusStep == AllTypes /\ StatusInv /\ [Next]_vars => StatusInv'
<1> SUFFICES ASSUME AllTypes, StatusInv, [Next]_vars PROVE StatusInv'
  OBVIOUS
<1>t. StatusType /\ net \in NetPlaces
  BY DEF AllTypes, NetType
<1>1. ASSUME UNCHANGED <<status, connection>>, net \in Connected <=> net' \in Connected
      PROVE  StatusInv'
  BY <1>1 DEF StatusInv, Latest
<1>2. CASE Top
  BY <1>t, <1>2, Told DEF Top, At, Goto, Tell, StatusInv, Connected
<1>3. CASE Online
  BY <1>t, <1>3, Told DEF Online, At, Goto, Tell, StatusInv, Connected
<1>4. CASE TellFailure
  BY <1>t, <1>4, Told DEF TellFailure, Goto, Tell, Failures, StatusInv, Connected
<1>5. CASE Stop
  BY <1>t, <1>5, Told DEF Stop, At, Goto, Tell, StatusInv, Connected
<1>6. CASE TakeStatus
  <2>1. /\ status \in Seq(Statuses) /\ status # <<>> /\ connection' = Head(status)
        /\ status' = Tail(status) /\ net' = net
    BY <1>t, <1>6 DEF TakeStatus, StatusType, netVars
  <2>2. CASE Len(status) = 1
    <3>1. status' = <<>> /\ status[1] = Head(status)
      BY <2>1, <2>2
    <3> QED
      BY <2>1, <2>2, <3>1 DEF StatusInv, Latest
  <2>3. CASE Len(status) # 1
    <3>1. /\ status' # <<>> /\ Len(status') = Len(status) - 1
          /\ status'[Len(status) - 1] = status[Len(status)]
      <4>0. Len(status) \in Nat \ {0}
        BY <2>1, EmptySeq
      <4>1. Len(status) \in Nat /\ Len(status) > 1 /\ Len(status) - 1 \in 1..(Len(status) - 1)
        <5>1. \A n \in Nat \ {0} : n # 1 => n \in Nat /\ n > 1 /\ n - 1 \in 1..(n - 1)
          OBVIOUS
        <5> QED
          BY <2>3, <4>0, <5>1
      <4>2. /\ Len(status') = Len(status) - 1
            /\ \A i \in 1..(Len(status) - 1) : status'[i] = status[i + 1]
        BY <2>1, Removed
      <4>3. status' # <<>>
        BY <4>1, <4>2
      <4>4. Len(status) - 1 + 1 = Len(status)
        BY <4>1
      <4> QED
        BY <4>1, <4>2, <4>3, <4>4
    <3> QED
      BY <2>1, <3>1 DEF StatusInv, Latest
  <2> QED
    BY <2>2, <2>3
<1>7. CASE \/ Refused \/ (\E k \in Slots : Connect(k)) \/ SendName \/ NameNotSent
           \/ Greet \/ ShowFailure \/ Wake \/ Forward \/ ForwardFails \/ ReaderDone
  <2>1. UNCHANGED <<status, connection>>
    BY <1>7 DEF Refused, Connect, SendName, NameNotSent, Greet, ShowFailure, Wake, Forward,
       ForwardFails, ReaderDone, uiVars
  <2>2. net \in Connected <=> net' \in Connected
    BY <1>7 DEF Refused, Connect, SendName, NameNotSent, Greet, ShowFailure, Wake, Forward,
       ForwardFails, ReaderDone, At, Goto, Connected, AfterApology
  <2> QED
    BY <1>1, <2>1, <2>2
<1>8. CASE \/ (\E k \in Slots : ReaderStep(k) \/ ServerStep(k))
           \/ SendOut \/ TakeInbound \/ Environment \/ UNCHANGED vars
  <2>1. UNCHANGED <<status, connection, net>>
    BY <1>8 DEF ReaderStep, Read, Pass, ReadFails, Cancelled, ServerStep, Register, NameInUse,
       Receive, Notice, SendOut, TakeInbound, Environment, Type, Leave, SendFrame, CutLink,
       ServerStops, ServerStarts, vars, netVars, uiVars
  <2> QED
    BY <1>1, <2>1
<1> QED
  BY <1>2, <1>3, <1>4, <1>5, <1>6, <1>7, <1>8 DEF Next, NetStep

(* Once the interface has caught up with the status queue, it shows the    *)
(* client as online exactly when the network task has a connection: each   *)
(* status is told, and none is dropped, before the task goes on.           *)
THEOREM StatusIsTrue == Spec => []StatusTrue
<1>1. Init => StatusInv
  BY DEF Init, StatusInv, Latest, Connected
<1>2. TypeInv => AllTypes
  BY DEF TypeInv
<1>3. StatusInv => StatusTrue
  BY DEF StatusInv, StatusTrue, Latest
<1> QED
  BY <1>1, <1>2, <1>3, AlwaysTyped, StatusStep, PTL DEF Spec

-----------------------------------------------------------------------------
(* The list of users shown.                                                *)

ErrorFrame == <<Line("error", <<>>)>>

(* A list of users that is passed on is one the server sent.               *)
Sent(m) == m.kind = "user_list" => \E f \in Frames : m.items \in ListedIn(f, "users")

SentFrames == Frames \cup {ErrorFrame}
SentMessages == {m \in Collected : Sent(m)}
SentNews == {m \in Incoming : Sent(m)}

ListInv ==
    /\ toClient \in [Slots -> Seq(SentFrames)]
    /\ pending \in [Slots -> Seq(SentMessages)]
    /\ inbound \in Seq(SentNews)
    /\ OnlineIsAList

(* A sequence is one over every set that has its elements.                 *)
LEMMA Narrowed ==
    ASSUME NEW S, NEW T, NEW s \in Seq(S), \A i \in 1..Len(s) : s[i] \in T
    PROVE  s \in Seq(T)
<1>1. Len(s) \in Nat /\ s = [i \in 1..Len(s) |-> s[i]]
  OBVIOUS
<1> QED
  BY <1>1

(* What comes out of a frame the server sent.                              *)
LEMMA FrameSends ==
    ASSUME NEW f \in SentFrames
    PROVE  CollectFrame(NewCollector, f).messages \in Seq(SentMessages)
<1> DEFINE out == CollectFrame(NewCollector, f).messages
<1>1. f \in Seq(Lines)
  <2>1. Line("error", <<>>) \in Lines
    BY DEF Line, Lines, Shapes
  <2>2. ErrorFrame \in Seq(Lines)
    BY <2>1 DEF ErrorFrame
  <2> QED
    BY <2>2, ClientAssumption DEF SentFrames
<1>2. out \in Seq(Collected) /\ \A i \in 1..Len(out) : Genuine(f, out[i])
  BY <1>1, ListsAreWhole
<1>3. ASSUME NEW m \in Collected, Genuine(f, m) PROVE Sent(m)
  <2>1. SUFFICES ASSUME m.kind = "user_list"
                 PROVE  \E g \in Frames : m.items \in ListedIn(g, "users")
    BY DEF Sent
  <2>2. m.items \in ListedIn(f, "users")
    BY <1>3, <2>1 DEF Genuine, ListKind
  <2>3. f # ErrorFrame
    <3>1. SUFFICES ASSUME f = ErrorFrame PROVE FALSE
      OBVIOUS
    <3>2. PICK r \in Runs(f, "users") : TRUE
      BY <2>2 DEF ListedIn
    <3>3. r[1] \in DOMAIN f /\ f[r[1]].shape = "users"
      BY <3>2 DEF Runs
    <3>4. \A i \in DOMAIN f : f[i].shape = "error"
      BY <3>1 DEF ErrorFrame, Line
    <3> QED
      BY <3>3, <3>4
  <2> QED
    BY <2>2, <2>3 DEF SentFrames
<1>4. \A i \in 1..Len(out) : out[i] \in SentMessages
  <2>1. \A i \in 1..Len(out) : out[i] \in Collected
    BY <1>2, ElementOfSeq
  <2> HIDE DEF out
  <2> QED
    BY <1>2, <1>3, <2>1 DEF SentMessages
<1> HIDE DEF out
<1>5. out \in Seq(SentMessages)
  BY <1>2, <1>4, Narrowed
<1> QED
  BY <1>5 DEF out

(* Every step passes on only what the server sent.                         *)
LEMMA ListStep == TypeInv /\ ListInv /\ [Next]_vars => ListInv'
<1> SUFFICES ASSUME AllTypes, Shape, ListInv, [Next]_vars PROVE ListInv'
  BY DEF TypeInv
<1>t. /\ toClient \in [Slots -> Seq(SentFrames)] /\ pending \in [Slots -> Seq(SentMessages)]
      /\ inbound \in Seq(SentNews) /\ OnlineIsAList
      /\ conn \in Slots \cup {NoConn}
  BY DEF ListInv, AllTypes, NetType
<1>1. ASSUME UNCHANGED <<toClient, pending, inbound, online>> PROVE ListInv'
  BY <1>1 DEF ListInv, OnlineIsAList
<1>2. ASSUME NEW k \in Slots, Connect(k) PROVE ListInv'
  <2>1. toClient' \in [Slots -> Seq(SentFrames)]
    BY <1>t, <1>2, EmptySeq DEF Connect
  <2>2. UNCHANGED <<pending, inbound, online>>
    BY <1>2 DEF Connect, readerVars, uiVars
  <2> QED
    BY <2>1, <2>2 DEF ListInv, OnlineIsAList
<1>3. CASE Greet \/ ShowFailure
  <2>1. PICK kind \in {"welcome", "reconnected", "error"} : inbound' = Append(inbound, Note(kind))
    BY <1>3 DEF Greet, ShowFailure, Show
  <2>2. Note(kind) \in SentNews
    <3>1. Note(kind) \in Incoming
      BY <1>t, EmptySeq DEF Note, Incoming
    <3> QED
      BY <3>1 DEF SentNews, Sent, Note
  <2>3. inbound' \in Seq(SentNews)
    BY <1>t, <2>1, <2>2, Added
  <2>4. UNCHANGED <<toClient, pending, online>>
    BY <1>3 DEF Greet, ShowFailure, readerVars, uiVars, serverVars
  <2> QED
    BY <1>t, <2>3, <2>4 DEF ListInv, OnlineIsAList
<1>4. ASSUME NEW k \in Slots, Read(k) PROVE ListInv'
  <2> DEFINE out == CollectFrame(NewCollector, Head(toClient[k]))
  <2>1. toClient[k] \in Seq(SentFrames) /\ toClient[k] # <<>>
    BY <1>t, <1>4 DEF Read
  <2>2. Head(toClient[k]) \in SentFrames /\ Tail(toClient[k]) \in Seq(SentFrames)
    BY <2>1, Removed
  <2>3. out.messages \in Seq(SentMessages)
    BY <2>2, FrameSends
  <2>4. pending' = [pending EXCEPT ![k] = out.messages]
    BY <1>4 DEF Read, Shape
  <2>5. toClient' \in [Slots -> Seq(SentFrames)]
    BY <1>t, <1>4, <2>2 DEF Read
  <2>6. UNCHANGED <<inbound, online>>
    BY <1>4 DEF Read, uiVars
  <2> HIDE DEF out
  <2>7. pending' \in [Slots -> Seq(SentMessages)]
    BY <1>t, <2>3, <2>4
  <2> QED
    BY <1>t, <2>5, <2>6, <2>7 DEF ListInv, OnlineIsAList
<1>5. ASSUME NEW k \in Slots, Pass(k) PROVE ListInv'
  <2> DEFINE m == Head(pending[k])
             in == [kind |-> m.kind, conn |-> k, items |-> m.items]
  <2>1. pending[k] \in Seq(SentMessages) /\ pending[k] # <<>>
    BY <1>t, <1>5 DEF Pass, Shape
  <2>2. m \in SentMessages /\ Tail(pending[k]) \in Seq(SentMessages)
    BY <2>1, Removed
  <2>3. in \in SentNews
    <3>1. in \in Incoming
      BY <2>2 DEF SentMessages, Collected, Incoming
    <3>2. Sent(in)
      BY <2>2 DEF SentMessages, Sent
    <3> QED
      BY <3>1, <3>2 DEF SentNews
  <2>4. inbound' = Append(inbound, in)
    BY <1>5 DEF Pass, Show
  <2> HIDE DEF in
  <2>5. inbound' \in Seq(SentNews)
    BY <1>t, <2>3, <2>4, Added
  <2>6. pending' \in [Slots -> Seq(SentMessages)]
    BY <1>t, <1>5, <2>2 DEF Pass
  <2>7. UNCHANGED <<toClient, online>>
    BY <1>5 DEF Pass, uiVars, serverVars
  <2> QED
    BY <1>t, <2>5, <2>6, <2>7 DEF ListInv, OnlineIsAList
<1>6. ASSUME NEW k \in Slots, Cancelled(k) PROVE ListInv'
  <2>1. pending' \in [Slots -> Seq(SentMessages)]
    BY <1>t, <1>6, EmptySeq DEF Cancelled
  <2>2. UNCHANGED <<toClient, inbound, online>>
    BY <1>6 DEF Cancelled, uiVars, serverVars
  <2> QED
    BY <1>t, <2>1, <2>2 DEF ListInv, OnlineIsAList
<1>7. CASE TakeInbound
  <2>1. /\ Head(inbound) \in SentNews /\ Tail(inbound) \in Seq(SentNews)
    BY <1>t, <1>7, Removed DEF TakeInbound
  <2>2. /\ inbound' = Tail(inbound)
        /\ online' = IF Head(inbound).kind = "user_list" THEN Head(inbound).items ELSE online
    BY <1>7 DEF TakeInbound
  <2>3. OnlineIsAList'
    BY <1>t, <2>1, <2>2 DEF OnlineIsAList, SentNews, Sent
  <2>4. UNCHANGED <<toClient, pending>>
    BY <1>7 DEF TakeInbound, readerVars, serverVars
  <2> QED
    BY <1>t, <2>1, <2>2, <2>3, <2>4 DEF ListInv
<1>8. ASSUME NEW k \in Slots, NEW f \in SentFrames,
             toClient' = [toClient EXCEPT ![k] = Append(@, f)],
             UNCHANGED <<pending, inbound, online>>
      PROVE  ListInv'
  <2>1. Append(toClient[k], f) \in Seq(SentFrames)
    BY <1>t, <1>8
  <2>2. toClient' \in [Slots -> Seq(SentFrames)]
    BY <1>t, <1>8, <2>1
  <2> QED
    BY <1>t, <1>8, <2>2 DEF ListInv, OnlineIsAList
<1>9. ASSUME NEW k \in Slots, NameInUse(k) PROVE ListInv'
  BY <1>8, <1>9 DEF NameInUse, readerVars, uiVars, SentFrames, ErrorFrame
<1>10. ASSUME NEW f \in Frames, SendFrame(f) PROVE ListInv'
  <2>1. conn \in Slots /\ f \in SentFrames
    BY <1>10 DEF SendFrame, Registered, SentFrames
  <2> QED
    BY <1>8, <1>10, <2>1 DEF SendFrame, readerVars, uiVars
<1>11. CASE \/ Top \/ Refused \/ SendName \/ NameNotSent
            \/ Online \/ TellFailure \/ Wake
            \/ Forward \/ ForwardFails \/ ReaderDone \/ Stop
  <2>1. UNCHANGED <<toClient, pending, inbound, online>>
    BY <1>11 DEF Top, Refused, SendName, NameNotSent, Online, TellFailure, Wake, Forward,
       ForwardFails, ReaderDone, Stop, readerVars, uiVars, serverVars
  <2> QED
    BY <1>1, <2>1
<1>12. CASE \/ (\E k \in Slots : ReadFails(k) \/ Register(k) \/ Receive(k) \/ Notice(k))
            \/ SendOut \/ TakeStatus \/ (\E kind \in Kinds : Type(kind)) \/ Leave
            \/ CutLink \/ ServerStops \/ ServerStarts \/ UNCHANGED vars
  <2>1. UNCHANGED <<toClient, pending, inbound, online>>
    BY <1>12 DEF ReadFails, Register, Receive, Notice, SendOut, TakeStatus, Type, Leave, CutLink,
       ServerStops, ServerStarts, vars, readerVars, uiVars, serverVars
  <2> QED
    BY <1>1, <2>1
<1> QED
  BY <1>2, <1>3, <1>4, <1>5, <1>6, <1>7, <1>9, <1>10, <1>11, <1>12
     DEF Next, NetStep, ReaderStep, ServerStep, Environment

(* The list of users shown is one that the server sent, whole and with     *)
(* nothing from another list or frame in it, however connections come and  *)
(* go while it is on its way through the reader and the queue.             *)
THEOREM OnlineIsReal == Spec => []OnlineIsAList
<1>1. Init => ListInv
  BY EmptySeq DEF Init, ListInv, OnlineIsAList
<1>2. ListInv => OnlineIsAList
  BY DEF ListInv
<1> QED
  BY <1>1, <1>2, AlwaysTyped, ListStep, PTL DEF Spec

-----------------------------------------------------------------------------
(* Greetings, and what comes after them.                                   *)

IsGreeting(m) == m.kind \in {"welcome", "reconnected"}

(* Where the network task has started the reader of its connection.        *)
Started == {"select", "lost", "sorry", "pause", "closing", "stopped"}

(* A reader that is not over is that of the last connection.               *)
OneReader == \A k \in Slots : ~ReaderGone(k) => k = conn /\ net \in Started
(* Before position i of queue q there is no greeting, or a last one.       *)
LastGreeting(q, shown, i, k) ==
    \/ (\A j \in 1..(i - 1) : ~IsGreeting(q[j])) /\ k = shown
    \/ \E j \in 1..(i - 1) :
          IsGreeting(q[j]) /\ k = q[j].conn /\ \A l \in (j + 1)..(i - 1) : ~IsGreeting(q[l])

(* GreetingBefore, of any queue.                                           *)
GreetingIn(q, shown, i) ==
    LET seen == {j \in 1..(i - 1) : IsGreeting(q[j])}
    IN IF seen = {} THEN shown ELSE q[CHOOSE j \in seen : \A l \in seen : l =< j].conn

(* It is the last greeting.                                                *)
LEMMA GreetingIs ==
    ASSUME NEW q, NEW shown, NEW i \in Nat \ {0}
    PROVE  \A k : LastGreeting(q, shown, i, k) <=> k = GreetingIn(q, shown, i)
<1> DEFINE seen == {j \in 1..(i - 1) : IsGreeting(q[j])}
<1>1. GreetingIn(q, shown, i) = IF seen = {} THEN shown
                                ELSE q[CHOOSE j \in seen : \A l \in seen : l =< j].conn
  BY DEF GreetingIn
<1>2. CASE seen = {}
  <2>1. \A j \in 1..(i - 1) : ~IsGreeting(q[j])
    BY <1>2
  <2> QED
    BY <1>1, <1>2, <2>1 DEF LastGreeting
<1>3. CASE seen # {}
  <2> DEFINE B == {n \in Nat : i - n \in seen}
             last == CHOOSE j \in seen : \A l \in seen : l =< j
  <2>1. PICK n \in B : \A m \in B : n =< m
    <3>1. PICK j \in seen : TRUE
      BY <1>3
    <3>2. i - j \in Nat /\ i - (i - j) = j
      BY <3>1
    <3>3. i - j \in B
      BY <3>1, <3>2
    <3> HIDE DEF B
    <3>4. B \in SUBSET Nat
      BY DEF B
    <3> QED
      BY <3>3, <3>4, LeastNatural
  <2>2. i - n \in seen /\ \A l \in seen : l =< i - n
    <3>1. \A l \in seen : i - l \in Nat /\ i - (i - l) = l
      OBVIOUS
    <3> QED
      BY <2>1, <3>1
  <2>3. last \in seen /\ \A l \in seen : l =< last
    BY <2>2
  <2>4. IsGreeting(q[last]) /\ \A l \in (last + 1)..(i - 1) : ~IsGreeting(q[l])
    <3>1. \A l \in (last + 1)..(i - 1) : l \in 1..(i - 1) /\ ~(l =< last)
      BY <2>3
    <3> QED
      BY <2>3, <3>1
  <2>5. \A j \in 1..(i - 1) :
            IsGreeting(q[j]) /\ (\A l \in (j + 1)..(i - 1) : ~IsGreeting(q[l]))
                => j = last
    <3>1. ASSUME NEW j \in 1..(i - 1), IsGreeting(q[j]),
                 \A l \in (j + 1)..(i - 1) : ~IsGreeting(q[l])
          PROVE  j = last
      <4>1. j =< last
        BY <2>3, <3>1
      <4>2. ~(last \in (j + 1)..(i - 1))
        BY <2>4, <3>1
      <4> QED
        BY <2>3, <4>1, <4>2
    <3> QED
      BY <3>1
  <2>6. GreetingIn(q, shown, i) = q[last].conn /\ last \in 1..(i - 1)
    BY <1>1, <1>3, <2>3
  <2> HIDE DEF last, seen, B
  <2> QED
    BY <2>4, <2>5, <2>6 DEF LastGreeting
<1> QED
  BY <1>2, <1>3

(* Where a greeting is put in the queue it is the last one from there on;  *)
(* anything else changes nothing.                                          *)
LEMMA GreetingAdded ==
    ASSUME NEW q \in Seq(Incoming), NEW m \in Incoming, NEW shown
    PROVE  /\ \A i \in 1..(Len(q) + 1) :
                 GreetingIn(Append(q, m), shown, i) = GreetingIn(q, shown, i)
           /\ GreetingIn(Append(q, m), shown, Len(q) + 2) =
                 IF IsGreeting(m) THEN m.conn ELSE GreetingIn(q, shown, Len(q) + 1)
<1> DEFINE p == Append(q, m)
           n == Len(q)
<1>1. n \in Nat /\ p[n + 1] = m /\ \A j \in 1..n : p[j] = q[j]
  BY Added
<1> HIDE DEF p, n
<1>2. ASSUME NEW i \in 1..(n + 1), NEW k
      PROVE  LastGreeting(p, shown, i, k) <=> LastGreeting(q, shown, i, k)
  <2>1. \A j \in 1..(i - 1) : j \in 1..n /\ p[j] = q[j] /\ \A l \in (j + 1)..(i - 1) : p[l] = q[l]
    BY <1>1
  <2> QED
    BY <2>1 DEF LastGreeting
<1>3. ASSUME NEW i \in 1..(n + 1)
      PROVE  GreetingIn(p, shown, i) = GreetingIn(q, shown, i)
  <2>1. i \in Nat \ {0}
    BY <1>1
  <2>2. LastGreeting(q, shown, i, GreetingIn(q, shown, i))
    BY <2>1, GreetingIs
  <2> QED
    BY <1>2, <2>1, <2>2, GreetingIs
<1>4. GreetingIn(p, shown, n + 2) = IF IsGreeting(m) THEN m.conn ELSE GreetingIn(q, shown, n + 1)
  <2>1. n + 2 \in Nat \ {0} /\ n + 1 \in Nat \ {0} /\ n + 2 - 1 = n + 1 /\ n + 1 - 1 = n
    BY <1>1
  <2>2. CASE IsGreeting(m)
    <3>1. LastGreeting(p, shown, n + 2, m.conn)
      <4>1. n + 1 \in 1..(n + 1) /\ (n + 1 + 1)..(n + 1) = {}
        BY <1>1
      <4> QED
        BY <1>1, <2>1, <2>2, <4>1 DEF LastGreeting
    <3> QED
      BY <2>1, <2>2, <3>1, GreetingIs
  <2>3. CASE ~IsGreeting(m)
    <3> DEFINE k == GreetingIn(q, shown, n + 1)
    <3>1. LastGreeting(p, shown, n + 1, k)
      <4>1. n + 1 \in 1..(n + 1)
        BY <1>1
      <4>2. LastGreeting(q, shown, n + 1, k)
        BY <2>1, GreetingIs
      <4> QED
        BY <1>2, <4>1, <4>2
    <3> HIDE DEF k
    <3>2. LastGreeting(p, shown, n + 2, k)
      <4>1. CASE (\A j \in 1..n : ~IsGreeting(p[j])) /\ k = shown
        <5>1. \A j \in 1..(n + 1) : j \in 1..n \/ j = n + 1
          BY <1>1
        <5> QED
          BY <1>1, <2>1, <2>3, <4>1, <5>1 DEF LastGreeting
      <4>2. CASE \E j \in 1..n : /\ IsGreeting(p[j]) /\ k = p[j].conn
                                 /\ \A l \in (j + 1)..n : ~IsGreeting(p[l])
        <5>1. PICK j \in 1..n : /\ IsGreeting(p[j]) /\ k = p[j].conn
                                /\ \A l \in (j + 1)..n : ~IsGreeting(p[l])
          BY <4>2
        <5>2. j \in 1..(n + 1) /\ \A l \in (j + 1)..(n + 1) : l \in (j + 1)..n \/ l = n + 1
          BY <1>1
        <5> QED
          BY <1>1, <2>1, <2>3, <5>1, <5>2 DEF LastGreeting
      <4>3. PICK i : i = n + 1
        OBVIOUS
      <4>4. LastGreeting(p, shown, i, k) /\ i - 1 = n
        <5>1. i - 1 = n
          BY <1>1, <4>3
        <5>2. LastGreeting(p, shown, i, k)
          BY <3>1, <4>3
        <5> QED
          BY <5>1, <5>2
      <4>5. \/ (\A j \in 1..(i - 1) : ~IsGreeting(p[j])) /\ k = shown
            \/ \E j \in 1..(i - 1) : /\ IsGreeting(p[j]) /\ k = p[j].conn
                                     /\ \A l \in (j + 1)..(i - 1) : ~IsGreeting(p[l])
        BY <4>4 DEF LastGreeting
      <4> QED
        BY <4>1, <4>2, <4>4, <4>5
    <3> QED
      BY <2>1, <2>3, <3>2, GreetingIs DEF k
  <2> QED
    BY <2>2, <2>3
<1> QED
  BY <1>3, <1>4 DEF p, n

(* A greeting that is shown is no more in the queue, and still the last.   *)
LEMMA GreetingRemoved ==
    ASSUME NEW q \in Seq(Incoming), q # <<>>, NEW shown, NEW i \in 1..Len(q)
    PROVE  GreetingIn(Tail(q), IF IsGreeting(Head(q)) THEN Head(q).conn ELSE shown, i)
              = GreetingIn(q, shown, i + 1)
<1> DEFINE p == Tail(q)
           now == IF IsGreeting(q[1]) THEN q[1].conn ELSE shown
           n == Len(q)
<1>1. Head(q) = q[1] /\ n \in Nat \ {0} /\ \A j \in 1..(n - 1) : p[j] = q[j + 1]
  BY Removed
<1> DEFINE k == GreetingIn(p, now, i)
<1> HIDE DEF p, n, k
<1>i. i \in 1..n
  BY DEF n
<1>2. /\ i \in Nat \ {0} /\ i + 1 \in Nat \ {0} /\ i + 1 - 1 = i
      /\ \A j \in 1..(i - 1) : p[j] = q[j + 1] /\ j + 1 \in 1..i
  BY <1>1, <1>i
<1>3. LastGreeting(p, now, i, k)
  BY <1>2, GreetingIs DEF k
<1>4. LastGreeting(q, shown, i + 1, k)
  <2>1. CASE \E j \in 1..(i - 1) : /\ IsGreeting(p[j]) /\ k = p[j].conn
                                   /\ \A l \in (j + 1)..(i - 1) : ~IsGreeting(p[l])
    <3>1. PICK j \in 1..(i - 1) : /\ IsGreeting(p[j]) /\ k = p[j].conn
                                  /\ \A l \in (j + 1)..(i - 1) : ~IsGreeting(p[l])
      BY <2>1
    <3>2. ASSUME NEW l \in (j + 1 + 1)..i PROVE ~IsGreeting(q[l])
      <4>1. l - 1 \in (j + 1)..(i - 1) /\ l - 1 \in 1..(i - 1) /\ l - 1 + 1 = l
        BY <1>2
      <4> QED
        BY <1>2, <3>1, <4>1
    <3>3. j + 1 \in 1..i /\ IsGreeting(q[j + 1]) /\ k = q[j + 1].conn
      BY <1>2, <3>1
    <3> QED
      BY <1>2, <3>2, <3>3 DEF LastGreeting
  <2>2. CASE (\A j \in 1..(i - 1) : ~IsGreeting(p[j])) /\ k = now
    <3>1. ASSUME NEW l \in 2..i PROVE ~IsGreeting(q[l])
      <4>1. l - 1 \in 1..(i - 1) /\ l - 1 + 1 = l
        BY <1>2
      <4> QED
        BY <1>2, <2>2, <4>1
    <3>2. CASE IsGreeting(q[1])
      <4>1. 1 \in 1..i /\ (1 + 1)..i = 2..i
        BY <1>2
      <4> QED
        BY <1>2, <2>2, <3>1, <3>2, <4>1 DEF LastGreeting
    <3>3. CASE ~IsGreeting(q[1])
      <4>1. \A j \in 1..i : j = 1 \/ j \in 2..i
        BY <1>2
      <4> QED
        BY <1>2, <2>2, <3>1, <3>3, <4>1 DEF LastGreeting
    <3> QED
      BY <3>2, <3>3
  <2> HIDE DEF now
  <2> QED
    BY <1>3, <2>1, <2>2 DEF LastGreeting
<1>5. k = GreetingIn(q, shown, i + 1)
  BY <1>2, <1>4, GreetingIs
<1> QED
  BY <1>1, <1>5 DEF k, p

(* No message in a queue is of another connection than the greeting before *)
(* it.                                                                     *)
Fresh(q, shown) ==
    \A i \in 1..Len(q) : q[i].kind \in MessageKinds => q[i].conn = GreetingIn(q, shown, i)

(* It stays so if the next message is of the connection of the last        *)
(* greeting.                                                               *)
LEMMA FreshAdded ==
    ASSUME NEW q \in Seq(Incoming), NEW m \in Incoming, NEW shown, Fresh(q, shown),
           m.kind \in MessageKinds => m.conn = GreetingIn(q, shown, Len(q) + 1)
    PROVE  Fresh(Append(q, m), shown)
<1> DEFINE p == Append(q, m)
           n == Len(q)
<1>1. n \in Nat /\ Len(p) = n + 1 /\ p[n + 1] = m /\ \A i \in 1..n : p[i] = q[i]
  BY Added
<1>2. \A i \in 1..(n + 1) : GreetingIn(p, shown, i) = GreetingIn(q, shown, i)
  BY GreetingAdded
<1>3. \A i \in 1..n : q[i].kind \in MessageKinds => q[i].conn = GreetingIn(q, shown, i)
  BY DEF Fresh
<1>4. m.kind \in MessageKinds => m.conn = GreetingIn(q, shown, n + 1)
  OBVIOUS
<1> HIDE DEF p, n
<1>5. \A i \in 1..(n + 1) : i \in 1..n \/ i = n + 1
  BY <1>1
<1>6. \A i \in 1..(n + 1) : p[i].kind \in MessageKinds => p[i].conn = GreetingIn(p, shown, i)
  BY <1>1, <1>2, <1>3, <1>4, <1>5
<1> QED
  BY <1>1, <1>6 DEF Fresh, p

(* It stays so when a message is shown.                                    *)
LEMMA FreshRemoved ==
    ASSUME NEW q \in Seq(Incoming), q # <<>>, NEW shown, Fresh(q, shown)
    PROVE  Fresh(Tail(q), IF IsGreeting(Head(q)) THEN Head(q).conn ELSE shown)
<1> DEFINE p == Tail(q)
           now == IF IsGreeting(Head(q)) THEN Head(q).conn ELSE shown
           n == Len(q)
<1>1. n \in Nat \ {0} /\ Len(p) = n - 1 /\ \A i \in 1..(n - 1) : p[i] = q[i + 1]
  BY Removed
<1>2. \A i \in 1..n : GreetingIn(p, now, i) = GreetingIn(q, shown, i + 1)
  BY GreetingRemoved
<1>3. \A i \in 1..n : q[i].kind \in MessageKinds => q[i].conn = GreetingIn(q, shown, i)
  BY DEF Fresh
<1> HIDE DEF p, now, n
<1>4. ASSUME NEW i \in 1..(n - 1), p[i].kind \in MessageKinds
      PROVE  p[i].conn = GreetingIn(p, now, i)
  <2>1. i \in 1..n /\ i + 1 \in 1..n
    BY <1>1
  <2> QED
    BY <1>1, <1>2, <1>3, <1>4, <2>1
<1> QED
  BY <1>1, <1>4 DEF Fresh, p, now

(* A reader starts when no other runs, and ends before another can start.  *)
LEMMA OneReaderStep == TypeInv /\ OneReader /\ [Next]_vars => OneReader'
<1> SUFFICES ASSUME AllTypes, OneReader, [Next]_vars PROVE OneReader'
  BY DEF TypeInv
<1>t. reader \in [Slots -> {"none", "reading", "passing", "ended"}]
  BY DEF AllTypes, ReaderType
<1>1. ASSUME UNCHANGED reader, net \notin Started \/ \A k \in Slots : ReaderGone(k)
      PROVE  OneReader'
  BY <1>1 DEF OneReader, ReaderGone
<1>2. ASSUME UNCHANGED <<reader, conn>>, net' = net \/ net' \in Started PROVE OneReader'
  BY <1>2 DEF OneReader, ReaderGone
<1>3. CASE Top \/ Refused \/ (\E k \in Slots : Connect(k)) \/ SendName \/ NameNotSent \/ Online
  BY <1>1, <1>3 DEF Top, Refused, Connect, SendName, NameNotSent, Online, At, Started, readerVars
<1>4. CASE Greet
  BY <1>t, <1>4 DEF Greet, At, Goto, OneReader, ReaderGone, Started
<1>5. CASE TellFailure
  <2>1. UNCHANGED <<reader, conn>>
    BY <1>5 DEF TellFailure, readerVars
  <2>2. net \notin Started \/ net' \in Started
    BY <1>5 DEF TellFailure, Failures, Goto, Started
  <2> QED
    BY <1>1, <1>2, <2>1, <2>2
<1>6. CASE ShowFailure
  <2>1. UNCHANGED <<reader, conn>>
    BY <1>6 DEF ShowFailure, readerVars
  <2>2. net \notin Started \/ net' \in Started
    BY <1>6 DEF ShowFailure, AfterApology, Goto, Started
  <2> QED
    BY <1>1, <1>2, <2>1, <2>2
<1>7. CASE Wake
  <2>1. UNCHANGED reader
    BY <1>7 DEF Wake, readerVars
  <2>2. net \notin Started \/ \A k \in Slots : ReaderGone(k)
    BY <1>7 DEF Wake, Ended, Started, OneReader
  <2> QED
    BY <1>1, <2>1, <2>2
<1>8. CASE Forward \/ ForwardFails \/ ReaderDone \/ Stop
  <2>1. UNCHANGED <<reader, conn>>
    BY <1>8 DEF Forward, ForwardFails, ReaderDone, Stop, readerVars
  <2>2. net' \in Started
    BY <1>8 DEF Forward, ForwardFails, ReaderDone, Stop, Goto, Started
  <2> QED
    BY <1>2, <2>1, <2>2
<1>9. ASSUME NEW k \in Slots, Read(k) \/ Pass(k) \/ ReadFails(k) \/ Cancelled(k)
      PROVE  OneReader'
  <2>1. UNCHANGED <<net, conn>>
    BY <1>9 DEF Read, Pass, ReadFails, Cancelled, netVars
  <2>2. \A l \in Slots : ReaderGone(l) => ReaderGone(l)'
    BY <1>t, <1>9 DEF Read, Pass, ReadFails, Cancelled, Reading, ReaderGone
  <2> QED
    BY <2>1, <2>2 DEF OneReader
<1>10. CASE \/ (\E k \in Slots : ServerStep(k)) \/ SendOut \/ TakeStatus \/ TakeInbound
            \/ Environment \/ UNCHANGED vars
  <2>1. UNCHANGED <<reader, conn, net>>
    BY <1>10 DEF ServerStep, Register, NameInUse, Receive, Notice, SendOut, TakeStatus,
       TakeInbound, Environment, Type, Leave, SendFrame, CutLink, ServerStops, ServerStarts,
       vars, netVars, readerVars
  <2> QED
    BY <1>2, <2>1
<1> QED
  BY <1>3, <1>4, <1>5, <1>6, <1>7, <1>8, <1>9, <1>10 DEF Next, NetStep, ReaderStep



(* The last greeting is of the connection whose reader runs, and what is   *)
(* in the queue comes after the greeting of its connection.                *)
FreshInv ==
    /\ OneReader
    /\ \A k \in Slots : ~ReaderGone(k) => k = GreetingIn(inbound, greeting, Len(inbound) + 1)
    /\ Fresh(inbound, greeting)

(* No step lets a reader of an earlier connection into the queue.          *)
LEMMA FreshStep == TypeInv /\ FreshInv /\ [Next]_vars => FreshInv'
<1> SUFFICES ASSUME TypeInv, FreshInv, [Next]_vars PROVE FreshInv'
  OBVIOUS
<1>t. /\ reader \in [Slots -> {"none", "reading", "passing", "ended"}]
      /\ pending \in [Slots -> Seq(Collected)] /\ inbound \in Seq(Incoming)
      /\ conn \in Slots \cup {NoConn} /\ Len(inbound) \in Nat
  BY DEF TypeInv, AllTypes, ReaderType, InType, NetType
<1>o. OneReader'
  BY OneReaderStep DEF FreshInv
<1>f. /\ \A k \in Slots : ~ReaderGone(k) => k = GreetingIn(inbound, greeting, Len(inbound) + 1)
      /\ Fresh(inbound, greeting)
  BY DEF FreshInv
<1>1. ASSUME UNCHANGED <<inbound, greeting>>, \A k \in Slots : ReaderGone(k) => ReaderGone(k)'
      PROVE  FreshInv'
  <2>1. Fresh(inbound', greeting')
    BY <1>1, <1>f
  <2>2. \A k \in Slots : ~ReaderGone(k)' => k = GreetingIn(inbound', greeting', Len(inbound') + 1)
    BY <1>1, <1>f
  <2> QED
    BY <1>o, <2>1, <2>2 DEF FreshInv, Fresh, GreetingIn
<1>2. ASSUME NEW m \in Incoming, inbound' = Append(inbound, m), UNCHANGED greeting,
             m.kind \in MessageKinds => m.conn = GreetingIn(inbound, greeting, Len(inbound) + 1),
             \A k \in Slots : ~ReaderGone(k)' =>
                 k = IF IsGreeting(m) THEN m.conn
                     ELSE GreetingIn(inbound, greeting, Len(inbound) + 1)
      PROVE  FreshInv'
  <2>1. Fresh(inbound', greeting')
    BY <1>t, <1>f, <1>2, FreshAdded
  <2>2. GreetingIn(Append(inbound, m), greeting, Len(inbound) + 2) =
            IF IsGreeting(m) THEN m.conn ELSE GreetingIn(inbound, greeting, Len(inbound) + 1)
    BY <1>t, GreetingAdded
  <2>3. Len(inbound') + 1 = Len(inbound) + 2
    BY <1>t, <1>2
  <2>4. \A k \in Slots : ~ReaderGone(k)' => k = GreetingIn(inbound', greeting', Len(inbound') + 1)
    BY <1>2, <2>2, <2>3
  <2> QED
    BY <1>o, <2>1, <2>4 DEF FreshInv, Fresh, GreetingIn
<1>3. CASE Greet
  <2>1. PICK kind \in {"welcome", "reconnected"} : inbound' = Append(inbound, Note(kind))
    BY <1>3 DEF Greet, Show
  <2>2. Note(kind) \in Incoming /\ IsGreeting(Note(kind)) /\ Note(kind).kind \notin MessageKinds
        /\ Note(kind).conn = conn
    BY <1>t, EmptySeq DEF Note, Incoming, IsGreeting, MessageKinds
  <2>3. \A k \in Slots : ~ReaderGone(k)' => k = conn
    BY <1>3, <1>o DEF Greet, OneReader
  <2>4. UNCHANGED greeting
    BY <1>3 DEF Greet, uiVars
  <2> HIDE DEF Note
  <2> QED
    BY <1>2, <2>1, <2>2, <2>3, <2>4
<1>4. CASE ShowFailure
  <2>1. inbound' = Append(inbound, Note("error"))
    BY <1>4 DEF ShowFailure, Show
  <2>2. Note("error") \in Incoming /\ ~IsGreeting(Note("error"))
        /\ Note("error").kind \notin MessageKinds
    BY <1>t, EmptySeq DEF Note, Incoming, IsGreeting, MessageKinds
  <2>3. UNCHANGED <<reader, greeting>>
    BY <1>4 DEF ShowFailure, readerVars, uiVars
  <2>4. \A k \in Slots : ReaderGone(k)' <=> ReaderGone(k)
    BY <2>3 DEF ReaderGone
  <2> HIDE DEF Note
  <2> QED
    BY <1>2, <1>f, <2>1, <2>2, <2>3, <2>4
<1>5. ASSUME NEW k \in Slots, Pass(k) PROVE FreshInv'
  <2> DEFINE m == Head(pending[k])
             in == [kind |-> m.kind, conn |-> k, items |-> m.items]
  <2>1. pending[k] \in Seq(Collected) /\ pending[k] # <<>> /\ ~ReaderGone(k)
    BY <1>t, <1>5 DEF Pass, TypeInv, Shape, ReaderGone
  <2>2. m \in Collected
    BY <2>1, Removed
  <2>3. in \in Incoming /\ in.conn = k /\ in.kind \in MessageKinds
    BY <2>2 DEF Collected, Incoming
  <2>4. ~IsGreeting(in)
    BY <2>3 DEF IsGreeting, MessageKinds
  <2>5. inbound' = Append(inbound, in) /\ UNCHANGED greeting
    BY <1>5 DEF Pass, Show, uiVars
  <2>6. \A l \in Slots : ReaderGone(l) => ReaderGone(l)'
    BY <1>t, <1>5 DEF Pass, ReaderGone
  <2>7. k = GreetingIn(inbound, greeting, Len(inbound) + 1)
    BY <1>f, <2>1
  <2> HIDE DEF in
  <2> QED
    BY <1>2, <1>f, <2>3, <2>4, <2>5, <2>6, <2>7
<1>6. CASE TakeInbound
  <2>1. /\ inbound # <<>> /\ inbound' = Tail(inbound)
        /\ greeting' = IF IsGreeting(Head(inbound)) THEN Head(inbound).conn ELSE greeting
        /\ UNCHANGED reader
    BY <1>6 DEF TakeInbound, readerVars, IsGreeting
  <2>2. Fresh(inbound', greeting')
    BY <1>t, <1>f, <2>1, FreshRemoved
  <2>3. Len(inbound) \in 1..Len(inbound) /\ Len(inbound') + 1 = Len(inbound)
    BY <1>t, <2>1, EmptySeq, Removed
  <2>4. GreetingIn(inbound', greeting', Len(inbound)) = GreetingIn(inbound, greeting, Len(inbound) + 1)
    BY <1>t, <2>1, <2>3, GreetingRemoved
  <2>5. \A k \in Slots : ReaderGone(k)' <=> ReaderGone(k)
    BY <2>1 DEF ReaderGone
  <2>6. \A k \in Slots : ~ReaderGone(k)' => k = GreetingIn(inbound', greeting', Len(inbound') + 1)
    BY <1>f, <2>3, <2>4, <2>5
  <2> QED
    BY <1>o, <2>2, <2>6 DEF FreshInv, Fresh, GreetingIn
<1>7. CASE \/ Top \/ Refused \/ (\E k \in Slots : Connect(k)) \/ SendName \/ NameNotSent
           \/ Online \/ TellFailure \/ Wake \/ Forward \/ ForwardFails \/ ReaderDone \/ Stop
  <2>1. UNCHANGED <<inbound, greeting, reader>>
    BY <1>7 DEF Top, Refused, Connect, SendName, NameNotSent, Online, TellFailure, Wake, Forward,
       ForwardFails, ReaderDone, Stop, readerVars, uiVars
  <2> QED
    BY <1>1, <2>1 DEF ReaderGone
<1>8. CASE \/ (\E k \in Slots : ServerStep(k)) \/ SendOut \/ TakeStatus
           \/ Environment \/ UNCHANGED vars
  <2>1. UNCHANGED <<inbound, greeting, reader>>
    BY <1>8 DEF ServerStep, Register, NameInUse, Receive, Notice, SendOut, TakeStatus,
       Environment, Type, Leave, SendFrame, CutLink, ServerStops, ServerStarts, vars,
       readerVars, uiVars
  <2> QED
    BY <1>1, <2>1 DEF ReaderGone
<1>9. ASSUME NEW k \in Slots, Read(k) \/ ReadFails(k) \/ Cancelled(k) PROVE FreshInv'
  <2>1. UNCHANGED <<inbound, greeting>>
    BY <1>9 DEF Read, ReadFails, Cancelled, uiVars
  <2>2. \A l \in Slots : ReaderGone(l) => ReaderGone(l)'
    BY <1>t, <1>9 DEF Read, ReadFails, Cancelled, Reading, ReaderGone
  <2> QED
    BY <1>1, <2>1, <2>2
<1> QED
  BY <1>3, <1>4, <1>5, <1>6, <1>7, <1>8, <1>9 DEF Next, NetStep, ReaderStep

(* Nothing that came over an earlier connection is shown after the line    *)
(* "reconnected" of a later one: the reader of the earlier connection,     *)
(* though it is only aborted and not joined, is over by then.              *)
THEOREM StaleNever == Spec => []NothingStale
<1>1. Init => FreshInv
  BY EmptySeq DEF Init, FreshInv, OneReader, ReaderGone, Fresh
<1>2. TypeInv /\ FreshInv => NothingStale
  <2> SUFFICES ASSUME TypeInv, FreshInv PROVE NothingStale
    OBVIOUS
  <2>1. \A i : GreetingBefore(i) = GreetingIn(inbound, greeting, i)
    BY DEF GreetingBefore, GreetingIn, IsGreeting
  <2>2. Fresh(inbound, greeting)
    BY DEF FreshInv
  <2>3. DOMAIN inbound = 1..Len(inbound)
    BY DEF TypeInv, AllTypes, InType
  <2> QED
    BY <2>1, <2>2, <2>3 DEF NothingStale, Fresh
<1> QED
  BY <1>1, <1>2, AlwaysTyped, FreshStep, PTL DEF Spec

-----------------------------------------------------------------------------
(* What is delivered.  The numbers on the wires and those delivered, as    *)
(* constants: F messages were forwarded, c is the open connection of the   *)
(* client or none, h tells that its name is still to be sent on it, st is  *)
(* the stage of each connection, w the numbers on it, d those delivered.   *)

Follows(s) ==
    \A i \in 1..(Len(s) - 1) : s[i] # 0 /\ s[i + 1] # 0 => s[i + 1] = s[i] + 1

(* Only what was forwarded gets anywhere.                                  *)
Below(F, w, d) ==
    /\ \A k \in Slots : \A i \in 1..Len(w[k]) : w[k][i] =< F
    /\ \A i \in 1..Len(d) : d[i] =< F

(* The name goes first, and once.                                          *)
NameFirst(st, w) ==
    \A k \in Slots :
        /\ st[k] = "free" => w[k] = <<>>
        /\ \A i \in 1..Len(w[k]) : w[k][i] = 0 <=> st[k] = "new" /\ i = 1

Linked(w, d) == (\A k \in Slots : Follows(w[k])) /\ Follows(d)

(* A message is in one place only.                                         *)
Once(w, d) ==
    /\ \A i, j \in 1..Len(d) : d[i] = d[j] /\ d[i] # 0 => i = j
    /\ \A k \in Slots : \A i \in 1..Len(w[k]), j \in 1..Len(d) : w[k][i] = d[j] => d[j] = 0
    /\ \A k, l \in Slots : \A i \in 1..Len(w[k]), j \in 1..Len(w[l]) :
          w[k][i] = w[l][j] /\ w[k][i] # 0 => k = l /\ i = j

(* One connection is registered, and what is on it goes on where what was  *)
(* delivered ends.                                                         *)
Continued(st, w, d) ==
    \A k \in Slots : st[k] = "in" =>
        /\ d # <<>> /\ \A l \in Slots : st[l] = "in" => l = k
        /\ w[k] # <<>> /\ d[Len(d)] # 0 => w[k][1] = d[Len(d)] + 1

(* What is forwarded next goes on where what is on the connection ends.    *)
AtEnd(F, c, h, st, w, d) ==
    c \in Slots =>
        /\ st[c] # "free"
        /\ h => st[c] = "new" /\ w[c] = <<>>
        /\ ~h /\ w[c] # <<>> => w[c][Len(w[c])] \in {0, F}
        /\ ~h /\ w[c] = <<>> => st[c] = "in" /\ d[Len(d)] \in {0, F}

Stages == {"free", "new", "in"}

Ordered(F, c, h, st, w, d) ==
    /\ F \in Nat /\ st \in [Slots -> Stages] /\ w \in [Slots -> Seq(Nat)] /\ d \in Seq(Nat)
    /\ Below(F, w, d) /\ NameFirst(st, w) /\ Linked(w, d) /\ Once(w, d)
    /\ Continued(st, w, d) /\ AtEnd(F, c, h, st, w, d)

(* Messages that are lost leave no trace but on the connection that is     *)
(* lost with them.                                                         *)
LEMMA WhenLost ==
    ASSUME NEW F, NEW c, NEW h, NEW st, NEW w, NEW d, Ordered(F, c, h, st, w, d),
           NEW G \in Nat, F =< G, NEW g
    PROVE  Ordered(G, NoConn, g, st, w, d)
<1>1. Below(G, w, d)
  BY DEF Ordered, Below
<1>2. AtEnd(G, NoConn, g, st, w, d)
  BY ClientAssumption DEF AtEnd
<1> QED
  BY <1>1, <1>2 DEF Ordered

(* The name, or the next message, is written.                              *)
LEMMA WhenWritten ==
    ASSUME NEW F, NEW c \in Slots, NEW h \in BOOLEAN, NEW st, NEW w, NEW d,
           Ordered(F, c, h, st, w, d),
           NEW n \in Nat, NEW G \in Nat,
           IF h THEN n = 0 /\ G = F ELSE n = F + 1 /\ G = F + 1
    PROVE  Ordered(G, c, FALSE, st, [w EXCEPT ![c] = Append(@, n)], d)
<1> DEFINE a == Append(w[c], n)
           v == [w EXCEPT ![c] = a]
           m == Len(w[c])
<1>1. /\ F \in Nat /\ st \in [Slots -> Stages] /\ w \in [Slots -> Seq(Nat)] /\ d \in Seq(Nat)
      /\ w[c] \in Seq(Nat)
  BY DEF Ordered
<1>2. /\ a \in Seq(Nat) /\ a # <<>> /\ m \in Nat /\ Len(a) = m + 1 /\ a[m + 1] = n
      /\ \A i \in 1..m : a[i] = w[c][i]
  <2>1. \A s \in Seq(Nat), e \in Nat :
           /\ Append(s, e) \in Seq(Nat) /\ Append(s, e) # <<>>
           /\ Len(s) \in Nat /\ Len(Append(s, e)) = Len(s) + 1
           /\ Append(s, e)[Len(s) + 1] = e
           /\ \A i \in 1..Len(s) : Append(s, e)[i] = s[i]
    BY Added
  <2> QED
    BY <1>1, <2>1
<1>3. v \in [Slots -> Seq(Nat)] /\ v[c] = a /\ \A k \in Slots \ {c} : v[k] = w[k]
  BY <1>1, <1>2
<1> HIDE DEF a, v
<1>4. \A i \in 1..(m + 1) : i \in 1..m \/ i = m + 1
  BY <1>2
<1>5. G >= F /\ n =< G /\ (n # 0 => n = F + 1 /\ G = n /\ ~h) /\ (n = 0 => h)
  BY <1>1
<1>b. /\ Below(F, w, d) /\ NameFirst(st, w) /\ Linked(w, d) /\ Once(w, d)
      /\ Continued(st, w, d) /\ AtEnd(F, c, h, st, w, d)
  BY DEF Ordered
<1>n. /\ \A k \in Slots : \A i \in 1..Len(w[k]) : w[k][i] \in Nat
      /\ \A i \in 1..Len(d) : d[i] \in Nat
  BY <1>1, ElementOfSeq
<1>6. Below(G, v, d)
  <2>1. \A x \in Nat : x =< F => x =< G
    BY <1>1, <1>5
  <2>2. \A i \in 1..m : a[i] =< G
    BY <1>2, <1>b, <1>n, <2>1 DEF Below
  <2>3. \A i \in 1..(m + 1) : a[i] =< G
    BY <1>2, <1>4, <1>5, <2>2
  <2>4. \A k \in Slots \ {c} : \A i \in 1..Len(w[k]) : w[k][i] =< G
    BY <1>b, <1>n, <2>1 DEF Below
  <2>5. \A i \in 1..Len(d) : d[i] =< G
    BY <1>b, <1>n, <2>1 DEF Below
  <2> QED
    BY <1>2, <1>3, <2>3, <2>4, <2>5 DEF Below
<1>7. h => st[c] = "new" /\ w[c] = <<>> /\ m = 0
  BY EmptySeq DEF Ordered, AtEnd
<1>7b. ~h => st[c] = "in" \/ m # 0
  BY <1>1, <1>2, EmptySeq DEF Ordered, AtEnd
<1>8. NameFirst(st, v)
  <2>1. st[c] # "free"
    BY DEF Ordered, AtEnd
  <2>2. ASSUME NEW i \in 1..(m + 1) PROVE a[i] = 0 <=> st[c] = "new" /\ i = 1
    <3>1. CASE i \in 1..m
      BY <1>2, <3>1 DEF Ordered, NameFirst
    <3>2. CASE i = m + 1
      BY <1>2, <1>5, <1>7, <1>7b, <3>2
    <3> QED
      BY <1>4, <3>1, <3>2
  <2> QED
    BY <1>2, <1>3, <2>1, <2>2 DEF Ordered, NameFirst
<1>9. Linked(v, d)
  <2>1. \A i \in 1..m : a[i] # 0 /\ a[i + 1] # 0 => a[i + 1] = a[i] + 1
    <3>1. ASSUME NEW i \in 1..m, a[i] # 0, a[i + 1] # 0 PROVE a[i + 1] = a[i] + 1
      <4>1. CASE i = m
        <5>1. m # 0 /\ w[c] # <<>> /\ a[i] = w[c][m] /\ ~h
          BY <1>2, <1>5, <1>7, <3>1, <4>1, EmptySeq
        <5>2. w[c][m] \in {0, F}
          BY <5>1 DEF Ordered, AtEnd
        <5> QED
          BY <1>1, <1>2, <1>5, <3>1, <4>1, <5>1, <5>2
      <4>2. CASE i # m
        <5>1. i \in 1..(m - 1) /\ i + 1 \in 1..m
          BY <1>2, <4>2
        <5> QED
          BY <1>2, <3>1, <5>1 DEF Ordered, Linked, Follows
      <4> QED
        BY <4>1, <4>2
    <3> QED
      BY <3>1
  <2>2. Follows(a)
    <3>1. Len(a) - 1 = m
      BY <1>2
    <3> QED
      BY <2>1, <3>1 DEF Follows
  <2> QED
    BY <1>3, <2>2 DEF Ordered, Linked
<1>10. Once(v, d)
  <2>1. n # 0 => /\ \A k \in Slots : \A i \in 1..Len(w[k]) : w[k][i] # n
                 /\ \A i \in 1..Len(d) : d[i] # n
    <3> SUFFICES ASSUME n # 0
                 PROVE  /\ \A k \in Slots : \A i \in 1..Len(w[k]) : w[k][i] # n
                        /\ \A i \in 1..Len(d) : d[i] # n
      OBVIOUS
    <3>1. \A x \in Nat : x =< F => x # n
      BY <1>1, <1>5
    <3> QED
      BY <1>b, <1>n, <3>1 DEF Below
  <2>2. \A i \in 1..(m + 1), j \in 1..Len(d) : a[i] = d[j] => d[j] = 0
    <3>1. \A i \in 1..m, j \in 1..Len(d) : w[c][i] = d[j] => d[j] = 0
      BY <1>b DEF Once
    <3> QED
      BY <1>2, <1>4, <2>1, <3>1
  <2>3. \A i, j \in 1..(m + 1) : a[i] = a[j] /\ a[i] # 0 => i = j
    <3>1. \A i, j \in 1..m : w[c][i] = w[c][j] /\ w[c][i] # 0 => i = j
      BY <1>b DEF Once
    <3>2. \A i \in 1..m : n # 0 => w[c][i] # n
      BY <2>1
    <3> QED
      BY <1>2, <1>4, <3>1, <3>2
  <2>4. \A k \in Slots \ {c} : \A i \in 1..(m + 1), j \in 1..Len(w[k]) :
            a[i] = w[k][j] => a[i] = 0
    <3>1. \A k \in Slots \ {c} : \A i \in 1..m, j \in 1..Len(w[k]) :
              w[c][i] = w[k][j] => w[c][i] = 0
      BY <1>b DEF Once
    <3>2. \A k \in Slots \ {c} : \A j \in 1..Len(w[k]) : n = w[k][j] => n = 0
      BY <2>1
    <3>3. ASSUME NEW k \in Slots \ {c}, NEW i \in 1..(m + 1), NEW j \in 1..Len(w[k]),
                 a[i] = w[k][j]
          PROVE  a[i] = 0
      <4>1. CASE i \in 1..m
        BY <1>2, <3>1, <3>3, <4>1
      <4>2. CASE i = m + 1
        BY <1>2, <3>2, <3>3, <4>2
      <4> QED
        BY <1>4, <4>1, <4>2
    <3> QED
      BY <3>3
  <2>5. \A k \in Slots : \A i \in 1..Len(v[k]), j \in 1..Len(d) : v[k][i] = d[j] => d[j] = 0
    <3>1. \A k \in Slots \ {c} : \A i \in 1..Len(w[k]), j \in 1..Len(d) :
              w[k][i] = d[j] => d[j] = 0
      BY <1>b DEF Once
    <3>2. ASSUME NEW k \in Slots, NEW i \in 1..Len(v[k]), NEW j \in 1..Len(d), v[k][i] = d[j]
          PROVE  d[j] = 0
      <4>1. CASE k = c
        <5>1. v[k] = a /\ i \in 1..(m + 1)
          BY <1>2, <1>3, <4>1
        <5> QED
          BY <2>2, <3>2, <5>1
      <4>2. CASE k # c
        <5>1. v[k] = w[k]
          BY <1>3, <4>2
        <5> QED
          BY <3>1, <3>2, <4>2, <5>1
      <4> QED
        BY <4>1, <4>2
    <3> QED
      BY <3>2
  <2>6. ASSUME NEW k \in Slots, NEW l \in Slots, NEW i \in 1..Len(v[k]), NEW j \in 1..Len(v[l]),
               v[k][i] = v[l][j], v[k][i] # 0
        PROVE  k = l /\ i = j
    <3>1. CASE k = c /\ l = c
      BY <1>2, <1>3, <2>3, <2>6, <3>1
    <3>2. CASE k # c \/ l # c
      <4>1. CASE k # c /\ l # c
        <5>1. v[k] = w[k] /\ v[l] = w[l]
          BY <1>3, <4>1
        <5>2. i \in 1..Len(w[k]) /\ j \in 1..Len(w[l]) /\ w[k][i] = w[l][j] /\ w[k][i] # 0
          BY <2>6, <5>1
        <5> QED
          BY <1>b, <5>2 DEF Once
      <4>2. CASE k = c /\ l # c
        BY <1>2, <1>3, <2>4, <2>6, <4>2, SMTT(30)
      <4>3. CASE k # c /\ l = c
        <5>1. v[k] = w[k] /\ v[l] = a
          BY <1>3, <4>3
        <5>2. i \in 1..Len(w[k]) /\ j \in 1..(m + 1) /\ a[j] = w[k][i] /\ a[j] # 0
          BY <1>2, <2>6, <5>1
        <5> QED
          BY <2>4, <4>3, <5>2
      <4> QED
        BY <3>2, <4>1, <4>2, <4>3
    <3> QED
      BY <3>1, <3>2
  <2>7. \A i, j \in 1..Len(d) : d[i] = d[j] /\ d[i] # 0 => i = j
    BY DEF Ordered, Once
  <2> QED
    BY <2>5, <2>6, <2>7 DEF Once
<1>11. Continued(st, v, d)
  <2>1. st[c] = "in" /\ d[Len(d)] # 0 => a[1] = d[Len(d)] + 1
    <3> SUFFICES ASSUME st[c] = "in", d[Len(d)] # 0 PROVE a[1] = d[Len(d)] + 1
      OBVIOUS
    <3>1. CASE m = 0
      <4>1. w[c] = <<>> /\ ~h /\ n = F + 1 /\ a[1] = n
        BY <1>1, <1>2, <1>5, <1>7, <3>1, EmptySeq
      <4>2. d[Len(d)] = F
        BY <4>1 DEF Ordered, AtEnd
      <4> QED
        BY <4>1, <4>2
    <3>2. CASE m # 0
      <4>1. w[c] # <<>> /\ a[1] = w[c][1]
        BY <1>2, <3>2, EmptySeq
      <4> QED
        BY <4>1 DEF Ordered, Continued
    <3> QED
      BY <3>1, <3>2
  <2> QED
    BY <1>2, <1>3, <2>1 DEF Ordered, Continued
<1>12. AtEnd(G, c, FALSE, st, v, d)
  <2>1. st[c] # "free"
    BY DEF Ordered, AtEnd
  <2>2. v[c] # <<>> /\ v[c][Len(v[c])] = n /\ n \in {0, G}
    BY <1>2, <1>3, <1>5
  <2> QED
    BY <2>1, <2>2 DEF AtEnd
<1> QED
  BY <1>1, <1>3, <1>6, <1>8, <1>9, <1>10, <1>11, <1>12 DEF Ordered, a, v

(* Connections other than e end, at the server.                            *)
Cleared(e, st, w, u, v) ==
    /\ u \in [Slots -> Stages] /\ v \in [Slots -> Seq(Nat)]
    /\ \A k \in Slots : \/ k # e /\ u[k] = "free" /\ v[k] = <<>>
                        \/ u[k] = st[k] /\ v[k] = w[k]

(* What is on them is lost.                                                *)
LEMMA WhenCleared ==
    ASSUME NEW F, NEW c, NEW h, NEW st, NEW w, NEW d, Ordered(F, c, h, st, w, d),
           NEW e, e = c \/ e = NoConn, NEW u, NEW v, Cleared(e, st, w, u, v)
    PROVE  Ordered(F, e, h, u, v, d)
<1>1. /\ F \in Nat /\ d \in Seq(Nat)
      /\ u \in [Slots -> Stages] /\ v \in [Slots -> Seq(Nat)]
  BY DEF Ordered, Cleared
<1>2. \A k \in Slots : \/ k # e /\ u[k] = "free" /\ v[k] = <<>>
                       \/ u[k] = st[k] /\ v[k] = w[k]
  BY DEF Cleared
<1>3. \A k \in Slots : \A i \in 1..Len(v[k]) :
          v[k] = w[k] /\ u[k] = st[k] /\ i \in 1..Len(w[k])
  <2>1. 1..Len(<<>>) = {}
    BY EmptySeq
  <2> QED
    BY <1>2, <2>1
<1>b. /\ Below(F, w, d) /\ NameFirst(st, w) /\ Linked(w, d) /\ Once(w, d)
      /\ Continued(st, w, d) /\ AtEnd(F, c, h, st, w, d)
  BY DEF Ordered
<1>4. Below(F, v, d)
  BY <1>3, <1>b DEF Below
<1>5. NameFirst(u, v)
  BY <1>2, <1>3, <1>b DEF NameFirst
<1>6. Linked(v, d)
  <2>1. Follows(<<>>)
    BY EmptySeq DEF Follows
  <2>2. \A k \in Slots : Follows(w[k])
    BY <1>b DEF Linked
  <2>3. \A k \in Slots : Follows(v[k])
    BY <1>2, <2>1, <2>2
  <2> QED
    BY <1>b, <2>3 DEF Linked
<1>7. Once(v, d)
  <2>1. ASSUME NEW k \in Slots, NEW l \in Slots, NEW i \in 1..Len(v[k]), NEW j \in 1..Len(v[l]),
               v[k][i] = v[l][j], v[k][i] # 0
        PROVE  k = l /\ i = j
    <3>1. i \in 1..Len(w[k]) /\ j \in 1..Len(w[l]) /\ w[k][i] = w[l][j] /\ w[k][i] # 0
      BY <1>3, <2>1
    <3> QED
      BY <1>b, <3>1 DEF Once
  <2>2. \A k \in Slots : \A i \in 1..Len(v[k]), j \in 1..Len(d) : v[k][i] = d[j] => d[j] = 0
    BY <1>3, <1>b DEF Once
  <2>3. \A i, j \in 1..Len(d) : d[i] = d[j] /\ d[i] # 0 => i = j
    BY <1>b DEF Once
  <2> QED
    BY <2>1, <2>2, <2>3 DEF Once
<1>8. Continued(u, v, d)
  <2>1. \A k \in Slots : u[k] = "in" => st[k] = "in" /\ v[k] = w[k]
    BY <1>2
  <2> QED
    BY <1>b, <2>1 DEF Continued
<1>9. AtEnd(F, e, h, u, v, d)
  <2>1. e \in Slots => e = c /\ u[e] = st[c] /\ v[e] = w[c]
    BY <1>2, ClientAssumption
  <2> QED
    BY <1>b, <2>1 DEF AtEnd
<1> QED
  BY <1>1, <1>2, <1>4, <1>5, <1>6, <1>7, <1>8, <1>9 DEF Ordered

(* A connection is opened.                                                 *)
LEMMA WhenOpened ==
    ASSUME NEW F, NEW c, NEW h, NEW st, NEW w, NEW d, Ordered(F, c, h, st, w, d),
           NEW k \in Slots, st[k] = "free"
    PROVE  /\ w[k] = <<>>
           /\ Ordered(F, k, TRUE, [st EXCEPT ![k] = "new"], w, d)
<1> DEFINE u == [st EXCEPT ![k] = "new"]
<1>1. /\ F \in Nat /\ st \in [Slots -> Stages] /\ w \in [Slots -> Seq(Nat)] /\ d \in Seq(Nat)
  BY DEF Ordered
<1>2. u \in [Slots -> Stages] /\ u[k] = "new" /\ \A l \in Slots \ {k} : u[l] = st[l]
  BY <1>1 DEF Stages
<1> HIDE DEF u
<1>b. NameFirst(st, w) /\ Continued(st, w, d)
  BY DEF Ordered
<1>3. w[k] = <<>> /\ 1..Len(w[k]) = {}
  BY <1>b, EmptySeq DEF NameFirst
<1>4. NameFirst(u, w)
  BY <1>2, <1>3, <1>b DEF NameFirst
<1>5. Continued(u, w, d)
  <2>1. \A l \in Slots : u[l] = "in" => st[l] = "in"
    BY <1>2
  <2> QED
    BY <1>b, <2>1 DEF Continued
<1>6. AtEnd(F, k, TRUE, u, w, d)
  BY <1>2, <1>3 DEF AtEnd
<1> QED
  BY <1>1, <1>2, <1>3, <1>4, <1>5, <1>6 DEF Ordered, u

(* The server reads what is first on a connection.                         *)
LEMMA WhenTaken ==
    ASSUME NEW F, NEW c, NEW h, NEW st, NEW w, NEW d, Ordered(F, c, h, st, w, d),
           NEW k \in Slots, st[k] # "free", w[k] # <<>>,
           \A l \in Slots : st[l] = "in" => l = k
    PROVE  /\ Head(w[k]) = 0 <=> st[k] = "new"
           /\ Ordered(F, c, h, [st EXCEPT ![k] = "in"], [w EXCEPT ![k] = Tail(w[k])],
                      Append(d, Head(w[k])))
<1> DEFINE t == Tail(w[k])
           x == Head(w[k])
           a == Append(d, x)
           m == Len(w[k])
           n == Len(d)
           u == [st EXCEPT ![k] = "in"]
           v == [w EXCEPT ![k] = t]
<1>1. /\ F \in Nat /\ st \in [Slots -> Stages] /\ w \in [Slots -> Seq(Nat)] /\ d \in Seq(Nat)
      /\ w[k] \in Seq(Nat)
  BY DEF Ordered
<1>2. /\ m \in Nat /\ m # 0 /\ x = w[k][1] /\ x \in Nat
      /\ t \in Seq(Nat) /\ Len(t) = m - 1
      /\ \A i \in 1..(m - 1) : t[i] = w[k][i + 1]
      /\ t = <<>> <=> m = 1
  <2>1. \A s \in Seq(Nat) : s # <<>> =>
           /\ Len(s) \in Nat /\ Len(s) # 0 /\ Head(s) = s[1] /\ Head(s) \in Nat
           /\ Tail(s) \in Seq(Nat) /\ Len(Tail(s)) = Len(s) - 1
           /\ \A i \in 1..(Len(s) - 1) : Tail(s)[i] = s[i + 1]
    BY Removed
  <2>2. \A s \in Seq(Nat) : Len(s) \in Nat /\ (s = <<>> <=> Len(s) = 0)
    BY EmptySeq
  <2> DEFINE q == w[k]
  <2> HIDE DEF q
  <2>3. q \in Seq(Nat) /\ q # <<>>
    BY <1>1 DEF q
  <2>4. /\ Len(q) \in Nat /\ Len(q) # 0 /\ Head(q) = q[1] /\ Head(q) \in Nat
        /\ Tail(q) \in Seq(Nat) /\ Len(Tail(q)) = Len(q) - 1
        /\ \A i \in 1..(Len(q) - 1) : Tail(q)[i] = q[i + 1]
    BY <2>1, <2>3
  <2>5. Tail(q) = <<>> <=> Len(Tail(q)) = 0
    BY <2>2, <2>4
  <2>6. Tail(q) = <<>> <=> Len(q) = 1
    BY <2>4, <2>5, SMTT(30)
  <2> QED
    BY <2>4, <2>6 DEF q
<1>3. /\ a \in Seq(Nat) /\ a # <<>> /\ n \in Nat /\ Len(a) = n + 1 /\ a[n + 1] = x
      /\ \A i \in 1..n : a[i] = d[i]
  <2>1. \A s \in Seq(Nat), e \in Nat :
           /\ Append(s, e) \in Seq(Nat) /\ Append(s, e) # <<>>
           /\ Len(s) \in Nat /\ Len(Append(s, e)) = Len(s) + 1
           /\ Append(s, e)[Len(s) + 1] = e
           /\ \A i \in 1..Len(s) : Append(s, e)[i] = s[i]
    BY Added
  <2>2. x \in Nat
    BY <1>2
  <2> HIDE DEF x
  <2>3. a = Append(d, x) /\ n = Len(d)
    OBVIOUS
  <2> HIDE DEF a, n
  <2> QED
    BY <1>1, <2>1, <2>2, <2>3
<1>4. /\ u \in [Slots -> Stages] /\ u[k] = "in" /\ \A l \in Slots \ {k} : u[l] = st[l]
      /\ v \in [Slots -> Seq(Nat)] /\ v[k] = t /\ \A l \in Slots \ {k} : v[l] = w[l]
  BY <1>1, <1>2 DEF Stages
<1> HIDE DEF t, x, a, u, v
<1>b. /\ Below(F, w, d) /\ NameFirst(st, w) /\ Linked(w, d) /\ Once(w, d)
      /\ Continued(st, w, d) /\ AtEnd(F, c, h, st, w, d)
  BY DEF Ordered
<1>5. x = 0 <=> st[k] = "new"
  BY <1>2, <1>b DEF NameFirst
<1>6. \A i \in 1..(n + 1) : i \in 1..n \/ i = n + 1
  BY <1>3
<1>7. \A i \in 1..(m - 1) : i + 1 \in 1..m /\ i + 1 # 1
  BY <1>2
<1>8. \A l \in Slots, i \in Nat : i \in 1..Len(v[l]) =>
          \E j \in 1..Len(w[l]) : v[l][i] = w[l][j] /\ (l = k => j = i + 1) /\ (l # k => j = i)
  <2>1. ASSUME NEW l \in Slots, NEW i \in Nat, i \in 1..Len(v[l])
        PROVE  \E j \in 1..Len(w[l]) :
                   v[l][i] = w[l][j] /\ (l = k => j = i + 1) /\ (l # k => j = i)
    <3>1. CASE l = k
      <4>1. i \in 1..(m - 1) /\ i + 1 \in 1..m /\ v[l][i] = w[l][i + 1]
        BY <1>2, <1>4, <1>7, <2>1, <3>1
      <4> QED
        BY <3>1, <4>1
    <3>2. CASE l # k
      <4>1. v[l] = w[l]
        BY <1>4, <3>2
      <4> QED
        BY <2>1, <3>2, <4>1
    <3> QED
      BY <3>1, <3>2
  <2> QED
    BY <2>1
<1>9. \A l \in Slots : \A i \in 1..Len(v[l]) : i \in Nat
  BY <1>4
<1>10. Below(F, v, a)
  <2>1. ASSUME NEW l \in Slots, NEW i \in 1..Len(v[l]) PROVE v[l][i] =< F
    <3>1. PICK p \in 1..Len(w[l]) : v[l][i] = w[l][p]
      BY <1>8, <1>9
    <3> QED
      BY <1>b, <3>1 DEF Below
  <2>2. 1 \in 1..m
    BY <1>2
  <2>3. x =< F
    BY <1>2, <1>b, <2>2 DEF Below
  <2>4. \A i \in 1..(n + 1) : a[i] =< F
    BY <1>3, <1>6, <1>b, <2>3 DEF Below
  <2> QED
    BY <1>3, <2>1, <2>4 DEF Below
<1>11. NameFirst(u, v)
  <2>1. \A i \in 1..Len(v[k]) : v[k][i] # 0
    <3>1. \A i \in 1..m : i # 1 => w[k][i] # 0
      BY <1>b DEF NameFirst
    <3>2. \A i \in 1..(m - 1) : t[i] # 0
      BY <1>2, <1>7, <3>1
    <3>3. v[k] = t /\ Len(t) = m - 1
      BY <1>2, <1>4
    <3> QED
      BY <3>2, <3>3
  <2> QED
    BY <1>4, <1>b, <2>1, SMTT(30) DEF NameFirst
<1>12. Linked(v, a)
  <2>1. Follows(t)
    <3>1. \A i \in 1..(m - 1) : w[k][i] # 0 /\ w[k][i + 1] # 0 => w[k][i + 1] = w[k][i] + 1
      BY <1>b DEF Linked, Follows
    <3>2. ASSUME NEW i \in 1..(Len(t) - 1), t[i] # 0, t[i + 1] # 0 PROVE t[i + 1] = t[i] + 1
      <4>1. i \in 1..(m - 1) /\ i + 1 \in 1..(m - 1)
        BY <1>2
      <4>2. t[i] = w[k][i + 1] /\ t[i + 1] = w[k][(i + 1) + 1]
        BY <1>2, <4>1
      <4> QED
        BY <3>1, <3>2, <4>1, <4>2
    <3> QED
      BY <3>2 DEF Follows
  <2>2. \A l \in Slots : Follows(v[l])
    <3>1. \A l \in Slots : Follows(w[l])
      BY <1>b DEF Linked
    <3> QED
      BY <1>4, <2>1, <3>1
  <2>3. Follows(a)
    <3>1. ASSUME NEW i \in 1..n, a[i] # 0, a[i + 1] # 0 PROVE a[i + 1] = a[i] + 1
      <4>1. CASE i = n
        <5>1. d # <<>> /\ a[i] = d[n] /\ a[i + 1] = x
          BY <1>3, <4>1, EmptySeq
        <5>2. st[k] = "in"
          BY <1>1, <1>5, <3>1, <5>1 DEF Stages
        <5>3. w[k][1] = d[n] + 1
          BY <1>b, <3>1, <5>1, <5>2 DEF Continued
        <5> QED
          BY <1>2, <5>1, <5>3
      <4>2. CASE i # n
        <5>1. i \in 1..(n - 1) /\ i + 1 \in 1..n
          BY <1>3, <4>2
        <5> QED
          BY <1>3, <1>b, <3>1, <5>1 DEF Linked, Follows
      <4> QED
        BY <4>1, <4>2
    <3>2. Len(a) - 1 = n
      BY <1>3
    <3> QED
      BY <3>1, <3>2 DEF Follows
  <2> QED
    BY <2>2, <2>3 DEF Linked
<1>13. Once(v, a)
  <2>1. 1 \in 1..m
    BY <1>2
  <2>2. \A i \in 1..n : x = d[i] => x = 0
    BY <1>2, <1>b, <2>1, ZenonT(30) DEF Once
  <2>3. \A i, j \in 1..n : d[i] = d[j] /\ d[i] # 0 => i = j
    BY <1>b DEF Once
  <2>4. \A i, j \in 1..(n + 1) : a[i] = a[j] /\ a[i] # 0 => i = j
    BY <1>3, <1>6, <2>2, <2>3
  <2>5. ASSUME NEW l \in Slots, NEW i \in 1..Len(v[l]), NEW j \in 1..(n + 1), v[l][i] = a[j]
        PROVE  a[j] = 0
    <3>1. PICK p \in 1..Len(w[l]) :
              v[l][i] = w[l][p] /\ (l = k => p = i + 1) /\ (l # k => p = i)
      BY <1>8, <1>9
    <3>2. CASE j \in 1..n
      <4>1. w[l][p] = d[j] /\ a[j] = d[j]
        BY <1>3, <2>5, <3>1, <3>2
      <4>2. \A y \in 1..Len(w[l]), z \in 1..n : w[l][y] = d[z] => d[z] = 0
        BY <1>b DEF Once
      <4> QED
        BY <3>2, <4>1, <4>2
    <3>3. CASE j = n + 1
      <4>1. w[l][p] = w[k][1]
        BY <1>2, <1>3, <2>5, <3>1, <3>3
      <4>2. ~(l = k /\ p = 1)
        BY <1>9, <3>1
      <4>3. w[l][p] = 0
        BY <1>b, <2>1, <4>1, <4>2 DEF Once
      <4> QED
        BY <2>5, <3>1, <4>3
    <3> QED
      BY <1>6, <3>2, <3>3
  <2>6. ASSUME NEW l \in Slots, NEW q \in Slots, NEW i \in 1..Len(v[l]), NEW j \in 1..Len(v[q]),
               v[l][i] = v[q][j], v[l][i] # 0
        PROVE  l = q /\ i = j
    <3>1. PICK p \in 1..Len(w[l]) :
              v[l][i] = w[l][p] /\ (l = k => p = i + 1) /\ (l # k => p = i)
      BY <1>8, <1>9
    <3>2. PICK r \in 1..Len(w[q]) :
              v[q][j] = w[q][r] /\ (q = k => r = j + 1) /\ (q # k => r = j)
      BY <1>8, <1>9
    <3>3. l = q /\ p = r
      <4>1. w[l][p] = w[q][r] /\ w[l][p] # 0
        BY <2>6, <3>1, <3>2
      <4>2. \A y \in 1..Len(w[l]), z \in 1..Len(w[q]) :
                w[l][y] = w[q][z] /\ w[l][y] # 0 => l = q /\ y = z
        BY <1>b DEF Once
      <4> QED
        BY <4>1, <4>2
    <3> QED
      BY <1>9, <3>1, <3>2, <3>3
  <2>7. \A l \in Slots : \A i \in 1..Len(v[l]), j \in 1..Len(a) : v[l][i] = a[j] => a[j] = 0
    BY <1>3, <2>5
  <2>8. \A i, j \in 1..Len(a) : a[i] = a[j] /\ a[i] # 0 => i = j
    BY <1>3, <2>4
  <2> QED
    BY <2>6, <2>7, <2>8 DEF Once
<1>14. Continued(u, v, a)
  <2>1. \A l \in Slots : u[l] = "in" => l = k
    BY <1>4
  <2>2. v[k] # <<>> /\ x # 0 => v[k][1] = x + 1
    <3> SUFFICES ASSUME v[k] # <<>>, x # 0 PROVE v[k][1] = x + 1
      OBVIOUS
    <3>1. 1 \in 1..(m - 1) /\ t[1] = w[k][1 + 1]
      BY <1>2, <1>4
    <3>2. 1 + 1 \in 1..m /\ 1 + 1 # 1
      BY <1>7, <3>1
    <3>3. w[k][1 + 1] # 0
      BY <1>b, <3>2 DEF NameFirst
    <3>4. w[k][1 + 1] = w[k][1] + 1
      BY <1>2, <1>b, <3>1, <3>3 DEF Linked, Follows
    <3> QED
      BY <1>2, <1>4, <3>1, <3>4
  <2> QED
    BY <1>3, <1>4, <2>1, <2>2 DEF Continued
<1>15. AtEnd(F, c, h, u, v, a)
  <2> SUFFICES ASSUME c \in Slots PROVE AtEnd(F, c, h, u, v, a)
    BY DEF AtEnd
  <2>1. /\ st[c] # "free"
        /\ h => st[c] = "new" /\ w[c] = <<>>
        /\ ~h /\ w[c] # <<>> => w[c][Len(w[c])] \in {0, F}
        /\ ~h /\ w[c] = <<>> => st[c] = "in"
    BY <1>b DEF AtEnd
  <2>2. CASE c = k
    <3>1. ~h /\ w[k][m] \in {0, F}
      BY <2>1, <2>2
    <3>2. CASE m = 1
      <4>1. v[c] = <<>> /\ a[Len(a)] \in {0, F}
        BY <1>2, <1>3, <1>4, <2>2, <3>1, <3>2
      <4> QED
        BY <1>4, <2>2, <3>1, <4>1 DEF AtEnd
    <3>3. CASE m # 1
      <4>1. m - 1 \in 1..(m - 1) /\ (m - 1) + 1 = m
        BY <1>2, <3>3
      <4>2. t[m - 1] = w[k][m]
        BY <1>2, <4>1
      <4>3. v[c] # <<>> /\ v[c][Len(v[c])] \in {0, F}
        BY <1>2, <1>4, <2>2, <3>1, <3>3, <4>2
      <4> QED
        BY <1>4, <2>2, <3>1, <4>3 DEF AtEnd
    <3> QED
      BY <3>2, <3>3
  <2>3. CASE c # k
    <3>1. u[c] = st[c] /\ v[c] = w[c]
      BY <1>4, <2>3
    <3>2. ~h => w[c] # <<>>
      BY <2>1, <2>3
    <3> QED
      BY <2>1, <3>1, <3>2 DEF AtEnd
  <2> QED
    BY <2>2, <2>3
<1> QED
  BY <1>1, <1>3, <1>4, <1>5, <1>10, <1>11, <1>12, <1>13, <1>14, <1>15 DEF Ordered, a, t, u, v, x

(* One connection ends, at the server.                                     *)
LEMMA WhenFreed ==
    ASSUME NEW F, NEW c, NEW h, NEW st, NEW w, NEW d, Ordered(F, c, h, st, w, d),
           NEW k \in Slots, NEW e \in {c, NoConn}, e # k
    PROVE  Ordered(F, e, h, [st EXCEPT ![k] = "free"], [w EXCEPT ![k] = <<>>], d)
<1> DEFINE u == [st EXCEPT ![k] = "free"]
           v == [w EXCEPT ![k] = <<>>]
<1>1. st \in [Slots -> Stages] /\ w \in [Slots -> Seq(Nat)]
  BY DEF Ordered
<1>2. <<>> \in Seq(Nat) /\ "free" \in Stages
  BY EmptySeq DEF Stages
<1>3. u \in [Slots -> Stages] /\ v \in [Slots -> Seq(Nat)]
  BY <1>1, <1>2
<1>4. u[k] = "free" /\ v[k] = <<>>
  BY <1>1
<1>5. ASSUME NEW l \in Slots
      PROVE  \/ l # e /\ u[l] = "free" /\ v[l] = <<>>
             \/ u[l] = st[l] /\ v[l] = w[l]
  <2>1. CASE l = k
    BY <1>4, <2>1
  <2>2. CASE l # k
    BY <1>1, <2>2
  <2> QED
    BY <2>1, <2>2
<1>6. e = c \/ e = NoConn
  OBVIOUS
<1> HIDE DEF u, v
<1>7. Cleared(e, st, w, u, v)
  BY <1>3, <1>5 DEF Cleared
<1>8. Ordered(F, e, h, u, v, d)
  BY <1>6, <1>7, WhenCleared
<1> QED
  BY <1>8 DEF u, v

(* What is written on a connection, as numbers.                            *)
Numbers(s) == [i \in 1..Len(s) |-> s[i].no]
Wire(t) == [k \in Slots |-> Numbers(t[k])]

Written == Outgoing \cup {Hello}

(* The numbers of a sequence change as the sequence does.                  *)
LEMMA NumbersOf ==
    ASSUME NEW s \in Seq(Written)
    PROVE  /\ Numbers(s) \in Seq(Nat) /\ Len(Numbers(s)) = Len(s)
           /\ Numbers(s) = <<>> <=> s = <<>>
           /\ \A m \in Written : Numbers(Append(s, m)) = Append(Numbers(s), m.no)
           /\ s # <<>> => /\ Head(Numbers(s)) = Head(s).no
                          /\ Numbers(Tail(s)) = Tail(Numbers(s))
<1>1. \A m \in Written : m.no \in Nat
  BY ClientAssumption DEF Written, Outgoing, Hello
<1>2. ASSUME NEW q \in Seq(Written)
      PROVE  /\ Numbers(q) \in Seq(Nat) /\ Len(Numbers(q)) = Len(q)
             /\ \A i \in 1..Len(q) : Numbers(q)[i] = q[i].no
  <2>1. \A i \in 1..Len(q) : q[i].no \in Nat
    BY <1>1, ElementOfSeq
  <2> QED
    BY <2>1 DEF Numbers
<1>3. Numbers(s) = <<>> <=> s = <<>>
  <2>1. \A q \in Seq(Nat) : q = <<>> <=> Len(q) = 0
    BY EmptySeq
  <2>2. s = <<>> <=> Len(s) = 0
    BY EmptySeq
  <2> QED
    BY <1>2, <2>1, <2>2
<1>4. ASSUME NEW m \in Written PROVE Numbers(Append(s, m)) = Append(Numbers(s), m.no)
  <2> DEFINE a == Append(s, m)
             q == Numbers(s)
             b == Append(q, m.no)
  <2>1. /\ a \in Seq(Written) /\ Len(s) \in Nat /\ Len(a) = Len(s) + 1 /\ a[Len(s) + 1] = m
        /\ \A i \in 1..Len(s) : a[i] = s[i]
    BY Added
  <2>2. q \in Seq(Nat) /\ Len(q) = Len(s) /\ \A i \in 1..Len(s) : q[i] = s[i].no
    BY <1>2
  <2>3. Numbers(a) \in Seq(Nat) /\ Len(Numbers(a)) = Len(a)
        /\ \A i \in 1..Len(a) : Numbers(a)[i] = a[i].no
    BY <1>2, <2>1
  <2> HIDE DEF a, q
  <2>4. /\ b \in Seq(Nat) /\ Len(b) = Len(q) + 1 /\ b[Len(q) + 1] = m.no
        /\ \A i \in 1..Len(q) : b[i] = q[i]
    BY <1>1, <2>2, Added
  <2> HIDE DEF b
  <2>5. ASSUME NEW i \in 1..Len(a) PROVE Numbers(a)[i] = b[i]
    <3>1. CASE i \in 1..Len(s)
      <4>1. a[i] = s[i] /\ b[i] = q[i] /\ q[i] = s[i].no
        BY <2>1, <2>2, <2>4, <3>1
      <4> QED
        BY <2>3, <4>1
    <3>2. CASE i = Len(s) + 1
      BY <2>1, <2>2, <2>3, <2>4, <3>2
    <3> QED
      BY <2>1, <3>1, <3>2
  <2>6. Numbers(a) = b
    BY <2>1, <2>2, <2>3, <2>4, <2>5, SeqEqual
  <2> QED
    BY <2>6 DEF a, b, q
<1>5. ASSUME s # <<>> PROVE Head(Numbers(s)) = Head(s).no /\ Numbers(Tail(s)) = Tail(Numbers(s))
  <2> DEFINE a == Tail(s)
             q == Numbers(s)
             b == Tail(q)
  <2>1. /\ a \in Seq(Written) /\ Len(s) \in Nat \ {0} /\ Len(a) = Len(s) - 1 /\ Head(s) = s[1]
        /\ \A i \in 1..(Len(s) - 1) : a[i] = s[i + 1]
    BY <1>5, Removed
  <2>2. q \in Seq(Nat) /\ Len(q) = Len(s) /\ \A i \in 1..Len(s) : q[i] = s[i].no
    BY <1>2
  <2>3. Numbers(a) \in Seq(Nat) /\ Len(Numbers(a)) = Len(a)
        /\ \A i \in 1..Len(a) : Numbers(a)[i] = a[i].no
    BY <1>2, <2>1
  <2>4. q # <<>>
    BY <1>3, <1>5
  <2> HIDE DEF a, q
  <2>5. /\ b \in Seq(Nat) /\ Len(b) = Len(q) - 1 /\ Head(q) = q[1]
        /\ \A i \in 1..(Len(q) - 1) : b[i] = q[i + 1]
    BY <2>2, <2>4, Removed
  <2> HIDE DEF b
  <2>6. \A i \in 1..(Len(s) - 1) : i + 1 \in 1..Len(s)
    BY <2>1
  <2>7. \A i \in 1..Len(a) : Numbers(a)[i] = b[i]
    BY <2>1, <2>2, <2>3, <2>5, <2>6
  <2>8. Numbers(a) = b
    BY <2>1, <2>2, <2>3, <2>5, <2>7, SeqEqual
  <2>9. 1 \in 1..Len(s)
    BY <2>1
  <2> QED
    BY <2>1, <2>2, <2>5, <2>8, <2>9 DEF a, b, q
<1> QED
  BY <1>2, <1>3, <1>4, <1>5

-----------------------------------------------------------------------------
Forwarded == typed - Len(draft) - Len(outbound)
OpenConn == IF link = "open" THEN conn ELSE NoConn

(* Messages wait in the order they were entered, none missing, and the     *)
(* next to be forwarded has the next number.                               *)
QueueInv ==
    /\ Forwarded \in Nat
    /\ \A i \in 1..Len(outbound) : outbound[i].no = Forwarded + i
    /\ ui = "sending" => draft[1].no = typed
    /\ net = "stopped" => outbound = <<>> /\ link # "open"
    /\ link = "open" => conn # NoConn

(* What is forwarded is the first message, and the next is the next.       *)
LEMMA Forwards ==
    ASSUME AllTypes, QueueInv, outbound # <<>>, outbound' = Tail(outbound),
           UNCHANGED <<typed, draft>>
    PROVE  /\ Forwarded' = Forwarded + 1 /\ Forwarded' \in Nat
           /\ Head(outbound).no = Forwarded + 1 /\ Head(outbound) \in Outgoing
           /\ \A i \in 1..Len(outbound') : outbound'[i].no = Forwarded' + i
<1>1. outbound \in Seq(Outgoing) /\ typed \in Nat /\ Len(draft) \in Nat
  BY DEF AllTypes, OutType, UiType
<1>2. /\ Head(outbound) = outbound[1] /\ Head(outbound) \in Outgoing
      /\ Len(outbound) \in Nat \ {0} /\ Len(outbound') = Len(outbound) - 1
      /\ \A i \in 1..(Len(outbound) - 1) : outbound'[i] = outbound[i + 1]
  BY <1>1, Removed
<1>3. Forwarded \in Nat /\ \A i \in 1..Len(outbound) : outbound[i].no = Forwarded + i
  BY DEF QueueInv
<1>4. Forwarded' = Forwarded + 1
  BY <1>1, <1>2 DEF Forwarded
<1> HIDE DEF Forwarded
<1>5. ASSUME NEW i \in 1..Len(outbound') PROVE outbound'[i].no = Forwarded' + i
  <2>1. i \in 1..(Len(outbound) - 1) /\ i + 1 \in 1..Len(outbound)
    BY <1>2
  <2>2. outbound'[i].no = Forwarded + (i + 1)
    BY <1>2, <1>3, <2>1
  <2> QED
    BY <1>3, <1>4, <2>1, <2>2
<1>6. 1 \in 1..Len(outbound)
  BY <1>2
<1> QED
  BY <1>2, <1>3, <1>4, <1>5, <1>6

(* What is lost of the queue leaves no gap in it.                          *)
LEMMA QueueEmptied ==
    ASSUME AllTypes, QueueInv, outbound' = <<>>, UNCHANGED <<typed, draft>>
    PROVE  /\ Forwarded' \in Nat /\ Forwarded =< Forwarded'
           /\ \A i \in 1..Len(outbound') : outbound'[i].no = Forwarded' + i
<1>1. /\ Len(outbound) \in Nat /\ typed \in Nat /\ Len(draft) \in Nat
      /\ Len(outbound') = 0 /\ Forwarded \in Nat
  BY DEF AllTypes, OutType, UiType, QueueInv
<1> QED
  BY <1>1 DEF Forwarded

(* A message typed goes to the end.                                        *)
LEMMA Joined ==
    ASSUME NEW q \in Seq(Outgoing), NEW s \in Seq(Outgoing), Len(s) = 1
    PROVE  /\ Len(q) \in Nat /\ Len(q \o s) = Len(q) + 1 /\ (q \o s)[Len(q) + 1] = s[1]
           /\ \A i \in 1..Len(q) : (q \o s)[i] = q[i]
BY ConcatProperties, SMTT(30)

(* The messages that wait stay in order, whoever takes or adds one.        *)
LEMMA QueueStep == TypeInv /\ QueueInv /\ [Next]_vars => QueueInv'
<1> SUFFICES ASSUME AllTypes, Shape, QueueInv, [Next]_vars PROVE QueueInv'
  BY DEF TypeInv
<1>t. /\ net \in NetPlaces /\ conn \in Slots \cup {NoConn} /\ link \in {"none", "open", "cut"}
      /\ outbound \in Seq(Outgoing) /\ draft \in Seq(Outgoing) /\ typed \in Nat
  BY DEF AllTypes, NetType, OutType, UiType
<1>1. ASSUME UNCHANGED <<outbound, ui, draft, typed>>, net # "stopped" => net' # "stopped",
             link' = "open" => link = "open" /\ conn' = conn,
             net = "stopped" => net' = "stopped"
      PROVE  QueueInv'
  BY <1>1 DEF QueueInv, Forwarded
<1>2. CASE \E k \in Slots : Connect(k)
  <2>1. PICK k \in Slots : Connect(k)
    BY <1>2
  <2>2. UNCHANGED <<outbound, ui, draft, typed>> /\ conn' = k /\ net' = "hello"
    BY <2>1 DEF Connect, Goto, uiVars
  <2> QED
    BY <2>2, ClientAssumption DEF QueueInv, Forwarded
<1>3. CASE Forward
  <2>1. /\ outbound # <<>> /\ outbound' = Tail(outbound) /\ net' \in {"closing", "select"}
        /\ UNCHANGED <<conn, link, ui, draft, typed>>
    BY <1>3 DEF Forward, Goto, uiVars
  <2> QED
    BY <2>1, Forwards DEF QueueInv
<1>4. CASE ForwardFails
  <2>1. /\ outbound # <<>> /\ outbound' = Tail(outbound) /\ net' = "lost"
        /\ UNCHANGED <<conn, link, ui, draft, typed>>
    BY <1>4 DEF ForwardFails, Goto, uiVars
  <2> QED
    BY <2>1, Forwards DEF QueueInv
<1>5. CASE Stop
  <2>1. outbound' = <<>> /\ link' = "none" /\ UNCHANGED <<ui, draft, typed>>
    BY <1>5 DEF Stop, uiVars
  <2> QED
    BY <2>1, QueueEmptied DEF QueueInv
<1>6. CASE \E kind \in Kinds : Type(kind)
  <2>1. PICK kind \in Kinds : Type(kind)
    BY <1>6
  <2> DEFINE x == [no |-> typed + 1, kind |-> kind]
  <2>2. /\ draft' = <<x>> /\ typed' = typed + 1 /\ UNCHANGED <<net, conn, link, outbound>>
        /\ ui # "sending"
    BY <2>1 DEF Type, Idle, netVars
  <2>3. Len(draft) = 0 /\ Len(draft') = 1 /\ draft'[1].no = typed + 1
    BY <2>2 DEF Shape
  <2>4. Forwarded' = Forwarded
    BY <1>t, <2>2, <2>3 DEF Forwarded
  <2> HIDE DEF Forwarded
  <2> QED
    BY <2>2, <2>3, <2>4 DEF QueueInv
<1>7. CASE SendOut
  <2>1. /\ ui = "sending" /\ ui' = "idle" /\ draft' = <<>> /\ UNCHANGED <<net, conn, link, typed>>
        /\ Len(draft) = 1
        /\ IF net = "stopped" THEN UNCHANGED outbound ELSE outbound' = outbound \o draft
    BY <1>7 DEF SendOut, netVars, Shape
  <2>2. CASE net = "stopped"
    <3>1. outbound = <<>> /\ Len(outbound) = 0 /\ Len(draft') = 0
      BY <2>1, <2>2 DEF QueueInv
    <3>2. Forwarded' = Forwarded + 1
      BY <1>t, <2>1, <2>2, <3>1 DEF Forwarded
    <3>3. Forwarded \in Nat
      BY DEF QueueInv
    <3> HIDE DEF Forwarded
    <3> QED
      BY <2>1, <2>2, <3>1, <3>2, <3>3 DEF QueueInv
  <2>3. CASE net # "stopped"
    <3>1. /\ Len(outbound) \in Nat /\ Len(outbound') = Len(outbound) + 1 /\ Len(draft') = 0
          /\ outbound'[Len(outbound) + 1] = draft[1]
          /\ \A i \in 1..Len(outbound) : outbound'[i] = outbound[i]
      BY <1>t, <2>1, <2>3, Joined
    <3>2. Forwarded' = Forwarded /\ typed = Forwarded + (Len(outbound) + 1)
      BY <1>t, <2>1, <3>1 DEF Forwarded
    <3>3. /\ Forwarded \in Nat /\ draft[1].no = typed
          /\ \A i \in 1..Len(outbound) : outbound[i].no = Forwarded + i
      BY <2>1 DEF QueueInv
    <3> HIDE DEF Forwarded
    <3>4. ASSUME NEW i \in 1..Len(outbound') PROVE outbound'[i].no = Forwarded' + i
      <4>1. CASE i \in 1..Len(outbound)
        BY <3>1, <3>2, <3>3, <4>1
      <4>2. CASE i = Len(outbound) + 1
        BY <3>1, <3>2, <3>3, <4>2
      <4> QED
        BY <3>1, <4>1, <4>2
    <3> QED
      BY <2>1, <2>3, <3>2, <3>3, <3>4 DEF QueueInv
  <2> QED
    BY <2>2, <2>3
<1>8. CASE \/ Top \/ Refused \/ SendName \/ NameNotSent \/ Online \/ Greet \/ Wake \/ ReaderDone
  <2>1. UNCHANGED <<outbound, ui, draft, typed, conn, link>>
    BY <1>8 DEF Top, Refused, SendName, NameNotSent, Online, Greet, Wake, ReaderDone, uiVars
  <2>2. net # "stopped" /\ net' # "stopped"
    BY <1>8 DEF Top, Refused, SendName, NameNotSent, Online, Greet, Wake, ReaderDone, At, Goto
  <2> QED
    BY <1>1, <2>1, <2>2
<1>9. CASE TellFailure \/ ShowFailure
  <2>1. UNCHANGED <<outbound, ui, draft, typed, conn, link>>
    BY <1>9 DEF TellFailure, ShowFailure, uiVars
  <2>2. net # "stopped" /\ net' # "stopped"
    BY <1>9 DEF TellFailure, ShowFailure, Failures, AfterApology, Goto
  <2> QED
    BY <1>1, <2>1, <2>2
<1>10. CASE \/ (\E k \in Slots : ReaderStep(k)) \/ TakeStatus \/ TakeInbound
            \/ (\E f \in Frames : SendFrame(f)) \/ ServerStarts \/ UNCHANGED vars
  <2>1. UNCHANGED <<outbound, ui, draft, typed, conn, link, net>>
    BY <1>10 DEF ReaderStep, Read, Pass, ReadFails, Cancelled, TakeStatus, TakeInbound,
       SendFrame, ServerStarts, vars, netVars, uiVars
  <2> QED
    BY <1>1, <2>1
<1>11. ASSUME NEW k \in Slots, ServerStep(k) PROVE QueueInv'
  <2>1. UNCHANGED <<outbound, ui, draft, typed, conn, net>> /\ (link' = link \/ link' = "cut")
    BY <1>11 DEF ServerStep, Register, NameInUse, Receive, Notice, Free, netVars, uiVars
  <2> QED
    BY <1>1, <2>1
<1>12. CASE CutLink \/ ServerStops
  <2>1. UNCHANGED <<outbound, ui, draft, typed, conn, net>> /\ (link' = link \/ link' = "cut")
    BY <1>12 DEF CutLink, ServerStops, uiVars
  <2> QED
    BY <1>1, <2>1
<1>13. CASE Leave
  <2>1. UNCHANGED <<outbound, draft, typed, conn, net>> /\ link' = "none" /\ ui' = "left"
    BY <1>13 DEF Leave
  <2> QED
    BY <2>1 DEF QueueInv, Forwarded
<1> QED
  BY <1>2, <1>3, <1>4, <1>5, <1>6, <1>7, <1>8, <1>9, <1>10, <1>11, <1>12, <1>13
     DEF Next, NetStep, Environment

OrderedInv ==
    Ordered(Forwarded, OpenConn, net = "hello", stage, Wire(toServer), delivered)

DeliveredInv == QueueInv /\ OrderedInv

(* Nothing is lost, doubled or out of order on a connection: what is       *)
(* missing was never written, or is lost with the connection.              *)
LEMMA DeliveredStep ==
    TypeInv /\ DeliveredInv /\ [Next]_vars => OrderedInv'
<1> SUFFICES ASSUME AllTypes, Shape, QueueInv, OrderedInv, [Next]_vars PROVE OrderedInv'
  BY DEF TypeInv, DeliveredInv
<1> DEFINE W == Wire(toServer)
           h == net = "hello"
<1>t. /\ net \in NetPlaces /\ conn \in Slots \cup {NoConn} /\ link \in {"none", "open", "cut"}
      /\ outbound \in Seq(Outgoing) /\ draft \in Seq(Outgoing) /\ typed \in Nat
      /\ toServer \in [Slots -> Seq(Written)] /\ DOMAIN toServer = Slots
      /\ Forwarded \in Nat /\ Len(outbound) \in Nat /\ Len(draft) \in Nat
  BY DEF AllTypes, NetType, OutType, UiType, ServerType, Written, QueueInv
<1>d. DOMAIN toServer = Slots
  BY <1>t
<1>o. Ordered(Forwarded, OpenConn, h, stage, W, delivered)
  BY DEF OrderedInv
<1>c. /\ link = "open" => OpenConn = conn /\ conn \in Slots
      /\ link # "open" => OpenConn = NoConn
  BY <1>t DEF OpenConn, QueueInv
<1>f. ASSUME UNCHANGED <<typed, draft, outbound>> PROVE Forwarded' = Forwarded
  BY <1>f DEF Forwarded
<1>s. ASSUME UNCHANGED <<stage, toServer, delivered, conn, link>>, Forwarded' = Forwarded,
             net = "hello" <=> net' = "hello"
      PROVE  OrderedInv'
  BY <1>s DEF OrderedInv, OpenConn
<1>l. ASSUME UNCHANGED <<stage, toServer, delivered>>, Forwarded' \in Nat,
             Forwarded =< Forwarded', link' # "open"
      PROVE  OrderedInv'
  <2>1. Ordered(Forwarded', NoConn, (net = "hello")', stage, W, delivered)
    BY <1>o, <1>l, WhenLost
  <2>2. OpenConn' = NoConn
    BY <1>l DEF OpenConn
  <2> QED
    BY <1>l, <2>1, <2>2 DEF OrderedInv
<1>1. CASE \E k \in Slots : Connect(k)
  <2>1. PICK k \in Slots : Connect(k)
    BY <1>1
  <2>2. /\ stage[k] = "free" /\ conn' = k /\ link' = "open" /\ net' = "hello"
        /\ stage' = [stage EXCEPT ![k] = "new"] /\ toServer' = [toServer EXCEPT ![k] = <<>>]
        /\ UNCHANGED <<typed, draft, outbound, delivered>>
    BY <2>1 DEF Connect, Goto, uiVars
  <2>3. W[k] = <<>> /\ Ordered(Forwarded, k, TRUE, stage', W, delivered)
    <3> HIDE DEF W, h
    <3>1. W[k] = <<>> /\ Ordered(Forwarded, k, TRUE, [stage EXCEPT ![k] = "new"], W, delivered)
      BY <1>o, <2>2, WhenOpened
    <3> QED
      BY <2>2, <3>1
  <2>4. toServer[k] = <<>>
    <3>1. W[k] = Numbers(toServer[k])
      BY <1>t DEF Wire
    <3> QED
      BY <1>t, <2>3, <3>1, NumbersOf
  <2>5. toServer' = toServer
    BY <1>t, <2>2, <2>4
  <2>6. OpenConn' = k
    BY <2>2 DEF OpenConn
  <2> QED
    BY <1>f, <2>2, <2>3, <2>5, <2>6 DEF OrderedInv
<1>2. ASSUME NEW m \in Written, Write(m), link = "open", UNCHANGED <<stage, delivered, conn, link>>,
             net' # "hello", Forwarded' \in Nat,
             IF h THEN m.no = 0 /\ Forwarded' = Forwarded
             ELSE m.no = Forwarded + 1 /\ Forwarded' = Forwarded + 1
      PROVE  OrderedInv'
  <2>1. toServer' = [toServer EXCEPT ![conn] = Append(toServer[conn], m)] /\ conn \in Slots
    BY <1>c, <1>t, <1>2 DEF Write
  <2>2. W' = [W EXCEPT ![conn] = Append(W[conn], m.no)]
    <3>1. Wire(toServer') = [Wire(toServer) EXCEPT ![conn] = Numbers(Append(toServer[conn], m))]
      <4>1. Wire([toServer EXCEPT ![conn] = Append(toServer[conn], m)])
                = [Wire(toServer) EXCEPT ![conn] = Numbers(Append(toServer[conn], m))]
        BY <1>d, <2>1 DEF Wire
      <4> QED
        BY <2>1, <4>1
    <3>2. Numbers(Append(toServer[conn], m)) = Append(Numbers(toServer[conn]), m.no)
      BY <1>t, <2>1, NumbersOf
    <3>3. Wire(toServer)[conn] = Numbers(toServer[conn])
      BY <1>t, <2>1 DEF Wire
    <3> QED
      BY <3>1, <3>2, <3>3
  <2>3. m.no \in Nat
    BY ClientAssumption DEF Written, Outgoing, Hello
  <2>4. Ordered(Forwarded, conn, h, stage, W, delivered)
    BY <1>c, <1>o, <1>2
  <2>5. Ordered(Forwarded', conn, FALSE, stage, [W EXCEPT ![conn] = Append(W[conn], m.no)], delivered)
    <3> DEFINE F2 == Forwarded'
    <3>1. F2 \in Nat /\ IF h THEN m.no = 0 /\ F2 = Forwarded ELSE m.no = Forwarded + 1 /\ F2 = Forwarded + 1
      BY <1>2
    <3>2. h \in BOOLEAN
      OBVIOUS
    <3> HIDE DEF W, h, F2
    <3>3. Ordered(F2, conn, FALSE, stage, [W EXCEPT ![conn] = Append(W[conn], m.no)], delivered)
      BY <2>1, <2>3, <2>4, <3>1, <3>2, WhenWritten
    <3> QED
      BY <3>3 DEF F2
  <2>6. OpenConn' = conn /\ (net = "hello")' = FALSE
    BY <1>2 DEF OpenConn
  <2> QED
    BY <1>2, <2>2, <2>5, <2>6 DEF OrderedInv
<1>3. CASE SendName
  <2>1. /\ net = "hello" /\ net' = "online" /\ Write(Hello)
        /\ UNCHANGED <<stage, delivered, conn, link, typed, draft, outbound>>
    BY <1>3 DEF SendName, At, Goto, uiVars
  <2>2. CASE link = "open"
    <3>1. Hello \in Written /\ Hello.no = 0
      BY DEF Written, Hello
    <3> QED
      BY <1>2, <1>f, <1>t, <2>1, <2>2, <3>1
  <2>3. CASE link # "open"
    <3>1. toServer' = toServer
      BY <2>1, <2>3 DEF Write
    <3>2. Forwarded' = Forwarded
      BY <1>f, <2>1
    <3>3. Forwarded =< Forwarded'
      BY <1>t, <3>2
    <3> QED
      BY <1>l, <1>t, <2>1, <2>3, <3>1, <3>2, <3>3
  <2> QED
    BY <2>2, <2>3
<1>4. CASE Forward
  <2>1. /\ outbound # <<>> /\ outbound' = Tail(outbound) /\ net = "select" /\ net' # "hello"
        /\ Write(Head(outbound)) /\ UNCHANGED <<stage, delivered, conn, link, typed, draft>>
    BY <1>4 DEF Forward, At, Goto, uiVars
  <2>2. /\ Forwarded' = Forwarded + 1 /\ Forwarded' \in Nat /\ Head(outbound).no = Forwarded + 1
        /\ Head(outbound) \in Written
    BY <2>1, Forwards DEF Written
  <2>3. CASE link = "open"
    BY <1>2, <2>1, <2>2, <2>3
  <2>4. CASE link # "open"
    <3>1. toServer' = toServer
      BY <2>1, <2>4 DEF Write
    <3>2. Forwarded =< Forwarded'
      BY <1>t, <2>2
    <3> QED
      BY <1>l, <2>1, <2>2, <2>4, <3>1, <3>2
  <2> QED
    BY <2>3, <2>4
<1>5. CASE ForwardFails
  <2>1. /\ outbound # <<>> /\ outbound' = Tail(outbound) /\ link = "cut"
        /\ UNCHANGED <<stage, toServer, delivered, conn, link, typed, draft>>
    BY <1>5 DEF ForwardFails, uiVars, serverVars
  <2>2. Forwarded' = Forwarded + 1 /\ Forwarded' \in Nat
    BY <2>1, Forwards
  <2>3. Forwarded =< Forwarded'
    BY <1>t, <2>2
  <2> QED
    BY <1>l, <2>1, <2>2, <2>3
<1>6. CASE Stop
  <2>1. /\ outbound' = <<>> /\ link' = "none"
        /\ UNCHANGED <<stage, toServer, delivered, typed, draft>>
    BY <1>6 DEF Stop, uiVars, serverVars
  <2>2. Forwarded' \in Nat /\ Forwarded =< Forwarded'
    BY <2>1, QueueEmptied
  <2> QED
    BY <1>l, <2>1, <2>2
<1>7. CASE \E kind \in Kinds : Type(kind)
  <2>1. PICK kind \in Kinds : Type(kind)
    BY <1>7
  <2>2. /\ draft' = <<[no |-> typed + 1, kind |-> kind]>> /\ typed' = typed + 1
        /\ UNCHANGED <<net, conn, link, outbound, stage, toServer, delivered>> /\ ui # "sending"
    BY <2>1 DEF Type, Idle, netVars, serverVars
  <2>3. Len(draft) = 0 /\ Len(draft') = 1
    BY <2>2 DEF Shape
  <2>4. Forwarded' = Forwarded
    BY <1>t, <2>2, <2>3 DEF Forwarded
  <2> QED
    BY <1>s, <2>2, <2>4
<1>8. CASE SendOut
  <2>1. /\ draft' = <<>> /\ UNCHANGED <<net, conn, link, typed, stage, toServer, delivered>>
        /\ Len(draft) = 1 /\ Len(draft') = 0
        /\ IF net = "stopped" THEN UNCHANGED outbound ELSE outbound' = outbound \o draft
    BY <1>8 DEF SendOut, netVars, serverVars, Shape
  <2>2. CASE net = "stopped"
    <3>1. link' # "open"
      BY <2>1, <2>2 DEF QueueInv
    <3>2. Forwarded' = Forwarded + 1
      BY <1>t, <2>1, <2>2 DEF Forwarded
    <3>3. Forwarded' \in Nat /\ Forwarded =< Forwarded'
      BY <1>t, <3>2
    <3> QED
      BY <1>l, <2>1, <3>1, <3>3
  <2>3. CASE net # "stopped"
    <3>1. Len(outbound') = Len(outbound) + 1
      BY <1>t, <2>1, <2>3, Joined
    <3>2. Forwarded' = Forwarded
      BY <1>t, <2>1, <3>1 DEF Forwarded
    <3> QED
      BY <1>s, <2>1, <3>2
  <2> QED
    BY <2>2, <2>3
<1>9. CASE Top \/ Refused \/ Online \/ Greet \/ Wake \/ ReaderDone
  <2>1. UNCHANGED <<outbound, draft, typed, conn, link, stage, toServer, delivered>>
    BY <1>9 DEF Top, Refused, Online, Greet, Wake, ReaderDone, uiVars, serverVars
  <2>2. net # "hello" /\ net' # "hello"
    BY <1>9 DEF Top, Refused, Online, Greet, Wake, ReaderDone, At, Goto
  <2> QED
    BY <1>f, <1>s, <2>1, <2>2
<1>10. CASE TellFailure \/ ShowFailure
  <2>1. UNCHANGED <<outbound, draft, typed, conn, link, stage, toServer, delivered>>
    BY <1>10 DEF TellFailure, ShowFailure, uiVars, serverVars
  <2>2. net # "hello" /\ net' # "hello"
    BY <1>10 DEF TellFailure, ShowFailure, Failures, AfterApology, Goto
  <2> QED
    BY <1>f, <1>s, <2>1, <2>2
<1>11. CASE NameNotSent \/ CutLink \/ Leave
  <2>1. UNCHANGED <<outbound, draft, typed, stage, toServer, delivered>> /\ link' # "open"
    BY <1>11 DEF NameNotSent, CutLink, Leave, uiVars, serverVars
  <2>2. Forwarded' = Forwarded
    BY <1>f, <2>1
  <2>3. Forwarded =< Forwarded'
    BY <1>t, <2>2
  <2> QED
    BY <1>l, <1>t, <2>1, <2>2, <2>3
<1>12. CASE \/ (\E k \in Slots : ReaderStep(k)) \/ TakeStatus \/ TakeInbound
            \/ (\E f \in Frames : SendFrame(f)) \/ ServerStarts \/ UNCHANGED vars
  <2>1. UNCHANGED <<outbound, draft, typed, conn, link, net, stage, toServer, delivered>>
    BY <1>12 DEF ReaderStep, Read, Pass, ReadFails, Cancelled, TakeStatus, TakeInbound,
       SendFrame, ServerStarts, vars, netVars, uiVars, serverVars
  <2> QED
    BY <1>f, <1>s, <2>1

<1>w. /\ stage \in [Slots -> Stages] /\ W \in [Slots -> Seq(Nat)]
      /\ \A k \in Slots : W[k] = Numbers(toServer[k])
      /\ \A k \in Slots : Wire([toServer EXCEPT ![k] = <<>>]) = [W EXCEPT ![k] = <<>>]
      /\ Numbers(<<>>) = <<>>
  <2>1. <<>> \in Seq(Written)
    BY EmptySeq
  <2>2. Numbers(<<>>) = <<>>
    BY <2>1, NumbersOf
  <2>3. ASSUME NEW k \in Slots
        PROVE  /\ W[k] = Numbers(toServer[k])
               /\ Wire([toServer EXCEPT ![k] = <<>>]) = [W EXCEPT ![k] = <<>>]
    <3>1. /\ Wire(toServer)[k] = Numbers(toServer[k])
          /\ Wire([toServer EXCEPT ![k] = <<>>]) = [Wire(toServer) EXCEPT ![k] = Numbers(<<>>)]
      BY <1>d DEF Wire
    <3> QED
      BY <2>2, <3>1
  <2> HIDE DEF W
  <2> QED
    BY <1>o, <2>2, <2>3 DEF Ordered
<1>e. ASSUME NEW k \in Slots, UNCHANGED conn,
             link' = IF k = conn /\ link = "open" THEN "cut" ELSE link
      PROVE  OpenConn' \in {OpenConn, NoConn} /\ OpenConn' # k
  BY <1>e, ClientAssumption DEF OpenConn
<1>13. ASSUME NEW k \in Slots, NameInUse(k) \/ Notice(k) PROVE OrderedInv'
  <2>1. /\ stage' = [stage EXCEPT ![k] = "free"] /\ toServer' = [toServer EXCEPT ![k] = <<>>]
        /\ link' = IF k = conn /\ link = "open" THEN "cut" ELSE link
        /\ UNCHANGED <<outbound, draft, typed, conn, net, delivered>>
    BY <1>13 DEF NameInUse, Notice, Free, uiVars
  <2>2. W' = [W EXCEPT ![k] = <<>>]
    BY <1>w, <2>1
  <2>3. Ordered(Forwarded, OpenConn', h, [stage EXCEPT ![k] = "free"], [W EXCEPT ![k] = <<>>],
                delivered)
    <3> DEFINE e == OpenConn'
    <3>1. e \in {OpenConn, NoConn} /\ e # k
      BY <1>e, <2>1
    <3> HIDE DEF e, W, h
    <3>2. Ordered(Forwarded, e, h, [stage EXCEPT ![k] = "free"], [W EXCEPT ![k] = <<>>], delivered)
      BY <1>o, <3>1, WhenFreed
    <3> QED
      BY <3>2 DEF e
  <2> QED
    BY <1>f, <2>1, <2>2, <2>3 DEF OrderedInv
<1>14. ASSUME NEW k \in Slots, Register(k) \/ Receive(k) PROVE OrderedInv'
  <2> DEFINE m == Head(toServer[k])
             st == [stage EXCEPT ![k] = "in"]
             w == [W EXCEPT ![k] = Tail(W[k])]
             d == Append(delivered, Head(W[k]))
  <2>1. /\ stage[k] \in {"new", "in"} /\ toServer[k] # <<>>
        /\ UNCHANGED <<outbound, draft, typed, conn, net>>
    BY <1>14 DEF Register, Receive, netVars, uiVars
  <2>2. \A l \in Slots : stage[l] = "in" => l = k
    <3>1. CASE Register(k)
      BY <3>1 DEF Register, NameFree, Registered
    <3>2. CASE Receive(k)
      <4>1. stage[k] = "in"
        BY <3>2 DEF Receive
      <4>2. Continued(stage, W, delivered)
        BY <1>o DEF Ordered
      <4> QED
        BY <4>1, <4>2 DEF Continued
    <3> QED
      BY <1>14, <3>1, <3>2
  <2>3. /\ W[k] # <<>> /\ Head(W[k]) = m.no /\ Tail(W[k]) = Numbers(Tail(toServer[k]))
    BY <1>t, <1>w, <2>1, NumbersOf
  <2>4. (Head(W[k]) = 0 <=> stage[k] = "new") /\ Ordered(Forwarded, OpenConn, h, st, w, d)
    <3>1. stage[k] # "free"
      BY <2>1
    <3> HIDE DEF W, h
    <3> QED
      BY <1>o, <2>2, <2>3, <3>1, WhenTaken
  <2>5. ASSUME toServer' = [toServer EXCEPT ![k] = Tail(toServer[k])] PROVE W' = w
    <3> DEFINE q == Tail(toServer[k])
    <3> HIDE DEF q
    <3>1. Wire([toServer EXCEPT ![k] = q]) = [Wire(toServer) EXCEPT ![k] = Numbers(q)]
      BY <1>d DEF Wire
    <3> QED
      BY <2>3, <2>5, <3>1 DEF q
  <2>6. ASSUME stage' = st, delivered' = d, UNCHANGED link,
               toServer' = [toServer EXCEPT ![k] = Tail(toServer[k])]
        PROVE  OrderedInv'
    <3>1. W' = w /\ OpenConn' = OpenConn
      BY <2>1, <2>5, <2>6 DEF OpenConn
    <3> QED
      BY <1>f, <2>1, <2>4, <2>6, <3>1 DEF OrderedInv
  <2>7. CASE Register(k)
    <3>1. /\ stage[k] = "new" /\ stage' = st /\ UNCHANGED link
          /\ toServer' = [toServer EXCEPT ![k] = Tail(toServer[k])]
          /\ delivered' = Append(delivered, 0)
      BY <1>t, <2>7 DEF Register, netVars, Hello
    <3>2. delivered' = d
      BY <2>4, <3>1
    <3> QED
      BY <2>6, <3>1, <3>2
  <2>8. CASE Receive(k)
    <3>1. stage[k] = "in" /\ delivered' = Append(delivered, m.no)
      BY <2>8 DEF Receive
    <3>2. stage = st /\ delivered' = d
      BY <1>w, <2>3, <3>1
    <3>3. CASE m.kind = "quit"
      <4>1. /\ stage' = [stage EXCEPT ![k] = "free"]
            /\ toServer' = [toServer EXCEPT ![k] = <<>>]
            /\ link' = IF k = conn /\ link = "open" THEN "cut" ELSE link
        BY <2>8, <3>3 DEF Receive, Free
      <4>2. W' = [w EXCEPT ![k] = <<>>]
        <5>1. W' = [W EXCEPT ![k] = <<>>]
          BY <1>w, <4>1
        <5> HIDE DEF W
        <5> QED
          BY <1>w, <5>1
      <4>3. stage' = [st EXCEPT ![k] = "free"]
        BY <3>2, <4>1
      <4>4. Ordered(Forwarded, OpenConn', h, [st EXCEPT ![k] = "free"], [w EXCEPT ![k] = <<>>], d)
        <5> DEFINE e == OpenConn'
        <5>1. e \in {OpenConn, NoConn} /\ e # k
          BY <1>e, <2>1, <4>1
        <5> HIDE DEF e, w, h, d, st
        <5>2. Ordered(Forwarded, e, h, [st EXCEPT ![k] = "free"], [w EXCEPT ![k] = <<>>], d)
          BY <2>4, <5>1, WhenFreed
        <5> QED
          BY <5>2 DEF e
      <4> QED
        BY <1>f, <2>1, <3>2, <4>2, <4>3, <4>4 DEF OrderedInv
    <3>4. CASE m.kind # "quit"
      <4>1. /\ toServer' = [toServer EXCEPT ![k] = Tail(toServer[k])]
            /\ UNCHANGED <<stage, link>>
        BY <2>8, <3>4 DEF Receive
      <4> QED
        BY <2>6, <3>2, <4>1
    <3> QED
      BY <3>3, <3>4
  <2> QED
    BY <1>14, <2>7, <2>8
<1>15. CASE ServerStops
  <2>1. /\ stage' = [k \in Slots |-> "free"] /\ toServer' = [k \in Slots |-> <<>>]
        /\ link' # "open" /\ UNCHANGED <<outbound, draft, typed, conn, net, delivered>>
    BY <1>15 DEF ServerStops, uiVars
  <2>2. W' = [k \in Slots |-> <<>>]
    <3>1. Wire(toServer') = [k \in Slots |-> Numbers(toServer'[k])]
      BY DEF Wire
    <3>2. \A k \in Slots : Numbers(toServer'[k]) = <<>>
      BY <1>w, <2>1
    <3> QED
      BY <3>1, <3>2
  <2>3. Ordered(Forwarded, NoConn, h, [k \in Slots |-> "free"], [k \in Slots |-> <<>>], delivered)
    <3> DEFINE u == [k \in Slots |-> "free"]
               v == [k \in Slots |-> <<>>]
    <3>1. NoConn \notin Slots
      BY ClientAssumption
    <3>2. <<>> \in Seq(Nat) /\ "free" \in Stages
      BY EmptySeq DEF Stages
    <3>3. Cleared(NoConn, stage, W, u, v)
      <4>1. u \in [Slots -> Stages] /\ v \in [Slots -> Seq(Nat)]
        BY <3>2
      <4>2. \A k \in Slots : u[k] = "free" /\ v[k] = <<>>
        OBVIOUS
      <4>3. \A k \in Slots : k # NoConn
        BY <3>1
      <4> HIDE DEF u, v, W
      <4> QED
        BY <4>1, <4>2, <4>3 DEF Cleared
    <3> HIDE DEF u, v, W, h
    <3>4. Ordered(Forwarded, NoConn, h, u, v, delivered)
      BY <1>o, <3>3, WhenCleared
    <3> QED
      BY <3>4 DEF u, v
  <2>4. OpenConn' = NoConn
    BY <2>1 DEF OpenConn
  <2> QED
    BY <1>f, <2>1, <2>2, <2>3, <2>4 DEF OrderedInv
<1> QED
  BY <1>1, <1>3, <1>4, <1>5, <1>6, <1>7, <1>8, <1>9, <1>10, <1>11, <1>12, <1>13, <1>14, <1>15
     DEF Next, NetStep, Environment, ServerStep

(* What the user enters reaches the server at most once, over all          *)
(* connections, and over one connection in the order it was entered and    *)
(* without a gap.                                                          *)
THEOREM NothingTwice == Spec => []DeliveredOnce
<1>1. Init => DeliveredInv
  <2> SUFFICES ASSUME Init PROVE DeliveredInv
    OBVIOUS
  <2>1. /\ Len(outbound) = 0 /\ Len(draft) = 0 /\ typed = 0 /\ delivered = <<>>
        /\ Len(delivered) = 0 /\ net = "top" /\ link = "none" /\ ui = "idle"
        /\ stage = [k \in Slots |-> "free"] /\ toServer = [k \in Slots |-> <<>>]
    BY DEF Init
  <2>2. Forwarded = 0 /\ OpenConn = NoConn
    BY <2>1 DEF Forwarded, OpenConn
  <2>3. QueueInv
    BY <2>1, <2>2 DEF QueueInv
  <2> DEFINE w == [k \in Slots |-> <<>>]
  <2>4. Wire(toServer) = w
    <3>1. Numbers(<<>>) = <<>>
      <4>1. <<>> \in Seq(Written)
        BY EmptySeq
      <4> QED
        BY <4>1, NumbersOf
    <3>2. Wire(toServer) = [k \in Slots |-> Numbers(toServer[k])]
      BY DEF Wire
    <3> QED
      BY <2>1, <3>1, <3>2
  <2>5. <<>> \in Seq(Nat) /\ Len(<<>>) = 0
    BY EmptySeq
  <2>6. /\ w \in [Slots -> Seq(Nat)] /\ \A k \in Slots : w[k] = <<>>
        /\ \A k \in Slots : 1..Len(w[k]) = {} /\ 1..(Len(w[k]) - 1) = {}
    BY <2>5
  <2>7. /\ stage \in [Slots -> Stages] /\ (\A k \in Slots : stage[k] = "free")
        /\ delivered \in Seq(Nat) /\ 1..Len(delivered) = {} /\ 1..(Len(delivered) - 1) = {}
    BY <2>1, <2>5 DEF Stages
  <2> HIDE DEF w
  <2>8. /\ Below(0, w, delivered) /\ NameFirst(stage, w) /\ Linked(w, delivered)
        /\ Once(w, delivered)
    BY <2>6, <2>7 DEF Below, NameFirst, Linked, Follows, Once
  <2>9. Continued(stage, w, delivered) /\ AtEnd(0, NoConn, net = "hello", stage, w, delivered)
    BY <2>7, ClientAssumption DEF Continued, AtEnd
  <2>10. OrderedInv
    BY <2>2, <2>4, <2>6, <2>7, <2>8, <2>9 DEF OrderedInv, Ordered
  <2> QED
    BY <2>3, <2>10 DEF DeliveredInv
<1>2. DeliveredInv => DeliveredOnce
  <2> SUFFICES ASSUME OrderedInv, NEW i \in DOMAIN delivered, NEW j \in DOMAIN delivered,
                      i < j, delivered[i] # 0, delivered[j] # 0
               PROVE  /\ delivered[i] # delivered[j]
                      /\ j = i + 1 => delivered[j] = delivered[i] + 1
    BY DEF DeliveredInv, DeliveredOnce, Hello
  <2>1. /\ delivered \in Seq(Nat) /\ Follows(delivered)
        /\ \A x, y \in 1..Len(delivered) :
              delivered[x] = delivered[y] /\ delivered[x] # 0 => x = y
    BY DEF OrderedInv, Ordered, Linked, Once
  <2>2. i \in 1..Len(delivered) /\ j \in 1..Len(delivered) /\ Len(delivered) \in Nat
    BY <2>1
  <2>3. delivered[i] # delivered[j]
    BY <2>1, <2>2
  <2>4. j = i + 1 => i \in 1..(Len(delivered) - 1)
    BY <2>2
  <2> QED
    BY <2>1, <2>3, <2>4 DEF Follows
<1>3. TypeInv /\ DeliveredInv /\ [Next]_vars => DeliveredInv'
  BY QueueStep, DeliveredStep DEF DeliveredInv
<1> QED
  BY <1>1, <1>2, <1>3, AlwaysTyped, PTL DEF Spec

=============================================================================
