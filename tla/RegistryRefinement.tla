------------------------- MODULE RegistryRefinement -------------------------
(***************************************************************************)
(* Registry implements ChatService: the proof, step by step.               *)
(*                                                                         *)
(* What a client has heard is the talk in what was written to it and what  *)
(* is queued for it; the first part proves what filtering the talk out of  *)
(* a sequence gives, by induction, the second maps the steps.              *)
(***************************************************************************)
EXTENDS RegistryProofs, WellFoundedInduction

-----------------------------------------------------------------------------
(* The talk in a sequence.                                                 *)

(* The natural numbers are well ordered.                                   *)
LEMMA LeastNatural ==
    ASSUME NEW B \in SUBSET Nat, B # {}
    PROVE  \E n \in B : \A m \in B : n =< m
<1>1. PICK n \in B : \A m \in B : ~(<<m, n>> \in OpToRel(<, Nat))
  BY WFMin, NatLessThanWellFounded
<1>2. \A m \in B : m \in Nat /\ ~(m < n)
  BY <1>1 DEF OpToRel
<1> QED
  BY <1>2

(* g holds the talk among the first n elements of s, for each n up to k.   *)
Upto(s, k, g) ==
    g = [n \in 0..k |-> IF n = 0 THEN <<>>
                        ELSE IF s[n].kind \in Talk THEN Append(g[n - 1], s[n])
                        ELSE g[n - 1]]

(* There is such a function, for every k.                                  *)
LEMMA UptoExists ==
    ASSUME NEW s, NEW k \in Nat
    PROVE  \E g : Upto(s, k, g)
<1> DEFINE B == {j \in Nat : ~ \E g : Upto(s, j, g)}
<1> SUFFICES ASSUME B # {} PROVE FALSE
  OBVIOUS
<1>1. PICK j \in B : \A i \in B : j =< i
  BY LeastNatural
<1>2. CASE j = 0
  <2> DEFINE g == [n \in 0..0 |-> <<>>]
  <2>1. Upto(s, 0, g)
    BY DEF Upto
  <2> QED
    BY <1>1, <1>2, <2>1
<1>3. CASE j # 0
  <2>1. j - 1 \in Nat /\ j - 1 \notin B
    BY <1>1, <1>3
  <2>2. PICK g : Upto(s, j - 1, g)
    BY <2>1
  <2> DEFINE h == [n \in 0..j |-> IF n = j
                                  THEN IF s[j].kind \in Talk THEN Append(g[j - 1], s[j])
                                       ELSE g[j - 1]
                                  ELSE g[n]]
  <2>3. \A n \in 0..j : h[n] = IF n = 0 THEN <<>>
                              ELSE IF s[n].kind \in Talk THEN Append(h[n - 1], s[n])
                              ELSE h[n - 1]
    <3>1. \A n \in 0..j - 1 : g[n] = IF n = 0 THEN <<>>
                                    ELSE IF s[n].kind \in Talk THEN Append(g[n - 1], s[n])
                                    ELSE g[n - 1]
      BY <2>2 DEF Upto
    <3>2. h[j] = IF s[j].kind \in Talk THEN Append(g[j - 1], s[j]) ELSE g[j - 1]
      BY <1>3, <2>1
    <3>3. \A n \in 0..j - 1 : h[n] = g[n]
      BY <2>1
    <3> HIDE DEF h
    <3>4. h[j] = IF j = 0 THEN <<>>
                 ELSE IF s[j].kind \in Talk THEN Append(h[j - 1], s[j])
                 ELSE h[j - 1]
      BY <1>3, <2>1, <3>2, <3>3
    <3>5. ASSUME NEW n \in 0..j - 1
          PROVE  h[n] = IF n = 0 THEN <<>>
                        ELSE IF s[n].kind \in Talk THEN Append(h[n - 1], s[n])
                        ELSE h[n - 1]
      <4>1. n # 0 => n - 1 \in 0..j - 1
        BY <2>1
      <4> QED
        BY <3>1, <3>3, <4>1
    <3> QED
      BY <2>1, <3>4, <3>5
  <2>5. h = [n \in 0..j |-> h[n]]
    OBVIOUS
  <2> HIDE DEF h
  <2>4. Upto(s, j, h)
    BY <2>3, <2>5 DEF Upto
  <2> QED
    BY <1>1, <2>4
<1> QED
  BY <1>2, <1>3

(* TalkIn is the last value of one.                                        *)
LEMMA TalkInIs ==
    ASSUME NEW s, Len(s) \in Nat
    PROVE  \E g : Upto(s, Len(s), g) /\ TalkIn(s) = g[Len(s)]
<1> DEFINE g == CHOOSE f : Upto(s, Len(s), f)
<1>1. Upto(s, Len(s), g)
  BY UptoExists
<1>2. TalkIn(s) = g[Len(s)]
  BY DEF TalkIn, Upto
<1> QED
  BY <1>1, <1>2
(* Its values, one from the other.                                         *)
LEMMA UptoIs ==
    ASSUME NEW s, NEW k \in Nat, NEW g, Upto(s, k, g), NEW n \in 1..k
    PROVE  g[n] = IF s[n].kind \in Talk THEN Append(g[n - 1], s[n]) ELSE g[n - 1]
<1>1. n \in 0..k /\ n # 0
  OBVIOUS
<1> QED
  BY <1>1 DEF Upto

(* An element appended to the second of two sequences.                     *)
LEMMA ConcatAppend ==
    ASSUME NEW S, NEW s \in Seq(S), NEW t \in Seq(S), NEW e \in S
    PROVE  s \o Append(t, e) = Append(s \o t, e)
<1>1. Append(t, e) = t \o <<e>> /\ Append(s \o t, e) = (s \o t) \o <<e>>
  BY AppendIsConcat, ConcatProperties
<1>2. <<e>> \in Seq(S)
  OBVIOUS
<1> QED
  BY <1>1, <1>2, ConcatAssociative

(* It depends on nothing but the elements.                                 *)
LEMMA UptoAgree ==
    ASSUME NEW s, NEW t, NEW k \in Nat, NEW l \in Nat, NEW g, NEW h,
           Upto(s, k, g), Upto(t, l, h), NEW n \in Nat, n =< k, n =< l,
           \A i \in 1..n : s[i] = t[i]
    PROVE  g[n] = h[n]
<1> DEFINE B == {i \in 0..n : g[i] # h[i]}
<1> SUFFICES ASSUME B # {} PROVE FALSE
  OBVIOUS
<1>0. B \in SUBSET Nat
  OBVIOUS
<1>1. PICK j \in B : \A i \in B : j =< i
  BY <1>0, LeastNatural
<1>2. j \in 1..k /\ j \in 1..l /\ j \in 1..n
  <2>1. j # 0
    BY DEF Upto
  <2> QED
    BY <2>1
<1>3. g[j - 1] = h[j - 1]
  BY <1>1, <1>2
<1>4. /\ g[j] = IF s[j].kind \in Talk THEN Append(g[j - 1], s[j]) ELSE g[j - 1]
      /\ h[j] = IF t[j].kind \in Talk THEN Append(h[j - 1], t[j]) ELSE h[j - 1]
  BY <1>2, UptoIs
<1>5. s[j] = t[j]
  BY <1>2
<1> QED
  BY <1>3, <1>4, <1>5

(* There is no talk in the empty sequence.                                 *)
LEMMA TalkInEmpty == TalkIn(<<>>) = <<>>
<1>1. PICK g : Upto(<<>>, Len(<<>>), g) /\ TalkIn(<<>>) = g[Len(<<>>)]
  BY TalkInIs
<1>2. Len(<<>>) = 0
  OBVIOUS
<1> QED
  BY <1>1, <1>2 DEF Upto

(* A message that is talk comes after the talk before it.                  *)
LEMMA TalkInAppend ==
    ASSUME NEW S, NEW s \in Seq(S), NEW e \in S
    PROVE  TalkIn(Append(s, e)) = IF e.kind \in Talk THEN Append(TalkIn(s), e) ELSE TalkIn(s)
<1> DEFINE t == Append(s, e)
           l == Len(s)
<1>1. l \in Nat /\ Len(t) = l + 1 /\ t[l + 1] = e /\ \A i \in 1..l : t[i] = s[i]
  OBVIOUS
<1> HIDE DEF t, l
<1>2. PICK g : Upto(t, l + 1, g) /\ TalkIn(t) = g[l + 1]
  BY <1>1, TalkInIs
<1>3. PICK h : Upto(s, l, h) /\ TalkIn(s) = h[l]
  BY <1>1, TalkInIs DEF l
<1>4. g[l] = h[l]
  BY <1>1, <1>2, <1>3, UptoAgree
<1>6. l + 1 \in 0..l + 1 /\ l + 1 # 0 /\ (l + 1) - 1 = l
  BY <1>1
<1>5. g[l + 1] = IF t[l + 1].kind \in Talk THEN Append(g[l], t[l + 1]) ELSE g[l]
  BY <1>6, <1>2 DEF Upto
<1> QED
  BY <1>1, <1>2, <1>3, <1>4, <1>5 DEF t

(* The talk of two sequences in a row is that of the first, then that of   *)
(* the second.                                                             *)
LEMMA TalkInConcat ==
    ASSUME NEW S, NEW s \in Seq(S), NEW t \in Seq(S)
    PROVE  /\ TalkIn(s) \in Seq(S)
           /\ TalkIn(s \o t) = TalkIn(s) \o TalkIn(t)
<1>0. \A a, b \in Seq(S), e \in S : a \o Append(b, e) = Append(a \o b, e)
  BY ConcatAppend
<1> DEFINE B == {n \in Nat : \E r \in Seq(S) : Len(r) = n /\ TalkIn(r) \notin Seq(S)}
<1>1. ASSUME NEW q \in Seq(S) PROVE TalkIn(q) \in Seq(S)
  <2> SUFFICES ASSUME TalkIn(q) \notin Seq(S) PROVE FALSE
    OBVIOUS
  <2>1. B \in SUBSET Nat /\ B # {}
    <3>1. Len(q) \in B
      OBVIOUS
    <3> QED
      BY <3>1
  <2>2. PICK n \in B : \A m \in B : n =< m
    BY <2>1, LeastNatural
  <2>3. PICK r \in Seq(S) : Len(r) = n /\ TalkIn(r) \notin Seq(S)
    BY <2>2
  <2>4. r # <<>>
    BY <2>3, TalkInEmpty
  <2>5. PICK p \in Seq(S), e \in S : r = Append(p, e)
    BY <2>4, SequenceEmptyOrAppend
  <2>6. Len(p) < Len(r) /\ Len(p) \in Nat
    BY <2>5
  <2>7. TalkIn(p) \in Seq(S)
    BY <2>1, <2>2, <2>3, <2>6
  <2>8. TalkIn(r) = IF e.kind \in Talk THEN Append(TalkIn(p), e) ELSE TalkIn(p)
    BY <2>5, TalkInAppend
  <2> QED
    BY <2>3, <2>7, <2>8
<1> DEFINE C == {n \in Nat : \E r \in Seq(S) : Len(r) = n /\ TalkIn(s \o r) # TalkIn(s) \o TalkIn(r)}
<1>2. TalkIn(s \o t) = TalkIn(s) \o TalkIn(t)
  <2> SUFFICES ASSUME TalkIn(s \o t) # TalkIn(s) \o TalkIn(t) PROVE FALSE
    OBVIOUS
  <2>1. C \in SUBSET Nat /\ C # {}
    <3>1. Len(t) \in C
      OBVIOUS
    <3> QED
      BY <3>1
  <2>2. PICK n \in C : \A m \in C : n =< m
    BY <2>1, LeastNatural
  <2>3. PICK r \in Seq(S) : Len(r) = n /\ TalkIn(s \o r) # TalkIn(s) \o TalkIn(r)
    BY <2>2
  <2>4. r # <<>>
    <3>1. s \o <<>> = s /\ TalkIn(s) \o <<>> = TalkIn(s)
      BY <1>1
    <3> QED
      BY <2>3, <3>1, TalkInEmpty
  <2>5. PICK p \in Seq(S), e \in S : r = Append(p, e)
    BY <2>4, SequenceEmptyOrAppend
  <2>6. Len(p) < Len(r) /\ Len(p) \in Nat
    BY <2>5
  <2>7. TalkIn(s \o p) = TalkIn(s) \o TalkIn(p)
    <3>1. Len(p) \notin C
      BY <2>1, <2>2, <2>3, <2>6
    <3> QED
      BY <3>1, <2>6
  <2>8. s \o Append(p, e) = Append(s \o p, e) /\ s \o p \in Seq(S)
    BY <1>0, ConcatProperties
  <2> DEFINE sp == s \o p
  <2>9. s \o r = Append(sp, e) /\ sp \in Seq(S)
    BY <2>5, <2>8
  <2> HIDE DEF sp
  <2>10. TalkIn(s \o r) = IF e.kind \in Talk THEN Append(TalkIn(sp), e) ELSE TalkIn(sp)
    BY <2>9, TalkInAppend
  <2>11. TalkIn(r) = IF e.kind \in Talk THEN Append(TalkIn(p), e) ELSE TalkIn(p)
    BY <2>5, TalkInAppend
  <2>12. Append(TalkIn(s) \o TalkIn(p), e) = TalkIn(s) \o Append(TalkIn(p), e)
    <3>1. TalkIn(s) \in Seq(S) /\ TalkIn(p) \in Seq(S)
      BY <1>1
    <3> QED
      BY <3>1, <1>0
  <2> QED
    BY <2>3, <2>7, <2>10, <2>11, <2>12 DEF sp
<1> QED
  BY <1>1, <1>2

(* What is lost with the end of a sequence is the end of its talk.         *)
LEMMA TalkInPrefix ==
    ASSUME NEW S, NEW s \in Seq(S), NEW t \in Seq(S)
    PROVE  \E n \in 0..Len(TalkIn(s \o t)) : TalkIn(s) = SubSeq(TalkIn(s \o t), 1, n)
<1> DEFINE a == TalkIn(s)
           b == TalkIn(t)
<1>1. a \in Seq(S) /\ b \in Seq(S) /\ TalkIn(s \o t) = a \o b
  BY TalkInConcat
<1> HIDE DEF a, b
<1>2. Len(a) \in Nat /\ Len(a) =< Len(a \o b) /\ Len(a \o b) \in Nat
  BY <1>1, ConcatProperties
<1>3. a = SubSeq(a \o b, 1, Len(a))
  <2>1. CASE Len(a) = 0
    BY <1>1, <2>1
  <2>2. CASE Len(a) # 0
    BY <1>1, <1>2, <2>2, SubSeqOfConcat1, SubSeqFull
  <2> QED
    BY <2>1, <2>2
<1>4. a = SubSeq(TalkIn(s \o t), 1, Len(a)) /\ Len(a) \in 0..Len(TalkIn(s \o t))
  BY <1>1, <1>2, <1>3
<1> QED
  BY <1>4 DEF a

-----------------------------------------------------------------------------
(* What the clients have heard.                                            *)

(* A send is heard by those it gets through to, if it is talk.             *)
LEMMA SendHeard ==
    ASSUME TypeOK, NEW S, NEW m \in Messages, Send(S, m), UNCHANGED written, NEW c \in Conns
    PROVE  Talked(c)' = IF c \in S /\ Takes(c) /\ m.kind \in Talk
                        THEN Append(Talked(c), m) ELSE Talked(c)
<1> DEFINE w == written[c]
           q == queue[c]
<1>1. w \in Seq(Messages) /\ q \in Seq(Messages)
  BY DEF TypeOK
<1>2. Talked(c) = TalkIn(w \o q) /\ Talked(c)' = TalkIn(w \o queue'[c])
  BY DEF Talked, Stream
<1>3. queue'[c] = IF c \in S /\ Takes(c) THEN Append(q, m) ELSE q
  BY DEF Send, Put
<1> HIDE DEF w, q
<1>4. CASE c \in S /\ Takes(c)
  <2>1. w \o Append(q, m) = Append(w \o q, m) /\ w \o q \in Seq(Messages)
    BY <1>1, ConcatAppend, ConcatProperties
  <2>2. TalkIn(Append(w \o q, m)) = IF m.kind \in Talk THEN Append(TalkIn(w \o q), m)
                                    ELSE TalkIn(w \o q)
    BY <2>1, TalkInAppend
  <2> QED
    BY <1>2, <1>3, <1>4, <2>1, <2>2
<1>5. CASE ~(c \in S /\ Takes(c))
  BY <1>2, <1>3, <1>5
<1> QED
  BY <1>4, <1>5

(* The writer hands on what was heard when it was queued.                  *)
LEMMA WriteHeard ==
    ASSUME TypeOK, NEW c \in Conns, Write(c), NEW d \in Conns
    PROVE  Talked(d)' = Talked(d)
<1>a. \A x, y, z \in Seq(Messages) : x \o (y \o z) = (x \o y) \o z
  BY ConcatAssociative
<1>b. \A x, y \in Seq(Messages) : TalkIn(x \o y) = TalkIn(x) \o TalkIn(y)
  BY TalkInConcat
<1> DEFINE w == written[c]
           q == queue[c]
           h == Head(q)
           t == Tail(q)
<1>1. /\ w \in Seq(Messages) /\ q \in Seq(Messages) /\ q # <<>>
      /\ queue \in [Conns -> Seq(Messages)] /\ written \in [Conns -> Seq(Messages)]
      /\ queue' = [queue EXCEPT ![c] = t]
      /\ written' = IF h.kind \in Talk THEN [written EXCEPT ![c] = Append(w, h)] ELSE written
  BY DEF Write, TypeOK
<1>2. CASE d # c
  <2>1. queue'[d] = queue[d] /\ written'[d] = written[d]
    BY <1>1, <1>2
  <2> QED
    BY <2>1 DEF Talked, Stream
<1>3. CASE d = c
  <2>1. Talked(d) = TalkIn(w \o q) /\ Talked(d)' = TalkIn(written'[c] \o t)
    BY <1>1, <1>3 DEF Talked, Stream
  <2>2. written'[c] = IF h.kind \in Talk THEN Append(w, h) ELSE w
    BY <1>1
  <2>3. h \in Messages /\ t \in Seq(Messages) /\ q = <<h>> \o t
    BY <1>1
  <2> HIDE DEF w, q, h, t
  <2>4. <<h>> \in Seq(Messages) /\ Append(w, h) = w \o <<h>> /\ w \o <<h>> \in Seq(Messages)
    BY <1>1, <2>3, AppendIsConcat, ConcatProperties
  <2> DEFINE wh == w \o <<h>>
  <2>5. w \o q = wh \o t
    <3>1. w \o (<<h>> \o t) = (w \o <<h>>) \o t
      BY <1>a, <1>1, <2>3, <2>4, SMTT(30)
    <3> QED
      BY <2>3, <3>1
  <2>6. CASE h.kind \in Talk
    BY <2>1, <2>2, <2>4, <2>5, <2>6
  <2>7. CASE h.kind \notin Talk
    <3>1. TalkIn(w \o <<h>>) = TalkIn(w)
      BY <1>1, <2>3, <2>4, <2>7, TalkInAppend, ZenonT(30)
    <3>3. wh \in Seq(Messages) /\ TalkIn(wh) = TalkIn(w)
      BY <2>4, <3>1
    <3> HIDE DEF wh
    <3>2. TalkIn(wh \o t) = TalkIn(w) \o TalkIn(t) /\ TalkIn(w \o t) = TalkIn(w) \o TalkIn(t)
      BY <1>b, <1>1, <2>3, <3>3
    <3> QED
      BY <2>1, <2>2, <2>5, <2>7, <3>2
  <2> QED
    BY <2>6, <2>7
<1> QED
  BY <1>2, <1>3

(* Who loses its queue keeps what was written to it.                       *)
LEMMA LostHeard ==
    ASSUME TypeOK, NEW c \in Conns, queue' = [queue EXCEPT ![c] = <<>>], UNCHANGED written
    PROVE  /\ \E n \in 0..Len(Talked(c)) : Talked(c)' = SubSeq(Talked(c), 1, n)
           /\ \A d \in Conns \ {c} : Talked(d)' = Talked(d)
<1>1. /\ queue \in [Conns -> Seq(Messages)] /\ written[c] \in Seq(Messages)
      /\ queue[c] \in Seq(Messages)
  BY DEF TypeOK
<1>2. Talked(c)' = TalkIn(written[c])
  <2>1. queue'[c] = <<>> /\ written[c] \o <<>> = written[c]
    BY <1>1
  <2> QED
    BY <2>1 DEF Talked, Stream
<1>3. \A d \in Conns \ {c} : Talked(d)' = Talked(d)
  <2>1. \A d \in Conns \ {c} : queue'[d] = queue[d]
    BY <1>1
  <2> QED
    BY <2>1 DEF Talked, Stream
<1>4. Talked(c) = TalkIn(written[c] \o queue[c])
  BY DEF Talked, Stream
<1> QED
  BY <1>1, <1>2, <1>3, <1>4, TalkInPrefix

-----------------------------------------------------------------------------
(* What more the mapping of the steps needs.                               *)

(* A task that is about to send to its room is still in it; no peer sends  *)
(* more frames than the bound, whose numbers the abstract messages have.   *)
SayInv ==
    /\ \A c \in Conns : pc[c] \in {"say", "cast"} => kept[c].room = room[c]
    /\ \A t \in Tasks : issued[t] =< Budget[t]

(* No task is on its way at first.                                         *)
LEMMA SayInit == Init => SayInv
BY RegistryAssumption DEF Init, SayInv, Tasks

(* A task that is to say something to a room is a client of that room,     *)
(* within what it has to say.                                              *)
LEMMA SayStep == TypeOK /\ SayInv /\ [Next]_vars => SayInv'
<1> SUFFICES ASSUME TypeOK, SayInv, [Next]_vars PROVE SayInv'
  OBVIOUS
<1>p. /\ pc \in [Tasks -> PCs] /\ issued \in [Tasks -> Nat] /\ room \in [Conns -> Rooms]
      /\ kept \in [Tasks -> [room : Rooms, id : Nat, user : SUBSET Users]]
      /\ Budget \in [Tasks -> Nat] /\ Admin \in Tasks
      /\ \A c \in Conns : c \in Tasks /\ c # Admin
  BY RegistryAssumption DEF TypeOK, Tasks
<1> DEFINE Sure == \A d \in Conns : \/ pc'[d] \notin {"say", "cast"}
                                    \/ kept'[d].room = room'[d]
           Within == \A t \in Tasks : issued'[t] =< Budget[t]
<1> USE DEF registry, local
<1>c. ASSUME NEW t \in Tasks, Ready(t), Consume(t) PROVE Within
  BY <1>c, <1>p DEF Ready, Consume, SayInv
<1>1. ASSUME NEW c \in Conns,
             \/ HandshakeFails(c) \/ Register(c) \/ NameTaken(c) \/ Welcome(c) \/ Greet(c)
             \/ ReadEnds(c) \/ Unregister(c) \/ Farewell(c) \/ Abort(c) \/ Refuse(c) \/ Cast(c)
             \/ PmSend(c) \/ TellOld(c) \/ TellSelf(c) \/ TellNew(c)
      PROVE  Sure /\ Within
  <2>1. UNCHANGED issued /\ \A d \in Conns \ {c} : pc'[d] = pc[d] /\ kept'[d] = kept[d] /\ room'[d] = room[d]
    BY <1>1, <1>p DEF HandshakeFails, Register, NameTaken, Welcome, Greet, ReadEnds,
       Unregister, Farewell, Abort, Refuse, Cast, PmSend, TellOld, TellSelf, TellNew,
       Goto, Return, Keep
  <2>2. pc'[c] \notin {"say", "cast"}
    BY <1>1, <1>p DEF HandshakeFails, Register, NameTaken, Welcome, Greet, ReadEnds,
       AfterReadLoop, Unregister, Farewell, Abort, Refuse, Cast, PmSend, TellOld, TellSelf,
       TellNew, Goto, Return
  <2> QED
    BY <2>1, <2>2 DEF SayInv
<1>2. ASSUME NEW c \in Conns, Check(c) PROVE Sure /\ Within
  <2>1. UNCHANGED <<issued, kept, room>> /\ \A d \in Conns \ {c} : pc'[d] = pc[d]
    BY <1>2, <1>p DEF Check, Goto
  <2>2. pc'[c] \in {"say", "cast"} => pc[c] = "say"
    BY <1>2, <1>p DEF Check, Goto
  <2> QED
    BY <2>1, <2>2 DEF SayInv
<1>3. ASSUME NEW c \in Conns, Say(c) PROVE Sure /\ Within
  <2>1. Within
    BY <1>3, <1>c, <1>p DEF Say
  <2>2. /\ UNCHANGED room /\ kept'[c].room = room[c]
        /\ \A d \in Conns \ {c} : pc'[d] = pc[d] /\ kept'[d] = kept[d]
    BY <1>3, <1>p DEF Say, Goto, Keep, Nothing
  <2> QED
    BY <2>1, <2>2 DEF SayInv
<1>4. ASSUME NEW c \in Conns, NEW u \in Users, Pm(c, u) PROVE Sure /\ Within
  <2>1. Within
    BY <1>4, <1>c, <1>p DEF Pm
  <2>2. /\ UNCHANGED room /\ pc'[c] = "pm"
        /\ \A d \in Conns \ {c} : pc'[d] = pc[d] /\ kept'[d] = kept[d]
    BY <1>4, <1>p DEF Pm, Goto, Find
  <2> QED
    BY <2>1, <2>2 DEF SayInv
<1>5. ASSUME NEW c \in Conns, NEW r \in Rooms, Join(c, r) PROVE Sure /\ Within
  <2>1. Within
    BY <1>5, <1>c, <1>p DEF Join
  <2>2. /\ pc'[c] = "left"
        /\ \A d \in Conns \ {c} : pc'[d] = pc[d] /\ kept'[d] = kept[d] /\ room'[d] = room[d]
    BY <1>5, <1>p DEF Join, Goto, Keep
  <2> QED
    BY <2>1, <2>2 DEF SayInv
<1>6. ASSUME NEW c \in Conns, Reply(c) PROVE Sure /\ Within
  <2>1. Within
    BY <1>6, <1>c, <1>p DEF Reply
  <2> QED
    BY <1>6, <2>1 DEF Reply, SayInv
<1>7. ASSUME NEW c \in Conns, Write(c) \/ WriteFails(c) \/ HangUp(c) PROVE Sure /\ Within
  BY <1>7 DEF Write, WriteFails, HangUp, SayInv
<1>8. ASSUME AdminSay PROVE Sure /\ Within
  <2>1. Within
    BY <1>8, <1>c, <1>p DEF AdminSay
  <2> QED
    BY <1>8, <2>1 DEF AdminSay, SayInv
<1>9. ASSUME NEW u \in Users, NEW block \in BOOLEAN, AdminBlock(u, block) PROVE Sure /\ Within
  <2>1. Within
    BY <1>9, <1>c, <1>p DEF AdminBlock
  <2>2. UNCHANGED room /\ \A d \in Conns : pc'[d] = pc[d] /\ kept'[d] = kept[d]
    BY <1>9, <1>p DEF AdminBlock, Goto, Find
  <2> QED
    BY <2>1, <2>2 DEF SayInv
<1>10. ASSUME AdminNotify PROVE Sure /\ Within
  <2>1. UNCHANGED <<room, issued>> /\ \A d \in Conns : pc'[d] = pc[d] /\ kept'[d] = kept[d]
    BY <1>10, <1>p DEF AdminNotify, Return, Goto
  <2> QED
    BY <2>1 DEF SayInv
<1>11. ASSUME UNCHANGED vars PROVE Sure /\ Within
  BY <1>11 DEF vars, SayInv
<1>12. Sure /\ Within
  <2> HIDE DEF Sure, Within, registry, local
  <2> QED
    BY <1>1, <1>2, <1>3, <1>4, <1>5, <1>6, <1>7, <1>8, <1>9, <1>10, <1>11
    DEF Next, TaskWork, Frame, Command
<1> QED
  BY <1>12 DEF SayInv

-----------------------------------------------------------------------------
(* The steps.                                                              *)

RefInv == TypeOK /\ IndexInv /\ Known /\ SayInv

Heard == [c \in Conns |-> Talked(c)]
Where == [c \in clients |-> room[c]]

(* The server starts as the service does: nobody is in, nothing was heard. *)
LEMMA ServiceInit == Init => Service!Init
<1> SUFFICES ASSUME Init PROVE Service!Init
  OBVIOUS
<1>1. [c \in clients |-> room[c]] = [c \in {} |-> General]
  BY DEF Init
<1>2. {c \in Conns : ~Takes(c)} = {}
  BY RegistryAssumption DEF Init, Takes
<1>3. gone = {}
  BY DEF Init
<1>4. [c \in Conns |-> Talked(c)] = [c \in Conns |-> <<>>]
  <2>1. <<>> \o <<>> = <<>>
    OBVIOUS
  <2> QED
    BY <2>1, TalkInEmpty DEF Init, Talked, Stream
<1> QED
  BY <1>1, <1>2, <1>3, <1>4 DEF Service!Init

(* A step that nobody hears and that moves nobody.                         *)
LEMMA PaceStep ==
    ASSUME UNCHANGED <<clients, room, gone>>, \A c \in Conns : Talked(c)' = Talked(c)
    PROVE  Service!Pace
<1>1. UNCHANGED <<Where, Heard>>
  BY DEF Where, Heard
<1> QED
  BY <1>1 DEF Service!Pace, Where, Heard

(* A message that is sent to S is posted to S, in the service.             *)
LEMMA PostStep ==
    ASSUME RefInv, NEW S \in SUBSET Conns, NEW t \in Tasks, NEW kind \in Talk,
           NEW about \in Rooms \cup Users,
           Send(S, Msg(t, kind, about)), UNCHANGED <<clients, room, gone, written>>
    PROVE  Service!Post(S, kind, t, about)
<1> DEFINE m == Msg(t, kind, about)
<1>1. m \in Messages /\ m.kind \in Talk
  BY MsgType DEF Talk, Kinds, Msg, RefInv
<1>2. m = [kind |-> kind, from |-> t, no |-> issued[t], about |-> about]
  BY DEF Msg
<1> HIDE DEF m
<1>3. issued[t] \in UNION {0..Budget[x] : x \in Tasks}
  <2>1. issued[t] \in 0..Budget[t]
    BY RegistryAssumption DEF RefInv, SayInv, TypeOK
  <2> QED
    BY <2>1
<1>4. \A c \in Conns : Talked(c)' = IF c \in S \ {d \in Conns : ~Takes(d)}
                                    THEN Append(Talked(c), m) ELSE Talked(c)
  BY <1>1, SendHeard DEF RefInv, m
<1>5. UNCHANGED Where
  BY DEF Where
<1> QED
  BY <1>2, <1>3, <1>4, <1>5 DEF Service!Post, Where

(* A send that is not talk, or a read, a write or a wait, is not heard.    *)
LEMMA SilentSend ==
    ASSUME RefInv, NEW S, NEW t \in Tasks, NEW kind \in Kinds \ Talk, NEW about \in Rooms \cup Users,
           Send(S, Msg(t, kind, about)), UNCHANGED <<clients, room, gone, written>>
    PROVE  Service!Pace
<1> DEFINE m == Msg(t, kind, about)
<1>1. m \in Messages /\ m.kind \notin Talk
  BY MsgType DEF Msg, RefInv
<1> HIDE DEF m
<1>2. \A c \in Conns : Talked(c)' = Talked(c)
  BY <1>1, SendHeard DEF RefInv, m
<1> QED
  BY <1>2, PaceStep

(* Steps that touch neither queues nor clients.                            *)
LEMMA SilentStep ==
    ASSUME UNCHANGED <<clients, room, gone, queue, written>>
    PROVE  Service!Pace
<1>1. \A c \in Conns : Talked(c)' = Talked(c)
  BY DEF Talked, Stream
<1> QED
  BY <1>1, PaceStep

(* A name that is free is entered, once.                                   *)
LEMMA EnterStep ==
    ASSUME RefInv, NEW c \in Conns, Register(c)
    PROVE  Service!Enter(c)
<1>1. /\ pc[c] = "hello" /\ nameToId[NameOf[c]] = NoId
      /\ clients' = clients \cup {c} /\ room' = [room EXCEPT ![c] = General]
      /\ UNCHANGED <<gone, queue, written>>
  BY DEF Register
<1>2. c \notin clients /\ \A d \in clients : NameOf[d] # NameOf[c]
  BY <1>1 DEF RefInv, IndexInv, Placed, Served, NamesLead, Numbered
<1>3. UNCHANGED Heard
  BY <1>1 DEF Heard, Talked, Stream
<1>4. room \in [Conns -> Rooms] /\ clients \subseteq Conns
  BY DEF RefInv, TypeOK
<1>5. Where' = [d \in clients \cup {c} |-> IF d = c THEN General ELSE Where[d]]
  BY <1>1, <1>4 DEF Where
<1>6. DOMAIN Where = clients
  BY DEF Where
<1> QED
  BY <1>1, <1>2, <1>3, <1>5, <1>6 DEF Service!Enter, Service!In, Where, Heard

(* A move is one.                                                          *)
LEMMA MoveStep ==
    ASSUME RefInv, NEW c \in Conns, NEW r \in Rooms, Join(c, r)
    PROVE  Service!Move(c, r)
<1>1. /\ pc[c] = "recv" /\ UNCHANGED <<clients, gone, queue, written>>
      /\ room' = [room EXCEPT ![c] = r]
  BY DEF Join, Ready
<1>2. c \in clients
  BY <1>1 DEF RefInv, IndexInv, Placed, Served
<1>3. UNCHANGED Heard
  BY <1>1 DEF Heard, Talked, Stream
<1>4. room \in [Conns -> Rooms] /\ clients \subseteq Conns
  BY DEF RefInv, TypeOK
<1>5. Where' = [Where EXCEPT ![c] = r] /\ DOMAIN Where = clients
  BY <1>1, <1>4 DEF Where
<1> QED
  BY <1>1, <1>2, <1>3, <1>5 DEF Service!Move, Service!In, Where, Heard

(* A client leaves when its entries go.                                    *)
LEMMA LeaveStep ==
    ASSUME RefInv, NEW c \in Conns, Unregister(c)
    PROVE  Service!Leave(c)
<1>1. /\ pc[c] = "unregister" /\ clients' = clients \ {c}
      /\ UNCHANGED <<room, gone, queue, written>>
  BY DEF Unregister, channels
<1>2. c \in clients
  BY <1>1 DEF RefInv, IndexInv, Placed, Served
<1>3. UNCHANGED Heard
  BY <1>1 DEF Heard, Talked, Stream
<1>4. Where' = [d \in clients \ {c} |-> Where[d]] /\ DOMAIN Where = clients
  BY <1>1 DEF Where
<1> QED
  BY <1>1, <1>2, <1>3, <1>4 DEF Service!Leave, Service!In, Where, Heard

(* What is said goes to the room its sender is in, though the room was     *)
(* looked up before: the sender's own task is what moves it.               *)
LEMMA SayRefines ==
    ASSUME RefInv, NEW c \in Conns, Cast(c)
    PROVE  Service!Say(c)
<1>1. /\ pc[c] = "cast" /\ UNCHANGED <<clients, room, gone, written>>
      /\ Send(Members(kept[c].room, c), Msg(c, "chat", kept[c].room))
  BY DEF Cast, registry
<1>2. c \in clients /\ clients \subseteq Conns /\ room[c] \in Rooms /\ c \in Tasks
  BY <1>1 DEF RefInv, IndexInv, Placed, Served, TypeOK, Tasks
<1>3. kept[c].room = room[c]
  BY <1>1 DEF RefInv, SayInv
<1> DEFINE S == {d \in clients \ {c} : room[d] = room[c]}
<1>4. Members(kept[c].room, c) = S
  BY <1>3, MembersAre DEF RefInv
<1>5. Service!Post(S, "chat", c, room[c])
  BY <1>1, <1>2, <1>3, <1>4, PostStep DEF Talk
<1>6. DOMAIN Where = clients /\ Where[c] = room[c]
  BY <1>2 DEF Where
<1>7. S = {d \in clients \ {c} : Where[d] = Where[c]}
  BY <1>2 DEF Where
<1> HIDE DEF S
<1> QED
  BY <1>2, <1>5, <1>6, <1>7 DEF Service!Say, Service!In, Where

(* A message for one name goes to the client of that name, or to nobody    *)
(* when the client that was looked up has gone.                            *)
LEMMA NameStep ==
    ASSUME RefInv, NEW t \in Tasks, NEW kind \in Talk, NEW u \in kept[t].user,
           Send(ById(kept[t].id), Msg(t, kind, u)), UNCHANGED <<clients, room, gone, written>>
    PROVE  \/ Service!Post({d \in clients : NameOf[d] = u}, kind, t, u)
           \/ Service!Pace
<1> DEFINE m == Msg(t, kind, u)
           S == ById(kept[t].id)
<1>1. clients \subseteq Conns /\ u \in Users /\ S \subseteq clients
  BY DEF RefInv, TypeOK, ById
<1>2. CASE S = {}
  <2>1. m \in Messages
    BY <1>1, MsgType DEF RefInv, Talk, Kinds
  <2> HIDE DEF m
  <2>2. \A c \in Conns : Talked(c)' = Talked(c)
    BY <1>2, <2>1, SendHeard DEF RefInv, m
  <2> QED
    BY <2>2, PaceStep
<1>3. CASE S # {}
  <2>1. PICK d \in S : TRUE
    BY <1>3
  <2>2. d \in clients /\ idOf[d] = kept[t].id /\ idOf[d] # NoId
    BY <1>1, <2>1 DEF ById, RefInv, IndexInv, Numbered
  <2>3. NameOf[d] = u
    BY <1>1, <2>2 DEF RefInv, Known
  <2>4. \A e \in clients : NameOf[e] = u => e = d
    BY <2>2, <2>3, NamedOnce DEF RefInv
  <2>5. \A e \in clients : idOf[e] = idOf[d] => e = d
    BY <1>1, <2>2 DEF RefInv, IndexInv, Numbered
  <2>6. S = {e \in clients : NameOf[e] = u}
    BY <2>2, <2>3, <2>4, <2>5 DEF ById
  <2> QED
    BY <1>1, <2>6, PostStep
<1> QED
  BY <1>2, <1>3

(* Every step of the server is a step of the service, or none.             *)
LEMMA ServiceStep == RefInv /\ [Next]_vars => Service!Next \/ UNCHANGED Service!vars
<1> SUFFICES ASSUME RefInv, [Next]_vars PROVE Service!Next \/ UNCHANGED Service!vars
  OBVIOUS
<1>p. /\ \A c \in Conns : c \in Tasks /\ kept[c].room \in Rooms /\ room[c] \in Rooms
      /\ General \in Rooms /\ Admin \in Tasks /\ clients \subseteq Conns
      /\ \A t \in Tasks : kept[t].user \subseteq Users
  BY RegistryAssumption DEF RefInv, TypeOK, Tasks
<1>q. Service!Pace => Service!Next
  BY DEF Service!Next
<1>s. ASSUME NEW S, NEW t \in Tasks, NEW kind \in Kinds \ Talk, NEW about \in Rooms \cup Users,
             Send(S, Msg(t, kind, about)), UNCHANGED <<clients, room, gone, written>>
      PROVE  Service!Pace
  BY <1>s, SilentSend
<1> USE DEF registry, channels
<1>1. ASSUME NEW c \in Conns,
             \/ HandshakeFails(c) \/ NameTaken(c) \/ ReadEnds(c) \/ Say(c) \/ Check(c)
             \/ \E u \in Users : Pm(c, u)
      PROVE  Service!Pace
  BY <1>1, SilentStep DEF HandshakeFails, NameTaken, ReadEnds, Say, Check, Pm
<1>2. ASSUME NEW c \in Conns, Welcome(c) PROVE Service!Pace
  <2>1. Msg(c, "welcome", General) \in Messages /\ Msg(c, "welcome", General).kind \notin Talk
    BY <1>p, MsgType DEF RefInv, Kinds, Msg, Talk
  <2>2. /\ queue' = [queue EXCEPT ![c] = Append(queue[c], Msg(c, "welcome", General))]
        /\ UNCHANGED <<written, clients, room, gone>>
    BY <1>2 DEF Welcome
  <2>3. ASSUME NEW d \in Conns PROVE Talked(d)' = Talked(d)
    <3>1. CASE d # c
      <4>1. queue'[d] = queue[d]
        BY <2>2, <3>1 DEF RefInv, TypeOK
      <4> QED
        BY <4>1, <2>2 DEF Talked, Stream
    <3>2. CASE d = c
      <4> DEFINE w == written[c]
                 q == queue[c]
                 m == Msg(c, "welcome", General)
      <4>1. w \in Seq(Messages) /\ q \in Seq(Messages) /\ queue'[c] = Append(q, m)
        BY <2>2 DEF RefInv, TypeOK
      <4>2. Talked(c) = TalkIn(w \o q) /\ Talked(c)' = TalkIn(w \o Append(q, m))
        BY <2>2, <4>1 DEF Talked, Stream
      <4> HIDE DEF w, q, m
      <4>3. w \o Append(q, m) = Append(w \o q, m) /\ w \o q \in Seq(Messages)
        BY <2>1, <4>1, ConcatAppend, ConcatProperties DEF m
      <4>4. TalkIn(Append(w \o q, m)) = TalkIn(w \o q)
        BY <2>1, <4>3, TalkInAppend DEF m
      <4> QED
        BY <3>2, <4>2, <4>3, <4>4
    <3> QED
      BY <3>1, <3>2
  <2> QED
    BY <2>2, <2>3, PaceStep
<1>3. ASSUME NEW c \in Conns,
             \/ Greet(c) \/ TellOld(c) \/ TellSelf(c) \/ TellNew(c) \/ Farewell(c)
             \/ Reply(c) \/ Refuse(c)
      PROVE  Service!Pace
  <2>1. UNCHANGED <<clients, room, gone, written>>
    BY <1>3 DEF Greet, TellOld, TellSelf, TellNew, Farewell, Reply, Refuse
  <2>2. \E S : \E kind \in {"joined", "left", "moved", "reply"}, about \in Rooms : Send(S, Msg(c, kind, about))
    BY <1>3, <1>p DEF Greet, TellOld, TellSelf, TellNew, Farewell, Reply, Refuse, RoomLeft
  <2> QED
    BY <2>1, <2>2, <1>s, <1>p DEF Kinds, Talk
<1>4. ASSUME NEW c \in Conns, Register(c) PROVE Service!Next
  BY <1>4, EnterStep DEF Service!Next
<1>5. ASSUME NEW c \in Conns, NEW r \in Rooms, Join(c, r) PROVE Service!Next
  BY <1>5, MoveStep DEF Service!Next
<1>6. ASSUME NEW c \in Conns, Unregister(c) PROVE Service!Next
  BY <1>6, LeaveStep DEF Service!Next
<1>7. ASSUME NEW c \in Conns, Cast(c) PROVE Service!Next
  BY <1>7, SayRefines DEF Service!Next
<1>8. ASSUME NEW c \in Conns, PmSend(c) PROVE Service!Next
  <2>1. PICK u \in kept[c].user : Send(ById(kept[c].id), Msg(c, "pm", u))
    BY <1>8 DEF PmSend
  <2>2. u \in Users /\ UNCHANGED <<clients, room, gone, written>>
    BY <1>8, <1>p DEF PmSend
  <2>3. Service!Post({d \in clients : NameOf[d] = u}, "pm", c, u) \/ Service!Pace
    BY <2>1, <2>2, <1>p, NameStep DEF Talk
  <2>4. DOMAIN [d \in clients |-> room[d]] = clients
    OBVIOUS
  <2>5. Service!Tell(c, u) \/ Service!Pace
    BY <2>3, <2>4 DEF Service!Tell, Service!In
  <2> QED
    BY <2>2, <2>5 DEF Service!Next
<1>9. CASE AdminNotify
  <2>1. PICK u \in kept[Admin].user : Send(ById(kept[Admin].id), Msg(Admin, "notice", u))
    BY <1>9 DEF AdminNotify
  <2>2. u \in Users /\ UNCHANGED <<clients, room, gone, written>>
    BY <1>9, <1>p DEF AdminNotify
  <2>3. Service!Post({d \in clients : NameOf[d] = u}, "notice", Admin, u) \/ Service!Pace
    BY <2>1, <2>2, <1>p, NameStep DEF Talk
  <2>4. DOMAIN [d \in clients |-> room[d]] = clients
    OBVIOUS
  <2>5. Service!Notify(u) \/ Service!Pace
    BY <2>3, <2>4 DEF Service!Notify, Service!In
  <2> QED
    BY <2>2, <2>5 DEF Service!Next
<1>10. CASE AdminSay
  <2>1. Send(clients, Msg(Admin, "say", General)) /\ UNCHANGED <<clients, room, gone, written>>
    BY <1>10 DEF AdminSay
  <2>2. Service!Post(clients, "say", Admin, General)
    BY <2>1, <1>p, PostStep DEF Talk
  <2>3. DOMAIN [d \in clients |-> room[d]] = clients
    OBVIOUS
  <2> QED
    BY <2>2, <2>3 DEF Service!SayToAll, Service!In, Service!Next
<1>11. ASSUME NEW c \in Conns, HangUp(c) PROVE Service!Next
  <2>1. gone' = gone \cup {c} /\ UNCHANGED <<clients, room, queue, written>>
    BY <1>11 DEF HangUp
  <2>2. UNCHANGED <<Where, Heard>>
    BY <2>1 DEF Where, Heard, Talked, Stream
  <2>3. Service!Break(c)
    BY <2>1, <2>2 DEF Service!Break, Where, Heard
  <2> QED
    BY <2>3 DEF Service!Next
<1>12. ASSUME NEW c \in Conns, Write(c) PROVE Service!Pace
  <2>1. UNCHANGED <<clients, room, gone>>
    BY <1>12 DEF Write
  <2> QED
    BY <1>12, <2>1, WriteHeard, PaceStep DEF RefInv
<1>13. ASSUME NEW c \in Conns, WriteFails(c) \/ Abort(c) PROVE Service!Next
  <2>1. /\ queue' = [queue EXCEPT ![c] = <<>>]
        /\ UNCHANGED <<written, clients, room, gone>>
        /\ c \in gone \/ pc[c] = "abort"
    BY <1>13 DEF WriteFails, Abort
  <2>2. c \in gone \/ c \notin clients
    BY <2>1 DEF RefInv, IndexInv, Placed, Served
  <2>3. /\ \E n \in 0..Len(Talked(c)) : Talked(c)' = SubSeq(Talked(c), 1, n)
        /\ \A d \in Conns \ {c} : Talked(d)' = Talked(d)
    BY <2>1, LostHeard DEF RefInv
  <2>4. \E n \in 0..Len(Heard[c]) : Heard' = [Heard EXCEPT ![c] = SubSeq(Heard[c], 1, n)]
    BY <2>3 DEF Heard
  <2>5. UNCHANGED Where /\ DOMAIN Where = clients
    BY <2>1 DEF Where
  <2>6. Service!Lose(c)
    BY <2>1, <2>2, <2>4, <2>5 DEF Service!Lose, Service!In, Where, Heard
  <2> QED
    BY <2>6 DEF Service!Next
<1>14. ASSUME NEW u \in Users, NEW block \in BOOLEAN, AdminBlock(u, block) PROVE Service!Pace
  BY <1>14, SilentStep DEF AdminBlock
<1>15. CASE UNCHANGED vars
  <2>1. UNCHANGED <<clients, room, gone, queue, writer, written>>
    BY <1>15 DEF vars
  <2> QED
    BY <2>1, <1>q, SilentStep
<1> HIDE DEF registry, channels
<1> QED
  BY <1>q, <1>1, <1>2, <1>3, <1>4, <1>5, <1>6, <1>7, <1>8, <1>9, <1>10, <1>11, <1>12,
     <1>13, <1>14, <1>15
  DEF Next, TaskWork, Frame, Command

(* The server implements the abstract service: whatever is said reaches,   *)
(* at one moment, exactly those it is for, but the clients whose queue is  *)
(* full or closed, and it is lost to nobody else but with its connection.  *)
THEOREM Implements == Spec => ServiceSpec
<1>1. Init => RefInv /\ Service!Init
  BY TypeInit, IndexInit, KnownInit, SayInit, ServiceInit DEF RefInv
<1>2. RefInv /\ [Next]_vars => RefInv'
  BY TypeStep, IndexStep, KnownStep, SayStep DEF RefInv
<1>3. RefInv /\ [Next]_vars => [Service!Next]_Service!vars
  BY ServiceStep
<1> QED
  BY <1>1, <1>2, <1>3, PTL DEF Spec, ServiceSpec, Service!Spec

=============================================================================
