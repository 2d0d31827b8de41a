--------------------------- MODULE PinBoardProofs ---------------------------
(***************************************************************************)
(* Proofs about PinBoard, for every number of threads and of pins.         *)
(***************************************************************************)
EXTENDS PinBoard, TLAPS, SequenceTheorems, FiniteSetTheorems

Has(s, p) == \E i \in 1..Len(s) : s[i] = p
HasOnce(s, p) ==
    Has(s, p) /\ \A i, j \in 1..Len(s) : s[i] = p /\ s[j] = p => i = j

(* A pin is counted once, or not at all.                                   *)
LEMMA Counted ==
    ASSUME NEW s \in Seq(Pins), NEW p
    PROVE  /\ HasOnce(s, p) => Cardinality({i \in DOMAIN s : s[i] = p}) = 1
           /\ ~Has(s, p) => Cardinality({i \in DOMAIN s : s[i] = p}) = 0
<1> DEFINE found == {i \in DOMAIN s : s[i] = p}
<1>1. DOMAIN s = 1..Len(s)
  OBVIOUS
<1>2. ASSUME HasOnce(s, p) PROVE Cardinality(found) = 1
  <2>1. PICK i \in 1..Len(s) : s[i] = p
    BY <1>2 DEF HasOnce, Has
  <2>2. found = {i}
    BY <1>1, <1>2, <2>1 DEF HasOnce
  <2> QED
    BY <2>2, FS_Singleton
<1>3. ASSUME ~Has(s, p) PROVE Cardinality(found) = 0
  <2>1. found = {}
    BY <1>1, <1>3 DEF Has
  <2> QED
    BY <2>1, FS_EmptySet
<1> QED
  BY <1>2, <1>3

(* /pin adds one line.                                                     *)
LEMMA Appended ==
    ASSUME NEW s \in Seq(Pins), NEW q \in Pins
    PROVE  /\ Append(s, q) \in Seq(Pins)
           /\ \A p : p # q => /\ Has(Append(s, q), p) <=> Has(s, p)
                              /\ HasOnce(s, p) => HasOnce(Append(s, q), p)
           /\ ~Has(s, q) => HasOnce(Append(s, q), q)
<1> DEFINE a == Append(s, q)
<1>1. /\ a \in Seq(Pins) /\ Len(s) \in Nat /\ Len(a) = Len(s) + 1 /\ a[Len(s) + 1] = q
      /\ \A i \in 1..Len(s) : a[i] = s[i]
  OBVIOUS
<1> HIDE DEF a
<1>2. \A i \in 1..Len(a) : i \in 1..Len(s) \/ i = Len(s) + 1
  BY <1>1
<1>3. \A i \in 1..Len(s) : i \in 1..Len(a)
  BY <1>1
<1>4. Len(s) + 1 \in 1..Len(a)
  BY <1>1
<1>5. ASSUME NEW p, p # q PROVE Has(a, p) <=> Has(s, p)
  BY <1>1, <1>2, <1>3, <1>5 DEF Has
<1>6. ASSUME NEW p, p # q, HasOnce(s, p) PROVE HasOnce(a, p)
  <2>1. Has(a, p)
    BY <1>5, <1>6 DEF HasOnce
  <2>2. ASSUME NEW i \in 1..Len(a), NEW j \in 1..Len(a), a[i] = p, a[j] = p PROVE i = j
    <3>1. i \in 1..Len(s) /\ j \in 1..Len(s)
      BY <1>1, <1>2, <1>6, <2>2
    <3> QED
      BY <1>1, <1>6, <2>2, <3>1 DEF HasOnce
  <2> QED
    BY <2>1, <2>2 DEF HasOnce
<1>7. ASSUME ~Has(s, q) PROVE HasOnce(a, q)
  <2>1. \A i \in 1..Len(a) : a[i] = q => i = Len(s) + 1
    BY <1>1, <1>2, <1>7 DEF Has
  <2> QED
    BY <1>1, <1>4, <2>1 DEF Has, HasOnce
<1> QED
  BY <1>1, <1>5, <1>6, <1>7 DEF a

(* What an /unpin keeps is the board without the line at the index.        *)
LEMMA KeptLines ==
    ASSUME NEW s \in Seq(Pins), NEW n \in 1..Len(s)
    PROVE  /\ RemoveAt(s, n) \in Seq(Pins)
           /\ \A p : /\ Has(RemoveAt(s, n), p) => Has(s, p)
                     /\ HasOnce(s, p) /\ s[n] # p => HasOnce(RemoveAt(s, n), p)
                     /\ HasOnce(s, p) /\ s[n] = p => ~Has(RemoveAt(s, n), p)
<1> DEFINE a == SubSeq(s, 1, n - 1)
           b == SubSeq(s, n + 1, Len(s))
           r == RemoveAt(s, n)
           at(i) == IF i < n THEN i ELSE i + 1
<1>0. Len(s) \in Nat /\ n \in Nat \ {0} /\ n =< Len(s) /\ \A i \in 1..Len(s) : s[i] \in Pins
  OBVIOUS
<1>1. /\ a \in Seq(Pins) /\ Len(a) = n - 1 /\ \A i \in 1..(n - 1) : a[i] = s[i]
      /\ b \in Seq(Pins) /\ Len(b) = Len(s) - n
      /\ \A i \in 1..(Len(s) - n) : b[i] = s[n + i]
  <2>1. \A i \in 1..(n - 1) : s[i] \in Pins
    BY <1>0
  <2>2. \A i \in (n + 1)..Len(s) : s[i] \in Pins
    BY <1>0
  <2>3. a \in Seq(Pins) /\ Len(a) = n - 1 /\ \A i \in 1..(n - 1) : a[i] = s[i]
    BY <1>0, <2>1, SubSeqProperties
  <2>4. /\ b \in Seq(Pins) /\ Len(b) = Len(s) - n
        /\ \A i \in 1..(Len(s) - n) : b[i] = s[n + i]
    BY <1>0, <2>2, SubSeqProperties
  <2> QED
    BY <2>3, <2>4
<1>2. r = a \o b
  BY DEF RemoveAt
<1> HIDE DEF a, b, r
<1>3. /\ r \in Seq(Pins) /\ Len(r) = Len(s) - 1
      /\ \A i \in 1..(n - 1) : r[i] = a[i]
      /\ \A i \in n..(Len(s) - 1) : r[i] = b[i - (n - 1)]
  <2>1. /\ r \in Seq(Pins) /\ Len(r) = Len(a) + Len(b)
        /\ \A i \in 1..Len(a) : r[i] = a[i]
        /\ \A i \in (Len(a) + 1)..(Len(a) + Len(b)) : r[i] = b[i - Len(a)]
    <3>1. a \in Seq(Pins) /\ b \in Seq(Pins)
      BY <1>1
    <3>2. /\ a \o b \in Seq(Pins) /\ Len(a \o b) = Len(a) + Len(b)
          /\ \A i \in 1..Len(a) : (a \o b)[i] = a[i]
          /\ \A i \in (Len(a) + 1)..(Len(a) + Len(b)) : (a \o b)[i] = b[i - Len(a)]
      BY <3>1, ConcatProperties
    <3> QED
      BY <1>2, <3>2
  <2>2. /\ Len(a) = n - 1 /\ Len(a) + 1 = n
        /\ Len(a) + Len(b) = Len(s) - 1
    BY <1>0, <1>1
  <2> QED
    BY <2>1, <2>2
<1>4. \A i \in 1..Len(r) : at(i) \in 1..Len(s) /\ at(i) # n /\ r[i] = s[at(i)]
  <2>1. ASSUME NEW i \in 1..Len(r) PROVE at(i) \in 1..Len(s) /\ at(i) # n /\ r[i] = s[at(i)]
    <3>1. CASE i < n
      BY <1>0, <1>1, <1>3, <3>1
    <3>2. CASE ~(i < n)
      <4>1. i \in n..(Len(s) - 1) /\ i - (n - 1) \in 1..(Len(s) - n) /\ n + (i - (n - 1)) = i + 1
        BY <1>0, <1>3, <3>2
      <4>2. r[i] = s[n + (i - (n - 1))]
        BY <1>1, <1>3, <4>1
      <4> QED
        BY <1>0, <3>2, <4>1, <4>2
    <3> QED
      BY <3>1, <3>2
  <2> QED
    BY <2>1
<1>5. \A i, j \in 1..Len(r) : at(i) = at(j) => i = j
  BY <1>0, <1>3
<1>6. \A j \in 1..Len(s) : j # n => \E i \in 1..Len(r) : at(i) = j
  <2>1. ASSUME NEW j \in 1..Len(s), j # n PROVE \E i \in 1..Len(r) : at(i) = j
    <3>1. CASE j < n
      BY <1>0, <1>3, <3>1
    <3>2. CASE j > n
      <4>1. j - 1 \in 1..Len(r) /\ ~(j - 1 < n) /\ (j - 1) + 1 = j
        BY <1>0, <1>3, <3>2
      <4> QED
        BY <4>1
    <3> QED
      BY <1>0, <2>1, <3>1, <3>2
  <2> QED
    BY <2>1
<1> HIDE DEF at
<1>7. ASSUME NEW p PROVE Has(r, p) => Has(s, p)
  BY <1>4 DEF Has
<1>8. ASSUME NEW p, HasOnce(s, p), s[n] # p PROVE HasOnce(r, p)
  <2>1. PICK j \in 1..Len(s) : s[j] = p
    BY <1>8 DEF HasOnce, Has
  <2>2. PICK i \in 1..Len(r) : at(i) = j
    BY <1>6, <1>8, <2>1
  <2>3. Has(r, p)
    BY <1>4, <2>1, <2>2 DEF Has
  <2>4. \A x, y \in 1..Len(r) : r[x] = p /\ r[y] = p => x = y
    BY <1>4, <1>5, <1>8 DEF HasOnce
  <2> QED
    BY <2>3, <2>4 DEF HasOnce
<1>9. ASSUME NEW p, HasOnce(s, p), s[n] = p PROVE ~Has(r, p)
  BY <1>4, <1>9 DEF HasOnce, Has
<1> QED
  BY <1>3, <1>7, <1>8, <1>9 DEF r

(* The write of an /unpin leaves its lines, and what is beyond them.       *)
LEMMA WrittenOver ==
    ASSUME NEW a \in Seq(Pins), NEW s \in Seq(Pins)
    PROVE  /\ a \o SubSeq(s, Len(a) + 1, Len(s)) \in Seq(Pins)
           /\ \A p : ~Has(s, p) =>
                 /\ Has(a \o SubSeq(s, Len(a) + 1, Len(s)), p) => Has(a, p)
                 /\ HasOnce(a, p) => HasOnce(a \o SubSeq(s, Len(a) + 1, Len(s)), p)
<1> DEFINE b == SubSeq(s, Len(a) + 1, Len(s))
           r == a \o b
<1>0. Len(s) \in Nat /\ Len(a) \in Nat /\ \A i \in 1..Len(s) : s[i] \in Pins
  OBVIOUS
<1>1. /\ b \in Seq(Pins) /\ Len(b) \in Nat
      /\ \A i \in 1..Len(b) : \E j \in 1..Len(s) : b[i] = s[j]
  <2>1. \A i \in (Len(a) + 1)..Len(s) : s[i] \in Pins
    BY <1>0
  <2>2. /\ b \in Seq(Pins)
        /\ Len(b) = IF Len(a) + 1 =< Len(s) THEN Len(s) - (Len(a) + 1) + 1 ELSE 0
        /\ \A i \in 1..(Len(s) - (Len(a) + 1) + 1) : b[i] = s[(Len(a) + 1) + i - 1]
    BY <1>0, <2>1, SubSeqProperties
  <2> HIDE DEF b
  <2>3. ASSUME NEW i \in 1..Len(b) PROVE \E j \in 1..Len(s) : b[i] = s[j]
    <3>1. (Len(a) + 1) + i - 1 \in 1..Len(s) /\ i \in 1..(Len(s) - (Len(a) + 1) + 1)
      BY <1>0, <2>2
    <3> QED
      BY <2>2, <3>1
  <2> QED
    BY <1>0, <2>2, <2>3
<1> HIDE DEF b
<1>2. /\ r \in Seq(Pins) /\ Len(r) = Len(a) + Len(b)
      /\ \A i \in 1..Len(a) : r[i] = a[i]
      /\ \A i \in (Len(a) + 1)..(Len(a) + Len(b)) : r[i] = b[i - Len(a)]
  BY <1>0, <1>1, ConcatProperties
<1> HIDE DEF r
<1>3. ASSUME NEW p, ~Has(s, p) PROVE \A i \in 1..Len(r) : r[i] = p => i \in 1..Len(a) /\ a[i] = p
  <2>1. ASSUME NEW i \in 1..Len(r), r[i] = p PROVE i \in 1..Len(a)
    <3> SUFFICES ASSUME i \notin 1..Len(a) PROVE FALSE
      OBVIOUS
    <3>1. i \in (Len(a) + 1)..(Len(a) + Len(b)) /\ i - Len(a) \in 1..Len(b)
      BY <1>0, <1>1, <1>2
    <3>2. b[i - Len(a)] = p
      BY <1>2, <2>1, <3>1
    <3> QED
      BY <1>1, <1>3, <3>1, <3>2 DEF Has
  <2> QED
    BY <1>2, <2>1
<1>4. ASSUME NEW p, ~Has(s, p) PROVE Has(r, p) => Has(a, p)
  BY <1>3, <1>4 DEF Has
<1>5. ASSUME NEW p, ~Has(s, p), HasOnce(a, p) PROVE HasOnce(r, p)
  <2>1. \A i \in 1..Len(a) : i \in 1..Len(r)
    BY <1>0, <1>1, <1>2
  <2>2. Has(r, p)
    BY <1>2, <1>5, <2>1 DEF Has, HasOnce
  <2> QED
    BY <1>3, <1>5, <2>2 DEF HasOnce
<1> QED
  BY <1>2, <1>4, <1>5 DEF b, r

-----------------------------------------------------------------------------
TypeInv ==
    /\ board \in Seq(Pins) /\ all \in [Threads -> Seq(Pins)]
    /\ pc \in [Threads -> {"recv", "read", "cut"}]
    /\ pinned \subseteq Pins /\ unpinned \subseteq pinned

(* What is not pinned is nowhere.                                          *)
KnownInv ==
    \A p \in Pins \ pinned : ~Has(board, p) /\ \A t \in Busy : ~Has(all[t], p)

(* What stays pinned is on the board, or in the copy of the one /unpin     *)
(* that runs.                                                              *)
KeptInv ==
    \A p \in (pinned \ raced) \ unpinned :
        \/ Busy = {} /\ HasOnce(board, p)
        \/ \E t \in Threads :
              /\ Busy = {t} /\ HasOnce(all[t], p)
              /\ pc[t] = "cut" => ~Has(board, p)

(* What was unpinned is in no copy, and on the board only until the /unpin *)
(* that took it out empties the file.                                      *)
GoneInv ==
    \A p \in unpinned \ raced :
        /\ \A t \in Busy : ~Has(all[t], p)
        /\ ~Has(board, p) \/ \E t \in Threads : Busy = {t} /\ pc[t] = "read"

BoardInv == TypeInv /\ KnownInv /\ KeptInv /\ GoneInv

(* The pins held are those in the copies, those on the board the lines.    *)
LEMMA HeldAre ==
    TypeInv => /\ \A p : p \in ToSet(board) <=> Has(board, p)
               /\ \A p : p \in Held <=> \E t \in Busy : Has(all[t], p)
<1> SUFFICES ASSUME TypeInv
             PROVE  /\ \A p : p \in ToSet(board) <=> Has(board, p)
                    /\ \A p : p \in Held <=> \E t \in Busy : Has(all[t], p)
  OBVIOUS
<1>1. \A s \in Seq(Pins) : \A p : p \in ToSet(s) <=> Has(s, p)
  <2>1. \A s \in Seq(Pins) : DOMAIN s = 1..Len(s)
    OBVIOUS
  <2> QED
    BY <2>1 DEF ToSet, Has
<1>2. board \in Seq(Pins) /\ \A t \in Busy : all[t] \in Seq(Pins)
  BY DEF TypeInv, Busy
<1>3. \A p : p \in Held <=> \E t \in Busy : p \in ToSet(all[t])
  BY DEF Held
<1> QED
  BY <1>1, <1>2, <1>3

(* An empty board has nothing to lose.                                     *)
LEMMA BoardInit == Init => BoardInv
<1> SUFFICES ASSUME Init PROVE BoardInv
  OBVIOUS
<1>1. <<>> \in Seq(Pins) /\ 1..Len(<<>>) = {}
  OBVIOUS
<1>2. TypeInv /\ ~(\E t : t \in Busy) /\ \A p : ~Has(board, p)
  BY <1>1 DEF Init, TypeInv, Busy, Has
<1> QED
  BY <1>2 DEF Init, BoardInv, KnownInv, KeptInv, GoneInv

(* A pin while an /unpin runs is not counted on.                            *)
LEMMA PinStep ==
    ASSUME NEW t \in Threads, NEW q \in Pins, BoardInv, Pin(t, q) PROVE BoardInv'
<1>1. /\ board \in Seq(Pins) /\ pc[t] = "recv" /\ q \notin pinned
      /\ board' = Append(board, q) /\ pinned' = pinned \cup {q}
      /\ UNCHANGED <<pc, all, unpinned>>
      /\ raced' = IF Busy = {} THEN raced ELSE raced \cup {q}
      /\ TypeInv /\ KnownInv /\ KeptInv /\ GoneInv
  BY DEF Pin, BoardInv, TypeInv
<1>2. /\ board' \in Seq(Pins)
      /\ \A p : p # q => /\ Has(board', p) <=> Has(board, p)
                         /\ HasOnce(board, p) => HasOnce(board', p)
      /\ ~Has(board, q) => HasOnce(board', q)
  BY <1>1, Appended
<1>3. Busy' = Busy
  BY <1>1 DEF Busy
<1>4. TypeInv'
  BY <1>1, <1>2 DEF TypeInv
<1>5. KnownInv'
  BY <1>1, <1>2, <1>3 DEF KnownInv
<1>6. KeptInv'
  <2>1. ASSUME NEW p \in (pinned' \ raced') \ unpinned'
        PROVE  \/ Busy = {} /\ HasOnce(board', p)
               \/ \E u \in Threads : /\ Busy = {u} /\ HasOnce(all[u], p)
                                     /\ pc[u] = "cut" => ~Has(board', p)
    <3>1. CASE p = q
      <4>1. Busy = {} /\ ~Has(board, q)
        BY <1>1, <2>1, <3>1 DEF KnownInv
      <4> QED
        BY <1>2, <3>1, <4>1
    <3>2. CASE p # q
      <4>1. p \in (pinned \ raced) \ unpinned
        BY <1>1, <2>1, <3>2
      <4> QED
        BY <1>1, <1>2, <3>2, <4>1 DEF KeptInv
    <3> QED
      BY <3>1, <3>2
  <2> QED
    BY <1>1, <1>3, <2>1 DEF KeptInv
<1>7. GoneInv'
  <2>1. \A p \in unpinned' \ raced' : p \in unpinned \ raced /\ p # q
    BY <1>1 DEF TypeInv
  <2> QED
    BY <1>1, <1>2, <1>3, <2>1 DEF GoneInv
<1> QED
  BY <1>4, <1>5, <1>6, <1>7 DEF BoardInv

(* The first /unpin copies what stays; a second one finds all in doubt.    *)
LEMMA ReadStep ==
    ASSUME NEW t \in Threads, NEW n \in 1..Len(board), BoardInv, UnpinRead(t, n) PROVE BoardInv'
<1> DEFINE r == RemoveAt(board, n)
<1>1. /\ board \in Seq(Pins) /\ all \in [Threads -> Seq(Pins)]
      /\ pc \in [Threads -> {"recv", "read", "cut"}] /\ pc[t] = "recv"
      /\ all' = [all EXCEPT ![t] = r] /\ pc' = [pc EXCEPT ![t] = "read"]
      /\ raced' = IF Busy = {} THEN raced ELSE raced \cup ToSet(board) \cup Held
      /\ unpinned' = unpinned \cup {board[n]}
      /\ UNCHANGED <<board, pinned>>
      /\ TypeInv /\ KnownInv /\ KeptInv /\ GoneInv
  BY DEF UnpinRead, Kept, BoardInv, TypeInv
<1>2. /\ r \in Seq(Pins)
      /\ \A p : /\ Has(r, p) => Has(board, p)
                /\ HasOnce(board, p) /\ board[n] # p => HasOnce(r, p)
                /\ HasOnce(board, p) /\ board[n] = p => ~Has(r, p)
  BY <1>1, KeptLines
<1> HIDE DEF r
<1>3. /\ Busy' = Busy \cup {t} /\ t \notin Busy
      /\ all'[t] = r /\ \A u \in Busy : all'[u] = all[u]
      /\ pc'[t] = "read" /\ \A u \in Busy : pc'[u] = pc[u]
  BY <1>1 DEF Busy
<1>4. board[n] \in Pins /\ Has(board, board[n])
  BY <1>1 DEF Has
<1>4b. board[n] \in pinned
  BY <1>1, <1>4 DEF KnownInv
<1>5. TypeInv'
  BY <1>1, <1>2, <1>4b DEF TypeInv
<1>6. KnownInv'
  BY <1>1, <1>2, <1>3 DEF KnownInv
<1>7. \A p : p \in raced' <=>
          p \in raced \/ (Busy # {} /\ (Has(board, p) \/ \E u \in Busy : Has(all[u], p)))
  BY <1>1, HeldAre
<1>8. KeptInv'
  <2>1. ASSUME NEW p \in (pinned' \ raced') \ unpinned'
        PROVE  Busy' = {t} /\ HasOnce(all'[t], p) /\ pc'[t] # "cut"
    <3>1. p \in (pinned \ raced) \ unpinned /\ p # board[n]
      BY <1>1, <1>7, <2>1
    <3>2. Busy = {}
      BY <1>1, <1>7, <2>1, <3>1 DEF KeptInv, HasOnce
    <3>3. HasOnce(board, p)
      BY <1>1, <3>1, <3>2 DEF KeptInv
    <3> QED
      BY <1>2, <1>3, <3>1, <3>2, <3>3
  <2> QED
    BY <2>1 DEF KeptInv
<1>9. GoneInv'
  <2>1. ASSUME NEW p \in unpinned' \ raced'
        PROVE  /\ \A u \in Busy' : ~Has(all'[u], p)
               /\ ~Has(board', p) \/ \E u \in Threads : Busy' = {u} /\ pc'[u] = "read"
    <3>1. CASE Busy # {}
      <4>1. ~Has(board, p) /\ \A u \in Busy : ~Has(all[u], p)
        BY <1>7, <2>1, <3>1
      <4> QED
        BY <1>1, <1>2, <1>3, <4>1
    <3>2. CASE Busy = {}
      <4>1. Busy' = {t} /\ pc'[t] = "read"
        BY <1>3, <3>2
      <4>2. p \notin raced /\ p \in pinned
        BY <1>1, <1>4b, <1>7, <2>1 DEF TypeInv
      <4>3. CASE p \in unpinned
        <5>1. ~Has(board, p)
          BY <1>1, <3>2, <4>2, <4>3 DEF GoneInv
        <5> QED
          BY <1>2, <1>3, <4>1, <5>1
      <4>4. CASE p \notin unpinned
        <5>1. p = board[n] /\ HasOnce(board, p)
          BY <1>1, <2>1, <3>2, <4>2, <4>4 DEF KeptInv
        <5> QED
          BY <1>2, <1>3, <4>1, <5>1
      <4> QED
        BY <4>3, <4>4
    <3> QED
      BY <3>1, <3>2
  <2> QED
    BY <2>1 DEF GoneInv
<1> QED
  BY <1>5, <1>6, <1>8, <1>9 DEF BoardInv

(* What is cut from the board is in the copy.                              *)
LEMMA CutStep ==
    ASSUME NEW t \in Threads, BoardInv, UnpinCut(t) PROVE BoardInv'
<1>1. /\ pc \in [Threads -> {"recv", "read", "cut"}] /\ pc[t] = "read"
      /\ board' = <<>> /\ pc' = [pc EXCEPT ![t] = "cut"]
      /\ UNCHANGED <<all, pinned, unpinned, raced>>
      /\ TypeInv /\ KnownInv /\ KeptInv /\ GoneInv
  BY DEF UnpinCut, BoardInv, TypeInv
<1>2. board' \in Seq(Pins) /\ \A p : ~Has(board', p)
  <2>1. <<>> \in Seq(Pins) /\ 1..Len(<<>>) = {}
    OBVIOUS
  <2> QED
    BY <1>1, <2>1 DEF Has
<1>3. Busy' = Busy /\ t \in Busy
  BY <1>1 DEF Busy
<1>4. TypeInv'
  BY <1>1, <1>2 DEF TypeInv
<1>5. KnownInv'
  BY <1>1, <1>2, <1>3 DEF KnownInv
<1>6. KeptInv'
  BY <1>1, <1>2, <1>3 DEF KeptInv
<1>7. GoneInv'
  BY <1>1, <1>2, <1>3 DEF GoneInv
<1> QED
  BY <1>4, <1>5, <1>6, <1>7 DEF BoardInv

(* What is written is the copy, over what is in doubt.                     *)
LEMMA WriteStep ==
    ASSUME NEW t \in Threads, BoardInv, UnpinWrite(t) PROVE BoardInv'
<1> DEFINE r == all[t] \o SubSeq(board, Len(all[t]) + 1, Len(board))
<1>1. /\ board \in Seq(Pins) /\ all \in [Threads -> Seq(Pins)] /\ all[t] \in Seq(Pins)
      /\ pc \in [Threads -> {"recv", "read", "cut"}] /\ pc[t] = "cut"
      /\ board' = r /\ all' = [all EXCEPT ![t] = <<>>] /\ pc' = [pc EXCEPT ![t] = "recv"]
      /\ UNCHANGED <<pinned, unpinned, raced>>
      /\ TypeInv /\ KnownInv /\ KeptInv /\ GoneInv
  BY DEF UnpinWrite, BoardInv, TypeInv
<1>2. /\ r \in Seq(Pins)
      /\ \A p : ~Has(board, p) =>
            /\ Has(r, p) => Has(all[t], p)
            /\ HasOnce(all[t], p) => HasOnce(r, p)
  BY <1>1, WrittenOver
<1> HIDE DEF r
<1>3. t \in Busy /\ Busy' = Busy \ {t} /\ \A u \in Busy' : all'[u] = all[u] /\ pc'[u] = pc[u]
  BY <1>1 DEF Busy
<1>4. TypeInv'
  <2>1. <<>> \in Seq(Pins)
    OBVIOUS
  <2> QED
    BY <1>1, <1>2, <2>1 DEF TypeInv
<1>5. KnownInv'
  BY <1>1, <1>2, <1>3 DEF KnownInv
<1>6. KeptInv'
  <2>1. ASSUME NEW p \in (pinned \ raced) \ unpinned PROVE Busy' = {} /\ HasOnce(board', p)
    <3>1. PICK u \in Threads : /\ Busy = {u} /\ HasOnce(all[u], p)
                               /\ pc[u] = "cut" => ~Has(board, p)
      BY <1>1, <1>3 DEF KeptInv
    <3>2. u = t
      BY <1>3, <3>1
    <3> QED
      BY <1>1, <1>2, <1>3, <3>1, <3>2
  <2> QED
    BY <1>1, <2>1 DEF KeptInv
<1>7. GoneInv'
  <2>1. ASSUME NEW p \in unpinned \ raced PROVE ~Has(board', p) /\ \A u \in Busy' : ~Has(all'[u], p)
    <3>1. ~Has(all[t], p) /\ \A u \in Busy : ~Has(all[u], p)
      BY <1>1, <1>3 DEF GoneInv
    <3>2. ~Has(board, p)
      BY <1>1, <1>3 DEF GoneInv
    <3> QED
      BY <1>1, <1>2, <1>3, <3>1, <3>2
  <2> QED
    BY <1>1, <2>1 DEF GoneInv
<1> QED
  BY <1>4, <1>5, <1>6, <1>7 DEF BoardInv

(* A restart loses the copies, and puts what is in them in doubt.          *)
LEMMA RestartStep ==
    ASSUME BoardInv, Restart PROVE BoardInv'
<1>1. /\ pc' = [u \in Threads |-> "recv"] /\ all' = [u \in Threads |-> <<>>]
      /\ raced' = raced \cup Held \cup {p \in unpinned : Busy # {}}
      /\ UNCHANGED <<board, pinned, unpinned>>
      /\ TypeInv /\ KnownInv /\ KeptInv /\ GoneInv
  BY DEF Restart, BoardInv
<1>2. Busy' = {}
  BY <1>1 DEF Busy
<1>3. TypeInv'
  <2>1. <<>> \in Seq(Pins)
    OBVIOUS
  <2> QED
    BY <1>1, <2>1 DEF TypeInv
<1>4. KnownInv'
  BY <1>1, <1>2 DEF KnownInv
<1>5. \A p : p \in raced' <=>
          p \in raced \/ (\E u \in Busy : Has(all[u], p)) \/ (p \in unpinned /\ Busy # {})
  BY <1>1, HeldAre
<1>6. KeptInv'
  <2>1. ASSUME NEW p \in (pinned \ raced') \ unpinned PROVE HasOnce(board, p)
    BY <1>1, <1>5 DEF KeptInv, HasOnce
  <2> QED
    BY <1>1, <1>2, <2>1 DEF KeptInv
<1>7. GoneInv'
  <2>1. ASSUME NEW p \in unpinned \ raced' PROVE ~Has(board, p)
    BY <1>1, <1>5 DEF GoneInv
  <2> QED
    BY <1>1, <1>2, <2>1 DEF GoneInv
<1> QED
  BY <1>3, <1>4, <1>6, <1>7 DEF BoardInv

(* When no /unpin is in progress the board has what was pinned and not     *)
(* unpinned, each pin once, unless a second command or a restart came in   *)
(* the middle of an /unpin.                                                *)
THEOREM BoardSettles == Spec => []SettledBoard
<1>1. BoardInv /\ [Next]_vars => BoardInv'
  <2> SUFFICES ASSUME BoardInv, [Next]_vars PROVE BoardInv'
    OBVIOUS
  <2>1. CASE UNCHANGED vars
    BY <2>1 DEF vars, BoardInv, TypeInv, KnownInv, KeptInv, GoneInv, Busy
  <2> QED
    BY <2>1, PinStep, ReadStep, CutStep, WriteStep, RestartStep DEF Next
<1>2. BoardInv => SettledBoard
  <2> SUFFICES ASSUME BoardInv, Busy = {}, NEW p \in pinned \ raced
               PROVE  Cardinality({i \in DOMAIN board : board[i] = p})
                          = IF p \in unpinned THEN 0 ELSE 1
    BY DEF SettledBoard
  <2>1. board \in Seq(Pins)
    BY DEF BoardInv, TypeInv
  <2>2. CASE p \in unpinned
    <3>1. ~Has(board, p)
      BY <2>2 DEF BoardInv, GoneInv
    <3> QED
      BY <2>1, <2>2, <3>1, Counted
  <2>3. CASE p \notin unpinned
    <3>1. HasOnce(board, p)
      BY <2>3 DEF BoardInv, KeptInv
    <3> QED
      BY <2>1, <2>3, <3>1, Counted
  <2> QED
    BY <2>2, <2>3
<1> QED
  BY <1>1, <1>2, BoardInit, PTL DEF Spec

=============================================================================
