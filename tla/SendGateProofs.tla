--------------------------- MODULE SendGateProofs ---------------------------
(***************************************************************************)
(* Proofs about SendGate, for every length of a second, every limit and    *)
(* every setting of the slowmode.                                          *)
(***************************************************************************)
EXTENDS SendGate, TLAPS, WellFoundedInduction

(* A time that has k whole units in it is at least k units long: what      *)
(* duration_cast, which rounds down, tells of the time that passed.        *)
LEMMA WholeUnits ==
    ASSUME NEW n \in Int, NEW unit \in Nat \ {0}, NEW k \in Nat,
           ~(n \div unit < k)
    PROVE  n >= unit * k
<1> DEFINE q == n \div unit
<1>1. q \in Int /\ unit * q =< n
  OBVIOUS
<1>2. q >= k
  BY <1>1
<1> HIDE DEF q
<1>3. PICK d \in Nat : q = k + d
  <2>1. q - k \in Nat /\ q = k + (q - k)
    BY <1>1, <1>2
  <2> QED
    BY <2>1
<1>4. unit * q = unit * k + unit * d
  BY <1>3
<1>5. unit * d \in Nat /\ unit * k \in Nat
  BY <1>3
<1> QED
  BY <1>1, <1>4, <1>5

(* Between the slowmode check and the acceptance of a message the clock    *)
(* only goes forward and the seconds looked up are not looked up again, so *)
(* what the check found stays true.  The time kept in the entry found is   *)
(* that of the connection's last message, or a former owner's.             *)
SpacedInv ==
    /\ clock \in Nat
    /\ lastBroadcastTime \in Nat /\ lastBroadcastTime =< clock
    /\ acceptedAt # Never => acceptedAt = lastBroadcastTime
    /\ room \in Rooms
    /\ slow \in [Rooms -> Nat] /\ slowSeconds \in Nat
    /\ pc = "passed" /\ Found /\ lastBroadcastTime # Never
         => clock - lastBroadcastTime >= Second * slowSeconds

(* The connection has sent nothing when the server starts.                 *)
LEMMA SpacedInit == Init => SpacedInv
BY SendGateAssumption DEF Init, NewEntry, FormerEntry, SpacedInv, Never

(* Every step of the thread, of the admin and of the clock keeps it.       *)
LEMMA SpacedStep == SpacedInv /\ [Next]_vars => SpacedInv'
<1> SUFFICES ASSUME SpacedInv, [Next]_vars PROVE SpacedInv'
  OBVIOUS
<1> USE SendGateAssumption DEF SpacedInv, entry, past, Found
<1>1. CASE Tick
  <2> DEFINE gate == Second * slowSeconds
  <2>1. gate \in Int
    OBVIOUS
  <2>2. pc = "passed" /\ Found /\ lastBroadcastTime # Never
          => clock - lastBroadcastTime >= gate
    OBVIOUS
  <2>3. /\ clock' = clock + 1
        /\ UNCHANGED <<pc, owner, lastBroadcastTime, acceptedAt, room, slow,
                       slowSeconds>>
    BY <1>1 DEF Tick
  <2> HIDE DEF gate
  <2>4. pc = "passed" /\ Found /\ lastBroadcastTime # Never
          => clock' - lastBroadcastTime >= gate
    BY <2>1, <2>2, <2>3
  <2> QED
    BY <2>3, <2>4 DEF gate
<1>2. CASE RateCheck
  BY <1>2 DEF RateCheck
<1>3. CASE Lookup
  BY <1>3 DEF Lookup, RoomNow
<1>4. CASE SlowCheck
  <2>1. /\ pc' = IF TooSoon THEN "recv" ELSE "passed"
        /\ UNCHANGED <<clock, lastBroadcastTime, acceptedAt, room, owner, slow,
                       slowSeconds>>
    BY <1>4 DEF SlowCheck
  <2>2. ASSUME ~TooSoon, Found, lastBroadcastTime # Never
        PROVE  clock - lastBroadcastTime >= Second * slowSeconds
    <3>1. CASE slowSeconds = 0
      BY <3>1
    <3>2. CASE slowSeconds > 0
      <4>1. ~((clock - lastBroadcastTime) \div Second < slowSeconds)
        BY <2>2, <3>2 DEF TooSoon
      <4> QED
        BY <4>1, WholeUnits
    <3> QED
      BY <3>1, <3>2
  <2> QED
    BY <2>1, <2>2
<1>5. CASE Accept
  BY <1>5 DEF Accept
<1>6. CASE Unlist
  BY <1>6 DEF Unlist
<1>7. ASSUME NEW r \in Rooms, Join(r) PROVE SpacedInv'
  BY <1>7 DEF Join
<1>8. ASSUME NEW r \in Rooms, NEW seconds \in Typed, SetSlowmode(r, seconds)
      PROVE  SpacedInv'
  BY <1>8 DEF SetSlowmode, NotNegative
<1>9. CASE UNCHANGED vars
  BY <1>9 DEF vars
<1> QED
  BY <1>1, <1>2, <1>3, <1>4, <1>5, <1>6, <1>7, <1>8, <1>9 DEF Next

(* In slowmode two messages of a listed connection are never taken less    *)
(* than the seconds looked up for the second of them apart.                *)
THEOREM Spaced == Spec => SlowSpacing
<1> DEFINE P == pc = "passed" /\ pc' = "recv" /\ Found /\ acceptedAt # Never
                  => clock - acceptedAt >= Second * slowSeconds
<1>1. SpacedInv => P
  <2> SUFFICES ASSUME SpacedInv, pc = "passed", Found, acceptedAt # Never
               PROVE  clock - acceptedAt >= Second * slowSeconds
    OBVIOUS
  <2>1. lastBroadcastTime = acceptedAt
    BY DEF SpacedInv
  <2> QED
    BY <2>1 DEF SpacedInv
<1>2. SpacedInv /\ [Next]_vars => [P]_vars
  BY <1>1
<1>3. Spec => [][P]_vars
  BY <1>2, SpacedInit, SpacedStep, PTL DEF Spec
<1> QED
  BY <1>3 DEF SlowSpacing

-----------------------------------------------------------------------------
(* Sums over the ticks.                                                    *)

(* The natural numbers are well ordered.                                   *)
LEMMA LeastNatural ==
    ASSUME NEW B \in SUBSET Nat, B # {}
    PROVE  \E n \in B : \A m \in B : n =< m
<1>1. PICK n \in B : \A m \in B : ~(<<m, n>> \in OpToRel(<, Nat))
  BY WFMin, NatLessThanWellFounded
<1>2. \A m \in B : m \in Nat /\ ~(m < n)
  BY <1>1 DEF OpToRel
<1> QED
  BY <1>2

(* Induction from 0 to N, for the members of a set.                        *)
LEMMA UpTo ==
    ASSUME NEW N \in Nat, NEW G, 0 \in G, \A k \in 1..N : k - 1 \in G => k \in G
    PROVE  \A k \in 0..N : k \in G
<1> DEFINE B == {k \in 0..N : k \notin G}
<1> SUFFICES ASSUME B # {} PROVE FALSE
  OBVIOUS
<1>0. B \in SUBSET Nat
  OBVIOUS
<1>1. PICK n \in B : \A m \in B : n =< m
  <2> HIDE DEF B
  <2> QED
    BY <1>0, LeastNatural
<1>2. n \in 0..N /\ n \notin G
  OBVIOUS
<1>3. n \in 1..N
  BY <1>2
<1>4. n - 1 \in 0..N /\ ~(n =< n - 1)
  BY <1>3
<1>5. n - 1 \notin B
  BY <1>1, <1>4
<1> QED
  BY <1>2, <1>3, <1>4, <1>5

(* g has the sums of the counts c up to each of 0..n.                      *)
Sums(c, n, g) == g = [k \in 0..n |-> IF k = 0 THEN c[0] ELSE g[k - 1] + c[k]]

(* Such sums exist.                                                        *)
LEMMA SumsExist ==
    ASSUME NEW c, NEW N \in Nat
    PROVE  \A n \in 0..N : \E g : Sums(c, n, g)
<1> DEFINE G == {n \in 0..N : \E g : Sums(c, n, g)}
<1>1. 0 \in G
  <2> DEFINE g == [k \in 0..0 |-> c[0]]
  <2>1. Sums(c, 0, g)
    BY DEF Sums
  <2> QED
    BY <2>1
<1>2. ASSUME NEW n \in 1..N, n - 1 \in G PROVE n \in G
  <2>1. PICK g : Sums(c, n - 1, g)
    BY <1>2
  <2>2. n \in Nat /\ n - 1 \in Nat /\ n # 0 /\ n \in 0..N
    OBVIOUS
  <2> DEFINE h == [k \in 0..n |-> IF k = n THEN g[n - 1] + c[n] ELSE g[k]]
  <2>3. \A k \in 0..n - 1 : g[k] = IF k = 0 THEN c[0] ELSE g[k - 1] + c[k]
    BY <2>1 DEF Sums
  <2>4. h[n] = g[n - 1] + c[n] /\ (\A k \in 0..n - 1 : h[k] = g[k])
    BY <2>2
  <2>5. h = [k \in 0..n |-> h[k]]
    OBVIOUS
  <2> HIDE DEF h
  <2>6. \A k \in 0..n : h[k] = IF k = 0 THEN c[0] ELSE h[k - 1] + c[k]
    <3>1. h[n] = IF n = 0 THEN c[0] ELSE h[n - 1] + c[n]
      BY <2>2, <2>4
    <3>2. ASSUME NEW k \in 0..n - 1 PROVE h[k] = IF k = 0 THEN c[0] ELSE h[k - 1] + c[k]
      <4>1. k # 0 => k - 1 \in 0..n - 1
        BY <2>2
      <4> QED
        BY <2>3, <2>4, <4>1
    <3> QED
      BY <2>2, <3>1, <3>2
  <2>7. Sums(c, n, h)
    BY <2>5, <2>6 DEF Sums
  <2> QED
    BY <2>2, <2>7
<1> HIDE DEF G
<1>3. \A n \in 0..N : n \in G
  BY <1>1, <1>2, UpTo
<1> QED
  BY <1>3 DEF G

(* The sum up to n is one of them.                                         *)
LEMMA SumToIs ==
    ASSUME NEW c, NEW n \in Nat
    PROVE  \E g : Sums(c, n, g) /\ SumTo(c, n) = g[n]
<1> DEFINE g == CHOOSE h : Sums(c, n, h)
<1>1. Sums(c, n, g)
  <2>1. \E h : Sums(c, n, h)
    BY SumsExist
  <2> QED
    BY <2>1
<1>2. SumTo(c, n) = g[n]
  BY DEF SumTo, Sums
<1> QED
  BY <1>1, <1>2

(* Sums up to n, from one to the next.                                     *)
LEMMA SumSteps ==
    ASSUME NEW N \in Nat, NEW c \in [0..N -> Nat]
    PROVE  /\ SumTo(c, 0) = c[0]
           /\ \A n \in 1..N : SumTo(c, n) = SumTo(c, n - 1) + c[n]
           /\ \A n \in 0..N : SumTo(c, n) \in Nat
<1>1. PICK f : Sums(c, N, f)
  <2>1. N \in 0..N
    OBVIOUS
  <2> QED
    BY <2>1, SumsExist
<1>2. /\ f[0] = c[0]
      /\ \A k \in 1..N : f[k] = f[k - 1] + c[k]
  <2>1. \A k \in 0..N : f[k] = IF k = 0 THEN c[0] ELSE f[k - 1] + c[k]
    BY <1>1 DEF Sums
  <2> QED
    BY <2>1
<1>3. ASSUME NEW n \in 0..N PROVE SumTo(c, n) = f[n]
  <2>1. PICK g : Sums(c, n, g) /\ SumTo(c, n) = g[n]
    BY SumToIs
  <2>2. \A k \in 0..n : g[k] = IF k = 0 THEN c[0] ELSE g[k - 1] + c[k]
    BY <2>1 DEF Sums
  <2> DEFINE G == {k \in 0..n : g[k] = f[k]}
  <2>3. 0 \in G
    BY <1>2, <2>2
  <2>4. ASSUME NEW k \in 1..n, k - 1 \in G PROVE k \in G
    <3>1. k \in 0..n /\ k # 0 /\ k \in 1..N
      OBVIOUS
    <3>2. g[k] = g[k - 1] + c[k] /\ f[k] = f[k - 1] + c[k]
      BY <1>2, <2>2, <3>1
    <3> QED
      BY <2>4, <3>1, <3>2
  <2> HIDE DEF G
  <2>5. n \in Nat /\ n \in 0..n
    OBVIOUS
  <2>6. \A k \in 0..n : k \in G
    BY <2>3, <2>4, <2>5, UpTo
  <2> QED
    BY <2>1, <2>5, <2>6 DEF G
<1>4. \A n \in 0..N : f[n] \in Nat
  <2> DEFINE G == {k \in 0..N : f[k] \in Nat}
  <2>1. 0 \in G
    BY <1>2
  <2>2. ASSUME NEW k \in 1..N, k - 1 \in G PROVE k \in G
    <3>1. f[k] = f[k - 1] + c[k] /\ c[k] \in Nat /\ f[k - 1] \in Nat
      BY <1>2, <2>2
    <3> QED
      BY <3>1
  <2> HIDE DEF G
  <2>3. \A k \in 0..N : k \in G
    BY <2>1, <2>2, UpTo
  <2> QED
    BY <2>3 DEF G
<1>5. SumTo(c, 0) = c[0]
  BY <1>2, <1>3
<1>6. ASSUME NEW n \in 1..N PROVE SumTo(c, n) = SumTo(c, n - 1) + c[n]
  <2>1. n \in 0..N /\ n - 1 \in 0..N
    OBVIOUS
  <2> QED
    BY <1>2, <1>3, <2>1
<1> QED
  BY <1>3, <1>4, <1>5, <1>6

(* A longer time has no fewer.                                             *)
LEMMA SumGrows ==
    ASSUME NEW N \in Nat, NEW c \in [0..N -> Nat], NEW n \in 0..N
    PROVE  SumTo(c, n) =< SumTo(c, N)
<1> DEFINE G == {k \in 0..N : k < n \/ SumTo(c, n) =< SumTo(c, k)}
<1>1. 0 \in G
  <2>1. n = 0 => SumTo(c, n) =< SumTo(c, 0)
    BY SumSteps
  <2> QED
    BY <2>1
<1>2. ASSUME NEW k \in 1..N, k - 1 \in G PROVE k \in G
  <2>0. k \in 0..N /\ k - 1 \in 0..N /\ c[k] \in Nat
    OBVIOUS
  <2>1. /\ SumTo(c, k) = SumTo(c, k - 1) + c[k] /\ c[k] \in Nat
        /\ SumTo(c, k - 1) \in Nat /\ SumTo(c, n) \in Nat /\ SumTo(c, k) \in Nat
    <3>1. \A i \in 0..N : SumTo(c, i) \in Nat
      BY SumSteps
    <3>2. SumTo(c, k) = SumTo(c, k - 1) + c[k]
      BY SumSteps
    <3> QED
      BY <2>0, <3>1, <3>2
  <2>2. CASE k < n
    BY <2>2
  <2>3. CASE k = n
    BY <2>1, <2>3
  <2>4. CASE k > n
    <3>1. SumTo(c, n) =< SumTo(c, k - 1)
      BY <1>2, <2>4
    <3> QED
      BY <2>1, <3>1
  <2> QED
    BY <2>2, <2>3, <2>4
<1> HIDE DEF G
<1>3. \A k \in 0..N : k \in G
  BY <1>1, <1>2, UpTo
<1>4. N \in 0..N
  OBVIOUS
<1> QED
  BY <1>3, <1>4 DEF G

(* A tick shifts the sums.                                                 *)
LEMMA SumShifted ==
    ASSUME NEW N \in Nat, NEW c \in [0..N -> Nat], NEW d \in [0..N -> Nat],
           d[0] = 0, \A k \in 1..N : d[k] = c[k - 1]
    PROVE  SumTo(d, 0) = 0 /\ \A n \in 1..N : SumTo(d, n) = SumTo(c, n - 1)
<1> DEFINE G == {n \in 0..N : n = 0 \/ SumTo(d, n) = SumTo(c, n - 1)}
<1>0. SumTo(d, 0) = 0
  BY SumSteps
<1>1. 0 \in G
  OBVIOUS
<1>2. ASSUME NEW k \in 1..N, k - 1 \in G PROVE k \in G
  <2>1. SumTo(d, k) = SumTo(d, k - 1) + d[k] /\ d[k] = c[k - 1]
    BY SumSteps
  <2>2. CASE k = 1
    <3>1. SumTo(c, 0) = c[0] /\ c[0] \in Nat
      BY SumSteps
    <3> QED
      BY <1>0, <2>1, <2>2, <3>1
  <2>3. CASE k # 1
    <3>1. k - 1 \in 1..N /\ k - 1 # 0
      BY <2>3
    <3>2. SumTo(c, k - 1) = SumTo(c, (k - 1) - 1) + c[k - 1]
      BY <3>1, SumSteps
    <3>3. SumTo(d, k - 1) = SumTo(c, (k - 1) - 1)
      BY <1>2, <3>1
    <3> QED
      BY <2>1, <3>2, <3>3
  <2> QED
    BY <2>2, <2>3
<1> HIDE DEF G
<1>3. \A n \in 0..N : n \in G
  BY <1>1, <1>2, UpTo
<1> QED
  BY <1>0, <1>3 DEF G

(* A message now is in every sum.                                          *)
LEMMA SumCounted ==
    ASSUME NEW N \in Nat, NEW c \in [0..N -> Nat], NEW d \in [0..N -> Nat],
           d[0] = c[0] + 1, \A k \in 1..N : d[k] = c[k]
    PROVE  \A n \in 0..N : SumTo(d, n) = SumTo(c, n) + 1
<1> DEFINE G == {n \in 0..N : SumTo(d, n) = SumTo(c, n) + 1}
<1>1. 0 \in G
  <2>1. SumTo(d, 0) = d[0] /\ SumTo(c, 0) = c[0]
    BY SumSteps
  <2> QED
    BY <2>1
<1>2. ASSUME NEW k \in 1..N, k - 1 \in G PROVE k \in G
  <2>0. k - 1 \in 0..N /\ k \in 0..N
    OBVIOUS
  <2>1. /\ SumTo(d, k) = SumTo(d, k - 1) + d[k] /\ d[k] = c[k] /\ c[k] \in Nat
        /\ SumTo(c, k) = SumTo(c, k - 1) + c[k] /\ SumTo(c, k - 1) \in Nat
    <3>1. \A i \in 0..N : SumTo(c, i) \in Nat
      BY SumSteps
    <3>2. SumTo(d, k) = SumTo(d, k - 1) + d[k]
      BY SumSteps
    <3>3. SumTo(c, k) = SumTo(c, k - 1) + c[k]
      BY SumSteps
    <3>4. d[k] = c[k] /\ c[k] \in Nat
      BY <2>0
    <3> QED
      BY <2>0, <3>1, <3>2, <3>3, <3>4
  <2>2. SumTo(d, k - 1) = SumTo(c, k - 1) + 1
    BY <1>2
  <2>3. SumTo(d, k) = SumTo(c, k) + 1
    BY <2>1, <2>2
  <2> QED
    BY <2>3
<1> HIDE DEF G
<1>3. \A n \in 0..N : n \in G
  BY <1>1, <1>2, UpTo
<1> QED
  BY <1>3 DEF G

-----------------------------------------------------------------------------
(* The windows of the rate limit.                                          *)

(* No count exceeds the messages sent on the descriptor.                   *)
CountsInv ==
    /\ inherited =< msgCount /\ msgCount =< Before + sent
    /\ \A age \in 0..Second : recent[age] =< sent

Age == clock - rateWindowStart
Lesser(a, b) == IF a < b THEN a ELSE b

(* What got through since the window began is what msgCount says, up to the*)
(* limit, but for what was inherited; what got through before that, in the *)
(* last second, belongs to one earlier window.                             *)
WindowInv ==
    /\ WindowOver => recent[0] = 0 /\ Through(Second) =< MaxCount
    /\ ~WindowOver => /\ Through(Age) + Lesser(inherited, MaxCount)
                           = Lesser(msgCount, MaxCount)
                      /\ Through(Second) =< Through(Age) + MaxCount

LEMMA GateInit == Init => TypeOK /\ CountsInv /\ WindowInv
<1> SUFFICES ASSUME Init PROVE TypeOK /\ CountsInv /\ WindowInv
  OBVIOUS
<1>a. /\ General \in Rooms /\ Second \in Nat \ {0} /\ MaxCount \in Nat \ {0}
      /\ MaxClock \in Nat /\ MaxSent \in Nat /\ MaxTyped \in Nat
      /\ Start \in Nat \ {0} /\ Start =< MaxClock /\ Before \in Nat
  BY SendGateAssumption
<1>e. /\ clock = Start /\ ownRoom = General /\ inherited = msgCount
      /\ owner \in {"own", "former"} /\ rateWindowStart \in 1..Start
      /\ msgCount \in 0..Before /\ lastBroadcastTime \in 0..Start /\ room \in Rooms
  BY <1>a DEF Init, NewEntry, FormerEntry, Never
<1>1. /\ recent = [age \in 0..Second |-> 0]
      /\ recent \in [0..Second -> 0..MaxSent] /\ recent \in [0..Second -> Nat]
      /\ \A k \in 0..Second : recent[k] = 0
  BY <1>a DEF Init
<1>2. CountsInv
  BY <1>a, <1>e, <1>1 DEF Init, CountsInv
<1>3. SumTo(recent, 0) = 0 /\ \A k \in 1..Second : SumTo(recent, k) = SumTo(recent, k - 1)
  <2>1. SumTo(recent, 0) = 0 /\ \A k \in 1..Second : recent[k - 1] = recent[k]
    BY <1>a, <1>1, SumSteps
  <2>2. SumTo(recent, 0) = 0 /\ \A k \in 1..Second : SumTo(recent, k) = SumTo(recent, k - 1)
    BY <1>a, <1>1, <2>1, SumShifted
  <2> QED
    BY <2>2
<1>4. SumTo(recent, Second) = 0
  <2> DEFINE G == {k \in 0..Second : SumTo(recent, k) = 0}
  <2>1. 0 \in G
    BY <1>a, <1>3
  <2>2. ASSUME NEW k \in 1..Second, k - 1 \in G PROVE k \in G
    BY <1>a, <1>3, <2>2
  <2> HIDE DEF G
  <2>3. \A k \in 0..Second : k \in G
    BY <1>a, <2>1, <2>2, UpTo
  <2>4. Second \in 0..Second
    BY <1>a
  <2> QED
    BY <2>3, <2>4 DEF G
<1>5. WindowInv
  <2>1. \A n \in 0..Second : SumTo(recent, n) = 0
    <3>1. ASSUME NEW n \in 0..Second PROVE SumTo(recent, n) = 0
      <4>1. SumTo(recent, n) =< SumTo(recent, Second) /\ SumTo(recent, n) \in Nat
        BY <1>a, <1>1, SumGrows, SumSteps
      <4> QED
        BY <1>4, <4>1
    <3> QED
      BY <3>1
  <2>2. ~WindowOver => Age \in 0..Second
    BY <1>a, <1>e DEF WindowOver, Age
  <2>3. Second \in 0..Second /\ recent[0] = 0
    BY <1>a, <1>1
  <2> QED
    BY <1>a, <1>e, <2>1, <2>2, <2>3 DEF WindowInv, Through, Lesser
<1>6. TypeOK
  <2>1. clock \in Start..MaxClock /\ msgCount \in 0..(Before + MaxSent)
    BY <1>a, <1>e
  <2> QED
    BY <1>a, <1>e, <1>1, <2>1 DEF Init, TypeOK, Never
<1> QED
  BY <1>2, <1>5, <1>6

(* Types and counts.                                                       *)
LEMMA GateTypes == TypeOK /\ CountsInv /\ [Next]_vars => (TypeOK /\ CountsInv)'
<1> SUFFICES ASSUME TypeOK, CountsInv, [Next]_vars PROVE (TypeOK /\ CountsInv)'
  OBVIOUS
<1>a. /\ General \in Rooms /\ Second \in Nat \ {0} /\ MaxCount \in Nat \ {0}
      /\ MaxClock \in Nat /\ MaxSent \in Nat /\ MaxTyped \in Nat /\ Typed \subseteq Int
      /\ Start \in Nat \ {0} /\ Before \in Nat
  BY SendGateAssumption
<1>t. /\ clock \in Start..MaxClock /\ inherited \in 0..Before
      /\ rateWindowStart \in 1..clock /\ msgCount \in 0..(Before + MaxSent)
      /\ lastBroadcastTime \in 0..clock
      /\ room \in Rooms /\ ownRoom \in Rooms /\ owner \in {"own", "former", "none"}
      /\ slow \in [Rooms -> Nat] /\ typed \in 0..MaxTyped
      /\ pc \in {"recv", "rated", "looked", "passed"}
      /\ slowSeconds \in Nat /\ sent \in 0..MaxSent /\ acceptedAt \in 0..clock
  BY DEF TypeOK
<1>r. recent \in [0..Second -> 0..MaxSent]
  BY DEF TypeOK
<1>c. /\ inherited =< msgCount /\ msgCount =< Before + sent
      /\ \A age \in 0..Second : recent[age] =< sent
  BY DEF CountsInv
<1>1. CASE Tick
  <2>1. /\ clock < MaxClock /\ clock' = clock + 1
        /\ recent' = [age \in 0..Second |-> IF age = 0 THEN 0 ELSE recent[age - 1]]
        /\ UNCHANGED <<rateWindowStart, msgCount, lastBroadcastTime, room, owner, ownRoom,
                       slow, typed, pc, slowSeconds, sent, inherited, acceptedAt>>
    BY <1>1 DEF Tick, entry
  <2>2. \A age \in 1..Second : age - 1 \in 0..Second
    BY <1>a
  <2>3. recent' \in [0..Second -> 0..MaxSent] /\ \A age \in 0..Second : recent'[age] =< sent
    <3>1. \A age \in 0..Second : age = 0 \/ age \in 1..Second
      BY <1>a
    <3>2. /\ \A age \in 0..Second : (IF age = 0 THEN 0 ELSE recent[age - 1]) \in 0..MaxSent
          /\ \A age \in 0..Second : (IF age = 0 THEN 0 ELSE recent[age - 1]) =< sent
      BY <1>a, <1>r, <1>c, <1>t, <2>2, <3>1
    <3> QED
      BY <2>1, <3>2
  <2>4. /\ clock' \in Start..MaxClock /\ rateWindowStart' \in 1..clock'
        /\ lastBroadcastTime' \in 0..clock' /\ acceptedAt' \in 0..clock'
    BY <1>a, <1>t, <2>1
  <2> QED
    BY <1>t, <1>c, <2>1, <2>3, <2>4 DEF TypeOK, CountsInv
<1>2. CASE RateCheck
  <2>1. /\ sent < MaxSent /\ sent' = sent + 1
        /\ rateWindowStart' \in {rateWindowStart, clock}
        /\ \/ msgCount' = msgCount /\ inherited' = inherited
           \/ msgCount' = 1 /\ inherited' = 0
           \/ msgCount' = msgCount + 1 /\ inherited' = inherited
        /\ pc' \in {pc, "rated"}
        /\ recent' = recent \/ recent' = [recent EXCEPT ![0] = @ + 1]
        /\ UNCHANGED <<clock, lastBroadcastTime, room, owner, ownRoom, slow, typed,
                       slowSeconds, acceptedAt>>
    BY <1>2 DEF RateCheck, CountNow
  <2>2. recent' \in [0..Second -> 0..MaxSent] /\ \A age \in 0..Second : recent'[age] =< sent'
    <3>1. CASE recent' = recent
      BY <1>a, <1>r, <1>c, <1>t, <2>1, <3>1
    <3>2. CASE recent' = [recent EXCEPT ![0] = @ + 1]
      <4>1. /\ recent[0] + 1 \in 0..MaxSent /\ recent[0] + 1 =< sent'
            /\ \A age \in 0..Second : recent[age] =< sent'
        BY <1>a, <1>r, <1>c, <1>t, <2>1
      <4> QED
        BY <1>r, <3>2, <4>1
    <3> QED
      BY <2>1, <3>1, <3>2
  <2>3. /\ msgCount' \in 0..(Before + MaxSent) /\ msgCount' =< Before + sent'
        /\ sent' \in 0..MaxSent /\ rateWindowStart' \in 1..clock
        /\ inherited' \in 0..Before /\ inherited' =< msgCount'
    BY <1>a, <1>t, <1>c, <2>1
  <2> QED
    BY <1>t, <2>1, <2>2, <2>3 DEF TypeOK, CountsInv
<1>3. CASE Lookup
  BY <1>3, <1>a, <1>t, <1>r, <1>c DEF Lookup, RoomNow, TypeOK, CountsInv, entry, past
<1>4. CASE SlowCheck
  <2>1. /\ pc' \in {"recv", "passed"}
        /\ UNCHANGED <<clock, entry, slow, typed, slowSeconds, past>>
    BY <1>4 DEF SlowCheck
  <2> QED
    BY <2>1, <1>t, <1>r, <1>c DEF TypeOK, CountsInv, entry, past
<1>5. CASE Accept
  BY <1>5, <1>a, <1>t, <1>r, <1>c DEF Accept, TypeOK, CountsInv
<1>6. CASE Unlist
  BY <1>6, <1>t, <1>r, <1>c DEF Unlist, TypeOK, CountsInv, past
<1>7. ASSUME NEW r \in Rooms, Join(r) PROVE (TypeOK /\ CountsInv)'
  BY <1>7, <1>t, <1>r, <1>c DEF Join, TypeOK, CountsInv, past
<1>8. ASSUME NEW r \in Rooms, NEW seconds \in Typed, SetSlowmode(r, seconds)
      PROVE  (TypeOK /\ CountsInv)'
  <2>1. NotNegative(seconds) \in Nat
    BY <1>a DEF NotNegative
  <2>2. /\ typed < MaxTyped /\ typed' = typed + 1
        /\ slow' = [slow EXCEPT ![r] = NotNegative(seconds)]
        /\ UNCHANGED <<clock, entry, pc, slowSeconds, past>>
    BY <1>8 DEF SetSlowmode
  <2>3. typed' \in 0..MaxTyped /\ slow' \in [Rooms -> Nat]
    BY <1>a, <1>t, <2>1, <2>2
  <2> QED
    BY <2>2, <2>3, <1>t, <1>r, <1>c DEF TypeOK, CountsInv, entry, past
<1>9. CASE UNCHANGED vars
  BY <1>9, <1>t, <1>r, <1>c DEF TypeOK, CountsInv, vars, entry, past
<1> QED
  BY <1>1, <1>2, <1>3, <1>4, <1>5, <1>6, <1>7, <1>8, <1>9 DEF Next

(* Windows.                                                                *)
LEMMA WindowStep == TypeOK /\ CountsInv /\ WindowInv /\ [Next]_vars => WindowInv'
<1> SUFFICES ASSUME TypeOK, CountsInv, WindowInv, [Next]_vars PROVE WindowInv'
  OBVIOUS
<1>a. Second \in Nat \ {0} /\ MaxCount \in Nat \ {0} /\ MaxSent \in Nat
  BY SendGateAssumption
<1>t. /\ clock \in Nat /\ rateWindowStart \in 1..clock /\ msgCount \in Nat
      /\ inherited \in Nat /\ inherited =< msgCount
  BY SendGateAssumption DEF TypeOK, CountsInv
<1>r. recent \in [0..Second -> Nat] /\ recent' \in [0..Second -> Nat]
  <2>1. \A f \in [0..Second -> 0..MaxSent] : f \in [0..Second -> Nat]
    BY <1>a
  <2>2. recent \in [0..Second -> 0..MaxSent] /\ recent' \in [0..Second -> 0..MaxSent]
    BY GateTypes DEF TypeOK
  <2> QED
    BY <2>1, <2>2
<1>s. /\ \A n \in 0..Second : SumTo(recent, n) \in Nat /\ SumTo(recent', n) \in Nat
      /\ SumTo(recent, Second) = SumTo(recent, Second - 1) + recent[Second]
      /\ recent[Second] \in Nat
      /\ Second \in 0..Second /\ Second - 1 \in 0..Second /\ Second \in 1..Second
  <2>1. Second \in 0..Second /\ Second - 1 \in 0..Second /\ Second \in 1..Second
    BY <1>a
  <2> QED
    BY <1>a, <1>r, <2>1, SumSteps
<1> DEFINE age == clock - rateWindowStart
<1>g. /\ age \in Nat
      /\ age > Second => recent[0] = 0 /\ SumTo(recent, Second) =< MaxCount
      /\ ~(age > Second) => /\ SumTo(recent, age) + Lesser(inherited, MaxCount)
                                 = Lesser(msgCount, MaxCount)
                            /\ SumTo(recent, Second) =< SumTo(recent, age) + MaxCount
  BY <1>t DEF WindowInv, WindowOver, Age, Through
<1>p. ASSUME /\ age' > Second => recent'[0] = 0 /\ SumTo(recent', Second) =< MaxCount
             /\ ~(age' > Second) =>
                   /\ SumTo(recent', age') + Lesser(inherited', MaxCount)
                        = Lesser(msgCount', MaxCount)
                   /\ SumTo(recent', Second) =< SumTo(recent', age') + MaxCount
      PROVE  WindowInv'
  BY <1>p DEF WindowInv, WindowOver, Age, Through
<1>1. CASE Tick
  <2>1. /\ clock' = clock + 1 /\ rateWindowStart' = rateWindowStart /\ msgCount' = msgCount
        /\ inherited' = inherited
        /\ recent' = [k \in 0..Second |-> IF k = 0 THEN 0 ELSE recent[k - 1]]
    BY <1>1 DEF Tick, entry
  <2>2. recent'[0] = 0 /\ \A k \in 1..Second : recent'[k] = recent[k - 1]
    BY <1>a, <2>1
  <2>3. \A n \in 1..Second : SumTo(recent', n) = SumTo(recent, n - 1)
    BY <1>a, <1>r, <2>2, SumShifted
  <2>4. age' = age + 1
    BY <1>t, <2>1
  <2>5. SumTo(recent', Second) = SumTo(recent, Second - 1)
    BY <1>s, <2>3
  <2> HIDE DEF age
  <2>6. CASE age > Second
    <3>1. SumTo(recent', Second) =< MaxCount
      BY <1>a, <1>g, <1>s, <2>5, <2>6
    <3>2. age' > Second
      BY <1>a, <1>g, <2>4, <2>6
    <3> QED
      BY <1>p, <2>2, <3>1, <3>2
  <2>7. CASE age = Second
    <3>1. SumTo(recent', Second) =< MaxCount
      BY <1>a, <1>t, <1>g, <1>s, <2>5, <2>7 DEF Lesser
    <3>2. age' > Second
      BY <1>a, <2>4, <2>7
    <3> QED
      BY <1>p, <2>2, <3>1, <3>2
  <2>8. CASE age < Second
    <3>1. age' \in 1..Second /\ age' - 1 = age /\ ~(age' > Second) /\ ~(age > Second)
      BY <1>a, <1>g, <2>4, <2>8
    <3>2. SumTo(recent', age') = SumTo(recent, age)
      BY <2>3, <3>1
    <3>3. age \in 0..Second
      BY <1>a, <1>g, <2>8
    <3>4. SumTo(recent', Second) =< SumTo(recent', age') + MaxCount
      BY <1>a, <1>g, <1>s, <2>5, <3>1, <3>2, <3>3
    <3> QED
      BY <1>p, <1>g, <2>1, <3>1, <3>2, <3>4
  <2> QED
    BY <1>a, <1>g, <2>6, <2>7, <2>8
<1>2. CASE RateCheck /\ Found
  <2>1. /\ clock' = clock
        /\ rateWindowStart' = IF age > Second THEN clock ELSE rateWindowStart
        /\ msgCount' = IF age > Second THEN 1 ELSE msgCount + 1
        /\ inherited' = IF age > Second THEN 0 ELSE inherited
        /\ recent' = IF msgCount' > MaxCount THEN recent ELSE [recent EXCEPT ![0] = @ + 1]
    BY <1>2 DEF RateCheck, CountNow, WindowOver
  <2>2. ASSUME ~(msgCount' > MaxCount)
        PROVE  /\ recent'[0] = recent[0] + 1
               /\ \A n \in 0..Second : SumTo(recent', n) = SumTo(recent, n) + 1
    <3>1. recent' = [recent EXCEPT ![0] = @ + 1] /\ 0 \in 0..Second
      BY <1>a, <2>1, <2>2
    <3>2. recent'[0] = recent[0] + 1 /\ \A k \in 1..Second : recent'[k] = recent[k]
      BY <1>r, <3>1
    <3> QED
      BY <1>a, <1>r, <3>2, SumCounted
  <2>3. CASE age > Second
    <3>1. age' = 0 /\ msgCount' = 1 /\ inherited' = 0 /\ ~(age' > Second)
      BY <1>a, <1>t, <2>1, <2>3
    <3>2. recent'[0] = 1 /\ SumTo(recent', Second) = SumTo(recent, Second) + 1
      BY <1>a, <1>g, <1>s, <2>2, <2>3, <3>1
    <3>3. SumTo(recent', 0) = 1
      BY <1>a, <1>r, <3>2, SumSteps
    <3>4. SumTo(recent', age') + Lesser(inherited', MaxCount) = Lesser(msgCount', MaxCount)
      BY <1>a, <3>1, <3>3 DEF Lesser
    <3>5. SumTo(recent', Second) =< SumTo(recent', age') + MaxCount
      <4>1. SumTo(recent', age') = 1
        BY <3>1, <3>3
      <4> HIDE DEF age
      <4> QED
        BY <1>a, <1>g, <1>s, <2>3, <3>2, <4>1
    <3> HIDE DEF age
    <3> QED
      BY <1>p, <3>1, <3>4, <3>5
  <2>4. CASE ~(age > Second)
    <3>1. /\ age' = age /\ age \in 0..Second
          /\ msgCount' = msgCount + 1 /\ inherited' = inherited
      BY <1>a, <1>t, <1>g, <2>1, <2>4
    <3> HIDE DEF age
    <3>2. CASE msgCount + 1 > MaxCount
      <4>1. recent' = recent
        BY <2>1, <3>1, <3>2
      <4>2. Lesser(msgCount + 1, MaxCount) = Lesser(msgCount, MaxCount)
        BY <1>a, <1>t, <3>2 DEF Lesser
      <4> QED
        BY <1>p, <1>g, <2>4, <3>1, <4>1, <4>2
    <3>3. CASE ~(msgCount + 1 > MaxCount)
      <4>1. Lesser(msgCount + 1, MaxCount) = Lesser(msgCount, MaxCount) + 1
        BY <1>a, <1>t, <3>3 DEF Lesser
      <4>2. /\ SumTo(recent', age) = SumTo(recent, age) + 1
            /\ SumTo(recent', Second) = SumTo(recent, Second) + 1
        BY <1>s, <2>2, <3>1, <3>3
      <4>3. SumTo(recent', age) + Lesser(inherited', MaxCount) = Lesser(msgCount', MaxCount)
        <5>1. Lesser(inherited, MaxCount) \in Nat /\ Lesser(msgCount, MaxCount) \in Nat
          BY <1>a, <1>t DEF Lesser
        <5> QED
          BY <1>g, <1>s, <2>4, <3>1, <4>1, <4>2, <5>1
      <4>4. SumTo(recent', Second) =< SumTo(recent', age) + MaxCount
        BY <1>a, <1>g, <1>s, <2>4, <3>1, <4>2
      <4> QED
        BY <1>p, <2>4, <3>1, <4>3, <4>4
    <3> QED
      BY <3>2, <3>3
  <2> QED
    BY <2>3, <2>4
<1>3. ASSUME UNCHANGED <<clock, rateWindowStart, msgCount, inherited, recent>> PROVE WindowInv'
  BY <1>3 DEF WindowInv, WindowOver, Age, Through
<1>4. ASSUME RateCheck, ~Found PROVE UNCHANGED <<clock, rateWindowStart, msgCount, inherited, recent>>
  BY <1>4 DEF RateCheck
<1>5. ASSUME Lookup \/ SlowCheck \/ Accept \/ Unlist \/ (\E r \in Rooms : Join(r))
      PROVE  UNCHANGED <<clock, rateWindowStart, msgCount, inherited, recent>>
  BY <1>5 DEF Lookup, SlowCheck, Accept, Unlist, Join, entry, past
<1>6. ASSUME \E r \in Rooms, seconds \in Typed : SetSlowmode(r, seconds)
      PROVE  UNCHANGED <<clock, rateWindowStart, msgCount, inherited, recent>>
  BY <1>6 DEF SetSlowmode, entry, past
<1>7. ASSUME UNCHANGED vars PROVE UNCHANGED <<clock, rateWindowStart, msgCount, inherited, recent>>
  BY <1>7 DEF vars, entry, past
<1> QED
  BY <1>1, <1>2, <1>3, <1>4, <1>5, <1>6, <1>7 DEF Next

(* What the windows say of any second.                                     *)
LEMMA WindowBounds ==
    ASSUME TypeOK, WindowInv
    PROVE  /\ SlidingBound
           /\ ~WindowOver /\ msgCount >= MaxCount
                => Through(Second) + inherited >= MaxCount
<1>a. Second \in Nat \ {0} /\ MaxCount \in Nat \ {0} /\ MaxSent \in Nat
  BY SendGateAssumption
<1>r. recent \in [0..Second -> Nat]
  <2>1. \A f \in [0..Second -> 0..MaxSent] : f \in [0..Second -> Nat]
    BY <1>a
  <2> QED
    BY <2>1 DEF TypeOK
<1>t. /\ clock \in Nat /\ rateWindowStart \in 1..clock /\ msgCount \in Nat
      /\ inherited \in Nat
  BY SendGateAssumption DEF TypeOK
<1>1. CASE WindowOver
  <2>1. Through(Second) \in Nat /\ Through(Second) =< MaxCount
    <3>1. \A n \in 0..Second : SumTo(recent, n) \in Nat
      BY <1>a, <1>r, SumSteps
    <3>2. Second \in 0..Second
      BY <1>a
    <3> QED
      BY <1>1, <3>1, <3>2 DEF Through, WindowInv
  <2> QED
    BY <1>1, <1>a, <2>1 DEF SlidingBound
<1>2. CASE ~WindowOver
  <2>1. Age \in 0..Second
    BY <1>2, <1>a, <1>t DEF WindowOver, Age
  <2>2. SumTo(recent, Age) =< SumTo(recent, Second)
    BY <1>a, <1>r, <2>1, SumGrows
  <2>3. SumTo(recent, Age) \in Nat /\ SumTo(recent, Second) \in Nat
    <3>1. \A n \in 0..Second : SumTo(recent, n) \in Nat
      BY <1>a, <1>r, SumSteps
    <3>2. Second \in 0..Second
      BY <1>a
    <3> QED
      BY <2>1, <3>1, <3>2
  <2>4. /\ SumTo(recent, Age) + Lesser(inherited, MaxCount) = Lesser(msgCount, MaxCount)
        /\ SumTo(recent, Second) =< SumTo(recent, Age) + MaxCount
    BY <1>2 DEF WindowInv, Through
  <2> QED
    BY <1>a, <1>t, <2>2, <2>3, <2>4 DEF SlidingBound, Through, Lesser
<1> QED
  BY <1>1, <1>2

(* The values are those the code can give, for every bound.                *)
THEOREM TypeCorrect == Spec => []TypeOK
BY GateInit, GateTypes, PTL DEF Spec

(* No second, wherever it starts, has more than twice the limit: a window  *)
(* does not slide, so two share a second, and three never do.              *)
THEOREM TwoWindows == Spec => []SlidingBound
<1>1. TypeOK /\ WindowInv => SlidingBound
  BY WindowBounds
<1> QED
  BY <1>1, GateInit, GateTypes, WindowStep, PTL DEF Spec

(* Whoever is refused has got as many messages through as are allowed, but *)
(* for those that a former owner of the descriptor counted in the window.  *)
THEOREM BusyRefused == Spec => RefusedOnlyWhenBusy
<1> DEFINE P == sent' # sent /\ pc' = "recv" => Through(Second) + inherited >= MaxCount
<1>1. TypeOK /\ WindowInv /\ [Next]_vars => [P]_vars
  <2> SUFFICES ASSUME TypeOK, WindowInv, [Next]_vars, sent' # sent, pc' = "recv"
               PROVE  Through(Second) + inherited >= MaxCount
    OBVIOUS
  <2>1. RateCheck
    <3>1. Tick \/ Lookup \/ SlowCheck \/ Accept \/ Unlist \/ (\E r \in Rooms : Join(r))
            => UNCHANGED sent
      BY DEF Tick, Lookup, SlowCheck, Accept, Unlist, Join, past
    <3>2. (\E r \in Rooms, seconds \in Typed : SetSlowmode(r, seconds)) => UNCHANGED sent
      BY DEF SetSlowmode, past
    <3>3. UNCHANGED vars => UNCHANGED sent
      BY DEF vars, past
    <3> QED
      BY <3>1, <3>2, <3>3 DEF Next
  <2>2. CountNow > MaxCount
    BY <2>1 DEF RateCheck
  <2>3. ~WindowOver /\ msgCount >= MaxCount
    BY <2>2, SendGateAssumption DEF CountNow, TypeOK
  <2> QED
    BY <2>3, WindowBounds
<1>2. Spec => [][P]_vars
  BY <1>1, GateInit, GateTypes, WindowStep, PTL DEF Spec
<1> QED
  BY <1>2 DEF RefusedOnlyWhenBusy

=============================================================================
