--------------------------- MODULE ObserverProofs ---------------------------
(***************************************************************************)
(* Proofs about Observer, for every number of threads that broadcast, every*)
(* room on the wire and however often reads are dropped.                   *)
(***************************************************************************)
EXTENDS Observer, ListingProofs

(* The pieces of frames, one frame after the other.                        *)
Continues(x, y) ==
    IF x.place = 3 THEN y.place = 1
    ELSE y.place = x.place + 1 /\ y.kind = x.kind /\ y.number = x.number
Joint(s) == \A i \in 1..(Len(s) - 1) : Continues(s[i], s[i + 1])

(* The end of a frame, or all of it, or nothing.                           *)
RestOfFrame(s) ==
    /\ Len(s) =< 3 /\ Joint(s)
    /\ \A i \in 1..Len(s) : s[i].place = i + (3 - Len(s))

(* What a concatenation is made of.                                        *)
LEMMA Concatenated ==
    ASSUME NEW S, NEW a \in Seq(S), NEW b \in Seq(S)
    PROVE  /\ a \o b \in Seq(S) /\ Len(a \o b) = Len(a) + Len(b)
           /\ Len(a) \in Nat /\ Len(b) \in Nat
           /\ \A i \in 1..Len(a) : (a \o b)[i] = a[i]
           /\ \A i \in (Len(a) + 1)..(Len(a) + Len(b)) : (a \o b)[i] = b[i - Len(a)]
<1> DEFINE c == a \o b
<1>1. /\ c \in Seq(S) /\ Len(c) = Len(a) + Len(b)
      /\ \A i \in 1..(Len(a) + Len(b)) : c[i] = IF i =< Len(a) THEN a[i] ELSE b[i - Len(a)]
  BY ConcatProperties
<1>2. Len(a) \in Nat /\ Len(b) \in Nat
  OBVIOUS
<1> HIDE DEF c
<1>3. \A i \in 1..Len(a) : i \in 1..(Len(a) + Len(b)) /\ i =< Len(a)
  BY <1>2
<1>4. \A i \in (Len(a) + 1)..(Len(a) + Len(b)) :
        i \in 1..(Len(a) + Len(b)) /\ ~(i =< Len(a))
  BY <1>2
<1>5. \A i \in 1..Len(a) : c[i] = a[i]
  BY <1>1, <1>3
<1>6. \A i \in (Len(a) + 1)..(Len(a) + Len(b)) : c[i] = b[i - Len(a)]
  BY <1>1, <1>4
<1> QED
  BY <1>1, <1>2, <1>5, <1>6 DEF c

(* Pieces that fit are jointed as their parts are.                         *)
LEMMA JointParts ==
    ASSUME NEW a \in Seq(Pieces), NEW b \in Seq(Pieces)
    PROVE  /\ Joint(a \o b) => Joint(a) /\ Joint(b)
           /\ Joint(a) /\ Joint(b) /\ (a # <<>> /\ b # <<>> => Continues(a[Len(a)], b[1]))
                => Joint(a \o b)
<1> DEFINE c == a \o b
           m == Len(a)
           n == Len(b)
<1>1. /\ c \in Seq(Pieces) /\ Len(c) = m + n /\ m \in Nat /\ n \in Nat
      /\ \A i \in 1..m : c[i] = a[i]
      /\ \A i \in (m + 1)..(m + n) : c[i] = b[i - m]
  BY Concatenated
<1>2. (a = <<>> <=> m = 0) /\ (b = <<>> <=> n = 0)
  BY EmptySeq
<1> HIDE DEF c, m, n
<1>3. \A i \in 1..n : c[m + i] = b[i]
  <2>1. \A i \in 1..n : m + i \in (m + 1)..(m + n) /\ (m + i) - m = i
    BY <1>1
  <2> QED
    BY <1>1, <2>1
<1>4. ASSUME Joint(c) PROVE Joint(a) /\ Joint(b)
  <2>1. \A i \in 1..(m - 1) : Continues(a[i], a[i + 1])
    <3>1. ASSUME NEW i \in 1..(m - 1) PROVE Continues(a[i], a[i + 1])
      <4>1. i \in 1..(Len(c) - 1) /\ i \in 1..m /\ i + 1 \in 1..m
        BY <1>1
      <4> QED
        BY <1>1, <1>4, <4>1 DEF Joint
    <3> QED
      BY <3>1
  <2>2. \A i \in 1..(n - 1) : Continues(b[i], b[i + 1])
    <3>1. ASSUME NEW i \in 1..(n - 1) PROVE Continues(b[i], b[i + 1])
      <4>1. m + i \in 1..(Len(c) - 1) /\ i \in 1..n /\ i + 1 \in 1..n /\ (m + i) + 1 = m + (i + 1)
        BY <1>1
      <4>2. c[m + i] = b[i] /\ c[(m + i) + 1] = b[i + 1]
        BY <1>3, <4>1
      <4> QED
        BY <1>4, <4>1, <4>2 DEF Joint
    <3> QED
      BY <3>1
  <2> QED
    BY <2>1, <2>2 DEF Joint, m, n
<1>5. ASSUME Joint(a), Joint(b), a # <<>> /\ b # <<>> => Continues(a[m], b[1])
      PROVE  Joint(c)
  <2>1. ASSUME NEW i \in 1..(Len(c) - 1) PROVE Continues(c[i], c[i + 1])
    <3>1. CASE i < m
      <4>1. i \in 1..(m - 1) /\ i \in 1..m /\ i + 1 \in 1..m
        BY <1>1, <3>1
      <4> QED
        BY <1>1, <1>5, <4>1 DEF Joint, m
    <3>2. CASE i = m
      <4>1. a # <<>> /\ b # <<>> /\ m \in 1..m /\ 1 \in 1..n
        BY <1>1, <1>2, <3>2
      <4>2. c[i] = a[m] /\ c[i + 1] = b[1]
        BY <1>1, <1>3, <3>2, <4>1
      <4> QED
        BY <1>5, <4>1, <4>2
    <3>3. CASE i > m
      <4>1. PICK j \in 1..(n - 1) : i = m + j
        <5>1. i - m \in 1..(n - 1) /\ i = m + (i - m)
          BY <1>1, <3>3
        <5> QED
          BY <5>1
      <4>2. j \in 1..n /\ j + 1 \in 1..n /\ i + 1 = m + (j + 1)
        BY <1>1, <4>1
      <4>3. c[i] = b[j] /\ c[i + 1] = b[j + 1]
        BY <1>3, <4>1, <4>2
      <4> QED
        BY <1>5, <4>1, <4>3 DEF Joint, n
    <3> QED
      BY <1>1, <3>1, <3>2, <3>3
  <2> QED
    BY <2>1 DEF Joint
<1> QED
  BY <1>4, <1>5 DEF c, m

-----------------------------------------------------------------------------
(* What is read and not dropped, with what is on the wire behind it, as    *)
(* constants: w are the pieces, snd what each thread has still to send.    *)

Unfinished(snd, t) == Len(snd[t]) \in 1..2

Flow(w, snd) ==
    /\ w \in Seq(Pieces) /\ snd \in [Threads -> Seq(Pieces)]
    /\ \A t \in Threads : RestOfFrame(snd[t])
    /\ Joint(w)
    /\ \A t, u \in Threads : Unfinished(snd, t) /\ Unfinished(snd, u) => t = u
    /\ \A t \in Threads : w # <<>> /\ Unfinished(snd, t) => Continues(w[Len(w)], snd[t][1])
    /\ w # <<>> /\ (\A t \in Threads : ~Unfinished(snd, t)) => w[Len(w)].place = 3

Aligned(w, snd) ==
    /\ w = <<>> => \A t \in Threads : ~Unfinished(snd, t)
    /\ w # <<>> => w[1].place = 1

(* What is behind the first pieces is pieces of frames too.                *)
LEMMA FlowBehind ==
    ASSUME NEW a \in Seq(Pieces), NEW v \in Seq(Pieces), NEW snd, Flow(a \o v, snd)
    PROVE  Flow(v, snd)
<1> DEFINE w == a \o v
<1>1. Joint(v)
  BY JointParts DEF Flow
<1>2. v # <<>> => w # <<>> /\ w[Len(w)] = v[Len(v)]
  <2>1. /\ Len(w) = Len(a) + Len(v) /\ Len(a) \in Nat /\ Len(v) \in Nat
        /\ \A i \in (Len(a) + 1)..(Len(a) + Len(v)) : w[i] = v[i - Len(a)]
        /\ w \in Seq(Pieces)
    BY Concatenated
  <2>2. (v = <<>> <=> Len(v) = 0) /\ (w = <<>> <=> Len(w) = 0)
    BY <2>1, EmptySeq
  <2> HIDE DEF w
  <2>3. ASSUME v # <<>> PROVE w # <<>> /\ w[Len(w)] = v[Len(v)]
    <3>1. Len(w) \in (Len(a) + 1)..(Len(a) + Len(v)) /\ Len(w) - Len(a) = Len(v)
      BY <2>1, <2>2, <2>3
    <3> QED
      BY <2>1, <2>2, <2>3, <3>1
  <2> QED
    BY <2>3
<1> QED
  BY <1>1, <1>2 DEF Flow

(* A whole frame at the beginning is one frame, and what is behind it      *)
(* begins with a frame.                                                    *)
LEMMA FlowFrame ==
    ASSUME NEW a \in Seq(Pieces), NEW v \in Seq(Pieces), NEW snd, Flow(a \o v, snd),
           Len(a) = 3, a[1].place = 1
    PROVE  /\ Aligned(v, snd)
           /\ a[2].place = 2 /\ a[2].kind = a[1].kind /\ a[2].number = a[1].number
           /\ a[3].place = 3 /\ a[3].kind = a[1].kind /\ a[3].number = a[1].number
<1> DEFINE w == a \o v
<1>1. /\ w \in Seq(Pieces) /\ Len(w) = 3 + Len(v) /\ Len(v) \in Nat
      /\ \A i \in 1..3 : w[i] = a[i]
      /\ \A i \in 4..(3 + Len(v)) : w[i] = v[i - 3]
  <2>1. /\ w \in Seq(Pieces) /\ Len(w) = Len(a) + Len(v) /\ Len(v) \in Nat
        /\ \A i \in 1..Len(a) : w[i] = a[i]
        /\ \A i \in (Len(a) + 1)..(Len(a) + Len(v)) : w[i] = v[i - Len(a)]
    BY Concatenated, ZenonT(30)
  <2> HIDE DEF w
  <2>2. Len(a) + 1 = 4
    OBVIOUS
  <2> QED
    BY <2>1, <2>2
<1>2. (v = <<>> <=> Len(v) = 0) /\ (w = <<>> <=> Len(w) = 0)
  BY <1>1, EmptySeq
<1>3. Joint(a) /\ Joint(w)
  BY JointParts DEF Flow
<1> HIDE DEF w
<1>4. Continues(a[1], a[2]) /\ Continues(a[2], a[3])
  BY <1>3 DEF Joint
<1>5. /\ a[2].place = 2 /\ a[2].kind = a[1].kind /\ a[2].number = a[1].number
      /\ a[3].place = 3 /\ a[3].kind = a[1].kind /\ a[3].number = a[1].number
  BY <1>4 DEF Continues
<1>6. ASSUME v = <<>>, NEW t \in Threads, Unfinished(snd, t) PROVE FALSE
  <2>1. w # <<>> /\ w[Len(w)] = a[3]
    BY <1>1, <1>2, <1>6
  <2>2. Continues(a[3], snd[t][1])
    BY <1>6, <2>1 DEF Flow, w
  <2>3. snd[t][1].place # 1
    <3>1. RestOfFrame(snd[t]) /\ Len(snd[t]) \in 1..2
      BY <1>6 DEF Flow, Unfinished
    <3>2. \A l \in 1..2 : 1 \in 1..l /\ 1 + (3 - l) # 1
      OBVIOUS
    <3>3. snd[t][1].place = 1 + (3 - Len(snd[t]))
      BY <3>1, <3>2 DEF RestOfFrame
    <3> QED
      BY <3>1, <3>2, <3>3
  <2> QED
    BY <1>5, <2>2, <2>3 DEF Continues
<1>7. ASSUME v # <<>> PROVE v[1].place = 1
  <2>1. 3 \in 1..(Len(w) - 1) /\ w[3] = a[3] /\ w[3 + 1] = v[1]
    BY <1>1, <1>2, <1>7
  <2>2. Continues(a[3], v[1])
    BY <1>3, <2>1 DEF Joint
  <2> QED
    BY <1>5, <2>2 DEF Continues
<1> QED
  BY <1>5, <1>6, <1>7 DEF Aligned

(* A thread that has sent its frame takes the next.                        *)
LEMMA FlowTaken ==
    ASSUME NEW w, NEW snd, Flow(w, snd), NEW t \in Threads, snd[t] = <<>>,
           NEW f \in Seq(Pieces), RestOfFrame(f), Len(f) = 3
    PROVE  /\ Flow(w, [snd EXCEPT ![t] = f])
           /\ Aligned(w, snd) => Aligned(w, [snd EXCEPT ![t] = f])
<1> DEFINE s == [snd EXCEPT ![t] = f]
<1>1. /\ snd \in [Threads -> Seq(Pieces)] /\ s \in [Threads -> Seq(Pieces)]
      /\ s[t] = f /\ \A u \in Threads \ {t} : s[u] = snd[u]
  BY DEF Flow
<1> HIDE DEF s
<1>2. \A u \in Threads : /\ Unfinished(s, u) <=> Unfinished(snd, u)
                         /\ Unfinished(s, u) => s[u] = snd[u]
  <2>1. ~Unfinished(snd, t)
    <3>1. Len(snd[t]) = 0
      OBVIOUS
    <3> QED
      BY <3>1 DEF Unfinished
  <2>2. ~Unfinished(s, t)
    <3>1. Len(s[t]) = 3
      BY <1>1
    <3> QED
      BY <3>1 DEF Unfinished
  <2>3. \A u \in Threads \ {t} : s[u] = snd[u]
    BY <1>1
  <2>4. ASSUME NEW u \in Threads \ {t} PROVE Unfinished(s, u) <=> Unfinished(snd, u)
    BY <2>3 DEF Unfinished
  <2> QED
    BY <2>1, <2>2, <2>3, <2>4
<1>3. \A u \in Threads : RestOfFrame(s[u])
  BY <1>1 DEF Flow
<1>4. Flow(w, s)
  BY <1>1, <1>2, <1>3 DEF Flow
<1>5. Aligned(w, snd) => Aligned(w, s)
  BY <1>2 DEF Aligned
<1> QED
  BY <1>4, <1>5 DEF s

(* A thread sends, and no other is in the middle of a frame.               *)
LEMMA FlowSent ==
    ASSUME NEW w, NEW snd, Flow(w, snd), NEW t \in Threads,
           \A u \in Threads \ {t} : ~Unfinished(snd, u),
           NEW n \in 1..Len(snd[t])
    PROVE  LET v == w \o SubSeq(snd[t], 1, n)
               s == [snd EXCEPT ![t] = SubSeq(snd[t], n + 1, Len(snd[t]))]
           IN Flow(v, s) /\ (Aligned(w, snd) => Aligned(v, s))
<1> DEFINE f == snd[t]
           L == Len(f)
           p == SubSeq(f, 1, n)
           q == SubSeq(f, n + 1, Len(f))
           v == w \o p
           s == [snd EXCEPT ![t] = q]
<1>1. /\ w \in Seq(Pieces) /\ snd \in [Threads -> Seq(Pieces)] /\ f \in Seq(Pieces)
      /\ RestOfFrame(f) /\ Joint(w) /\ L \in 1..3 /\ n \in 1..L
      /\ \A i \in 1..L : f[i] \in Pieces
  <2>1. /\ w \in Seq(Pieces) /\ snd \in [Threads -> Seq(Pieces)]
        /\ RestOfFrame(f) /\ Joint(w)
    BY DEF Flow
  <2>2. f \in Seq(Pieces)
    BY <2>1
  <2>3. L =< 3
    BY <2>1 DEF RestOfFrame
  <2> HIDE DEF f
  <2>4. L \in Nat /\ \A i \in 1..L : f[i] \in Pieces
    BY <2>2
  <2>5. n \in 1..L
    BY DEF f
  <2> HIDE DEF L
  <2>6. L \in 1..3
    BY <2>3, <2>4, <2>5
  <2> QED
    BY <2>1, <2>2, <2>4, <2>5, <2>6
<1>2. /\ p \in Seq(Pieces) /\ Len(p) = n /\ \A i \in 1..n : p[i] = f[i]
      /\ q \in Seq(Pieces) /\ Len(q) = L - n /\ \A i \in 1..(L - n) : q[i] = f[n + i]
  <2>1. \A i \in 1..n : f[i] \in Pieces
    BY <1>1
  <2>2. \A i \in (n + 1)..L : f[i] \in Pieces
    BY <1>1
  <2>3. p \in Seq(Pieces) /\ Len(p) = n /\ \A i \in 1..n : p[i] = f[i]
    BY <1>1, <2>1, SubSeqProperties
  <2>4. q \in Seq(Pieces) /\ Len(q) = L - n /\ \A i \in 1..(L - n) : q[i] = f[n + i]
    <3>1. /\ q \in Seq(Pieces)
          /\ Len(q) = IF n + 1 =< L THEN L - (n + 1) + 1 ELSE 0
          /\ \A i \in 1..(L - (n + 1) + 1) : q[i] = f[(n + 1) + i - 1]
      BY <1>1, <2>2, SubSeqProperties
    <3> HIDE DEF q, f, L
    <3>2. Len(q) = L - n /\ L - (n + 1) + 1 = L - n
      BY <1>1, <3>1
    <3>3. \A i \in 1..(L - n) : (n + 1) + i - 1 = n + i
      BY <1>1
    <3> QED
      BY <3>1, <3>2, <3>3
  <2> QED
    BY <2>3, <2>4
<1>3. /\ s \in [Threads -> Seq(Pieces)] /\ s[t] = q
      /\ \A u \in Threads \ {t} : s[u] = snd[u]
  BY <1>1, <1>2
<1> HIDE DEF p, q, s
<1>4. /\ v \in Seq(Pieces) /\ Len(v) = Len(w) + n /\ Len(w) \in Nat
      /\ \A i \in 1..Len(w) : v[i] = w[i]
      /\ \A i \in (Len(w) + 1)..(Len(w) + n) : v[i] = p[i - Len(w)]
  <2>1. w \in Seq(Pieces) /\ p \in Seq(Pieces) /\ Len(p) = n
    BY <1>1, <1>2
  <2>2. /\ v \in Seq(Pieces) /\ Len(v) = Len(w) + Len(p) /\ Len(w) \in Nat
        /\ \A i \in 1..Len(w) : v[i] = w[i]
        /\ \A i \in (Len(w) + 1)..(Len(w) + Len(p)) : v[i] = p[i - Len(w)]
    BY <2>1, Concatenated
  <2> QED
    BY <2>1, <2>2
<1>5. (w = <<>> <=> Len(w) = 0) /\ v # <<>> /\ p # <<>>
  BY <1>1, <1>2, <1>4, EmptySeq
<1>6. v[Len(v)] = f[n] /\ v[Len(w) + 1] = f[1]
  <2>1. /\ Len(v) \in (Len(w) + 1)..(Len(w) + n) /\ Len(v) - Len(w) = n /\ n \in 1..n
        /\ Len(w) + 1 \in (Len(w) + 1)..(Len(w) + n) /\ (Len(w) + 1) - Len(w) = 1 /\ 1 \in 1..n
    BY <1>1, <1>4
  <2> QED
    BY <1>2, <1>4, <2>1
<1>7. \A i \in 1..L : f[i].place = i + (3 - L)
  BY <1>1 DEF RestOfFrame
<1>8. \A i \in 1..(L - 1) : Continues(f[i], f[i + 1])
  BY <1>1 DEF RestOfFrame, Joint
<1> HIDE DEF f, L, v
<1>9. Joint(p)
  <2>1. \A i \in 1..(n - 1) : i \in 1..(L - 1) /\ i \in 1..n /\ i + 1 \in 1..n
    BY <1>1
  <2> QED
    BY <1>2, <1>8, <2>1 DEF Joint
<1>10. RestOfFrame(q)
  <2>1. ASSUME NEW i \in 1..(Len(q) - 1) PROVE Continues(q[i], q[i + 1])
    <3>1. /\ n + i \in 1..(L - 1) /\ i \in 1..(L - n) /\ i + 1 \in 1..(L - n)
          /\ (n + i) + 1 = n + (i + 1)
      BY <1>1, <1>2
    <3> QED
      BY <1>2, <1>8, <3>1
  <2>2. ASSUME NEW i \in 1..Len(q) PROVE q[i].place = i + (3 - Len(q))
    <3>1. n + i \in 1..L /\ i \in 1..(L - n) /\ (n + i) + (3 - L) = i + (3 - Len(q))
      BY <1>1, <1>2
    <3> QED
      BY <1>2, <1>7, <3>1
  <2>3. Len(q) =< 3
    BY <1>1, <1>2
  <2> QED
    BY <2>1, <2>2, <2>3 DEF RestOfFrame, Joint
<1>11. w # <<>> => Continues(w[Len(w)], f[1])
  <2>1. CASE Unfinished(snd, t)
    BY <2>1 DEF Flow, f
  <2>2. CASE ~Unfinished(snd, t)
    <3>1. L = 3
      BY <1>1, <2>2 DEF Unfinished, f, L
    <3>2. f[1].place = 1
      BY <1>7, <3>1
    <3>3. w # <<>> => w[Len(w)].place = 3
      BY <2>2 DEF Flow
    <3> QED
      BY <3>2, <3>3 DEF Continues
  <2> QED
    BY <2>1, <2>2
<1>12. Joint(v)
  <2>1. p[1] = f[1]
    BY <1>1, <1>2
  <2> QED
    BY <1>1, <1>2, <1>9, <1>11, <2>1, JointParts DEF v
<1>13. \A u \in Threads : Unfinished(s, u) => u = t /\ n # L
  <2>1. ASSUME NEW u \in Threads, u # t PROVE ~Unfinished(s, u)
    BY <1>3, <2>1 DEF Unfinished
  <2>2. n = L => ~Unfinished(s, t)
    <3>1. n = L => Len(s[t]) = 0
      BY <1>1, <1>2, <1>3
    <3> QED
      BY <3>1 DEF Unfinished
  <2> QED
    BY <2>1, <2>2
<1>14. n # L => Continues(v[Len(v)], q[1])
  <2> SUFFICES ASSUME n # L PROVE Continues(v[Len(v)], q[1])
    OBVIOUS
  <2>1. n \in 1..(L - 1) /\ 1 \in 1..(L - n)
    BY <1>1
  <2> QED
    BY <1>2, <1>6, <1>8, <2>1
<1>15. n = L => v[Len(v)].place = 3
  BY <1>1, <1>6, <1>7, SMTT(30)
<1>16. n # L => Unfinished(s, t)
  <2>1. n # L => L - n \in 1..2
    BY <1>1
  <2>2. Len(s[t]) = L - n
    BY <1>2, <1>3
  <2> QED
    BY <2>1, <2>2 DEF Unfinished
<1>17. Flow(v, s)
  <2>1. \A u \in Threads : RestOfFrame(s[u])
    BY <1>3, <1>10 DEF Flow
  <2> QED
    BY <1>3, <1>4, <1>12, <1>13, <1>14, <1>15, <1>16, <2>1 DEF Flow
<1>18. ASSUME Aligned(w, snd) PROVE Aligned(v, s)
  <2>1. CASE w = <<>>
    <3>1. ~Unfinished(snd, t)
      BY <1>18, <2>1 DEF Aligned
    <3>2. L = 3
      BY <1>1, <3>1 DEF Unfinished, f, L
    <3>3. f[1].place = 1
      BY <1>7, <3>2
    <3>4. v[1] = f[1]
      BY <1>5, <1>6, <2>1
    <3> QED
      BY <1>5, <3>3, <3>4 DEF Aligned
  <2>2. CASE w # <<>>
    <3>1. v[1] = w[1]
      BY <1>4, <1>5, <2>2
    <3> QED
      BY <1>5, <1>18, <2>2, <3>1 DEF Aligned
  <2> QED
    BY <2>1, <2>2
<1> QED
  BY <1>17, <1>18 DEF f, p, q, s, v

-----------------------------------------------------------------------------
(* The text of what is read.                                               *)

(* Three texts, one after the other.                                       *)
LEMMA FlattenedThree ==
    ASSUME NEW s, Len(s) = 3
    PROVE  FlattenSeq(s) = (s[1] \o s[2]) \o s[3]
<1> DEFINE Is(h) == h = [i \in 1..Len(s) |-> IF i = 1 THEN s[i] ELSE h[i - 1] \o s[i]]
           g == CHOOSE h : Is(h)
           k == [i \in 1..3 |-> IF i = 1 THEN s[1]
                                ELSE IF i = 2 THEN s[1] \o s[2] ELSE (s[1] \o s[2]) \o s[3]]
<1>1. Is(k)
  <2>1. k[1] = s[1] /\ k[2] = s[1] \o s[2] /\ k[3] = (s[1] \o s[2]) \o s[3]
    OBVIOUS
  <2>2. k = [i \in 1..3 |-> k[i]]
    OBVIOUS
  <2> HIDE DEF k
  <2>3. \A i \in 1..3 : k[i] = IF i = 1 THEN s[i] ELSE k[i - 1] \o s[i]
    <3>1. \A i \in 1..3 : i = 1 \/ i = 2 \/ i = 3
      OBVIOUS
    <3>2. 2 - 1 = 1 /\ 3 - 1 = 2
      OBVIOUS
    <3> QED
      BY <2>1, <3>1, <3>2
  <2> QED
    BY <2>2, <2>3
<1>2. Is(g)
  <2> HIDE DEF Is, k
  <2> QED
    BY <1>1
<1>3. g[3] = (s[1] \o s[2]) \o s[3]
  <2> HIDE DEF g
  <2>1. \A i \in 1..3 : g[i] = IF i = 1 THEN s[i] ELSE g[i - 1] \o s[i]
    BY <1>2
  <2>2. 1 \in 1..3 /\ 2 \in 1..3 /\ 3 \in 1..3 /\ 2 - 1 = 1 /\ 3 - 1 = 2
    OBVIOUS
  <2>3. g[1] = s[1] /\ g[2] = g[1] \o s[2] /\ g[3] = g[2] \o s[3]
    BY <2>1, <2>2
  <2> QED
    BY <2>3
<1>4. FlattenSeq(s) = g[Len(s)]
  BY DEF FlattenSeq
<1> QED
  BY <1>3, <1>4

(* Rows of one, two and three.                                             *)
LEMMA Rows ==
    ASSUME NEW S, NEW x \in S, NEW y \in S, NEW z \in S
    PROVE  /\ (<<x>> \o <<y>>) \o <<z>> = <<x, y, z>>
           /\ (<<>> \o <<x, y>>) \o <<z>> = <<x, y, z>>
           /\ (<<>> \o <<>>) \o <<x>> = <<x>>
<1>0. <<>> \in Seq(S) /\ <<x>> \in Seq(S) /\ <<x, y>> \in Seq(S)
  BY EmptySeq
<1>1. <<x>> \o <<y>> = <<x, y>>
  <2> DEFINE c == <<x>> \o <<y>>
             d == <<x, y>>
  <2>1. c \in Seq(S) /\ Len(c) = 2 /\ c[1] = x /\ c[2] = y
    <3>1. <<x>> \in Seq(S) /\ <<y>> \in Seq(S)
      OBVIOUS
    <3> QED
      BY <3>1, Concatenated
  <2>2. d \in Seq(S) /\ Len(d) = 2 /\ d[1] = x /\ d[2] = y
    OBVIOUS
  <2> HIDE DEF c, d
  <2>3. \A i \in 1..Len(c) : c[i] = d[i]
    BY <2>1, <2>2
  <2> QED
    BY <2>1, <2>2, <2>3, SeqEqual DEF c, d
<1>2. <<x, y>> \o <<z>> = <<x, y, z>>
  <2> DEFINE c == <<x, y>> \o <<z>>
             d == <<x, y, z>>
  <2>1. c \in Seq(S) /\ Len(c) = 3 /\ c[1] = x /\ c[2] = y /\ c[3] = z
    <3>1. <<x, y>> \in Seq(S) /\ <<z>> \in Seq(S)
      OBVIOUS
    <3> QED
      BY <3>1, Concatenated
  <2>2. d \in Seq(S) /\ Len(d) = 3 /\ d[1] = x /\ d[2] = y /\ d[3] = z
    OBVIOUS
  <2> HIDE DEF c, d
  <2>3. \A i \in 1..Len(c) : c[i] = d[i]
    BY <2>1, <2>2
  <2> QED
    BY <2>1, <2>2, <2>3, SeqEqual DEF c, d
<1>3. \A s \in Seq(S) : <<>> \o s = s
  BY ConcatEmptySeq
<1>4. <<>> \o <<x, y>> = <<x, y>> /\ <<>> \o <<>> = <<>> /\ <<>> \o <<x>> = <<x>>
  BY <1>0, <1>3
<1> QED
  BY <1>1, <1>2, <1>4

(* One line after the other.                                               *)
LEMMA LineByLine ==
    /\ Junk \in Lines /\ Line("chat", <<>>) \in Lines
    /\ Line("users", <<>>) \in Lines /\ Line("rooms", <<>>) \in Lines
    /\ \A n \in Items : Entry(n) \in Lines
    /\ \A p \in Pieces : LinesIn(p) \in Seq(Lines)
<1>1. /\ Junk \in Lines /\ Line("chat", <<>>) \in Lines
      /\ Line("users", <<>>) \in Lines /\ Line("rooms", <<>>) \in Lines
  BY DEF Junk, Line, Lines, Shapes
<1>2. \A n \in Items : Entry(n) \in Lines
  BY DEF Entry, Lines
<1>3. ASSUME NEW p \in Pieces PROVE LinesIn(p) \in Seq(Lines)
  <2>1. p.kind \in {"users", "rooms", "line"} /\ p.number \in Items /\ p.place \in 1..3
    BY DEF Pieces
  <2>2. <<>> \in Seq(Lines)
    BY EmptySeq
  <2>3. p.kind \in {"users", "rooms"} => Line(p.kind, <<>>) \in Lines
    BY <1>1
  <2>4. Entry(p.number) \in Lines /\ Line("chat", <<>>) \in Lines
    BY <1>1, <1>2, <2>1
  <2>5. /\ <<Line("chat", <<>>)>> \in Seq(Lines) /\ <<Entry(p.number)>> \in Seq(Lines)
        /\ p.kind # "line" => <<Line(p.kind, <<>>), Entry(p.number)>> \in Seq(Lines)
    <3> DEFINE x == Line(p.kind, <<>>)
               y == Entry(p.number)
               z == Line("chat", <<>>)
    <3>1. (p.kind # "line" => x \in Lines) /\ y \in Lines /\ z \in Lines
      BY <2>1, <2>3, <2>4
    <3> HIDE DEF x, y, z
    <3>2. <<z>> \in Seq(Lines) /\ <<y>> \in Seq(Lines) /\ (p.kind # "line" => <<x, y>> \in Seq(Lines))
      BY <3>1
    <3> QED
      BY <3>2 DEF x, y, z
  <2>6. CASE p.place = 1
    BY <2>2, <2>6 DEF LinesIn
  <2>7. CASE p.place = 2
    <3>1. LinesIn(p) = IF p.kind = "line" THEN <<>>
                       ELSE <<Line(p.kind, <<>>), Entry(p.number)>>
      BY <2>7 DEF LinesIn
    <3> QED
      BY <2>2, <2>5, <3>1
  <2>8. CASE p.place = 3
    <3>1. LinesIn(p) = <<IF p.kind = "line" THEN Line("chat", <<>>) ELSE Entry(p.number)>>
      BY <2>8 DEF LinesIn
    <3> QED
      BY <2>5, <3>1
  <2> QED
    BY <2>1, <2>6, <2>7, <2>8
<1> QED
  BY <1>1, <1>2, <1>3

(* What is not in step is three lines that say nothing.                    *)
LEMMA TextOfThree ==
    ASSUME NEW a \in Seq(Pieces), Len(a) = 3
    PROVE  /\ TextOf(a) \in Seq(Lines)
           /\ ~InStep(a) => TextOf(a) = <<Junk, Junk, Junk>>
           /\ a[1].place = 1 /\ a[2].place = 2 /\ a[3].place = 3 =>
                TextOf(a) = (LinesIn(a[1]) \o LinesIn(a[2])) \o LinesIn(a[3])
<1>3. DOMAIN a = 1..3
  OBVIOUS
<1>1. \A i \in 1..3 : a[i] \in Pieces
  <2>1. \A i \in 1..Len(a) : a[i] \in Pieces
    BY ElementOfSeq
  <2> QED
    BY <2>1
<1> DEFINE L(i) == IF InStep(a) /\ a[i].place = i THEN LinesIn(a[i]) ELSE <<Junk>>
           s == [i \in DOMAIN a |-> L(i)]
<1>2. \A i \in 1..3 : L(i) \in Seq(Lines)
  <2>1. <<Junk>> \in Seq(Lines)
    BY LineByLine
  <2> QED
    BY <1>1, <2>1, LineByLine
<1> HIDE DEF L
<1>4. Len(s) = 3 /\ s[1] = L(1) /\ s[2] = L(2) /\ s[3] = L(3)
  BY <1>3
<1>5. TextOf(a) = FlattenSeq(s)
  BY DEF TextOf, L
<1> HIDE DEF s
<1>6. TextOf(a) = (L(1) \o L(2)) \o L(3)
  BY <1>4, <1>5, FlattenedThree
<1>7. TextOf(a) \in Seq(Lines)
  BY <1>2, <1>6
<1>8. ASSUME ~InStep(a) PROVE TextOf(a) = <<Junk, Junk, Junk>>
  <2>1. L(1) = <<Junk>> /\ L(2) = <<Junk>> /\ L(3) = <<Junk>>
    BY <1>8 DEF L
  <2>2. (<<Junk>> \o <<Junk>>) \o <<Junk>> = <<Junk, Junk, Junk>>
    BY LineByLine, Rows
  <2> QED
    BY <1>6, <2>1, <2>2
<1>9. ASSUME a[1].place = 1, a[2].place = 2, a[3].place = 3
      PROVE  TextOf(a) = (LinesIn(a[1]) \o LinesIn(a[2])) \o LinesIn(a[3])
  BY <1>6, <1>9 DEF L, InStep
<1> QED
  BY <1>7, <1>8, <1>9

(* A frame that is read where it begins is a list of two entries or a line.*)
LEMMA TextOfFrame ==
    ASSUME NEW a \in Seq(Pieces), Len(a) = 3,
           a[1].place = 1, a[2].place = 2, a[3].place = 3,
           a[2].kind = a[1].kind, a[3].kind = a[1].kind,
           a[2].number = a[1].number, a[3].number = a[1].number
    PROVE  /\ a[1].kind \in {"users", "rooms", "line"} /\ a[1].number \in Items
           /\ a[1].kind = "line" => TextOf(a) = <<Line("chat", <<>>)>>
           /\ a[1].kind # "line" =>
                TextOf(a) = <<Line(a[1].kind, <<>>), Entry(a[1].number), Entry(a[1].number)>>
<1>1. a[1].kind \in {"users", "rooms", "line"} /\ a[1].number \in Items
  <2>1. \A i \in 1..Len(a) : a[i] \in Pieces
    BY ElementOfSeq
  <2>2. a[1] \in Pieces
    BY <2>1
  <2> QED
    BY <2>2 DEF Pieces
<1>2. TextOf(a) = (LinesIn(a[1]) \o LinesIn(a[2])) \o LinesIn(a[3])
  BY TextOfThree
<1>3. LinesIn(a[1]) = <<>>
  BY DEF LinesIn
<1>4. ASSUME a[1].kind = "line" PROVE TextOf(a) = <<Line("chat", <<>>)>>
  <2>1. LinesIn(a[2]) = <<>>
    BY <1>4 DEF LinesIn
  <2>2. LinesIn(a[3]) = <<Line("chat", <<>>)>>
    <3>1. a[3].place = 3 /\ a[3].place # 1 /\ a[3].place # 2 /\ a[3].kind = "line"
      BY <1>4
    <3> QED
      BY <3>1 DEF LinesIn
  <2>3. (<<>> \o <<>>) \o <<Line("chat", <<>>)>> = <<Line("chat", <<>>)>>
    BY LineByLine, Rows
  <2> QED
    BY <1>2, <1>3, <2>1, <2>2, <2>3
<1>5. ASSUME a[1].kind # "line"
      PROVE  TextOf(a) = <<Line(a[1].kind, <<>>), Entry(a[1].number), Entry(a[1].number)>>
  <2>1. /\ LinesIn(a[2]) = <<Line(a[1].kind, <<>>), Entry(a[1].number)>>
        /\ LinesIn(a[3]) = <<Entry(a[1].number)>>
    BY <1>5 DEF LinesIn
  <2>2. Line(a[1].kind, <<>>) \in Lines /\ Entry(a[1].number) \in Lines
    BY <1>1, <1>5, LineByLine
  <2>3. (<<>> \o <<Line(a[1].kind, <<>>), Entry(a[1].number)>>) \o <<Entry(a[1].number)>>
            = <<Line(a[1].kind, <<>>), Entry(a[1].number), Entry(a[1].number)>>
    BY <2>2, Rows
  <2> QED
    BY <1>2, <1>3, <2>1, <2>3
<1> QED
  BY <1>1, <1>4, <1>5

-----------------------------------------------------------------------------
(* What a frame makes the panels show.                                     *)

ListMessages == {"user_list", "room_list"}

(* A frame with no header has no list.                                     *)
LEMMA NoList ==
    ASSUME NEW f, \A i \in DOMAIN f : f[i].shape \notin {"users", "rooms"},
           NEW m, m.kind \in ListMessages, Genuine(f, m)
    PROVE  FALSE
<1>1. PICK header \in {"users", "rooms"} : m.kind = ListKind[header]
  BY DEF ListKind, ListMessages
<1>2. m.items \in ListedIn(f, header)
  BY <1>1 DEF Genuine
<1>3. PICK r \in Runs(f, header) : TRUE
  BY <1>2 DEF ListedIn
<1>4. r[1] \in DOMAIN f /\ f[r[1]].shape = header
  BY <1>3 DEF Runs
<1> QED
  BY <1>4

(* A frame that is a list of two entries has that list.                    *)
LEMMA OneList ==
    ASSUME NEW h \in {"users", "rooms"}, NEW n \in Items, NEW m, m.kind \in ListMessages,
           Genuine(<<Line(h, <<>>), Entry(n), Entry(n)>>, m)
    PROVE  m.items = Whole(n)
<1> DEFINE f == <<Line(h, <<>>), Entry(n), Entry(n)>>
<1>1. /\ DOMAIN f = 1..3
      /\ f[1].shape = h
      /\ f[2].shape = "item" /\ f[2].items = <<n>>
      /\ f[3].shape = "item" /\ f[3].items = <<n>>
  BY DEF Line, Entry
<1> HIDE DEF f
<1>2. PICK header \in {"users", "rooms"} : m.kind = ListKind[header]
  BY DEF ListKind, ListMessages
<1>3. m.items \in ListedIn(f, header)
  BY <1>2 DEF Genuine, f
<1>4. PICK r \in Runs(f, header) : m.items = [j \in 1..(r[2] - r[1]) |-> f[r[1] + j].items[1]]
  BY <1>3 DEF ListedIn
<1>5. /\ r[1] \in 1..3 /\ r[2] \in 1..3 /\ f[r[1]].shape = header
      /\ r[2] + 1 \in 1..3 => f[r[2] + 1].shape # "item"
  BY <1>1, <1>4 DEF Runs
<1>6. r[1] = 1
  BY <1>1, <1>5
<1>7. r[2] = 3
  <2>1. r[2] # 1
    BY <1>1, <1>5
  <2>2. r[2] # 2
    BY <1>1, <1>5
  <2> QED
    BY <1>5, <2>1, <2>2
<1>8. \A j \in 1..2 : f[1 + j].items[1] = n
  BY <1>1
<1>9. m.items = [j \in 1..2 |-> f[1 + j].items[1]]
  <2>1. r[2] - r[1] = 2
    BY <1>6, <1>7
  <2> QED
    BY <1>4, <1>6, <2>1
<1>10. m.items = [j \in 1..2 |-> n]
  BY <1>8, <1>9
<1>11. <<n, n>> = [j \in 1..2 |-> n]
  OBVIOUS
<1> QED
  BY <1>10, <1>11 DEF Whole

(* The last list shown is one of those in the frame.                       *)
LEMMA LastIs ==
    ASSUME NEW s \in Seq(Collected), NEW kind, NEW default
    PROVE  \/ LastOf(s, kind, default) = default
           \/ \E i \in 1..Len(s) : s[i].kind = kind /\ LastOf(s, kind, default) = s[i].items
<1> DEFINE found == {i \in DOMAIN s : s[i].kind = kind}
           N == Len(s)
<1>1. N \in Nat /\ DOMAIN s = 1..N
  OBVIOUS
<1>2. ASSUME found # {} PROVE \E i \in found : \A j \in found : j =< i
  <2> HIDE DEF N
  <2> DEFINE B == {N - i : i \in found}
  <2>1. found \in SUBSET (1..N)
    BY <1>1
  <2> HIDE DEF found
  <2>2. B \in SUBSET Nat /\ B # {}
    <3>1. \A i \in found : N - i \in Nat
      BY <1>1, <2>1
    <3>2. found # {}
      BY <1>2
    <3> QED
      BY <3>1, <3>2
  <2>3. PICK b \in B : \A c \in B : b =< c
    BY <2>2, LeastNatural
  <2>4. PICK i \in found : b = N - i
    BY <2>3
  <2>5. ASSUME NEW j \in found PROVE j =< i
    <3>1. b =< N - j
      BY <2>3
    <3> QED
      BY <1>1, <2>1, <2>4, <3>1
  <2> QED
    BY <2>5
<1>3. CASE found = {}
  BY <1>3 DEF LastOf
<1>4. CASE found # {}
  <2> DEFINE last == CHOOSE i \in found : \A j \in found : j =< i
  <2>1. last \in found
    BY <1>2, <1>4
  <2>2. LastOf(s, kind, default) = s[last].items
    BY <1>4 DEF LastOf
  <2> HIDE DEF last
  <2> QED
    BY <1>1, <2>1, <2>2
<1> QED
  BY <1>3, <1>4

(* A panel that a frame changes shows a list, and all of it if what is     *)
(* read is one frame or begins in the middle of one.                       *)
LEMMA PanelShows ==
    ASSUME NEW a \in Seq(Pieces), Len(a) = 3, NEW old, NEW kind \in ListMessages
    PROVE  LET out == CollectFrame(NewCollector, TextOf(a))
               new == LastOf(out.messages, kind, old)
           IN /\ out.collector = NewCollector
              /\ new = old \/ new \in Seq(Items)
              /\ (InStep(a) => /\ a[1].place = 1 /\ a[2].place = 2 /\ a[3].place = 3
                               /\ a[2].kind = a[1].kind /\ a[3].kind = a[1].kind
                               /\ a[2].number = a[1].number /\ a[3].number = a[1].number)
                    => new = old \/ \E n \in Items : new = Whole(n)
<1> DEFINE f == TextOf(a)
           out == CollectFrame(NewCollector, f)
           new == LastOf(out.messages, kind, old)
<1>1. f \in Seq(Lines)
  BY TextOfThree
<1> HIDE DEF f
<1>2. /\ out.collector = NewCollector /\ out.messages \in Seq(Collected)
      /\ \A i \in 1..Len(out.messages) : Genuine(f, out.messages[i])
  BY <1>1, ListsAreWhole
<1> HIDE DEF out
<1>3. \/ new = old
      \/ \E i \in 1..Len(out.messages) :
            out.messages[i].kind = kind /\ new = out.messages[i].items
  BY <1>2, LastIs
<1> HIDE DEF new
<1>4. new = old \/ new \in Seq(Items)
  <2>1. \A i \in 1..Len(out.messages) : out.messages[i] \in Collected
    BY <1>2, ElementOfSeq
  <2> QED
    BY <1>3, <2>1 DEF Collected
<1>5. ASSUME new # old,
             InStep(a) => /\ a[1].place = 1 /\ a[2].place = 2 /\ a[3].place = 3
                          /\ a[2].kind = a[1].kind /\ a[3].kind = a[1].kind
                          /\ a[2].number = a[1].number /\ a[3].number = a[1].number
      PROVE  \E n \in Items : new = Whole(n)
  <2>1. PICK i \in 1..Len(out.messages) :
            out.messages[i].kind = kind /\ new = out.messages[i].items
    BY <1>3, <1>5
  <2> DEFINE m == out.messages[i]
  <2>2. m.kind \in ListMessages /\ Genuine(f, m) /\ new = m.items
    BY <1>2, <2>1
  <2> HIDE DEF m
  <2>3. ASSUME ~InStep(a) PROVE FALSE
    <3>1. f = <<Junk, Junk, Junk>>
      BY <2>3, TextOfThree DEF f
    <3>2. \A j \in DOMAIN f : f[j] = Junk
      BY <3>1
    <3>3. Junk.shape = "notice"
      BY DEF Junk, Line
    <3>4. \A j \in DOMAIN f : f[j].shape \notin {"users", "rooms"}
      BY <3>2, <3>3
    <3> QED
      BY <2>2, <3>4, NoList
  <2>4. /\ a[1].kind \in {"users", "rooms", "line"} /\ a[1].number \in Items
        /\ a[1].kind = "line" => f = <<Line("chat", <<>>)>>
        /\ a[1].kind # "line" =>
             f = <<Line(a[1].kind, <<>>), Entry(a[1].number), Entry(a[1].number)>>
    BY <1>5, <2>3, TextOfFrame DEF f
  <2>5. CASE a[1].kind = "line"
    <3>1. DOMAIN f = 1..1 /\ f[1].shape = "chat"
      BY <2>4, <2>5 DEF Line
    <3>2. \A j \in DOMAIN f : f[j].shape \notin {"users", "rooms"}
      BY <3>1
    <3> QED
      BY <2>2, <3>2, NoList
  <2>6. CASE a[1].kind # "line"
    <3>1. a[1].kind \in {"users", "rooms"}
      BY <2>4, <2>6
    <3>2. Genuine(<<Line(a[1].kind, <<>>), Entry(a[1].number), Entry(a[1].number)>>, m)
      BY <2>2, <2>4, <2>6
    <3>3. m.items = Whole(a[1].number)
      BY <2>2, <2>4, <3>1, <3>2, OneList
    <3> QED
      BY <2>2, <2>4, <3>3
  <2> QED
    BY <2>5, <2>6
<1> QED
  BY <1>2, <1>4, <1>5 DEF f, out, new

-----------------------------------------------------------------------------
(* Steps, by what they do to the pieces on their way.                      *)

(* A frame has three pieces, in their places.                              *)
LEMMA FrameIs ==
    ASSUME NEW kind \in {"users", "rooms", "line"}, NEW n \in Items
    PROVE  Frame(kind, n) \in Seq(Pieces) /\ RestOfFrame(Frame(kind, n)) /\ Len(Frame(kind, n)) = 3
<1> DEFINE f == Frame(kind, n)
<1>1. \A i \in 1..3 : /\ f[i] \in Pieces /\ f[i].place = i
                      /\ f[i].kind = kind /\ f[i].number = n
  BY DEF Frame, Pieces
<1>2. DOMAIN f = 1..3 /\ f = [i \in 1..3 |-> f[i]]
  BY DEF Frame
<1> HIDE DEF f
<1>3. f \in Seq(Pieces) /\ Len(f) = 3
  BY <1>1, <1>2
<1>4. Joint(f)
  <2>1. ASSUME NEW i \in 1..(Len(f) - 1) PROVE Continues(f[i], f[i + 1])
    <3>1. i \in 1..3 /\ i + 1 \in 1..3 /\ i # 3
      BY <1>3
    <3> QED
      BY <1>1, <3>1 DEF Continues
  <2> QED
    BY <2>1 DEF Joint
<1>5. \A i \in 1..Len(f) : f[i].place = i + (3 - Len(f))
  BY <1>1, <1>3
<1> QED
  BY <1>3, <1>4, <1>5 DEF RestOfFrame, f

(* A piece that is read stays in front of those on the wire.               *)
LEMMA NextPiece ==
    ASSUME NEW a \in Seq(Pieces), NEW b \in Seq(Pieces), b # <<>>
    PROVE  /\ Append(a, Head(b)) \in Seq(Pieces) /\ Len(Append(a, Head(b))) = Len(a) + 1
           /\ Tail(b) \in Seq(Pieces)
           /\ Append(a, Head(b)) \o Tail(b) = a \o b
<1> DEFINE x == Head(b)
           y == Tail(b)
           g == Append(a, x)
<1>1. x \in Pieces /\ y \in Seq(Pieces) /\ g \in Seq(Pieces) /\ Len(g) = Len(a) + 1
  BY HeadTailProperties, AppendProperties
<1>2. g = a \o <<x>> /\ <<x>> \in Seq(Pieces)
  <2>1. <<x>> \in Seq(Pieces)
    BY <1>1
  <2>2. a \o <<x>> \in Seq(Pieces) /\ Len(a \o <<x>>) = Len(a) + 1
    BY <2>1, Concatenated
  <2>3. \A i \in 1..Len(g) : g[i] = (a \o <<x>>)[i]
    <3>1. Len(<<x>>) = 1 /\ <<x>>[1] = x
      OBVIOUS
    <3>2. Len(a) \in Nat /\ (Len(a) + 1) - Len(a) = 1
      OBVIOUS
    <3>3. (a \o <<x>>)[Len(a) + 1] = x /\ \A i \in 1..Len(a) : (a \o <<x>>)[i] = a[i]
      BY <2>1, <3>1, <3>2, Concatenated
    <3>4. g[Len(a) + 1] = x /\ \A i \in 1..Len(a) : g[i] = a[i]
      BY <1>1, AppendProperties
    <3> QED
      BY <1>1, <3>2, <3>3, <3>4
  <2> QED
    BY <1>1, <2>1, <2>2, <2>3, SeqEqual
<1>3. b = <<x>> \o y
  <2>1. <<x>> \in Seq(Pieces) /\ Len(<<x>>) = 1 /\ <<x>>[1] = x
    BY <1>1
  <2>2. Len(y) = Len(b) - 1 /\ Len(b) \in Nat /\ x = b[1] /\ \A i \in 1..Len(y) : y[i] = b[i + 1]
    BY HeadTailProperties
  <2> DEFINE c == <<x>> \o y
  <2>3. /\ c \in Seq(Pieces) /\ Len(c) = Len(<<x>>) + Len(y)
        /\ \A i \in 1..Len(<<x>>) : c[i] = <<x>>[i]
        /\ \A i \in (Len(<<x>>) + 1)..(Len(<<x>>) + Len(y)) : c[i] = y[i - Len(<<x>>)]
    BY <1>1, <2>1, Concatenated
  <2> HIDE DEF c, x, y
  <2>4. Len(c) = Len(b) /\ c[1] = b[1]
    BY <2>1, <2>2, <2>3
  <2>5. ASSUME NEW i \in 2..Len(b) PROVE c[i] = b[i]
    <3>1. i \in (1 + 1)..(1 + Len(y)) /\ i - 1 \in 1..Len(y) /\ (i - 1) + 1 = i
      BY <2>2
    <3> QED
      BY <2>1, <2>2, <2>3, <3>1
  <2>6. \A i \in 1..Len(c) : c[i] = b[i]
    BY <2>2, <2>4, <2>5
  <2> QED
    BY <2>3, <2>4, <2>6, SeqEqual DEF c
<1> HIDE DEF x, y, g
<1>4. g \o y = a \o b
  BY <1>1, <1>2, <1>3, ConcatAssociative
<1> QED
  BY <1>1, <1>4 DEF x, y, g

(* Nothing is collected.                                                   *)
Quiet == UNCHANGED <<collector, users, rooms>>
(* Nothing moves, and the loop is not entered.                             *)
Stays ==
    /\ Quiet
    /\ UNCHANGED <<have, stream, sending, mixed, slipped>>
    /\ place' = "loop" => place = "loop"
(* The read in progress is dropped.                                        *)
Drops ==
    /\ Quiet
    /\ have' = <<>> /\ UNCHANGED <<stream, sending, mixed>>
    /\ place' = "loop" => place = "loop" /\ slipped' = (slipped \/ have # <<>>)
(* A thread with nothing left to send has a frame to send.                 *)
Takes(t) ==
    /\ Quiet
    /\ sending[t] = <<>>
    /\ \E f \in Seq(Pieces) : RestOfFrame(f) /\ Len(f) = 3 /\ sending' = [sending EXCEPT ![t] = f]
    /\ UNCHANGED <<have, stream, mixed, place, slipped>>
(* The connection is closed, or was.                                       *)
Closes == Quiet /\ Closed /\ place' = "dial" /\ place # "loop" /\ UNCHANGED have

(* Types, by what they are about.                                          *)
PlaceType ==
    /\ place \in {"dial", "hello", "loop", "wait"} /\ link \in {"none", "open", "cut"}
    /\ askRooms \in BOOLEAN /\ token \in BOOLEAN /\ up \in BOOLEAN /\ mixed \in BOOLEAN
    /\ slipped \in BOOLEAN
ReadType == have \in Seq(Pieces) /\ Len(have) < 3 /\ collector = NewCollector
PanelType == users \in Seq(Items) /\ rooms \in Seq(Items)
QueueType ==
    /\ orders \in Seq(Commands) /\ Len(orders) =< AdminCap
    /\ toBackend \in Seq(Commands) /\ Len(toBackend) =< MaxAsks
CountType == state \in Items /\ events \in 0..MaxEvents
WireType ==
    /\ sending \in [Threads -> Seq(Pieces)]
    /\ stream \in Seq(Pieces) /\ Len(stream) =< WireCap

(* Every step is of one of these kinds.                                    *)
LEMMA EveryStep ==
    CountType /\ [Next]_vars =>
        \/ Stays \/ Drops \/ StartLoop \/ Read \/ Closes
        \/ \E t \in Threads : Takes(t) \/ Send(t)
<1> SUFFICES ASSUME CountType, [Next]_vars
             PROVE  \/ Stays \/ Drops \/ StartLoop \/ Read \/ Closes
                    \/ \E t \in Threads : Takes(t) \/ Send(t)
  OBVIOUS
<1>1. CASE ConnectFails \/ Connect \/ Order \/ Change \/ CutLink \/ BackendStops \/ BackendStarts
  <2>1. Stays
    BY <1>1 DEF ConnectFails, Connect, Order, Change, CutLink, BackendStops, BackendStarts, Stays,
                Quiet, observerVars, backendVars
  <2> QED
    BY <2>1
<1>2. CASE StartLoop \/ Read
  BY <1>2
<1>3. CASE HandshakeFails \/ Wake
  <2>1. Closes
    BY <1>3 DEF HandshakeFails, Wake, Closes, Quiet
  <2> QED
    BY <2>1
<1>4. CASE Tick \/ TakeOrder \/ ReadFails
  <2>1. Drops
    BY <1>4 DEF Tick, TakeOrder, ReadFails, WriteCommand, DropRead, Break, Drops, Quiet
  <2> QED
    BY <2>1
<1>5. CASE Serve
  <2>1. Answer(Head(toBackend)) \in {Frame("users", state), Frame("rooms", state), LineFrame}
    BY DEF Answer
  <2>2. state \in Items /\ 0 \in Items
    BY ObserverAssumption DEF CountType
  <2>3. PICK f \in Seq(Pieces) : f = Answer(Head(toBackend)) /\ RestOfFrame(f) /\ Len(f) = 3
    BY <2>1, <2>2, FrameIs DEF LineFrame
  <2>4. Replier \in Threads
    BY DEF Threads
  <2>5. Takes(Replier)
    BY <1>5, <2>3 DEF Serve, Takes, Quiet, observerVars
  <2> QED
    BY <2>4, <2>5
<1>6. CASE \E t \in Casters : Broadcast(t)
  <2>1. PICK t \in Casters : Broadcast(t)
    BY <1>6
  <2>2. PICK f \in Seq(Pieces) : f = LineFrame /\ RestOfFrame(f) /\ Len(f) = 3
    BY FrameIs, ObserverAssumption DEF LineFrame
  <2>3. Takes(t) /\ t \in Threads
    BY <2>1, <2>2 DEF Broadcast, Takes, Quiet, observerVars, Threads
  <2> QED
    BY <2>3
<1>7. CASE \E t \in Threads : Send(t)
  BY <1>7
<1>8. CASE UNCHANGED vars
  <2>1. Stays
    BY <1>8 DEF Stays, Quiet, vars, observerVars, backendVars
  <2> QED
    BY <2>1
<1> QED
  BY <1>1, <1>2, <1>3, <1>4, <1>5, <1>6, <1>7, <1>8 DEF Next, ObserverStep

-----------------------------------------------------------------------------
(* Types.                                                                  *)

AllTypes == PlaceType /\ ReadType /\ PanelType /\ QueueType /\ CountType /\ WireType

(* What there is room for.                                                 *)
LEMMA PortionFits ==
    ASSUME NEW s \in Seq(Pieces), s # <<>>, NEW room \in Nat \ {0}
    PROVE  Portion(s, room) \in 1..Len(s) /\ Portion(s, room) =< room
<1>1. Len(s) \in Nat \ {0}
  BY EmptySeq
<1> QED
  BY <1>1 DEF Portion

(* The two parts of what is sent.                                          *)
LEMMA SentParts ==
    ASSUME NEW f \in Seq(Pieces), NEW n \in 1..Len(f)
    PROVE  /\ SubSeq(f, 1, n) \in Seq(Pieces) /\ Len(SubSeq(f, 1, n)) = n
           /\ SubSeq(f, n + 1, Len(f)) \in Seq(Pieces)
<1>1. \A i \in 1..Len(f) : f[i] \in Pieces
  BY ElementOfSeq
<1>2. Len(f) \in Nat
  OBVIOUS
<1>3. (\A i \in 1..n : f[i] \in Pieces) /\ (\A i \in (n + 1)..Len(f) : f[i] \in Pieces)
  BY <1>1, <1>2
<1>4. SubSeq(f, 1, n) \in Seq(Pieces) /\ Len(SubSeq(f, 1, n)) = n
  BY <1>2, <1>3, SubSeqProperties
<1>5. SubSeq(f, n + 1, Len(f)) \in Seq(Pieces)
  BY <1>2, <1>3, SubSeqProperties
<1> QED
  BY <1>4, <1>5

LEMMA PlaceTypeStep == PlaceType /\ [Next]_vars => PlaceType'
<1> SUFFICES ASSUME PlaceType, [Next]_vars PROVE PlaceType'
  OBVIOUS
<1>1. CASE ConnectFails \/ Connect \/ StartLoop
  BY <1>1 DEF PlaceType, ConnectFails, Connect, StartLoop, backendVars
<1>2. CASE HandshakeFails \/ Wake
  BY <1>2 DEF PlaceType, HandshakeFails, Wake, Closed
<1>3. CASE Tick
  BY <1>3 DEF PlaceType, Tick, WriteCommand, DropRead, Break, NextAsk
<1>4. CASE TakeOrder
  BY <1>4 DEF PlaceType, TakeOrder, WriteCommand, DropRead, Break
<1>5. CASE Read
  BY <1>5 DEF PlaceType, Read
<1>6. CASE ReadFails
  BY <1>6 DEF PlaceType, ReadFails, Break
<1>7. CASE Order
  BY <1>7 DEF PlaceType, Order, backendVars
<1>8. CASE Serve \/ \E t \in Casters : Broadcast(t)
  BY <1>8 DEF PlaceType, Serve, Broadcast, observerVars
<1>9. CASE \E t \in Threads : Send(t)
  BY <1>9 DEF PlaceType, Send, observerVars
<1>10. CASE Change \/ BackendStarts
  BY <1>10 DEF PlaceType, Change, BackendStarts, observerVars
<1>11. CASE CutLink \/ BackendStops
  BY <1>11 DEF PlaceType, CutLink, BackendStops, Lost
<1>12. CASE UNCHANGED vars
  BY <1>12 DEF PlaceType, vars, observerVars, backendVars
<1> QED
  BY <1>1, <1>2, <1>3, <1>4, <1>5, <1>6, <1>7, <1>8, <1>9, <1>10, <1>11, <1>12
     DEF Next, ObserverStep

LEMMA CountTypeStep == CountType /\ [Next]_vars => CountType'
<1> SUFFICES ASSUME CountType, [Next]_vars PROVE CountType'
  OBVIOUS
<1>e. Event => events' \in 0..MaxEvents
  BY ObserverAssumption DEF CountType, Event
<1>1. CASE ConnectFails \/ Connect \/ StartLoop
  BY <1>1 DEF CountType, ConnectFails, Connect, StartLoop, backendVars
<1>2. CASE HandshakeFails \/ Wake \/ Tick \/ TakeOrder \/ Read \/ ReadFails
  BY <1>2 DEF CountType, HandshakeFails, Wake, Tick, TakeOrder, Read, ReadFails
<1>3. CASE Order
  BY <1>3, <1>e DEF CountType, Order, backendVars
<1>4. CASE Serve \/ BackendStarts
  BY <1>4 DEF CountType, Serve, BackendStarts
<1>5. CASE \E t \in Casters : Broadcast(t)
  BY <1>5, <1>e DEF CountType, Broadcast
<1>6. CASE \E t \in Threads : Send(t)
  BY <1>6 DEF CountType, Send
<1>7. CASE Change
  <2>1. state' \in Items
    BY <1>7, ObserverAssumption DEF CountType, Change
  <2> QED
    BY <1>7, <1>e, <2>1 DEF CountType, Change
<1>8. CASE CutLink \/ BackendStops
  BY <1>8, <1>e DEF CountType, CutLink, BackendStops
<1>9. CASE UNCHANGED vars
  BY <1>9 DEF CountType, vars, backendVars
<1> QED
  BY <1>1, <1>2, <1>3, <1>4, <1>5, <1>6, <1>7, <1>8, <1>9 DEF Next, ObserverStep

LEMMA QueueTypeStep == QueueType /\ [Next]_vars => QueueType'
<1> SUFFICES ASSUME QueueType, [Next]_vars PROVE QueueType'
  OBVIOUS
<1>w. /\ \A q \in Seq(Commands) : Len(q) \in Nat
      /\ \A q \in Seq(Commands), c \in Commands :
            Append(q, c) \in Seq(Commands) /\ Len(Append(q, c)) = Len(q) + 1
      /\ \A q \in Seq(Commands) : q # <<>> =>
            Tail(q) \in Seq(Commands) /\ Len(Tail(q)) = Len(q) - 1
  BY AppendProperties, HeadTailProperties
<1>m. MaxAsks \in Nat /\ AdminCap \in Nat /\ <<>> \in Seq(Commands) /\ Len(<<>>) = 0
  BY ObserverAssumption, EmptySeq
<1>o. /\ orders \in Seq(Commands) /\ Len(orders) =< AdminCap
      /\ toBackend \in Seq(Commands) /\ Len(toBackend) =< MaxAsks
  BY DEF QueueType
<1>c. ASSUME NEW c \in Commands, Len(toBackend) < MaxAsks, WriteCommand(c)
      PROVE  toBackend' \in Seq(Commands) /\ Len(toBackend') =< MaxAsks
  BY <1>c, <1>w, <1>m, <1>o DEF WriteCommand
<1>1. CASE UNCHANGED <<orders, toBackend>>
  BY <1>1 DEF QueueType
<1>2. CASE HandshakeFails \/ Wake
  <2>1. toBackend' = <<>> /\ orders' = orders
    BY <1>2 DEF HandshakeFails, Wake, Closed
  <2>2. Len(toBackend') =< MaxAsks
    BY <1>m, <2>1
  <2> QED
    BY <1>m, <1>o, <2>1, <2>2 DEF QueueType
<1>3. CASE Tick
  <2>1. (IF askRooms THEN "rooms" ELSE "list") \in Commands
    BY DEF Commands
  <2>2. toBackend' \in Seq(Commands) /\ Len(toBackend') =< MaxAsks
    <3>1. CASE WriteCommand(IF askRooms THEN "rooms" ELSE "list")
      BY <1>3, <1>c, <2>1, <3>1 DEF Tick
    <3>2. CASE Break
      BY <1>o, <3>2 DEF Break
    <3> QED
      BY <1>3, <3>1, <3>2 DEF Tick
  <2>3. orders' = orders
    BY <1>3 DEF Tick
  <2> QED
    BY <1>o, <2>2, <2>3 DEF QueueType
<1>4. CASE TakeOrder
  <2>1. "admin" \in Commands
    BY DEF Commands
  <2>2. toBackend' \in Seq(Commands) /\ Len(toBackend') =< MaxAsks
    <3>1. CASE WriteCommand("admin")
      BY <1>4, <1>c, <2>1, <3>1 DEF TakeOrder
    <3>2. CASE toBackend' = toBackend
      BY <1>o, <3>2
    <3> QED
      BY <1>4, <3>1, <3>2 DEF TakeOrder, Break
  <2>3. orders # <<>> /\ orders' = Tail(orders)
    BY <1>4 DEF TakeOrder
  <2>4. orders' \in Seq(Commands) /\ Len(orders') =< AdminCap
    BY <1>w, <1>m, <1>o, <2>3
  <2> QED
    BY <2>2, <2>4 DEF QueueType
<1>5. CASE Order
  <2>1. "admin" \in Commands
    BY DEF Commands
  <2>2. Len(orders) < AdminCap /\ orders' = Append(orders, "admin") /\ toBackend' = toBackend
    BY <1>5 DEF Order, backendVars
  <2>3. orders' \in Seq(Commands) /\ Len(orders') =< AdminCap
    BY <1>w, <1>m, <1>o, <2>1, <2>2
  <2> QED
    BY <1>o, <2>2, <2>3 DEF QueueType
<1>6. CASE Serve
  <2>1. toBackend # <<>> /\ toBackend' = Tail(toBackend) /\ orders' = orders
    BY <1>6 DEF Serve, observerVars
  <2>2. toBackend' \in Seq(Commands) /\ Len(toBackend') =< MaxAsks
    BY <1>w, <1>m, <1>o, <2>1
  <2> QED
    BY <1>o, <2>1, <2>2 DEF QueueType
<1>7. ASSUME ConnectFails \/ Connect \/ StartLoop \/ Read \/ ReadFails
      PROVE  UNCHANGED <<orders, toBackend>>
  BY <1>7 DEF ConnectFails, Connect, StartLoop, Read, ReadFails, Break, backendVars
<1>8. ASSUME \/ Change \/ CutLink \/ BackendStops \/ BackendStarts
             \/ (\E t \in Casters : Broadcast(t)) \/ (\E t \in Threads : Send(t))
      PROVE  UNCHANGED <<orders, toBackend>>
  BY <1>8 DEF Broadcast, Send, Change, CutLink, BackendStops, BackendStarts, observerVars
<1>9. ASSUME UNCHANGED vars PROVE UNCHANGED <<orders, toBackend>>
  BY <1>9 DEF vars, observerVars, backendVars
<1> QED
  BY <1>1, <1>2, <1>3, <1>4, <1>5, <1>6, <1>7, <1>8, <1>9 DEF Next, ObserverStep

(* What is read and shown, and what is on the wire.                        *)
LEMMA MovingTypesStep == AllTypes /\ [Next]_vars => (ReadType /\ PanelType /\ WireType)'
<1> SUFFICES ASSUME AllTypes, [Next]_vars PROVE (ReadType /\ PanelType /\ WireType)'
  OBVIOUS
<1>r. have \in Seq(Pieces) /\ Len(have) < 3 /\ collector = NewCollector
  BY DEF AllTypes, ReadType
<1>p. users \in Seq(Items) /\ rooms \in Seq(Items)
  BY DEF AllTypes, PanelType
<1>w. /\ sending \in [Threads -> Seq(Pieces)]
      /\ stream \in Seq(Pieces) /\ Len(stream) =< WireCap /\ Len(stream) \in Nat
  BY DEF AllTypes, WireType
<1>m. WireCap \in Nat /\ <<>> \in Seq(Pieces) /\ Len(<<>>) = 0
  BY ObserverAssumption, EmptySeq
<1>q. ASSUME Quiet, have' = have \/ have' = <<>> PROVE (ReadType /\ PanelType)'
  <2>1. have' \in Seq(Pieces) /\ Len(have') < 3
    <3>1. CASE have' = have
      BY <1>r, <3>1
    <3>2. CASE have' = <<>>
      BY <1>m, <3>2
    <3> QED
      BY <1>q, <3>1, <3>2
  <2> QED
    BY <1>q, <1>r, <1>p, <2>1 DEF Quiet, ReadType, PanelType
<1>1. CASE Stays \/ Drops
  BY <1>1, <1>q, <1>w DEF Stays, Drops, WireType
<1>2. CASE StartLoop
  BY <1>2, <1>m, <1>p, <1>w DEF StartLoop, backendVars, ReadType, PanelType, WireType
<1>3. CASE Read
  <2>1. /\ stream # <<>> /\ stream' = Tail(stream) /\ sending' = sending
    BY <1>3 DEF Read
  <2>2. stream' \in Seq(Pieces) /\ Len(stream') =< WireCap
    BY <1>w, <1>m, <2>1, HeadTailProperties
  <2> DEFINE got == Append(have, Head(stream))
  <2>3. got \in Seq(Pieces) /\ Len(got) = Len(have) + 1 /\ Len(have) \in Nat
    BY <1>r, <1>w, <2>1, NextPiece
  <2>4. CASE Complete(got)
    <3>1. Len(got) = 3
      BY <2>4 DEF Complete
    <3> DEFINE out == CollectFrame(NewCollector, TextOf(got))
    <3>2. /\ have' = <<>> /\ collector' = out.collector
          /\ users' = LastOf(out.messages, "user_list", users)
          /\ rooms' = LastOf(out.messages, "room_list", rooms)
      BY <1>3, <1>r, <2>4 DEF Read
    <3> HIDE DEF got
    <3>3. /\ out.collector = NewCollector
          /\ \A old : \A kind \in ListMessages :
                LET new == LastOf(out.messages, kind, old) IN new = old \/ new \in Seq(Items)
      <4>1. ASSUME NEW old, NEW kind \in ListMessages
            PROVE  LET new == LastOf(out.messages, kind, old)
                   IN out.collector = NewCollector /\ (new = old \/ new \in Seq(Items))
        BY <2>3, <3>1, PanelShows
      <4>2. ListMessages # {}
        BY DEF ListMessages
      <4> QED
        BY <4>1, <4>2
    <3> HIDE DEF out
    <3>4. "user_list" \in ListMessages /\ "room_list" \in ListMessages
      BY DEF ListMessages
    <3>5. users' \in Seq(Items) /\ rooms' \in Seq(Items)
      BY <1>p, <3>2, <3>3, <3>4
    <3> QED
      BY <1>m, <1>w, <2>1, <2>2, <3>2, <3>3, <3>5 DEF ReadType, PanelType, WireType
  <2>5. CASE ~Complete(got)
    <3>1. have' = got /\ UNCHANGED <<collector, users, rooms>>
      BY <1>3, <2>5 DEF Read
    <3>2. Len(got) # 3
      BY <2>5 DEF Complete
    <3>3. have' \in Seq(Pieces) /\ Len(have') < 3
      BY <1>r, <2>3, <3>1, <3>2
    <3> QED
      BY <1>p, <1>r, <1>w, <2>1, <2>2, <3>1, <3>3 DEF ReadType, PanelType, WireType
  <2> QED
    BY <2>4, <2>5
<1>4. CASE Closes
  BY <1>4, <1>q, <1>m DEF Closes, Closed, WireType
<1>5. CASE \E t \in Threads : Takes(t)
  BY <1>5, <1>q, <1>w DEF Takes, WireType
<1>6. CASE \E t \in Threads : Send(t)
  <2>1. PICK t \in Threads : Send(t)
    BY <1>6
  <2> DEFINE f == sending[t]
             n == Portion(f, WireCap - Len(stream))
  <2>2. /\ f # <<>> /\ Len(stream) < WireCap
        /\ stream' = stream \o SubSeq(f, 1, n)
        /\ sending' = [sending EXCEPT ![t] = SubSeq(f, n + 1, Len(f))]
        /\ UNCHANGED <<have, collector, users, rooms>>
    BY <2>1 DEF Send, observerVars
  <2>3. f \in Seq(Pieces) /\ WireCap - Len(stream) \in Nat \ {0}
    BY <1>w, <1>m, <2>2
  <2> HIDE DEF f
  <2>4. n \in 1..Len(f) /\ n =< WireCap - Len(stream)
    BY <2>2, <2>3, PortionFits
  <2> HIDE DEF n
  <2>5. /\ SubSeq(f, 1, n) \in Seq(Pieces) /\ Len(SubSeq(f, 1, n)) = n
        /\ SubSeq(f, n + 1, Len(f)) \in Seq(Pieces)
    BY <2>3, <2>4, SentParts
  <2>6. stream' \in Seq(Pieces) /\ Len(stream') = Len(stream) + n
    <3> DEFINE p == SubSeq(f, 1, n)
    <3> HIDE DEF p
    <3>1. p \in Seq(Pieces) /\ Len(p) = n
      BY <2>5 DEF p
    <3>2. stream \o p \in Seq(Pieces) /\ Len(stream \o p) = Len(stream) + Len(p)
      BY <1>w, <3>1, Concatenated
    <3> QED
      BY <2>2, <3>1, <3>2 DEF p
  <2>7. Len(stream') =< WireCap
    BY <1>w, <1>m, <2>4, <2>6
  <2>8. sending' \in [Threads -> Seq(Pieces)]
    BY <1>w, <2>2, <2>5
  <2>9. WireType'
    BY <2>6, <2>7, <2>8 DEF WireType
  <2> QED
    BY <1>q, <2>2, <2>9 DEF Quiet
<1>7. CountType
  BY DEF AllTypes
<1> QED
  BY <1>1, <1>2, <1>3, <1>4, <1>5, <1>6, <1>7, EveryStep

LEMMA TypesInit == Init => AllTypes
<1> SUFFICES ASSUME Init PROVE AllTypes
  OBVIOUS
<1>1. PlaceType
  BY DEF Init, PlaceType
<1>4. ReadType /\ PanelType
  <2>1. <<>> \in Seq(Pieces) /\ <<>> \in Seq(Items) /\ Len(<<>>) = 0
    BY EmptySeq
  <2> QED
    BY <2>1 DEF Init, ReadType, PanelType
<1>2. QueueType
  BY EmptySeq, ObserverAssumption DEF Init, QueueType
<1>3. CountType /\ WireType
  BY EmptySeq, ObserverAssumption DEF Init, CountType, WireType
<1> QED
  BY <1>1, <1>2, <1>3, <1>4 DEF AllTypes

LEMMA TypesStep == AllTypes /\ [Next]_vars => AllTypes'
BY PlaceTypeStep, CountTypeStep, QueueTypeStep, MovingTypesStep DEF AllTypes

LEMMA TypesHold == AllTypes => TypeOK
<1> SUFFICES ASSUME AllTypes PROVE TypeOK
  OBVIOUS
<1>1. NewCollector \in [mode : {"none", "users", "rooms"}, items : Seq(Items)]
  BY EmptySeq DEF NewCollector
<1> QED
  BY <1>1 DEF AllTypes, PlaceType, ReadType, PanelType, QueueType, CountType, WireType, TypeOK

(* Every variable has the values the code can give it; no more than fits   *)
(* is on the way, and between two frames the collector is always empty.    *)
THEOREM TypeCorrect == Spec => []TypeOK
<1>1. Init => AllTypes
  BY TypesInit
<1>2. AllTypes /\ [Next]_vars => AllTypes'
  BY TypesStep
<1>3. AllTypes => TypeOK
  BY TypesHold
<1> QED
  BY <1>1, <1>2, <1>3, PTL DEF Spec

-----------------------------------------------------------------------------
(* Where frames begin.                                                     *)

(* Only the loop reads, and what an earlier connection left is gone before *)
(* the next.                                                               *)
PlaceInv ==
    /\ place = "dial" => link = "none"
    /\ place # "loop" => have = <<>>
    /\ place \in {"dial", "hello"} => stream = <<>> /\ \A t \in Threads : sending[t] = <<>>

(* Unless frames of two threads were mixed, the pieces read and not        *)
(* dropped, those on the wire and those that the threads have still to     *)
(* send are frames, one after the other; unless a read was dropped, the    *)
(* first one is whole.                                                     *)
FlowInv == ~mixed => Flow(have \o stream, sending)
AlignInv == ~mixed /\ ~slipped /\ place = "loop" => Aligned(have \o stream, sending)

LEMMA PlaceStep == PlaceInv /\ [Next]_vars => PlaceInv'
<1> SUFFICES ASSUME PlaceInv, [Next]_vars PROVE PlaceInv'
  OBVIOUS
<1>1. CASE ConnectFails \/ Connect \/ StartLoop
  BY <1>1 DEF PlaceInv, ConnectFails, Connect, StartLoop, backendVars
<1>2. CASE HandshakeFails \/ Wake
  BY <1>2 DEF PlaceInv, HandshakeFails, Wake, Closed
<1>3. CASE Tick
  BY <1>3 DEF PlaceInv, Tick, WriteCommand, DropRead, Break
<1>4. CASE TakeOrder
  BY <1>4 DEF PlaceInv, TakeOrder, WriteCommand, DropRead, Break
<1>5. CASE Read
  BY <1>5 DEF PlaceInv, Read
<1>6. CASE ReadFails
  BY <1>6 DEF PlaceInv, ReadFails, Break
<1>7. CASE Order
  BY <1>7 DEF PlaceInv, Order, backendVars
<1>8. CASE Serve \/ \E t \in Casters : Broadcast(t)
  BY <1>8 DEF PlaceInv, Serve, Broadcast, Served, observerVars
<1>9. CASE \E t \in Threads : Send(t)
  <2>1. PICK t \in Threads : Send(t)
    BY <1>9
  <2>2. place \notin {"dial", "hello"} /\ UNCHANGED <<place, link, have>>
    BY <2>1 DEF PlaceInv, Send, observerVars
  <2> QED
    BY <2>2 DEF PlaceInv
<1>10. CASE Change \/ BackendStarts
  BY <1>10 DEF PlaceInv, Change, BackendStarts, observerVars
<1>11. CASE CutLink \/ BackendStops
  BY <1>11 DEF PlaceInv, CutLink, BackendStops, Lost
<1>12. CASE UNCHANGED vars
  BY <1>12 DEF PlaceInv, vars, observerVars, backendVars
<1> QED
  BY <1>1, <1>2, <1>3, <1>4, <1>5, <1>6, <1>7, <1>8, <1>9, <1>10, <1>11, <1>12
     DEF Next, ObserverStep

(* Nothing is on its way on a connection that is new or closed.            *)
LEMMA FlowEmpty ==
    ASSUME NEW w, w = <<>>, NEW snd, snd \in [Threads -> Seq(Pieces)],
           \A t \in Threads : snd[t] = <<>>
    PROVE  Flow(w, snd) /\ Aligned(w, snd)
<1>1. Len(<<>>) = 0
  OBVIOUS
<1>2. \A t \in Threads : RestOfFrame(snd[t]) /\ ~Unfinished(snd, t)
  <2>1. RestOfFrame(<<>>)
    BY <1>1 DEF RestOfFrame, Joint
  <2>2. ASSUME NEW t \in Threads PROVE ~Unfinished(snd, t)
    <3>1. Len(snd[t]) = 0
      BY <1>1
    <3> QED
      BY <3>1 DEF Unfinished
  <2> QED
    BY <2>1, <2>2
<1>3. Joint(w) /\ w \in Seq(Pieces)
  BY <1>1, EmptySeq DEF Joint
<1> QED
  BY <1>2, <1>3 DEF Flow, Aligned

(* A read keeps the pieces in their order, or ends with a frame.           *)
LEMMA FlowRead ==
    ASSUME AllTypes, Read, ~mixed, Flow(have \o stream, sending)
    PROVE  /\ Flow(have' \o stream', sending)
           /\ Aligned(have \o stream, sending) => Aligned(have' \o stream', sending)
<1> DEFINE got == Append(have, Head(stream))
<1>1. have \in Seq(Pieces) /\ stream \in Seq(Pieces) /\ Len(have) < 3
  BY DEF AllTypes, ReadType, WireType
<1>2. stream # <<>> /\ stream' = Tail(stream)
  BY DEF Read
<1>3. /\ got \in Seq(Pieces) /\ Len(got) = Len(have) + 1 /\ Len(have) \in Nat
      /\ stream' \in Seq(Pieces)
      /\ got \o stream' = have \o stream
  BY <1>1, <1>2, NextPiece
<1>4. CASE Complete(got)
  <2>1. have' = <<>> /\ Len(got) = 3
    BY <1>4 DEF Read, Complete
  <2> HIDE DEF got
  <2>2. have' \o stream' = stream'
    BY <1>3, <2>1, ConcatEmptySeq
  <2>3. Flow(stream', sending)
    BY <1>3, FlowBehind
  <2>4. ASSUME Aligned(have \o stream, sending) PROVE Aligned(stream', sending)
    <3> DEFINE w == got \o stream'
    <3>1. /\ w \in Seq(Pieces) /\ Len(w) = 3 + Len(stream') /\ Len(stream') \in Nat
          /\ w[1] = got[1]
      <4>1. /\ w \in Seq(Pieces) /\ Len(w) = Len(got) + Len(stream') /\ Len(stream') \in Nat
            /\ \A i \in 1..Len(got) : w[i] = got[i]
        BY <1>3, Concatenated
      <4> HIDE DEF w
      <4> QED
        BY <2>1, <4>1
    <3> HIDE DEF w
    <3>2. w # <<>>
      BY <3>1
    <3>3. got[1].place = 1
      BY <1>3, <2>4, <3>1, <3>2 DEF Aligned, w
    <3> QED
      BY <1>3, <2>1, <3>3, FlowFrame
  <2> QED
    BY <2>2, <2>3, <2>4
<1>5. CASE ~Complete(got)
  <2>1. have' = got
    BY <1>5 DEF Read
  <2> QED
    BY <1>3, <2>1
<1> QED
  BY <1>4, <1>5

(* What is sent goes behind the pieces on the wire.                        *)
LEMMA FlowSend ==
    ASSUME AllTypes, NEW t \in Threads, Send(t), ~mixed', Flow(have \o stream, sending)
    PROVE  /\ Flow(have' \o stream', sending')
           /\ Aligned(have \o stream, sending) => Aligned(have' \o stream', sending')
<1> DEFINE f == sending[t]
           n == Portion(f, WireCap - Len(stream))
           w == have \o stream
<1>1. /\ have \in Seq(Pieces) /\ stream \in Seq(Pieces)
      /\ sending \in [Threads -> Seq(Pieces)] /\ Len(stream) \in Nat
  BY DEF AllTypes, ReadType, WireType
<1>2. /\ f # <<>> /\ Len(stream) < WireCap
      /\ stream' = stream \o SubSeq(sending[t], 1, n)
      /\ sending' = [sending EXCEPT ![t] = SubSeq(sending[t], n + 1, Len(sending[t]))]
      /\ have' = have
  BY DEF Send, observerVars
<1>3. f \in Seq(Pieces) /\ WireCap - Len(stream) \in Nat \ {0}
  BY <1>1, <1>2, ObserverAssumption
<1>4. n \in 1..Len(sending[t])
  BY <1>2, <1>3, PortionFits
<1>5. \A u \in Threads \ {t} : ~Unfinished(sending, u)
  BY DEF Send, Begun, Unfinished
<1> HIDE DEF n, w
<1>6. LET v == w \o SubSeq(sending[t], 1, n)
          s == [sending EXCEPT ![t] = SubSeq(sending[t], n + 1, Len(sending[t]))]
      IN Flow(v, s) /\ (Aligned(w, sending) => Aligned(v, s))
  <2>1. Flow(w, sending)
    BY DEF w
  <2> HIDE DEF f
  <2> QED
    BY <1>4, <1>5, <2>1, FlowSent
<1>7. have' \o stream' = w \o SubSeq(sending[t], 1, n)
  <2>1. SubSeq(f, 1, n) \in Seq(Pieces)
    BY <1>3, <1>4, SentParts
  <2> DEFINE p == SubSeq(sending[t], 1, n)
  <2>2. p \in Seq(Pieces)
    BY <2>1
  <2> HIDE DEF p
  <2>3. (have \o stream) \o p = have \o (stream \o p)
    BY <1>1, <2>2, ConcatAssociative, SMTT(30)
  <2> QED
    BY <1>2, <2>3 DEF p, w
<1> QED
  BY <1>2, <1>6, <1>7 DEF w

LEMMA FlowStep ==
    AllTypes /\ PlaceInv /\ FlowInv /\ AlignInv /\ [Next]_vars => (FlowInv /\ AlignInv)'
<1> SUFFICES ASSUME AllTypes, PlaceInv, FlowInv, AlignInv, [Next]_vars
             PROVE  (FlowInv /\ AlignInv)'
  OBVIOUS
<1>t. /\ have \in Seq(Pieces) /\ stream \in Seq(Pieces)
      /\ sending \in [Threads -> Seq(Pieces)]
  BY DEF AllTypes, ReadType, WireType
<1>e. \A s \in Seq(Pieces) : <<>> \o s = s
  BY ConcatEmptySeq
<1>b. ~mixed => Flow(stream, sending)
  BY <1>t, FlowBehind DEF FlowInv
<1>1. CASE Stays
  BY <1>1 DEF Stays, FlowInv, AlignInv
<1>2. CASE Drops
  <2>1. have' \o stream' = stream /\ sending' = sending /\ mixed' = mixed
    BY <1>2, <1>t, <1>e DEF Drops
  <2>2. FlowInv'
    BY <1>b, <2>1 DEF FlowInv
  <2>3. ASSUME ~mixed', ~slipped', place' = "loop" PROVE Aligned(have' \o stream', sending')
    <3>1. place = "loop" /\ ~slipped /\ have = <<>> /\ ~mixed
      <4>1. place = "loop" /\ slipped' = (slipped \/ have # <<>>)
        BY <1>2, <2>3 DEF Drops
      <4>2. ~(slipped \/ have # <<>>)
        BY <2>3, <4>1, Zenon
      <4> QED
        BY <2>1, <2>3, <4>1, <4>2
    <3>2. have \o stream = stream
      BY <1>t, <1>e, <3>1
    <3> QED
      BY <2>1, <3>1, <3>2 DEF AlignInv
  <2> QED
    BY <2>2, <2>3 DEF AlignInv
<1>3. CASE StartLoop
  <2>1. /\ stream = <<>> /\ \A t \in Threads : sending[t] = <<>>
        /\ have' = <<>> /\ stream' = stream /\ sending' = sending
    BY <1>3 DEF StartLoop, PlaceInv, backendVars
  <2>2. have' \o stream' = <<>>
    BY <1>t, <1>e, <2>1
  <2>3. Flow(<<>>, sending) /\ Aligned(<<>>, sending)
    BY <1>t, <2>1, FlowEmpty
  <2> QED
    BY <2>1, <2>2, <2>3 DEF FlowInv, AlignInv
<1>4. CASE Read
  <2>1. sending' = sending /\ UNCHANGED <<mixed, slipped, place>>
    BY <1>4 DEF Read
  <2>2. ~mixed => /\ Flow(have' \o stream', sending)
                  /\ Aligned(have \o stream, sending) => Aligned(have' \o stream', sending)
    BY <1>4, FlowRead DEF FlowInv
  <2> QED
    BY <2>1, <2>2 DEF FlowInv, AlignInv
<1>5. CASE Closes
  <2>1. /\ stream' = <<>> /\ have' = <<>> /\ place' = "dial"
        /\ sending' = [t \in Threads |-> <<>>]
    BY <1>5 DEF Closes, Closed, PlaceInv
  <2>2. have' \o stream' = <<>>
    BY <1>e, <2>1, EmptySeq
  <2>3. sending' \in [Threads -> Seq(Pieces)] /\ \A t \in Threads : sending'[t] = <<>>
    BY <2>1, EmptySeq
  <2>4. Flow(<<>>, sending')
    BY <2>3, FlowEmpty
  <2> QED
    BY <2>1, <2>2, <2>4 DEF FlowInv, AlignInv
<1>6. CASE \E t \in Threads : Takes(t)
  <2>1. PICK t \in Threads : Takes(t)
    BY <1>6
  <2>2. PICK f \in Seq(Pieces) :
            RestOfFrame(f) /\ Len(f) = 3 /\ sending' = [sending EXCEPT ![t] = f]
    BY <2>1 DEF Takes
  <2>3. sending[t] = <<>> /\ UNCHANGED <<have, stream, mixed, place, slipped>>
    BY <2>1 DEF Takes
  <2>4. ASSUME ~mixed
        PROVE  /\ Flow(have \o stream, sending')
               /\ Aligned(have \o stream, sending) => Aligned(have \o stream, sending')
    <3>1. Flow(have \o stream, sending)
      BY <2>4 DEF FlowInv
    <3> QED
      BY <2>2, <2>3, <3>1, FlowTaken
  <2> QED
    BY <2>3, <2>4 DEF FlowInv, AlignInv
<1>7. CASE \E t \in Threads : Send(t)
  <2>1. PICK t \in Threads : Send(t)
    BY <1>7
  <2>2. (~mixed' => ~mixed) /\ UNCHANGED <<place, slipped>>
    BY <2>1 DEF Send, observerVars
  <2>3. ASSUME ~mixed'
        PROVE  /\ Flow(have' \o stream', sending')
               /\ Aligned(have \o stream, sending) => Aligned(have' \o stream', sending')
    <3>1. Flow(have \o stream, sending)
      BY <2>2, <2>3 DEF FlowInv
    <3> QED
      BY <2>1, <2>3, <3>1, FlowSend
  <2> QED
    BY <2>2, <2>3 DEF FlowInv, AlignInv
<1>8. CountType
  BY DEF AllTypes
<1> QED
  BY <1>1, <1>2, <1>3, <1>4, <1>5, <1>6, <1>7, <1>8, EveryStep

(* Types, places and frames.                                               *)
ReadInv == AllTypes /\ PlaceInv /\ FlowInv /\ AlignInv

LEMMA ReadInit == Init => ReadInv
<1> SUFFICES ASSUME Init PROVE ReadInv
  OBVIOUS
<1>1. AllTypes
  BY TypesInit
<1>2. PlaceInv
  BY DEF Init, PlaceInv
<1>3. /\ have \o stream = <<>> /\ sending \in [Threads -> Seq(Pieces)]
      /\ \A t \in Threads : sending[t] = <<>>
  <2>1. have = <<>> /\ stream = <<>> /\ sending = [t \in Threads |-> <<>>]
    BY DEF Init
  <2>2. <<>> \o <<>> = <<>>
    BY EmptySeq, ConcatEmptySeq
  <2> QED
    BY <2>1, <2>2, EmptySeq
<1>4. Flow(have \o stream, sending) /\ Aligned(have \o stream, sending)
  BY <1>3, FlowEmpty
<1> QED
  BY <1>1, <1>2, <1>4 DEF ReadInv, FlowInv, AlignInv

LEMMA ReadStep == ReadInv /\ [Next]_vars => ReadInv'
BY TypesStep, PlaceStep, FlowStep DEF ReadInv

LEMMA ReadFinds == ReadInv => LostInTwoWays
<1> SUFFICES ASSUME ReadInv, OutOfStep, ~mixed, ~slipped PROVE FALSE
  BY DEF LostInTwoWays
<1>1. have \in Seq(Pieces) /\ stream \in Seq(Pieces)
  BY DEF ReadInv, AllTypes, ReadType, WireType
<1>2. place = "loop"
  BY DEF OutOfStep, ReadInv, PlaceInv, InStep
<1> DEFINE w == have \o stream
<1>3. Aligned(w, sending)
  BY <1>2 DEF ReadInv, AlignInv
<1>4. /\ w \in Seq(Pieces) /\ Len(w) = Len(have) + Len(stream)
      /\ Len(have) \in Nat /\ Len(stream) \in Nat
      /\ \A i \in 1..Len(have) : w[i] = have[i]
  BY <1>1, Concatenated
<1>5. (have = <<>> <=> Len(have) = 0) /\ (stream = <<>> <=> Len(stream) = 0)
  BY <1>1, EmptySeq
<1>6. have = <<>> => w = stream
  BY <1>1, ConcatEmptySeq
<1> HIDE DEF w
<1>7. CASE have = <<>>
  <2>1. stream # <<>> /\ stream[1].place # 1
    BY <1>7 DEF OutOfStep, InStep
  <2> QED
    BY <1>3, <1>6, <1>7, <2>1 DEF Aligned
<1>8. CASE have # <<>>
  <2>1. have[1].place # 1
    BY <1>8 DEF OutOfStep, InStep
  <2>2. 1 \in 1..Len(have) /\ w # <<>>
    BY <1>4, <1>5, <1>8
  <2> QED
    BY <1>3, <1>4, <2>1, <2>2 DEF Aligned
<1> QED
  BY <1>7, <1>8

(* A frame's beginning is lost only after the frames of two threads were   *)
(* mixed, or a refresh or an admin command dropped a read with bytes in it:*)
(* the framing of both programs, and every interleaving of the threads     *)
(* that send with the select! that reads, lose it in no other way.         *)
THEOREM BeginningsFound == Spec => []LostInTwoWays
<1>1. Init => ReadInv
  BY ReadInit
<1>2. ReadInv /\ [Next]_vars => ReadInv'
  BY ReadStep
<1>3. ReadInv => LostInTwoWays
  BY ReadFinds
<1> QED
  BY <1>1, <1>2, <1>3, PTL DEF Spec

-----------------------------------------------------------------------------
(* What the panels show.                                                   *)

(* A frame read whole is one frame, or begins out of step.                 *)
LEMMA ReadIsOneFrame ==
    ASSUME NEW a \in Seq(Pieces), NEW v \in Seq(Pieces), NEW snd, Flow(a \o v, snd),
           Len(a) = 3, InStep(a)
    PROVE  /\ a[1].place = 1 /\ a[2].place = 2 /\ a[3].place = 3
           /\ a[2].kind = a[1].kind /\ a[3].kind = a[1].kind
           /\ a[2].number = a[1].number /\ a[3].number = a[1].number
<1>1. a[1].place = 1
  <2>1. a = <<>> <=> Len(a) = 0
    BY EmptySeq
  <2>2. a # <<>>
    BY <2>1
  <2> QED
    BY <2>2 DEF InStep
<1> QED
  BY <1>1, FlowFrame

(* Only a read changes a panel.                                            *)
LEMMA PanelStep ==
    ReadInv /\ [Next]_vars =>
        \A p \in {<<users, users'>>, <<rooms, rooms'>>} :
            p[2] # p[1] /\ ~mixed => \E n \in Items : p[2] = Whole(n)
<1> SUFFICES ASSUME ReadInv, [Next]_vars, ~mixed
             PROVE  /\ users' = users \/ \E n \in Items : users' = Whole(n)
                    /\ rooms' = rooms \/ \E n \in Items : rooms' = Whole(n)
  OBVIOUS
<1>1. CASE UNCHANGED <<users, rooms>>
  BY <1>1
<1>2. CASE Read
  <2> DEFINE got == Append(have, Head(stream))
             out == CollectFrame(NewCollector, TextOf(got))
  <2>1. /\ have \in Seq(Pieces) /\ stream \in Seq(Pieces) /\ collector = NewCollector
        /\ Flow(have \o stream, sending)
    BY DEF ReadInv, AllTypes, ReadType, WireType, FlowInv
  <2>2. stream # <<>>
    BY <1>2 DEF Read
  <2>3. /\ got \in Seq(Pieces) /\ Tail(stream) \in Seq(Pieces)
        /\ got \o Tail(stream) = have \o stream
    BY <2>1, <2>2, NextPiece
  <2>4. CASE ~Complete(got)
    BY <1>1, <1>2, <2>4 DEF Read
  <2>5. CASE Complete(got)
    <3>1. Len(got) = 3
      BY <2>5 DEF Complete
    <3>2. /\ users' = LastOf(out.messages, "user_list", users)
          /\ rooms' = LastOf(out.messages, "room_list", rooms)
      BY <1>2, <2>1, <2>5 DEF Read
    <3> HIDE DEF got
    <3>3. Flow(got \o Tail(stream), sending)
      BY <2>1, <2>3
    <3>4. InStep(got) => /\ got[1].place = 1 /\ got[2].place = 2 /\ got[3].place = 3
                         /\ got[2].kind = got[1].kind /\ got[3].kind = got[1].kind
                         /\ got[2].number = got[1].number /\ got[3].number = got[1].number
      BY <2>3, <3>1, <3>3, ReadIsOneFrame
    <3>5. ASSUME NEW old, NEW kind \in ListMessages
          PROVE  LET new == LastOf(out.messages, kind, old)
                 IN new = old \/ \E n \in Items : new = Whole(n)
      BY <2>3, <3>1, <3>4, PanelShows
    <3> HIDE DEF out
    <3>6. "user_list" \in ListMessages /\ "room_list" \in ListMessages
      BY DEF ListMessages
    <3> QED
      BY <3>2, <3>5, <3>6
  <2> QED
    BY <2>4, <2>5
<1>3. ASSUME \/ Stays \/ Drops \/ StartLoop \/ Closes
             \/ \E t \in Threads : Takes(t) \/ Send(t)
      PROVE  UNCHANGED <<users, rooms>>
  BY <1>3 DEF Stays, Drops, StartLoop, Closes, Takes, Send, Quiet, observerVars
<1>4. CountType
  BY DEF ReadInv, AllTypes
<1> QED
  BY <1>1, <1>2, <1>3, <1>4, EveryStep

(* However reads are dropped in the middle and frames cut in portions, a   *)
(* panel never changes to anything but a list that the backend sent, whole,*)
(* unless frames of two threads were mixed in the stream.                  *)
THEOREM PanelsAreReal == Spec => PanelsReal
<1>1. Init => ReadInv
  BY ReadInit
<1>2. ReadInv /\ [Next]_vars => ReadInv'
  BY ReadStep
<1>3. ReadInv /\ [Next]_vars =>
        [\A p \in {<<users, users'>>, <<rooms, rooms'>>} :
            p[2] # p[1] /\ ~mixed => \E n \in Items : p[2] = Whole(n)]_vars
  BY PanelStep
<1> QED
  BY <1>1, <1>2, <1>3, PTL DEF Spec, PanelsReal

=============================================================================
