---------------------------- MODULE ListingProofs ----------------------------
(***************************************************************************)
(* What the collector of module Listing makes of a frame, for every frame: *)
(* by induction over its lines.                                            *)
(***************************************************************************)
EXTENDS Listing, TLAPS, WellFoundedInduction, SequenceTheorems

(* The natural numbers are well ordered.                                   *)
LEMMA LeastNatural ==
    ASSUME NEW B \in SUBSET Nat, B # {}
    PROVE  \E n \in B : \A m \in B : n =< m
<1>1. PICK n \in B : \A m \in B : ~(<<m, n>> \in OpToRel(<, Nat))
  BY WFMin, NatLessThanWellFounded
<1>2. \A m \in B : m \in Nat /\ ~(m < n)
  BY <1>1 DEF OpToRel
<1> QED
  BY <1>2

-----------------------------------------------------------------------------
(* The collector, line by line.                                            *)

Start(c) == [collector |-> c, messages |-> <<>>]

(* g has what the collector holds after n lines, for each n up to k.       *)
Feeds(c, f, k, g) ==
    g = [n \in 0..k |-> IF n = 0 THEN Start(c) ELSE Feed(g[n - 1], f[n])]

(* There is such a function, for every k.                                  *)
LEMMA FeedsExist ==
    ASSUME NEW c, NEW f, NEW k \in Nat
    PROVE  \E g : Feeds(c, f, k, g)
<1> DEFINE B == {j \in Nat : ~ \E g : Feeds(c, f, j, g)}
<1> SUFFICES ASSUME B # {} PROVE FALSE
  OBVIOUS
<1>1. PICK j \in B : \A i \in B : j =< i
  BY LeastNatural
<1>2. CASE j = 0
  <2> DEFINE g == [n \in 0..0 |-> Start(c)]
  <2>1. Feeds(c, f, 0, g)
    BY DEF Feeds
  <2> QED
    BY <1>1, <1>2, <2>1
<1>3. CASE j # 0
  <2>1. j - 1 \in Nat /\ j - 1 \notin B
    BY <1>1, <1>3
  <2>2. PICK g : Feeds(c, f, j - 1, g)
    BY <2>1
  <2> DEFINE h == [n \in 0..j |-> IF n = j THEN Feed(g[j - 1], f[j]) ELSE g[n]]
  <2>3. \A n \in 0..j - 1 : g[n] = IF n = 0 THEN Start(c) ELSE Feed(g[n - 1], f[n])
    BY <2>2 DEF Feeds
  <2>4. h[j] = Feed(g[j - 1], f[j]) /\ (\A n \in 0..j - 1 : h[n] = g[n])
    BY <2>1
  <2>5. h = [n \in 0..j |-> h[n]]
    OBVIOUS
  <2> HIDE DEF h
  <2>6. \A n \in 0..j : h[n] = IF n = 0 THEN Start(c) ELSE Feed(h[n - 1], f[n])
    <3>1. h[j] = IF j = 0 THEN Start(c) ELSE Feed(h[j - 1], f[j])
      BY <1>3, <2>1, <2>4
    <3>2. ASSUME NEW n \in 0..j - 1
          PROVE  h[n] = IF n = 0 THEN Start(c) ELSE Feed(h[n - 1], f[n])
      <4>1. n # 0 => n - 1 \in 0..j - 1
        BY <2>1
      <4> QED
        BY <2>3, <2>4, <4>1
    <3> QED
      BY <2>1, <3>1, <3>2
  <2>7. Feeds(c, f, j, h)
    BY <2>5, <2>6 DEF Feeds
  <2> QED
    BY <1>1, <2>7
<1> QED
  BY <1>2, <1>3

(* CollectFrame flushes the last value of one.                             *)
LEMMA CollectFrameIs ==
    ASSUME NEW c, NEW f, Len(f) \in Nat
    PROVE  \E g : /\ Feeds(c, f, Len(f), g)
                  /\ CollectFrame(c, f) =
                        [collector |-> Flushed(g[Len(f)].collector),
                         messages |-> g[Len(f)].messages \o Flush(g[Len(f)].collector)]
<1> DEFINE g == CHOOSE h : Feeds(c, f, Len(f), h)
<1>1. Feeds(c, f, Len(f), g)
  BY FeedsExist
<1>2. CollectFrame(c, f) = [collector |-> Flushed(g[Len(f)].collector),
                            messages |-> g[Len(f)].messages \o Flush(g[Len(f)].collector)]
  BY DEF CollectFrame, Feeds, Start
<1> QED
  BY <1>1, <1>2

(* Its values, one from the other.                                         *)
LEMMA FeedsAre ==
    ASSUME NEW c, NEW f, NEW k \in Nat, NEW g, Feeds(c, f, k, g)
    PROVE  g[0] = Start(c) /\ \A n \in 1..k : g[n] = Feed(g[n - 1], f[n])
<1>1. 0 \in 0..k /\ \A n \in 1..k : n \in 0..k /\ n # 0
  OBVIOUS
<1> QED
  BY <1>1 DEF Feeds

-----------------------------------------------------------------------------
(* What the collector holds.                                               *)

Collectors == [mode : {"none", "users", "rooms"}, items : Seq(Items)]
Collected == [kind : MessageKinds, items : Seq(Items)]

ListKind == [users |-> "user_list", rooms |-> "room_list"]

(* A line is of some shape, and an item names one entry.                   *)
LEMMA LineForm ==
    ASSUME NEW line \in Lines
    PROVE  /\ line.shape \in Shapes
           /\ line.items \in Seq(Items)
           /\ line.shape = "item" => \E i \in Items : line.items = <<i>>
<1>1. <<>> \in Seq(Items) /\ \A i \in Items : <<i>> \in Seq(Items)
  BY EmptySeq
<1>2. CASE line \in [shape : Shapes \ {"item"}, items : {<<>>}]
  BY <1>1, <1>2
<1>3. CASE line \in {Line("item", <<i>>) : i \in Items}
  <2>1. PICK i \in Items : line = [shape |-> "item", items |-> <<i>>]
    BY <1>3 DEF Line
  <2> QED
    BY <1>1, <2>1 DEF Shapes
<1> QED
  BY <1>2, <1>3 DEF Lines

(* A line becomes a message that is no list.                               *)
LEMMA ParsedIsNoList ==
    ASSUME NEW line \in Lines
    PROVE  /\ ParseLine(line) \in Collected
           /\ ParseLine(line).kind \notin {"user_list", "room_list"}
BY DEF ParseLine, Message, MessageKinds, Collected

(* A flush gives the list gathered, if there is one.                       *)
LEMMA FlushIs ==
    ASSUME NEW c \in Collectors
    PROVE  /\ c.mode = "none" => Flush(c) = <<>>
           /\ c.mode # "none" =>
                /\ Flush(c) = <<Message(ListKind[c.mode], c.items)>>
                /\ Message(ListKind[c.mode], c.items) \in Collected
BY DEF Collectors, Flush, ListKind, Message, MessageKinds, Collected

(* The collector's items are those of the run of item lines it is in, up   *)
(* to line n of frame f.                                                   *)
InRun(f, n, c) ==
    c.mode # "none" =>
        \E h \in 1..n :
            /\ f[h].shape = c.mode
            /\ \A j \in (h + 1)..n : f[j].shape = "item"
            /\ Len(c.items) = n - h
            /\ \A j \in 1..(n - h) : c.items[j] = f[h + j].items[1]

(* A message that is a list is one in the frame, entry for entry.          *)
Genuine(f, m) ==
    \A header \in {"users", "rooms"} :
        m.kind = ListKind[header] => m.items \in ListedIn(f, header)

Holds(f, n, s) ==
    /\ s \in [collector : Collectors, messages : Seq(Collected)]
    /\ InRun(f, n, s.collector)
    /\ \A i \in 1..Len(s.messages) : Genuine(f, s.messages[i])

(* At the end of a run, the list that is flushed is the run.               *)
LEMMA FlushIsGenuine ==
    ASSUME NEW f \in Seq(Lines), NEW n \in 0..Len(f), NEW c \in Collectors,
           InRun(f, n, c), n + 1 \in DOMAIN f => f[n + 1].shape # "item"
    PROVE  /\ Flush(c) \in Seq(Collected)
           /\ \A i \in 1..Len(Flush(c)) : Genuine(f, Flush(c)[i])
<1>1. CASE c.mode = "none"
  <2>1. Flush(c) = <<>> /\ <<>> \in Seq(Collected) /\ Len(<<>>) = 0
    BY <1>1, FlushIs, EmptySeq
  <2> QED
    BY <2>1
<1>2. CASE c.mode # "none"
  <2>1. PICK h \in 1..n :
            /\ f[h].shape = c.mode
            /\ \A j \in (h + 1)..n : f[j].shape = "item"
            /\ Len(c.items) = n - h
            /\ \A j \in 1..(n - h) : c.items[j] = f[h + j].items[1]
    BY <1>2 DEF InRun
  <2>2. <<h, n>> \in Runs(f, c.mode)
    <3>1. h \in DOMAIN f /\ n \in DOMAIN f /\ h =< n
      OBVIOUS
    <3> QED
      BY <2>1, <3>1 DEF Runs
  <2>3. c.items = [j \in 1..(n - h) |-> f[h + j].items[1]]
    <3>1. c.items = [j \in 1..(n - h) |-> c.items[j]]
      BY <2>1 DEF Collectors
    <3> QED
      BY <2>1, <3>1
  <2>4. c.items \in ListedIn(f, c.mode)
    <3> DEFINE r == <<h, n>>
    <3>1. r[1] = h /\ r[2] = n
      OBVIOUS
    <3>2. r \in Runs(f, c.mode)
      BY <2>2
    <3>3. c.items = [j \in 1..(r[2] - r[1]) |-> f[r[1] + j].items[1]]
      BY <2>3, <3>1
    <3> HIDE DEF r
    <3> QED
      BY <3>2, <3>3 DEF ListedIn
  <2>5. /\ Flush(c) = <<Message(ListKind[c.mode], c.items)>>
        /\ Message(ListKind[c.mode], c.items) \in Collected
    BY <1>2, FlushIs
  <2>6. Genuine(f, Message(ListKind[c.mode], c.items))
    <3>1. c.mode \in {"users", "rooms"}
      BY <1>2 DEF Collectors
    <3> QED
      BY <2>4, <3>1 DEF Genuine, ListKind, Message
  <2> QED
    BY <2>5, <2>6
<1> QED
  BY <1>1, <1>2

(* Two rows of genuine messages make one.                                  *)
LEMMA GenuineConcat ==
    ASSUME NEW f, NEW a \in Seq(Collected), NEW b \in Seq(Collected),
           \A i \in 1..Len(a) : Genuine(f, a[i]),
           \A i \in 1..Len(b) : Genuine(f, b[i])
    PROVE  /\ a \o b \in Seq(Collected)
           /\ \A i \in 1..Len(a \o b) : Genuine(f, (a \o b)[i])
<1>1. /\ a \o b \in Seq(Collected) /\ Len(a \o b) = Len(a) + Len(b)
      /\ \A i \in 1..Len(a) + Len(b) :
            (a \o b)[i] = IF i =< Len(a) THEN a[i] ELSE b[i - Len(a)]
  BY ConcatProperties
<1>2. ASSUME NEW i \in 1..Len(a) + Len(b) PROVE Genuine(f, (a \o b)[i])
  <2>1. CASE i =< Len(a)
    BY <1>1, <2>1
  <2>2. CASE i > Len(a)
    <3>1. i - Len(a) \in 1..Len(b)
      BY <2>2
    <3> QED
      BY <1>1, <2>2, <3>1
  <2> QED
    BY <2>1, <2>2
<1> QED
  BY <1>1, <1>2

(* Each line keeps it so.                                                  *)
LEMMA FeedHolds ==
    ASSUME NEW f \in Seq(Lines), NEW n \in 1..Len(f), NEW s, Holds(f, n - 1, s)
    PROVE  Holds(f, n, Feed(s, f[n]))
<1> DEFINE c == s.collector
           line == f[n]
<1>1. /\ line \in Lines /\ n \in DOMAIN f /\ n - 1 \in 0..Len(f) /\ n - 1 + 1 = n
      /\ c \in Collectors /\ s.messages \in Seq(Collected) /\ InRun(f, n - 1, c)
      /\ \A i \in 1..Len(s.messages) : Genuine(f, s.messages[i])
  BY DEF Holds
<1>2. /\ line.shape \in Shapes /\ line.items \in Seq(Items)
      /\ line.shape = "item" => \E i \in Items : line.items = <<i>>
  BY <1>1, LineForm
<1>3. line.shape # "item" =>
        /\ Flush(c) \in Seq(Collected)
        /\ s.messages \o Flush(c) \in Seq(Collected)
        /\ \A i \in 1..Len(s.messages \o Flush(c)) : Genuine(f, (s.messages \o Flush(c))[i])
  <2>1. SUFFICES ASSUME line.shape # "item"
                 PROVE  /\ Flush(c) \in Seq(Collected)
                        /\ s.messages \o Flush(c) \in Seq(Collected)
                        /\ \A i \in 1..Len(s.messages \o Flush(c)) :
                              Genuine(f, (s.messages \o Flush(c))[i])
    OBVIOUS
  <2>2. /\ Flush(c) \in Seq(Collected)
        /\ \A i \in 1..Len(Flush(c)) : Genuine(f, Flush(c)[i])
    <3> HIDE DEF c
    <3> QED
      BY <1>1, <2>1, FlushIsGenuine
  <2> HIDE DEF c
  <2> QED
    BY <1>1, <2>2, GenuineConcat
<1>4. CASE line.shape \in {"users", "rooms"}
  <2> DEFINE d == [mode |-> line.shape, items |-> <<>>]
  <2>1. Feed(s, line) = [collector |-> d, messages |-> s.messages \o Flush(c)]
    BY <1>4 DEF Feed, Flushed, NewCollector
  <2>2. d \in Collectors
    BY <1>4, EmptySeq DEF Collectors
  <2>3. InRun(f, n, d)
    <3>1. n \in 1..n /\ f[n].shape = d.mode /\ (n + 1)..n = {} /\ Len(d.items) = n - n
          /\ 1..(n - n) = {}
      OBVIOUS
    <3> QED
      BY <3>1 DEF InRun
  <2>4. line.shape # "item"
    BY <1>4
  <2> HIDE DEF c, d
  <2> QED
    BY <1>3, <2>1, <2>2, <2>3, <2>4 DEF Holds
<1>5. CASE c.mode # "none" /\ line.shape = "item"
  <2>1. PICK e \in Items : line.items = <<e>>
    BY <1>2, <1>5
  <2> DEFINE items == c.items \o <<e>>
             d == [mode |-> c.mode, items |-> items]
  <2>2. Feed(s, line) = [collector |-> d, messages |-> s.messages]
    <3>1. line.shape \notin {"users", "rooms"}
      BY <1>5
    <3>2. s = [collector |-> s.collector, messages |-> s.messages]
      BY DEF Holds
    <3>2b. c = [mode |-> c.mode, items |-> c.items]
      BY <1>1 DEF Collectors
    <3>3. Feed(s, line) = [s EXCEPT !.collector.items = c.items \o <<e>>]
      BY <1>5, <2>1, <3>1 DEF Feed, Gathered
    <3> QED
      BY <3>2, <3>2b, <3>3
  <2>3. /\ c.items \in Seq(Items) /\ items \in Seq(Items) /\ Len(items) = Len(c.items) + 1
        /\ items[Len(c.items) + 1] = e
        /\ \A j \in 1..Len(c.items) : items[j] = c.items[j]
    BY <1>1 DEF Collectors
  <2>4. PICK h \in 1..(n - 1) :
            /\ f[h].shape = c.mode
            /\ \A j \in (h + 1)..(n - 1) : f[j].shape = "item"
            /\ Len(c.items) = n - 1 - h
            /\ \A j \in 1..(n - 1 - h) : c.items[j] = f[h + j].items[1]
    BY <1>1, <1>5 DEF InRun
  <2> HIDE DEF items
  <2>5. \A j \in 1..(n - h) : items[j] = f[h + j].items[1]
    <3>1. ASSUME NEW j \in 1..(n - h), j # n - h
          PROVE  items[j] = f[h + j].items[1]
      <4>1. j \in 1..(n - 1 - h)
        BY <3>1
      <4> QED
        BY <2>3, <2>4, <4>1
    <3>2. items[n - h] = f[h + (n - h)].items[1]
      <4>1. h + (n - h) = n /\ n - h = Len(c.items) + 1 /\ line.items[1] = e
        BY <2>1, <2>4
      <4> QED
        BY <2>3, <4>1
    <3> QED
      BY <3>1, <3>2
  <2>6. InRun(f, n, d)
    <3>1. \A j \in (h + 1)..n : f[j].shape = "item"
      <4>1. \A j \in (h + 1)..n : j = n \/ j \in (h + 1)..(n - 1)
        OBVIOUS
      <4> QED
        BY <1>5, <2>4, <4>1
    <3>2. h \in 1..n /\ Len(items) = n - h
      BY <2>3, <2>4
    <3> QED
      BY <2>4, <2>5, <3>1, <3>2 DEF InRun
  <2>7. d \in Collectors
    BY <1>1, <2>3 DEF Collectors
  <2> HIDE DEF c, d
  <2> QED
    BY <1>1, <2>2, <2>6, <2>7 DEF Holds
<1>6. CASE line.shape \notin {"users", "rooms"} /\ ~(c.mode # "none" /\ line.shape = "item")
  <2> DEFINE out == <<ParseLine(line)>>
  <2>1. Feed(s, line) = [collector |-> NewCollector,
                         messages |-> s.messages \o Flush(c) \o out]
    BY <1>6 DEF Feed, Flushed
  <2>2. NewCollector \in Collectors /\ InRun(f, n, NewCollector)
    BY EmptySeq DEF NewCollector, Collectors, InRun
  <2>3. out \in Seq(Collected) /\ \A i \in 1..Len(out) : Genuine(f, out[i])
    <3>1. ParseLine(line) \in Collected
          /\ ParseLine(line).kind \notin {"user_list", "room_list"}
      BY <1>1, ParsedIsNoList
    <3>2. Genuine(f, ParseLine(line))
      BY <3>1 DEF Genuine, ListKind
    <3> QED
      BY <3>1, <3>2
  <2>4. /\ s.messages \o Flush(c) \in Seq(Collected)
        /\ \A i \in 1..Len(s.messages \o Flush(c)) : Genuine(f, (s.messages \o Flush(c))[i])
    <3>1. CASE line.shape # "item"
      BY <1>3, <3>1
    <3>2. CASE line.shape = "item"
      <4>1. Flush(c) = <<>>
        BY <1>1, <1>6, <3>2, FlushIs
      <4>2. s.messages \o <<>> = s.messages
        BY <1>1
      <4> QED
        BY <1>1, <4>1, <4>2
    <3> QED
      BY <3>1, <3>2
  <2> DEFINE msgs == s.messages \o Flush(c)
  <2>5. /\ msgs \o out \in Seq(Collected)
        /\ \A i \in 1..Len(msgs \o out) : Genuine(f, (msgs \o out)[i])
    <3> HIDE DEF msgs, out
    <3> QED
      BY <2>3, <2>4, GenuineConcat DEF msgs
  <2> HIDE DEF c, out, msgs
  <2> QED
    BY <2>1, <2>2, <2>5 DEF Holds, msgs
<1> QED
  BY <1>4, <1>5, <1>6

(* So it is after every line.                                              *)
LEMMA FeedsHold ==
    ASSUME NEW f \in Seq(Lines), NEW g, Feeds(NewCollector, f, Len(f), g)
    PROVE  \A n \in 0..Len(f) : Holds(f, n, g[n])
<1> DEFINE B == {n \in Nat : n =< Len(f) /\ ~Holds(f, n, g[n])}
<1> SUFFICES ASSUME B # {} PROVE FALSE
  OBVIOUS
<1>1. PICK n \in B : \A m \in B : n =< m
  BY LeastNatural
<1>2. g[0] = Start(NewCollector) /\ \A m \in 1..Len(f) : g[m] = Feed(g[m - 1], f[m])
  BY FeedsAre
<1>3. CASE n = 0
  <2>1. NewCollector \in Collectors /\ InRun(f, 0, NewCollector)
    BY EmptySeq DEF NewCollector, Collectors, InRun
  <2>2. Holds(f, 0, Start(NewCollector))
    BY <2>1, EmptySeq DEF Holds, Start
  <2> QED
    BY <1>2, <1>3, <2>2
<1>4. CASE n # 0
  <2>1. n \in 1..Len(f) /\ n - 1 \in 0..Len(f) /\ n - 1 \notin B
    BY <1>1, <1>4
  <2>2. Holds(f, n, Feed(g[n - 1], f[n]))
    BY <2>1, FeedHolds
  <2> QED
    BY <1>2, <2>1, <2>2
<1> QED
  BY <1>3, <1>4

(* A frame leaves nothing in the collector, and every list that comes out  *)
(* of it is a list of the frame: whole, and with nothing else in it.  It   *)
(* needs the flush at the end of every frame, or the collector would carry *)
(* a list into the next one.                                               *)
THEOREM ListsAreWhole ==
    ASSUME NEW f \in Seq(Lines)
    PROVE  /\ CollectFrame(NewCollector, f).collector = NewCollector
           /\ CollectFrame(NewCollector, f).messages \in Seq(Collected)
           /\ \A i \in 1..Len(CollectFrame(NewCollector, f).messages) :
                 Genuine(f, CollectFrame(NewCollector, f).messages[i])
<1>0. Len(f) \in Nat
  OBVIOUS
<1>1. PICK g :
        /\ Feeds(NewCollector, f, Len(f), g)
        /\ CollectFrame(NewCollector, f) =
              [collector |-> Flushed(g[Len(f)].collector),
               messages |-> g[Len(f)].messages \o Flush(g[Len(f)].collector)]
  BY <1>0, CollectFrameIs
<1> DEFINE s == g[Len(f)]
<1>2. Holds(f, Len(f), s)
  BY <1>1, FeedsHold
<1>3. s.messages \in Seq(Collected) /\ \A i \in 1..Len(s.messages) : Genuine(f, s.messages[i])
  BY <1>2 DEF Holds
<1>4. /\ Flush(s.collector) \in Seq(Collected)
      /\ \A i \in 1..Len(Flush(s.collector)) : Genuine(f, Flush(s.collector)[i])
  <2>1. s.collector \in Collectors /\ InRun(f, Len(f), s.collector)
    BY <1>2 DEF Holds
  <2>2. Len(f) + 1 \notin DOMAIN f
    OBVIOUS
  <2> HIDE DEF s
  <2> QED
    BY <2>1, <2>2, FlushIsGenuine
<1> DEFINE a == s.messages
           b == Flush(s.collector)
<1>5. /\ a \o b \in Seq(Collected)
      /\ \A i \in 1..Len(a \o b) : Genuine(f, (a \o b)[i])
  <2> HIDE DEF a, b
  <2> QED
    BY <1>3, <1>4, GenuineConcat DEF a, b
<1>6. /\ CollectFrame(NewCollector, f).collector = NewCollector
      /\ CollectFrame(NewCollector, f).messages = a \o b
  <2>1. CollectFrame(NewCollector, f) = [collector |-> Flushed(s.collector), messages |-> a \o b]
    BY <1>1
  <2>2. Flushed(s.collector) = NewCollector
    BY DEF Flushed
  <2> HIDE DEF a, b, s
  <2> QED
    BY <2>1, <2>2
<1> HIDE DEF a, b
<1> QED
  BY <1>5, <1>6

=============================================================================
