------------------------------ MODULE SendGate ------------------------------
(***************************************************************************)
(* The gate each chat message of one connection passes on the C++ backend: *)
(* the rate limit, then the slowmode of the room (vector-com.cpp, the end  *)
(* of handleClient).  The state is the timing part of a ClientInfo and the *)
(* table the admin edits.  Between two critical sections of the thread     *)
(* time passes and the admin types.                                        *)
(*                                                                         *)
(* Each search takes the first entry that has the connection's descriptor. *)
(* A former owner of the descriptor, closed and still to run removeClient, *)
(* has its entry before the connection's own: until it is removed, and the *)
(* own entry with it, the gate works on the former owner's count, times    *)
(* and room.                                                               *)
(*                                                                         *)
(* Abstractions.  One connection, from its registration on.  Time is       *)
(* counted in ticks, Second of them to a second.  The block list is module *)
(* Backend's.                                                              *)
(***************************************************************************)
EXTENDS Integers

CONSTANTS
    Rooms, General,
    Second,      \* ticks in a second
    MaxCount,    \* 3: messages allowed in a window
    Typed,       \* the seconds an admin types, negative ones included
    Start,       \* the tick at which the connection registers
    Before,      \* bound: messages a former owner of the descriptor counted
    MaxClock,    \* bound: last tick
    MaxSent,     \* bound: messages the peer sends
    MaxTyped     \* bound: slowmode commands

ASSUME SendGateAssumption ==
    /\ General \in Rooms
    /\ Second \in Nat \ {0} /\ MaxCount \in Nat \ {0}
    /\ Typed \subseteq Int
    /\ Start \in Nat \ {0} /\ Before \in Nat
    /\ MaxClock \in Nat /\ Start =< MaxClock
    /\ MaxSent \in Nat /\ MaxTyped \in Nat

VARIABLES
    clock,       \* steady_clock; 0 is its epoch, long past
    owner,       \* whose entry is found: "own", "former" or "none"
    rateWindowStart, msgCount, lastBroadcastTime, room, \* the entry found
    ownRoom,     \* the room of the connection's own entry
    slow,        \* roomSlowmodeSeconds
    typed,       \* slowmode commands so far
    pc,          \* "recv", "rated", "looked", "passed"
    slowSeconds, \* the local variable of handleClient
    sent,        \* frames read so far
    recent,      \* history: messages that passed the rate limit, by their
                 \* age in ticks, of the last second
    inherited,   \* history: messages of the former owner in msgCount
    acceptedAt   \* history: when the last message was accepted

entry == <<owner, rateWindowStart, msgCount, lastBroadcastTime, room, ownRoom>>
past  == <<sent, recent, inherited, acceptedAt>>
vars  == <<clock, entry, slow, typed, pc, slowSeconds, past>>

Never == 0

Found == owner # "none"

(* A new entry, or one that a former owner has left as it was: it counted  *)
(* a message before it had one accepted.                                   *)
NewEntry ==
    /\ owner = "own"
    /\ rateWindowStart = Start /\ msgCount = 0
    /\ lastBroadcastTime = Never /\ room = General

FormerEntry ==
    /\ owner = "former"
    /\ rateWindowStart \in 1..Start /\ msgCount \in 0..Before
    /\ lastBroadcastTime \in IF msgCount = 0 THEN {Never} ELSE Never..Start
    /\ room \in Rooms

Init ==
    /\ clock = Start
    /\ NewEntry \/ FormerEntry
    /\ ownRoom = General
    /\ slow = [r \in Rooms |-> 0] /\ typed = 0
    /\ pc = "recv" /\ slowSeconds = 0
    /\ sent = 0 /\ recent = [age \in 0..Second |-> 0]
    /\ inherited = msgCount /\ acceptedAt = Never

Tick ==
    /\ clock < MaxClock
    /\ clock' = clock + 1
    /\ recent' = [age \in 0..Second |-> IF age = 0 THEN 0 ELSE recent[age - 1]]
    /\ UNCHANGED <<entry, slow, typed, pc, slowSeconds, sent, inherited,
                   acceptedAt>>

-----------------------------------------------------------------------------
(* isRateLimited.                                                          *)

WindowOver == clock - rateWindowStart > Second

CountOn == msgCount + 1
CountFromZero == IF WindowOver THEN 0 ELSE msgCount + 1
CountNow == IF WindowOver THEN 1 ELSE msgCount + 1

(* One call: a window that is over restarts, the message is counted, and   *)
(* refused or not.  Without an entry nothing is counted or refused.        *)
RateCheck ==
    /\ pc = "recv" /\ sent < MaxSent
    /\ IF Found
       THEN /\ rateWindowStart' = IF WindowOver THEN clock ELSE rateWindowStart
            /\ msgCount' = CountNow
            /\ inherited' = IF WindowOver THEN 0 ELSE inherited
       ELSE UNCHANGED <<rateWindowStart, msgCount, inherited>>
    /\ sent' = sent + 1
    /\ IF Found /\ CountNow > MaxCount
       THEN UNCHANGED <<pc, recent>>
       ELSE /\ pc' = "rated"
            /\ recent' = IF Found THEN [recent EXCEPT ![0] = @ + 1] ELSE recent
    /\ UNCHANGED <<clock, owner, lastBroadcastTime, room, ownRoom, slow, typed,
                   slowSeconds, acceptedAt>>

-----------------------------------------------------------------------------
(* The slowmode.                                                           *)

RoomNow == IF Found THEN room ELSE General

Lookup ==
    /\ pc = "rated"
    /\ slowSeconds' = slow[RoomNow]
    /\ pc' = "looked"
    /\ UNCHANGED <<clock, entry, slow, typed, past>>

RoundedUp ==
    /\ slowSeconds > 0 /\ Found
    /\ lastBroadcastTime # Never
    /\ (clock - lastBroadcastTime + Second - 1) \div Second < slowSeconds
TooSoon ==
    /\ slowSeconds > 0 /\ Found
    /\ lastBroadcastTime # Never
    /\ (clock - lastBroadcastTime) \div Second < slowSeconds

SlowCheck ==
    /\ pc = "looked"
    /\ pc' = IF TooSoon THEN "recv" ELSE "passed"
    /\ UNCHANGED <<clock, entry, slow, typed, slowSeconds, past>>

(* The message is accepted: its time is kept in the entry, whatever room   *)
(* it is for, and /join does not forget it.                                *)
Accept ==
    /\ pc = "passed"
    /\ IF Found
       THEN lastBroadcastTime' = clock /\ acceptedAt' = clock
       ELSE UNCHANGED <<lastBroadcastTime, acceptedAt>>
    /\ pc' = "recv"
    /\ UNCHANGED <<clock, owner, rateWindowStart, msgCount, room, ownRoom, slow,
                   typed, slowSeconds, sent, recent, inherited>>

(* /join compares with the room of the last entry, its own, and moves every*)
(* entry with the descriptor.                                              *)
Join(r) ==
    /\ pc = "recv" /\ Found
    /\ r # ownRoom
    /\ room' = r /\ ownRoom' = r
    /\ UNCHANGED <<clock, owner, rateWindowStart, msgCount, lastBroadcastTime,
                   slow, typed, pc, slowSeconds, past>>

AsTyped(seconds) == seconds
NotNegative(seconds) == IF seconds < 0 THEN 0 ELSE seconds

(* The admin's "slowmode <room> <seconds>".                                *)
SetSlowmode(r, seconds) ==
    /\ typed < MaxTyped
    /\ typed' = typed + 1
    /\ slow' = [slow EXCEPT ![r] = NotNegative(seconds)]
    /\ UNCHANGED <<clock, entry, pc, slowSeconds, past>>

(* The former owner runs removeClient, which takes both entries.           *)
Unlist ==
    /\ owner = "former"
    /\ owner' = "none"
    /\ UNCHANGED <<clock, rateWindowStart, msgCount, lastBroadcastTime, room,
                   ownRoom, slow, typed, pc, slowSeconds, past>>

Next ==
    \/ Tick \/ RateCheck \/ Lookup \/ SlowCheck \/ Accept \/ Unlist
    \/ \E r \in Rooms : Join(r)
    \/ \E r \in Rooms, seconds \in Typed : SetSlowmode(r, seconds)

Spec == Init /\ [][Next]_vars

-----------------------------------------------------------------------------
(* Properties.                                                             *)

(* The variables have the values the code can give them.                   *)
TypeOK ==
    /\ clock \in Start..MaxClock
    /\ owner \in {"own", "former", "none"}
    /\ rateWindowStart \in 1..clock /\ msgCount \in 0..(Before + MaxSent)
    /\ lastBroadcastTime \in 0..clock
    /\ room \in Rooms /\ ownRoom \in Rooms
    /\ slow \in [Rooms -> Nat] /\ typed \in 0..MaxTyped
    /\ pc \in {"recv", "rated", "looked", "passed"}
    /\ slowSeconds \in Nat
    /\ sent \in 0..MaxSent
    /\ recent \in [0..Second -> 0..MaxSent]
    /\ inherited \in 0..Before
    /\ acceptedAt \in 0..clock

(* The messages let through in the last n + 1 ticks.                       *)
SumTo(counts, n) ==
    LET sum[k \in 0..n] == IF k = 0 THEN counts[0] ELSE sum[k - 1] + counts[k]
    IN sum[n]
Through(n) == SumTo(recent, n)

(* What the windows of isRateLimited give: a window does not slide, so two *)
(* of them can share a second, but three cannot.  While a connection is    *)
(* listed, no second, wherever it starts, has more than 2 * MaxCount of    *)
(* its messages.                                                           *)
SlidingBound == Through(Second) =< 2 * MaxCount

(* Only a busy descriptor is refused: whoever gets "Rate limit exceeded"   *)
(* has got MaxCount messages through in the second before, together with   *)
(* those that a former owner of the descriptor, not removed yet, counted   *)
(* in the same window.  The refused ones are counted too, and must not     *)
(* keep the window from ending.                                            *)
RefusedOnlyWhenBusy ==
    [][sent' # sent /\ pc' = "recv" => Through(Second) + inherited >= MaxCount]_vars

(* Two messages a room in slowmode takes from a listed connection are at   *)
(* least that many seconds apart, though the seconds are rounded down, the *)
(* time is read twice, the admin changes the setting, the peer changes     *)
(* rooms in between and the entry may be a former owner's.                 *)
SlowSpacing ==
    [][pc = "passed" /\ pc' = "recv" /\ Found /\ acceptedAt # Never
         => clock - acceptedAt >= Second * slowSeconds]_vars

=============================================================================
