----------------------------- MODULE ChatService -----------------------------
(***************************************************************************)
(* What the Rust chat server promises its clients: everybody is in one     *)
(* room at a time, and whatever is said reaches, at one moment, exactly    *)
(* those it is for, but the clients that can take nothing at that moment.  *)
(* It is lost to nobody else, in nobody's order but the order in which it  *)
(* was said, and nobody hears it twice.  Registry implements this module.  *)
(***************************************************************************)
EXTENDS Naturals, Sequences

CONSTANTS
    Clients, Admin,
    Users, NameOf,    \* the name of each client
    Rooms, General,   \* all rooms, and the one everybody enters
    Numbers           \* the numbers that tell messages apart

VARIABLES
    where,   \* the room of each client that is in
    busy,    \* the clients that can take nothing
    cut,     \* the clients whose connection broke
    heard    \* what each client was sent and has not lost with its connection

vars == <<where, busy, cut, heard>>

In == DOMAIN where

Init ==
    /\ where = [c \in {} |-> General]
    /\ busy = {}
    /\ cut = {}
    /\ heard = [c \in Clients |-> <<>>]

(* A name is in use once at a time.                                        *)
Enter(c) ==
    /\ c \notin In /\ \A d \in In : NameOf[d] # NameOf[c]
    /\ where' = [d \in In \cup {c} |-> IF d = c THEN General ELSE where[d]]
    /\ UNCHANGED <<cut, heard>>

Move(c, r) ==
    /\ c \in In
    /\ where' = [where EXCEPT ![c] = r]
    /\ UNCHANGED <<cut, heard>>

Leave(c) ==
    /\ c \in In
    /\ where' = [d \in In \ {c} |-> where[d]]
    /\ UNCHANGED <<cut, heard>>

Post(S, kind, from, about) ==
    /\ \E n \in Numbers :
          heard' = [c \in Clients |->
                      IF c \in S \ busy
                      THEN Append(heard[c], [kind |-> kind, from |-> from,
                                             no |-> n, about |-> about])
                      ELSE heard[c]]
    /\ UNCHANGED <<where, cut>>

Say(c) == c \in In /\ Post({d \in In \ {c} : where[d] = where[c]}, "chat", c, where[c])

SayToAll == Post(In, "say", Admin, General)

(* To the client of that name; Tell may also miss, when the client leaves. *)
Tell(c, u) == Post({d \in In : NameOf[d] = u}, "pm", c, u)
Notify(u) == Post({d \in In : NameOf[d] = u}, "notice", Admin, u)

Break(c) ==
    /\ cut' = cut \cup {c}
    /\ UNCHANGED <<where, heard>>

(* What was sent and not written yet is lost with the connection.          *)
Lose(c) ==
    /\ c \in cut \/ c \notin In
    /\ \E n \in 0..Len(heard[c]) : heard' = [heard EXCEPT ![c] = SubSeq(@, 1, n)]
    /\ UNCHANGED <<where, cut>>

(* A client gets busy, or has room again.                                  *)
Pace == UNCHANGED <<where, cut, heard>>

Next ==
    \/ \E c \in Clients :
          \/ Enter(c) \/ Leave(c) \/ Say(c) \/ Break(c) \/ Lose(c)
          \/ \E r \in Rooms : Move(c, r)
          \/ \E u \in Users : Tell(c, u)
    \/ \E u \in Users : Notify(u)
    \/ SayToAll \/ Pace

Spec == Init /\ [][Next]_vars

=============================================================================
