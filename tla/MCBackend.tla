----------------------------- MODULE MCBackend -----------------------------
(* Backend on small instances.                                             *)
EXTENDS Backend, TLC

CONSTANTS c1, c2, c3, alice, bob

(* Two peers use the same name: the code does not keep names unique.       *)
OneName == [c \in Conns |-> alice]
MCNameOf == [c \in Conns |-> IF c = c2 THEN bob ELSE alice]

(* The peers of Backend_rooms are alike, and so are the descriptors.       *)
Alike == Permutations(Conns) \cup Permutations(Fds)

(* What the steps of Backend_admin depend on, and its properties speak of: *)
(* with one room, inbox, history, shown, gap, room and heirOf are only     *)
(* written, and seats is the largest seat.                                 *)
Shared == <<fdOf, sock, clients, seat, blocked, local, late>>

(* Who sends how many frames, or types how many commands.                  *)
OneSender == [t \in Threads |-> IF t = c2 THEN 1 ELSE 0]
Pair == [t \in Threads |-> IF t \in {c1, c2} THEN 1 ELSE 0]
ConsoleAndTalker ==
    [t \in Threads |-> IF t = Console THEN 1 ELSE IF t = c2 THEN 2 ELSE 0]

=============================================================================
