------------------------------ MODULE PinBoard ------------------------------
(***************************************************************************)
(* The pin board of one room on the C++ backend: the /pin, /pins and       *)
(* /unpin branches of handleClient (vector-com.cpp:542-624).  The board is *)
(* a file the client threads open each on their own, with no lock.         *)
(*                                                                         *)
(* Abstractions.  A pin is a line, and each pin has its own text; lines    *)
(* are of one length, so that a write from the start of the file covers    *)
(* whole lines (with others it also tears the line where it ends).  A read *)
(* of the file and a flush of a stream are one system call each.  The      *)
(* notice of a pin is a broadcast of module Backend.                       *)
(***************************************************************************)
EXTENDS Naturals, FiniteSets, SequencesExt

CONSTANTS
    Threads,     \* handleClient threads with their client in the room
    Pins,        \* the messages that get pinned
    MaxUnpins,   \* bound: /unpin commands
    MaxCrashes   \* bound: times the server is stopped and started again

ASSUME PinBoardAssumption == MaxUnpins \in Nat /\ MaxCrashes \in Nat

VARIABLES
    exists,      \* the file exists
    board,       \* its lines
    pc,          \* "recv", "read", "cut"
    all,         \* the lines an /unpin keeps
    unpins, crashes,
    pinned,      \* history: pins answered "Pinned."
    unpinned,    \* history: pins an /unpin left out of the file it wrote
    raced        \* history: pins that were on the file, or in the copy of an
                 \* /unpin, when a second command ran before it was done

vars == <<exists, board, pc, all, unpins, crashes, pinned, unpinned, raced>>

Init ==
    /\ exists = FALSE /\ board = <<>>
    /\ pc = [t \in Threads |-> "recv"]
    /\ all = [t \in Threads |-> <<>>]
    /\ unpins = 0 /\ crashes = 0
    /\ pinned = {} /\ unpinned = {} /\ raced = {}

(* Threads between the read and the write of an /unpin, and the pins they  *)
(* hold.                                                                   *)
Busy == {t \in Threads : pc[t] # "recv"}
Held == UNION {ToSet(all[t]) : t \in Busy}

(* /pin: opened for appending, one write, closed.                          *)
Pin(t, p) ==
    /\ pc[t] = "recv" /\ p \notin pinned
    /\ exists' = TRUE
    /\ board' = Append(board, p)
    /\ pinned' = pinned \cup {p}
    /\ raced' = IF Busy = {} THEN raced ELSE raced \cup {p}
    /\ UNCHANGED <<pc, all, unpins, crashes, unpinned>>

KeptOffByOne(i) == IF i < Len(board) THEN RemoveAt(board, i + 1) ELSE Front(board)
Kept(i) == RemoveAt(board, i)

(* /unpin: the file is read to its end and closed.  A missing file and an  *)
(* index beyond the end are refused.                                       *)
UnpinRead(t, i) ==
    /\ pc[t] = "recv" /\ unpins < MaxUnpins
    /\ exists /\ i <= Len(board)
    /\ unpins' = unpins + 1
    /\ all' = [all EXCEPT ![t] = Kept(i)]
    /\ pc' = [pc EXCEPT ![t] = "read"]
    /\ raced' = IF Busy = {} THEN raced ELSE raced \cup ToSet(board) \cup Held
    /\ unpinned' = unpinned \cup {board[i]}
    /\ UNCHANGED <<exists, board, crashes, pinned>>

(* The file is opened again, which empties it.                             *)
UnpinCut(t) ==
    /\ pc[t] = "read"
    /\ board' = <<>>
    /\ pc' = [pc EXCEPT ![t] = "cut"]
    /\ UNCHANGED <<exists, all, unpins, crashes, pinned, unpinned, raced>>

(* "Unpinned" is sent, then the stream goes out of scope and its buffer is *)
(* written at the start of the file, over whatever is there by now.        *)
UnpinWrite(t) ==
    /\ pc[t] = "cut"
    /\ board' = all[t] \o SubSeq(board, Len(all[t]) + 1, Len(board))
    /\ all' = [all EXCEPT ![t] = <<>>]
    /\ pc' = [pc EXCEPT ![t] = "recv"]
    /\ UNCHANGED <<exists, unpins, crashes, pinned, unpinned, raced>>

(* exit(0) of the signal handler, or a crash: the threads go and what they *)
(* hold with them, the file stays.                                         *)
Restart ==
    /\ crashes < MaxCrashes
    /\ crashes' = crashes + 1
    /\ pc' = [t \in Threads |-> "recv"]
    /\ all' = [t \in Threads |-> <<>>]
    /\ raced' = raced \cup Held \cup {p \in unpinned : Busy # {}}
    /\ UNCHANGED <<exists, board, unpins, pinned, unpinned>>

Next ==
    \/ Restart
    \/ \E t \in Threads :
          \/ \E p \in Pins : Pin(t, p)
          \/ \E i \in 1..Len(board) : UnpinRead(t, i)
          \/ UnpinCut(t) \/ UnpinWrite(t)

Spec == Init /\ [][Next]_vars

-----------------------------------------------------------------------------
(* Properties.                                                             *)

(* When no /unpin is in progress the board has what was pinned and not     *)
(* unpinned, each pin once: it takes another command, or a restart, in the *)
(* middle of an /unpin to lose a pin, to bring one back, to double one or  *)
(* to take out another than the one at the index.                          *)
SettledBoard ==
    Busy = {} => \A p \in pinned \ raced :
        Cardinality({i \in DOMAIN board : board[i] = p})
            = IF p \in unpinned THEN 0 ELSE 1

(* Not true of this code.  "Pinned messages - pin important messages to a  *)
(* room board" (README.md:41), and only /unpin "remove[s] a pinned         *)
(* message" (README.md:156): what was answered "Pinned." and not unpinned  *)
(* is on the board when no /unpin is in progress.                          *)
PinnedStays == Busy = {} => pinned \ unpinned \subseteq ToSet(board)

=============================================================================
