---------------------------- MODULE MCRegistry ----------------------------
(* Registry on small instances.                                            *)
EXTENDS Registry

CONSTANTS c1, c2, c3, alice, bob, carol

(* Two peers use the same name, one after the other or at the same time.   *)
TwoNames == [c \in Conns |-> IF c = c2 THEN bob ELSE alice]

ThreeNames ==
    [c \in Conns |-> IF c = c1 THEN alice ELSE IF c = c2 THEN bob ELSE carol]

(* Who sends how many frames, or gives how many commands.                  *)
Twice == [t \in Tasks |-> IF t = c2 THEN 2 ELSE 0]
TwiceAndAdmin == [t \in Tasks |-> IF t = c2 THEN 2 ELSE IF t = Admin THEN 1 ELSE 0]

=============================================================================
