---------------------------- MODULE MCPinBoard ----------------------------
(* PinBoard on a small instance.                                           *)
EXTENDS PinBoard

CONSTANTS t1, t2, t3, p1, p2, p3, p4

(* The threads run the same code, and no step looks at a pin's text.       *)
Interchangeable == Permutations(Threads) \cup Permutations(Pins)

=============================================================================
