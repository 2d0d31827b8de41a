---------------------------- MODULE MCSendGate ----------------------------
(* SendGate on a small instance.                                           *)
EXTENDS SendGate

(* What an admin types: a negative number, one second and two.             *)
MCTyped == {-1, 1, 2}

=============================================================================
