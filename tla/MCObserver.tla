----------------------------- MODULE MCObserver -----------------------------
(* Observer on small instances.                                            *)
EXTENDS Observer

CONSTANTS caster, replier

ListItems == 0..1

=============================================================================
