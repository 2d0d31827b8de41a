------------------------------ MODULE MCClient ------------------------------
(* Client on small instances.                                              *)
EXTENDS Client

CONSTANTS k1, k2, alice, bob

Users(names) ==
    <<Line("users", <<>>)>> \o [i \in DOMAIN names |-> Line("item", <<names[i]>>)]

(* Two lists of users, of which neither begins with the other.             *)
TwoLists == {Users(<<alice, bob>>), Users(<<bob>>)}

=============================================================================
