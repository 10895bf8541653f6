------------------------------ MODULE MCStores ------------------------------
(* Stores for TLC: two clients, one handle. *)
EXTENDS Stores

CONSTANTS a1, h1

MCOneAccount == [i \in {h1} |-> a1]
=============================================================================
