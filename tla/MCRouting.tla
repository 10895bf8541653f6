----------------------------- MODULE MCRouting -----------------------------
(* Routing for TLC: the routes the user may ask for. *)
EXTENDS Routing

CONSTANT i1

MCRoutes == {StayPrivate("flashbots"), StayPrivate("protect"), PublicAfter("flashbots", 2)}
=============================================================================
