-------------------------- MODULE MCWalletRuntime --------------------------
(* WalletRuntime for TLC: intents and cancel calls as model values. *)
EXTENDS WalletRuntime

CONSTANTS i1, i2, c1, c2
=============================================================================
