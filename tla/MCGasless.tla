----------------------------- MODULE MCGasless -----------------------------
(* Gasless for TLC: a send through each backend, with
   the user's forwarder nonce also moved by others. *)
EXTENDS Gasless, TLC

CONSTANTS s1, i1

MCIntentOf   == s1 :> i1
MCRelays     == {[fee |-> "Sponsored", nonce |-> "Sequential"],
                 [fee |-> "SyncFee", nonce |-> "Concurrent"]}
MCWindow     == s1 :> 0
MCCeiling    == s1 :> 1
MCConfigured == {{"gelato"}, {"relayer", "gelato"}}
=============================================================================
