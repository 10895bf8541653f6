----------------------------- MODULE MCFeeGate -----------------------------
(* FeeGate for TLC: small fees, a base fee that may rise, an engine of each *)
(* kind with rules in orders that matter, and a request of each shape.      *)
EXTENDS FeeGate

MCEstimates == {[fee |-> 4, tip |-> 1], [fee |-> 9, tip |-> 9], [fee |-> 30, tip |-> 0]}

Low  == [fee |-> 20, tip |-> 12]
High == [fee |-> 40, tip |-> 40]

Targets  == [rule |-> "TargetAllowlist", listed |-> {"dex"}]
Limit    == [rule |-> "SpendLimit", max |-> 1]
Messages == [rule |-> "MessageSigningAllowed"]
Domains  == [rule |-> "TypedDataDomainAllowlist", listed |-> {"dex"}]
Any      == [rule |-> "AllowAll"]
Chains   == [rule |-> "AllowedChains", chains |-> {1}]
Expiry   == [rule |-> "ExpiresAt", at |-> 1]
Unknown  == [rule |-> "AllowedTypedDataContracts"]

Native(rules, env) == [engine |-> "native", rules |-> rules, executable |-> "none", env |-> env]
MoonPay(rules, answer) ==
    [engine |-> "moonpay", rules |-> rules, executable |-> answer, env |-> High]

MCEngines ==
    {Native(<<>>, High), Native(<<Targets, Limit>>, Low),
     Native(<<Messages, Domains, Limit, Any>>, High),
     MoonPay(<<Unknown, Chains, Expiry>>, "none"), MoonPay(<<Chains>>, "deny"),
     MoonPay(<<>>, "fails")}

Request(kind, to, value, chain) ==
    [kind |-> kind, to |-> to, value |-> value, calldata |-> FALSE, chain |-> chain,
     contract |-> "dex", encodes |-> TRUE]

MCRequests ==
    {Request("Transaction", "dex", 1, 1), Request("Transaction", "dex", 2, 2),
     Request("Transaction", Self, 0, 1), Request("Transaction", Create, 0, 1),
     Request("Cancel", Self, 0, 1), Request("Message", Create, 0, 0),
     Request("TypedData", Create, 0, 1), Request("TypedData", Create, 0, 0)}
=============================================================================
