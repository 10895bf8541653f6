----------------------------- MODULE MCQueries -----------------------------
(* Queries for TLC: scans of four indices over two chains and two schemes,
   every read with two tokens, names and addresses, and three catalogs. *)
EXTENDS Queries, TLC

CONSTANTS c1, c2, t1, t2, n1, n2, a1, a2

MCChains == <<c1, c2>>
Scan(schemes, gap, start, max, used) ==
    [schemes |-> schemes, gap_limit |-> gap, start_index |-> start, max_index |-> max, used |-> used]
MCScans ==
    {Scan(<<Bip44Standard, LedgerLive>>, 2, 0, 4, "NonceOrBalance"),
     Scan(<<Bip44Standard>>, 2, 1, 4, "NonceOnly"),
     Scan(<<Bip44Standard>>, 0, 0, 3, "NonceOnly"),
     Scan(<<LedgerLive, NoPlaceholder>>, 1, 0, 2, "NonceOrBalance")}

MCRequests ==
    {[op |-> "balances", tokens |-> <<>>], [op |-> "balances", tokens |-> <<t1, t2, t1>>],
     [op |-> "metadata", token |-> t1, fallback |-> TRUE],
     [op |-> "metadata", token |-> t2, fallback |-> FALSE],
     [op |-> "metadata", token |-> t2, fallback |-> TRUE],
     [op |-> "single"], [op |-> "resolve", name |-> n1], [op |-> "text", name |-> n1],
     [op |-> "reverse", address |-> a1], [op |-> "price"], [op |-> "preview"]}

MCNow       == 0 .. 3
MCEmbedded  == 1 :> <<"u1", "bad", "u2", "u3">> @@ 10 :> <<"u4">>
MCPublished == {<<>>, 1 :> <<"u5">>, 1 :> <<"bad">> @@ 10 :> <<"u6", "u7", "u8">>}
MCConfigs   == {<<>>, <<"u1">>, <<"u1", "u2", "u3">>}
MCSlugs     == {<<"alchemy", 1>>}
=============================================================================
