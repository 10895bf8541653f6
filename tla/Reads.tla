------------------------------- MODULE Reads -------------------------------
(***************************************************************************)
(* The reads that return a value: RpcReadClient over Multicall (read.rs,   *)
(* multicall.rs), the token list with its on-chain fallback, Chainlink     *)
(* prices, ENS, and the pre-sign preview.  Each is the sequence of RPCs    *)
(* its code makes; what a node replies is the fact of that moment.         *)
(***************************************************************************)
EXTENDS ReadPort

CONSTANTS Batch,         \* MAX_CALLS_PER_BATCH
          Requests,      \* the operations to try
          Listed,        \* the tokens the token list has
          Names,         \* ENS names
          Holders,       \* addresses, never the zero address
          MaxAge,        \* a feed's heartbeat plus the grace
          Now            \* the clock's values

\* No address, and the three ways a lookup finds nothing.
Zero      == "0x0"
EnsMisses == {"ResolverNotFound", "revert", "OffchainLookup"}

ASSUME ReadsAssumption ==
    /\ Batch \in Nat /\ Batch >= 3 /\ MaxAge \in Nat /\ Now \subseteq Nat
    /\ Holders \cap ({Zero} \cup EnsMisses) = {}
    /\ \A r \in Requests :
          /\ r.op \in {"balances", "metadata", "single", "resolve", "text", "reverse", "price", "preview"}
          /\ r.op = "balances" => r.tokens \in Seq(Range(r.tokens))
          /\ r.op = "reverse" => r.address \in Holders

\* A sub-call's outcome: return data, decoded or not, behind a success flag.
Result(success, data) == [success |-> success, data |-> data]
NoWord   == -1
Words    == {Result(TRUE, 0), Result(TRUE, 1), Result(TRUE, NoWord), Result(FALSE, NoWord)}
Strings  == {Result(TRUE, s) : s \in {"string", "bytes32", "zeroes"}} \cup {Result(FALSE, "zeroes")}
Decimals == {Result(TRUE, 18), Result(TRUE, 256), Result(FALSE, NoWord)}

\* MulticallResult::decode::<U256>: None for a revert or undecodable data.
DecodeU256(r) == IF r.success /\ r.data # NoWord THEN Some(r.data) ELSE None

\* decode_metadata_string: an ABI string, or 32 raw bytes up to the first zero.
DecodeString(r) == IF r.success /\ r.data \in {"string", "bytes32"} THEN Some(r.data) ELSE None

\* decimals(): a word narrowed to u8.
DecodeU8(r) == IF r.success /\ r.data \in 0 .. 255 THEN Some(r.data) ELSE None

-----------------------------------------------------------------------------
\* The sub-calls an operation queues, each the fact it reads.
BalanceCalls(tokens) == <<<<"native">>>> \o [k \in 1 .. Len(tokens) |-> <<"balance", tokens[k]>>]
MetadataCalls(token) == <<<<"name", token>>, <<"symbol", token>>, <<"decimals", token>>>>

CallsOf(r) ==
    CASE r.op = "balances" -> BalanceCalls(r.tokens)
      [] r.op = "metadata" -> MetadataCalls(r.token)
      [] OTHER -> <<>>

\* What balances makes of the results: the native balance first, then one
\* Result per token, in the order they were asked for.
ToBalances(tokens, got) ==
    IF Len(got) # Len(tokens) + 1 \/ DecodeU256(got[1]) = None THEN Err("Read", "Decode", FALSE)
    ELSE Ok([native |-> DecodeU256(got[1]).v,
             tokens |-> [k \in 1 .. Len(tokens) |->
                            [token |-> tokens[k], balance |-> DecodeU256(got[k + 1])]]])

\* erc20_metadata as the token list's fallback uses it: one field that does
\* not decode is a token without metadata, not an error.
ToMetadata(got) ==
    LET name == DecodeString(got[1])
        symbol == DecodeString(got[2])
        decimals == DecodeU8(got[3])
    IN  IF name = None \/ symbol = None \/ decimals = None THEN Ok(None)
        ELSE Ok(Some([name |-> name.v, symbol |-> symbol.v, decimals |-> decimals.v]))

ToAnswer(r, got) ==
    CASE r.op = "balances" -> ToBalances(r.tokens, got)
      [] r.op = "metadata" -> ToMetadata(got)

PortOf(op) ==
    CASE op \in {"metadata", "price"} -> "Pricing"
      [] op \in {"resolve", "text", "reverse"} -> "Ens"
      [] op = "preview" -> "Rpc"
      [] OTHER -> "Read"

\* An operation at its first RPC; a token of the list needs none.
StartRead(r) == [op |-> r.op, req |-> r, got |-> <<>>]
FirstAnswer(r) ==
    CASE r.op = "metadata" /\ r.token \in Listed ->
            Ok(Some([name |-> "listed", symbol |-> "listed", decimals |-> 18]))
      [] r.op = "metadata" /\ r.token \notin Listed /\ ~r.fallback -> Ok(None)
      [] OTHER -> Unanswered

Reading(ops) == ~Answered /\ q.op \in ops
ReadReply(got, a) == Reply([q EXCEPT !.got = got], a)

-----------------------------------------------------------------------------
\* A mutant: every chunk is cut from the start of the batch.
AggregateFirstChunk ==
    /\ Reading({"balances", "metadata"})
    /\ LET calls == CallsOf(q.req)
           done == Len(q.got)
           last == IF done + Batch < Len(calls) THEN done + Batch ELSE Len(calls)
           got == q.got \o [k \in 1 .. last - done |-> world[calls[k]]]
       IN  ReadReply(got, IF last = Len(calls) THEN ToAnswer(q.req, got) ELSE Unanswered)

\* Multicall::call: aggregate3 on the next chunk, all of it at one block.
Aggregate ==
    /\ Reading({"balances", "metadata"})
    /\ LET calls == CallsOf(q.req)
           done == Len(q.got)
           last == IF done + Batch < Len(calls) THEN done + Batch ELSE Len(calls)
           got == q.got \o [k \in 1 .. last - done |-> world[calls[done + k]]]
       IN  ReadReply(got, IF last = Len(calls) THEN ToAnswer(q.req, got) ELSE Unanswered)

\* native_balance, erc20_balance, owner_of, code ...: one eth_call; a revert or
\* an empty return is an RPC error that will not go away.
Single ==
    /\ Reading({"single"})
    /\ LET r == world[<<"value">>]
       IN  ReadReply(<<r>>, IF DecodeU256(r) = None THEN RpcErr("Read", "fatal") ELSE Ok(r.data))

-----------------------------------------------------------------------------
\* none_or_err: what a lookup that found nothing becomes.
NoneOrErr(miss) ==
    IF miss = "OffchainLookup" THEN Err("Ens", "OffchainLookupRequired", FALSE) ELSE Ok(None)

\* resolve_name: the zero address is no address.
Resolve ==
    /\ Reading({"resolve"})
    /\ LET r == world[<<"forward", q.req.name>>]
       IN  ReadReply(<<r>>, CASE r \in Holders -> Ok(Some(r))
                         [] r = Zero -> Ok(None)
                         [] OTHER -> NoneOrErr(r))

Text ==
    /\ Reading({"text"})
    /\ LET r == world[<<"text", q.req.name>>]
       IN  ReadReply(<<r>>, CASE r = "" -> Ok(None)
                         [] r \in EnsMisses -> NoneOrErr(r)
                         [] OTHER -> Ok(Some(r)))

\* reverse_lookup's first call: the name the address claims.
ClaimedName ==
    /\ Reading({"reverse"}) /\ q.got = <<>>
    /\ LET r == world[<<"reverse", q.req.address>>]
       IN  ReadReply(<<r>>, IF r \in Names THEN Unanswered ELSE NoneOrErr(r))

\* A mutant: any address the name resolves to will do.
ForwardVerifyAny ==
    /\ Reading({"reverse"}) /\ q.got # <<>>
    /\ LET name == q.got[1]
           r == world[<<"forward", name>>]
       IN  ReadReply(Append(q.got, r), CASE r \in Holders -> Ok(Some(name))
                                    [] r = Zero -> Ok(None)
                                    [] OTHER -> NoneOrErr(r))

\* Its second: the claim stands only if the name resolves back.
ForwardVerify ==
    /\ Reading({"reverse"}) /\ q.got # <<>>
    /\ LET name == q.got[1]
           r == world[<<"forward", name>>]
       IN  ReadReply(Append(q.got, r), CASE r = q.req.address -> Ok(Some(name))
                                    [] r \in (Holders \ {q.req.address}) \cup {Zero} -> Ok(None)
                                    [] OTHER -> NoneOrErr(r))

-----------------------------------------------------------------------------
\* ChainlinkPrice::price: the feed's decimals, then its latest round, then the
\* clock.
FeedDecimals ==
    /\ Reading({"price"}) /\ q.got = <<>>
    /\ ReadReply(<<world[<<"scale">>]>>, Unanswered)

\* to_price: a round that is incomplete, from the future or not positive is a
\* bad feed, one older than the feed's window is stale.
ToPrice(round, decimals, now) ==
    IF round.id = 0 \/ round.updated_at = 0 \/ round.updated_at > now \/ round.answer <= 0
    THEN Err("Pricing", "Feed", FALSE)
    ELSE IF now - round.updated_at > MaxAge THEN Err("Pricing", "Stale", FALSE)
    ELSE Ok(Some([value |-> round.answer, decimals |-> decimals,
                  updated_at |-> round.updated_at]))

LatestRound ==
    /\ Reading({"price"}) /\ q.got # <<>>
    /\ ReadReply(q.got, ToPrice(world[<<"round">>], q.got[1], world[<<"now">>]))

-----------------------------------------------------------------------------
\* decode_revert: the outcome of a call, by what its revert data decode to.
Outcomes == {"returned", "Error", "Panic", "malformed", "Custom", "short"}
DecodeRevert(outcome) == IF outcome \in {"malformed", "short"} THEN "Unknown" ELSE outcome

\* dry_run: eth_call, whose revert is an outcome and no error, ...
PreviewCall ==
    /\ Reading({"preview"}) /\ Len(q.got) = 0
    /\ ReadReply(<<world[<<"outcome">>]>>, Unanswered)

\* ... then eth_estimateGas, which fails on a call that reverts now, ...
PreviewGas ==
    /\ Reading({"preview"}) /\ Len(q.got) = 1
    /\ ReadReply(Append(q.got, IF world[<<"outcome">>] = "returned" THEN Some("gas") ELSE None), Unanswered)

ToPreview(got) ==
    Ok([outcome |-> IF got[1] = "returned" THEN "Success" ELSE DecodeRevert(got[1]),
        gas_estimate |-> got[2], access_list |-> got[3]])

\* ... then eth_createAccessList, which a node may not have.
PreviewAccessList ==
    /\ Reading({"preview"}) /\ Len(q.got) = 2
    /\ \E list \in {None, Some("list")} :
          LET got == Append(q.got, list) IN ReadReply(got, ToPreview(got))

-----------------------------------------------------------------------------
\* The extras of a preview degrade to None, ...
PreviewExtraFails(fault) ==
    /\ Reading({"preview"}) /\ Len(q.got) \in {1, 2}
    /\ LET got == Append(q.got, None)
       IN  Fails(fault, [q EXCEPT !.got = got], IF Len(got) = 3 THEN ToPreview(got) ELSE Unanswered)

\* A mutant: an ENS lookup that fails is one that found nothing.
ReadFailsQuietly(fault) ==
    /\ ~Answered /\ q.op # "discover" /\ ~(q.op = "preview" /\ Len(q.got) > 0)
    /\ Fails(fault, q, IF PortOf(q.op) = "Ens" THEN Ok(None) ELSE RpcErr(PortOf(q.op), fault))

\* ... every other RPC that fails ends its operation with the transport's error.
ReadFails(fault) ==
    /\ ~Answered /\ q.op # "discover" /\ ~(q.op = "preview" /\ Len(q.got) > 0)
    /\ Fails(fault, q, RpcErr(PortOf(q.op), fault))

ReadsNext ==
    \/ Aggregate \/ Single \/ Resolve \/ Text \/ ClaimedName \/ ForwardVerify
    \/ FeedDecimals \/ LatestRound \/ PreviewCall \/ PreviewGas \/ PreviewAccessList
    \/ \E fault \in Faults : PreviewExtraFails(fault) \/ ReadFails(fault)

-----------------------------------------------------------------------------
\* The values a chain can give to a fact.
Values(f) ==
    CASE f[1] = "native"   -> {Result(TRUE, 0), Result(TRUE, 1)}
      [] f[1] \in {"balance", "value"} -> Words
      [] f[1] \in {"name", "symbol"}   -> Strings
      [] f[1] = "decimals" -> Decimals
      [] f[1] = "forward"  -> Holders \cup {Zero} \cup EnsMisses
      [] f[1] = "text"     -> {"", "record"} \cup EnsMisses
      [] f[1] = "reverse"  -> Names \cup EnsMisses
      [] f[1] = "scale"    -> {8, 18}
      [] f[1] = "round"    -> [id : 0 .. 1, answer : {-1, 0, 1}, updated_at : Now]
      [] f[1] = "now"      -> Now
      [] f[1] = "outcome"  -> Outcomes

\* The chains an operation may begin on: the facts it may read, each with one
\* of its values.
Fact(f)    == [{f} -> Values(f)]
Join(S, T) ==
    UNION {{[f \in DOMAIN s \cup DOMAIN t |-> IF f \in DOMAIN s THEN s[f] ELSE t[f]] : s \in S} : t \in T}
Worlds(r) ==
    CASE r.op = "balances" -> Join(Fact(<<"native">>), [{<<"balance", t>> : t \in Range(r.tokens)} -> Words])
      [] r.op = "metadata" -> Join(Fact(<<"name", r.token>>),
                                   Join(Fact(<<"symbol", r.token>>), Fact(<<"decimals", r.token>>)))
      [] r.op = "single"   -> Fact(<<"value">>)
      [] r.op = "resolve"  -> Fact(<<"forward", r.name>>)
      [] r.op = "text"     -> Fact(<<"text", r.name>>)
      [] r.op = "reverse"  -> Join(Fact(<<"reverse", r.address>>),
                                   [{<<"forward", n>> : n \in Names} -> Holders \cup {Zero} \cup EnsMisses])
      [] r.op = "price"    -> Join(Fact(<<"scale">>), Join(Fact(<<"round">>), Fact(<<"now">>)))
      [] r.op = "preview"  -> Fact(<<"outcome">>)

\* The clock only moves forward; everything else may become anything.
FactChanges ==
    /\ ~Answered /\ q.op # "discover"
    /\ \E f \in DOMAIN world : \E v \in Values(f) :
          /\ f = <<"now">> => v > world[f]
          /\ Change(f, v)

ReadsInit == \E r \in Requests : \E w \in Worlds(r) : Begin(StartRead(r), FirstAnswer(r), w)

-----------------------------------------------------------------------------
Is(op) == q.op = op /\ Succeeded

\* balances' answer has the tokens asked for in their order, each with what its
\* own balanceOf gave while the call ran, over however many round-trips; a
\* token that reverts or does not decode is a token without a balance and fails
\* nothing else.
BalancesAligned ==
    q.op = "balances" =>
        /\ Failed => met # <<>>
        /\ Succeeded =>
              /\ Result(TRUE, answer.v.native) \in seen[<<"native">>]
              /\ Len(answer.v.tokens) = Len(q.req.tokens)
              /\ \A k \in 1 .. Len(q.req.tokens) :
                    LET t == answer.v.tokens[k]
                    IN  /\ t.token = q.req.tokens[k]
                        /\ \E r \in seen[<<"balance", t.token>>] : t.balance = DecodeU256(r)

\* A name is answered only if it was claimed by the address and resolved back
\* to it; None only if one of the two failed while the lookup ran.
NameTrue ==
    LET claimed == seen[<<"reverse", q.req.address>>]
    IN  IF answer.v.some
        THEN /\ answer.v.v \in claimed
             /\ q.req.address \in seen[<<"forward", answer.v.v>>]
        ELSE \/ claimed \cap EnsMisses # {}
             \/ \E n \in claimed \cap Names : seen[<<"forward", n>>] # {q.req.address}

\* A price is a complete positive round the feed has had, no older than its
\* window when it is returned.
PriceTrue ==
    \E r \in seen[<<"round">>] :
        /\ r.id # 0 /\ r.answer > 0 /\ r.updated_at # 0
        /\ answer.v.v.value = r.answer /\ answer.v.v.updated_at = r.updated_at
        /\ world[<<"now">>] - r.updated_at \in 0 .. MaxAge

\* A preview's outcome and gas estimate were each the call's at a time; both
\* can only disagree if the chain moved between them.
PreviewTrue ==
    /\ answer.v.outcome = "Success" => "returned" \in seen[<<"outcome">>]
    /\ answer.v.outcome # "Success" =>
          \E o \in seen[<<"outcome">>] \ {"returned"} : DecodeRevert(o) = answer.v.outcome
    /\ answer.v.gas_estimate.some => "returned" \in seen[<<"outcome">>]
    /\ ~answer.v.gas_estimate.some => met # <<>> \/ seen[<<"outcome">>] # {"returned"}

\* Every part of a reverse lookup's, a price's and a preview's answer was true
\* of the chain at a moment between the call and its return, though its RPCs
\* read different moments (ens.rs, chainlink.rs, preview.rs).
AnswersWereTrue ==
    /\ Is("reverse") => NameTrue
    /\ Is("price") => PriceTrue
    /\ Is("preview") => PreviewTrue
    /\ Is("resolve") /\ answer.v.some => answer.v.v \in seen[<<"forward", q.req.name>>] \ {Zero}

\* A failed RPC is never taken for an empty answer, and its classification
\* survives every conversion on the way to the caller: an error is Retryable
\* exactly when the transport failed for a moment (ens.rs none_or_err,
\* multicall.rs contract_error, error.rs kind).  A preview's extras and a scan
\* (which says partial) are the two that go on without.
FaultsSurface ==
    /\ (Succeeded /\ met # <<>>) =>
          \/ q.op = "preview"
          \/ q.op = "discover" /\ answer.v.partial
    /\ Failed => (Kind(answer.err) = "Retryable" <=> "transient" \in Range(met) /\ q.op # "discover")
=============================================================================
