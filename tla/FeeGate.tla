------------------------------ MODULE FeeGate ------------------------------
(***************************************************************************)
(* What is signed and what it may cost: the policy engine (Policy,         *)
(* adapters/policy/) allows a request for a time and within a fee envelope *)
(* (PolicyApproval, primitives/policy.rs), LocalSigner (adapters/          *)
(* signers.rs) checks both, RpcGasOracle (adapters/gas_oracle.rs) prices a *)
(* transaction and its replacements, and the executor's bump (executor/    *)
(* mod.rs:380-479) goes on with a cached approval or asks again.           *)
(*                                                                         *)
(* Time, the base fee and the policy move under the wallet: a deployment   *)
(* may be restarted with other rules, an executable or an expiry may turn  *)
(* against the intent.  Whole wei amounts; a time step is a unit of TTL.   *)
(***************************************************************************)
EXTENDS Policy

CONSTANTS
    Top,       \* u128::MAX
    Ceiling,   \* ceiling_max_fee
    Ttl,       \* life of an approval
    Estimates, \* the fees estimate may return
    BaseFees,  \* the base fees the chain may have
    Engines,   \* the policy engines a deployment may run, one at a time
    Requests,  \* what the wallet may be asked to sign
    MaxTime    \* bound: the clock stops here

\* A fee estimate never tips more than it offers (alloy's estimator), and the
\* ceiling is far from where saturating_mul would bite (2^128 wei / 110).
ASSUME FeeGateAssumption ==
    /\ Top \in Nat /\ Ceiling \in Nat /\ Ttl \in Nat /\ MaxTime \in Nat
    /\ Ceiling * 110 <= Top
    /\ BaseFees \subseteq Nat
    /\ Estimates \subseteq [fee : 0 .. Top - 1, tip : 0 .. Top - 1]
    /\ \A e \in Estimates : e.tip <= e.fee
    /\ \A e \in Engines :
          /\ e.env \in [fee : Nat, tip : Nat] /\ e.rules \in Seq(Range(e.rules))
          /\ e.executable \in {"none", "allow", "deny", "fails"}
          /\ \A rule \in Range(e.rules) : rule.rule = "ExpiresAt" => rule.at \in Int
    /\ \A r \in Requests :
          /\ {"kind", "to", "value", "calldata", "chain"} \subseteq DOMAIN r
          /\ r.kind \in {"Transaction", "Cancel", "Message", "TypedData"} /\ r.chain \in Nat

VARIABLES
    now,      \* the clock, unix seconds
    base,     \* the chain's base fee
    policy,   \* the engine the wallet runs with
    request,  \* what it is asked to sign
    stage,    \* none, approved, cancelling, live (signed and persisted), bumping, done
    tx,       \* the fees of the signed transaction
    envelope, \* the handle's envelope
    cached,   \* the approval at hand: the send's, then the executor's cache
    bump,     \* the bump under way: the time it goes by and its fees
    allowedAt \* when the engine last allowed the request

vars == <<now, base, policy, request, stage, tx, envelope, cached, bump, allowedAt>>

NoFees     == [fee |-> 0, tip |-> 0]
NoApproval == [valid_until |-> -1, env |-> NoFees]
Fees       == [fee : Nat, tip : Nat]
Approvals  == [valid_until : Int, env : Fees]
NoBump     == [now |-> 0, fees |-> NoFees]

TypeOK ==
    /\ now \in 0 .. MaxTime /\ base \in BaseFees
    /\ policy \in Engines /\ request \in Requests
    /\ stage \in {"none", "approved", "cancelling", "live", "bumping", "done"}
    /\ tx \in Fees /\ envelope \in Fees
    /\ cached \in Approvals /\ bump \in [now : 0 .. MaxTime, fees : Fees]
    /\ allowedAt \in -1 .. MaxTime

Init ==
    /\ now = 0 /\ base \in BaseFees /\ policy \in Engines /\ request \in Requests
    /\ stage = "none" /\ tx = NoFees /\ envelope = NoFees /\ cached = NoApproval
    /\ bump = NoBump /\ allowedAt = -1

-----------------------------------------------------------------------------
(* RpcGasOracle *)

AtMost(a, b) == IF a <= b THEN a ELSE b
AtLeast(a, b) == IF a >= b THEN a ELSE b

\* Mutant: the percentage alone, rounded down.
RbfFloor(old) == (AtMost(old * 110, Top)) \div 100

\* saturating_mul(110).div_ceil(100).max(old + 1)
Rbf(old) == AtLeast((AtMost(old * 110, Top) + 99) \div 100, old + 1)

\* bump: geth's price bump on both fields, and twice the base fee plus tip.
BumpFees(prev, b) ==
    [fee |-> AtLeast(Rbf(prev.fee), AtMost(AtMost(b * 2, Top) + Rbf(prev.tip), Top)),
     tip |-> Rbf(prev.tip)]

WithinCeiling(fees) == fees.fee <= Ceiling

-----------------------------------------------------------------------------
(* PolicyApproval and the signer's gate *)

Admits(env, fees) == fees.fee <= env.fee /\ fees.tip <= env.tip

Mint == [valid_until |-> now + Ttl, env |-> policy.env]

\* The engine is asked and allows; a denial and an error end the call alike.
Authorize(r) == Evaluate(policy, r, now) = "Allow"

\* Mutant: the signer does not look at the clock.
GateNoExpiry(approval, fees, t) == Admits(approval.env, fees)

\* gate and the fee check of sign_transaction; t is the caller's idea of now.
Gate(approval, fees, t) == t <= approval.valid_until /\ Admits(approval.env, fees)

-----------------------------------------------------------------------------
(* send, cancel, sign_message, sign_typed_data *)

\* A transaction's fees are estimated, then the policy is asked; the other
\* requests ask first.
Approve ==
    /\ stage = "none"
    /\ Authorize(request)
    /\ tx' \in IF request.kind = "Transaction" THEN Estimates ELSE {NoFees}
    /\ cached' = Mint /\ allowedAt' = now
    /\ stage' = "approved"
    /\ UNCHANGED <<now, base, policy, request, envelope, bump>>

\* A nonce later, sign; the approval's envelope becomes the handle's.
SendSign ==
    /\ stage = "approved" /\ request.kind = "Transaction"
    /\ IF Gate(cached, tx, now)
       THEN stage' = "live" /\ envelope' = cached.env /\ UNCHANGED tx
       ELSE stage' = "none" /\ tx' = NoFees /\ UNCHANGED envelope
    /\ cached' = NoApproval
    /\ UNCHANGED <<now, base, policy, request, bump, allowedAt>>

\* cancel reads the clock, then prices itself over the target: its fees, or
\* those of a target re-priced meanwhile.
CancelPrice ==
    /\ stage = "approved" /\ request.kind = "Cancel"
    /\ \E target \in Estimates : bump' = [now |-> now, fees |-> BumpFees(target, base)]
    /\ stage' = "cancelling"
    /\ UNCHANGED <<now, base, policy, request, tx, envelope, cached, allowedAt>>

CancelSign ==
    /\ stage = "cancelling"
    /\ IF WithinCeiling(bump.fees) /\ Gate(cached, bump.fees, bump.now)
       THEN stage' = "live" /\ envelope' = cached.env /\ tx' = bump.fees
       ELSE stage' = "none" /\ UNCHANGED <<tx, envelope>>
    /\ cached' = NoApproval /\ bump' = NoBump
    /\ UNCHANGED <<now, base, policy, request, allowedAt>>

\* A message or typed data: the gate has no fees to look at.
SignPayload ==
    /\ stage = "approved" /\ ~IsIntent(request)
    /\ stage' = IF now <= cached.valid_until THEN "done" ELSE "none"
    /\ cached' = NoApproval
    /\ UNCHANGED <<now, base, policy, request, tx, envelope, bump, allowedAt>>

-----------------------------------------------------------------------------
(* bump *)

\* Mutant: a self-send is re-evaluated like any other transaction.
BumpRequestPlain(r) == [r EXCEPT !.kind = "Transaction"]

\* What a bump asks to have signed: a stuck self-send is a cancel.
BumpRequest(r) == [r EXCEPT !.kind = IF IsSelfSend(r) THEN "Cancel" ELSE "Transaction"]

\* bump_approval: the cached approval while it holds, else a fresh one, if the
\* policy still allows the intent at these fees.
BumpApprovals(fees, t) ==
    IF cached.valid_until >= t /\ Admits(cached.env, fees)
    THEN {cached}
    ELSE {a \in {Mint} : Authorize(BumpRequest(request)) /\ Admits(a.env, fees)}

\* Mutant: the approval's own envelope bounds the bump, not the handle's.
MayBumpAnyEnvelope(fees) == WithinCeiling(fees)

\* The oracle's ceiling and the originally approved envelope.
MayBump(fees) == WithinCeiling(fees) /\ Admits(envelope, fees)

\* escalate reads the clock once and then awaits the nonce and the base fee.
BumpStart ==
    /\ stage = "live"
    /\ stage' = "bumping"
    /\ bump' = [now |-> now, fees |-> BumpFees(tx, base)]
    /\ UNCHANGED <<now, base, policy, request, tx, envelope, cached, allowedAt>>

\* The replacement is signed, broadcast and persisted and its approval cached.
BumpSign ==
    /\ stage = "bumping"
    /\ MayBump(bump.fees)
    /\ \E a \in BumpApprovals(bump.fees, bump.now) :
          /\ Gate(a, bump.fees, bump.now)
          /\ tx' = bump.fees /\ cached' = a
          /\ allowedAt' = IF a = cached THEN allowedAt ELSE now
    /\ stage' = "live" /\ bump' = NoBump
    /\ UNCHANGED <<now, base, policy, request, envelope>>

\* One of the limits, the policy or a call that fails leaves the tx as it is.
BumpHalts ==
    /\ stage = "bumping"
    /\ stage' = "live" /\ bump' = NoBump
    /\ UNCHANGED <<now, base, policy, request, tx, envelope, cached, allowedAt>>

Settle ==
    /\ stage = "live"
    /\ stage' = "done" /\ cached' = NoApproval
    /\ UNCHANGED <<now, base, policy, request, tx, envelope, bump, allowedAt>>

\* The cache is in memory only.
Restart ==
    /\ stage \in {"live", "bumping"}
    /\ stage' = "live" /\ cached' = NoApproval /\ bump' = NoBump
    /\ UNCHANGED <<now, base, policy, request, tx, envelope, allowedAt>>

-----------------------------------------------------------------------------
(* What moves outside *)

TimePasses ==
    /\ now < MaxTime
    /\ now' = now + 1
    /\ UNCHANGED <<base, policy, request, stage, tx, envelope, cached, bump, allowedAt>>

BaseFeeMoves ==
    /\ stage # "done"
    /\ base' \in BaseFees
    /\ UNCHANGED <<now, policy, request, stage, tx, envelope, cached, bump, allowedAt>>

PolicyChanges ==
    /\ stage # "done"
    /\ policy' \in Engines
    /\ UNCHANGED <<now, base, request, stage, tx, envelope, cached, bump, allowedAt>>

Next ==
    \/ Approve \/ SendSign \/ CancelPrice \/ CancelSign \/ SignPayload \/ BumpStart \/ BumpSign \/ BumpHalts \/ Settle \/ Restart
    \/ TimePasses \/ BaseFeeMoves \/ PolicyChanges

Spec == Init /\ [][Next]_vars

\* The executor ticks again and again; its bumps come to an end and are not
\* cut short by a restart every time (hence SF).
FairSpec == Spec /\ WF_vars(BumpStart) /\ SF_vars(BumpSign) /\ WF_vars(BumpHalts)

-----------------------------------------------------------------------------
(* Properties *)

\* What geth asks of a replacement: more on both fields, and 10% more rounded
\* down (the rule gas_oracle.rs:39-41 names).
Replaces(new, old) ==
    /\ new.fee > old.fee /\ new.tip > old.tip
    /\ new.fee >= (old.fee * 110) \div 100
    /\ new.tip >= (old.tip * 110) \div 100

\* Every replacement the executor signs is one a node accepts in place of the
\* previous one (gas_oracle.rs:38-49).
EachBumpReplaces == [][stage = "bumping" /\ tx' # tx => Replaces(tx', tx)]_vars

\* No chain of bumps makes a transaction that tips more than it offers, which
\* a node would refuse (gas_oracle.rs:51-56).
TipWithinFee == tx.tip <= tx.fee

\* "The originally-approved envelope is a hard per-intent spend ceiling"
\* (executor/mod.rs:400-402): also after restarts, fresh approvals and
\* policies that have since become more generous.
WithinOriginalEnvelope ==
    stage \in {"live", "bumping", "done"} => Admits(envelope, tx)

\* A signature, and the time its caller went by.
Signs ==
    \/ stage \in {"approved", "cancelling"} /\ stage' \in {"live", "done"}
    \/ stage = "bumping" /\ tx' # tx
SigningTime == IF stage \in {"bumping", "cancelling"} THEN bump.now ELSE now

\* Every signature goes by an approval no older than its time to live at the
\* time the signing call took for now (signers.rs:96-110): what the policy
\* allowed is not signed later than that, whatever it says by then.
SignedWhileAllowed == [][Signs => SigningTime - allowedAt' <= Ttl]_vars

\* An approval exists only for what the rules in force permit, whatever their
\* order, the shape of the payload, the clock and the plugin's answer: no rule
\* objects, one grants, an error grants nothing (native.rs:175-202,
\* moonpay.rs:112-175), for a first signature and for a bump.
OnlyPermittedApproved ==
    [][cached' \notin {cached, NoApproval} =>
          LET asked == IF stage = "none" THEN request ELSE BumpRequest(request)
          IN  Permits(policy, asked, now)]_vars

\* valid_until is the time "after which the approval expires and policy must
\* run again" (primitives/policy.rs:62): the same by the clock on the wall.
\* TLC refutes it (README, Known divergences).
SignedBeforeExpiry == [][Signs => now - allowedAt' <= Ttl]_vars

\* The next bump is within the limits, at any base fee, and allowed in the
\* shape the request was made in.
Allowed(fees) == Permits(policy, request, now) /\ Admits(policy.env, fees)
Wanted ==
    /\ stage \in {"live", "bumping"}
    /\ \A b \in BaseFees : MayBump(BumpFees(tx, b)) /\ Allowed(BumpFees(tx, b))

\* "A lapsed TTL can't wedge RBF" (executor/mod.rs:446-449): while the policy
\* allows the next bump and the limits admit it, bumps go on until the limits
\* no longer do, however often approvals expire or are lost.
NeverWedged == []<>~Wanted

\* "A bump beyond it must be re-evaluated" (primitives/policy.rs:5-7): a bump
\* the policy now allows is made even if it is beyond the first envelope.
\* TLC refutes it (README, Known divergences).
BeyondIsReevaluated ==
    []<>~ /\ stage \in {"live", "bumping"}
          /\ \A b \in BaseFees : /\ WithinCeiling(BumpFees(tx, b))
                                 /\ Allowed(BumpFees(tx, b))
=============================================================================
