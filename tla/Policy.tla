------------------------------- MODULE Policy -------------------------------
(***************************************************************************)
(* The pre-sign gate: the payloads a wallet signs (SigningRequest), the    *)
(* native engine's rules and their fold (adapters/policy/native.rs) and    *)
(* the MoonPay engine's two layers (adapters/policy/moonpay.rs, wasm.rs).  *)
(*                                                                         *)
(* A request is a record of what the rules tell apart; an engine is a      *)
(* record of its rules, of what its executable answers (MoonPay), and of   *)
(* the fee envelope it grants.                                             *)
(***************************************************************************)
EXTENDS Integers, Sequences, Functions

\* Recipients that are not a listed address.
Self   == "Self"      \* the account itself
Create == "Create"    \* contract creation

IsIntent(r) == r.kind \in {"Transaction", "Cancel"}

\* A zero-value transfer to oneself with no calldata.
IsSelfSend(r) == r.to = Self /\ r.value = 0 /\ ~r.calldata

\* signing_hash: only typed data can fail, without a chain or an encoding.
Hashable(r) == r.kind = "TypedData" => r.chain # 0 /\ r.encodes

-----------------------------------------------------------------------------
(* The native engine *)

\* One rule's verdict: the allowlists grant or abstain, the limit denies or
\* abstains.
Check(rule, r) ==
    CASE rule.rule = "TargetAllowlist" ->
            IF r.kind = "Transaction" /\ r.to \in rule.listed THEN "Allow" ELSE "Abstain"
      [] rule.rule = "SpendLimit" ->
            IF r.kind = "Transaction" /\ r.value > rule.max THEN "Deny" ELSE "Abstain"
      [] rule.rule = "MessageSigningAllowed" ->
            IF r.kind = "Message" THEN "Allow" ELSE "Abstain"
      [] rule.rule = "TypedDataDomainAllowlist" ->
            IF r.kind = "TypedData" /\ r.contract \in rule.listed THEN "Allow" ELSE "Abstain"
      [] rule.rule = "AllowAll" -> "Allow"

\* Mutant: the first rule with an opinion decides.
DecideFirstOpinion(rules, r) ==
    LET from[i \in 1 .. Len(rules) + 1] ==
          IF i > Len(rules) THEN "Deny"
          ELSE IF Check(rules[i], r) = "Abstain" THEN from[i + 1]
          ELSE Check(rules[i], r)
    IN  from[1]

\* One turn of decide_outcome's loop: a denial ends it, a grant is remembered.
Heed(said, verdict) ==
    IF "Deny" \in {said, verdict} THEN "Deny" ELSE IF verdict = "Allow" THEN "Allow" ELSE said

\* The loop: after[k] is what the first k rules say.
Say(rules, r) ==
    LET after[k \in 0 .. Len(rules)] ==
          IF k = 0 THEN "Abstain" ELSE Heed(after[k - 1], Check(rules[k], r))
    IN  after[Len(rules)]

\* decide_outcome: no denial, and something granted it, save a self-send cancel;
\* a payload without a hash is denied.
Decide(rules, r) ==
    LET said == Say(rules, r)
        cancel_ok == r.kind = "Cancel" /\ IsSelfSend(r)
    IN  IF (said = "Allow" \/ (said = "Abstain" /\ cancel_ok)) /\ Hashable(r) THEN "Allow" ELSE "Deny"

-----------------------------------------------------------------------------
(* The MoonPay engine *)

\* What a rule of the policy document becomes: typed-data rules and rules of
\* a type the engine does not know are dropped when it is loaded.
Applicable(rules) == {rule \in Range(rules) : rule.rule \in {"AllowedChains", "ExpiresAt"}}

Violated(rule, r, now) ==
    CASE rule.rule = "AllowedChains" -> r.chain \notin rule.chains
      [] rule.rule = "ExpiresAt"     -> now > rule.at

\* Run the plugin: a trap, an exit code, spent fuel or an answer that does not
\* parse is an error, never a verdict.
RunExecutable(executable) ==
    CASE executable = "none"  -> "Allow"
      [] executable = "allow" -> "Allow"
      [] executable = "deny"  -> "Deny"
      [] executable = "fails" -> "Err"

EvaluateMoonPay(engine, r, now) ==
    IF ~(r.kind = "Transaction" \/ (r.kind = "Cancel" /\ IsSelfSend(r))) THEN "Deny"
    ELSE IF \E rule \in Applicable(engine.rules) : Violated(rule, r, now) THEN "Deny"
    ELSE RunExecutable(engine.executable)

-----------------------------------------------------------------------------

\* evaluate: allow, deny or an operational failure.  validate answers the
\* same and mints nothing.
Evaluate(engine, r, now) ==
    IF engine.engine = "native" THEN Decide(engine.rules, r)
                                ELSE EvaluateMoonPay(engine, r, now)

-----------------------------------------------------------------------------
(* What the rules mean, said without an order *)

\* "Deny-over-allow under default-deny" (native.rs:1-3): no rule objects, one
\* grants or it is a self-send cancel, and the payload has a hash.
NativePermits(rules, r) ==
    LET verdicts == {Check(rules[i], r) : i \in DOMAIN rules}
    IN  /\ "Deny" \notin verdicts
        /\ "Allow" \in verdicts \/ (r.kind = "Cancel" /\ IsSelfSend(r))
        /\ r.kind = "TypedData" => r.chain > 0 /\ r.encodes

\* "A violated declarative rule denies immediately ... any executable
\* trap/timeout/bad-output is fail-closed" (moonpay.rs:14-17).
MoonPayPermits(engine, r, now) ==
    /\ IsIntent(r) /\ (r.kind = "Cancel" => IsSelfSend(r))
    /\ \A i \in DOMAIN engine.rules :
          LET rule == engine.rules[i]
          IN  /\ rule.rule = "AllowedChains" => r.chain \in rule.chains
              /\ rule.rule = "ExpiresAt" => now <= rule.at
    /\ engine.executable \in {"none", "allow"}

Permits(engine, r, now) ==
    IF engine.engine = "native" THEN NativePermits(engine.rules, r)
                                ELSE MoonPayPermits(engine, r, now)
=============================================================================
