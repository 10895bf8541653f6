---------------------------- MODULE FeeGateProofs ----------------------------
(***************************************************************************)
(* For every fee estimate, base fee, envelope, ceiling and time to live:   *)
(* each bump is a replacement a node accepts, and no chain of bumps goes   *)
(* past the envelope the intent was first approved with.                   *)
(***************************************************************************)
EXTENDS FeeGate, WellFoundedInduction, TLAPS

\* The replacement price of a field is a whole amount above the old one and
\* clears 110% of it, as long as the multiplication does not saturate.
LEMMA RbfClears ==
    ASSUME NEW old \in Nat
    PROVE  /\ Rbf(old) \in Nat
           /\ Rbf(old) > old
           /\ old * 110 <= Top => Rbf(old) >= (old * 110) \div 100
BY FeeGateAssumption DEF Rbf, AtLeast, AtMost

\* Rbf preserves the order of the two fields.
LEMMA RbfMonotone ==
    ASSUME NEW a \in Nat, NEW b \in Nat, a <= b
    PROVE  Rbf(a) <= Rbf(b)
BY FeeGateAssumption DEF Rbf, AtLeast, AtMost

\* What bump makes of well-formed fees below the ceiling.
LEMMA BumpFeesReplace ==
    ASSUME NEW prev \in Fees, NEW b \in Nat, prev.tip <= prev.fee
    PROVE  LET new == BumpFees(prev, b)
           IN  /\ new \in Fees
               /\ new.tip <= new.fee
               /\ WithinCeiling(new) => Replaces(new, prev)
<1> DEFINE new == BumpFees(prev, b)
           cover == AtMost(AtMost(b * 2, Top) + Rbf(prev.tip), Top)
<1>1. prev.fee \in Nat /\ prev.tip \in Nat
  BY DEF Fees
<1>2. /\ Rbf(prev.fee) \in Nat /\ Rbf(prev.tip) \in Nat
      /\ Rbf(prev.fee) > prev.fee /\ Rbf(prev.tip) > prev.tip
      /\ Rbf(prev.tip) <= Rbf(prev.fee)
      /\ prev.fee * 110 <= Top => Rbf(prev.fee) >= (prev.fee * 110) \div 100
      /\ prev.tip * 110 <= Top => Rbf(prev.tip) >= (prev.tip * 110) \div 100
  BY <1>1, RbfClears, RbfMonotone
<1>3. new = [fee |-> AtLeast(Rbf(prev.fee), cover), tip |-> Rbf(prev.tip)]
  BY DEF BumpFees
<1>4. cover \in Nat
  BY <1>2, FeeGateAssumption DEF AtMost
<1>5. new.fee \in Nat /\ new.fee >= Rbf(prev.fee) /\ new.tip = Rbf(prev.tip)
  BY <1>2, <1>3, <1>4 DEF AtLeast
<1>6. new \in Fees
  BY <1>2, <1>3, <1>4 DEF AtLeast, Fees
<1>7. new.tip <= new.fee
  BY <1>2, <1>5
<1>8. ASSUME WithinCeiling(new) PROVE Replaces(new, prev)
  <2>1. new.fee <= Ceiling
    BY <1>8 DEF WithinCeiling
  <2>2. prev.fee * 110 <= Top /\ prev.tip * 110 <= Top
    BY <1>1, <1>2, <1>5, <2>1, FeeGateAssumption
  <2>3. /\ Rbf(prev.fee) >= (prev.fee * 110) \div 100
        /\ Rbf(prev.tip) >= (prev.tip * 110) \div 100
    BY <1>2, <2>2
  <2>4. (prev.fee * 110) \div 100 \in Int /\ (prev.tip * 110) \div 100 \in Int
    BY <1>1
  <2> HIDE DEF new
  <2> QED BY <1>1, <1>2, <1>5, <2>3, <2>4 DEF Replaces
<1> HIDE DEF new
<1> QED BY <1>6, <1>7, <1>8 DEF new

-----------------------------------------------------------------------------
(* The inductive invariant *)

\* A bump under way replaces the transaction if the ceiling lets it through.
BumpPriced ==
    /\ bump.fees.tip <= bump.fees.fee
    /\ stage = "bumping" /\ WithinCeiling(bump.fees) => Replaces(bump.fees, tx)

\* The approval at hand is a time to live away from the policy's last yes,
\* and the bump under way began in the past.
ApprovalDated ==
    /\ cached = NoApproval \/ cached.valid_until = allowedAt + Ttl
    /\ bump.now <= now

\* What is not a transaction has no fees yet when it is approved.
PayloadFree == stage = "approved" /\ request.kind # "Transaction" => tx = NoFees

FInv ==
    /\ TypeOK /\ TipWithinFee /\ WithinOriginalEnvelope
    /\ BumpPriced /\ ApprovalDated /\ PayloadFree

\* The initial states satisfy the invariant.
LEMMA FInvInit == Init => FInv
BY FeeGateAssumption
   DEF Init, FInv, TypeOK, TipWithinFee, WithinOriginalEnvelope, BumpPriced,
       ApprovalDated, PayloadFree, NoFees, NoApproval, NoBump, Fees, Approvals

\* A fresh approval is an approval.
LEMMA MintType == TypeOK => Mint \in Approvals /\ Mint.valid_until = now + Ttl
BY FeeGateAssumption DEF TypeOK, Mint, Approvals, Fees

\* Every step preserves the invariant.
LEMMA FInvNext == FInv /\ [Next]_vars => FInv'
<1> SUFFICES ASSUME FInv, [Next]_vars PROVE FInv'
  OBVIOUS
<1> USE FeeGateAssumption
<1>t. /\ TypeOK /\ TipWithinFee /\ WithinOriginalEnvelope
      /\ BumpPriced /\ ApprovalDated /\ PayloadFree
  BY DEF FInv
<1>n. now \in Nat /\ Ttl \in Nat
  BY <1>t DEF TypeOK
<1>z. /\ NoApproval \in Approvals /\ NoFees \in Fees /\ NoFees.tip <= NoFees.fee
      /\ NoBump \in [now : 0 .. MaxTime, fees : Fees]
      /\ NoBump.now = 0 /\ NoBump.fees.tip <= NoBump.fees.fee
  BY DEF NoApproval, NoFees, NoBump, Approvals, Fees
<1>1. CASE Approve
  <2>1. tx' \in Fees /\ tx'.tip <= tx'.fee
    BY <1>1, <1>z DEF Approve, Fees
  <2>2. cached' \in Approvals /\ cached'.valid_until = now + Ttl
    BY <1>t, <1>1, MintType DEF Approve
  <2> QED BY <1>t, <1>1, <2>1, <2>2
          DEF Approve, FInv, TypeOK, TipWithinFee, WithinOriginalEnvelope,
              BumpPriced, ApprovalDated, PayloadFree
<1>2. CASE SendSign
  <2>1. cached.env \in Fees
    BY <1>t DEF TypeOK, Approvals
  <2>2. Gate(cached, tx, now) => Admits(cached.env, tx)
    BY DEF Gate
  <2>3. tx' \in Fees /\ tx'.tip <= tx'.fee /\ envelope' \in Fees
    BY <1>t, <1>2, <1>z, <2>1 DEF SendSign, TypeOK, TipWithinFee
  <2>4. WithinOriginalEnvelope'
    BY <1>2, <2>2 DEF SendSign, WithinOriginalEnvelope, Admits
  <2>5. TypeOK'
    BY <1>t, <1>2, <1>z, <2>3 DEF SendSign, TypeOK
  <2>6. BumpPriced' /\ ApprovalDated' /\ PayloadFree'
    BY <1>t, <1>2 DEF SendSign, BumpPriced, ApprovalDated, PayloadFree
  <2> QED BY <2>3, <2>4, <2>5, <2>6 DEF FInv, TipWithinFee
<1>c. CASE CancelPrice
  <2>1. PICK target \in Estimates : bump' = [now |-> now, fees |-> BumpFees(target, base)]
    BY <1>c DEF CancelPrice
  <2>2. base \in Nat /\ target \in Fees /\ target.tip <= target.fee
    BY <1>t DEF TypeOK, Fees
  <2>3. bump'.fees \in Fees /\ bump'.fees.tip <= bump'.fees.fee /\ bump'.now = now
    BY Zenon, <2>1, <2>2, BumpFeesReplace
  <2>4. bump' \in [now : 0 .. MaxTime, fees : Fees]
    BY <1>t, <2>1, <2>3 DEF TypeOK
  <2> QED BY <1>t, <1>n, <1>c, <2>3, <2>4
          DEF CancelPrice, FInv, TypeOK, TipWithinFee, WithinOriginalEnvelope,
              BumpPriced, ApprovalDated, PayloadFree
<1>d. CASE CancelSign
  <2>1. cached.env \in Fees /\ bump.fees \in Fees
    BY <1>t DEF TypeOK, Approvals
  <2>2. Gate(cached, bump.fees, bump.now) => Admits(cached.env, bump.fees)
    BY DEF Gate
  <2>3. tx' \in Fees /\ tx'.tip <= tx'.fee /\ envelope' \in Fees
    BY <1>t, <1>d, <2>1 DEF CancelSign, TypeOK, TipWithinFee, BumpPriced
  <2>4. WithinOriginalEnvelope'
    BY <1>d, <2>2 DEF CancelSign, WithinOriginalEnvelope, Admits
  <2>5. TypeOK'
    BY <1>t, <1>d, <1>z, <2>3 DEF CancelSign, TypeOK
  <2>6. BumpPriced' /\ ApprovalDated' /\ PayloadFree'
    BY <1>t, <1>n, <1>d, <1>z DEF CancelSign, BumpPriced, ApprovalDated, PayloadFree
  <2> QED BY <2>3, <2>4, <2>5, <2>6 DEF FInv, TipWithinFee
<1>e. CASE SignPayload
  <2>1. stage' \in {"done", "none"}
    BY <1>e DEF SignPayload
  <2>2. TypeOK'
    BY <1>t, <1>e, <1>z, <2>1 DEF SignPayload, TypeOK
  <2>3. tx = NoFees /\ Admits(envelope, NoFees)
    BY <1>t, <1>e DEF SignPayload, PayloadFree, IsIntent, TypeOK, Fees, Admits, NoFees
  <2> QED BY <1>t, <1>e, <1>z, <2>1, <2>2, <2>3
          DEF SignPayload, FInv, TipWithinFee, WithinOriginalEnvelope, BumpPriced,
              ApprovalDated, PayloadFree
<1>3. CASE BumpStart
  <2>1. base \in Nat /\ tx \in Fees /\ tx.tip <= tx.fee
    BY Zenon, <1>t DEF TypeOK, TipWithinFee
  <2>2. bump' = [now |-> now, fees |-> BumpFees(tx, base)] /\ tx' = tx
    BY <1>3 DEF BumpStart
  <2>3. /\ bump'.fees \in Fees /\ bump'.fees.tip <= bump'.fees.fee
        /\ WithinCeiling(bump'.fees) => Replaces(bump'.fees, tx)
    BY <2>1, <2>2, BumpFeesReplace
  <2>4. bump' \in [now : 0 .. MaxTime, fees : Fees] /\ bump'.now <= now'
    BY <1>t, <1>3, <2>2, <2>3 DEF BumpStart, TypeOK
  <2>5. BumpPriced'
    BY <2>2, <2>3 DEF BumpPriced, WithinCeiling, Replaces
  <2> QED BY <1>t, <1>3, <2>4, <2>5
          DEF BumpStart, FInv, TypeOK, TipWithinFee, WithinOriginalEnvelope, ApprovalDated, PayloadFree
<1>4. CASE BumpSign
  <2>1. PICK a \in BumpApprovals(bump.fees, bump.now) :
             /\ Gate(a, bump.fees, bump.now)
             /\ tx' = bump.fees /\ cached' = a
             /\ allowedAt' = IF a = cached THEN allowedAt ELSE now
    BY <1>4 DEF BumpSign
  <2>2. a = cached \/ a = Mint
    BY DEF BumpApprovals
  <2>3. a \in Approvals /\ Mint.valid_until = now + Ttl
    BY <1>t, <2>2, MintType DEF TypeOK
  <2>4. a # NoApproval
    BY <1>t, <2>1 DEF Gate, NoApproval, TypeOK
  <2>5. a.valid_until = allowedAt' + Ttl
    <3>1. CASE a = cached
      BY <1>t, <2>1, <2>4, <3>1 DEF ApprovalDated
    <3>2. CASE a # cached
      BY <2>1, <2>2, <2>3, <3>2
    <3> QED BY <3>1, <3>2
  <2>6. Admits(envelope, bump.fees)
    BY <1>4 DEF BumpSign, MayBump
  <2>7. tx' \in Fees /\ tx'.tip <= tx'.fee
    BY <1>t, <1>4, <2>1 DEF BumpSign, TypeOK, BumpPriced
  <2>8. allowedAt' \in -1 .. MaxTime
    BY <1>t, <2>1 DEF TypeOK
  <2>9. NoBump \in [now : 0 .. MaxTime, fees : Fees] /\ NoBump.now = 0
    BY DEF NoBump, NoFees, Fees
  <2>10. Admits(envelope', tx') /\ stage' = "live"
    BY <1>4, <2>1, <2>6 DEF BumpSign
  <2>11. TypeOK'
    BY <1>t, <1>4, <2>1, <2>3, <2>7, <2>8, <2>9 DEF BumpSign, TypeOK
  <2>12. TipWithinFee' /\ WithinOriginalEnvelope' /\ BumpPriced'
    BY <1>4, <1>z, <2>7, <2>10
    DEF BumpSign, TipWithinFee, WithinOriginalEnvelope, BumpPriced
  <2>13. ApprovalDated' /\ PayloadFree'
    BY <1>n, <1>4, <2>1, <2>5, <2>9 DEF BumpSign, ApprovalDated, PayloadFree
  <2> QED BY <2>11, <2>12, <2>13 DEF FInv
<1>5. CASE BumpHalts
  BY <1>t, <1>n, <1>5
  DEF BumpHalts, FInv, TypeOK, TipWithinFee, WithinOriginalEnvelope, BumpPriced,
      ApprovalDated, PayloadFree, NoBump, NoFees, Fees
<1>6. CASE Settle
  BY <1>t, <1>6
  DEF Settle, FInv, TypeOK, TipWithinFee, WithinOriginalEnvelope, BumpPriced,
      ApprovalDated, PayloadFree, NoApproval, Approvals, NoFees, Fees
<1>7. CASE Restart
  BY SMTT(30), <1>t, <1>n, <1>7
  DEF Restart, FInv, TypeOK, TipWithinFee, WithinOriginalEnvelope, BumpPriced,
      ApprovalDated, PayloadFree, NoApproval, Approvals, NoBump, NoFees, Fees
<1>8. CASE TimePasses
  <2>1. BumpPriced'
    BY <1>t, <1>8 DEF TimePasses, BumpPriced, Replaces, WithinCeiling
  <2>2. now' \in 0 .. MaxTime /\ bump'.now <= now'
    BY <1>t, <1>8 DEF TimePasses, TypeOK, ApprovalDated
  <2> QED BY <1>t, <1>8, <2>1, <2>2
          DEF TimePasses, FInv, TypeOK, TipWithinFee, WithinOriginalEnvelope, ApprovalDated, PayloadFree
<1>9. CASE BaseFeeMoves
  BY <1>t, <1>9
  DEF BaseFeeMoves, FInv, TypeOK, TipWithinFee, WithinOriginalEnvelope, BumpPriced,
      ApprovalDated, PayloadFree
<1>10. CASE PolicyChanges
  BY <1>t, <1>10
  DEF PolicyChanges, FInv, TypeOK, TipWithinFee, WithinOriginalEnvelope, BumpPriced,
      ApprovalDated, PayloadFree
<1>11. CASE UNCHANGED vars
  BY <1>t, <1>11
  DEF vars, FInv, TypeOK, TipWithinFee, WithinOriginalEnvelope, BumpPriced,
      ApprovalDated, PayloadFree
<1> QED BY <1>1, <1>2, <1>c, <1>d, <1>e, <1>3, <1>4, <1>5, <1>6, <1>7, <1>8, <1>9, <1>10, <1>11 DEF Next

-----------------------------------------------------------------------------
(* The theorems *)

\* The invariant holds in every reachable state.
THEOREM FInvHolds == Spec => []FInv
<1>1. Init => FInv
  BY FInvInit
<1>2. FInv /\ [Next]_vars => FInv'
  BY FInvNext
<1> QED BY <1>1, <1>2, PTL DEF Spec

\* The first envelope bounds every signed version of an intent, and no bump
\* ever tips more than it offers (executor/mod.rs:400-409, gas_oracle.rs:51-56).
THEOREM EnvelopeForLife == Spec => [](WithinOriginalEnvelope /\ TipWithinFee)
<1>1. FInv => WithinOriginalEnvelope /\ TipWithinFee
  BY DEF FInv
<1> QED BY <1>1, FInvHolds, PTL

\* Every bump clears what a node asks of a replacement (gas_oracle.rs:38-56).
THEOREM BumpsReplace == Spec => EachBumpReplaces
<1>1. FInv /\ [Next]_vars => [stage = "bumping" /\ tx' # tx => Replaces(tx', tx)]_vars
  <2> SUFFICES ASSUME FInv, Next, stage = "bumping", tx' # tx
               PROVE  Replaces(tx', tx)
    BY DEF vars
  <2>1. BumpSign
    BY DEF Next, Approve, SendSign, CancelPrice, CancelSign, SignPayload, BumpStart, BumpHalts, Settle, Restart,
           TimePasses, BaseFeeMoves, PolicyChanges
  <2>2. tx' = bump.fees /\ WithinCeiling(bump.fees)
    BY <2>1 DEF BumpSign, MayBump
  <2> QED BY <2>2 DEF FInv, BumpPriced
<1> QED BY <1>1, FInvHolds, PTL DEF Spec, EachBumpReplaces

\* No signature goes by an approval older than its time to live at the time
\* its caller went by (signers.rs:96-110, executor/mod.rs:450-466).
THEOREM SignaturesAllowed == Spec => SignedWhileAllowed
<1>1. FInv /\ [Next]_vars =>
        [Signs => SigningTime - allowedAt' <= Ttl]_vars
  <2> SUFFICES ASSUME FInv, Next, Signs
               PROVE  SigningTime - allowedAt' <= Ttl
    BY DEF vars
  <2> USE FeeGateAssumption
  <2>t. TypeOK /\ ApprovalDated
    BY DEF FInv
  <2>n. /\ now \in Nat /\ bump.now \in Nat /\ Ttl \in Nat /\ allowedAt \in Int
        /\ bump.now <= now
    BY <2>t DEF TypeOK, ApprovalDated
  <2>1. CASE stage \in {"approved", "cancelling"} /\ stage' \in {"live", "done"}
    <3>1. SendSign \/ CancelSign \/ SignPayload
      BY <2>1 DEF Next, Approve, CancelPrice, BumpStart, BumpSign, BumpHalts, Settle,
                  Restart, TimePasses, BaseFeeMoves, PolicyChanges
    <3>2. SigningTime <= cached.valid_until /\ allowedAt' = allowedAt
      BY <2>1, <3>1 DEF SendSign, CancelSign, SignPayload, Gate, SigningTime
    <3>3. SigningTime \in Nat
      BY <2>n DEF SigningTime
    <3>4. cached # NoApproval
      BY <3>2, <3>3 DEF NoApproval
    <3> QED BY <2>t, <2>n, <3>2, <3>3, <3>4 DEF ApprovalDated
  <2>2. CASE stage = "bumping" /\ tx' # tx
    <3>1. BumpSign
      BY <2>2 DEF Next, Approve, SendSign, CancelPrice, CancelSign, SignPayload, BumpStart, BumpHalts, Settle, Restart,
                  TimePasses, BaseFeeMoves, PolicyChanges
    <3>2. PICK a \in BumpApprovals(bump.fees, bump.now) :
               /\ Gate(a, bump.fees, bump.now)
               /\ allowedAt' = IF a = cached THEN allowedAt ELSE now
      BY <3>1 DEF BumpSign
    <3>3. bump.now <= a.valid_until /\ bump.now \in Nat /\ now \in Nat /\ bump.now <= now
      BY <2>t, <3>2 DEF Gate, TypeOK, ApprovalDated
    <3>4. CASE a = cached
      <4>1. cached # NoApproval
        BY <3>3, <3>4 DEF NoApproval
      <4> QED BY <2>t, <2>n, <2>2, <3>2, <3>3, <3>4, <4>1 DEF ApprovalDated, SigningTime
    <3>5. CASE a # cached
      BY <2>n, <2>2, <3>2, <3>3, <3>5 DEF SigningTime
    <3> QED BY <3>4, <3>5
  <2> QED BY <2>1, <2>2 DEF Signs
<1> QED BY <1>1, FInvHolds, PTL DEF Spec, SignedWhileAllowed

-----------------------------------------------------------------------------
(* The engines *)

\* A set of naturals has a least one.
LEMMA LeastNatural ==
    ASSUME NEW T \in SUBSET Nat, T # {}
    PROVE  \E n \in T : \A m \in T : n <= m
<1>. DEFINE R == {p \in Nat \X Nat : p[1] < p[2]}
<1>1. IsWellFoundedOn(R, Nat)
  BY NatLessThanWellFounded, Zenon DEF OpToRel
<1>2. PICK n \in T : \A m \in T : ~(<<m, n>> \in R)
  BY <1>1, WFMin, Zenon
<1>3. ASSUME NEW m \in T PROVE n <= m
  <2>1. m \in Nat /\ n \in Nat /\ <<m, n>> \notin R
    BY <1>2
  <2>. QED BY <2>1
<1>. QED BY <1>3

\* Induction over an interval, for the set of the indices where something holds.
LEMMA Upward ==
    ASSUME NEW n \in Nat, NEW G, 0 \in G, \A k \in 0 .. n - 1 : k \in G => k + 1 \in G
    PROVE  0 .. n \subseteq G
<1>. DEFINE Bad == {k \in 0 .. n : k \notin G}
<1>. SUFFICES ASSUME Bad # {} PROVE FALSE
  BY Zenon
<1>1. Bad \in SUBSET Nat
  OBVIOUS
<1>2. PICK m \in Bad : \A j \in Bad : m <= j
  <2>. HIDE DEF Bad
  <2>. QED BY <1>1, LeastNatural, Zenon
<1>3. m \in Nat /\ m <= n /\ m # 0 /\ m - 1 \in 0 .. n /\ ~(m <= m - 1)
  OBVIOUS
<1>4. m - 1 \in G
  BY <1>2, <1>3, Zenon
<1>5. m - 1 \in 0 .. n - 1 /\ (m - 1) + 1 = m
  BY <1>3
<1>. QED BY <1>4, <1>5, Zenon

\* decide_outcome's loop heeds every rule: when it ends without a denial no
\* rule denies, and it says Allow only if a rule does.
LEMMA SayHeeds ==
    ASSUME NEW S, NEW rules \in Seq(S), NEW r
    PROVE  LET verdicts == {Check(rules[k], r) : k \in DOMAIN rules}
           IN  /\ Say(rules, r) # "Deny" => "Deny" \notin verdicts
               /\ Say(rules, r) = "Allow" => "Allow" \in verdicts
<1>. DEFINE n == Len(rules)
            Turn(v, k) == Heed(v, Check(rules[k], r))
            Good(g, m) == g = [k \in 0 .. m |-> IF k = 0 THEN "Abstain" ELSE Turn(g[k - 1], k)]
            G == {m \in 0 .. n : \E g : Good(g, m)}
<1>1. n \in Nat /\ DOMAIN rules = 1 .. n
  OBVIOUS
<1>. HIDE DEF n, Turn
<1>2. 0 \in G
  <2>. DEFINE g == [k \in 0 .. 0 |-> "Abstain"]
  <2>1. Good(g, 0)
    OBVIOUS
  <2>2. 0 \in 0 .. n
    BY <1>1
  <2>. QED BY <2>1, <2>2, Zenon
<1>3. ASSUME NEW m \in 0 .. n - 1, m \in G PROVE m + 1 \in G
  <2>1. PICK g : Good(g, m)
    BY <1>3, Zenon
  <2>. DEFINE h == [k \in 0 .. m + 1 |-> IF k = m + 1 THEN Turn(g[m], m + 1) ELSE g[k]]
  <2>2. ASSUME NEW k \in 0 .. m + 1 PROVE h[k] = IF k = 0 THEN "Abstain" ELSE Turn(h[k - 1], k)
    <3>1. CASE k = m + 1
      <4>1. m \in 0 .. m + 1 /\ k - 1 = m /\ k # 0 /\ m # m + 1
        BY <1>1, <3>1
      <4>2. h[m] = g[m] /\ h[k] = Turn(g[m], k)
        BY <3>1, <4>1, Zenon
      <4>. QED BY <4>1, <4>2, Zenon
    <3>2. CASE k # m + 1
      <4>1. k \in 0 .. m /\ (k # 0 => k - 1 \in 0 .. m + 1 /\ k - 1 # m + 1)
        BY <1>1, <3>2
      <4>2. h[k] = g[k] /\ (k # 0 => h[k - 1] = g[k - 1])
        BY <3>2, <4>1, Zenon
      <4>3. g[k] = IF k = 0 THEN "Abstain" ELSE Turn(g[k - 1], k)
        BY <2>1, <4>1, Zenon
      <4>. QED BY <4>2, <4>3, Zenon
    <3>. QED BY <3>1, <3>2, Zenon
  <2>3. Good(h, m + 1)
    <3>. DEFINE e == [k \in 0 .. m + 1 |-> IF k = 0 THEN "Abstain" ELSE Turn(h[k - 1], k)]
    <3>1. \A k \in 0 .. m + 1 : h[k] = e[k]
      BY <2>2, Zenon
    <3>2. h = e
      BY <3>1, Zenon
    <3>. QED BY <3>2, Zenon
  <2>4. m + 1 \in 0 .. n
    BY <1>1
  <2>. QED BY <2>3, <2>4, Zenon
<1>4. n \in G
  <2>1. 0 .. n \subseteq G
    <3>. HIDE DEF G
    <3>. QED BY <1>1, <1>2, <1>3, Upward, Zenon
  <2>2. n \in 0 .. n
    BY <1>1
  <2>. QED BY <2>1, <2>2, Zenon
<1>5. PICK f : Good(f, n) /\ Say(rules, r) = f[n]
  BY <1>4, Zenon DEF Say, n, Turn
<1>. DEFINE V(k) == {Check(rules[j], r) : j \in 1 .. k}
            H == {k \in 0 .. n : (f[k] # "Deny" => "Deny" \notin V(k)) /\ (f[k] = "Allow" => "Allow" \in V(k))}
<1>6. 0 \in H
  <2>1. 0 \in 0 .. n /\ 1 .. 0 = {}
    BY <1>1
  <2>2. f[0] = "Abstain"
    BY <1>5, <2>1, Zenon
  <2>3. f[0] # "Allow" /\ V(0) = {}
    BY <2>1, <2>2
  <2>. QED BY <2>1, <2>3, Zenon
<1>7. ASSUME NEW k \in 0 .. n - 1, k \in H PROVE k + 1 \in H
  <2>1. k + 1 \in 0 .. n /\ k + 1 # 0 /\ (k + 1) - 1 = k /\ 1 .. k + 1 = (1 .. k) \cup {k + 1}
    BY <1>1
  <2>2. f[k + 1] = Turn(f[k], k + 1)
    BY <1>5, <2>1, Zenon
  <2>. DEFINE v == Check(rules[k + 1], r)
  <2>3. V(k + 1) = V(k) \cup {v}
    BY <2>1, Zenon
  <2>4. f[k + 1] = Heed(f[k], v)
    BY <2>2, Zenon DEF Turn
  <2>5. (f[k] # "Deny" => "Deny" \notin V(k)) /\ (f[k] = "Allow" => "Allow" \in V(k))
    BY <1>7, Zenon
  <2>. HIDE DEF v, V
  <2>6. /\ f[k + 1] # "Deny" => f[k] # "Deny" /\ v # "Deny"
        /\ f[k + 1] = "Allow" => v = "Allow" \/ f[k] = "Allow"
    BY <2>4 DEF Heed
  <2>. QED BY <2>1, <2>3, <2>5, <2>6, Zenon
<1>8. 0 .. n \subseteq H
  <2>. HIDE DEF H
  <2>. QED BY <1>1, <1>6, <1>7, Upward, Zenon
<1>9. n \in 0 .. n
  BY <1>1
<1>. QED BY <1>1, <1>5, <1>8, <1>9, Zenon

\* What either engine allows, its rules permit.
LEMMA AllowedIsPermitted ==
    ASSUME NEW e \in Engines, NEW r, r.kind = "TypedData" => r.chain \in Nat, NEW t \in Nat,
           Evaluate(e, r, t) = "Allow"
    PROVE  Permits(e, r, t)
<1>. DEFINE rules == e.rules
<1>1. /\ rules \in Seq(Range(rules)) /\ e.executable \in {"none", "allow", "deny", "fails"}
      /\ \A rule \in Range(rules) : rule.rule = "ExpiresAt" => rule.at \in Int
  BY FeeGateAssumption, Zenon
<1>. HIDE DEF rules
<1>2. CASE e.engine = "native"
  <2>. DEFINE said == Say(rules, r)
              verdicts == {Check(rules[i], r) : i \in DOMAIN rules}
              cancel_ok == r.kind = "Cancel" /\ IsSelfSend(r)
  <2>1. Decide(rules, r) = "Allow"
    BY <1>2, Zenon DEF Evaluate, rules
  <2>2. (said = "Allow" \/ (said = "Abstain" /\ cancel_ok)) /\ Hashable(r)
    <3>. HIDE DEF said, cancel_ok
    <3>1. Decide(rules, r) = IF (said = "Allow" \/ (said = "Abstain" /\ cancel_ok)) /\ Hashable(r) THEN "Allow" ELSE "Deny"
      BY Zenon DEF Decide, said, cancel_ok
    <3>. QED BY <2>1, <3>1
  <2>3. /\ said # "Deny" => "Deny" \notin verdicts
        /\ said = "Allow" => "Allow" \in verdicts
    BY <1>1, SayHeeds, Zenon
  <2>4. said # "Deny"
    BY <2>2
  <2>5. r.kind = "TypedData" => r.chain > 0 /\ r.encodes
    BY <2>2 DEF Hashable
  <2>6. NativePermits(rules, r)
    BY <2>2, <2>3, <2>4, <2>5, Zenon DEF NativePermits
  <2>. QED BY <1>2, <2>6, Zenon DEF Permits, rules
<1>3. CASE e.engine # "native"
  <2>1. EvaluateMoonPay(e, r, t) = "Allow"
    BY <1>3, Zenon DEF Evaluate
  <2>2. /\ r.kind = "Transaction" \/ (r.kind = "Cancel" /\ IsSelfSend(r))
        /\ ~\E rule \in Applicable(rules) : Violated(rule, r, t)
        /\ RunExecutable(e.executable) = "Allow"
    BY <2>1 DEF EvaluateMoonPay, rules
  <2>3. e.executable \in {"none", "allow"}
    BY <1>1, <2>2 DEF RunExecutable
  <2>4. IsIntent(r) /\ (r.kind = "Cancel" => IsSelfSend(r))
    BY <2>2 DEF IsIntent
  <2>5. ASSUME NEW i \in DOMAIN rules
        PROVE  /\ rules[i].rule = "AllowedChains" => r.chain \in rules[i].chains
               /\ rules[i].rule = "ExpiresAt" => t <= rules[i].at
    <3>. DEFINE rule == rules[i]
    <3>1. rule \in Range(rules)
      BY Zenon DEF Range
    <3>2. rule.rule = "ExpiresAt" => rule.at \in Int
      BY <1>1, <3>1, Zenon
    <3>3. rule.rule \in {"AllowedChains", "ExpiresAt"} => ~Violated(rule, r, t)
      BY <2>2, <3>1, Zenon DEF Applicable
    <3>. HIDE DEF rule
    <3>4. rule.rule = "AllowedChains" => r.chain \in rule.chains
      BY <3>3 DEF Violated
    <3>5. rule.rule = "ExpiresAt" => t <= rule.at
      BY <3>2, <3>3 DEF Violated
    <3>. QED BY <3>4, <3>5, Zenon DEF rule
  <2>6. MoonPayPermits(e, r, t)
    BY <2>3, <2>4, <2>5, Zenon DEF MoonPayPermits, rules
  <2>. QED BY <1>3, <2>6, Zenon DEF Permits
<1>. QED BY <1>2, <1>3, Zenon

\* With any number of rules in any order, an approval exists only for what the
\* rules in force permit, for a first signature and for a bump
\* (native.rs:175-202, moonpay.rs:112-175).
THEOREM ApprovalsPermitted == Spec => OnlyPermittedApproved
<1>. DEFINE asked == IF stage = "none" THEN request ELSE BumpRequest(request)
            A == cached' \notin {cached, NoApproval} => Permits(policy, asked, now)
<1>1. ASSUME FInv, [Next]_vars, cached' \notin {cached, NoApproval} PROVE Permits(policy, asked, now)
  <2>1. policy \in Engines /\ request \in Requests /\ now \in Nat
    BY <1>1 DEF FInv, TypeOK
  <2>2. request.chain \in Nat /\ "kind" \in DOMAIN request
    BY <2>1, FeeGateAssumption
  <2>3. BumpRequest(request).kind # "TypedData"
    BY <2>2 DEF BumpRequest
  <2>4. CASE Approve
    <3>1. stage = "none" /\ Evaluate(policy, request, now) = "Allow"
      BY <2>4, Zenon DEF Approve, Authorize
    <3>. QED BY <2>1, <2>2, <3>1, AllowedIsPermitted, Zenon
  <2>5. CASE BumpSign
    <3>1. PICK a \in BumpApprovals(bump.fees, bump.now) : cached' = a
      BY <2>5, Zenon DEF BumpSign
    <3>2. stage = "bumping" /\ a # cached
      BY <1>1, <2>5, <3>1, Zenon DEF BumpSign
    <3>3. Evaluate(policy, BumpRequest(request), now) = "Allow"
      BY <3>1, <3>2, Zenon DEF BumpApprovals, Authorize
    <3>4. asked = BumpRequest(request)
      BY <3>2
    <3>. HIDE DEF asked
    <3>5. Permits(policy, BumpRequest(request), now)
      BY <2>1, <2>3, <3>3, AllowedIsPermitted, Zenon
    <3>. QED BY <3>4, <3>5, Zenon
  <2>6. Approve \/ BumpSign
    BY <1>1 DEF Next, vars, SendSign, CancelPrice, CancelSign, SignPayload, BumpStart, BumpHalts, Settle, Restart,
                TimePasses, BaseFeeMoves, PolicyChanges
  <2>. QED BY <2>4, <2>5, <2>6, Zenon
<1>. QED BY FInvHolds, <1>1, PTL DEF Spec, OnlyPermittedApproved
==============================================================================
