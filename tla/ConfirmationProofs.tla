------------------------- MODULE ConfirmationProofs -------------------------
(***************************************************************************)
(* Machine-checked proofs about Confirmation: for any required depth, any  *)
(* reorg depth below it, either finality rule, any number of broadcasts,   *)
(* with failing and lagging reads, failing writes and restarts, an outcome *)
(* that the confirm cycle reports is the outcome on the chain for good;    *)
(* and where no node lags, a handle is taken back only by a reorg.         *)
(***************************************************************************)
EXTENDS Confirmation, TLAPS

\* The constants of the records are well typed.
LEMMA RecordTypes ==
    /\ NoView \in ChainView
    /\ Unknown \in ChainEvent
    /\ NotMined \in [block : 0 .. MaxHeight, tx : 0 .. MaxHashes, outcome : Outcomes \cup {"none"}]
    /\ \A k \in Kinds : Plain(k) \in TxStatus
    /\ Plain("Pending") \in TxStatus /\ Plain("Sent") \in TxStatus
  BY ConfirmationAssumption
     DEF NoView, ChainView, Finality, Unknown, Event, ChainEvent, NotMined, Plain, Status,
         TxStatus, Kinds

\* The state machine maps a status to a status.
LEMMA TransitionType ==
    ASSUME NEW s \in TxStatus, NEW e \in ChainEvent, NEW v \in ChainView, NEW q \in Nat
    PROVE  Transition(s, e, v, q) \in TxStatus
<1>1. OnPending(s) \in TxStatus
  BY RecordTypes DEF OnPending
<1>2. OnMined(e, v, q) \in TxStatus
  BY DEF OnMined, Status, Plain, TxStatus, Kinds, ChainEvent
<1>3. OnReplaced(s, v, q) \in TxStatus
  BY DEF OnReplaced, Status, Plain, TxStatus, Kinds, ChainView
<1> QED
  BY <1>1, <1>2, <1>3 DEF Transition

\* The only statuses that report an outcome come from a final Mined event.
LEMMA TransitionSettles ==
    ASSUME NEW s, NEW e, NEW v, NEW q,
           Transition(s, e, v, q).kind \in {"Confirmed", "Failed"}
    PROVE  \/ Transition(s, e, v, q) = s
           \/ /\ e.kind = "Mined" /\ IsFinal(e.block, v, q)
              /\ Transition(s, e, v, q) =
                    IF e.executed THEN Status("Confirmed", e.block, 0) ELSE Plain("Failed")
<1>1. CASE IsTerminal(s) \/ e.kind = "Unknown"
  BY <1>1 DEF Transition
<1>2. CASE ~IsTerminal(s) /\ e.kind = "Pending"
  BY <1>2 DEF Transition, OnPending, Plain, Status
<1>3. CASE ~IsTerminal(s) /\ e.kind = "Mined"
  BY <1>3 DEF Transition, OnMined, Plain, Status
<1>4. CASE ~IsTerminal(s) /\ e.kind \notin {"Unknown", "Pending", "Mined"}
  BY <1>4 DEF Transition, OnReplaced, Plain, Status
<1> QED
  BY <1>1, <1>2, <1>3, <1>4

\* A block that a cycle's view calls final is one no reorg can drop.
LEMMA FinalIsSafe ==
    ASSUME TypeOK, ChainInv, NEW b \in Nat, b <= head,
           view.latest <= peak, view.finalized <= fin, view.mode \in Modes,
           IsFinal(b, view, Required)
    PROVE  b <= Safe
<1>1. /\ peak \in Nat /\ fin \in Nat /\ head \in Nat /\ head <= peak
      /\ view.latest \in Nat /\ view.finalized \in Nat /\ view.mode \in Finality
  BY DEF TypeOK, ChainInv, ChainView
<1>2. Required \in Nat /\ ReorgDepth \in Nat /\ ("Depth" \in Modes => ReorgDepth < Required)
  BY ConfirmationAssumption
<1>3. CASE view.mode = "Finalized"
  BY <1>1, <1>2, <1>3 DEF IsFinal, Safe
<1>4. CASE view.mode = "Depth"
  <2>1. SaturatingSub(view.latest, b) + 1 >= Required /\ ReorgDepth < Required
    BY <1>2, <1>4 DEF IsFinal
  <2>2. CASE view.latest >= b
    BY <1>1, <1>2, <2>1, <2>2 DEF SaturatingSub, Safe
  <2>3. CASE view.latest < b
    BY <1>1, <1>2, <2>1, <2>3 DEF SaturatingSub, Safe
  <2> QED  BY <1>1, <2>2, <2>3
<1> QED
  BY <1>1, <1>3, <1>4 DEF Finality

-----------------------------------------------------------------------------
\* The initial states satisfy the invariant.
LEMMA CInitInv == ASSUME Init PROVE CInv
<1>0. /\ MaxHeight \in Nat /\ MaxHashes \in Nat /\ MaxHashes # 0 /\ MaxFaults \in Nat
      /\ ReorgDepth \in Nat
  BY ConfirmationAssumption
<1>1. TypeOK
  <2>1. status \in TxStatus /\ view \in ChainView /\ event \in ChainEvent
    BY RecordTypes DEF Init
  <2>2. incl \in [block : 0 .. MaxHeight, tx : 0 .. MaxHashes, outcome : Outcomes \cup {"none"}]
    BY RecordTypes DEF Init
  <2>3. chain \in [Heights -> Nat]
    BY DEF Init
  <2>4. /\ head \in 0 .. MaxHeight /\ peak \in 0 .. MaxHeight /\ fin \in Nat /\ epoch \in Nat
        /\ hashes \in 1 .. MaxHashes /\ asking \in 0 .. MaxHashes
        /\ lastLatest \in Nat /\ faults \in 0 .. MaxFaults
    BY <1>0 DEF Init
  <2>5. /\ found \in receipts \cup {NoReceipt} /\ receipts \subseteq Receipt
        /\ consumed \in BOOLEAN
        /\ pc \in {"idle", "count", "finalized", "load", "receipt", "anchor", "apply"}
    BY Zenon DEF Init
  <2> QED
    BY <2>1, <2>2, <2>3, <2>4, <2>5, Zenon DEF TypeOK
<1>2. ChainInv
  BY <1>0 DEF Init, ChainInv, Safe, NotMined
<1>3. ReceiptsInv
  BY DEF Init, ReceiptsInv
<1>4. CycleInv
  BY DEF Init, CycleInv, NoView
<1>5. ConfirmedIsFinal /\ FailedIsFinal
  BY DEF Init, ConfirmedIsFinal, FailedIsFinal, Plain, Status
<1> QED
  BY <1>1, <1>2, <1>3, <1>4, <1>5 DEF CInv

\* Ending a cycle leaves well-typed locals.
LEMMA EndCycleType ==
    ASSUME EndCycle
    PROVE  /\ pc' = "idle" /\ view' \in ChainView /\ consumed' \in BOOLEAN
           /\ asking' \in 0 .. MaxHashes /\ found' = NoReceipt /\ event' \in ChainEvent
<1>1. view' \in ChainView /\ event' \in ChainEvent
  BY RecordTypes DEF EndCycle
<1>2. asking' \in 0 .. MaxHashes
  BY ConfirmationAssumption DEF EndCycle
<1> QED
  BY Zenon, <1>1, <1>2 DEF EndCycle

\* The chain's own steps keep the state well typed.
LEMMA ExtendType ==
    ASSUME TypeOK,
           NEW i \in [block : 0 .. MaxHeight, tx : 0 .. MaxHashes,
                      outcome : Outcomes \cup {"none"}],
           NEW r \in SUBSET Receipt, Extend(i, r)
    PROVE  TypeOK'
<1>1. head' \in 0 .. MaxHeight /\ peak' \in 0 .. MaxHeight
  BY ConfirmationAssumption DEF TypeOK, Extend
<1>2. chain' \in [Heights -> Nat]
  BY Zenon DEF TypeOK, Extend
<1>3. receipts' \subseteq Receipt /\ found' \in receipts' \cup {NoReceipt}
  BY DEF TypeOK, Extend, cycleVars
<1> QED
  BY <1>1, <1>2, <1>3 DEF TypeOK, Extend, cycleVars

\* Every step keeps the state well typed.
LEMMA CTypeStep == ASSUME TypeOK, Next PROVE TypeOK'
<1>0. /\ MaxHeight \in Nat /\ MaxHashes \in Nat /\ MaxFaults \in Nat /\ Required \in Nat
      /\ ReorgDepth \in Nat /\ Modes \subseteq Finality
  BY ConfirmationAssumption
<1> USE <1>0, RecordTypes
<1>1. CASE MineOther
  <2>1. incl \in [block : 0 .. MaxHeight, tx : 0 .. MaxHashes, outcome : Outcomes \cup {"none"}]
    BY DEF TypeOK
  <2> QED  BY <1>1, <2>1, ExtendType DEF MineOther
<1>2. CASE MineOurs
  <2>1. PICK tx \in 1 .. hashes, o \in Outcomes :
             Extend([block |-> head + 1, tx |-> tx, outcome |-> o],
                    {[tx |-> tx, block |-> head + 1, hash |-> epoch, outcome |-> o]})
    BY Zenon, <1>2 DEF MineOurs
  <2>2. tx \in 1 .. MaxHashes /\ head + 1 \in Heights /\ epoch \in Nat
    BY <2>1 DEF TypeOK, Extend, Heights
  <2>3. [block |-> head + 1, tx |-> tx, outcome |-> o]
           \in [block : 0 .. MaxHeight, tx : 0 .. MaxHashes, outcome : Outcomes \cup {"none"}]
    BY <2>2 DEF Heights
  <2>4. {[tx |-> tx, block |-> head + 1, hash |-> epoch, outcome |-> o]} \in SUBSET Receipt
    BY <2>2 DEF Receipt
  <2> QED  BY <2>1, <2>3, <2>4, ExtendType
<1>3. CASE MineForeign
  <2>1. Extend([block |-> head + 1, tx |-> 0, outcome |-> "none"], {})
    BY <1>3 DEF MineForeign
  <2>2. [block |-> head + 1, tx |-> 0, outcome |-> "none"]
           \in [block : 0 .. MaxHeight, tx : 0 .. MaxHashes, outcome : Outcomes \cup {"none"}]
    BY <2>1 DEF TypeOK, Extend
  <2> QED  BY <2>1, <2>2, ExtendType
<1>4. CASE Reorg
  <2>1. PICK h \in Safe .. MaxHeight :
             /\ h < head /\ head' = h
             /\ chain' = [b \in Heights |-> IF b <= h THEN chain[b] ELSE 0]
             /\ incl' = IF incl.block > h THEN NotMined ELSE incl
    BY <1>4 DEF Reorg
  <2>2. Safe \in Nat
    BY DEF Safe, TypeOK
  <2>3. h \in 0 .. MaxHeight
    BY <2>1, <2>2
  <2>4. chain' \in [Heights -> Nat]
    BY <2>1 DEF TypeOK
  <2> QED
    BY <1>4, <2>1, <2>3, <2>4 DEF Reorg, TypeOK, cycleVars
<1>5. CASE Finalize
  BY <1>5 DEF Finalize, TypeOK, cycleVars
<1>6. CASE ReadLatest
  BY <1>6 DEF ReadLatest, TypeOK, chainVars, ChainView
<1>7. CASE ReadCount
  <2>1. CASE view.latest < lastLatest
    BY <1>7, <2>1, EndCycleType DEF ReadCount, TypeOK, chainVars
  <2>2. CASE ~(view.latest < lastLatest)
    BY Zenon, <1>7, <2>2 DEF ReadCount, TypeOK, chainVars
  <2> QED  BY <2>1, <2>2
<1>8. CASE ReadFinalized
  <2>1. PICK mode \in Modes :
          LET finalized == IF mode = "Finalized" THEN fin ELSE 0
          IN  IF finalized > view.latest
              THEN EndCycle /\ UNCHANGED lastLatest
              ELSE /\ pc' = "load"
                   /\ view' = [view EXCEPT !.finalized = finalized, !.mode = mode]
                   /\ lastLatest' = view.latest
                   /\ UNCHANGED <<consumed, asking, found, event>>
    BY Zenon, <1>8 DEF ReadFinalized
  <2>2. UNCHANGED <<chainVars, status, hashes, faults>>
    BY <1>8 DEF ReadFinalized
  <2> DEFINE f == IF mode = "Finalized" THEN fin ELSE 0
  <2>3. CASE f > view.latest
    BY <2>1, <2>2, <2>3, EndCycleType DEF TypeOK, chainVars
  <2>4. CASE ~(f > view.latest)
    <3>1. view' \in ChainView /\ lastLatest' \in Nat
      <4>1. /\ view' = [view EXCEPT !.finalized = f, !.mode = mode]
            /\ lastLatest' = view.latest
        BY <2>1, <2>4
      <4>2. f \in Nat /\ mode \in Finality
        BY DEF TypeOK
      <4> HIDE DEF f
      <4> QED
        BY Zenon, <4>1, <4>2 DEF TypeOK, ChainView
    <3> QED
      BY <2>1, <2>2, <2>4, <3>1 DEF TypeOK, chainVars
  <2> QED  BY <2>3, <2>4
<1>9. CASE LoadHandle
  <2>1. CASE IsTerminal(status)
    BY <1>9, <2>1, EndCycleType DEF LoadHandle, TypeOK, chainVars
  <2>2. CASE ~IsTerminal(status)
    BY <1>9, <2>2 DEF LoadHandle, TypeOK, chainVars
  <2> QED  BY <2>1, <2>2
<1>10. CASE ReceiptFound
  BY <1>10 DEF ReceiptFound, TypeOK, chainVars, ReadVars
<1>11. CASE ReceiptNone
  <2>1. CASE asking > 1
    BY <1>11, <2>1 DEF ReceiptNone, TypeOK, chainVars, ReadVars
  <2>2. CASE ~(asking > 1)
    <3>1. event' \in ChainEvent
      <4>1. event' = Event(IF consumed THEN "Replaced" ELSE "Pending", 0, 0, FALSE)
        BY <1>11, <2>2 DEF ReceiptNone, Distilled
      <4> QED
        BY <4>1 DEF Event, ChainEvent
    <3> QED
      BY Zenon, <1>11, <2>2, <3>1 DEF ReceiptNone, Distilled, TypeOK, chainVars, ReadVars
  <2> QED  BY <2>1, <2>2
<1>12. CASE ReadHash
  <2>1. found.block \in Nat /\ found.hash \in Nat
    BY DEF TypeOK, Receipt, NoReceipt, Heights
  <2>2. event' \in ChainEvent
    BY <1>12, <2>1 DEF ReadHash, Distilled, Event, ChainEvent, OutcomeOf
  <2> QED
    BY <1>12, <2>2 DEF ReadHash, Distilled, TypeOK, chainVars, ReadVars
<1>13. CASE Apply
  <2>1. status' \in TxStatus
    BY <1>13, TransitionType DEF Apply, TypeOK
  <2> QED
    BY <1>13, <2>1, EndCycleType DEF Apply, TypeOK, chainVars
<1>14. CASE PutFails
  BY <1>14, EndCycleType DEF PutFails, Fault, TypeOK, chainVars
<1>15. CASE ReadError
  <2>1. CASE EndCycle
    BY <1>15, <2>1, EndCycleType DEF ReadError, Fault, TypeOK, chainVars
  <2>2. CASE Distilled(Unknown)
    BY <1>15, <2>2 DEF ReadError, Fault, Distilled, TypeOK, chainVars
  <2> QED  BY <1>15, <2>1, <2>2 DEF ReadError
<1>16. CASE Restart
  BY <1>16, EndCycleType DEF Restart, Fault, TypeOK, chainVars
<1>17. CASE Bump
  BY <1>17 DEF Bump, TypeOK, chainVars, cycleVars
<1> QED
  BY <1>1, <1>2, <1>3, <1>4, <1>5, <1>6, <1>7, <1>8, <1>9, <1>10, <1>11, <1>12, <1>13,
     <1>14, <1>15, <1>16, <1>17 DEF Next, Cycle, Chain

-----------------------------------------------------------------------------
\* A new block keeps the chain's facts and undoes nothing.
LEMMA ExtendChain ==
    ASSUME CInv, TypeOK', NEW i, NEW r \in SUBSET Receipt, Extend(i, r),
           i = incl \/ (incl.block = 0 /\ i.block = head + 1),
           \A x \in r : /\ x.block = head + 1 /\ x.hash = epoch /\ epoch > 0
                        /\ i.block = x.block /\ i.tx = x.tx /\ i.outcome = x.outcome
    PROVE  /\ ChainInv' /\ ReceiptsInv'
           /\ peak <= peak' /\ fin <= fin'
           /\ OursForGood => OursForGood' /\ incl' = incl
<1>1. /\ head \in Nat /\ peak \in Nat /\ fin \in Nat /\ ReorgDepth \in Nat /\ epoch \in Nat
      /\ head' = head + 1 /\ head + 1 \in Heights /\ fin' = fin /\ epoch' = epoch /\ 0 < epoch
      /\ head <= peak /\ fin <= head /\ Safe <= head
      /\ peak' = IF peak > head THEN peak ELSE head + 1
      /\ chain' = [chain EXCEPT ![head + 1] = epoch] /\ chain \in [Heights -> Nat]
      /\ incl' = i /\ receipts' = receipts \cup r
      /\ incl.block \in Nat /\ incl.block <= head /\ receipts \subseteq Receipt
  BY ConfirmationAssumption DEF CInv, ChainInv, TypeOK, Extend, Heights
<1>2. Safe \in Nat /\ Safe' \in Nat /\ Safe <= Safe' /\ Safe' <= head' /\ head' <= peak'
  BY <1>1 DEF Safe
<1>3. ChainInv'
  <2>1. incl'.block <= head' /\ (incl'.block = 0 => incl'.tx = 0)
    BY <1>1 DEF CInv, ChainInv
  <2>2. \A b \in Heights : b > head' => chain'[b] = 0
    BY <1>1 DEF CInv, ChainInv, Heights
  <2> QED
    BY <1>1, <1>2, <2>1, <2>2 DEF ChainInv
<1>4. ReceiptsInv'
  <2> SUFFICES ASSUME NEW x \in receipts'
               PROVE  /\ 0 < x.hash /\ x.hash <= epoch'
                      /\ x.hash = epoch' => x.block <= head'
                      /\ chain'[x.block] = x.hash =>
                            /\ incl'.block = x.block /\ incl'.tx = x.tx
                            /\ incl'.outcome = x.outcome
    BY DEF ReceiptsInv, Canonical
  <2>1. CASE x \in r
    BY <1>1, <2>1
  <2>2. CASE x \in receipts
    <3>1. /\ x.block \in Heights /\ x.hash \in Nat /\ 0 < x.hash /\ x.hash <= epoch
          /\ x.hash = epoch => x.block <= head
          /\ chain[x.block] = x.hash =>
                incl.block = x.block /\ incl.tx = x.tx /\ incl.outcome = x.outcome
      BY <1>1, <2>2 DEF CInv, ReceiptsInv, Canonical, Receipt
    <3>2. x.block \in Nat /\ x.block # 0
      BY <3>1 DEF Heights
    <3>3. CASE x.block = head + 1
      BY <1>1, <3>1, <3>3
    <3>4. CASE x.block # head + 1
      BY <1>1, <3>1, <3>2, <3>4
    <3> QED  BY <3>3, <3>4
  <2> QED  BY <1>1, <2>1, <2>2
<1>5. OursForGood => OursForGood' /\ incl' = incl
  BY <1>1, <1>2 DEF OursForGood, CInv, ChainInv
<1> QED
  BY <1>1, <1>3, <1>4, <1>5

\* A reorg keeps the chain's facts and drops nothing at or below Safe.
LEMMA ReorgChain ==
    ASSUME CInv, TypeOK', Reorg
    PROVE  /\ ChainInv' /\ ReceiptsInv'
           /\ peak <= peak' /\ fin <= fin'
           /\ OursForGood => OursForGood' /\ incl' = incl
<1>1. PICK h \in Safe .. MaxHeight :
           /\ h < head /\ head' = h
           /\ chain' = [b \in Heights |-> IF b <= h THEN chain[b] ELSE 0]
           /\ incl' = IF incl.block > h THEN NotMined ELSE incl
  BY DEF Reorg
<1>2. /\ head \in Nat /\ peak \in Nat /\ fin \in Nat /\ ReorgDepth \in Nat /\ epoch \in Nat
      /\ fin' = fin /\ peak' = peak /\ epoch' = epoch + 1 /\ receipts' = receipts
      /\ head <= peak /\ fin <= head /\ incl.block \in Nat /\ incl.block <= head
      /\ receipts \subseteq Receipt /\ chain \in [Heights -> Nat]
  BY ConfirmationAssumption DEF CInv, ChainInv, TypeOK, Reorg
<1>3. Safe' = Safe /\ Safe \in Nat /\ fin <= Safe /\ h \in Nat /\ Safe <= h
  BY <1>1, <1>2 DEF Safe
<1>4. ChainInv'
  BY <1>1, <1>2, <1>3 DEF CInv, ChainInv, NotMined, Heights
<1>5. ReceiptsInv'
  <2> SUFFICES ASSUME NEW x \in receipts
               PROVE  /\ 0 < x.hash /\ x.hash <= epoch'
                      /\ x.hash # epoch'
                      /\ chain'[x.block] = x.hash =>
                            /\ incl'.block = x.block /\ incl'.tx = x.tx
                            /\ incl'.outcome = x.outcome
    BY <1>2 DEF ReceiptsInv, Canonical
  <2>1. /\ x.block \in Heights /\ x.block \in Nat /\ x.hash \in Nat
        /\ 0 < x.hash /\ x.hash <= epoch
        /\ chain[x.block] = x.hash =>
              incl.block = x.block /\ incl.tx = x.tx /\ incl.outcome = x.outcome
    BY <1>2 DEF CInv, ReceiptsInv, Canonical, Receipt, Heights
  <2> QED
    BY <1>1, <1>2, <1>3, <2>1
<1>6. OursForGood => OursForGood' /\ incl' = incl
  BY <1>1, <1>2, <1>3 DEF OursForGood
<1> QED
  BY <1>2, <1>4, <1>5, <1>6

\* No step takes back what the chain has settled.
LEMMA ChainStable ==
    ASSUME CInv, Next
    PROVE  /\ ChainInv' /\ ReceiptsInv'
           /\ peak <= peak' /\ fin <= fin' /\ receipts \subseteq receipts'
           /\ OursForGood => OursForGood' /\ incl' = incl
<1>0. TypeOK /\ TypeOK'
  BY CTypeStep DEF CInv
<1>1. CASE MineOther
  <2>1. Extend(incl, {}) /\ {} \in SUBSET Receipt
    BY <1>1 DEF MineOther
  <2>2. receipts \subseteq receipts'
    BY <2>1 DEF Extend
  <2> QED
    BY <1>0, <2>1, <2>2, ExtendChain
<1>2. CASE MineOurs
  <2>1. PICK tx \in 1 .. hashes, o \in Outcomes :
             Extend([block |-> head + 1, tx |-> tx, outcome |-> o],
                    {[tx |-> tx, block |-> head + 1, hash |-> epoch, outcome |-> o]})
    BY Zenon, <1>2 DEF MineOurs
  <2> DEFINE i == [block |-> head + 1, tx |-> tx, outcome |-> o]
             r == {[tx |-> tx, block |-> head + 1, hash |-> epoch, outcome |-> o]}
  <2>2. r \in SUBSET Receipt
    BY <1>0, <2>1, ConfirmationAssumption DEF TypeOK, Extend, Heights, Receipt
  <2>3. \A x \in r : /\ x.block = head + 1 /\ x.hash = epoch /\ epoch > 0
                     /\ i.block = x.block /\ i.tx = x.tx /\ i.outcome = x.outcome
    BY <1>0 DEF CInv, ChainInv, TypeOK
  <2>4. incl.block = 0 /\ i.block = head + 1
    BY <1>2 DEF MineOurs
  <2>5. receipts \subseteq receipts'
    BY <2>1 DEF Extend
  <2> HIDE DEF i, r
  <2>6. Extend(i, r)
    BY <2>1 DEF i, r
  <2> QED
    BY <1>0, <2>2, <2>3, <2>4, <2>5, <2>6, ExtendChain
<1>3. CASE MineForeign
  <2> DEFINE i == [block |-> head + 1, tx |-> 0, outcome |-> "none"]
  <2>1. Extend(i, {}) /\ {} \in SUBSET Receipt /\ incl.block = 0 /\ i.block = head + 1
    BY <1>3 DEF MineForeign
  <2>2. receipts \subseteq receipts'
    BY <2>1 DEF Extend
  <2> HIDE DEF i
  <2> QED
    BY <1>0, <2>1, <2>2, ExtendChain
<1>4. CASE Reorg
  BY <1>0, <1>4, ReorgChain DEF Reorg
<1>5. CASE Finalize
  <2>1. /\ head \in Nat /\ peak \in Nat /\ fin \in Nat /\ ReorgDepth \in Nat
        /\ head <= peak /\ fin < head /\ fin' = fin + 1 /\ Safe <= head
        /\ UNCHANGED <<head, peak, epoch, chain, incl, receipts>> /\ incl.block \in Nat
    BY <1>0, <1>5, ConfirmationAssumption DEF CInv, ChainInv, TypeOK, Finalize
  <2>2. Safe \in Nat /\ Safe' \in Nat /\ Safe <= Safe' /\ Safe' <= head
    BY <2>1 DEF Safe
  <2>3. ChainInv'
    BY <2>1, <2>2 DEF CInv, ChainInv
  <2>4. ReceiptsInv'
    BY <2>1 DEF CInv, ReceiptsInv, Canonical
  <2> QED
    BY <2>1, <2>2, <2>3, <2>4 DEF OursForGood
<1>6. CASE Cycle \/ PutFails \/ ReadError \/ Restart \/ Bump
  <2>1. UNCHANGED chainVars
    BY Zenon, <1>6 DEF Cycle, ReadLatest, ReadCount, ReadFinalized, LoadHandle, ReceiptFound,
                ReceiptNone, ReadHash, Apply, PutFails, ReadError, Restart, Bump, ReadVars
  <2>2. ChainInv' /\ ReceiptsInv' /\ (OursForGood => OursForGood')
    BY <2>1 DEF CInv, ChainInv, ReceiptsInv, Canonical, OursForGood, Safe, chainVars
  <2> QED
    BY <1>0, <2>1, <2>2 DEF chainVars, TypeOK
<1> QED
  BY <1>1, <1>2, <1>3, <1>4, <1>5, <1>6 DEF Next, Chain

\* What a cycle knows survives the steps of others, and holds of what it reads.
LEMMA CycleStep == ASSUME CInv, Next PROVE CycleInv'
<1>0. TypeOK /\ TypeOK' /\ CycleInv
  BY CTypeStep DEF CInv
<1>1. /\ peak <= peak' /\ fin <= fin' /\ receipts \subseteq receipts'
      /\ OursForGood => OursForGood' /\ incl' = incl
  BY ChainStable
<1>2. /\ peak \in Nat /\ peak' \in Nat /\ fin \in Nat /\ fin' \in Nat
      /\ view.latest \in Nat /\ view.finalized \in Nat
      /\ view.latest <= peak' /\ view.finalized <= fin'
  BY <1>0, <1>1, ConfirmationAssumption DEF TypeOK, ChainView, CycleInv
<1>3. CASE cycleVars' = cycleVars
  BY Zenon, <1>0, <1>1, <1>2, <1>3 DEF CycleInv, cycleVars
<1>4. CASE EndCycle
  BY <1>2, <1>4 DEF EndCycle, CycleInv, NoView, Unknown, Event
<1>5. CASE ReadLatest
  <2>1. view'.latest = head /\ view'.finalized = view.finalized /\ pc' = "count"
    BY <1>0, <1>5 DEF ReadLatest, TypeOK, ChainView
  <2>2. head <= peak /\ peak' = peak
    BY <1>5 DEF ReadLatest, chainVars, CInv, ChainInv
  <2> QED
    BY Zenon, <1>2, <2>1, <2>2 DEF CycleInv
<1>6. CASE ReadCount /\ ~EndCycle
  BY <1>2, <1>6 DEF ReadCount, CycleInv
<1>7. CASE ReadFinalized /\ ~EndCycle
  <2>1. PICK mode \in Modes :
             /\ pc' = "load"
             /\ view' = [view EXCEPT !.finalized = IF mode = "Finalized" THEN fin ELSE 0,
                                     !.mode = mode]
    BY Zenon, <1>7 DEF ReadFinalized
  <2>2. /\ view'.latest = view.latest /\ view'.mode = mode
        /\ view'.finalized = IF mode = "Finalized" THEN fin ELSE 0
    BY <1>0, <2>1 DEF TypeOK, ChainView
  <2> QED
    BY <1>1, <1>2, <2>1, <2>2 DEF CycleInv
<1>8. CASE LoadHandle /\ ~EndCycle
  BY <1>0, <1>2, <1>8 DEF LoadHandle, CycleInv
<1>9. CASE ReceiptFound
  BY <1>0, <1>1, <1>2, <1>9 DEF ReceiptFound, CycleInv
<1>10. CASE ReceiptNone
  <2>1. CASE asking > 1
    BY <1>0, <1>2, <1>10, <2>1 DEF ReceiptNone, CycleInv
  <2>2. CASE ~(asking > 1)
    <3>1. pc' = "apply" /\ event'.kind # "Mined" /\ view' = view /\ pc = "receipt"
      BY <1>10, <2>2 DEF ReceiptNone, Distilled, Event
    <3> QED
      BY <1>0, <1>2, <3>1 DEF CycleInv
  <2> QED  BY <2>1, <2>2
<1>11. CASE ReadHash
  <2>1. /\ pc = "anchor" /\ pc' = "apply" /\ view' = view /\ incl' = incl /\ UNCHANGED chainVars
        /\ event' = IF Canonical(found)
                    THEN Event("Mined", found.block, found.hash, OutcomeOf(found))
                    ELSE Unknown
    BY <1>11 DEF ReadHash, Distilled, ReadVars, chainVars
  <2>2. CASE ~Canonical(found)
    <3>1. event'.kind # "Mined"
      BY <2>1, <2>2 DEF Unknown, Event
    <3> QED
      BY <1>0, <1>2, <2>1, <3>1 DEF CycleInv
  <2>3. CASE Canonical(found)
    <3>1. /\ found \in receipts /\ found \in Receipt
          /\ incl.block = found.block /\ incl.tx = found.tx /\ incl.outcome = found.outcome
      BY <1>0, <2>1, <2>3 DEF CInv, CycleInv, ReceiptsInv, TypeOK
    <3>2. event'.block = found.block /\ (event'.executed <=> incl.outcome = "executed")
      BY Zenon, <2>1, <2>3, <3>1 DEF Event, OutcomeOf
    <3>3. incl.tx # 0 /\ incl.block \in Nat /\ incl.block <= head
      BY <1>0, <3>1 DEF Receipt, TypeOK, CInv, ChainInv
    <3>4. IsFinal(event'.block, view', Required) => incl.block <= Safe
      BY <1>0, <2>1, <3>1, <3>2, <3>3, FinalIsSafe DEF CInv, CycleInv
    <3>5. Safe' = Safe
      BY <2>1 DEF Safe, chainVars
    <3> QED
      BY <1>0, <1>2, <2>1, <3>1, <3>2, <3>3, <3>4, <3>5 DEF CycleInv, OursForGood
  <2> QED  BY <2>2, <2>3
<1>12. CASE ReadError /\ ~EndCycle
  <2>1. pc \in {"receipt", "anchor"} /\ pc' = "apply" /\ event'.kind # "Mined" /\ view' = view
    BY <1>12 DEF ReadError, Distilled, Unknown, Event
  <2> QED
    BY <1>0, <1>2, <2>1 DEF CycleInv
<1> QED
  BY Zenon, <1>3, <1>4, <1>5, <1>6, <1>7, <1>8, <1>9, <1>10, <1>11, <1>12
     DEF Next, Cycle, Chain, MineOther, MineOurs, MineForeign, Extend, Reorg, Finalize, Bump,
         Apply, PutFails, Restart, ReadError

\* A reported outcome stays true, and a new one comes from a final Mined event.
LEMMA OutcomeStep == ASSUME CInv, Next PROVE ConfirmedIsFinal' /\ FailedIsFinal'
<1>0. OursForGood => OursForGood' /\ incl' = incl
  BY ChainStable
<1>1. CASE status' = status
  BY <1>0, <1>1 DEF CInv, ConfirmedIsFinal, FailedIsFinal
<1>2. CASE Apply
  <2>1. pc = "apply" /\ status' = Transition(status, event, view, Required)
    BY <1>2 DEF Apply
  <2>2. CASE status'.kind \notin {"Confirmed", "Failed"}
    BY <2>2 DEF ConfirmedIsFinal, FailedIsFinal
  <2>3. CASE status'.kind \in {"Confirmed", "Failed"} /\ status' # status
    <3>1. /\ event.kind = "Mined" /\ IsFinal(event.block, view, Required)
          /\ status' = IF event.executed THEN Status("Confirmed", event.block, 0)
                                         ELSE Plain("Failed")
      BY <2>1, <2>3, TransitionSettles
    <3>2. /\ OursForGood /\ incl.block = event.block
          /\ event.executed <=> incl.outcome = "executed"
      BY <2>1, <3>1 DEF CInv, CycleInv
    <3> QED
      BY <1>0, <3>1, <3>2 DEF ConfirmedIsFinal, FailedIsFinal, Status, Plain
  <2> QED  BY <1>1, <2>2, <2>3
<1> QED
  BY Zenon, <1>1, <1>2
     DEF Next, Cycle, Chain, MineOther, MineOurs, MineForeign, Extend, Reorg, Finalize, Bump,
         PutFails, Restart, ReadError, ReadLatest, ReadCount, ReadFinalized, LoadHandle,
         ReceiptFound, ReceiptNone, ReadHash, ReadVars

\* The invariant holds in every reachable state.
THEOREM CInvHolds == Spec => []CInv
<1>1. CInv /\ [Next]_vars => CInv'
  <2>1. ASSUME CInv, Next PROVE CInv'
    BY <2>1, CTypeStep, ChainStable, CycleStep, OutcomeStep DEF CInv
  <2>2. ASSUME CInv, UNCHANGED vars PROVE CInv'
    <3>1. UNCHANGED <<chainVars, cycleVars, status, hashes, faults>>
      BY Zenon, <2>2 DEF vars
    <3>2. TypeOK' /\ ChainInv' /\ ReceiptsInv'
      BY Zenon, <2>2, <3>1 DEF CInv, TypeOK, ChainInv, ReceiptsInv, Canonical, Safe,
                               chainVars, cycleVars
    <3>3. CycleInv' /\ ConfirmedIsFinal' /\ FailedIsFinal'
      BY Zenon, <2>2, <3>1 DEF CInv, CycleInv, ConfirmedIsFinal, FailedIsFinal, OursForGood,
                               Safe, chainVars, cycleVars
    <3> QED  BY Zenon, <3>2, <3>3 DEF CInv
  <2> QED  BY <2>1, <2>2
<1> QED
  BY <1>1, CInitInv, PTL DEF Spec

\* Confirmed is never wrong and never taken back by a reorg, in either
\* finality mode, if reorgs are shallower than the required confirmations.
THEOREM ConfirmedForGood == Spec => []ConfirmedIsFinal
<1>1. CInv => ConfirmedIsFinal
  BY DEF CInv
<1> QED
  BY <1>1, CInvHolds, PTL

\* Failed, as the confirm cycle reports it, is never wrong and never taken
\* back by a reorg.
THEOREM FailedForGood == Spec => []FailedIsFinal
<1>1. CInv => FailedIsFinal
  BY DEF CInv
<1> QED
  BY <1>1, CInvHolds, PTL


-----------------------------------------------------------------------------
(* A rewind is never due to a wrong read, where no node lags behind *)

\* The block the handle was seen mined in is still the canonical one.
InPlace == status.kind = "Mined" /\ chain[status.block] = status.hash

\* Mined, in the store or in the event, is backed by a receipt of a broadcast;
\* while its block is in place the cycle has yet to ask for that receipt, and
\* does not come to see nothing.
RewindInv ==
    /\ \A r \in receipts : r.tx <= hashes
    /\ status.kind = "Mined" =>
          \E r \in receipts : r.block = status.block /\ r.hash = status.hash
    /\ pc = "apply" /\ event.kind = "Mined" =>
          \E r \in receipts : r.block = event.block /\ r.hash = event.hash
    /\ InPlace /\ pc = "receipt" => incl.tx <= asking
    /\ InPlace /\ pc = "apply" => event.kind # "Pending"

\* A status is Mined because it was, or because a Mined event says so.
LEMMA TransitionMines ==
    ASSUME NEW s, NEW e, NEW v, NEW q, Transition(s, e, v, q).kind = "Mined"
    PROVE  \/ Transition(s, e, v, q) = s /\ e.kind # "Pending"
           \/ e.kind = "Mined" /\ Transition(s, e, v, q) = Status("Mined", e.block, e.hash)
<1>1. CASE IsTerminal(s) \/ e.kind = "Unknown"
  BY <1>1 DEF Transition, IsTerminal
<1>2. CASE ~IsTerminal(s) /\ e.kind = "Pending"
  BY <1>2 DEF Transition, OnPending, Plain, Status
<1>3. CASE ~IsTerminal(s) /\ e.kind = "Mined"
  BY Zenon, <1>3 DEF Transition, OnMined, Plain, Status
<1>4. CASE ~IsTerminal(s) /\ e.kind \notin {"Unknown", "Pending", "Mined"}
  BY Zenon, <1>4 DEF Transition, OnReplaced, Plain, Status
<1> QED
  BY <1>1, <1>2, <1>3, <1>4

\* Only a Pending event takes a status from Mined to Sent.
LEMMA TransitionRewinds ==
    ASSUME NEW s, NEW e, NEW v, NEW q, s.kind = "Mined", Transition(s, e, v, q).kind = "Sent"
    PROVE  e.kind = "Pending"
BY Zenon DEF Transition, IsTerminal, OnMined, OnReplaced, Plain, Status

\* While the block is in place the nonce is consumed by that broadcast.
LEMMA InPlaceIncluded ==
    ASSUME CInv, RewindInv, InPlace
    PROVE  /\ status.block \in Heights /\ incl.block = status.block /\ incl.block # 0
           /\ incl.tx \in 1 .. hashes
<1>1. PICK r \in receipts : r.block = status.block /\ r.hash = status.hash
  BY DEF RewindInv, InPlace
<1>2. /\ r.block \in Heights /\ r.tx \in 1 .. MaxHashes /\ r.tx <= hashes
      /\ hashes \in 1 .. MaxHashes /\ MaxHashes \in Nat
  BY <1>1, ConfirmationAssumption DEF CInv, TypeOK, Receipt, RewindInv
<1>3. incl.block = r.block /\ incl.tx = r.tx
  BY <1>1 DEF CInv, ReceiptsInv, Canonical, InPlace
<1> QED
  BY <1>1, <1>2, <1>3 DEF Heights

\* A block that is in place was so before, and so was what it includes.
LEMMA InPlaceKept ==
    ASSUME CInv, RewindInv, Next, status' = status, InPlace'
    PROVE  InPlace /\ incl' = incl
<1>1. PICK r \in receipts : r.block = status.block /\ r.hash = status.hash
  BY Zenon DEF RewindInv, InPlace
<1>2. /\ r.block \in Heights /\ r.hash \in Nat /\ 0 < r.hash
      /\ r.hash = epoch => r.block <= head
      /\ chain'[r.block] = r.hash /\ status.kind = "Mined"
      /\ chain \in [Heights -> Nat] /\ head \in Nat /\ Heights \subseteq Nat
  <2>1. r.block \in Heights /\ r.hash \in Nat
    BY DEF CInv, TypeOK, Receipt
  <2>2. 0 < r.hash /\ (r.hash = epoch => r.block <= head)
    BY Zenon DEF CInv, ReceiptsInv
  <2>3. chain'[r.block] = r.hash /\ status.kind = "Mined"
    BY Zenon, <1>1 DEF InPlace
  <2>4. chain \in [Heights -> Nat] /\ head \in Nat /\ Heights \subseteq Nat
    BY ConfirmationAssumption DEF CInv, TypeOK, Heights
  <2> QED  BY Zenon, <2>1, <2>2, <2>3, <2>4
<1>3. ASSUME chain[r.block] = r.hash  PROVE InPlace /\ incl.block = r.block /\ incl.block # 0
  <2>1. InPlace
    BY Zenon, <1>1, <1>2, <1>3 DEF InPlace
  <2> QED
    BY Zenon, <1>1, <2>1, InPlaceIncluded
<1>4. ASSUME NEW i, NEW x, Extend(i, x)  PROVE InPlace /\ incl.block # 0
  <2>1. r.block # head + 1
    BY <1>2, <1>4 DEF Extend, Heights
  <2> QED
    BY <1>2, <1>3, <1>4, <2>1 DEF Extend
<1>5. CASE MineOther
  BY <1>4, <1>5 DEF MineOther, Extend
<1>6. CASE MineOurs
  BY Zenon, <1>4, <1>6 DEF MineOurs
<1>7. CASE MineForeign
  BY Zenon, <1>4, <1>7 DEF MineForeign
<1>8. CASE Reorg
  <2>1. PICK h \in Safe .. MaxHeight :
             /\ chain' = [b \in Heights |-> IF b <= h THEN chain[b] ELSE 0]
             /\ incl' = IF incl.block > h THEN NotMined ELSE incl
    BY <1>8 DEF Reorg
  <2>2. Safe \in Nat /\ MaxHeight \in Nat
    BY ConfirmationAssumption DEF CInv, TypeOK, Safe
  <2>3. chain'[r.block] = IF r.block <= h THEN chain[r.block] ELSE 0
    BY Zenon, <1>2, <2>1
  <2>4. r.block <= h /\ chain[r.block] = r.hash
    <3>1. r.hash # 0
      BY <1>2
    <3> QED
      BY Zenon, <1>2, <2>3, <3>1
  <2>5. InPlace /\ incl.block = r.block
    BY Zenon, <1>3, <2>4
  <2>6. ~(r.block > h)
    <3>1. r.block \in Nat
      BY Zenon, <1>2
    <3>2. h \in Nat
      BY <2>2
    <3> QED  BY <2>4, <3>1, <3>2
  <2> QED
    BY Zenon, <2>1, <2>5, <2>6
<1>9. CASE Finalize
  BY <1>2, <1>3, <1>9 DEF Finalize
<1>10. CASE Cycle \/ PutFails \/ ReadError \/ Restart \/ Bump
  <2>1. UNCHANGED chainVars
    BY Zenon, <1>10 DEF Cycle, ReadLatest, ReadCount, ReadFinalized, LoadHandle, ReceiptFound,
                ReceiptNone, ReadHash, Apply, PutFails, ReadError, Restart, Bump, ReadVars
  <2> QED
    BY <1>2, <1>3, <2>1 DEF chainVars
<1> QED
  BY Zenon, <1>5, <1>6, <1>7, <1>8, <1>9, <1>10 DEF Next, Chain


\* The steps of the cycle and of the chain keep the invariant.
LEMMA RewindStep == ASSUME ~Lagging, CInv, RewindInv, Next PROVE RewindInv'
<1>0. /\ TypeOK /\ receipts \subseteq receipts' /\ hashes \in Nat /\ asking \in Nat
      /\ incl.tx \in Nat
  BY ChainStable, ConfirmationAssumption DEF CInv, TypeOK
<1>1. \A r \in receipts' : r.tx <= hashes'
  <2>1. CASE MineOurs
    <3>1. PICK tx \in 1 .. hashes, o \in Outcomes :
               Extend([block |-> head + 1, tx |-> tx, outcome |-> o],
                      {[tx |-> tx, block |-> head + 1, hash |-> epoch, outcome |-> o]})
      BY Zenon, <2>1 DEF MineOurs
    <3>2. /\ receipts' = receipts \cup {[tx |-> tx, block |-> head + 1, hash |-> epoch, outcome |-> o]}
          /\ hashes' = hashes
      BY Zenon, <3>1 DEF Extend
    <3> QED
      BY <1>0, <3>2 DEF RewindInv
  <2>2. CASE receipts' = receipts /\ hashes' \in {hashes, hashes + 1}
    <3>1. \A r \in receipts : r.tx \in Nat /\ r.tx <= hashes
      BY <1>0, ConfirmationAssumption DEF RewindInv, TypeOK, Receipt
    <3> QED
      BY <1>0, <2>2, <3>1
  <2>3. (receipts' = receipts /\ hashes' \in {hashes, hashes + 1}) \/ MineOurs
    BY Zenon DEF Next, Cycle, Chain, MineOther, MineForeign, Extend, Reorg, Finalize, Bump,
         Apply, PutFails, Restart, ReadError, ReadLatest, ReadCount, ReadFinalized, LoadHandle,
         ReceiptFound, ReceiptNone, ReadHash, ReadVars, chainVars
  <2> QED  BY <2>1, <2>2, <2>3
<1>2. CASE Apply
  <2>1. /\ status' = Transition(status, event, view, Required)
        /\ pc = "apply" /\ pc' = "idle" /\ receipts' = receipts
    BY <1>2 DEF Apply, EndCycle, chainVars
  <2>2. status'.kind = "Mined" => \E r \in receipts : r.block = status'.block /\ r.hash = status'.hash
    BY <2>1, TransitionMines DEF RewindInv, Status
  <2> QED
    BY Zenon, <1>1, <2>1, <2>2 DEF RewindInv, InPlace
<1>3. CASE status' = status
  <2>1. status'.kind = "Mined" => \E r \in receipts' : r.block = status'.block /\ r.hash = status'.hash
    BY Zenon, <1>0, <1>3 DEF RewindInv
  <2>2. InPlace' => InPlace /\ incl' = incl
    BY Zenon, <1>3, InPlaceKept
  <2>3. CASE UNCHANGED <<pc, event, asking>>
    BY <1>0, <1>1, <2>1, <2>2, <2>3 DEF RewindInv
  <2>4. CASE pc' \notin {"receipt", "apply"}
    BY Zenon, <1>1, <2>1, <2>4 DEF RewindInv
  <2>5. CASE LoadHandle /\ pc' = "receipt"
    <3>1. asking' = hashes
      BY <2>5 DEF LoadHandle, EndCycle
    <3>2. InPlace => incl.tx <= hashes
      BY <1>0, InPlaceIncluded
    <3> QED
      BY Zenon, <1>1, <2>1, <2>2, <2>5, <3>1, <3>2 DEF RewindInv
  <2>6. CASE ReceiptNone
    <3>1. pc = "receipt" /\ incl.tx # asking
      BY <2>6 DEF ReceiptNone
    <3>2. InPlace => incl.tx <= asking /\ incl.tx \in 1 .. hashes
      BY <3>1, InPlaceIncluded DEF RewindInv
    <3>3. CASE asking > 1
      <4>1. asking' = asking - 1 /\ pc' = pc
        BY <2>6, <3>3 DEF ReceiptNone
      <4> QED
        BY <1>0, <1>1, <2>1, <2>2, <3>1, <3>2, <4>1 DEF RewindInv
    <3>4. CASE ~(asking > 1)
      <4>1. pc' = "apply" /\ event'.kind # "Mined"
        BY <2>6, <3>4 DEF ReceiptNone, Distilled, Event
      <4>2. ~InPlace
        BY <1>0, <3>1, <3>2, <3>4
      <4> QED
        BY <1>1, <2>1, <2>2, <4>1, <4>2 DEF RewindInv
    <3> QED  BY <3>3, <3>4
  <2>7. CASE ReadHash
    <3>1. /\ pc = "anchor" /\ pc' = "apply" /\ receipts' = receipts
          /\ event' = IF Canonical(found)
                      THEN Event("Mined", found.block, found.hash, OutcomeOf(found))
                      ELSE Unknown
      BY <2>7 DEF ReadHash, Distilled, ReadVars, chainVars
    <3>2. found \in receipts
      BY <3>1 DEF CInv, CycleInv
    <3>3. event'.kind # "Pending"
      BY <3>1 DEF Event, Unknown
    <3>4. event'.kind = "Mined" => event'.block = found.block /\ event'.hash = found.hash
      BY <3>1 DEF Event, Unknown
    <3> QED
      BY <1>1, <2>1, <3>1, <3>2, <3>3, <3>4 DEF RewindInv
  <2>8. CASE Distilled(Unknown)
    <3>1. pc' = "apply" /\ event'.kind = "Unknown"
      BY <2>8 DEF Distilled, Unknown, Event
    <3> QED
      BY <1>1, <2>1, <3>1 DEF RewindInv
  <2>9. \/ UNCHANGED <<pc, event, asking>> \/ pc' \notin {"receipt", "apply"}
        \/ (LoadHandle /\ pc' = "receipt") \/ ReceiptNone \/ ReadHash \/ Distilled(Unknown) \/ Apply
    BY Zenon DEF Next, Cycle, Chain, MineOther, MineOurs, MineForeign, Extend, Reorg, Finalize,
         Bump, PutFails, Restart, ReadError, ReadLatest, ReadCount, ReadFinalized, LoadHandle,
         ReceiptFound, EndCycle, cycleVars
  <2> QED
    BY Zenon, <1>2, <2>3, <2>4, <2>5, <2>6, <2>7, <2>8, <2>9
<1> QED
  BY Zenon, <1>2, <1>3
     DEF Next, Cycle, Chain, MineOther, MineOurs, MineForeign, Extend, Reorg, Finalize, Bump,
         PutFails, Restart, ReadError, ReadLatest, ReadCount, ReadFinalized, LoadHandle,
         ReceiptFound, ReceiptNone, ReadHash, ReadVars

\* A handle goes back from Mined to Sent only when its block has left the chain
\* (executor/mod.rs:183-186), whatever reads fail or meet stale receipts and
\* however often it was bumped; a node that lags behind can break it.
THEOREM RewindsOnlyOnReorg ==
    ASSUME ~Lagging
    PROVE  Spec => RewindOnlyOnReorg
<1>1. ASSUME Init  PROVE RewindInv
  BY <1>1 DEF Init, RewindInv, InPlace, Plain, Status, Unknown, Event
<1>2. ASSUME CInv, RewindInv, [Next]_vars  PROVE RewindInv'
  <2>1. CASE Next
    BY <1>2, <2>1, RewindStep
  <2>2. CASE UNCHANGED vars
    BY Zenon, <1>2, <2>2 DEF RewindInv, InPlace, vars, chainVars, cycleVars
  <2> QED  BY <1>2, <2>1, <2>2
<1>3. ASSUME CInv, RewindInv, [Next]_vars, status.kind = "Mined", status'.kind = "Sent"
      PROVE  chain[status.block] # status.hash
  <2>1. Apply
    BY Zenon, <1>3
       DEF Next, Cycle, Chain, MineOther, MineOurs, MineForeign, Extend, Reorg, Finalize, Bump,
           PutFails, Restart, ReadError, ReadLatest, ReadCount, ReadFinalized, LoadHandle,
           ReceiptFound, ReceiptNone, ReadHash, ReadVars, vars
  <2>2. pc = "apply" /\ event.kind = "Pending"
    BY <1>3, <2>1, TransitionRewinds DEF Apply
  <2> QED
    BY <1>3, <2>2 DEF RewindInv, InPlace
<1>4. ASSUME CInv, RewindInv, [Next]_vars
      PROVE  [status.kind = "Mined" /\ status'.kind = "Sent" => chain[status.block] # status.hash]_vars
  BY <1>3, <1>4
<1> QED
  BY <1>1, <1>2, <1>4, CInvHolds, PTL DEF Spec, RewindOnlyOnReorg
=============================================================================
