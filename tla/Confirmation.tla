---------------------------- MODULE Confirmation ----------------------------
(***************************************************************************)
(* The confirm cycle of AccountExecutor (core/wallet/executor/mod.rs) for  *)
(* one tracked handle, against a chain that mines, reorganises and         *)
(* finalizes while the cycle is reading it.  Every RPC call is a step of   *)
(* its own: head, transaction count, finalized head, one receipt per       *)
(* recorded broadcast (newest first), the block hash that anchors a        *)
(* receipt, and the write of the next status.                              *)
(*                                                                         *)
(* The chain is the part outside src/: a block is identified by its height *)
(* and the number of reorgs before it was mined (its hash).  A reorg drops *)
(* blocks above some height that is neither below the finalized head nor   *)
(* more than ReorgDepth below the highest head there ever was.             *)
(***************************************************************************)
EXTENDS Lifecycle

CONSTANTS
    Required,    \* required_confirmations
    ReorgDepth,  \* how far below the highest head a reorg may reach
    Modes,       \* what finalized_block may answer: a head, or nothing
    SelfRelay,   \* is the handle a forwarder execute() of our own relayer?
    Foreign,     \* may another transaction consume the nonce?
    Lagging,     \* may a receipt or count read come from a node one step behind?
    MaxHeight,   \* bound: chain height
    MaxReorgs,   \* bound: number of reorgs
    MaxHashes,   \* bound: broadcasts of the handle (the first and its bumps)
    MaxFaults    \* bound: failed reads and writes, and restarts

ASSUME ConfirmationAssumption ==
    /\ Required \in Nat /\ ReorgDepth \in Nat
    /\ Modes \subseteq Finality
    /\ "Depth" \in Modes => ReorgDepth < Required
    /\ SelfRelay \in BOOLEAN /\ Foreign \in BOOLEAN /\ Lagging \in BOOLEAN
    /\ MaxHeight \in Nat /\ MaxReorgs \in Nat /\ MaxHashes \in Nat \ {0} /\ MaxFaults \in Nat

VARIABLES
    head,       \* height of the canonical chain
    peak,       \* the highest head so far
    fin,        \* height of the finalized head
    epoch,      \* 1 + number of reorgs
    chain,      \* hash of the canonical block at each height, 0 above head
    incl,       \* where the nonce is consumed: block, our hash or 0, outcome
    receipts,   \* every receipt a node may hold, stale forks included
    status,     \* the persisted TxStatus
    hashes,     \* number of hashes in the handle's broadcasts
    pc,         \* where the cycle is
    lastLatest, \* the head of the last cycle that was not skipped
    view,       \* the cycle's ChainView
    consumed,   \* is handle.nonce < mined_nonce in this cycle?
    asking,     \* the broadcast whose receipt is read next
    found,      \* the receipt to anchor
    event,      \* the distilled ChainEvent
    faults      \* faults so far

chainVars == <<head, peak, fin, epoch, chain, incl, receipts>>
cycleVars == <<pc, lastLatest, view, consumed, asking, found, event>>
vars == <<chainVars, status, hashes, cycleVars, faults>>

Heights  == 1 .. MaxHeight
Outcomes == {"executed", "reverted"} \cup IF SelfRelay THEN {"innerReverted"} ELSE {}
NotMined == [block |-> 0, tx |-> 0, outcome |-> "none"]
NoReceipt == [tx |-> 0, block |-> 0, hash |-> 0, outcome |-> "none"]
NoView   == [latest |-> 0, finalized |-> 0, mode |-> "Depth"]
Receipt  == [tx : 1 .. MaxHashes, block : Heights, hash : Nat, outcome : Outcomes]

TypeOK ==
    /\ head \in 0 .. MaxHeight /\ peak \in 0 .. MaxHeight /\ fin \in Nat
    /\ epoch \in Nat
    /\ chain \in [Heights -> Nat]
    /\ incl \in [block : 0 .. MaxHeight, tx : 0 .. MaxHashes,
                 outcome : Outcomes \cup {"none"}]
    /\ receipts \subseteq Receipt
    /\ status \in TxStatus
    /\ hashes \in 1 .. MaxHashes
    /\ pc \in {"idle", "count", "finalized", "load", "receipt", "anchor", "apply"}
    /\ lastLatest \in Nat
    /\ view \in ChainView
    /\ consumed \in BOOLEAN
    /\ asking \in 0 .. MaxHashes
    /\ found \in receipts \cup {NoReceipt}
    /\ event \in ChainEvent
    /\ faults \in 0 .. MaxFaults

Init ==
    /\ head = 0 /\ peak = 0 /\ fin = 0 /\ epoch = 1
    /\ chain = [b \in Heights |-> 0]
    /\ incl = NotMined
    /\ receipts = {}
    /\ status \in {Plain("Pending"), Plain("Sent")}
    /\ hashes = 1
    /\ pc = "idle"
    /\ lastLatest = 0
    /\ view = NoView
    /\ consumed = FALSE
    /\ asking = 0
    /\ found = NoReceipt
    /\ event = Unknown
    /\ faults = 0

-----------------------------------------------------------------------------
(* The chain and the node *)

\* The highest height no reorg can change any more.
Safe == IF fin + ReorgDepth >= peak THEN fin ELSE peak - ReorgDepth

Extend(i, r) ==
    /\ head < MaxHeight
    /\ head' = head + 1
    /\ peak' = IF peak > head THEN peak ELSE head + 1
    /\ chain' = [chain EXCEPT ![head + 1] = epoch]
    /\ incl' = i
    /\ receipts' = receipts \cup r
    /\ UNCHANGED <<fin, epoch, status, hashes, cycleVars, faults>>

MineOther == Extend(incl, {})

MineOurs ==
    /\ incl.block = 0
    /\ \E tx \in 1 .. hashes, o \in Outcomes :
          Extend([block |-> head + 1, tx |-> tx, outcome |-> o],
                 {[tx |-> tx, block |-> head + 1, hash |-> epoch, outcome |-> o]})

MineForeign ==
    /\ Foreign
    /\ incl.block = 0
    /\ Extend([block |-> head + 1, tx |-> 0, outcome |-> "none"], {})

Reorg ==
    /\ epoch <= MaxReorgs
    /\ \E h \in Safe .. MaxHeight :
          /\ h < head
          /\ head' = h
          /\ chain' = [b \in Heights |-> IF b <= h THEN chain[b] ELSE 0]
          /\ incl' = IF incl.block > h THEN NotMined ELSE incl
    /\ epoch' = epoch + 1
    /\ UNCHANGED <<peak, fin, receipts, status, hashes, cycleVars, faults>>

\* Only a chain that exposes the finalized tag has a finalized head.
Finalize ==
    /\ "Finalized" \in Modes
    /\ fin < head
    /\ fin' = fin + 1
    /\ UNCHANGED <<head, peak, epoch, chain, incl, receipts, status, hashes, cycleVars, faults>>

-----------------------------------------------------------------------------
(* read_cycle *)

\* How many blocks the node that answers may be behind.
Lag == IF Lagging THEN {0, 1} ELSE {0}

\* The cycle ends: its locals go out of scope.
EndCycle ==
    /\ pc' = "idle"
    /\ view' = NoView
    /\ consumed' = FALSE
    /\ asking' = 0
    /\ found' = NoReceipt
    /\ event' = Unknown

ReadLatest ==
    /\ pc = "idle"
    /\ pc' = "count"
    /\ view' = [view EXCEPT !.latest = head]
    /\ UNCHANGED <<chainVars, status, hashes, lastLatest, consumed, asking, found, event, faults>>

\* tx_count, then the regressed-head check: skip the cycle.
ReadCount ==
    /\ pc = "count"
    /\ IF view.latest < lastLatest
       THEN EndCycle
       ELSE /\ pc' = "finalized"
            /\ \E lag \in Lag : consumed' = (incl.block # 0 /\ incl.block + lag <= head)
            /\ UNCHANGED <<view, asking, found, event>>
    /\ UNCHANGED <<chainVars, status, hashes, lastLatest, faults>>

\* The finality rule of the cycle; a finalized head above latest skips it.
ReadFinalized ==
    /\ pc = "finalized"
    /\ \E mode \in Modes :
          LET finalized == IF mode = "Finalized" THEN fin ELSE 0
          IN  IF finalized > view.latest
              THEN EndCycle /\ UNCHANGED lastLatest
              ELSE /\ pc' = "load"
                   /\ view' = [view EXCEPT !.finalized = finalized, !.mode = mode]
                   /\ lastLatest' = view.latest
                   /\ UNCHANGED <<consumed, asking, found, event>>
    /\ UNCHANGED <<chainVars, status, hashes, faults>>

\* pending_handles: a terminal handle is not returned.
LoadHandle ==
    /\ pc = "load"
    /\ IF IsTerminal(status)
       THEN EndCycle
       ELSE /\ pc' = "receipt"
            /\ asking' = hashes
            /\ UNCHANGED <<view, consumed, found, event>>
    /\ UNCHANGED <<chainVars, status, hashes, lastLatest, faults>>

-----------------------------------------------------------------------------
(* event_for and anchor *)

Distilled(e) ==
    /\ pc' = "apply"
    /\ event' = e
    /\ UNCHANGED <<view, consumed, asking, found>>

ReadVars == <<chainVars, status, hashes, lastLatest, faults>>

\* The node has a receipt for the hash: of the canonical block that holds it,
\* or, when there is none, of a block that a reorg has dropped.
ReceiptFound ==
    /\ pc = "receipt"
    /\ \E r \in receipts :
          /\ r.tx = asking
          /\ incl.tx = asking => r.block = incl.block /\ chain[r.block] = r.hash
          /\ found' = r
    /\ pc' = "anchor"
    /\ UNCHANGED <<view, consumed, asking, event, ReadVars>>

\* No receipt: ask for an older broadcast; after the last, the count decides.
ReceiptNone ==
    /\ pc = "receipt"
    /\ incl.tx = asking => Lagging /\ incl.block = head
    /\ IF asking > 1
       THEN asking' = asking - 1 /\ UNCHANGED <<pc, view, consumed, found, event>>
       ELSE Distilled(Event(IF consumed THEN "Replaced" ELSE "Pending", 0, 0, FALSE))
    /\ UNCHANGED ReadVars

\* outcome_of: a forwarder execute() counts only if its inner call ran.
OutcomeOf(r) == r.outcome = "executed"

\* Mutant: the receipt is trusted as it comes.
CanonicalUnchecked(r) == TRUE

\* block_hash(n) equals the receipt's block hash.
Canonical(r) == chain[r.block] = r.hash

ReadHash ==
    /\ pc = "anchor"
    /\ Distilled(IF Canonical(found)
                 THEN Event("Mined", found.block, found.hash, OutcomeOf(found))
                 ELSE Unknown)
    /\ UNCHANGED ReadVars

-----------------------------------------------------------------------------
(* advance_on_chain, escalate, faults *)

\* The next status is persisted.
Apply ==
    /\ pc = "apply"
    /\ status' = Transition(status, event, view, Required)
    /\ EndCycle
    /\ UNCHANGED <<chainVars, hashes, lastLatest, faults>>

Fault == faults < MaxFaults /\ faults' = faults + 1

\* put_handle fails: the handle keeps its old status for the next tick.
PutFails ==
    /\ pc = "apply"
    /\ Fault
    /\ EndCycle
    /\ UNCHANGED <<chainVars, status, hashes, lastLatest>>

\* Mutant: a receipt that cannot be read is a receipt that is not there.
ReadErrorPending ==
    /\ Fault
    /\ \/ pc \in {"count", "finalized", "load"} /\ EndCycle
       \/ pc \in {"receipt", "anchor"} /\ Distilled(Event("Pending", 0, 0, FALSE))
    /\ UNCHANGED <<chainVars, status, hashes, lastLatest>>

\* A failed head, count or finalized read aborts the cycle; a failed receipt
\* or block-hash read distills to Unknown.
ReadError ==
    /\ Fault
    /\ \/ pc \in {"count", "finalized", "load"} /\ EndCycle
       \/ pc \in {"receipt", "anchor"} /\ Distilled(Unknown)
    /\ UNCHANGED <<chainVars, status, hashes, lastLatest>>

\* The process restarts: the handle survives, the head guard does not.
Restart ==
    /\ Fault
    /\ EndCycle
    /\ lastLatest' = 0
    /\ UNCHANGED <<chainVars, status, hashes>>

\* escalate, after confirm in the same tick: a replacement at the same nonce.
\* The nonce was open when bump checked it; by the time the replacement is
\* recorded it may be consumed ("nonce too low" counts as accepted).
Bump ==
    /\ pc = "idle"
    /\ status.kind = "Sent"
    /\ hashes < MaxHashes
    /\ hashes' = hashes + 1
    /\ UNCHANGED <<chainVars, status, cycleVars, faults>>

Cycle ==
    \/ ReadLatest \/ ReadCount \/ ReadFinalized \/ LoadHandle
    \/ ReceiptFound \/ ReceiptNone \/ ReadHash \/ Apply

Chain == MineOther \/ MineOurs \/ MineForeign \/ Reorg \/ Finalize

Next == Cycle \/ PutFails \/ ReadError \/ Restart \/ Bump \/ Chain

Spec == Init /\ [][Next]_vars

\* The host keeps ticking, the chain keeps growing and finalizing.
Fairness == WF_vars(Cycle) /\ WF_vars(MineOther) /\ WF_vars(Finalize)

FairSpec == Spec /\ Fairness

-----------------------------------------------------------------------------
(* Properties *)

\* The nonce is consumed by our own transaction, in a block no reorg can drop.
OursForGood == incl.tx # 0 /\ incl.block <= Safe

\* A handle reported Confirmed names the block that really holds one of its
\* broadcasts, executed, and no reorg can take it back: however the chain
\* moves between the reads of a cycle (executor/mod.rs:295-354), and whatever
\* stale receipts nodes serve.
ConfirmedIsFinal ==
    status.kind = "Confirmed" =>
        OursForGood /\ incl.block = status.block /\ incl.outcome = "executed"

\* A handle reported Failed by the confirm cycle really reverted (or, for a
\* forwarder call, its inner call did), in a block no reorg can drop.
FailedIsFinal ==
    status.kind = "Failed" => OursForGood /\ incl.outcome # "executed"

\* The lifecycle rewinds from Mined to Sent only when the block it had seen
\* is no longer canonical ("a wrong read can neither advance nor rewind the
\* lifecycle", executor/mod.rs:183-186).
RewindOnlyOnReorg ==
    [][status.kind = "Mined" /\ status'.kind = "Sent" => chain[status.block] # status.hash]_vars

\* A handle reported Replaced: a foreign transaction holds its nonce and has
\* the required depth or is finalized (primitives/handle.rs:29-33 and 64).
\* TLC refutes it (README, Known divergences).
ReplacedAtDepth ==
    status.kind = "Replaced" => incl.block # 0 /\ incl.tx = 0 /\ incl.block <= Safe

\* A node still holds a receipt of a newer broadcast from a block that a reorg
\* dropped: event_for takes the first receipt it meets, and distills Unknown
\* from it without asking for the older broadcast that was mined.
Obscured == \E r \in receipts : r.tx > incl.tx /\ ~Canonical(r)

\* Deep enough for either finality rule.
Buried == head - incl.block + 1 >= Required

\* Once one of our transactions is deep in the chain in a block no reorg can
\* drop, and no newer stale receipt stands before it, the handle settles:
\* skipped cycles, Unknown reads, bumps and rewinds do not go on forever.
Settles == (OursForGood /\ Buried /\ ~Obscured) ~> IsTerminal(status)

-----------------------------------------------------------------------------
(* The inductive invariant behind the theorems of ConfirmationProofs. *)

ChainInv ==
    /\ head <= peak /\ fin <= head /\ Safe <= head /\ 0 < epoch
    /\ \A b \in Heights : b > head => chain[b] = 0
    /\ incl.block <= head
    /\ incl.block = 0 => incl.tx = 0

\* A receipt is either stale or tells where the nonce is consumed now.
ReceiptsInv ==
    \A r \in receipts :
        /\ 0 < r.hash /\ r.hash <= epoch
        /\ r.hash = epoch => r.block <= head
        /\ Canonical(r) =>
              incl.block = r.block /\ incl.tx = r.tx /\ incl.outcome = r.outcome

\* What the cycle has read is no newer than the chain, and a Mined event that
\* its view calls final is about a block that is there for good.
CycleInv ==
    /\ view.latest <= peak /\ view.finalized <= fin
    /\ pc \in {"load", "receipt", "anchor", "apply"} => view.mode \in Modes
    /\ pc = "anchor" => found \in receipts
    /\ pc = "apply" /\ event.kind = "Mined" /\ IsFinal(event.block, view, Required) =>
          /\ OursForGood
          /\ incl.block = event.block
          /\ event.executed <=> incl.outcome = "executed"

CInv ==
    TypeOK /\ ChainInv /\ ReceiptsInv /\ CycleInv /\ ConfirmedIsFinal /\ FailedIsFinal
=============================================================================
