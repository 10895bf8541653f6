----------------------------- MODULE Lifecycle -----------------------------
(***************************************************************************)
(* The pure lifecycle state machine (core/wallet/executor/lifecycle.rs):   *)
(* the next persisted status of a handle, given one distilled chain read   *)
(* and the cycle's view of the chain.                                      *)
(***************************************************************************)
EXTENDS Naturals

\* A TxStatus (core/wallet/primitives/handle.rs): the variant, the block it
\* carries (Mined.block, Replacing.since_block, Confirmed.block) and the block
\* hash; variants without these fields carry zero.
Status(kind, block, hash) == [kind |-> kind, block |-> block, hash |-> hash]
Plain(kind) == Status(kind, 0, 0)

Kinds == {"Pending", "Sent", "Mined", "Replacing",
          "Confirmed", "Failed", "Replaced", "Dropped"}
TxStatus == [kind : Kinds, block : Nat, hash : Nat]

IsTerminal(s) == s.kind \in {"Confirmed", "Failed", "Replaced", "Dropped"}

\* A ChainEvent; only Mined carries a block, its hash and an outcome.
Event(kind, block, hash, executed) ==
    [kind |-> kind, block |-> block, hash |-> hash, executed |-> executed]
Unknown == Event("Unknown", 0, 0, FALSE)
ChainEvent == [kind : {"Unknown", "Pending", "Mined", "Replaced"},
               block : Nat, hash : Nat, executed : BOOLEAN]

\* ChainView and FinalityConfig of one cycle.
Finality  == {"Finalized", "Depth"}
ChainView == [latest : Nat, finalized : Nat, mode : Finality]

SaturatingSub(a, b) == IF a >= b THEN a - b ELSE 0

\* Mutant: counts the inclusion block as one confirmation too many.
IsFinalEarly(block, view, required) ==
    IF view.mode = "Finalized"
    THEN block <= view.finalized
    ELSE SaturatingSub(view.latest, block) + 2 >= required

IsFinal(block, view, required) ==
    IF view.mode = "Finalized"
    THEN block <= view.finalized
    ELSE SaturatingSub(view.latest, block) + 1 >= required

\* The status an event leads to from a status that is not terminal.
OnPending(s) == IF s.kind \in {"Mined", "Replacing"} THEN Plain("Sent") ELSE s

\* Mutant: a reverted transaction has failed as soon as it is mined.
OnMinedRevertedFails(e, view, required) ==
    IF ~e.executed THEN Plain("Failed")
    ELSE IF IsFinal(e.block, view, required) THEN Status("Confirmed", e.block, 0)
    ELSE Status("Mined", e.block, e.hash)

OnMined(e, view, required) ==
    IF IsFinal(e.block, view, required)
    THEN IF e.executed THEN Status("Confirmed", e.block, 0) ELSE Plain("Failed")
    ELSE Status("Mined", e.block, e.hash)

OnReplaced(s, view, required) ==
    IF s.kind # "Replacing" THEN Status("Replacing", view.latest, 0)
    ELSE IF IsFinal(s.block, view, required) THEN Plain("Replaced")
    ELSE s

\* Mutant: a handle already Mined is not looked at again.
TransitionMinedSticks(s, e, view, required) ==
    IF IsTerminal(s) \/ e.kind = "Unknown" \/ s.kind = "Mined" THEN s
    ELSE IF e.kind = "Pending" THEN OnPending(s)
    ELSE IF e.kind = "Mined" THEN OnMined(e, view, required)
    ELSE OnReplaced(s, view, required)

\* transition: the next status; the status itself stands for None.
Transition(s, e, view, required) ==
    IF IsTerminal(s) \/ e.kind = "Unknown" THEN s
    ELSE IF e.kind = "Pending" THEN OnPending(s)
    ELSE IF e.kind = "Mined" THEN OnMined(e, view, required)
    ELSE OnReplaced(s, view, required)
=============================================================================
