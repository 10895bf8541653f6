--------------------------- MODULE NonceAllocator ---------------------------
(***************************************************************************)
(* What the nonce manager promises (core/deps/nonce_manager.rs:7-20),      *)
(* without the store, the compare-and-swap loop or the free list: a set of *)
(* nonces in use.  An allocation is one atomic step that takes the lowest  *)
(* nonce not in use; a release gives one back; a reset marks everything    *)
(* below the chain's count as used.                                        *)
(***************************************************************************)
EXTENDS Naturals

VARIABLES
    used,   \* nonces reserved, broadcast or consumed
    fresh   \* nothing has been stored for this account yet

allocVars == <<used, fresh>>

Below(n) == {m \in 0 .. n : m # n}

AInit ==
    /\ used \in SUBSET Nat
    /\ fresh \in BOOLEAN
    /\ fresh => used = {}

\* The very first allocation may start at any nonce: the chain's hint.
AAllocate(n) ==
    /\ n \notin used
    /\ IF fresh THEN used' = 0 .. n
                ELSE Below(n) \subseteq used /\ used' = used \cup {n}
    /\ fresh' = FALSE

ARelease(n) ==
    /\ n \in used
    /\ used' = used \ {n}
    /\ UNCHANGED fresh

AReset(c) ==
    /\ used' = used \cup Below(c)
    /\ fresh' = FALSE

ANext ==
    \/ \E n \in used' : AAllocate(n)
    \/ \E n \in used : ARelease(n)
    \/ \E c \in {0} \cup {m + 1 : m \in used'} : AReset(c)

ASpec == AInit /\ [][ANext]_allocVars
=============================================================================
