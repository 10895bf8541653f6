---------------------------- MODULE NonceManager ----------------------------
(***************************************************************************)
(* LocalNonceManager (adapters/nonce.rs): allocate, release and reset as   *)
(* load -> compute -> compare-and-swap loops over the shared StateStore,   *)
(* run by any number of tasks or replicas at once.  Each await of the code *)
(* is a step of its own, so any other task may run between a load and the  *)
(* compare-and-swap that uses it.                                          *)
(*                                                                         *)
(* Around the manager: the chain, which mines broadcast transactions in    *)
(* nonce order and (OutOfBand) may see the same key used elsewhere; tasks  *)
(* that die between two awaits (Crashes); and a store whose calls fail     *)
(* before (StoreFaults) or after (LostAcks) taking effect.                 *)
(***************************************************************************)
EXTENDS Naturals, FiniteSets

CONSTANTS
    Procs,        \* tasks that send, and executors that tick
    BootMined,    \* the account's transaction count when the store is created
    BootPool,     \* transactions of an earlier run still in the mempool then
    OutOfBand,    \* may the key sign outside this wallet?
    Crashes,      \* may a task die between two awaits?
    StoreFaults,  \* may a store call fail without effect?
    LostAcks,     \* may a store call take effect and still return an error?
    MaxVersion,   \* bound: no new operation once the store is at this version
    MaxMined      \* bound: out-of-band transactions stop at this count

ASSUME ConstantsAssumption ==
    /\ BootMined \in Nat /\ BootPool \in Nat
    /\ OutOfBand \in BOOLEAN /\ Crashes \in BOOLEAN /\ StoreFaults \in BOOLEAN
    /\ LostAcks \in BOOLEAN
    /\ MaxVersion \in Nat /\ MaxMined \in Nat

VARIABLES
    store,     \* the persisted Versioned<NonceState>: next, free, version
    pc,        \* where each task is
    loc,       \* each task's loaded Versioned<NonceState>
    nonce,     \* the nonce a task has been given
    chainNext, \* the argument of a task's reset
    mined,     \* the account's transaction count at latest
    inflight,  \* nonces of this wallet's broadcast transactions
    lost       \* history: nonces taken from the counter and dropped by a fault

vars == <<store, pc, loc, nonce, chainNext, mined, inflight, lost>>

NonceState == [next : Nat, free : SUBSET Nat, version : Nat]
Default    == [next |-> 0, free |-> {}, version |-> 0]

\* Tasks that own the nonce they were given and have not used or returned it.
Holding == {"held", "release", "releaseCas"}
Holders == {p \in Procs : pc[p] \in Holding}

TypeOK ==
    /\ store \in NonceState
    /\ pc \in [Procs -> {"idle", "alloc", "hint", "allocCas", "reset", "resetCas"}
                        \cup Holding]
    /\ loc \in [Procs -> NonceState]
    /\ nonce \in [Procs -> Nat]
    /\ chainNext \in [Procs -> Nat]
    /\ mined \in Nat
    /\ inflight \in SUBSET Nat
    /\ lost \in SUBSET Nat

Init ==
    /\ store = Default
    /\ pc = [p \in Procs |-> "idle"]
    /\ loc = [p \in Procs |-> Default]
    /\ nonce = [p \in Procs |-> 0]
    /\ chainNext = [p \in Procs |-> 0]
    /\ mined = BootMined
    /\ inflight = {n \in 0 .. BootMined + BootPool : BootMined <= n /\ n < BootMined + BootPool}
    /\ lost = {}

Goto(p, l) == pc' = [pc EXCEPT ![p] = l]

\* The operation returns: its locals go out of scope.
Return(p) ==
    /\ Goto(p, "idle")
    /\ loc' = [loc EXCEPT ![p] = Default]
    /\ nonce' = [nonce EXCEPT ![p] = 0]
    /\ chainNext' = [chainNext EXCEPT ![p] = 0]

-----------------------------------------------------------------------------
(* The three computations on a loaded state. *)

IsLowest(n, s) == n \in s /\ \A m \in s : n <= m

\* Mutant: the lowest free nonce is handed out but stays on the free list.
AllocateKeepsFree(s, n) ==
    IF s.free # {} THEN s ELSE [s EXCEPT !.next = s.next + 1]

\* Mutant: a fresh nonce is taken although a freed one is waiting.
AllocateSkipsFree(s, n) == [s EXCEPT !.next = s.next + 1]

\* The state after handing out n: the lowest freed nonce, else next.
Allocate(s, n) ==
    IF s.free # {} THEN [s EXCEPT !.free = s.free \ {n}]
                   ELSE [s EXCEPT !.next = s.next + 1]

\* The nonce allocate picks from a loaded state.
Picks(s, n) == IF s.free # {} THEN IsLowest(n, s.free) ELSE n = s.next

\* The high-water mark m once the freed nonces contiguous with n are absorbed.
AbsorbsTo(s, n, m) ==
    /\ \A k \in 0 .. n : m <= k /\ k < n => k \in s.free
    /\ m > 0 => m - 1 \notin s.free

\* Mutant: a released middle nonce is forgotten.
ReleaseForgets(s, n, m) ==
    IF n + 1 = s.next
    THEN [s EXCEPT !.next = m, !.free = {k \in s.free : k < m}]
    ELSE s

\* The state after n < next is returned: the top shrinks next down to m.
Release(s, n, m) ==
    IF n + 1 = s.next
    THEN [s EXCEPT !.next = m, !.free = {k \in s.free : k < m}]
    ELSE [s EXCEPT !.free = s.free \cup {n}]

\* The state reconciled forward to the chain's count c.
Reset(s, c) ==
    [s EXCEPT !.next = IF s.next < c THEN c ELSE s.next,
              !.free = {n \in s.free : n >= c}]

-----------------------------------------------------------------------------
(* The store: a load, and a compare-and-swap that bumps the version. *)

Load(p, l) ==
    /\ loc' = [loc EXCEPT ![p] = store]
    /\ Goto(p, l)
    /\ UNCHANGED <<store, nonce, chainNext, mined, inflight, lost>>

\* Mutant: the swap does not compare versions.
CasUnchecked(p) == TRUE

CasWins(p) == store.version = loc[p].version

Swap(p, s) == store' = [s EXCEPT !.version = loc[p].version + 1]

-----------------------------------------------------------------------------
(* allocate *)

AllocateCall(p) ==
    /\ pc[p] = "idle"
    /\ store.version < MaxVersion
    /\ Goto(p, "alloc")
    /\ UNCHANGED <<store, loc, nonce, chainNext, mined, inflight, lost>>

AllocateLoad(p) ==
    /\ pc[p] = "alloc"
    /\ Load(p, IF store.version = 0 THEN "hint" ELSE "allocCas")

\* eth_getTransactionCount(pending): the first nonce at or above the mined
\* count that no pooled transaction uses.
PendingNonce(n) ==
    /\ n >= mined /\ n \notin inflight
    /\ \A m \in 0 .. n : mined <= m /\ m < n => m \in inflight

\* First use: the counter starts at the chain's pending count.
AllocateHint(p) ==
    /\ pc[p] = "hint"
    /\ \E n \in mined .. mined + Cardinality(inflight) :
          /\ PendingNonce(n)
          /\ loc' = [loc EXCEPT ![p].next = n]
    /\ Goto(p, "allocCas")
    /\ UNCHANGED <<store, nonce, chainNext, mined, inflight, lost>>

AllocateCas(p) ==
    /\ pc[p] = "allocCas" /\ CasWins(p)
    /\ \E n \in loc[p].free \cup {loc[p].next} :
          /\ Picks(loc[p], n)
          /\ Swap(p, Allocate(loc[p], n))
          /\ nonce' = [nonce EXCEPT ![p] = n]
    /\ loc' = [loc EXCEPT ![p] = Default]
    /\ Goto(p, "held")
    /\ UNCHANGED <<chainNext, mined, inflight, lost>>

-----------------------------------------------------------------------------
(* What the caller does with the nonce: broadcast it, or release it. *)

Broadcast(p) ==
    /\ pc[p] = "held"
    /\ inflight' = inflight \cup {nonce[p]}
    /\ Return(p)
    /\ UNCHANGED <<store, mined, lost>>

ReleaseCall(p) ==
    /\ pc[p] = "held"
    /\ Goto(p, "release")
    /\ UNCHANGED <<store, loc, nonce, chainNext, mined, inflight, lost>>

\* Not below next: no live reservation, nothing to do.
ReleaseLoad(p) ==
    /\ pc[p] = "release"
    /\ IF nonce[p] >= store.next
       THEN Return(p) /\ UNCHANGED <<store, mined, inflight, lost>>
       ELSE Load(p, "releaseCas")

ReleaseCas(p) ==
    /\ pc[p] = "releaseCas" /\ CasWins(p)
    /\ \E m \in 0 .. nonce[p] :
          /\ AbsorbsTo(loc[p], nonce[p], m)
          /\ Swap(p, Release(loc[p], nonce[p], m))
    /\ Return(p)
    /\ UNCHANGED <<mined, inflight, lost>>

-----------------------------------------------------------------------------
(* reset, called by the confirm cycle with a transaction count it read. *)

ResetCall(p) ==
    /\ pc[p] = "idle"
    /\ store.version < MaxVersion
    /\ chainNext' = [chainNext EXCEPT ![p] = mined]
    /\ Goto(p, "reset")
    /\ UNCHANGED <<store, loc, nonce, mined, inflight, lost>>

ResetLoad(p) ==
    /\ pc[p] = "reset"
    /\ Load(p, "resetCas")

ResetCas(p) ==
    /\ pc[p] = "resetCas" /\ CasWins(p)
    /\ Swap(p, Reset(loc[p], chainNext[p]))
    /\ Return(p)
    /\ UNCHANGED <<mined, inflight, lost>>

\* A lost compare-and-swap of any of the three: load again.
CasRetry(p) ==
    /\ pc[p] \in {"allocCas", "releaseCas", "resetCas"} /\ ~CasWins(p)
    /\ Goto(p, CASE pc[p] = "allocCas"   -> "alloc"
                 [] pc[p] = "releaseCas" -> "release"
                 [] pc[p] = "resetCas"   -> "reset")
    /\ loc' = [loc EXCEPT ![p] = Default]
    /\ UNCHANGED <<store, nonce, chainNext, mined, inflight, lost>>

-----------------------------------------------------------------------------
(* Faults *)

\* The nonce a task holds when it is cut short is nobody's from then on.
Drops(p) == lost' = IF pc[p] \in Holding THEN lost \cup {nonce[p]} ELSE lost

\* A load, hint or swap fails without effect: the operation returns Err.
\* The callers of release drop that error, so the nonce is gone.
StoreError(p) ==
    /\ StoreFaults
    /\ pc[p] \notin {"idle", "held"}
    /\ Drops(p)
    /\ Return(p)
    /\ UNCHANGED <<store, mined, inflight>>

\* An allocation's swap commits, but its answer is lost.
AllocateAckLost(p) ==
    /\ LostAcks
    /\ pc[p] = "allocCas" /\ CasWins(p)
    /\ \E n \in loc[p].free \cup {loc[p].next} :
          /\ Picks(loc[p], n)
          /\ Swap(p, Allocate(loc[p], n))
          /\ lost' = lost \cup {n}
    /\ Return(p)
    /\ UNCHANGED <<mined, inflight>>

\* The task dies, or its future is dropped at an await.
Crash(p) ==
    /\ Crashes
    /\ pc[p] # "idle"
    /\ Drops(p)
    /\ Return(p)
    /\ UNCHANGED <<store, mined, inflight>>

-----------------------------------------------------------------------------
(* The chain *)

Mine ==
    /\ mined \in inflight
    /\ mined' = mined + 1
    /\ UNCHANGED <<store, pc, loc, nonce, chainNext, inflight, lost>>

ForeignTx ==
    /\ OutOfBand
    /\ mined < MaxMined
    /\ mined' = mined + 1
    /\ UNCHANGED <<store, pc, loc, nonce, chainNext, inflight, lost>>

\* The bounded model is exhausted: every task is idle and may start nothing.
BoundReached ==
    /\ store.version >= MaxVersion
    /\ \A p \in Procs : pc[p] = "idle"
    /\ UNCHANGED vars

ProcNext(p) ==
    \/ AllocateCall(p) \/ AllocateLoad(p) \/ AllocateHint(p) \/ AllocateCas(p)
    \/ Broadcast(p)
    \/ ReleaseCall(p) \/ ReleaseLoad(p) \/ ReleaseCas(p)
    \/ ResetCall(p) \/ ResetLoad(p) \/ ResetCas(p)
    \/ CasRetry(p)
    \/ StoreError(p) \/ AllocateAckLost(p) \/ Crash(p)

Next == (\E p \in Procs : ProcNext(p)) \/ Mine \/ ForeignTx \/ BoundReached

Spec == Init /\ [][Next]_vars

-----------------------------------------------------------------------------
(* Properties *)

\* Two tasks never hold the same nonce, however their load/swap loops
\* interleave (allocate's retry, adapters/nonce.rs:67-91), also across
\* resets, failed store calls, dead tasks and out-of-band transactions.
NoSharedNonce ==
    \A p, q \in Holders : p # q => nonce[p] # nonce[q]

\* A nonce that this wallet has broadcast is never handed out again: what
\* release and reset may recycle excludes it (adapters/nonce.rs:93-125).
NoReuseOfBroadcast ==
    \A p \in Holders : nonce[p] \notin inflight

\* A compare-and-swap that wins was computed from the very state it replaces
\* (only a first allocation changes the loaded counter, to the chain's hint):
\* between the load and the swap nobody else wrote (adapters/nonce.rs:67-125).
SnapshotCurrent ==
    \A p \in Procs :
        pc[p] \in {"hint", "allocCas", "releaseCas", "resetCas"} =>
            /\ loc[p].version <= store.version
            /\ loc[p].version = store.version =>
                  \/ loc[p] = store
                  \/ pc[p] = "allocCas" /\ store.version = 0 /\ loc[p].free = {}

\* Freed nonces lie strictly below the high-water mark and never touch it:
\* release absorbs the run below a returned top (adapters/nonce.rs:100-107)
\* and reset drops what the chain consumed, so "next" is never itself free.
FreeListNormal ==
    /\ \A n \in store.free : n + 1 < store.next
    /\ \A p \in Holders : nonce[p] \notin store.free

\* Every nonce from the chain's count up to the high-water mark is accounted
\* for: broadcast, held by a live task, free for the next allocation, or lost
\* to a task that died or a store call that failed while it held the nonce.  A
\* gap blocks every later transaction; no race of allocate, release and reset,
\* and no out-of-band transaction, opens one (adapters/nonce.rs:67-125).
NoGap ==
    \A n \in mined .. store.next - 1 :
        \/ n \in inflight \cup store.free \cup lost
        \/ \E p \in Holders : nonce[p] = n

\* The inductive invariant behind the theorems of NonceManagerProofs.
Inv ==
    /\ TypeOK
    /\ SnapshotCurrent
    /\ FreeListNormal
    /\ NoSharedNonce
    /\ store.version = 0 => store = Default
    /\ \A p \in Procs : pc[p] = "hint" => loc[p] = Default
    /\ \A p \in Holders : nonce[p] < store.next

\* The set of nonces in use that the persisted state stands for.
Used == {n \in 0 .. store.next : n < store.next /\ n \notin store.free}

Allocator == INSTANCE NonceAllocator WITH used <- Used, fresh <- (store.version = 0)

\* The compare-and-swap loops implement the atomic lowest-first allocator.
RefinesAllocator == Allocator!ASpec
=============================================================================
