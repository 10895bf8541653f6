------------------------- MODULE NonceManagerProofs -------------------------
(***************************************************************************)
(* Machine-checked proofs about NonceManager, for any set of tasks, any    *)
(* boot state, and with out-of-band transactions, dead tasks and store     *)
(* faults all allowed.                                                     *)
(***************************************************************************)
EXTENDS NonceManager, TLAPS

\* The three computations map a well-typed state to a well-typed state.
LEMMA StateOpsType ==
    ASSUME NEW s \in NonceState, NEW n \in Nat, NEW m \in Nat, NEW c \in Nat
    PROVE  /\ Allocate(s, n) \in NonceState
           /\ Release(s, n, m) \in NonceState
           /\ Reset(s, c) \in NonceState
<1>1. Allocate(s, n) \in NonceState
  BY DEF Allocate, NonceState
<1>2. Release(s, n, m) \in NonceState
  BY Zenon DEF Release, NonceState
<1>3. Reset(s, c) \in NonceState
  BY Zenon DEF Reset, NonceState
<1> QED  BY <1>1, <1>2, <1>3

\* Default is a well-typed state.
LEMMA DefaultType == Default \in NonceState
  BY DEF Default, NonceState

\* A swap of a well-typed state stores that state under the next version.
LEMMA SwapFields ==
    ASSUME NEW p \in Procs, TypeOK, NEW s \in NonceState, Swap(p, s)
    PROVE  /\ store' \in NonceState
           /\ store'.next = s.next
           /\ store'.free = s.free
           /\ store'.version = loc[p].version + 1
  BY DEF Swap, NonceState, TypeOK

-----------------------------------------------------------------------------
\* The initial states satisfy the invariant.
LEMMA InitInv == ASSUME Init PROVE Inv
<1>1. TypeOK
  BY ConstantsAssumption, DefaultType DEF Init, TypeOK, Holding
<1>2. Holders = {}
  BY DEF Init, Holders, Holding
<1> QED
  BY <1>1, <1>2 DEF Init, Inv, SnapshotCurrent, FreeListNormal, NoSharedNonce, Default

\* A step that leaves the store alone and puts no new task among the holders
\* keeps the invariant, provided p's own snapshot is current.
LEMMA QuietStep ==
    ASSUME Inv, TypeOK', NEW p \in Procs,
           store' = store,
           \A q \in Procs \ {p} : pc'[q] = pc[q] /\ loc'[q] = loc[q] /\ nonce'[q] = nonce[q],
           pc'[p] \in Holding => pc[p] \in Holding /\ nonce'[p] = nonce[p],
           pc'[p] \in {"hint", "allocCas", "releaseCas", "resetCas"} =>
               \/ loc'[p] = store
               \/ pc'[p] = "allocCas" /\ loc'[p].free = {} /\ loc'[p].version = 0,
           pc'[p] = "hint" => loc'[p] = Default
    PROVE  Inv'
<1>1. Holders' \subseteq Holders /\ \A q \in Holders' : nonce'[q] = nonce[q]
  BY DEF Holders
<1>2. SnapshotCurrent'
  BY DEF Inv, SnapshotCurrent, TypeOK, NonceState
<1>3. FreeListNormal'
  BY <1>1 DEF Inv, FreeListNormal
<1>4. NoSharedNonce'
  BY <1>1 DEF Inv, NoSharedNonce
<1> QED
  BY <1>1, <1>2, <1>3, <1>4 DEF Inv

\* A winning compare-and-swap moves the version past every other snapshot.
LEMMA SwapStep ==
    ASSUME Inv, TypeOK', NEW p \in Procs,
           store'.version = store.version + 1,
           \A q \in Procs \ {p} : pc'[q] = pc[q] /\ loc'[q] = loc[q],
           pc'[p] \in {"idle", "held"},
           FreeListNormal', NoSharedNonce',
           \A q \in Holders' : nonce'[q] < store'.next
    PROVE  Inv'
<1>1. store.version \in Nat
  BY DEF Inv, TypeOK, NonceState
<1>2. SnapshotCurrent'
  <2> SUFFICES ASSUME NEW q \in Procs,
                      pc'[q] \in {"hint", "allocCas", "releaseCas", "resetCas"}
               PROVE  loc'[q].version <= store'.version /\ loc'[q].version # store'.version
    BY DEF SnapshotCurrent
  <2>1. q # p /\ loc'[q].version \in Nat
    BY DEF TypeOK, NonceState
  <2> QED
    BY <1>1, <2>1 DEF Inv, SnapshotCurrent
<1>3. store'.version # 0
  BY <1>1
<1> QED
  BY <1>2, <1>3 DEF Inv

\* Every action keeps the state well typed.
LEMMA TypeStep == ASSUME TypeOK, Next PROVE TypeOK'
<1> USE DefaultType
<1>1. ASSUME NEW p \in Procs, ProcNext(p) PROVE TypeOK'
  <2>1. CASE AllocateCall(p)
    BY <2>1 DEF AllocateCall, Goto, TypeOK
  <2>2. CASE AllocateLoad(p)
    BY <2>2 DEF AllocateLoad, Load, Goto, TypeOK
  <2>3. CASE AllocateHint(p)
    <3>1. PICK n \in mined .. mined + Cardinality(inflight) : loc' = [loc EXCEPT ![p].next = n]
      BY Zenon, <2>3 DEF AllocateHint
    <3>2. n \in Nat
      BY <3>1 DEF TypeOK
    <3>3. loc' \in [Procs -> NonceState]
      BY Zenon, <3>1, <3>2 DEF TypeOK, NonceState
    <3> QED
      BY <2>3, <3>3 DEF AllocateHint, Goto, TypeOK
  <2>4. CASE AllocateCas(p)
    <3>1. PICK n \in loc[p].free \cup {loc[p].next} :
               Swap(p, Allocate(loc[p], n)) /\ nonce' = [nonce EXCEPT ![p] = n]
      BY Zenon, <2>4 DEF AllocateCas
    <3>2. n \in Nat /\ loc[p] \in NonceState
      BY DEF TypeOK, NonceState
    <3>3. store' \in NonceState
      BY <3>1, <3>2, StateOpsType, SwapFields
    <3> QED
      BY <2>4, <3>1, <3>2, <3>3 DEF AllocateCas, Goto, TypeOK, Holding
  <2>5. CASE Broadcast(p)
    BY Zenon, <2>5 DEF Broadcast, Return, Goto, TypeOK
  <2>6. CASE ReleaseCall(p)
    BY <2>6 DEF ReleaseCall, Goto, TypeOK, Holding
  <2>7. CASE ReleaseLoad(p)
    <3>1. CASE nonce[p] >= store.next
      <4>1. Return(p) /\ UNCHANGED <<store, mined, inflight, lost>>
        BY <2>7, <3>1 DEF ReleaseLoad
      <4> QED
        BY <4>1 DEF Return, Goto, TypeOK
    <3>2. CASE ~(nonce[p] >= store.next)
      BY Zenon, <2>7, <3>2 DEF ReleaseLoad, Load, Goto, TypeOK, Holding
    <3> QED
      BY <3>1, <3>2
  <2>8. CASE ReleaseCas(p)
    <3>1. PICK m \in 0 .. nonce[p] : Swap(p, Release(loc[p], nonce[p], m))
      BY <2>8 DEF ReleaseCas
    <3>2. m \in Nat /\ loc[p] \in NonceState /\ nonce[p] \in Nat
      BY DEF TypeOK
    <3>3. store' \in NonceState
      BY <3>1, <3>2, StateOpsType, SwapFields
    <3> QED
      BY <2>8, <3>3 DEF ReleaseCas, Return, Goto, TypeOK
  <2>9. CASE ResetCall(p)
    BY <2>9 DEF ResetCall, Goto, TypeOK
  <2>10. CASE ResetLoad(p)
    BY <2>10 DEF ResetLoad, Load, Goto, TypeOK
  <2>11. CASE ResetCas(p)
    <3>1. loc[p] \in NonceState /\ chainNext[p] \in Nat
      BY DEF TypeOK
    <3>2. store' \in NonceState
      BY <2>11, <3>1, StateOpsType, SwapFields DEF ResetCas
    <3> QED
      BY <2>11, <3>2 DEF ResetCas, Return, Goto, TypeOK
  <2>12. CASE CasRetry(p)
    BY <2>12 DEF CasRetry, Goto, TypeOK, Holding
  <2>13. CASE StoreError(p)
    BY Zenon, <2>13 DEF StoreError, Drops, Return, Goto, TypeOK
  <2>14. CASE AllocateAckLost(p)
    <3>1. PICK n \in loc[p].free \cup {loc[p].next} :
               Swap(p, Allocate(loc[p], n)) /\ lost' = lost \cup {n}
      BY <2>14 DEF AllocateAckLost
    <3>2. n \in Nat /\ loc[p] \in NonceState
      BY DEF TypeOK, NonceState
    <3>3. store' \in NonceState
      BY <3>1, <3>2, StateOpsType, SwapFields
    <3> QED
      BY Zenon, <2>14, <3>1, <3>2, <3>3 DEF AllocateAckLost, Return, Goto, TypeOK
  <2>15. CASE Crash(p)
    BY Zenon, <2>15 DEF Crash, Drops, Return, Goto, TypeOK
  <2> QED
    BY <1>1, <2>1, <2>2, <2>3, <2>4, <2>5, <2>6, <2>7, <2>8, <2>9, <2>10, <2>11,
       <2>12, <2>13, <2>14, <2>15 DEF ProcNext
<1>2. CASE Mine
  BY <1>2 DEF Mine, TypeOK
<1>3. CASE ForeignTx
  BY <1>3 DEF ForeignTx, TypeOK
<1>4. CASE BoundReached
  BY <1>4 DEF BoundReached, vars, TypeOK
<1> QED
  BY <1>1, <1>2, <1>3, <1>4 DEF Next

-----------------------------------------------------------------------------
\* Handing out n adds exactly n to the reserved nonces and keeps the free
\* list strictly below the high-water mark.
LEMMA AllocateEffect ==
    ASSUME NEW s \in NonceState, NEW n \in Nat, Picks(s, n),
           \A k \in s.free : k + 1 < s.next
    PROVE  /\ \A k \in Allocate(s, n).free : k + 1 < Allocate(s, n).next
           /\ n < Allocate(s, n).next /\ n \notin Allocate(s, n).free
           /\ \A k \in Nat : k < s.next /\ k \notin s.free =>
                 k # n /\ k < Allocate(s, n).next /\ k \notin Allocate(s, n).free
<1>1. CASE s.free # {}
  BY <1>1 DEF Allocate, Picks, IsLowest, NonceState
<1>2. CASE s.free = {}
  BY <1>2 DEF Allocate, Picks, NonceState
<1> QED  BY <1>1, <1>2

\* Returning n keeps every other reserved nonce reserved and normalises the
\* free list.
LEMMA ReleaseEffect ==
    ASSUME NEW s \in NonceState, NEW n \in Nat, NEW m \in 0 .. n, AbsorbsTo(s, n, m),
           n < s.next, \A k \in s.free : k + 1 < s.next
    PROVE  /\ \A k \in Release(s, n, m).free : k + 1 < Release(s, n, m).next
           /\ \A k \in Nat : k < s.next /\ k \notin s.free /\ k # n =>
                 k < Release(s, n, m).next /\ k \notin Release(s, n, m).free
<1>1. CASE n + 1 = s.next
  <2>1. Release(s, n, m).next = m /\ Release(s, n, m).free = {k \in s.free : k < m}
    BY <1>1 DEF Release, NonceState
  <2> QED
    BY <1>1, <2>1 DEF AbsorbsTo, NonceState
<1>2. CASE n + 1 # s.next
  <2>1. Release(s, n, m).next = s.next /\ Release(s, n, m).free = s.free \cup {n}
    BY <1>2 DEF Release, NonceState
  <2> QED
    BY <1>2, <2>1 DEF NonceState
<1> QED  BY <1>1, <1>2

\* Reconciling forward keeps every reserved nonce reserved.
LEMMA ResetEffect ==
    ASSUME NEW s \in NonceState, NEW c \in Nat, \A k \in s.free : k + 1 < s.next
    PROVE  /\ \A k \in Reset(s, c).free : k + 1 < Reset(s, c).next
           /\ \A k \in Nat : k < s.next /\ k \notin s.free =>
                 k < Reset(s, c).next /\ k \notin Reset(s, c).free
<1>1. Reset(s, c).next = (IF s.next < c THEN c ELSE s.next)
      /\ Reset(s, c).free = {k \in s.free : k >= c}
  BY DEF Reset, NonceState
<1> QED
  BY <1>1 DEF NonceState

-----------------------------------------------------------------------------
\* What a task knows when its compare-and-swap wins: the state it computed
\* from is normal, and every nonce held by anyone is reserved in it.
LEMMA WinnerKnows ==
    ASSUME Inv, NEW p \in Procs, CasWins(p),
           pc[p] \in {"allocCas", "releaseCas", "resetCas"}
    PROVE  /\ loc[p] \in NonceState /\ loc[p].version = store.version
           /\ \A k \in loc[p].free : k + 1 < loc[p].next
           /\ \A q \in Holders : /\ nonce[q] \in Nat
                                 /\ nonce[q] < loc[p].next
                                 /\ nonce[q] \notin loc[p].free
           /\ pc[p] # "allocCas" => loc[p] = store
<1>1. /\ loc[p] \in NonceState /\ store \in NonceState
      /\ \A q \in Procs : nonce[q] \in Nat
  BY DEF Inv, TypeOK
<1>2. loc[p].version = store.version
  BY DEF CasWins
<1>3. CASE loc[p] = store
  BY <1>1, <1>2, <1>3 DEF Inv, FreeListNormal, Holders
<1>4. CASE pc[p] = "allocCas" /\ store.version = 0 /\ loc[p].free = {}
  <2>1. store.next = 0
    BY <1>4 DEF Inv, Default
  <2>2. Holders = {}
    BY <1>1, <2>1 DEF Inv, Holders
  <2> QED
    BY <1>1, <1>2, <1>4, <2>2
<1> QED
  BY <1>2, <1>3, <1>4 DEF Inv, SnapshotCurrent

\* Every action keeps the invariant.
LEMMA InvStep == ASSUME Inv, Next PROVE Inv'
<1> USE DefaultType
<1>0. TypeOK /\ TypeOK'
  BY TypeStep DEF Inv
<1>1. ASSUME NEW p \in Procs, ProcNext(p) PROVE Inv'
  <2> USE <1>0
  <2>1. CASE AllocateCall(p)
    BY <2>1, QuietStep DEF AllocateCall, Goto, TypeOK, Holding
  <2>2. CASE AllocateLoad(p)
    <3>1. store.version = 0 => store = Default
      BY DEF Inv
    <3> QED
      BY <2>2, <3>1, QuietStep DEF AllocateLoad, Load, Goto, TypeOK, Holding
  <2>3. CASE AllocateHint(p)
    <3>1. PICK n \in mined .. mined + Cardinality(inflight) : loc' = [loc EXCEPT ![p].next = n]
      BY Zenon, <2>3 DEF AllocateHint
    <3>2. loc[p] = Default
      BY <2>3 DEF AllocateHint, Inv
    <3>3. loc'[p].free = {} /\ loc'[p].version = 0
      BY <3>1, <3>2 DEF TypeOK, NonceState, Default
    <3>4. \A q \in Procs \ {p} : loc'[q] = loc[q]
      BY <3>1 DEF TypeOK
    <3> QED
      BY <2>3, <3>3, <3>4, QuietStep DEF AllocateHint, Goto, TypeOK, Holding
  <2>4. CASE AllocateCas(p)
    <3>1. PICK n \in loc[p].free \cup {loc[p].next} :
               /\ Picks(loc[p], n)
               /\ Swap(p, Allocate(loc[p], n))
               /\ nonce' = [nonce EXCEPT ![p] = n]
      BY Zenon, <2>4 DEF AllocateCas
    <3>2. n \in Nat /\ loc[p] \in NonceState
      BY DEF TypeOK, NonceState
    <3> USE <2>4, WinnerKnows DEF AllocateCas
    <3>3. /\ store'.next = Allocate(loc[p], n).next
          /\ store'.free = Allocate(loc[p], n).free
          /\ store'.version = store.version + 1
      BY <3>1, <3>2, StateOpsType, SwapFields
    <3>4. /\ \A k \in store'.free : k + 1 < store'.next
          /\ n < store'.next /\ n \notin store'.free
          /\ \A q \in Holders : /\ nonce[q] # n
                                /\ nonce[q] < store'.next
                                /\ nonce[q] \notin store'.free
      BY <3>1, <3>2, <3>3, AllocateEffect
    <3>5. \A q \in Holders' : \/ q = p /\ nonce'[q] = n
                              \/ q # p /\ q \in Holders /\ nonce'[q] = nonce[q]
      BY <3>1 DEF Holders, Goto, TypeOK
    <3>6. FreeListNormal' /\ NoSharedNonce' /\ \A q \in Holders' : nonce'[q] < store'.next
      BY <3>4, <3>5 DEF Inv, FreeListNormal, NoSharedNonce
    <3> QED
      BY <3>3, <3>6, SwapStep DEF Goto, TypeOK

  <2>5. CASE Broadcast(p)
    BY <2>5, QuietStep DEF Broadcast, Return, Goto, TypeOK, Holding
  <2>6. CASE ReleaseCall(p)
    BY <2>6, QuietStep DEF ReleaseCall, Goto, TypeOK, Holding
  <2>7. CASE ReleaseLoad(p)
    <3>1. CASE nonce[p] >= store.next
      <4>1. Return(p) /\ UNCHANGED <<store, mined, inflight, lost>>
        BY <2>7, <3>1 DEF ReleaseLoad
      <4> QED
        BY <4>1, QuietStep DEF Return, Goto, TypeOK, Holding
    <3>2. CASE ~(nonce[p] >= store.next)
      BY <2>7, <3>2, QuietStep DEF ReleaseLoad, Load, Goto, TypeOK, Holding
    <3> QED
      BY <3>1, <3>2
  <2>8. CASE ReleaseCas(p)
    <3> USE <2>8, WinnerKnows DEF ReleaseCas
    <3>1. PICK m \in 0 .. nonce[p] :
               AbsorbsTo(loc[p], nonce[p], m) /\ Swap(p, Release(loc[p], nonce[p], m))
      OBVIOUS
    <3>2. m \in Nat /\ nonce[p] \in Nat /\ loc[p] \in NonceState /\ p \in Holders
      BY DEF TypeOK, Holders, Holding
    <3>3. /\ store'.next = Release(loc[p], nonce[p], m).next
          /\ store'.free = Release(loc[p], nonce[p], m).free
          /\ store'.version = store.version + 1
      BY <3>1, <3>2, StateOpsType, SwapFields
    <3>4. /\ \A k \in store'.free : k + 1 < store'.next
          /\ \A q \in Holders : nonce[q] # nonce[p] =>
                nonce[q] < store'.next /\ nonce[q] \notin store'.free
      BY <3>1, <3>2, <3>3, ReleaseEffect
    <3>5. \A q \in Holders' : q # p /\ q \in Holders /\ nonce'[q] = nonce[q]
      BY DEF Holders, Holding, Return, Goto, TypeOK
    <3>6. FreeListNormal' /\ NoSharedNonce' /\ \A q \in Holders' : nonce'[q] < store'.next
      BY <3>2, <3>4, <3>5 DEF Inv, FreeListNormal, NoSharedNonce
    <3> QED
      BY <3>3, <3>6, SwapStep DEF Return, Goto, TypeOK
  <2>9. CASE ResetCall(p)
    BY <2>9, QuietStep DEF ResetCall, Goto, TypeOK, Holding
  <2>10. CASE ResetLoad(p)
    BY <2>10, QuietStep DEF ResetLoad, Load, Goto, TypeOK, Holding
  <2>11. CASE ResetCas(p)
    <3> USE <2>11, WinnerKnows DEF ResetCas
    <3>1. chainNext[p] \in Nat /\ loc[p] \in NonceState
      BY DEF TypeOK
    <3>2. /\ store'.next = Reset(loc[p], chainNext[p]).next
          /\ store'.free = Reset(loc[p], chainNext[p]).free
          /\ store'.version = store.version + 1
      BY <3>1, StateOpsType, SwapFields
    <3>3. /\ \A k \in store'.free : k + 1 < store'.next
          /\ \A q \in Holders : nonce[q] < store'.next /\ nonce[q] \notin store'.free
      BY <3>1, <3>2, ResetEffect
    <3>4. \A q \in Holders' : q \in Holders /\ nonce'[q] = nonce[q]
      BY DEF Holders, Holding, Return, Goto, TypeOK
    <3>5. FreeListNormal' /\ NoSharedNonce' /\ \A q \in Holders' : nonce'[q] < store'.next
      BY <3>3, <3>4 DEF Inv, FreeListNormal, NoSharedNonce
    <3> QED
      BY <3>2, <3>5, SwapStep DEF Return, Goto, TypeOK
  <2>12. CASE CasRetry(p)
    BY <2>12, QuietStep DEF CasRetry, Goto, TypeOK, Holding
  <2>13. CASE StoreError(p)
    BY <2>13, QuietStep DEF StoreError, Return, Goto, TypeOK, Holding
  <2>14. CASE AllocateAckLost(p)
    <3> USE <2>14, WinnerKnows DEF AllocateAckLost
    <3>1. PICK n \in loc[p].free \cup {loc[p].next} :
               Picks(loc[p], n) /\ Swap(p, Allocate(loc[p], n))
      OBVIOUS
    <3>2. n \in Nat /\ loc[p] \in NonceState
      BY DEF TypeOK, NonceState
    <3>3. /\ store'.next = Allocate(loc[p], n).next
          /\ store'.free = Allocate(loc[p], n).free
          /\ store'.version = store.version + 1
      BY <3>1, <3>2, StateOpsType, SwapFields
    <3>4. /\ \A k \in store'.free : k + 1 < store'.next
          /\ \A q \in Holders : nonce[q] < store'.next /\ nonce[q] \notin store'.free
      BY <3>1, <3>2, <3>3, AllocateEffect
    <3>5. \A q \in Holders' : q \in Holders /\ nonce'[q] = nonce[q]
      BY DEF Holders, Holding, Return, Goto, TypeOK
    <3>6. FreeListNormal' /\ NoSharedNonce' /\ \A q \in Holders' : nonce'[q] < store'.next
      BY <3>4, <3>5 DEF Inv, FreeListNormal, NoSharedNonce
    <3> QED
      BY <3>3, <3>6, SwapStep DEF Return, Goto, TypeOK
  <2>15. CASE Crash(p)
    BY <2>15, QuietStep DEF Crash, Return, Goto, TypeOK, Holding
  <2> QED
    BY <1>1, <2>1, <2>2, <2>3, <2>4, <2>5, <2>6, <2>7, <2>8, <2>9, <2>10, <2>11,
       <2>12, <2>13, <2>14, <2>15 DEF ProcNext
<1>2. CASE Mine \/ ForeignTx \/ BoundReached
  <2>1. UNCHANGED <<store, pc, loc, nonce>>
    BY <1>2 DEF Mine, ForeignTx, BoundReached, vars
  <2> QED
    BY <1>0, <2>1 DEF Inv, SnapshotCurrent, FreeListNormal, NoSharedNonce, Holders
<1> QED
  BY <1>1, <1>2 DEF Next

\* A stuttering step keeps the invariant.
LEMMA InvStutter == ASSUME Inv, UNCHANGED vars PROVE Inv'
  BY DEF Inv, vars, TypeOK, SnapshotCurrent, FreeListNormal, NoSharedNonce, Holders

\* The invariant holds in every reachable state.
THEOREM InvHolds == Spec => []Inv
<1>1. Inv /\ [Next]_vars => Inv'
  BY InvStep, InvStutter
<1> QED
  BY <1>1, InitInv, PTL DEF Spec

\* No interleaving of allocate, release and reset, no failed store call, dead
\* task or out-of-band transaction makes two tasks hold one nonce.
THEOREM UniqueNonces == Spec => []NoSharedNonce
<1>1. Inv => NoSharedNonce
  BY DEF Inv
<1> QED
  BY <1>1, InvHolds, PTL

\* The free list stays strictly below the high-water mark, never touches it,
\* and never contains a nonce somebody holds.
THEOREM FreeListStaysNormal == Spec => []FreeListNormal
<1>1. Inv => FreeListNormal
  BY DEF Inv
<1> QED
  BY <1>1, InvHolds, PTL

\* A compare-and-swap that wins was computed from the state it replaces.
THEOREM SnapshotsCurrent == Spec => []SnapshotCurrent
<1>1. Inv => SnapshotCurrent
  BY DEF Inv
<1> QED
  BY <1>1, InvHolds, PTL

-----------------------------------------------------------------------------
\* Broadcast nonces stay reserved, in the store and against every holder.
Reserved ==
    /\ \A n \in inflight : n < store.next /\ n \notin store.free
    /\ NoReuseOfBroadcast

\* Every action keeps broadcast nonces reserved.
LEMMA ReservedStep == ASSUME Inv, Reserved, Next PROVE Reserved'
<1> USE DefaultType
<1>0. TypeOK /\ TypeOK' /\ Inv'
  BY TypeStep, InvStep DEF Inv
<1>1. ASSUME NEW p \in Procs, CasWins(p), pc[p] \in {"allocCas", "releaseCas", "resetCas"}
      PROVE  \A n \in inflight : n \in Nat /\ n < loc[p].next /\ n \notin loc[p].free
  <2>1. CASE loc[p] = store
    BY Zenon, <1>0, <2>1 DEF Reserved, TypeOK
  <2>2. CASE store.version = 0
    <3>1. inflight = {}
      BY <1>0, <2>2 DEF Inv, Default, Reserved, TypeOK
    <3> QED  BY <3>1
  <2> QED
    BY <1>1, <2>1, <2>2 DEF Inv, SnapshotCurrent, CasWins
<1>2. ASSUME store' = store, inflight' = inflight,
             \A q \in Holders' : q \in Holders /\ nonce'[q] = nonce[q]
      PROVE  Reserved'
  BY <1>2 DEF Reserved, NoReuseOfBroadcast
<1>3. ASSUME NEW p \in Procs, ProcNext(p) PROVE Reserved'
  <2> USE <1>0, <1>3
  <2>1. CASE \/ AllocateCall(p) \/ AllocateLoad(p) \/ AllocateHint(p)
             \/ ReleaseCall(p) \/ ResetCall(p) \/ ResetLoad(p) \/ CasRetry(p)
             \/ StoreError(p) \/ Crash(p)
    <3>1. store' = store /\ inflight' = inflight
      BY <2>1 DEF AllocateCall, AllocateLoad, AllocateHint, ReleaseCall, ResetCall, ResetLoad,
                  CasRetry, StoreError, Crash, Load
    <3>2. \A q \in Holders' : q \in Holders /\ nonce'[q] = nonce[q]
      BY <2>1 DEF AllocateCall, AllocateLoad, AllocateHint, ReleaseCall, ResetCall, ResetLoad,
                  CasRetry, StoreError, Crash, Load, Goto, Return, Holders, Holding, TypeOK
    <3> QED  BY <1>2, <3>1, <3>2
  <2>2. CASE AllocateCas(p) \/ AllocateAckLost(p)
    <3>1. CasWins(p) /\ pc[p] = "allocCas" /\ inflight' = inflight
      BY <2>2 DEF AllocateCas, AllocateAckLost
    <3>2. PICK n \in loc[p].free \cup {loc[p].next} :
               /\ Picks(loc[p], n)
               /\ Swap(p, Allocate(loc[p], n))
               /\ \A q \in Holders' : \/ q = p /\ nonce'[q] = n
                                      \/ q \in Holders /\ nonce'[q] = nonce[q]
      BY <2>2 DEF AllocateCas, AllocateAckLost, Holders, Holding, Goto, Return, TypeOK
    <3>3. n \in Nat /\ loc[p] \in NonceState
      BY DEF TypeOK, NonceState
    <3>4. /\ store'.next = Allocate(loc[p], n).next
          /\ store'.free = Allocate(loc[p], n).free
      BY <3>2, <3>3, StateOpsType, SwapFields
    <3>5. \A k \in inflight : k # n /\ k < store'.next /\ k \notin store'.free
      BY <1>1, <3>1, <3>2, <3>3, <3>4, AllocateEffect, WinnerKnows
    <3> QED
      BY <3>1, <3>2, <3>5 DEF Reserved, NoReuseOfBroadcast
  <2>3. CASE Broadcast(p)
    <3>1. /\ p \in Holders /\ store' = store /\ inflight' = inflight \cup {nonce[p]}
          /\ \A q \in Holders' : q # p /\ q \in Holders /\ nonce'[q] = nonce[q]
      BY <2>3 DEF Broadcast, Return, Goto, Holders, Holding, TypeOK
    <3>2. nonce[p] < store.next /\ nonce[p] \notin store.free
      BY <3>1 DEF Inv, FreeListNormal
    <3>3. \A q \in Holders' : nonce'[q] # nonce[p]
      BY <3>1 DEF Inv, NoSharedNonce
    <3> QED
      BY <3>1, <3>2, <3>3 DEF Reserved, NoReuseOfBroadcast
  <2>4. CASE ReleaseLoad(p)
    <3>1. CASE nonce[p] >= store.next
      <4>1. Return(p) /\ UNCHANGED <<store, mined, inflight>>
        BY <2>4, <3>1 DEF ReleaseLoad
      <4> QED
        BY <1>2, <4>1 DEF Return, Goto, Holders, Holding, TypeOK
    <3>2. CASE ~(nonce[p] >= store.next)
      BY <1>2, <2>4, <3>2 DEF ReleaseLoad, Load, Goto, Holders, Holding, TypeOK
    <3> QED  BY <3>1, <3>2
  <2>5. CASE ReleaseCas(p)
    <3>1. /\ CasWins(p) /\ pc[p] = "releaseCas" /\ inflight' = inflight /\ p \in Holders
          /\ \A q \in Holders' : q \in Holders /\ nonce'[q] = nonce[q]
      BY <2>5 DEF ReleaseCas, Return, Goto, Holders, Holding, TypeOK
    <3>2. PICK m \in 0 .. nonce[p] :
               AbsorbsTo(loc[p], nonce[p], m) /\ Swap(p, Release(loc[p], nonce[p], m))
      BY <2>5 DEF ReleaseCas
    <3>3. m \in Nat /\ nonce[p] \in Nat /\ loc[p] \in NonceState
      BY DEF TypeOK
    <3>4. /\ store'.next = Release(loc[p], nonce[p], m).next
          /\ store'.free = Release(loc[p], nonce[p], m).free
      BY <3>2, <3>3, StateOpsType, SwapFields
    <3>5. \A k \in inflight : k # nonce[p]
      BY <3>1 DEF Reserved, NoReuseOfBroadcast
    <3>6. \A k \in inflight : k < store'.next /\ k \notin store'.free
      BY <1>1, <3>1, <3>2, <3>3, <3>4, <3>5, ReleaseEffect, WinnerKnows
    <3> QED
      BY <3>1, <3>6 DEF Reserved, NoReuseOfBroadcast
  <2>6. CASE ResetCas(p)
    <3>1. /\ CasWins(p) /\ pc[p] = "resetCas" /\ inflight' = inflight
          /\ Swap(p, Reset(loc[p], chainNext[p]))
          /\ \A q \in Holders' : q \in Holders /\ nonce'[q] = nonce[q]
      BY <2>6 DEF ResetCas, Return, Goto, Holders, Holding, TypeOK
    <3>2. chainNext[p] \in Nat /\ loc[p] \in NonceState
      BY DEF TypeOK
    <3>3. /\ store'.next = Reset(loc[p], chainNext[p]).next
          /\ store'.free = Reset(loc[p], chainNext[p]).free
      BY <3>1, <3>2, StateOpsType, SwapFields
    <3>4. \A k \in inflight : k < store'.next /\ k \notin store'.free
      BY <1>1, <3>1, <3>2, <3>3, ResetEffect, WinnerKnows
    <3> QED
      BY <3>1, <3>4 DEF Reserved, NoReuseOfBroadcast
  <2> QED
    BY <2>1, <2>2, <2>3, <2>4, <2>5, <2>6 DEF ProcNext
<1>4. CASE Mine \/ ForeignTx \/ BoundReached
  BY <1>4 DEF Mine, ForeignTx, BoundReached, vars, Reserved, NoReuseOfBroadcast, Holders
<1> QED
  BY <1>3, <1>4 DEF Next

\* A wallet that starts with no transaction of its own pooled never hands out
\* a nonce it has broadcast: neither release nor reset recycles a live one.
THEOREM BroadcastNeverReused ==
    ASSUME BootPool = 0
    PROVE  Spec => []NoReuseOfBroadcast
<1>1. Init => Reserved
  BY ConstantsAssumption DEF Init, Reserved, NoReuseOfBroadcast
<1>2. Inv /\ Reserved /\ [Next]_vars => Reserved'
  BY ReservedStep DEF vars, Reserved, NoReuseOfBroadcast, Holders
<1>3. Reserved => NoReuseOfBroadcast
  BY DEF Reserved
<1> QED
  BY <1>1, <1>2, <1>3, InvHolds, PTL DEF Spec

-----------------------------------------------------------------------------
\* What NoGap rests on: the argument of a reset is a count the chain has
\* reached, and below the hint of a first allocation every nonce is broadcast.
GapInv ==
    /\ NoGap
    /\ \A p \in Procs : chainNext[p] <= mined
    /\ \A p \in Procs : pc[p] = "allocCas" /\ loc[p].version = 0 =>
          \A k \in Nat : mined <= k /\ k < loc[p].next => k \in inflight

\* A nonce is accounted for.
Accounted(n) == n \in inflight \cup store.free \cup lost \/ \E p \in Holders : nonce[p] = n

\* NoGap with a quantifier over all numbers.
LEMMA NoGapNat ==
    ASSUME TypeOK
    PROVE  NoGap <=> \A n \in Nat : mined <= n /\ n < store.next => Accounted(n)
  BY DEF NoGap, Accounted, TypeOK, NonceState

\* A step that leaves the counter alone opens no gap if every nonce held
\* before is still held, broadcast or recorded as lost.
LEMMA NoGapQuiet ==
    ASSUME TypeOK, TypeOK', NoGap, store' = store, mined' >= mined,
           inflight \subseteq inflight', lost \subseteq lost',
           \A q \in Holders : \/ q \in Holders' /\ nonce'[q] = nonce[q]
                              \/ nonce[q] \in inflight' \cup lost'
    PROVE  NoGap'
<1>1. \A n \in Nat : mined <= n /\ n < store.next => Accounted(n)
  BY NoGapNat
<1>2. mined \in Nat /\ mined' \in Nat
  BY DEF TypeOK
<1>3. SUFFICES ASSUME NEW n \in mined' .. store'.next - 1
               PROVE  \/ n \in inflight' \cup store'.free \cup lost'
                      \/ \E p \in Holders' : nonce'[p] = n
  BY DEF NoGap
<1>4. n \in Nat /\ mined <= n /\ n < store.next
  BY <1>2, <1>3 DEF TypeOK, NonceState
<1>5. Accounted(n)
  BY <1>1, <1>4
<1> QED
  BY <1>5 DEF Accounted

\* Every action keeps every nonce accounted for.
LEMMA NoGapStep == ASSUME Inv, GapInv, Next PROVE NoGap'
<1> USE DefaultType
<1>0. TypeOK /\ TypeOK' /\ NoGap
  BY TypeStep DEF Inv, GapInv
<1>1. \A n \in Nat : mined <= n /\ n < store.next => Accounted(n)
  BY <1>0, NoGapNat
<1>2. ASSUME NEW p \in Procs, ProcNext(p) PROVE NoGap'
  <2> USE <1>0
  <2>1. CASE \/ AllocateCall(p) \/ AllocateLoad(p) \/ AllocateHint(p) \/ ReleaseCall(p)
             \/ ResetCall(p) \/ ResetLoad(p) \/ CasRetry(p)
    <3>1. store' = store /\ mined' = mined /\ inflight' = inflight /\ lost' = lost
      BY <2>1 DEF AllocateCall, AllocateLoad, AllocateHint, ReleaseCall, ResetCall, ResetLoad,
                  CasRetry, Load
    <3>2. \A q \in Holders : q \in Holders' /\ nonce'[q] = nonce[q]
      BY <2>1 DEF AllocateCall, AllocateLoad, AllocateHint, ReleaseCall, ResetCall, ResetLoad,
                  CasRetry, Load, Goto, Holders, Holding, TypeOK
    <3> QED  BY <3>1, <3>2, NoGapQuiet DEF TypeOK
  <2>2. CASE Broadcast(p) \/ StoreError(p) \/ Crash(p)
    <3>1. /\ store' = store /\ mined' = mined
          /\ inflight \subseteq inflight' /\ lost \subseteq lost'
          /\ p \in Holders => nonce[p] \in inflight' \cup lost'
      BY <2>2 DEF Broadcast, StoreError, Crash, Drops, Holders, Holding
    <3>2. \A q \in Holders : q # p => q \in Holders' /\ nonce'[q] = nonce[q]
      BY <2>2 DEF Broadcast, StoreError, Crash, Return, Goto, Holders, Holding, TypeOK
    <3> QED  BY <3>1, <3>2, NoGapQuiet DEF TypeOK
  <2>3. CASE ReleaseLoad(p)
    <3>1. nonce[p] \in Nat /\ store.next \in Nat /\ nonce[p] < store.next
      BY <2>3 DEF ReleaseLoad, Inv, Holders, Holding, TypeOK, NonceState
    <3>2. Load(p, "releaseCas")
      BY <2>3, <3>1 DEF ReleaseLoad
    <3>3. \A q \in Holders : q \in Holders' /\ nonce'[q] = nonce[q]
      BY <3>2 DEF Load, Goto, Holders, Holding, TypeOK
    <3> QED  BY <3>2, <3>3, NoGapQuiet DEF Load, TypeOK
  <2>4. CASE AllocateCas(p) \/ AllocateAckLost(p)
    <3>1. CasWins(p) /\ pc[p] = "allocCas" /\ inflight' = inflight /\ mined' = mined
      BY <2>4 DEF AllocateCas, AllocateAckLost
    <3>2. PICK n \in loc[p].free \cup {loc[p].next} :
               /\ Picks(loc[p], n)
               /\ Swap(p, Allocate(loc[p], n))
               /\ lost \subseteq lost'
               /\ n \in lost' \/ \E q \in Holders' : nonce'[q] = n
               /\ \A q \in Holders : q \in Holders' /\ nonce'[q] = nonce[q]
      BY <2>4 DEF AllocateCas, AllocateAckLost, Holders, Holding, Goto, Return, TypeOK
    <3>3. n \in Nat /\ loc[p] \in NonceState /\ store \in NonceState
      BY DEF TypeOK, NonceState
    <3>4. store'.next = Allocate(loc[p], n).next /\ store'.free = Allocate(loc[p], n).free
      BY <3>2, <3>3, StateOpsType, SwapFields
    <3>5. /\ store'.free = loc[p].free \ {n}
          /\ \A k \in Nat : k < store'.next => k < loc[p].next \/ k = n
      BY <3>2, <3>3, <3>4 DEF Allocate, Picks, NonceState
    <3>6. SUFFICES ASSUME NEW k \in Nat, mined <= k, k < loc[p].next, k # n
                   PROVE  Accounted(k)'
      <4>1. SUFFICES ASSUME NEW k \in mined' .. store'.next - 1 PROVE Accounted(k)'
        BY DEF NoGap, Accounted
      <4>2. k \in Nat /\ mined <= k /\ k < store'.next
        BY <3>1, <4>1 DEF TypeOK, NonceState
      <4>3. CASE k = n
        BY <3>2, <4>3 DEF Accounted
      <4> QED
        BY <3>5, <4>2, <4>3
    <3>7. CASE loc[p] = store
      <4>1. Accounted(k)
        BY <1>1, <3>6, <3>7
      <4> QED
        BY <3>1, <3>2, <3>5, <3>6, <3>7, <4>1 DEF Accounted
    <3>8. CASE store.version = 0
      BY Zenon, <3>1, <3>6, <3>8 DEF GapInv, CasWins, Accounted
    <3> QED
      BY <3>1, <3>7, <3>8 DEF Inv, SnapshotCurrent, CasWins
  <2>5. CASE ReleaseCas(p)
    <3>1. /\ CasWins(p) /\ pc[p] = "releaseCas" /\ p \in Holders
          /\ inflight' = inflight /\ mined' = mined /\ lost' = lost
          /\ \A q \in Holders : q # p => q \in Holders' /\ nonce'[q] = nonce[q]
      BY <2>5 DEF ReleaseCas, Return, Goto, Holders, Holding, TypeOK
    <3>2. PICK m \in 0 .. nonce[p] : Swap(p, Release(loc[p], nonce[p], m))
      BY <2>5 DEF ReleaseCas
    <3>3. m \in Nat /\ nonce[p] \in Nat /\ m <= nonce[p] /\ loc[p] \in NonceState /\ loc[p] = store
      BY <3>1, WinnerKnows DEF TypeOK
    <3>4. /\ store'.next = Release(store, nonce[p], m).next
          /\ store'.free = Release(store, nonce[p], m).free
      BY <3>2, <3>3, StateOpsType, SwapFields
    <3>5. \A k \in Nat : k < store'.next =>
             /\ k < store.next
             /\ k \in store.free \/ k = nonce[p] => k \in store'.free
      BY <3>3, <3>4 DEF Release, NonceState
    <3>6. \A k \in Nat : mined' <= k /\ k < store'.next => Accounted(k)'
      BY <1>1, <3>1, <3>5 DEF Accounted
    <3> QED
      BY <3>6, NoGapNat DEF NoGap, Accounted, TypeOK, NonceState
  <2>6. CASE ResetCas(p)
    <3>1. /\ CasWins(p) /\ pc[p] = "resetCas" /\ Swap(p, Reset(loc[p], chainNext[p]))
          /\ inflight' = inflight /\ mined' = mined /\ lost' = lost
          /\ \A q \in Holders : q \in Holders' /\ nonce'[q] = nonce[q]
      BY <2>6 DEF ResetCas, Return, Goto, Holders, Holding, TypeOK
    <3>2. chainNext[p] \in Nat /\ chainNext[p] <= mined /\ loc[p] \in NonceState /\ loc[p] = store
      BY <3>1, WinnerKnows DEF TypeOK, GapInv
    <3>3. /\ store'.next = Reset(store, chainNext[p]).next
          /\ store'.free = Reset(store, chainNext[p]).free
      BY <3>1, <3>2, StateOpsType, SwapFields
    <3>4. \A k \in Nat : mined <= k /\ k < store'.next =>
             k < store.next /\ (k \in store.free => k \in store'.free)
      BY <3>2, <3>3 DEF Reset, NonceState, TypeOK
    <3>5. \A k \in Nat : mined' <= k /\ k < store'.next => Accounted(k)'
      BY <1>1, <3>1, <3>4 DEF Accounted
    <3> QED
      BY <3>5, NoGapNat DEF NoGap, Accounted, TypeOK, NonceState
  <2> QED
    BY <1>2, <2>1, <2>2, <2>3, <2>4, <2>5, <2>6 DEF ProcNext
<1>3. CASE Mine \/ ForeignTx \/ BoundReached
  <2>1. /\ store' = store /\ mined' >= mined /\ inflight' = inflight /\ lost' = lost
        /\ \A q \in Holders : q \in Holders' /\ nonce'[q] = nonce[q]
    BY <1>0, <1>3 DEF Mine, ForeignTx, BoundReached, vars, Holders, TypeOK
  <2> QED
    BY <1>0, <2>1, NoGapQuiet
<1> QED
  BY <1>2, <1>3 DEF Next

\* Every action keeps the argument of a reset below the chain's count, and the
\* nonces below a first allocation's hint broadcast.
LEMMA GapStep == ASSUME Inv, GapInv, Next PROVE GapInv'
<1>0. TypeOK /\ TypeOK' /\ NoGap'
  BY TypeStep, NoGapStep DEF Inv
<1>1. mined \in Nat /\ mined' \in Nat /\ mined <= mined' /\ inflight \subseteq inflight'
  <2>1. ASSUME NEW p \in Procs, ProcNext(p) PROVE mined' = mined /\ inflight \subseteq inflight'
    BY <2>1 DEF ProcNext, AllocateCall, AllocateLoad, AllocateHint, AllocateCas, Broadcast,
       ReleaseCall, ReleaseLoad, ReleaseCas, ResetCall, ResetLoad, ResetCas, CasRetry,
       StoreError, AllocateAckLost, Crash, Load
  <2>2. CASE Mine \/ ForeignTx \/ BoundReached
    BY <1>0, <2>2 DEF Mine, ForeignTx, BoundReached, vars, TypeOK
  <2> QED
    BY <1>0, <2>1, <2>2 DEF Next, TypeOK
<1>2. \A q \in Procs : chainNext'[q] <= mined'
  <2>1. ASSUME NEW q \in Procs
        PROVE  chainNext'[q] = chainNext[q] \/ chainNext'[q] = 0 \/ chainNext'[q] = mined
    <3>1. ASSUME NEW p \in Procs, ProcNext(p)
          PROVE  chainNext'[q] = chainNext[q] \/ chainNext'[q] = 0 \/ chainNext'[q] = mined
      BY <1>0, <3>1 DEF ProcNext, AllocateCall, AllocateLoad, AllocateHint, AllocateCas, Broadcast,
         ReleaseCall, ReleaseLoad, ReleaseCas, ResetCall, ResetLoad, ResetCas, CasRetry,
         StoreError, AllocateAckLost, Crash, Load, Return, TypeOK
    <3>2. CASE Mine \/ ForeignTx \/ BoundReached
      BY <3>2 DEF Mine, ForeignTx, BoundReached, vars
    <3> QED
      BY <3>1, <3>2 DEF Next
  <2> QED
    BY <1>0, <1>1, <2>1 DEF GapInv, TypeOK
<1>3. ASSUME NEW q \in Procs, pc'[q] = "allocCas", loc'[q].version = 0,
             NEW k \in Nat, mined' <= k, k < loc'[q].next
      PROVE  k \in inflight'
  <2>1. CASE pc[q] = "allocCas" /\ loc'[q] = loc[q]
    BY <1>1, <1>3, <2>1 DEF GapInv
  <2>2. CASE AllocateHint(q)
    <3>1. PICK n \in mined .. mined + Cardinality(inflight) :
               PendingNonce(n) /\ loc' = [loc EXCEPT ![q].next = n]
      BY Zenon, <2>2 DEF AllocateHint
    <3>2. n \in Nat /\ loc'[q].next = n
      BY <1>0, <1>1, <3>1 DEF TypeOK, NonceState
    <3> QED
      BY <1>1, <1>3, <3>1, <3>2 DEF PendingNonce
  <2>3. CASE AllocateLoad(q)
    BY <1>0, <1>3, <2>3 DEF AllocateLoad, Load, Goto, TypeOK
  <2>4. ASSUME NEW p \in Procs, ProcNext(p), ~AllocateHint(q), ~AllocateLoad(q)
        PROVE  pc[q] = "allocCas" /\ loc'[q] = loc[q]
    <3>1. CASE p = q
      BY <1>0, <1>3, <2>4, <3>1 DEF ProcNext, AllocateCall, AllocateCas, Broadcast,
         ReleaseCall, ReleaseLoad, ReleaseCas, ResetCall, ResetLoad, ResetCas, CasRetry,
         StoreError, AllocateAckLost, Crash, Load, Return, Goto, TypeOK
    <3>2. CASE p # q
      BY <1>0, <1>3, <2>4, <3>2 DEF ProcNext, AllocateCall, AllocateLoad, AllocateHint, AllocateCas,
         Broadcast, ReleaseCall, ReleaseLoad, ReleaseCas, ResetCall, ResetLoad, ResetCas, CasRetry,
         StoreError, AllocateAckLost, Crash, Load, Return, Goto, TypeOK
    <3> QED  BY <3>1, <3>2
  <2>5. CASE Mine \/ ForeignTx \/ BoundReached
    BY <1>3, <2>1, <2>5 DEF Mine, ForeignTx, BoundReached, vars
  <2> QED
    BY <2>1, <2>2, <2>3, <2>4, <2>5 DEF Next
<1> QED
  BY <1>0, <1>2, <1>3 DEF GapInv

\* Only a task that dies, or a store call that fails, with a nonce in hand
\* opens a gap: races of allocate, release and reset, out-of-band transactions
\* and transactions pooled at the start never do.
THEOREM GapsAreLosses == Spec => []NoGap
<1>1. Init => GapInv
  BY ConstantsAssumption DEF Init, GapInv, NoGap, Default
<1>2. Inv /\ GapInv /\ [Next]_vars => GapInv'
  BY GapStep DEF vars, GapInv, NoGap, Holders
<1>3. GapInv => NoGap
  BY DEF GapInv
<1> QED
  BY <1>1, <1>2, <1>3, InvHolds, PTL DEF Spec

-----------------------------------------------------------------------------
(* The compare-and-swap loops implement the atomic allocator. *)

\* What a state stands for, as a membership test.
LEMMA InUsed ==
    ASSUME store \in NonceState
    PROVE  \A k : k \in Used <=> k \in Nat /\ k < store.next /\ k \notin store.free
  BY DEF Used, NonceState

\* An allocation's winning swap is an atomic allocation.
LEMMA AllocateRefines ==
    ASSUME Inv, TypeOK', NEW p \in Procs, pc[p] = "allocCas", CasWins(p),
           NEW n \in loc[p].free \cup {loc[p].next},
           Picks(loc[p], n), Swap(p, Allocate(loc[p], n))
    PROVE  Allocator!ANext
<1>1. /\ n \in Nat /\ loc[p] \in NonceState /\ store \in NonceState /\ store' \in NonceState
      /\ TypeOK
  BY DEF Inv, TypeOK, NonceState
<1>2. /\ store'.next = Allocate(loc[p], n).next
      /\ store'.free = Allocate(loc[p], n).free
      /\ store'.version = store.version + 1
  BY <1>1, StateOpsType, SwapFields, WinnerKnows
<1>3. \A k : k \in Used <=> k \in Nat /\ k < store.next /\ k \notin store.free
  BY <1>1, InUsed
<1>4. \A k : k \in Used' <=> k \in Nat /\ k < store'.next /\ k \notin store'.free
  BY <1>1 DEF Used, NonceState
<1>5. (store.version = 0)' = FALSE
  BY <1>1, <1>2 DEF NonceState
<1>6. CASE store.version = 0
  <2>1. store.next = 0 /\ store.free = {} /\ loc[p].free = {}
    <3>1. store = Default
      BY <1>6 DEF Inv
    <3>2. loc[p] = store \/ loc[p].free = {}
      BY DEF Inv, SnapshotCurrent, CasWins
    <3> QED
      BY <3>1, <3>2 DEF Default
  <2>2. n = loc[p].next /\ store'.next = n + 1 /\ store'.free = {}
    BY <1>1, <1>2, <2>1 DEF Picks, Allocate, NonceState
  <2>3. Used = {} /\ Used' = 0 .. n
    <3>1. \A k : k \notin Used
      BY <1>3, <2>1
    <3>2. \A k : k \in Used' <=> k \in 0 .. n
      BY <1>1, <1>4, <2>2
    <3> QED
      BY Zenon, <3>1, <3>2
  <2>4. n \in Used' /\ Allocator!AAllocate(n)
    BY <1>1, <1>5, <1>6, <2>3 DEF Allocator!AAllocate
  <2> QED
    BY <2>4 DEF Allocator!ANext
<1>7. CASE store.version # 0
  <2>1. loc[p] = store
    BY <1>7 DEF Inv, SnapshotCurrent, CasWins
  <2>2. n \notin Used /\ n \in Used' /\ Used' = Used \cup {n}
    <3>1. CASE store.free # {}
      <4>1. store'.next = store.next /\ store'.free = store.free \ {n} /\ n \in store.free
        BY <1>1, <1>2, <2>1, <3>1 DEF Allocate, Picks, IsLowest, NonceState
      <4>2. n < store.next
        BY <1>1, <4>1 DEF Inv, FreeListNormal, NonceState
      <4> QED  BY <1>1, <1>3, <1>4, <4>1, <4>2
    <3>2. CASE store.free = {}
      <4>1. store'.next = store.next + 1 /\ store'.free = store.free /\ n = store.next
        BY <1>1, <1>2, <2>1, <3>2 DEF Allocate, Picks, NonceState
      <4> QED  BY <1>1, <1>3, <1>4, <3>2, <4>1 DEF NonceState
    <3> QED  BY <3>1, <3>2
  <2>3. Allocator!Below(n) \subseteq Used
    <3> SUFFICES ASSUME NEW k \in 0 .. n, k # n PROVE k < store.next /\ k \notin store.free
      BY <1>1, <1>3 DEF Allocator!Below
    <3>1. n <= store.next
      BY <1>1, <2>1 DEF Picks, IsLowest, Inv, FreeListNormal, NonceState
    <3>2. k \notin store.free
      BY <1>1, <2>1 DEF Picks, IsLowest, NonceState
    <3> QED
      BY <1>1, <3>1, <3>2 DEF NonceState
  <2>4. Allocator!AAllocate(n)
    <3>1. (store.version = 0) = FALSE
      BY <1>7
    <3> QED
      BY <1>5, <2>2, <2>3, <3>1, Zenon DEF Allocator!AAllocate
  <2> QED
    BY <2>2, <2>4 DEF Allocator!ANext
<1> QED  BY <1>6, <1>7

\* A release's winning swap is an atomic release.
LEMMA ReleaseRefines ==
    ASSUME Inv, TypeOK', NEW p \in Procs, pc[p] = "releaseCas", CasWins(p),
           NEW m \in 0 .. nonce[p], AbsorbsTo(loc[p], nonce[p], m),
           Swap(p, Release(loc[p], nonce[p], m))
    PROVE  Allocator!ANext
<1>1. /\ nonce[p] \in Nat /\ m \in Nat /\ loc[p] \in NonceState
      /\ store \in NonceState /\ store' \in NonceState /\ TypeOK
  BY DEF Inv, TypeOK
<1>2. /\ loc[p] = store
      /\ store'.next = Release(store, nonce[p], m).next
      /\ store'.free = Release(store, nonce[p], m).free
      /\ store'.version = store.version + 1
  BY <1>1, StateOpsType, SwapFields, WinnerKnows
<1>3. \A k : k \in Used <=> k \in Nat /\ k < store.next /\ k \notin store.free
  BY <1>1, InUsed
<1>4. \A k : k \in Used' <=> k \in Nat /\ k < store'.next /\ k \notin store'.free
  BY <1>1 DEF Used, NonceState
<1>5. nonce[p] < store.next /\ nonce[p] \notin store.free
  BY <1>2, WinnerKnows DEF Holders, Holding
<1>6. store.version # 0 /\ store'.version # 0
  BY <1>1, <1>2, <1>5 DEF Inv, Default, NonceState
<1>7. nonce[p] \in Used
  BY <1>1, <1>3, <1>5
<1>8. Used' = Used \ {nonce[p]}
  <2>1. CASE nonce[p] + 1 = store.next
    <3>1. store'.next = m /\ store'.free = {k \in store.free : k < m}
      BY <1>1, <1>2, <2>1 DEF Release, NonceState
    <3>2. \A k \in Nat : k < store.next /\ k # nonce[p] /\ k \notin store.free => k < m
      BY <1>1, <1>2, <2>1 DEF AbsorbsTo, NonceState
    <3>3. \A k : k \in Used' <=> k \in Used /\ k # nonce[p]
      BY <1>1, <1>3, <1>4, <2>1, <3>1, <3>2 DEF NonceState
    <3> QED  BY <3>3
  <2>2. CASE nonce[p] + 1 # store.next
    <3>1. store'.next = store.next /\ store'.free = store.free \cup {nonce[p]}
      BY <1>1, <1>2, <2>2 DEF Release, NonceState
    <3> QED  BY <1>3, <1>4, <3>1
  <2> QED  BY <2>1, <2>2
<1>9. (store.version = 0)' = (store.version = 0)
  BY <1>6
<1> QED
  BY <1>7, <1>8, <1>9, Zenon DEF Allocator!ANext, Allocator!ARelease

\* A reset's winning swap is an atomic reset.
LEMMA ResetRefines ==
    ASSUME Inv, TypeOK', NEW p \in Procs, pc[p] = "resetCas", CasWins(p),
           Swap(p, Reset(loc[p], chainNext[p]))
    PROVE  Allocator!ANext
<1> DEFINE c == chainNext[p]
<1>1. /\ c \in Nat /\ loc[p] \in NonceState
      /\ store \in NonceState /\ store' \in NonceState /\ TypeOK
  BY DEF Inv, TypeOK
<1>2. /\ loc[p] = store
      /\ store'.next = (IF store.next < c THEN c ELSE store.next)
      /\ store'.free = {k \in store.free : k >= c}
      /\ store'.version = store.version + 1
  <2>1. /\ loc[p] = store
        /\ store'.next = Reset(store, c).next
        /\ store'.free = Reset(store, c).free
        /\ store'.version = store.version + 1
    BY <1>1, StateOpsType, SwapFields, WinnerKnows
  <2> QED
    BY <1>1, <2>1 DEF Reset, NonceState
<1> HIDE DEF c
<1>3. \A k : k \in Used <=> k \in Nat /\ k < store.next /\ k \notin store.free
  BY <1>1, InUsed
<1>4. \A k : k \in Used' <=> k \in Nat /\ k < store'.next /\ k \notin store'.free
  BY <1>1 DEF Used, NonceState
<1>5. \A k : k \in Allocator!Below(c) <=> k \in Nat /\ k < c
  BY <1>1 DEF Allocator!Below
<1>6. \A k : k \in Used' <=> k \in Used \/ k \in Allocator!Below(c)
  BY <1>1, <1>2, <1>3, <1>4, <1>5 DEF Inv, FreeListNormal, NonceState
<1>7. (store.version = 0)' = FALSE
  BY <1>1, <1>2 DEF NonceState
<1>8. Allocator!AReset(c)
  BY <1>6, <1>7 DEF Allocator!AReset
<1>9. c \in {0} \cup {k + 1 : k \in Used'}
  <2>1. CASE c # 0
    <3>1. c - 1 \in Used' /\ c = (c - 1) + 1
      BY <1>1, <1>5, <1>6, <2>1
    <3> QED  BY <3>1
  <2> QED  BY <2>1
<1> QED
  BY <1>8, <1>9 DEF Allocator!ANext

\* The load / compute / compare-and-swap loops of allocate, release and reset,
\* run by any number of tasks, implement an allocator whose operations are
\* atomic and which always hands out the lowest nonce not in use.
THEOREM ImplementsAllocator == Spec => RefinesAllocator
<1>1. Init => Allocator!AInit
  <2>1. Init => Used = {} /\ (store.version = 0) = TRUE
    BY DEF Init, Default, Used
  <2> QED
    BY <2>1 DEF Allocator!AInit
<1>2. ASSUME Inv, Inv', [Next]_vars PROVE [Allocator!ANext]_Allocator!allocVars
  <2>1. CASE store' = store
    BY <2>1 DEF Allocator!allocVars, Used
  <2>2. ASSUME NEW p \in Procs, ProcNext(p), store' # store PROVE Allocator!ANext
    <3>1. CASE AllocateCas(p) \/ AllocateAckLost(p)
      BY <1>2, <3>1, AllocateRefines DEF AllocateCas, AllocateAckLost, Inv
    <3>2. CASE ReleaseCas(p)
      BY Zenon, <1>2, <3>2, ReleaseRefines DEF ReleaseCas, Inv
    <3>3. CASE ResetCas(p)
      BY Zenon, <1>2, <3>3, ResetRefines DEF ResetCas, Inv
    <3> QED
      BY <2>2, <3>1, <3>2, <3>3
         DEF ProcNext, AllocateCall, AllocateLoad, AllocateHint, Broadcast, ReleaseCall,
             ReleaseLoad, ResetCall, ResetLoad, CasRetry, StoreError, Crash, Load
  <2> QED
    BY <1>2, <2>1, <2>2 DEF Next, Mine, ForeignTx, BoundReached, vars
<1> QED
  BY <1>1, <1>2, InvHolds, PTL DEF Spec, RefinesAllocator, Allocator!ASpec
=============================================================================
