------------------------ MODULE WalletRuntimeProofs ------------------------
(***************************************************************************)
(* Four promises of the wallet, for any number of intents and cancels.     *)
(*                                                                         *)
(* For every interleaving of the awaits of send, cancel and tick, and any  *)
(* number of crashes, failed writes and broadcasts of unknown fate: what   *)
(* was broadcast is on file, and its file keeps the first hash (LInv,      *)
(* WriteAhead); and "a live tx's nonce is never freed for reuse"           *)
(* (transaction_manager.rs:223-224), as long as no node rejects a          *)
(* transaction that another one would take (NInv, NonceNeverFreed).        *)
(*                                                                         *)
(* For a host that runs one operation at a time and loses no write or      *)
(* broadcast (Calm): however often it is bumped, displaced and refilled,   *)
(* an intent is executed at most once, and one that is reported Dropped    *)
(* not at all (OInv, ExecutedAtMostOnce, DroppedDidNotRun).  Every hash on *)
(* the wire is then in the record of its handle, so what confirms a handle *)
(* is all there is of it; a handle settles Replaced or Dropped only when   *)
(* none of its transactions can be mined any more, and the resend of its   *)
(* intent starts only then.  Without Calm TLC refutes both.                *)
(***************************************************************************)
EXTENDS WalletRuntime, TLAPS

\* A handle id is its intent and its nonce.
IsId(id) == id = Id(id.intent, id.nonce)

\* A record that an intent's handle may have: it lists the first broadcast.
Fit(id, rec) == id.intent \in Intents => 0 \in rec.revs

\* A transaction of an intent has its handle in the store.
OnFile(t) == t.intent \in Intents => Id(t.intent, t.nonce) \in DOMAIN handles

\* Where a send or a cancel carries a record to write, and where the handle it
\* works on has been written already.
Carrying == {"persist", "submit", "sent", "failed", "poison", "cancel", "unpoison", "record"}
Filed    == Carrying \ {"persist"}

HandlesInv == \A id \in DOMAIN handles : IsId(id) /\ Fit(id, handles[id])
PoolInv    == \A t \in pool : OnFile(t)
LedgerInv  ==
    /\ ledger \in Seq({ledger[k] : k \in 1 .. Len(ledger)})
    /\ \A k \in 1 .. Len(ledger) : OnFile(ledger[k])
JobInv ==
    /\ DOMAIN pc = Tasks /\ DOMAIN job = Tasks
    /\ \A p \in Tasks :
          /\ pc[p] \in Carrying => IsId(job[p].id) /\ Fit(job[p].id, job[p].rec)
          /\ pc[p] \in Filed => job[p].id \in DOMAIN handles
TodoInv ==
    /\ \A id \in DOMAIN todo : id \in DOMAIN handles /\ Fit(id, todo[id])
    /\ phase \in {"put", "bump", "bumpPut"} => cur \in DOMAIN todo

\* The inductive invariant.  SentIsLogged alone is not: operations write back
\* whole records that they loaded before their awaits.
LInv == HandlesInv /\ PoolInv /\ LedgerInv /\ JobInv /\ TodoInv

-----------------------------------------------------------------------------
(* The store, the node, the calls *)

Grown == DOMAIN handles \subseteq DOMAIN handles'

\* A put adds its handle and keeps the others.
LEMMA PutKeeps ==
    ASSUME NEW id, NEW rec, HandlesInv, IsId(id), Fit(id, rec), Put(id, rec)
    PROVE  HandlesInv' /\ Grown /\ id \in DOMAIN handles'
<1>. USE Zenon
<1>1. DOMAIN handles' = DOMAIN handles \cup {id}
  BY DEF Put
<1>2. \A x \in DOMAIN handles' : handles'[x] = IF x = id THEN rec ELSE handles[x]
  BY DEF Put
<1>3. ASSUME NEW x \in DOMAIN handles' PROVE IsId(x) /\ Fit(x, handles'[x])
  BY <1>1, <1>2 DEF HandlesInv
<1>. QED BY <1>1, <1>3 DEF HandlesInv, Grown

\* So does a put whose error is dropped.
LEMMA PutIgnoredKeeps ==
    ASSUME NEW id, NEW rec, HandlesInv, IsId(id), Fit(id, rec), PutIgnored(id, rec)
    PROVE  HandlesInv' /\ Grown
<1>. USE Zenon
<1>1. CASE Put(id, rec)
  BY <1>1, PutKeeps
<1>2. CASE UNCHANGED handles
  BY <1>2 DEF HandlesInv, Grown
<1>. QED BY <1>1, <1>2 DEF PutIgnored

\* Whatever a broadcast comes to, what is pooled is on file.
LEMMA SubmitKeeps ==
    ASSUME NEW tx, NEW result, PoolInv, OnFile(tx), Submit(tx, result), Grown
    PROVE  PoolInv'
<1>1. pool' = pool \/ pool' = pool \cup {tx}
  BY Zenon DEF Submit
<1>. QED BY Zenon, <1>1 DEF PoolInv, OnFile, Grown

\* One call moves to l with locals j; the others stay where they are.
LEMMA TaskMoves ==
    ASSUME NEW p \in Tasks, NEW l, NEW j, JobInv, Grown,
           Goto(p, l),
           job' = [job EXCEPT ![p] = j] \/ (job' = job /\ j = job[p]),
           l \in Carrying => IsId(j.id) /\ Fit(j.id, j.rec),
           l \in Filed => j.id \in DOMAIN handles'
    PROVE  JobInv'
<1>. USE Zenon
<1>1. DOMAIN pc' = Tasks /\ DOMAIN job' = Tasks
  BY DEF JobInv, Goto
<1>2. pc'[p] = l /\ job'[p] = j
  BY DEF JobInv, Goto
<1>3. ASSUME NEW q \in Tasks, q # p PROVE pc'[q] = pc[q] /\ job'[q] = job[q]
  BY <1>3 DEF JobInv, Goto
<1>4. ASSUME NEW q \in Tasks
      PROVE  /\ pc'[q] \in Carrying => IsId(job'[q].id) /\ Fit(job'[q].id, job'[q].rec)
             /\ pc'[q] \in Filed => job'[q].id \in DOMAIN handles'
  <2>1. CASE q = p
    BY <1>2, <2>1
  <2>2. CASE q # p
    BY <1>3, <2>2 DEF JobInv, Grown
  <2>. QED BY <2>1, <2>2
<1>. QED BY <1>1, <1>4 DEF JobInv

\* A call returns.
LEMMA TaskReturns ==
    ASSUME NEW p \in Tasks, JobInv, Grown, Return(p)
    PROVE  JobInv'
<1>1. "done" \notin Carrying /\ "done" \notin Filed
  BY Zenon DEF Carrying, Filed
<1>. QED BY <1>1, TaskMoves, Zenon DEF Return

\* What a step that leaves a part alone does not disturb.
LEMMA JobStays ==
    ASSUME JobInv, Grown, UNCHANGED taskVars
    PROVE  JobInv'
BY Zenon DEF JobInv, Grown, taskVars

LEMMA TodoStays ==
    ASSUME TodoInv, Grown, UNCHANGED tickVars
    PROVE  TodoInv'
BY Zenon DEF TodoInv, Grown, tickVars

LEMMA ChainStays ==
    ASSUME PoolInv, LedgerInv, Grown, UNCHANGED ledger
    PROVE  LedgerInv' /\ (UNCHANGED pool => PoolInv')
BY Zenon DEF PoolInv, LedgerInv, OnFile, Grown

LEMMA StoreStays ==
    ASSUME HandlesInv, UNCHANGED handles
    PROVE  HandlesInv' /\ Grown
BY Zenon DEF HandlesInv, Grown

-----------------------------------------------------------------------------
(* Initially *)

LEMMA LInvInit == Init => LInv
<1>. USE Zenon
<1>. SUFFICES ASSUME Init PROVE LInv
  OBVIOUS
<1>1. HandlesInv /\ PoolInv /\ TodoInv
  BY DEF Init, Empty, HandlesInv, PoolInv, TodoInv
<1>2. LedgerInv
  BY SMT DEF Init, LedgerInv
<1>3. JobInv
  BY DEF Init, JobInv, Carrying, Filed
<1>. QED BY <1>1, <1>2, <1>3 DEF LInv

-----------------------------------------------------------------------------
(* tick *)

\* A snapshot holds records of the store.
LEMMA SnapshotFits ==
    ASSUME HandlesInv, NEW kinds, UNCHANGED handles, todo' = Snapshot(kinds),
           phase' \notin {"put", "bump", "bumpPut"}
    PROVE  TodoInv'
BY Zenon DEF TodoInv, HandlesInv, Snapshot

\* A tick that goes on with fewer handles.
LEMMA TodoShrinks ==
    ASSUME TodoInv, Grown, NEW id, todo' = Without(todo, id),
           phase' \notin {"put", "bump", "bumpPut"}
    PROVE  TodoInv'
BY Zenon DEF TodoInv, Without, Grown

\* A tick that moves on with the same ones.
LEMMA TodoKept ==
    ASSUME TodoInv, Grown, UNCHANGED todo, phase' \notin {"put", "bump", "bumpPut"}
    PROVE  TodoInv'
BY Zenon DEF TodoInv, Grown

-----------------------------------------------------------------------------
(* Crashes, the chain *)

\* The ledger grows by a transaction that is on file.
LEMMA LedgerGrows ==
    ASSUME NEW t, LedgerInv, OnFile(t), ledger' = Append(ledger, t), UNCHANGED handles
    PROVE  LedgerInv'
<1>. DEFINE R == {ledger[k] : k \in 1 .. Len(ledger)}
            S == R \cup {t}
<1>1. ledger \in Seq(S)
  BY DEF LedgerInv
<1>2. /\ ledger' \in Seq(S) /\ Len(ledger') = Len(ledger) + 1 /\ Len(ledger) \in Nat
      /\ \A k \in 1 .. Len(ledger) : ledger'[k] = ledger[k]
      /\ ledger'[Len(ledger) + 1] = t
  BY <1>1
<1>3. S \subseteq {ledger'[k] : k \in 1 .. Len(ledger')}
  <2>1. ASSUME NEW x \in R PROVE x \in {ledger'[k] : k \in 1 .. Len(ledger')}
    BY <1>2
  <2>. QED BY <1>2, <2>1
<1>4. ledger' \in Seq({ledger'[k] : k \in 1 .. Len(ledger')})
  BY <1>2, <1>3
<1>5. ASSUME NEW k \in 1 .. Len(ledger'), ledger'[k].intent \in Intents
      PROVE  Id(ledger'[k].intent, ledger'[k].nonce) \in DOMAIN handles'
  <2>. USE Zenon
  <2>1. CASE k \in 1 .. Len(ledger)
    BY <1>2, <1>5, <2>1 DEF LedgerInv, OnFile
  <2>2. CASE k = Len(ledger) + 1
    BY <1>2, <1>5, <2>2 DEF OnFile
  <2>. QED BY SMT, <1>2, <2>1, <2>2
<1>. QED BY Zenon, <1>4, <1>5 DEF LedgerInv, OnFile

-----------------------------------------------------------------------------
(* The theorems *)

LEMMA LInvStep == LInv /\ [Next]_vars => LInv'
<1>. USE Zenon
<1>. SUFFICES ASSUME LInv PROVE [Next]_vars => LInv'
  OBVIOUS
<1>SendStarts. ASSUME NEW p \in Tasks, SendPreflight(p) \/ SendAllocate(p)
               PROVE  LInv'
  <2>. USE <1>SendStarts
  <2>. USE DEF LInv
  <2>1. HandlesInv' /\ Grown
    BY StoreStays DEF SendPreflight, SendAllocate, walletVars
  <2>2. LedgerInv' /\ PoolInv'
    BY <2>1, ChainStays DEF SendPreflight, SendAllocate, chainVars
  <2>3. TodoInv'
    BY <2>1, TodoStays DEF SendPreflight, SendAllocate
  <2>4. JobInv'
    <3>1. CASE Return(p)
      BY <2>1, <3>1, TaskReturns
    <3>2. CASE Goto(p, "allocate") /\ UNCHANGED job
      <4>1. "allocate" \notin Carrying /\ "allocate" \notin Filed
        BY DEF Carrying, Filed
      <4>. QED BY <2>1, <3>2, <4>1, TaskMoves
    <3>3. CASE SendAllocate(p) /\ ~Return(p)
      <4>1. PICK n \in 0 .. MaxNonce :
               /\ job' = [job EXCEPT ![p] =
                     Job(Id(Intent(p), n), Rec(Plain("Pending"), FALSE, {0}, 0), 0, FALSE)]
               /\ Goto(p, "persist")
        BY <3>3 DEF SendAllocate
      <4>. DEFINE j == Job(Id(Intent(p), n), Rec(Plain("Pending"), FALSE, {0}, 0), 0, FALSE)
      <4>2. IsId(j.id) /\ Fit(j.id, j.rec)
        BY DEF IsId, Fit, Job, Rec, Id
      <4>3. "persist" \notin Filed
        BY DEF Filed
      <4>. HIDE DEF j
      <4>. QED BY <2>1, <4>1, <4>2, <4>3, TaskMoves DEF j
    <3>. QED BY <3>1, <3>2, <3>3 DEF SendPreflight
  <2>. QED BY <2>1, <2>2, <2>3, <2>4
\* The write-ahead step: from here on the handle is on file.
<1>SendPersists. ASSUME NEW p \in Tasks, SendPersist(p)
                 PROVE  LInv'
  <2>. USE <1>SendPersists
  <2>. USE DEF LInv
  <2>0. pc[p] \in Carrying /\ UNCHANGED job
    BY DEF SendPersist, Carrying
  <2>1. IsId(job[p].id) /\ Fit(job[p].id, job[p].rec)
    BY <2>0 DEF JobInv
  <2>2. HandlesInv' /\ Grown /\ JobInv'
    <3>1. CASE Put(job[p].id, job[p].rec) /\ Goto(p, "submit")
      <4>1. HandlesInv' /\ Grown /\ job[p].id \in DOMAIN handles'
        BY <2>1, <3>1, PutKeeps
      <4>. QED BY <2>0, <2>1, <3>1, <4>1, TaskMoves
    <3>2. CASE Goto(p, "release") /\ UNCHANGED handles
      <4>1. "release" \notin Carrying /\ "release" \notin Filed
        BY DEF Carrying, Filed
      <4>2. HandlesInv' /\ Grown
        BY <3>2, StoreStays
      <4>. QED BY <2>0, <3>2, <4>1, <4>2, TaskMoves
    <3>. QED BY <3>1, <3>2 DEF SendPersist
  <2>3. LedgerInv' /\ PoolInv'
    BY <2>2, ChainStays DEF SendPersist, chainVars
  <2>4. TodoInv'
    BY <2>2, TodoStays DEF SendPersist
  <2>. QED BY <2>2, <2>3, <2>4
<1>SendSubmits. ASSUME NEW p \in Tasks, SendSubmit(p)
                PROVE  LInv'
  <2>. USE <1>SendSubmits
  <2>. USE DEF LInv
  <2>1. HandlesInv' /\ Grown
    BY StoreStays DEF SendSubmit, walletVars
  <2>2. pc[p] \in Filed /\ pc[p] \in Carrying
    BY DEF SendSubmit, Filed, Carrying
  <2>3. PICK result : Submit(Tx(job[p].id, 0), result) /\ Goto(p, SubmitOutcome(result))
    BY DEF SendSubmit
  <2>4. IsId(job[p].id) /\ job[p].id \in DOMAIN handles /\ Fit(job[p].id, job[p].rec)
    BY <2>2 DEF JobInv
  <2>5. OnFile(Tx(job[p].id, 0))
    BY <2>4 DEF OnFile, Tx, IsId, Id
  <2>6. PoolInv' /\ LedgerInv'
    BY <2>1, <2>3, <2>5, SubmitKeeps, ChainStays DEF SendSubmit
  <2>7. TodoInv'
    BY <2>1, TodoStays DEF SendSubmit
  <2>8. job[p].id \in DOMAIN handles' /\ job' = job
    BY <2>1, <2>4 DEF Grown, SendSubmit
  <2>9. JobInv'
    BY <2>1, <2>3, <2>4, <2>8, TaskMoves
  <2>. QED BY <2>1, <2>6, <2>7, <2>9
\* The record send writes last is the one it filed, with another status.
<1>SendMarks. ASSUME NEW p \in Tasks, SendMarkSent(p) \/ SendMarkFailed(p)
              PROVE  LInv'
  <2>. USE <1>SendMarks
  <2>. USE DEF LInv
  <2>1. pc[p] \in Carrying
    BY DEF SendMarkSent, SendMarkFailed, Carrying
  <2>2. IsId(job[p].id) /\ Fit(job[p].id, job[p].rec)
    BY <2>1 DEF JobInv
  <2>3. PICK s : PutIgnored(job[p].id, WithStatus(job[p].rec, s))
    BY DEF SendMarkSent, SendMarkFailed
  <2>4. Fit(job[p].id, WithStatus(job[p].rec, s))
    BY <2>2 DEF Fit, WithStatus, Rec
  <2>5. HandlesInv' /\ Grown
    BY <2>2, <2>3, <2>4, PutIgnoredKeeps
  <2>6. LedgerInv' /\ PoolInv'
    BY <2>5, ChainStays DEF SendMarkSent, SendMarkFailed, chainVars
  <2>7. TodoInv'
    BY <2>5, TodoStays DEF SendMarkSent, SendMarkFailed
  <2>8. JobInv'
    <3>1. CASE Return(p)
      BY <2>5, <3>1, TaskReturns
    <3>2. CASE Goto(p, "release") /\ UNCHANGED job
      <4>1. "release" \notin Carrying /\ "release" \notin Filed
        BY DEF Carrying, Filed
      <4>. QED BY <2>5, <3>2, <4>1, TaskMoves
    <3>. QED BY <3>1, <3>2 DEF SendMarkSent, SendMarkFailed
  <2>. QED BY <2>5, <2>6, <2>7, <2>8
<1>SendReleases. ASSUME NEW p \in Tasks, SendRelease(p)
                 PROVE  LInv'
  <2>. USE <1>SendReleases
  <2>. USE DEF LInv
  <2>1. HandlesInv' /\ Grown
    BY StoreStays DEF SendRelease
  <2>2. LedgerInv' /\ PoolInv'
    BY <2>1, ChainStays DEF SendRelease, chainVars
  <2>3. TodoInv' /\ JobInv'
    BY <2>1, TodoStays, TaskReturns DEF SendRelease
  <2>. QED BY <2>1, <2>2, <2>3
<1>CancelLoads. ASSUME NEW c \in Tasks, CancelLoad(c)
                PROVE  LInv'
  <2>. USE <1>CancelLoads
  <2>. USE DEF LInv
  <2>1. HandlesInv' /\ Grown
    BY StoreStays DEF CancelLoad, walletVars
  <2>2. LedgerInv' /\ PoolInv'
    BY <2>1, ChainStays DEF CancelLoad, chainVars
  <2>3. TodoInv'
    BY <2>1, TodoStays DEF CancelLoad
  <2>4. JobInv'
    <3>1. CASE Return(c)
      BY <2>1, <3>1, TaskReturns
    <3>2. CASE ~Return(c)
      <4>1. PICK id \in DOMAIN handles :
               /\ job' = [job EXCEPT ![c] = Job(id, handles[id], handles[id].signed, FALSE)]
               /\ Goto(c, "poison")
        BY <3>2 DEF CancelLoad
      <4>. DEFINE j == Job(id, handles[id], handles[id].signed, FALSE)
      <4>2. IsId(j.id) /\ Fit(j.id, j.rec) /\ j.id \in DOMAIN handles'
        BY <2>1 DEF HandlesInv, Job, Grown
      <4>. HIDE DEF j
      <4>. QED BY <2>1, <4>1, <4>2, TaskMoves DEF j
    <3>. QED BY <3>1, <3>2
  <2>. QED BY <2>1, <2>2, <2>3, <2>4
<1>CancelPoisons. ASSUME NEW c \in Tasks, CancelPoison(c)
                  PROVE  LInv'
  <2>. USE <1>CancelPoisons
  <2>. USE DEF LInv
  <2>1. pc[c] \in Carrying
    BY DEF CancelPoison, Carrying
  <2>. DEFINE rec == Cancelled(job[c].rec, TRUE)
  <2>2. IsId(job[c].id) /\ Fit(job[c].id, rec)
    BY <2>1 DEF JobInv, Fit, Cancelled, Rec
  <2>3. HandlesInv' /\ Grown /\ JobInv'
    <3>1. CASE /\ Put(job[c].id, rec) /\ Goto(c, "cancel")
               /\ job' = [job EXCEPT ![c] = Job(@.id, rec, @.basis, FALSE)]
      <4>. DEFINE j == Job(job[c].id, rec, job[c].basis, FALSE)
      <4>1. HandlesInv' /\ Grown /\ job[c].id \in DOMAIN handles'
        BY <2>2, <3>1, PutKeeps
      <4>2. j.id = job[c].id /\ j.rec = rec
        BY DEF Job
      <4>3. job' = [job EXCEPT ![c] = j]
        BY <3>1
      <4>. HIDE DEF j, rec
      <4>4. /\ "cancel" \in Carrying => IsId(j.id) /\ Fit(j.id, j.rec)
            /\ "cancel" \in Filed => j.id \in DOMAIN handles'
        BY <2>2, <4>1, <4>2
      <4>. QED BY <3>1, <4>1, <4>3, <4>4, TaskMoves
    <3>2. CASE Return(c) /\ UNCHANGED handles
      BY <3>2, StoreStays, TaskReturns
    <3>. QED BY <3>1, <3>2 DEF CancelPoison
  <2>4. LedgerInv' /\ PoolInv'
    BY <2>3, ChainStays DEF CancelPoison, chainVars
  <2>5. TodoInv'
    BY <2>3, TodoStays DEF CancelPoison
  <2>. QED BY <2>3, <2>4, <2>5
<1>CancelSubmits. ASSUME NEW c \in Tasks, CancelSubmit(c)
                  PROVE  LInv'
  <2>. USE <1>CancelSubmits
  <2>. USE DEF LInv
  <2>1. HandlesInv' /\ Grown
    BY StoreStays DEF CancelSubmit, walletVars
  <2>2. pc[c] \in Carrying /\ pc[c] \in Filed
    BY DEF CancelSubmit, Carrying, Filed
  <2>3. IsId(job[c].id) /\ Fit(job[c].id, job[c].rec) /\ job[c].id \in DOMAIN handles'
    BY <2>1, <2>2 DEF JobInv, Grown
  <2>4. OnFile(CancelTx(c))
    BY WalletRuntimeAssumption DEF OnFile, CancelTx, Tx, Id
  <2>5. PoolInv' /\ LedgerInv'
    <3>1. CASE UNCHANGED pool
      BY <2>1, <3>1, ChainStays DEF CancelSubmit
    <3>2. CASE \E result : Submit(CancelTx(c), result)
      BY <2>1, <2>4, <3>2, SubmitKeeps, ChainStays DEF CancelSubmit
    <3>. QED BY <3>1, <3>2 DEF CancelSubmit
  <2>6. TodoInv'
    BY <2>1, TodoStays DEF CancelSubmit
  <2>7. JobInv'
    <3>1. CASE \E l : Goto(c, l) /\ UNCHANGED job
      BY <2>1, <2>3, <3>1, TaskMoves
    <3>2. CASE /\ job' = [job EXCEPT ![c] = Job(@.id, @.rec, handles[job[c].id].signed, TRUE)]
               /\ UNCHANGED pc
      <4>. DEFINE j == Job(job[c].id, job[c].rec, handles[job[c].id].signed, TRUE)
      <4>1. j.id = job[c].id /\ j.rec = job[c].rec
        BY DEF Job
      <4>2. job' = [job EXCEPT ![c] = j]
        BY <3>2
      <4>. HIDE DEF j
      <4>3. ASSUME NEW q \in Tasks
            PROVE  /\ pc'[q] \in Carrying => IsId(job'[q].id) /\ Fit(job'[q].id, job'[q].rec)
                   /\ pc'[q] \in Filed => job'[q].id \in DOMAIN handles'
        <5>1. CASE q = c
          BY <2>3, <3>2, <4>1, <4>2, <5>1 DEF JobInv
        <5>2. CASE q # c
          BY <2>1, <3>2, <4>2, <5>2 DEF JobInv, Grown
        <5>. QED BY <5>1, <5>2
      <4>. QED BY <3>2, <4>2, <4>3 DEF JobInv
    <3>. QED BY <3>1, <3>2 DEF CancelSubmit
  <2>. QED BY <2>1, <2>5, <2>6, <2>7
<1>CancelEnds. ASSUME NEW c \in Tasks, CancelUnpoison(c) \/ CancelRecord(c)
               PROVE  LInv'
  <2>. USE <1>CancelEnds
  <2>. USE DEF LInv
  <2>1. pc[c] \in Carrying
    BY DEF CancelUnpoison, CancelRecord, Carrying
  <2>2. HandlesInv' /\ Grown
    <3>1. CASE CancelUnpoison(c)
      <4>1. IsId(job[c].id) /\ Fit(job[c].id, Cancelled(job[c].rec, FALSE))
        BY <2>1 DEF JobInv, Fit, Cancelled, Rec
      <4>2. PutIgnored(job[c].id, Cancelled(job[c].rec, FALSE))
        BY <3>1 DEF CancelUnpoison
      <4>. QED BY <4>1, <4>2, PutIgnoredKeeps
    <3>2. CASE CancelRecord(c)
      <4>. DEFINE id == Id(Cancel, job[c].id.nonce)
      <4>1. PICK rec : PutIgnored(id, rec)
        BY <3>2 DEF CancelRecord
      <4>2. IsId(id) /\ Fit(id, rec)
        BY WalletRuntimeAssumption DEF IsId, Fit, Id
      <4>. HIDE DEF id
      <4>. QED BY <4>1, <4>2, PutIgnoredKeeps
    <3>. QED BY <3>1, <3>2
  <2>3. LedgerInv' /\ PoolInv'
    BY <2>2, ChainStays DEF CancelUnpoison, CancelRecord, chainVars
  <2>4. TodoInv' /\ JobInv'
    BY <2>2, TodoStays, TaskReturns DEF CancelUnpoison, CancelRecord
  <2>. QED BY <2>2, <2>3, <2>4
<1>TickLoads. ASSUME TickStart \/ ConfirmLoad \/ EscalateLoad
              PROVE  LInv'
  <2>. USE <1>TickLoads
  <2>. USE DEF LInv
  <2>1. /\ UNCHANGED <<walletVars, chainVars, taskVars>>
        /\ phase' \notin {"put", "bump", "bumpPut"}
        /\ \E kinds : todo' = Snapshot(kinds)
    BY DEF TickStart, ConfirmLoad, EscalateLoad
  <2>2. HandlesInv' /\ Grown
    BY <2>1, StoreStays DEF walletVars
  <2>3. LedgerInv' /\ PoolInv'
    BY <2>1, <2>2, ChainStays DEF chainVars
  <2>4. TodoInv'
    BY <2>1, SnapshotFits DEF walletVars
  <2>5. JobInv'
    BY <2>1, <2>2, JobStays
  <2>. QED BY <2>2, <2>3, <2>4, <2>5
<1>TickMovesOn. ASSUME ReadCycle \/ ResetNonces \/ RefillDone \/ TickEnd \/ TickError
                PROVE  LInv'
  <2>. USE <1>TickMovesOn
  <2>. USE DEF LInv
  <2>1. /\ UNCHANGED <<handles, chainVars, taskVars, todo>>
        /\ phase' \notin {"put", "bump", "bumpPut"}
    BY DEF ReadCycle, ResetNonces, RefillDone, TickEnd, TickError, walletVars
  <2>2. HandlesInv' /\ Grown
    BY <2>1, StoreStays
  <2>3. LedgerInv' /\ PoolInv'
    BY <2>1, <2>2, ChainStays DEF chainVars
  <2>4. TodoInv' /\ JobInv'
    BY <2>1, <2>2, TodoKept, JobStays
  <2>. QED BY <2>2, <2>3, <2>4
<1>Recovers. ASSUME Recover
             PROVE  LInv'
  <2>. USE <1>Recovers
  <2>. USE DEF LInv
  <2>1. HandlesInv' /\ Grown
    BY StoreStays DEF Recover, walletVars
  <2>2. PICK id \in DOMAIN todo :
           /\ \E result : Submit(Tx(id, todo[id].signed), result)
           /\ todo' = Without(todo, id)
    BY DEF Recover
  <2>3. OnFile(Tx(id, todo[id].signed))
    BY DEF TodoInv, HandlesInv, OnFile, Tx, IsId
  <2>4. PoolInv' /\ LedgerInv'
    BY <2>1, <2>2, <2>3, SubmitKeeps, ChainStays DEF Recover
  <2>5. phase' \notin {"put", "bump", "bumpPut"}
    BY DEF Recover
  <2>6. TodoInv' /\ JobInv'
    BY <2>1, <2>2, <2>5, TodoShrinks, JobStays DEF Recover
  <2>. QED BY <2>1, <2>4, <2>6
<1>Advances. ASSUME Advance
             PROVE  LInv'
  <2>. USE <1>Advances
  <2>. USE DEF LInv
  <2>1. HandlesInv' /\ Grown
    BY StoreStays DEF Advance, walletVars
  <2>2. LedgerInv' /\ PoolInv' /\ JobInv'
    BY <2>1, ChainStays, JobStays DEF Advance, chainVars
  <2>3. TodoInv'
    <3>1. PICK id \in DOMAIN todo :
             \/ /\ \E next : todo' = [todo EXCEPT ![id] = WithStatus(@, next)]
                /\ cur' = id
             \/ todo' = Without(todo, id) /\ phase' = "confirm"
      BY DEF Advance
    <3>2. CASE todo' = Without(todo, id) /\ phase' = "confirm"
      BY <2>1, <3>2, TodoShrinks
    <3>3. CASE /\ \E next : todo' = [todo EXCEPT ![id] = WithStatus(@, next)]
               /\ cur' = id
      <4>1. PICK next : todo' = [todo EXCEPT ![id] = WithStatus(todo[id], next)]
        BY <3>3
      <4>2. Fit(id, WithStatus(todo[id], next))
        BY DEF TodoInv, Fit, WithStatus, Rec
      <4>. QED BY <2>1, <3>3, <4>1, <4>2 DEF TodoInv, Grown
    <3>. QED BY <3>1, <3>2, <3>3
  <2>. QED BY <2>1, <2>2, <2>3
<1>AdvancePuts. ASSUME AdvancePut
                PROVE  LInv'
  <2>. USE <1>AdvancePuts
  <2>. USE DEF LInv
  <2>1. IsId(cur) /\ Fit(cur, todo[cur])
    BY DEF AdvancePut, TodoInv, HandlesInv
  <2>2. HandlesInv' /\ Grown
    <3>1. CASE Put(cur, todo[cur])
      BY <2>1, <3>1, PutKeeps
    <3>2. CASE UNCHANGED handles
      BY <3>2, StoreStays
    <3>. QED BY <3>1, <3>2 DEF AdvancePut
  <2>3. LedgerInv' /\ PoolInv'
    BY <2>2, ChainStays DEF AdvancePut, chainVars
  <2>4. TodoInv'
    BY <2>2, TodoShrinks DEF AdvancePut
  <2>5. JobInv'
    <3>1. CASE UNCHANGED taskVars
      BY <2>2, <3>1, JobStays
    <3>2. CASE Goto(Refiller, "new") /\ job' = [job EXCEPT ![Refiller] = Job(cur, NoRecord, 0, FALSE)]
      <4>1. "new" \notin Carrying /\ "new" \notin Filed
        BY DEF Carrying, Filed
      <4>2. Refiller \in Tasks
        BY DEF Tasks, Senders
      <4>. QED BY <2>2, <3>2, <4>1, <4>2, TaskMoves
    <3>. QED BY <3>1, <3>2 DEF AdvancePut
  <2>. QED BY <2>2, <2>3, <2>4, <2>5
<1>Bumps. ASSUME BumpCheck \/ BumpSubmit
          PROVE  LInv'
  <2>. USE <1>Bumps
  <2>. USE DEF LInv
  <2>1. HandlesInv' /\ Grown
    BY StoreStays DEF BumpCheck, BumpSubmit, walletVars
  <2>2. JobInv'
    BY <2>1, JobStays DEF BumpCheck, BumpSubmit
  <2>3. CASE BumpCheck
    <3>1. LedgerInv' /\ PoolInv'
      BY <2>1, <2>3, ChainStays DEF BumpCheck, chainVars
    <3>2. TodoInv'
      <4>1. PICK id \in DOMAIN todo :
               \/ todo' = Without(todo, id) /\ phase' = "escalate"
               \/ cur' = id /\ UNCHANGED todo
        BY <2>3 DEF BumpCheck
      <4>. QED BY <2>1, <4>1, TodoShrinks DEF TodoInv, Grown
    <3>. QED BY <2>1, <2>2, <3>1, <3>2
  <2>4. CASE BumpSubmit
    <3>1. cur \in DOMAIN todo
      BY <2>4 DEF BumpSubmit, TodoInv
    <3>2. OnFile(Tx(cur, todo[cur].signed + 1))
      BY <3>1 DEF TodoInv, HandlesInv, OnFile, Tx, IsId
    <3>3. LedgerInv' /\ PoolInv'
      BY <2>1, <2>4, <3>2, SubmitKeeps, ChainStays DEF BumpSubmit
    <3>4. TodoInv'
      <4>1. CASE UNCHANGED <<todo, cur>>
        BY <2>1, <3>1, <4>1 DEF TodoInv, Grown
      <4>2. CASE todo' = Without(todo, cur) /\ phase' = "escalate"
        BY <2>1, <4>2, TodoShrinks
      <4>. QED BY <2>4, <4>1, <4>2 DEF BumpSubmit
    <3>. QED BY <2>1, <2>2, <3>3, <3>4
  <2>. QED BY <2>3, <2>4
\* The record of a bump keeps the earlier hashes.
<1>BumpPuts. ASSUME BumpPut
             PROVE  LInv'
  <2>. USE <1>BumpPuts
  <2>. USE DEF LInv
  <2>1. IsId(cur) /\ Fit(cur, todo[cur])
    BY DEF BumpPut, TodoInv, HandlesInv
  <2>2. Fit(cur, Bumped(todo[cur], todo[cur].signed + 1))
    BY <2>1 DEF Fit, Bumped, Rec
  <2>3. PutIgnored(cur, Bumped(todo[cur], todo[cur].signed + 1))
    BY DEF BumpPut
  <2>4. HandlesInv' /\ Grown
    BY <2>1, <2>2, <2>3, PutIgnoredKeeps
  <2>5. LedgerInv' /\ PoolInv'
    BY <2>4, ChainStays DEF BumpPut, chainVars
  <2>6. TodoInv' /\ JobInv'
    BY <2>4, TodoShrinks, JobStays DEF BumpPut
  <2>. QED BY <2>4, <2>5, <2>6
<1>Crashes. ASSUME Crash
            PROVE  LInv'
  <2>. USE <1>Crashes
  <2>. USE DEF LInv
  <2>1. HandlesInv' /\ Grown
    BY StoreStays DEF Crash, walletVars
  <2>2. LedgerInv' /\ PoolInv'
    BY <2>1, ChainStays DEF Crash, chainVars
  <2>3. TodoInv'
    BY DEF Crash, TodoInv, Empty
  <2>4. JobInv'
    BY DEF Crash, JobInv, Carrying, Filed
  <2>. QED BY <2>1, <2>2, <2>3, <2>4
<1>Mines. ASSUME Mine \/ MineForeign
          PROVE  LInv'
  <2>. USE <1>Mines
  <2>. USE DEF LInv
  <2>1. PICK t : Mined(t) /\ OnFile(t)
    <3>1. CASE Mine
      BY <3>1 DEF Mine, PoolInv
    <3>2. CASE MineForeign
      BY SMT, <3>2, WalletRuntimeAssumption DEF MineForeign, Foreign, OnFile
    <3>. QED BY <3>1, <3>2
  <2>2. HandlesInv' /\ Grown
    BY <2>1, StoreStays DEF Mined, walletVars
  <2>3. LedgerInv'
    BY <2>1, LedgerGrows DEF Mined, walletVars
  <2>4. PoolInv'
    BY <2>1 DEF Mined, PoolInv, OnFile, walletVars
  <2>5. TodoInv' /\ JobInv'
    BY <2>1, <2>2, TodoStays, JobStays DEF Mined
  <2>. QED BY <2>2, <2>3, <2>4, <2>5
<1>. USE DEF Tasks
<1>1. ASSUME NEW p \in Senders, Send(p) PROVE LInv'
  BY <1>1, <1>SendStarts, <1>SendPersists, <1>SendSubmits, <1>SendMarks, <1>SendReleases DEF Send
<1>2. ASSUME NEW c \in Cancellers, CancelCall(c) PROVE LInv'
  BY <1>2, <1>CancelLoads, <1>CancelPoisons, <1>CancelSubmits, <1>CancelEnds DEF CancelCall
<1>3. CASE Tick \/ TickError
  BY <1>3, <1>TickLoads, <1>TickMovesOn, <1>Recovers, <1>Advances, <1>AdvancePuts, <1>Bumps, <1>BumpPuts
     DEF Tick
<1>4. CASE Crash
  BY <1>4, <1>Crashes
<1>5. CASE Mine \/ MineForeign
  BY <1>5, <1>Mines
<1>6. CASE UNCHANGED vars
  <2>1. UNCHANGED <<handles, pool, ledger, taskVars, tickVars>>
    BY <1>6 DEF vars, walletVars, chainVars
  <2>2. HandlesInv' /\ Grown
    BY <2>1, StoreStays DEF LInv
  <2>. QED BY <2>1, <2>2, ChainStays, JobStays, TodoStays DEF LInv
<1>. QED BY <1>1, <1>2, <1>3, <1>4, <1>5, <1>6 DEF Next

\* The invariant holds in every behaviour of send, cancel and tick.
THEOREM LInvHolds == Spec => []LInv
<1>. QED BY LInvInit, LInvStep, PTL DEF Spec

\* The write-ahead rule (transaction_manager.rs:527-532): whatever was broadcast
\* for an intent has its handle in the store, with the first hash in it, however
\* send, cancel, tick, crashes and failed writes interleave.
THEOREM WriteAhead == Spec => []SentIsLogged
<1>1. LInv => SentIsLogged
  <2>. USE Zenon
  <2>. SUFFICES ASSUME LInv, NEW t \in Broadcasts
                PROVE  /\ Id(t.intent, t.nonce) \in DOMAIN handles
                       /\ 0 \in handles[Id(t.intent, t.nonce)].revs
    BY DEF SentIsLogged
  <2>1. t.intent \in Intents /\ OnFile(t)
    BY DEF Broadcasts, Ours, LInv, PoolInv, LedgerInv
  <2>2. Id(t.intent, t.nonce) \in DOMAIN handles
    BY <2>1 DEF OnFile
  <2>. QED BY <2>1, <2>2 DEF LInv, HandlesInv, Fit, Id
<1>. QED BY <1>1, LInvHolds, PTL

-----------------------------------------------------------------------------
(* A live nonce is never freed *)

\* No node refuses for good a transaction that it could take.
NoRejection == "reject" \notin Faults

\* Where a send holds a nonce, and where it may still give it back.
Holding == {"persist", "submit", "sent", "failed", "release"}
MayFree == {"persist", "failed", "release"}

N(p) == job[p].id.nonce

\* The nonces that are free or may be given back; with those whose first
\* broadcast has not been answered yet.
Loose  == {n \in Nat : n \notin used \/ \E p \in Tasks : pc[p] \in MayFree /\ N(p) = n}
Unsent == Loose \cup {n \in Nat : \E p \in Tasks : pc[p] = "submit" /\ N(p) = n}

\* The nonces at which no node takes a first broadcast: consumed, or pooled for
\* a cancel.  Once so, always so.
Barred == {n \in Nat : n < Len(ledger) \/ \E t \in pool : t.nonce = n /\ ~Ours(t)}

\* A record never reported as broadcast, nor bumped.
Untouched(rec) == rec.signed = 0 /\ rec.status.kind \notin {"Sent", "Mined", "Replacing"}

\* A copy of a handle's record, in the store or in an operation's hands: with
\* an unsent nonce it is untouched, unless the chain has gone past it.
CopyOK(id, rec, unsent, len) ==
    /\ id.nonce \in Nat /\ rec.signed \in Nat
    /\ id.intent \in Intents /\ id.nonce \in unsent => id.nonce < len \/ Untouched(rec)

HoldInv ==
    /\ fresh = FALSE
    /\ \A p \in Tasks : pc[p] \in Holding => N(p) \in used /\ N(p) \in Nat
    /\ \A p, q \in Tasks : pc[p] \in Holding /\ pc[q] \in Holding /\ N(p) = N(q) => p = q

HandlesCopy == \A id \in DOMAIN handles : CopyOK(id, handles[id], Unsent, Len(ledger))
TodoCopy    == \A id \in DOMAIN todo : CopyOK(id, todo[id], Unsent, Len(ledger))
JobCopy     == \A p \in Tasks : pc[p] \in Carrying =>
                  CopyOK(job[p].id, job[p].rec, Unsent, Len(ledger)) /\ job[p].basis \in Nat

\* The handle of a nonce that may be given back, or of one that another send
\* has taken since, is behind a bar.
BarInv ==
    /\ \A id \in DOMAIN handles :
          id.intent \in Intents /\ id.nonce \in Loose => id.nonce \in Barred
    /\ \A p \in Tasks : \A id \in DOMAIN handles :
          pc[p] = "submit" /\ id.intent \in Intents /\ id.nonce = N(p) /\ id # job[p].id
              => id.nonce \in Barred

WireInv ==
    /\ \A t \in pool : t.nonce \in Nat /\ t.rev \in Nat
    /\ \A t \in pool : Ours(t) => t.nonce \notin Loose
    /\ \A p \in Tasks : \A t \in pool :
          pc[p] = "submit" /\ Ours(t) /\ t.nonce = N(p) => t = Tx(job[p].id, 0)
    /\ \A k \in 1 .. Len(ledger) :
          ledger[k].nonce = k - 1 /\ (Ours(ledger[k]) => k - 1 \notin Loose)

TickInv ==
    /\ cycle \in Nat /\ cycle <= Len(ledger)
    /\ phase \in {"escalate", "bump", "bumpPut"} =>
          \A id \in DOMAIN todo : todo[id].status.kind = "Sent"

\* The inductive invariant, beside LInv.
NInv == HoldInv /\ HandlesCopy /\ TodoCopy /\ JobCopy /\ BarInv /\ WireInv /\ TickInv

-----------------------------------------------------------------------------
(* What a step keeps if it leaves a part alone *)

\* Nonces only leave the unsent ones; the chain and its bars only grow; no
\* call comes to its first broadcast.
Narrows == Unsent' \subseteq Unsent
Shrinks == Loose' \subseteq Loose
Rises   == /\ Len(ledger) \in Nat /\ Len(ledger') \in Nat /\ Len(ledger) <= Len(ledger')
           /\ Barred \subseteq Barred'
NoneNew == \A q \in Tasks : pc'[q] = "submit" => pc[q] = "submit" /\ job'[q].id = job[q].id

LEMMA LengthIsNat ==
    ASSUME LedgerInv
    PROVE  Len(ledger) \in Nat
BY DEF LedgerInv

LEMMA CopyKeeps ==
    ASSUME NEW id, NEW rec, NEW u, NEW v, NEW l \in Nat, NEW m \in Nat,
           CopyOK(id, rec, u, l), v \subseteq u, l <= m
    PROVE  CopyOK(id, rec, v, m)
BY DEF CopyOK

LEMMA HandlesCopyStays ==
    ASSUME HandlesCopy, Narrows, Rises, UNCHANGED handles
    PROVE  HandlesCopy'
<1>. USE Zenon
<1>1. ASSUME NEW id \in DOMAIN handles
      PROVE  CopyOK(id, handles[id], Unsent', Len(ledger'))
  <2>1. CopyOK(id, handles[id], Unsent, Len(ledger))
    BY DEF HandlesCopy
  <2>. QED BY <2>1, CopyKeeps DEF Narrows, Rises
<1>. QED BY <1>1 DEF HandlesCopy

LEMMA HandlesCopyPut ==
    ASSUME NEW id, NEW rec, HandlesCopy, Narrows, Rises, Put(id, rec) \/ PutIgnored(id, rec),
           CopyOK(id, rec, Unsent', Len(ledger'))
    PROVE  HandlesCopy'
<1>. USE Zenon
<1>1. CASE UNCHANGED handles
  BY <1>1, HandlesCopyStays
<1>2. CASE Put(id, rec)
  <2>1. ASSUME NEW x \in DOMAIN handles'
        PROVE  CopyOK(x, handles'[x], Unsent', Len(ledger'))
    <3>1. CASE x = id
      BY <1>2, <3>1 DEF Put
    <3>2. CASE x # id
      <4>1. x \in DOMAIN handles /\ handles'[x] = handles[x]
        BY <1>2, <3>2 DEF Put
      <4>2. CopyOK(x, handles[x], Unsent, Len(ledger))
        BY <4>1 DEF HandlesCopy
      <4>3. CopyOK(x, handles[x], Unsent', Len(ledger'))
        BY <4>2, CopyKeeps DEF Narrows, Rises
      <4>. QED BY <4>1, <4>3
    <3>. QED BY <3>1, <3>2
  <2>. QED BY <2>1 DEF HandlesCopy
<1>. QED BY <1>1, <1>2 DEF PutIgnored

LEMMA TodoCopyStays ==
    ASSUME TodoCopy, Narrows, Rises, UNCHANGED todo \/ \E id : todo' = Without(todo, id)
    PROVE  TodoCopy'
<1>. USE Zenon
<1>1. ASSUME NEW x \in DOMAIN todo' PROVE x \in DOMAIN todo /\ todo'[x] = todo[x]
  BY DEF Without
<1>2. ASSUME NEW x \in DOMAIN todo' PROVE CopyOK(x, todo'[x], Unsent', Len(ledger'))
  <2>1. CopyOK(x, todo[x], Unsent, Len(ledger))
    BY <1>1 DEF TodoCopy
  <2>2. CopyOK(x, todo[x], Unsent', Len(ledger'))
    BY <2>1, CopyKeeps DEF Narrows, Rises
  <2>. QED BY <1>1, <2>2
<1>. QED BY <1>2 DEF TodoCopy

LEMMA TodoCopyLoads ==
    ASSUME HandlesCopy, Narrows, Rises, NEW kinds, todo' = Snapshot(kinds)
    PROVE  TodoCopy'
<1>. USE Zenon
<1>1. ASSUME NEW x \in DOMAIN todo' PROVE x \in DOMAIN handles /\ todo'[x] = handles[x]
  BY DEF Snapshot
<1>2. ASSUME NEW x \in DOMAIN todo' PROVE CopyOK(x, todo'[x], Unsent', Len(ledger'))
  <2>1. CopyOK(x, handles[x], Unsent, Len(ledger))
    BY <1>1 DEF HandlesCopy
  <2>2. CopyOK(x, handles[x], Unsent', Len(ledger'))
    BY <2>1, CopyKeeps DEF Narrows, Rises
  <2>. QED BY <1>1, <2>2
<1>. QED BY <1>2 DEF TodoCopy

LEMMA JobCopyMoves ==
    ASSUME NEW p \in Tasks, NEW l, NEW j, JobInv, JobCopy, Narrows, Rises,
           Goto(p, l),
           job' = [job EXCEPT ![p] = j] \/ (job' = job /\ j = job[p]),
           l \in Carrying => CopyOK(j.id, j.rec, Unsent', Len(ledger')) /\ j.basis \in Nat
    PROVE  JobCopy'
<1>. USE Zenon
<1>1. pc'[p] = l /\ job'[p] = j
  BY DEF JobInv, Goto
<1>2. ASSUME NEW q \in Tasks, q # p PROVE pc'[q] = pc[q] /\ job'[q] = job[q]
  BY <1>2 DEF JobInv, Goto
<1>3. ASSUME NEW q \in Tasks, pc'[q] \in Carrying
      PROVE  CopyOK(job'[q].id, job'[q].rec, Unsent', Len(ledger')) /\ job'[q].basis \in Nat
  <2>1. CASE q = p
    BY <1>1, <1>3, <2>1
  <2>2. CASE q # p
    <3>1. CopyOK(job[q].id, job[q].rec, Unsent, Len(ledger)) /\ job[q].basis \in Nat
      BY <1>2, <1>3, <2>2 DEF JobCopy
    <3>2. CopyOK(job[q].id, job[q].rec, Unsent', Len(ledger'))
      BY <3>1, CopyKeeps DEF Narrows, Rises
    <3>. QED BY <1>2, <2>2, <3>1, <3>2
  <2>. QED BY <2>1, <2>2
<1>. QED BY <1>3 DEF JobCopy

LEMMA JobCopyStays ==
    ASSUME JobCopy, Narrows, Rises, UNCHANGED taskVars
    PROVE  JobCopy'
<1>. USE Zenon
<1>1. ASSUME NEW q \in Tasks, pc[q] \in Carrying
      PROVE  CopyOK(job[q].id, job[q].rec, Unsent', Len(ledger')) /\ job[q].basis \in Nat
  <2>1. CopyOK(job[q].id, job[q].rec, Unsent, Len(ledger)) /\ job[q].basis \in Nat
    BY <1>1 DEF JobCopy
  <2>. QED BY <2>1, CopyKeeps DEF Narrows, Rises
<1>. QED BY <1>1 DEF JobCopy, taskVars

LEMMA BarStays ==
    ASSUME BarInv, Shrinks, Rises, NoneNew,
           \A id \in DOMAIN handles' : id \in DOMAIN handles \/ id.intent \notin Intents
    PROVE  BarInv'
BY Zenon DEF BarInv, Shrinks, Rises, NoneNew, N

LEMMA WireStays ==
    ASSUME WireInv, Shrinks, NoneNew, UNCHANGED <<pool, ledger>>
    PROVE  WireInv'
BY Zenon DEF WireInv, Shrinks, NoneNew, N, Ours

LEMMA ChainStill ==
    ASSUME LedgerInv, UNCHANGED <<pool, ledger>>
    PROVE  Rises
BY LengthIsNat DEF Rises, Barred, Ours

LEMMA PooledMore ==
    ASSUME LedgerInv, UNCHANGED ledger, pool \subseteq pool'
    PROVE  Rises
BY LengthIsNat DEF Rises, Barred, Ours

-----------------------------------------------------------------------------
(* Who holds which nonce *)

\* A call moves to l with locals j: it keeps the nonce it holds, or holds none.
LEMMA HolderMoves ==
    ASSUME NEW p \in Tasks, NEW l, NEW j, JobInv, HoldInv,
           Goto(p, l),
           job' = [job EXCEPT ![p] = j] \/ (job' = job /\ j = job[p]),
           UNCHANGED <<used, fresh>>,
           l \in Holding => pc[p] \in Holding /\ j.id.nonce = N(p),
           l \in MayFree \cup {"submit"} => pc[p] \in MayFree \cup {"submit"}
    PROVE  /\ HoldInv' /\ Narrows
           /\ \A n \in Loose' : n \in Loose \/ (l \in MayFree /\ pc[p] = "submit" /\ n = N(p))
<1>. USE Zenon
<1>1. pc'[p] = l /\ job'[p] = j
  BY DEF JobInv, Goto
<1>2. ASSUME NEW q \in Tasks, q # p PROVE pc'[q] = pc[q] /\ job'[q] = job[q]
  BY <1>2 DEF JobInv, Goto
<1>3. l \in MayFree \cup {"submit"} => l \in Holding
  BY DEF MayFree, Holding
<1>4. HoldInv'
  BY SMT, <1>1, <1>2 DEF HoldInv, N
<1>5. ASSUME NEW n \in Loose'
      PROVE  n \in Loose \/ (l \in MayFree /\ pc[p] = "submit" /\ n = N(p))
  BY <1>1, <1>2, <1>3 DEF Loose, N
<1>6. ASSUME NEW n \in Unsent' PROVE n \in Unsent
  <2>1. CASE n \in Loose'
    BY <1>5, <2>1, <1>3 DEF Unsent, Loose
  <2>2. CASE n \in Nat /\ \E q \in Tasks : pc'[q] = "submit" /\ job'[q].id.nonce = n
    BY <1>1, <1>2, <1>3, <2>2 DEF Unsent, Loose, N
  <2>. QED BY <2>1, <2>2 DEF Unsent, N
<1>. QED BY <1>4, <1>5, <1>6 DEF Narrows

\* A call that holds nothing afterwards, or returns.
LEMMA LetsGo ==
    ASSUME NEW p \in Tasks, NEW l, NEW j, JobInv, HoldInv,
           Goto(p, l),
           job' = [job EXCEPT ![p] = j] \/ (job' = job /\ j = job[p]),
           UNCHANGED <<used, fresh>>, l \notin Holding
    PROVE  HoldInv' /\ Narrows /\ Shrinks /\ NoneNew
<1>. USE Zenon
<1>1. l \notin MayFree /\ l # "submit"
  BY DEF MayFree, Holding
<1>2. HoldInv' /\ Narrows /\ Shrinks
  BY <1>1, HolderMoves DEF Shrinks
<1>3. pc'[p] = l
  BY DEF JobInv, Goto
<1>4. ASSUME NEW q \in Tasks, q # p PROVE pc'[q] = pc[q] /\ job'[q] = job[q]
  BY <1>4 DEF JobInv, Goto
<1>. QED BY <1>1, <1>2, <1>3, <1>4 DEF NoneNew

LEMMA Returns ==
    ASSUME NEW p \in Tasks, JobInv, HoldInv, Return(p), UNCHANGED <<used, fresh>>
    PROVE  HoldInv' /\ Narrows /\ Shrinks /\ NoneNew
<1>1. "done" \notin Holding
  BY Zenon DEF Holding
<1>. QED BY <1>1, LetsGo, Zenon DEF Return

\* No call moves, and no nonce is given back.
LEMMA HoldStays ==
    ASSUME HoldInv, UNCHANGED taskVars, used \subseteq used', fresh' = FALSE
    PROVE  HoldInv' /\ Narrows /\ Shrinks /\ NoneNew
<1>. USE Zenon
<1>1. HoldInv'
  BY DEF HoldInv, N, taskVars
<1>2. Shrinks
  BY DEF Shrinks, Loose, N, taskVars
<1>3. Narrows
  BY <1>2 DEF Shrinks, Narrows, Unsent, N, taskVars
<1>. QED BY <1>1, <1>2, <1>3 DEF NoneNew, taskVars

\* A held nonce that cannot be given back is not loose.
LEMMA HeldFast ==
    ASSUME HoldInv, NEW p \in Tasks, pc[p] \in {"submit", "sent"}
    PROVE  N(p) \notin Loose
BY Zenon DEF HoldInv, Loose, Holding, MayFree

-----------------------------------------------------------------------------
(* cancel *)

LEMMA CancelledCopy ==
    ASSUME NEW id, NEW rec, NEW b, NEW u, NEW l, CopyOK(id, rec, u, l)
    PROVE  CopyOK(id, Cancelled(rec, b), u, l)
BY Zenon DEF CopyOK, Untouched, Cancelled, Rec

\* What is not an intent's may be pooled at any nonce.
LEMMA OthersPooled ==
    ASSUME WireInv, Shrinks, NoneNew, UNCHANGED ledger, NEW tx,
           pool' = pool \/ pool' = pool \cup {tx},
           ~Ours(tx), tx.nonce \in Nat, tx.rev \in Nat
    PROVE  WireInv'
BY Zenon DEF WireInv, Shrinks, NoneNew, N, Ours

-----------------------------------------------------------------------------
(* tick *)

\* A rebroadcast, or a bump, pools nothing of ours at a nonce that is free or
\* awaits its first broadcast: an untouched record goes out at its first fee,
\* which what stands at a barred nonce outbids.
LEMMA Rebroadcasts ==
    ASSUME LInv, NInv, NEW id \in DOMAIN todo, NEW r \in Nat, NEW result,
           Submit(Tx(id, r), result), Untouched(todo[id]) => r = 0,
           UNCHANGED <<used, fresh, ledger, taskVars>>
    PROVE  WireInv' /\ Rises
<1>. USE Zenon
<1>. USE DEF LInv, NInv
<1>. DEFINE tx == Tx(id, r)
<1>1. pool' = pool \/ (pool' = pool \cup {tx} /\ tx.nonce >= Len(ledger) /\ ~Underpriced(tx))
  BY DEF Submit
<1>2. HoldInv' /\ Shrinks /\ NoneNew /\ fresh' = FALSE
  <2>1. used \subseteq used' /\ fresh' = FALSE
    BY DEF HoldInv
  <2>. QED BY <2>1, HoldStays
<1>3. Rises
  BY <1>1, PooledMore
<1>4. IsId(id) /\ CopyOK(id, todo[id], Unsent, Len(ledger)) /\ id \in DOMAIN handles
  BY DEF TodoInv, HandlesInv, TodoCopy
<1>5. tx.nonce = id.nonce /\ tx.intent = id.intent /\ tx.rev = r /\ id.nonce \in Nat
  BY <1>4 DEF Tx, CopyOK
<1>6. CASE pool' = pool
  BY <1>2, <1>3, <1>6, WireStays
<1>7. CASE ~Ours(tx)
  BY <1>1, <1>2, <1>3, <1>5, <1>7, OthersPooled
<1>8. CASE Ours(tx) /\ pool' = pool \cup {tx} /\ tx.nonce >= Len(ledger) /\ ~Underpriced(tx)
  <2>1. id.intent \in Intents /\ ~(id.nonce < Len(ledger))
    BY SMT, <1>5, <1>8, LengthIsNat DEF Ours
  <2>2. ASSUME id.nonce \in Barred, r = 0 PROVE FALSE
    <3>1. PICK t \in pool : t.nonce = id.nonce /\ ~Ours(t)
      BY <2>1, <2>2 DEF Barred
    <3>2. t # tx /\ t.rev >= tx.rev
      <4>1. t.rev \in Nat /\ tx.rev = 0
        BY <1>5, <2>2, <3>1 DEF WireInv
      <4>2. t # tx
        BY <1>8, <3>1
      <4>. QED BY SMT, <4>1, <4>2
    <3>. QED BY <1>5, <1>8, <3>1, <3>2 DEF Underpriced
  <2>3. id.nonce \in Unsent => r = 0
    BY <1>4, <2>1 DEF CopyOK
  <2>4. id.nonce \notin Loose
    BY <1>4, <2>1, <2>2, <2>3 DEF BarInv, Unsent
  <2>5. ASSUME NEW p \in Tasks, pc[p] = "submit", id.nonce = N(p)
        PROVE  tx = Tx(job[p].id, 0)
    <3>1. r = 0
      BY <1>5, <2>3, <2>5 DEF Unsent
    <3>2. id = job[p].id
      BY <1>4, <2>1, <2>2, <2>5, <3>1 DEF BarInv
    <3>. QED BY <3>1, <3>2
  <2>. HIDE DEF tx
  <2>6. \A t \in pool' : t.nonce \in Nat /\ t.rev \in Nat /\ (Ours(t) => t.nonce \notin Loose')
    BY <1>2, <1>5, <1>8, <2>4 DEF WireInv, Shrinks
  <2>7. ASSUME NEW p \in Tasks, NEW t \in pool', pc[p] = "submit", Ours(t), t.nonce = N(p)
        PROVE  t = Tx(job[p].id, 0)
    BY <1>5, <1>8, <2>5, <2>7 DEF WireInv
  <2>8. WireInv'
    BY <1>2, <2>6, <2>7 DEF WireInv, Shrinks, Ours, N, taskVars
  <2>. QED BY <1>3, <2>8
<1>. QED BY <1>1, <1>3, <1>6, <1>7, <1>8

\* The tick's own part, when it goes on with the same handles or fewer.
LEMMA TickGoesOn ==
    ASSUME TickInv, Rises, cycle' \in {0, cycle},
           UNCHANGED todo \/ \E id : todo' = Without(todo, id),
           phase' \in {"escalate", "bump", "bumpPut"} => phase \in {"escalate", "bump", "bumpPut"}
    PROVE  TickInv'
<1>. USE Zenon
<1>1. ASSUME NEW x \in DOMAIN todo' PROVE x \in DOMAIN todo /\ todo'[x] = todo[x]
  BY DEF Without
<1>2. cycle' \in Nat /\ cycle' <= Len(ledger')
  BY SMT DEF TickInv, Rises
<1>. QED BY <1>1, <1>2 DEF TickInv

\* Only a consumed nonce gives a record that was never broadcast a status of one
\* that was.
LEMMA AdvancedCopy ==
    ASSUME LedgerInv, TickInv, NEW id, NEW rec, CopyOK(id, rec, Unsent, Len(ledger))
    PROVE  CopyOK(id, WithStatus(rec, NextStatus(id, rec)), Unsent, Len(ledger))
<1>. USE Zenon
<1>. DEFINE s == NextStatus(id, rec)
            new == WithStatus(rec, s)
<1>1. new.signed = rec.signed /\ new.status = s
  BY DEF WithStatus, Rec
<1>2. ASSUME id.intent \in Intents, id.nonce \in Unsent, ~(id.nonce < Len(ledger))
      PROVE  Untouched(new)
  <2>1. Untouched(rec) /\ id.nonce \in Nat
    BY <1>2 DEF CopyOK
  <2>2. ~(id.nonce < cycle)
    BY SMT, <1>2, <2>1, LengthIsNat DEF TickInv
  <2>3. EventFor(id, rec) = Event("Pending", 0, 0, FALSE)
    BY <1>2, <2>2 DEF EventFor
  <2>4. EventFor(id, rec).kind = "Pending"
    BY SMT, <2>3 DEF Event
  <2>5. Transition(rec.status, EventFor(id, rec), OneConfirmation, 1) = rec.status
    BY <2>1, <2>4 DEF Transition, OnPending, Untouched
  <2>6. s = rec.status \/ s = Plain("Dropped")
    BY <2>5 DEF NextStatus
  <2>7. s.kind \notin {"Sent", "Mined", "Replacing"}
    <3>1. Plain("Dropped").kind = "Dropped"
      BY DEF Plain, Status
    <3>2. "Dropped" \notin {"Sent", "Mined", "Replacing"}
      OBVIOUS
    <3>. HIDE DEF s
    <3>. QED BY <2>1, <2>6, <3>1, <3>2 DEF Untouched
  <2>. HIDE DEF s, new
  <2>. QED BY <1>1, <2>1, <2>7 DEF Untouched
<1>. HIDE DEF s, new
<1>3. CopyOK(id, new, Unsent, Len(ledger))
  BY <1>1, <1>2 DEF CopyOK
<1>. QED BY <1>3 DEF new, s

-----------------------------------------------------------------------------
(* The theorem *)

LEMMA NInvInit == Init => NInv
<1>. USE Zenon
<1>. SUFFICES ASSUME Init PROVE NInv
  OBVIOUS
<1>1. /\ fresh = FALSE /\ handles = Empty /\ todo = Empty /\ pool = {} /\ Len(ledger) = 0
      /\ \A q \in Tasks : pc[q] \in {"new", "done"}
      /\ cycle = 0 /\ phase = "idle"
  BY DEF Init
<1>2. HoldInv /\ JobCopy
  BY <1>1 DEF HoldInv, Holding, JobCopy, Carrying
<1>3. WireInv
  <2>1. pool = {} /\ 1 .. Len(ledger) = {}
    BY SMT, <1>1
  <2>. QED BY <2>1 DEF WireInv
<1>4. TickInv
  BY SMT, <1>1 DEF TickInv
<1>5. HandlesCopy /\ TodoCopy /\ BarInv
  BY <1>1 DEF HandlesCopy, TodoCopy, BarInv, Empty
<1>. QED BY <1>2, <1>3, <1>4, <1>5 DEF NInv

LEMMA NInvStep ==
    ASSUME NoRejection, LInv, NInv
    PROVE  [Next]_vars => NInv'
<1>. USE Zenon
<1>NSendStarts. ASSUME NEW p \in Tasks, SendPreflight(p)
                PROVE  NInv'
  <2>. USE <1>NSendStarts
  <2>. USE DEF LInv, NInv
  <2>1. UNCHANGED <<used, fresh, handles, pool, ledger, todo, phase, cycle>>
    BY DEF SendPreflight, walletVars, chainVars, tickVars
  <2>2. "allocate" \notin Holding /\ "allocate" \notin Carrying /\ "done" \notin Carrying
    BY DEF Holding, Carrying
  <2>3. PICK l, j : /\ Goto(p, l) /\ l \notin Holding /\ l \notin Carrying
                    /\ job' = [job EXCEPT ![p] = j] \/ (job' = job /\ j = job[p])
    <3>1. CASE Return(p)
      BY <2>2, <3>1 DEF Return, Holding
    <3>2. CASE Goto(p, "allocate") /\ UNCHANGED job
      BY <2>2, <3>2
    <3>. QED BY <3>1, <3>2 DEF SendPreflight
  <2>4. HoldInv' /\ Narrows /\ Shrinks /\ NoneNew
    BY <2>1, <2>3, LetsGo
  <2>5. Rises
    BY <2>1, ChainStill
  <2>6. HandlesCopy' /\ TodoCopy'
    BY <2>1, <2>4, <2>5, HandlesCopyStays, TodoCopyStays
  <2>7. JobCopy'
    BY <2>3, <2>4, <2>5, JobCopyMoves
  <2>8. BarInv' /\ WireInv'
    BY <2>1, <2>4, <2>5, BarStays, WireStays
  <2>9. TickInv'
    BY <2>1 DEF TickInv
  <2>. QED BY <2>4, <2>6, <2>7, <2>8, <2>9
\* The nonce taken was free, so nothing of ours is out under it.
<1>NSendAllocates. ASSUME NEW p \in Tasks, SendAllocate(p)
                   PROVE  NInv'
  <2>. USE <1>NSendAllocates
  <2>. USE DEF LInv, NInv
  <2>1. UNCHANGED <<handles, pool, ledger, todo, phase, cycle>>
    BY DEF SendAllocate, chainVars, tickVars
  <2>2. pc[p] = "allocate"
    BY DEF SendAllocate
  <2>3. Rises
    BY <2>1, ChainStill
  <2>4. TickInv'
    BY <2>1 DEF TickInv
  <2>5. CASE Return(p) /\ UNCHANGED <<used, fresh>>
    <3>1. HoldInv' /\ Narrows /\ Shrinks /\ NoneNew
      BY <2>5, Returns
    <3>2. HandlesCopy' /\ TodoCopy'
      BY <2>1, <2>3, <3>1, HandlesCopyStays, TodoCopyStays
    <3>3. "done" \notin Carrying
      BY DEF Carrying
    <3>4. JobCopy'
      BY <2>3, <2>5, <3>1, <3>3, JobCopyMoves DEF Return
    <3>5. BarInv' /\ WireInv'
      BY <2>1, <2>3, <3>1, BarStays, WireStays
    <3>. QED BY <2>4, <3>1, <3>2, <3>4, <3>5
  <2>6. CASE ~(Return(p) /\ UNCHANGED <<used, fresh>>)
    <3>1. PICK n \in 0 .. MaxNonce :
             /\ AAllocate(n)
             /\ job' = [job EXCEPT ![p] =
                   Job(Id(Intent(p), n), Rec(Plain("Pending"), FALSE, {0}, 0), 0, FALSE)]
             /\ Goto(p, "persist")
      BY <2>6 DEF SendAllocate
    <3>. DEFINE j == Job(Id(Intent(p), n), Rec(Plain("Pending"), FALSE, {0}, 0), 0, FALSE)
    <3>2. n \in Nat /\ n \notin used /\ used' = used \cup {n} /\ fresh' = FALSE
      BY SMT, <3>1 DEF AAllocate, HoldInv
    <3>3. /\ j.id.nonce = n /\ j.rec.signed = 0 /\ j.rec.status.kind = "Pending" /\ j.basis = 0
          /\ job' = [job EXCEPT ![p] = j]
      BY <3>1 DEF Job, Id, Rec, Plain, Status
    <3>. HIDE DEF j
    <3>4. pc'[p] = "persist" /\ job'[p] = j
      BY <3>1, <3>3 DEF JobInv, Goto
    <3>5. ASSUME NEW q \in Tasks, q # p PROVE pc'[q] = pc[q] /\ job'[q] = job[q]
      BY <3>1, <3>3, <3>5 DEF JobInv, Goto
    <3>6. HoldInv'
      BY SMT, <3>2, <3>3, <3>4, <3>5 DEF HoldInv, N
    <3>7. Shrinks
      BY SMT, <2>2, <3>2, <3>3, <3>4, <3>5 DEF Shrinks, Loose, N, MayFree
    <3>8. Narrows /\ NoneNew
      BY <3>4, <3>5, <3>7 DEF Shrinks, Narrows, NoneNew, Unsent, N
    <3>9. HandlesCopy' /\ TodoCopy'
      BY <2>1, <2>3, <3>8, HandlesCopyStays, TodoCopyStays
    <3>10. CopyOK(j.id, j.rec, Unsent', Len(ledger')) /\ j.basis \in Nat
      BY SMT, <3>2, <3>3 DEF CopyOK, Untouched
    <3>11. JobCopy'
      BY <2>3, <3>1, <3>3, <3>8, <3>10, JobCopyMoves
    <3>12. BarInv' /\ WireInv'
      BY <2>1, <2>3, <3>7, <3>8, BarStays, WireStays
    <3>. QED BY <2>4, <3>6, <3>9, <3>11, <3>12
  <2>. QED BY <2>5, <2>6
\* Another intent's handle at this nonce is from a send that gave it back, so
\* it is behind a bar, and it stays there.
<1>NSendPersists. ASSUME NEW p \in Tasks, SendPersist(p)
                  PROVE  NInv'
  <2>. USE <1>NSendPersists
  <2>. USE DEF LInv, NInv
  <2>1. UNCHANGED <<used, fresh, job, pool, ledger, todo, phase, cycle>>
    BY DEF SendPersist, chainVars, tickVars
  <2>2. pc[p] = "persist" /\ pc[p] \in MayFree /\ pc[p] \in Holding /\ pc[p] \in Carrying
    BY DEF SendPersist, MayFree, Holding, Carrying
  <2>3. Rises
    BY <2>1, ChainStill
  <2>4. TickInv'
    BY <2>1 DEF TickInv
  <2>5. CopyOK(job[p].id, job[p].rec, Unsent, Len(ledger)) /\ job[p].basis \in Nat
    BY <2>2 DEF JobCopy
  <2>6. CASE Put(job[p].id, job[p].rec) /\ Goto(p, "submit")
    <3>1. /\ HoldInv' /\ Narrows
          /\ \A n \in Loose' : n \in Loose \/ ("submit" \in MayFree /\ pc[p] = "submit" /\ n = N(p))
      BY <2>1, <2>2, <2>6, HolderMoves DEF N
    <3>2. Shrinks
      BY <2>2, <3>1 DEF Shrinks
    <3>3. CopyOK(job[p].id, job[p].rec, Unsent', Len(ledger'))
      BY <2>3, <2>5, <3>1, CopyKeeps DEF Narrows, Rises
    <3>4. HandlesCopy' /\ TodoCopy'
      BY <2>1, <2>3, <2>6, <3>1, <3>3, HandlesCopyPut, TodoCopyStays
    <3>5. JobCopy'
      BY <2>1, <2>3, <2>5, <2>6, <3>1, <3>3, JobCopyMoves
    <3>6. pc'[p] = "submit" /\ \A q \in Tasks : q # p => pc'[q] = pc[q]
      BY <2>6 DEF JobInv, Goto
    <3>7. N(p) \in Nat /\ N(p) \in Loose /\ N(p) \notin Loose'
      <4>1. N(p) \in Nat /\ N(p) \in Loose
        BY <2>2 DEF HoldInv, Loose
      <4>2. ASSUME N(p) \in Loose' PROVE FALSE
        <5>1. PICK q \in Tasks : pc'[q] \in MayFree /\ job'[q].id.nonce = N(p)
          BY <2>1, <2>2, <4>2 DEF Loose, HoldInv, N
        <5>2. q # p /\ pc[q] \in MayFree /\ N(q) = N(p)
          BY <2>1, <3>6, <5>1 DEF MayFree, N
        <5>3. pc[q] \in Holding
          BY <5>2 DEF MayFree, Holding
        <5>. QED BY <2>2, <5>2, <5>3 DEF HoldInv
      <4>. QED BY <4>1, <4>2
    <3>8. DOMAIN handles' = DOMAIN handles \cup {job[p].id}
      BY <2>6 DEF Put
    <3>9. ASSUME NEW id \in DOMAIN handles', id.intent \in Intents, id.nonce \in Loose'
          PROVE  id.nonce \in Barred'
      BY <2>3, <3>2, <3>7, <3>8, <3>9 DEF BarInv, Shrinks, Rises, N
    <3>10. ASSUME NEW q \in Tasks, NEW id \in DOMAIN handles', pc'[q] = "submit",
                  id.intent \in Intents, id.nonce = N(q), id # job[q].id
           PROVE  id.nonce \in Barred'
      <4>1. CASE q = p
        BY <2>3, <3>7, <3>8, <3>10, <4>1 DEF BarInv, Rises
      <4>2. CASE q # p
        <5>1. pc[q] = "submit" /\ pc[q] \in Holding
          BY <3>6, <3>10, <4>2 DEF Holding
        <5>2. id # job[p].id
          BY <2>2, <3>10, <4>2, <5>1 DEF HoldInv, N
        <5>. QED BY <2>3, <3>8, <3>10, <5>1, <5>2 DEF BarInv, Rises
      <4>. QED BY <4>1, <4>2
    <3>11. BarInv'
      BY <2>1, <3>9, <3>10 DEF BarInv, N
    <3>12. WireInv'
      BY <2>1, <3>2, <3>6, <3>7 DEF WireInv, Shrinks, Ours, N
    <3>. QED BY <2>4, <3>1, <3>4, <3>5, <3>11, <3>12
  <2>7. CASE Goto(p, "release") /\ UNCHANGED handles
    <3>1. /\ HoldInv' /\ Narrows
          /\ \A n \in Loose' : n \in Loose \/ ("release" \in MayFree /\ pc[p] = "submit" /\ n = N(p))
      BY <2>1, <2>2, <2>7, HolderMoves DEF N
    <3>2. Shrinks
      BY <2>2, <3>1 DEF Shrinks
    <3>3. HandlesCopy' /\ TodoCopy'
      BY <2>1, <2>3, <2>7, <3>1, HandlesCopyStays, TodoCopyStays
    <3>4. "release" \notin Carrying
      BY DEF Carrying
    <3>5. JobCopy'
      BY <2>1, <2>3, <2>7, <3>1, <3>4, JobCopyMoves
    <3>6. NoneNew
      BY <2>1, <2>7 DEF NoneNew, JobInv, Goto
    <3>7. BarInv' /\ WireInv'
      BY <2>1, <2>3, <2>7, <3>2, <3>6, BarStays, WireStays
    <3>. QED BY <2>4, <3>1, <3>3, <3>5, <3>7
  <2>. QED BY <2>6, <2>7 DEF SendPersist
\* A first broadcast that no node takes was outbid by a cancel: an intent's
\* own transaction at this nonce would be this very one.
<1>NSendSubmits. ASSUME NEW p \in Tasks, SendSubmit(p)
                 PROVE  NInv'
  <2>. USE <1>NSendSubmits
  <2>. USE DEF LInv, NInv
  <2>. DEFINE tx == Tx(job[p].id, 0)
  <2>1. UNCHANGED <<used, fresh, handles, job, ledger, todo, phase, cycle>>
    BY DEF SendSubmit, walletVars, tickVars
  <2>2. pc[p] = "submit" /\ pc[p] \in Holding /\ pc[p] \in Carrying
    BY DEF SendSubmit, Holding, Carrying
  <2>3. PICK result : Submit(tx, result) /\ Goto(p, SubmitOutcome(result))
    BY DEF SendSubmit
  <2>4. TickInv'
    BY <2>1 DEF TickInv
  <2>5. CopyOK(job[p].id, job[p].rec, Unsent, Len(ledger)) /\ job[p].basis \in Nat
    BY <2>2 DEF JobCopy
  <2>6. tx.nonce = N(p) /\ tx.rev = 0 /\ N(p) \in Nat
    BY <2>2 DEF Tx, N, HoldInv
  <2>7. pool' = pool \/ pool' = pool \cup {tx}
    BY <2>3 DEF Submit
  <2>8. Rises
    BY <2>1, <2>7, PooledMore
  <2>9. NoneNew
    BY <2>1, <2>3 DEF NoneNew, JobInv, Goto, SubmitOutcome
  <2>. HIDE DEF tx
  <2>10. CASE SubmitOutcome(result) = "sent"
    <3>1. "sent" \notin MayFree \cup {"submit"} /\ "sent" \notin MayFree
      BY DEF MayFree
    <3>2. /\ HoldInv' /\ Narrows
          /\ \A n \in Loose' : n \in Loose \/ ("sent" \in MayFree /\ pc[p] = "submit" /\ n = N(p))
      BY <2>1, <2>2, <2>3, <2>10, <3>1, HolderMoves DEF N
    <3>3. Shrinks
      BY <3>1, <3>2 DEF Shrinks
    <3>4. HandlesCopy' /\ TodoCopy' /\ BarInv'
      BY <2>1, <2>8, <2>9, <3>2, <3>3, HandlesCopyStays, TodoCopyStays, BarStays
    <3>5. CopyOK(job[p].id, job[p].rec, Unsent', Len(ledger'))
      BY <2>5, <2>8, <3>2, CopyKeeps DEF Narrows, Rises
    <3>6. JobCopy'
      BY <2>1, <2>3, <2>5, <2>8, <2>10, <3>2, <3>5, JobCopyMoves
    <3>7. N(p) \notin Loose'
      BY <2>2, <3>3, HeldFast DEF Shrinks
    <3>8. \A t \in pool' : t.nonce \in Nat /\ t.rev \in Nat /\ (Ours(t) => t.nonce \notin Loose')
      <4>1. /\ \A t \in pool : t.nonce \in Nat /\ t.rev \in Nat
            /\ \A t \in pool : Ours(t) => t.nonce \notin Loose
        BY DEF WireInv
      <4>2. tx.nonce \in Nat /\ tx.rev \in Nat /\ tx.nonce \notin Loose'
        BY SMT, <2>6, <3>7
      <4>. QED BY <2>7, <3>3, <4>1, <4>2 DEF Shrinks
    <3>9. ASSUME NEW q \in Tasks, NEW t \in pool', pc'[q] = "submit", Ours(t), t.nonce = N(q)
          PROVE  t = Tx(job[q].id, 0)
      <4>1. q # p
        BY <2>3, <2>10, <3>9 DEF JobInv, Goto
      <4>2. pc[q] = "submit" /\ pc[q] \in Holding
        BY <2>9, <3>9 DEF NoneNew, Holding
      <4>3. t # tx
        BY <2>2, <2>6, <3>9, <4>1, <4>2 DEF HoldInv
      <4>. QED BY <2>7, <3>9, <4>2, <4>3 DEF WireInv
    <3>10. WireInv'
      BY <2>1, <3>3, <3>8, <3>9 DEF WireInv, Shrinks, Ours, N
    <3>. QED BY <2>4, <3>2, <3>4, <3>6, <3>10
  <2>11. CASE SubmitOutcome(result) = "failed"
    <3>1. /\ tx.nonce >= Len(ledger) /\ tx \notin pool /\ Underpriced(tx) /\ UNCHANGED pool
      BY <2>3, <2>11 DEF Submit, SubmitOutcome, NoRejection, Fault
    <3>2. "failed" \in Holding /\ "failed" \in MayFree /\ pc[p] \in MayFree \cup {"submit"}
      BY <2>2 DEF Holding, MayFree
    <3>3. /\ HoldInv' /\ Narrows
          /\ \A n \in Loose' : n \in Loose \/ ("failed" \in MayFree /\ pc[p] = "submit" /\ n = N(p))
      BY <2>1, <2>2, <2>3, <2>11, <3>2, HolderMoves DEF N
    <3>4. HandlesCopy' /\ TodoCopy'
      BY <2>1, <2>8, <3>3, HandlesCopyStays, TodoCopyStays
    <3>5. CopyOK(job[p].id, job[p].rec, Unsent', Len(ledger'))
      BY <2>5, <2>8, <3>3, CopyKeeps DEF Narrows, Rises
    <3>6. JobCopy'
      BY <2>1, <2>3, <2>5, <2>8, <2>11, <3>3, <3>5, JobCopyMoves
    <3>7. ASSUME NEW t \in pool, Ours(t) PROVE t.nonce # N(p)
      BY <2>2, <3>1, <3>7 DEF WireInv, tx
    <3>8. N(p) \in Barred
      <4>1. PICK t \in pool : t.nonce = tx.nonce
        BY <3>1 DEF Underpriced
      <4>. QED BY <2>6, <3>7, <4>1 DEF Barred
    <3>9. BarInv'
      BY <2>1, <2>8, <2>9, <3>3, <3>8 DEF BarInv, Rises, NoneNew, N
    <3>10. ASSUME NEW k \in 1 .. Len(ledger) PROVE k - 1 # N(p)
      BY SMT, <2>6, <3>1, LengthIsNat
    <3>11. WireInv'
      BY <2>1, <2>9, <3>1, <3>3, <3>7, <3>10 DEF WireInv, NoneNew, Ours, N
    <3>. QED BY <2>4, <3>3, <3>4, <3>6, <3>9, <3>11
  <2>. QED BY <2>10, <2>11 DEF SubmitOutcome
\* Whoever marks a handle Sent has broadcast it, and holds its nonce for good.
<1>NSendMarksSent. ASSUME NEW p \in Tasks, SendMarkSent(p)
                   PROVE  NInv'
  <2>. USE <1>NSendMarksSent
  <2>. USE DEF LInv, NInv
  <2>1. UNCHANGED <<used, fresh, pool, ledger, todo, phase, cycle>> /\ Return(p)
    BY DEF SendMarkSent, chainVars, tickVars
  <2>2. pc[p] = "sent" /\ pc[p] \in Holding /\ pc[p] \in Carrying /\ pc[p] \in Filed
    BY DEF SendMarkSent, Holding, Carrying, Filed
  <2>3. Rises /\ TickInv'
    BY <2>1, ChainStill DEF TickInv
  <2>4. HoldInv' /\ Narrows /\ Shrinks /\ NoneNew
    BY <2>1, Returns
  <2>5. N(p) \notin Unsent
    <3>1. ASSUME NEW q \in Tasks, pc[q] = "submit" PROVE N(q) # N(p)
      BY <2>2, <3>1 DEF HoldInv, Holding
    <3>. QED BY <2>2, <3>1, HeldFast DEF Unsent
  <2>. DEFINE rec == WithStatus(job[p].rec, Plain("Sent"))
  <2>6. CopyOK(job[p].id, rec, Unsent', Len(ledger'))
    BY <2>2, <2>4, <2>5 DEF JobCopy, CopyOK, Narrows, N, WithStatus, Rec
  <2>7. PutIgnored(job[p].id, rec)
    BY DEF SendMarkSent
  <2>. HIDE DEF rec
  <2>8. HandlesCopy' /\ TodoCopy'
    BY <2>1, <2>3, <2>4, <2>6, <2>7, HandlesCopyPut, TodoCopyStays
  <2>9. "done" \notin Carrying
    BY DEF Carrying
  <2>10. JobCopy'
    BY <2>1, <2>3, <2>4, <2>9, JobCopyMoves DEF Return
  <2>11. DOMAIN handles' = DOMAIN handles
    BY <2>2, <2>7 DEF JobInv, PutIgnored, Put
  <2>12. BarInv' /\ WireInv'
    BY <2>1, <2>3, <2>4, <2>11, BarStays, WireStays
  <2>. QED BY <2>3, <2>4, <2>8, <2>10, <2>12
<1>NSendMarksFailed. ASSUME NEW p \in Tasks, SendMarkFailed(p)
                     PROVE  NInv'
  <2>. USE <1>NSendMarksFailed
  <2>. USE DEF LInv, NInv
  <2>1. UNCHANGED <<used, fresh, job, pool, ledger, todo, phase, cycle>> /\ Goto(p, "release")
    BY DEF SendMarkFailed, chainVars, tickVars
  <2>2. /\ pc[p] = "failed" /\ pc[p] \in Holding /\ pc[p] \in MayFree
        /\ pc[p] \in Carrying /\ pc[p] \in Filed
    BY DEF SendMarkFailed, Holding, MayFree, Carrying, Filed
  <2>3. Rises /\ TickInv'
    BY <2>1, ChainStill DEF TickInv
  <2>4. /\ HoldInv' /\ Narrows
        /\ \A n \in Loose' : n \in Loose \/ ("release" \in MayFree /\ pc[p] = "submit" /\ n = N(p))
    BY <2>1, <2>2, HolderMoves DEF N
  <2>5. Shrinks /\ NoneNew
    BY <2>1, <2>2, <2>4 DEF Shrinks, NoneNew, JobInv, Goto
  <2>. DEFINE rec == WithStatus(job[p].rec, Plain("Failed"))
  <2>6. CopyOK(job[p].id, rec, Unsent', Len(ledger'))
    BY <2>1, <2>2, <2>4
       DEF JobCopy, CopyOK, Untouched, Narrows, WithStatus, Rec, Plain, Status
  <2>7. PutIgnored(job[p].id, rec)
    BY DEF SendMarkFailed
  <2>. HIDE DEF rec
  <2>8. HandlesCopy' /\ TodoCopy'
    BY <2>1, <2>3, <2>4, <2>6, <2>7, HandlesCopyPut, TodoCopyStays
  <2>9. "release" \notin Carrying
    BY DEF Carrying
  <2>10. JobCopy'
    BY <2>1, <2>3, <2>4, <2>9, JobCopyMoves
  <2>11. DOMAIN handles' = DOMAIN handles
    BY <2>2, <2>7 DEF JobInv, PutIgnored, Put
  <2>12. BarInv' /\ WireInv'
    BY <2>1, <2>3, <2>5, <2>11, BarStays, WireStays
  <2>. QED BY <2>3, <2>4, <2>8, <2>10, <2>12
\* Only this call's nonce goes back, and it was one that may.
<1>NSendReleases. ASSUME NEW p \in Tasks, SendRelease(p)
                  PROVE  NInv'
  <2>. USE <1>NSendReleases
  <2>. USE DEF LInv, NInv
  <2>1. UNCHANGED <<handles, pool, ledger, todo, phase, cycle>> /\ Return(p)
    BY DEF SendRelease, chainVars, tickVars
  <2>2. pc[p] = "release" /\ pc[p] \in Holding /\ pc[p] \in MayFree
    BY DEF SendRelease, Holding, MayFree
  <2>3. Rises /\ TickInv'
    BY <2>1, ChainStill DEF TickInv
  <2>4. used' = used \ {N(p)} /\ fresh' = FALSE
    BY <2>2 DEF SendRelease, HoldInv, ARelease, N
  <2>5. pc'[p] = "done" /\ \A q \in Tasks : q # p => pc'[q] = pc[q] /\ job'[q] = job[q]
    BY <2>1 DEF Return, Goto, JobInv
  <2>6. "done" \notin Holding /\ "done" \notin MayFree /\ "done" \notin Carrying
    BY DEF Holding, MayFree, Carrying
  <2>7. HoldInv'
    <3>1. ASSUME NEW q \in Tasks, pc'[q] \in Holding
          PROVE  q # p /\ pc[q] \in Holding /\ N(q)' = N(q)
      BY <2>5, <2>6, <3>1 DEF N
    <3>2. ASSUME NEW q \in Tasks, pc'[q] \in Holding
          PROVE  N(q)' \in used' /\ N(q)' \in Nat
      BY <2>2, <2>4, <3>1, <3>2 DEF HoldInv
    <3>. QED BY <2>4, <3>1, <3>2 DEF HoldInv
  <2>8. Shrinks /\ NoneNew
    BY <2>2, <2>4, <2>5, <2>6 DEF Shrinks, NoneNew, Loose, N
  <2>9. Narrows
    BY <2>5, <2>8 DEF Shrinks, Narrows, Unsent, N
  <2>10. HandlesCopy' /\ TodoCopy'
    BY <2>1, <2>3, <2>9, HandlesCopyStays, TodoCopyStays
  <2>11. JobCopy'
    BY <2>1, <2>3, <2>6, <2>9, JobCopyMoves DEF Return
  <2>12. BarInv' /\ WireInv'
    BY <2>1, <2>3, <2>8, BarStays, WireStays
  <2>. QED BY <2>3, <2>7, <2>10, <2>11, <2>12
<1>NCancelLoads. ASSUME NEW c \in Tasks, CancelLoad(c)
                 PROVE  NInv'
  <2>. USE <1>NCancelLoads
  <2>. USE DEF LInv, NInv
  <2>1. UNCHANGED <<used, fresh, handles, pool, ledger, todo, phase, cycle>>
    BY DEF CancelLoad, walletVars, chainVars, tickVars
  <2>2. Rises /\ TickInv'
    BY <2>1, ChainStill DEF TickInv
  <2>3. "poison" \notin Holding /\ "done" \notin Carrying
    BY DEF Holding, Carrying
  <2>4. HoldInv' /\ Narrows /\ Shrinks /\ NoneNew /\ JobCopy'
    <3>1. CASE Return(c)
      <4>1. HoldInv' /\ Narrows /\ Shrinks /\ NoneNew
        BY <2>1, <3>1, Returns
      <4>. QED BY <2>2, <2>3, <3>1, <4>1, JobCopyMoves DEF Return
    <3>2. CASE ~Return(c)
      <4>1. PICK id \in DOMAIN handles :
               /\ job' = [job EXCEPT ![c] = Job(id, handles[id], handles[id].signed, FALSE)]
               /\ Goto(c, "poison")
        BY <3>2 DEF CancelLoad
      <4>. DEFINE j == Job(id, handles[id], handles[id].signed, FALSE)
      <4>2. j.id = id /\ j.rec = handles[id] /\ j.basis = handles[id].signed
        BY DEF Job
      <4>3. job' = [job EXCEPT ![c] = j]
        BY <4>1
      <4>. HIDE DEF j
      <4>4. HoldInv' /\ Narrows /\ Shrinks /\ NoneNew
        BY <2>1, <2>3, <4>1, <4>3, LetsGo
      <4>5. CopyOK(id, handles[id], Unsent, Len(ledger)) /\ handles[id].signed \in Nat
        BY DEF HandlesCopy, CopyOK
      <4>6. CopyOK(j.id, j.rec, Unsent', Len(ledger')) /\ j.basis \in Nat
        BY <2>2, <4>2, <4>4, <4>5, CopyKeeps DEF Narrows, Rises
      <4>. QED BY <2>2, <4>1, <4>3, <4>4, <4>6, JobCopyMoves
    <3>. QED BY <3>1, <3>2
  <2>5. HandlesCopy' /\ TodoCopy'
    BY <2>1, <2>2, <2>4, HandlesCopyStays, TodoCopyStays
  <2>6. BarInv' /\ WireInv'
    BY <2>1, <2>2, <2>4, BarStays, WireStays
  <2>. QED BY <2>2, <2>4, <2>5, <2>6
<1>NCancelPoisons. ASSUME NEW c \in Tasks, CancelPoison(c)
                   PROVE  NInv'
  <2>. USE <1>NCancelPoisons
  <2>. USE DEF LInv, NInv
  <2>1. UNCHANGED <<used, fresh, pool, ledger, todo, phase, cycle>>
    BY DEF CancelPoison, chainVars, tickVars
  <2>2. Rises /\ TickInv'
    BY <2>1, ChainStill DEF TickInv
  <2>3. /\ pc[c] \in Carrying /\ pc[c] \in Filed
        /\ "cancel" \notin Holding /\ "done" \notin Carrying
    BY DEF CancelPoison, Holding, Carrying, Filed
  <2>. DEFINE rec == Cancelled(job[c].rec, TRUE)
  <2>4. CopyOK(job[c].id, rec, Unsent, Len(ledger)) /\ job[c].basis \in Nat
    BY <2>3, CancelledCopy DEF JobCopy
  <2>5. /\ HoldInv' /\ Narrows /\ Shrinks /\ NoneNew /\ JobCopy' /\ HandlesCopy'
        /\ DOMAIN handles' = DOMAIN handles
    <3>1. CASE Return(c) /\ UNCHANGED handles
      <4>1. HoldInv' /\ Narrows /\ Shrinks /\ NoneNew
        BY <2>1, <3>1, Returns
      <4>2. HandlesCopy'
        BY <2>2, <3>1, <4>1, HandlesCopyStays
      <4>. QED BY <2>2, <2>3, <3>1, <4>1, <4>2, JobCopyMoves DEF Return
    <3>2. CASE /\ Put(job[c].id, rec) /\ Goto(c, "cancel")
               /\ job' = [job EXCEPT ![c] = Job(@.id, rec, @.basis, FALSE)]
      <4>. DEFINE j == Job(job[c].id, rec, job[c].basis, FALSE)
      <4>1. j.id = job[c].id /\ j.rec = rec /\ j.basis = job[c].basis
        BY DEF Job
      <4>2. job' = [job EXCEPT ![c] = j]
        BY <3>2
      <4>. HIDE DEF j, rec
      <4>3. HoldInv' /\ Narrows /\ Shrinks /\ NoneNew
        BY <2>1, <2>3, <3>2, <4>2, LetsGo
      <4>4. CopyOK(job[c].id, rec, Unsent', Len(ledger'))
        BY <2>2, <2>4, <4>3, CopyKeeps DEF Narrows, Rises
      <4>5. CopyOK(j.id, j.rec, Unsent', Len(ledger')) /\ j.basis \in Nat
        BY <2>4, <4>1, <4>4
      <4>6. JobCopy' /\ HandlesCopy'
        BY <2>2, <3>2, <4>2, <4>3, <4>4, <4>5, JobCopyMoves, HandlesCopyPut
      <4>7. DOMAIN handles' = DOMAIN handles
        BY <2>3, <3>2 DEF JobInv, Put
      <4>. QED BY <4>3, <4>6, <4>7
    <3>. QED BY <3>1, <3>2 DEF CancelPoison
  <2>6. TodoCopy'
    BY <2>1, <2>2, <2>5, TodoCopyStays
  <2>7. BarInv' /\ WireInv'
    BY <2>1, <2>2, <2>5, BarStays, WireStays
  <2>. QED BY <2>2, <2>5, <2>6, <2>7
<1>NCancelSubmits. ASSUME NEW c \in Tasks, CancelSubmit(c)
                   PROVE  NInv'
  <2>. USE <1>NCancelSubmits
  <2>. USE DEF LInv, NInv
  <2>1. UNCHANGED <<used, fresh, handles, ledger, todo, phase, cycle>>
    BY DEF CancelSubmit, walletVars, tickVars
  <2>2. pc[c] = "cancel" /\ pc[c] \in Carrying /\ pc[c] \in Filed
    BY DEF CancelSubmit, Carrying, Filed
  <2>3. CopyOK(job[c].id, job[c].rec, Unsent, Len(ledger)) /\ job[c].basis \in Nat
    BY <2>2 DEF JobCopy
  <2>4. ~Ours(CancelTx(c)) /\ CancelTx(c).nonce \in Nat /\ CancelTx(c).rev \in Nat
    <3>1. /\ CancelTx(c).intent = Cancel /\ CancelTx(c).nonce = job[c].id.nonce
          /\ CancelTx(c).rev = job[c].basis + 1
      BY DEF CancelTx, Tx, Id
    <3>2. job[c].id.nonce \in Nat /\ job[c].basis + 1 \in Nat
      BY SMT, <2>3 DEF CopyOK
    <3>3. Cancel \notin Intents
      BY WalletRuntimeAssumption
    <3>. QED BY <3>1, <3>2, <3>3 DEF Ours
  <2>5. pool' = pool \/ pool' = pool \cup {CancelTx(c)}
    <3>1. CASE \E result : Submit(CancelTx(c), result)
      BY <3>1 DEF Submit
    <3>. QED BY <3>1 DEF CancelSubmit
  <2>6. Rises /\ TickInv'
    BY <2>1, <2>5, PooledMore DEF TickInv
  <2>7. HoldInv' /\ Narrows /\ Shrinks /\ NoneNew /\ JobCopy'
    <3>1. CASE \E l \in {"record", "unpoison"} : Goto(c, l) /\ UNCHANGED job
      <4>1. PICK l \in {"record", "unpoison"} : Goto(c, l) /\ UNCHANGED job
        BY <3>1
      <4>2. l \notin Holding
        BY DEF Holding
      <4>3. HoldInv' /\ Narrows /\ Shrinks /\ NoneNew
        BY <2>1, <4>1, <4>2, LetsGo
      <4>4. CopyOK(job[c].id, job[c].rec, Unsent', Len(ledger'))
        BY <2>3, <2>6, <4>3, CopyKeeps DEF Narrows, Rises
      <4>. QED BY <2>3, <2>6, <4>1, <4>3, <4>4, JobCopyMoves
    <3>2. CASE /\ job' = [job EXCEPT ![c] = Job(@.id, @.rec, handles[job[c].id].signed, TRUE)]
               /\ UNCHANGED pc
      <4>. DEFINE j == Job(job[c].id, job[c].rec, handles[job[c].id].signed, TRUE)
      <4>1. j.id = job[c].id /\ j.rec = job[c].rec /\ j.basis = handles[job[c].id].signed
        BY DEF Job
      <4>2. job'[c] = j /\ \A q \in Tasks : q # c => job'[q] = job[q]
        BY <3>2 DEF JobInv
      <4>. HIDE DEF j
      <4>3. j.basis \in Nat
        BY <2>2, <4>1 DEF JobInv, HandlesCopy, CopyOK
      <4>4. "cancel" \notin Holding /\ "cancel" \notin MayFree
        BY DEF Holding, MayFree
      <4>5. /\ \A q \in Tasks : pc'[q] = pc[q]
            /\ \A q \in Tasks : pc[q] \in Holding \cup MayFree => job'[q] = job[q]
        BY <2>2, <3>2, <4>2, <4>4
      <4>6. HoldInv'
        BY <2>1, <4>5 DEF HoldInv, N
      <4>7. Shrinks
        BY <2>1, <4>5 DEF Shrinks, Loose, N
      <4>8. Narrows /\ NoneNew
        BY <4>5, <4>7 DEF Shrinks, Narrows, NoneNew, Unsent, N, Holding
      <4>9. ASSUME NEW q \in Tasks, pc[q] \in Carrying
            PROVE  CopyOK(job'[q].id, job'[q].rec, Unsent', Len(ledger')) /\ job'[q].basis \in Nat
        <5>1. CopyOK(job[q].id, job[q].rec, Unsent, Len(ledger)) /\ job[q].basis \in Nat
          BY <4>9 DEF JobCopy
        <5>2. CopyOK(job[q].id, job[q].rec, Unsent', Len(ledger'))
          BY <2>6, <4>8, <5>1, CopyKeeps DEF Narrows, Rises
        <5>. QED BY <4>1, <4>2, <4>3, <5>1, <5>2
      <4>10. JobCopy'
        BY <3>2, <4>9 DEF JobCopy
      <4>. QED BY <4>6, <4>7, <4>8, <4>10
    <3>. QED BY <3>1, <3>2 DEF CancelSubmit
  <2>8. HandlesCopy' /\ TodoCopy'
    BY <2>1, <2>6, <2>7, HandlesCopyStays, TodoCopyStays
  <2>9. BarInv'
    BY <2>1, <2>6, <2>7, BarStays
  <2>10. WireInv'
    BY <2>1, <2>4, <2>5, <2>7, OthersPooled
  <2>. QED BY <2>6, <2>7, <2>8, <2>9, <2>10
<1>NCancelEnds. ASSUME NEW c \in Tasks, CancelUnpoison(c) \/ CancelRecord(c)
                PROVE  NInv'
  <2>. USE <1>NCancelEnds
  <2>. USE DEF LInv, NInv
  <2>1. UNCHANGED <<used, fresh, pool, ledger, todo, phase, cycle>> /\ Return(c)
    BY DEF CancelUnpoison, CancelRecord, chainVars, tickVars
  <2>2. Rises /\ TickInv'
    BY <2>1, ChainStill DEF TickInv
  <2>3. pc[c] \in Carrying /\ pc[c] \in Filed /\ "done" \notin Carrying
    BY DEF CancelUnpoison, CancelRecord, Carrying, Filed
  <2>4. HoldInv' /\ Narrows /\ Shrinks /\ NoneNew
    BY <2>1, Returns
  <2>5. CopyOK(job[c].id, job[c].rec, Unsent, Len(ledger)) /\ job[c].basis \in Nat
    BY <2>3 DEF JobCopy
  <2>6. /\ HandlesCopy'
        /\ \A id \in DOMAIN handles' : id \in DOMAIN handles \/ id.intent \notin Intents
    <3>1. CASE CancelUnpoison(c)
      <4>. DEFINE rec == Cancelled(job[c].rec, FALSE)
      <4>1. PutIgnored(job[c].id, rec)
        BY <3>1 DEF CancelUnpoison
      <4>2. CopyOK(job[c].id, rec, Unsent, Len(ledger))
        BY <2>5, CancelledCopy
      <4>. HIDE DEF rec
      <4>3. CopyOK(job[c].id, rec, Unsent', Len(ledger'))
        BY <2>2, <2>4, <4>2, CopyKeeps DEF Narrows, Rises
      <4>4. HandlesCopy'
        BY <2>2, <2>4, <4>1, <4>3, HandlesCopyPut
      <4>5. DOMAIN handles' = DOMAIN handles
        BY <2>3, <4>1 DEF JobInv, PutIgnored, Put
      <4>. QED BY <4>4, <4>5
    <3>2. CASE CancelRecord(c)
      <4>. DEFINE id == Id(Cancel, job[c].id.nonce)
                  r   == job[c].basis + 1
                  rec == Rec(Plain("Sent"), FALSE, {r}, r)
      <4>1. CancelTx(c).rev = r
        BY DEF CancelTx, Tx
      <4>2. PutIgnored(id, rec)
        BY <3>2, <4>1 DEF CancelRecord
      <4>3. CopyOK(id, rec, Unsent', Len(ledger')) /\ id.intent \notin Intents
        <5>1. id.intent = Cancel /\ id.nonce = job[c].id.nonce /\ rec.signed = r
          BY DEF Id, Rec
        <5>2. job[c].id.nonce \in Nat /\ r \in Nat
          BY SMT, <2>5 DEF CopyOK
        <5>3. Cancel \notin Intents
          BY WalletRuntimeAssumption
        <5>. HIDE DEF id, rec, r
        <5>. QED BY <5>1, <5>2, <5>3 DEF CopyOK
      <4>. HIDE DEF id, rec
      <4>4. HandlesCopy'
        BY <2>2, <2>4, <4>2, <4>3, HandlesCopyPut
      <4>5. DOMAIN handles' \subseteq DOMAIN handles \cup {id}
        BY <4>2 DEF PutIgnored, Put
      <4>. QED BY <4>3, <4>4, <4>5
    <3>. QED BY <3>1, <3>2
  <2>7. TodoCopy'
    BY <2>1, <2>2, <2>4, TodoCopyStays
  <2>8. JobCopy'
    BY <2>1, <2>2, <2>3, <2>4, JobCopyMoves DEF Return
  <2>9. BarInv' /\ WireInv'
    BY <2>1, <2>2, <2>4, <2>6, BarStays, WireStays
  <2>. QED BY <2>2, <2>4, <2>6, <2>7, <2>8, <2>9
<1>NTickLoads. ASSUME TickStart \/ ConfirmLoad \/ EscalateLoad
               PROVE  NInv'
  <2>. USE <1>NTickLoads
  <2>. USE DEF LInv, NInv
  <2>1. /\ UNCHANGED <<walletVars, chainVars, taskVars>> /\ cycle' \in {0, cycle}
        /\ \E kinds : todo' = Snapshot(kinds)
    BY DEF TickStart, ConfirmLoad, EscalateLoad
  <2>2. UNCHANGED <<used, fresh, handles, pool, ledger>>
    BY <2>1 DEF walletVars, chainVars
  <2>3. Rises
    BY <2>2, ChainStill
  <2>4. HoldInv' /\ Narrows /\ Shrinks /\ NoneNew
    <3>1. used \subseteq used' /\ fresh' = FALSE
      BY <2>2 DEF HoldInv
    <3>. QED BY <2>1, <3>1, HoldStays
  <2>5. HandlesCopy' /\ TodoCopy' /\ JobCopy'
    BY <2>1, <2>2, <2>3, <2>4, HandlesCopyStays, TodoCopyLoads, JobCopyStays
  <2>6. BarInv' /\ WireInv'
    BY <2>2, <2>3, <2>4, BarStays, WireStays
  <2>7. TickInv'
    <3>1. cycle' \in Nat /\ cycle' <= Len(ledger')
      BY SMT, <2>1, <2>3 DEF TickInv, Rises
    <3>2. CASE phase' \notin {"escalate", "bump", "bumpPut"}
      BY <3>1, <3>2 DEF TickInv
    <3>3. CASE phase' \in {"escalate", "bump", "bumpPut"}
      <4>1. todo' = Snapshot({"Sent"})
        BY <3>3 DEF TickStart, ConfirmLoad, EscalateLoad
      <4>2. ASSUME NEW x \in DOMAIN todo' PROVE todo'[x].status.kind = "Sent"
        BY <4>1, <4>2 DEF Snapshot
      <4>. QED BY <3>1, <4>2 DEF TickInv
    <3>. QED BY <3>2, <3>3
  <2>. QED BY <2>4, <2>5, <2>6, <2>7
<1>NTickMovesOn. ASSUME ReadCycle \/ ResetNonces \/ RefillDone \/ TickEnd \/ TickError
                 PROVE  NInv'
  <2>. USE <1>NTickMovesOn
  <2>. USE DEF LInv, NInv
  <2>1. /\ UNCHANGED <<handles, chainVars, taskVars, todo>>
        /\ phase' \notin {"escalate", "bump", "bumpPut"}
        /\ cycle' \in {0, cycle, Len(ledger)}
    BY DEF ReadCycle, ResetNonces, RefillDone, TickEnd, TickError, walletVars
  <2>2. UNCHANGED <<pool, ledger>>
    BY <2>1 DEF chainVars
  <2>3. Rises
    BY <2>2, ChainStill
  <2>4. used \subseteq used' /\ fresh' = FALSE
    BY DEF ReadCycle, ResetNonces, RefillDone, TickEnd, TickError, walletVars, AReset, HoldInv
  <2>5. HoldInv' /\ Narrows /\ Shrinks /\ NoneNew
    BY <2>1, <2>4, HoldStays
  <2>6. HandlesCopy' /\ TodoCopy' /\ JobCopy'
    BY <2>1, <2>3, <2>5, HandlesCopyStays, TodoCopyStays, JobCopyStays
  <2>7. BarInv' /\ WireInv'
    BY <2>1, <2>2, <2>3, <2>5, BarStays, WireStays
  <2>8. TickInv'
    <3>1. cycle' \in Nat /\ cycle' <= Len(ledger')
      BY SMT, <2>1, <2>3 DEF TickInv, Rises
    <3>. QED BY <2>1, <3>1 DEF TickInv
  <2>. QED BY <2>5, <2>6, <2>7, <2>8
<1>NRecovers. ASSUME Recover
              PROVE  NInv'
  <2>. USE <1>NRecovers
  <2>. USE DEF LInv, NInv
  <2>1. UNCHANGED <<used, fresh, handles, ledger, taskVars, phase, cycle>>
    BY DEF Recover, walletVars
  <2>2. PICK id \in DOMAIN todo :
           /\ \E result : Submit(Tx(id, todo[id].signed), result)
           /\ todo' = Without(todo, id)
    BY DEF Recover
  <2>3. todo[id].signed \in Nat /\ (Untouched(todo[id]) => todo[id].signed = 0)
    BY DEF TodoCopy, CopyOK, Untouched
  <2>4. WireInv' /\ Rises
    BY <2>1, <2>2, <2>3, Rebroadcasts
  <2>5. HoldInv' /\ Narrows /\ Shrinks /\ NoneNew
    BY <2>1, HoldStays DEF HoldInv
  <2>6. HandlesCopy' /\ TodoCopy' /\ JobCopy' /\ BarInv'
    BY <2>1, <2>2, <2>4, <2>5, HandlesCopyStays, TodoCopyStays, JobCopyStays, BarStays
  <2>7. TickInv'
    BY <2>1, <2>2, <2>4, TickGoesOn
  <2>. QED BY <2>4, <2>5, <2>6, <2>7
<1>NAdvances. ASSUME Advance
              PROVE  NInv'
  <2>. USE <1>NAdvances
  <2>. USE DEF LInv, NInv
  <2>1. UNCHANGED <<used, fresh, handles, pool, ledger, taskVars, cycle>>
    BY DEF Advance, walletVars, chainVars
  <2>2. Rises
    BY <2>1, ChainStill
  <2>3. HoldInv' /\ Narrows /\ Shrinks /\ NoneNew
    BY <2>1, HoldStays DEF HoldInv
  <2>4. HandlesCopy' /\ JobCopy' /\ BarInv' /\ WireInv'
    BY <2>1, <2>2, <2>3, HandlesCopyStays, JobCopyStays, BarStays, WireStays
  <2>5. TodoCopy' /\ TickInv'
    <3>1. PICK id \in DOMAIN todo :
             \/ /\ todo' = [todo EXCEPT ![id] = WithStatus(@, NextStatus(id, todo[id]))]
                /\ phase' = "put"
             \/ todo' = Without(todo, id) /\ phase' = "confirm"
      BY DEF Advance
    <3>2. CASE todo' = Without(todo, id) /\ phase' = "confirm"
      BY <2>1, <2>2, <2>3, <3>2, TodoCopyStays, TickGoesOn
    <3>3. CASE /\ todo' = [todo EXCEPT ![id] = WithStatus(@, NextStatus(id, todo[id]))]
               /\ phase' = "put"
      <4>. DEFINE rec == WithStatus(todo[id], NextStatus(id, todo[id]))
      <4>1. CopyOK(id, todo[id], Unsent, Len(ledger))
        BY DEF TodoCopy
      <4>2. CopyOK(id, rec, Unsent, Len(ledger))
        BY <4>1, AdvancedCopy
      <4>3. /\ DOMAIN todo' = DOMAIN todo /\ todo'[id] = rec
            /\ \A x \in DOMAIN todo : x # id => todo'[x] = todo[x]
        BY <3>3
      <4>. HIDE DEF rec
      <4>4. ASSUME NEW x \in DOMAIN todo' PROVE CopyOK(x, todo'[x], Unsent', Len(ledger'))
        <5>1. CopyOK(x, todo'[x], Unsent, Len(ledger))
          BY <4>2, <4>3 DEF TodoCopy
        <5>. QED BY <2>2, <2>3, <5>1, CopyKeeps DEF Narrows, Rises
      <4>5. TodoCopy'
        BY <4>4 DEF TodoCopy
      <4>6. TickInv'
        BY <2>1, <3>3 DEF TickInv
      <4>. QED BY <4>5, <4>6
    <3>. QED BY <3>1, <3>2, <3>3
  <2>. QED BY <2>3, <2>4, <2>5
<1>NAdvancePuts. ASSUME AdvancePut
                 PROVE  NInv'
  <2>. USE <1>NAdvancePuts
  <2>. USE DEF LInv, NInv
  <2>1. UNCHANGED <<used, fresh, pool, ledger, cycle>> /\ todo' = Without(todo, cur)
    BY DEF AdvancePut, chainVars
  <2>2. Rises
    BY <2>1, ChainStill
  <2>3. cur \in DOMAIN todo /\ cur \in DOMAIN handles
    BY DEF AdvancePut, TodoInv
  <2>4. HoldInv' /\ Narrows /\ Shrinks /\ NoneNew /\ JobCopy'
    <3>1. CASE UNCHANGED taskVars
      <4>1. HoldInv' /\ Narrows /\ Shrinks /\ NoneNew
        BY <2>1, <3>1, HoldStays DEF HoldInv
      <4>. QED BY <2>2, <3>1, <4>1, JobCopyStays
    <3>2. CASE Goto(Refiller, "new") /\ job' = [job EXCEPT ![Refiller] = Job(cur, NoRecord, 0, FALSE)]
      <4>1. "new" \notin Carrying /\ "new" \notin Holding
        BY DEF Carrying, Holding
      <4>2. Refiller \in Tasks
        BY DEF Tasks, Senders
      <4>3. HoldInv' /\ Narrows /\ Shrinks /\ NoneNew
        BY <2>1, <3>2, <4>1, <4>2, LetsGo
      <4>. QED BY <2>2, <3>2, <4>1, <4>2, <4>3, JobCopyMoves
    <3>. QED BY <3>1, <3>2 DEF AdvancePut
  <2>5. HandlesCopy' /\ DOMAIN handles' = DOMAIN handles
    <3>1. CASE UNCHANGED handles
      BY <2>2, <2>4, <3>1, HandlesCopyStays
    <3>2. CASE Put(cur, todo[cur])
      <4>1. CopyOK(cur, todo[cur], Unsent, Len(ledger))
        BY <2>3 DEF TodoCopy
      <4>2. CopyOK(cur, todo[cur], Unsent', Len(ledger'))
        BY <2>2, <2>4, <4>1, CopyKeeps DEF Narrows, Rises
      <4>3. HandlesCopy'
        BY <2>2, <2>4, <3>2, <4>2, HandlesCopyPut
      <4>. QED BY <2>3, <3>2, <4>3 DEF Put
    <3>. QED BY <3>1, <3>2 DEF AdvancePut
  <2>6. TodoCopy' /\ BarInv' /\ WireInv'
    BY <2>1, <2>2, <2>4, <2>5, TodoCopyStays, BarStays, WireStays
  <2>7. phase' \notin {"escalate", "bump", "bumpPut"}
    BY DEF AdvancePut
  <2>8. TickInv'
    BY <2>1, <2>2, <2>7, TickGoesOn
  <2>. QED BY <2>4, <2>5, <2>6, <2>8
\* A handle picked for a bump was Sent.
<1>NBumps. ASSUME BumpCheck \/ BumpSubmit
           PROVE  NInv'
  <2>. USE <1>NBumps
  <2>. USE DEF LInv, NInv
  <2>1. UNCHANGED <<used, fresh, handles, ledger, taskVars, cycle>>
    BY DEF BumpCheck, BumpSubmit, walletVars, chainVars
  <2>2. HoldInv' /\ Narrows /\ Shrinks /\ NoneNew
    BY <2>1, HoldStays DEF HoldInv
  <2>3. WireInv' /\ Rises
    <3>1. CASE BumpCheck
      <4>1. UNCHANGED pool
        BY <3>1 DEF BumpCheck, chainVars
      <4>. QED BY <2>1, <2>2, <4>1, WireStays, ChainStill
    <3>2. CASE BumpSubmit
      <4>1. cur \in DOMAIN todo /\ todo[cur].status.kind = "Sent"
        BY <3>2 DEF BumpSubmit, TodoInv, TickInv
      <4>2. todo[cur].signed + 1 \in Nat /\ ~Untouched(todo[cur])
        BY SMT, <4>1 DEF TodoCopy, CopyOK, Untouched
      <4>3. PICK result : Submit(Tx(cur, todo[cur].signed + 1), result)
        BY <3>2 DEF BumpSubmit
      <4>. QED BY <2>1, <4>1, <4>2, <4>3, Rebroadcasts
    <3>. QED BY <3>1, <3>2
  <2>4. /\ UNCHANGED todo \/ \E id : todo' = Without(todo, id)
        /\ phase \in {"escalate", "bump", "bumpPut"}
    BY DEF BumpCheck, BumpSubmit
  <2>5. HandlesCopy' /\ TodoCopy' /\ JobCopy' /\ BarInv'
    BY <2>1, <2>2, <2>3, <2>4, HandlesCopyStays, TodoCopyStays, JobCopyStays, BarStays
  <2>6. TickInv'
    BY <2>1, <2>3, <2>4, TickGoesOn
  <2>. QED BY <2>2, <2>3, <2>5, <2>6
<1>NBumpPuts. ASSUME BumpPut
              PROVE  NInv'
  <2>. USE <1>NBumpPuts
  <2>. USE DEF LInv, NInv
  <2>1. UNCHANGED <<used, fresh, pool, ledger, taskVars, cycle>> /\ todo' = Without(todo, cur)
    BY DEF BumpPut, chainVars
  <2>2. Rises
    BY <2>1, ChainStill
  <2>3. HoldInv' /\ Narrows /\ Shrinks /\ NoneNew
    BY <2>1, HoldStays DEF HoldInv
  <2>4. cur \in DOMAIN todo /\ cur \in DOMAIN handles /\ todo[cur].status.kind = "Sent"
    BY DEF BumpPut, TodoInv, TickInv
  <2>. DEFINE rec == Bumped(todo[cur], todo[cur].signed + 1)
  <2>5. CopyOK(cur, rec, Unsent, Len(ledger))
    <3>1. CopyOK(cur, todo[cur], Unsent, Len(ledger)) /\ ~Untouched(todo[cur])
      BY <2>4 DEF TodoCopy, Untouched
    <3>2. rec.signed = todo[cur].signed + 1
      BY DEF Bumped, Rec
    <3>3. todo[cur].signed + 1 \in Nat
      BY SMT, <3>1 DEF CopyOK
    <3>. HIDE DEF rec
    <3>. QED BY <3>1, <3>2, <3>3 DEF CopyOK
  <2>6. PutIgnored(cur, rec)
    BY DEF BumpPut
  <2>. HIDE DEF rec
  <2>7. CopyOK(cur, rec, Unsent', Len(ledger'))
    BY <2>2, <2>3, <2>5, CopyKeeps DEF Narrows, Rises
  <2>8. HandlesCopy'
    BY <2>2, <2>3, <2>6, <2>7, HandlesCopyPut
  <2>9. DOMAIN handles' = DOMAIN handles
    BY <2>4, <2>6 DEF PutIgnored, Put
  <2>10. TodoCopy' /\ JobCopy' /\ BarInv' /\ WireInv'
    BY <2>1, <2>2, <2>3, <2>9, TodoCopyStays, JobCopyStays, BarStays, WireStays
  <2>11. TickInv'
    BY <2>1, <2>2, TickGoesOn DEF BumpPut
  <2>. QED BY <2>3, <2>8, <2>10, <2>11
\* A crash forgets who held what, and nothing was given back.
<1>NCrashes. ASSUME Crash
             PROVE  NInv'
  <2>. USE <1>NCrashes
  <2>. USE DEF LInv, NInv
  <2>1. UNCHANGED <<used, fresh, handles, pool, ledger>>
    BY DEF Crash, walletVars, chainVars
  <2>2. Rises
    BY <2>1, ChainStill
  <2>3. \A q \in Tasks : pc'[q] \in {"new", "done"}
    BY DEF Crash
  <2>4. HoldInv' /\ Shrinks /\ NoneNew
    BY <2>1, <2>3 DEF HoldInv, Shrinks, NoneNew, Loose, Holding, MayFree
  <2>5. Narrows
    BY <2>3, <2>4 DEF Narrows, Shrinks, Unsent
  <2>6. HandlesCopy' /\ BarInv' /\ WireInv'
    BY <2>1, <2>2, <2>4, <2>5, HandlesCopyStays, BarStays, WireStays
  <2>7. TodoCopy'
    BY DEF Crash, Empty, TodoCopy
  <2>8. JobCopy'
    BY <2>3 DEF JobCopy, Carrying
  <2>9. TickInv'
    BY SMT, <2>2 DEF Crash, TickInv, Rises
  <2>. QED BY <2>4, <2>6, <2>7, <2>8, <2>9
\* A bar in the pool gives way to one in the ledger.
<1>NMines. ASSUME Mine \/ MineForeign
           PROVE  NInv'
  <2>. USE <1>NMines
  <2>. USE DEF LInv, NInv
  <2>1. PICK t : Mined(t) /\ t.nonce = Len(ledger) /\ (Ours(t) => t \in pool)
    <3>1. CASE Mine
      BY <3>1 DEF Mine
    <3>2. CASE MineForeign
      BY SMT, <3>2, WalletRuntimeAssumption DEF MineForeign, Foreign, Ours
    <3>. QED BY <3>1, <3>2
  <2>2. /\ UNCHANGED <<used, fresh, handles, taskVars, todo, phase, cycle>>
        /\ ledger' = Append(ledger, t) /\ pool' = {u \in pool : u.nonce # t.nonce}
    BY <2>1 DEF Mined, walletVars, tickVars
  <2>3. /\ Len(ledger) \in Nat /\ Len(ledger') = Len(ledger) + 1
        /\ \A k \in 1 .. Len(ledger) : ledger'[k] = ledger[k]
        /\ ledger'[Len(ledger) + 1] = t
    <3>. DEFINE S == {ledger[k] : k \in 1 .. Len(ledger)} \cup {t}
    <3>1. ledger \in Seq(S)
      BY SMT DEF LedgerInv
    <3>. QED BY SMT, <2>2, <3>1
  <2>4. Rises
    <3>1. ASSUME NEW n \in Barred PROVE n \in Barred'
      <4>1. CASE n < Len(ledger)
        BY SMT, <2>3, <3>1, <4>1 DEF Barred
      <4>2. CASE \E u \in pool : u.nonce = n /\ ~Ours(u)
        BY SMT, <2>1, <2>2, <2>3, <3>1, <4>2 DEF Barred, Ours
      <4>. QED BY <3>1, <4>1, <4>2 DEF Barred
    <3>. QED BY SMT, <2>3, <3>1 DEF Rises
  <2>5. HoldInv' /\ Narrows /\ Shrinks /\ NoneNew
    BY <2>2, HoldStays DEF HoldInv
  <2>6. HandlesCopy' /\ TodoCopy' /\ JobCopy' /\ BarInv'
    BY <2>2, <2>4, <2>5, HandlesCopyStays, TodoCopyStays, JobCopyStays, BarStays
  <2>7. WireInv'
    <3>1. ASSUME NEW k \in 1 .. Len(ledger')
          PROVE  ledger'[k].nonce = k - 1 /\ (Ours(ledger'[k]) => k - 1 \notin Loose')
      <4>1. CASE k \in 1 .. Len(ledger)
        BY <2>3, <2>5, <4>1 DEF WireInv, Shrinks
      <4>2. CASE k = Len(ledger) + 1
        <5>1. ledger'[k] = t /\ k - 1 = Len(ledger)
          BY SMT, <2>3, <4>2
        <5>2. Ours(t) => Len(ledger) \notin Loose'
          BY <2>1, <2>5 DEF WireInv, Shrinks
        <5>. QED BY <2>1, <5>1, <5>2
      <4>. QED BY SMT, <2>3, <4>1, <4>2
    <3>2. /\ \A u \in pool' : u \in pool
          /\ \A q \in Tasks : pc'[q] = pc[q] /\ job'[q] = job[q]
      BY <2>2 DEF taskVars
    <3>3. /\ \A u \in pool' : u.nonce \in Nat /\ u.rev \in Nat
          /\ \A u \in pool' : Ours(u) => u.nonce \notin Loose'
      BY <2>5, <3>2 DEF WireInv, Shrinks
    <3>. QED BY <3>1, <3>2, <3>3 DEF WireInv, Ours, N
  <2>8. TickInv'
    BY <2>2, <2>4, TickGoesOn
  <2>. QED BY <2>5, <2>6, <2>7, <2>8
<1>. USE DEF Tasks
<1>1. ASSUME NEW p \in Senders, Send(p) PROVE NInv'
  BY <1>1, <1>NSendStarts, <1>NSendAllocates, <1>NSendPersists, <1>NSendSubmits, <1>NSendMarksSent,
     <1>NSendMarksFailed, <1>NSendReleases, Zenon DEF Send
<1>2. ASSUME NEW c \in Cancellers, CancelCall(c) PROVE NInv'
  BY <1>2, <1>NCancelLoads, <1>NCancelPoisons, <1>NCancelSubmits, <1>NCancelEnds DEF CancelCall
<1>3. CASE Tick \/ TickError
  BY <1>3, <1>NTickLoads, <1>NTickMovesOn, <1>NRecovers, <1>NAdvances, <1>NAdvancePuts, <1>NBumps, <1>NBumpPuts
     DEF Tick
<1>4. CASE Crash
  BY <1>4, <1>NCrashes
<1>5. CASE Mine \/ MineForeign
  BY <1>5, <1>NMines
<1>6. CASE UNCHANGED vars
  <2>1. UNCHANGED <<used, fresh, handles, pool, ledger, taskVars, todo, phase, cycle>>
    BY <1>6 DEF vars, walletVars, chainVars, tickVars
  <2>2. Rises
    BY <2>1, ChainStill DEF LInv
  <2>3. HoldInv' /\ Narrows /\ Shrinks /\ NoneNew
    BY <2>1, HoldStays DEF NInv, HoldInv
  <2>4. HandlesCopy' /\ TodoCopy' /\ JobCopy' /\ BarInv' /\ WireInv' /\ TickInv'
    BY <2>1, <2>2, <2>3, HandlesCopyStays, TodoCopyStays, JobCopyStays, BarStays, WireStays,
       TickGoesOn DEF NInv
  <2>. QED BY <2>3, <2>4 DEF NInv
<1>. QED BY <1>1, <1>2, <1>3, <1>4, <1>5, <1>6 DEF Next

\* "It recycles the nonce only when nothing was broadcast, so a live tx's nonce
\* is never freed for reuse" (transaction_manager.rs:223-224): it holds of every
\* interleaving, crash, failed write and broadcast of unknown fate, provided no
\* node rejects for good what another may take.
THEOREM NonceNeverFreed ==
    ASSUME NoRejection
    PROVE  Spec => []LiveNonceReserved
<1>1. LInv /\ NInv /\ [Next]_vars => NInv'
  BY Zenon, NInvStep
<1>2. NInv => LiveNonceReserved
  <2>. USE Zenon
  <2>. SUFFICES ASSUME NInv, NEW t \in Broadcasts PROVE t.nonce \in used
    BY DEF LiveNonceReserved
  <2>1. CASE t \in pool /\ Ours(t)
    BY <2>1 DEF NInv, WireInv, Loose
  <2>2. CASE \E k \in 1 .. Len(ledger) : t = ledger[k] /\ Ours(t)
    <3>1. PICK k \in 1 .. Len(ledger) : t = ledger[k] /\ Ours(t)
      BY <2>2
    <3>2. t.nonce = k - 1 /\ k - 1 \notin Loose
      BY <3>1 DEF NInv, WireInv
    <3>3. k - 1 \in Nat
      BY SMT
    <3>. QED BY <3>2, <3>3 DEF Loose
  <2>. QED BY <2>1, <2>2 DEF Broadcasts
<1>. QED BY <1>1, <1>2, NInvInit, LInvHolds, PTL DEF Spec

-----------------------------------------------------------------------------
(* One operation at a time *)

\* One operation at a time, and no fault that loses a write: nothing crashes,
\* the store answers, and a broadcast either reaches the node or does not.
Calm == ~Concurrent /\ Faults \cap {"crash", "store", "transient"} = {}

Idle == {"new", "done"}
Gone == {"Failed", "Replaced", "Dropped"}
Starting == {"new", "allocate", "persist"}

IdOf(t)  == Id(t.intent, t.nonce)
Kind(x)  == handles[x].status.kind

\* Whose turn it is: one call, or the tick, and within it the resend.
TurnInv ==
    /\ \A p, q \in Tasks : pc[p] \notin Idle /\ pc[q] \notin Idle => p = q
    /\ phase # "idle" => \A p \in Tasks \ {Refiller} : pc[p] \in Idle
    /\ phase # "refill" => pc[Refiller] = "done"

IsTx(t) == t = Tx(IdOf(t), t.rev) /\ t.nonce \in Nat

\* The chain takes one transaction per nonce; a cycle counts what was mined.
ChainInv ==
    /\ \A t \in pool : IsTx(t) /\ t.nonce >= Len(ledger)
    /\ \A k \in 1 .. Len(ledger) : IsTx(ledger[k]) /\ ledger[k].nonce = k - 1
    /\ cycle \in Nat /\ cycle <= Len(ledger)

\* Every hash on the wire is in its handle's record, but for the bump whose
\* record is being written.
Written(t) ==
    \/ t.rev \in handles[IdOf(t)].revs
    \/ phase = "bumpPut" /\ IdOf(t) = cur /\ t.rev = todo[cur].signed + 1

StoreInv ==
    /\ \A x \in DOMAIN handles :
          /\ x.nonce \in Nat /\ x.intent \in Intents \cup {Cancel}
          /\ x.intent \in Intents => handles[x].signed \in handles[x].revs
          /\ x.intent \notin Intents => Kind(x) # "Dropped"
          /\ x.intent \in Intents /\ Kind(x) \in {"Replaced", "Dropped"} => x.nonce < Len(ledger)
    /\ \A x, y \in DOMAIN handles :
          x.intent \in Intents /\ x.intent = y.intent /\ Kind(x) \notin Gone /\ Kind(y) \notin Gone
             => x = y

WriteInv == \A t \in Broadcasts : Written(t) /\ Kind(IdOf(t)) \notin Gone

\* What the tick works on is what the store holds.
CopyInv ==
    /\ phase \in {"idle", "reset", "load"} => DOMAIN todo = {}
    /\ \A x \in DOMAIN todo :
          /\ x.intent \notin Intents => ~todo[x].cancelled /\ todo[x].status.kind # "Dropped"
          /\ x.intent \in Intents =>
                /\ todo[x].revs = handles[x].revs /\ todo[x].signed = handles[x].signed
                /\ ~IsTerminal(handles[x].status)
                /\ todo[x].status = handles[x].status \/ (phase = "put" /\ x = cur)
    /\ phase = "put" /\ cur.intent \in Intents /\ todo[cur].status.kind \in Gone =>
          cur.nonce < Len(ledger) /\ \A t \in Broadcasts : IdOf(t) # cur

\* So is what a call works on.
CallInv ==
    /\ \A p \in Tasks : pc[p] \in Filed => handles[job[p].id] = job[p].rec
    /\ \A p \in Senders :
          /\ pc[p] \in {"persist", "submit", "sent", "failed"} =>
                job[p].rec = Rec(Plain("Pending"), FALSE, {0}, 0)
          /\ pc[p] = "persist" => job[p].id.nonce \in Nat
          /\ pc[p] \in {"submit", "sent", "failed"} /\ job[p].id \in DOMAIN todo =>
                job[p].id.intent \notin Intents
          /\ pc[p] \in {"submit", "failed"} => \A t \in Broadcasts : IdOf(t) # job[p].id
    /\ \A x \in DOMAIN handles :
          x.intent \notin Intents /\ handles[x].cancelled =>
             \E c \in Cancellers : pc[c] \in {"cancel", "unpoison", "record"} /\ job[c].id = x

\* An intent is sent for the first time when it has no handle, and again only
\* when all its handles are over.
FirstInv ==
    \A i \in Intents : pc[i] \in Starting =>
        /\ pc[i] = "persist" => job[i].id.intent = i
        /\ \A x \in DOMAIN handles : x.intent # i
AgainInv ==
    pc[Refiller] \in Starting =>
        /\ \E x \in DOMAIN handles : x.intent = job[Refiller].id.intent
        /\ job[Refiller].id.intent \in Intents =>
              \A x \in DOMAIN handles : x.intent = job[Refiller].id.intent => Kind(x) \in Gone

OInv ==
    TurnInv /\ ChainInv /\ StoreInv /\ WriteInv /\ CopyInv /\ CallInv /\ FirstInv /\ AgainInv

-----------------------------------------------------------------------------
(* The turns *)

\* The call p runs by itself: from the host, or within the tick.
Alone(p) ==
    /\ \A q \in Tasks : q # p => pc[q] \in Idle
    /\ p # Refiller => phase = "idle"
    /\ p = Refiller => phase = "refill"

\* A call under way is the only one.
LEMMA BusyAlone ==
    ASSUME TurnInv, NEW p \in Tasks, pc[p] \notin Idle
    PROVE  Alone(p)
<1>. USE Zenon
<1>1. ASSUME NEW q \in Tasks, q # p PROVE pc[q] \in Idle
  BY <1>1 DEF TurnInv
<1>2. p # Refiller => phase = "idle"
  BY DEF TurnInv
<1>3. p = Refiller => phase = "refill"
  BY DEF TurnInv, Idle
<1>. QED BY <1>1, <1>2, <1>3 DEF Alone

\* A call of the host starts when nothing else is under way.
LEMMA StartsAlone ==
    ASSUME Calm, TurnInv, NEW p \in Tasks, p # Refiller, MayStart
    PROVE  Alone(p)
BY Zenon DEF Calm, MayStart, Alone, Idle

\* While the tick works, or before it starts, no call is under way.
LEMMA TickAlone ==
    ASSUME Calm, TurnInv, phase \notin {"idle", "refill"} \/ MayStart
    PROVE  (\A p \in Tasks : pc[p] \in Idle) /\ (phase # "refill" => pc[Refiller] = "done")
<1>. USE Zenon
<1>1. CASE MayStart
  BY <1>1 DEF Calm, MayStart, Idle, TurnInv
<1>2. CASE phase \notin {"idle", "refill"}
  <2>1. pc[Refiller] = "done"
    BY <1>2 DEF TurnInv
  <2>2. ASSUME NEW p \in Tasks PROVE pc[p] \in Idle
    BY <1>2, <2>1 DEF TurnInv, Idle
  <2>. QED BY <2>1, <2>2
<1>. QED BY <1>1, <1>2

\* It keeps the turn while it moves.
LEMMA TurnGoesOn ==
    ASSUME JobInv, TurnInv, NEW p \in Tasks, NEW l, Alone(p), Goto(p, l), UNCHANGED tickVars
    PROVE  TurnInv'
<1>. USE Zenon
<1>1. \A q \in Tasks : q # p => pc'[q] = pc[q]
  BY DEF Goto, JobInv
<1>2. phase' = phase
  BY DEF tickVars
<1>3. \A q \in Tasks : q # p => pc'[q] \in Idle
  BY <1>1 DEF Alone
<1>4. \A q, r \in Tasks : pc'[q] \notin Idle /\ pc'[r] \notin Idle => q = r
  BY <1>3
<1>5. phase' # "idle" => \A q \in Tasks \ {Refiller} : pc'[q] \in Idle
  BY <1>2, <1>3 DEF Alone
<1>6. phase' # "refill" => pc'[Refiller] = "done"
  <2>. SUFFICES ASSUME phase # "refill" PROVE pc'[Refiller] = "done"
    BY <1>2
  <2>1. Refiller \in Tasks /\ p # Refiller /\ pc[Refiller] = "done"
    BY DEF Tasks, Senders, Alone, TurnInv
  <2>. QED BY <1>1, <2>1
<1>. QED BY <1>4, <1>5, <1>6 DEF TurnInv

\* The tick goes on to phase' while no call is under way.
LEMMA TurnTicks ==
    ASSUME TurnInv, \A p \in Tasks : pc[p] \in Idle, UNCHANGED pc,
           pc[Refiller] = "done" \/ phase' = "refill"
    PROVE  TurnInv'
BY Zenon DEF TurnInv

-----------------------------------------------------------------------------
(* The store *)

\* With a store that answers, a put whose error would be dropped is a put.
LEMMA PutLands ==
    ASSUME Calm, NEW id, NEW rec, PutIgnored(id, rec)
    PROVE  Put(id, rec)
BY Zenon DEF Calm, PutIgnored, Fault

\* What a put leaves in the store.
LEMMA PutReads ==
    ASSUME NEW id, NEW rec, Put(id, rec)
    PROVE  /\ DOMAIN handles' = DOMAIN handles \cup {id}
           /\ handles'[id] = rec
           /\ \A x \in DOMAIN handles : x # id => handles'[x] = handles[x]
BY Zenon DEF Put

\* The store, while the ledger may grow.
LEMMA StoreKeeps ==
    ASSUME StoreInv, UNCHANGED handles, Len(ledger) \in Nat, Len(ledger') \in Nat,
           Len(ledger) <= Len(ledger')
    PROVE  StoreInv'
<1>. USE Zenon
<1>1. ASSUME NEW x \in DOMAIN handles, x.intent \in Intents, Kind(x) \in {"Replaced", "Dropped"}
      PROVE  x.nonce < Len(ledger')
  <2>1. x.nonce \in Nat /\ x.nonce < Len(ledger)
    BY <1>1 DEF StoreInv
  <2>. QED BY SMT, <2>1
<1>. QED BY <1>1 DEF StoreInv, Kind

\* A put keeps the store sound when its record is, and when it revives an
\* intent only if no other handle of the intent is live.
Sound(id, rec) ==
    /\ id.nonce \in Nat /\ id.intent \in Intents \cup {Cancel}
    /\ id.intent \in Intents => rec.signed \in rec.revs
    /\ id.intent \notin Intents => rec.status.kind # "Dropped"
    /\ id.intent \in Intents /\ rec.status.kind \in {"Replaced", "Dropped"} => id.nonce < Len(ledger)
    /\ id.intent \in Intents /\ rec.status.kind \notin Gone =>
          \A y \in DOMAIN handles : y.intent = id.intent /\ Kind(y) \notin Gone => y = id

\* A sound record is written.
LEMMA StorePuts ==
    ASSUME StoreInv, NEW id, NEW rec, Put(id, rec), Sound(id, rec), UNCHANGED ledger
    PROVE  StoreInv'
<1>. USE Zenon
<1>1. /\ DOMAIN handles' = DOMAIN handles \cup {id}
      /\ handles'[id] = rec
      /\ \A x \in DOMAIN handles : x # id => handles'[x] = handles[x]
  BY PutReads
<1>2. ASSUME NEW x \in DOMAIN handles'
      PROVE  /\ x.nonce \in Nat /\ x.intent \in Intents \cup {Cancel}
             /\ x.intent \in Intents => handles'[x].signed \in handles'[x].revs
             /\ x.intent \notin Intents => handles'[x].status.kind # "Dropped"
             /\ x.intent \in Intents /\ handles'[x].status.kind \in {"Replaced", "Dropped"}
                   => x.nonce < Len(ledger')
  <2>1. CASE x = id
    BY <1>1, <2>1 DEF Sound
  <2>2. CASE x # id
    <3>1. x \in DOMAIN handles /\ handles'[x] = handles[x]
      BY <1>1, <2>2
    <3>. QED BY <3>1 DEF StoreInv, Kind
  <2>. QED BY <2>1, <2>2
<1>3. ASSUME NEW x \in DOMAIN handles', NEW y \in DOMAIN handles',
             x.intent \in Intents, x.intent = y.intent,
             handles'[x].status.kind \notin Gone, handles'[y].status.kind \notin Gone
      PROVE  x = y
  <2>1. CASE x = id \/ y = id
    BY <1>1, <1>3, <2>1 DEF Sound, Kind
  <2>2. CASE x # id /\ y # id
    <3>1. x \in DOMAIN handles /\ handles'[x] = handles[x]
      BY <1>1, <2>2
    <3>2. y \in DOMAIN handles /\ handles'[y] = handles[y]
      BY <1>1, <2>2
    <3>. QED BY <1>3, <3>1, <3>2 DEF StoreInv, Kind
  <2>. QED BY <2>1, <2>2
<1>. QED BY <1>2, <1>3 DEF StoreInv, Kind

\* The record of a handle on file may be written again with the same status,
\* or with any status while the handle is live.
LEMMA SoundAgain ==
    ASSUME StoreInv, NEW id \in DOMAIN handles, NEW rec,
           id.intent \in Intents => rec.signed \in rec.revs,
           \/ rec.status = handles[id].status
           \/ /\ Kind(id) \notin Gone
              /\ id.intent \notin Intents => rec.status.kind # "Dropped"
              /\ id.intent \in Intents /\ rec.status.kind \in {"Replaced", "Dropped"}
                    => id.nonce < Len(ledger)
    PROVE  Sound(id, rec)
<1>. USE Zenon
<1>1. id.nonce \in Nat /\ id.intent \in Intents \cup {Cancel}
  BY DEF StoreInv
<1>2. id.intent \notin Intents => rec.status.kind # "Dropped"
  BY DEF StoreInv, Kind
<1>3. id.intent \in Intents /\ rec.status.kind \in {"Replaced", "Dropped"} => id.nonce < Len(ledger)
  BY DEF StoreInv, Kind
<1>4. ASSUME id.intent \in Intents, rec.status.kind \notin Gone,
             NEW y \in DOMAIN handles, y.intent = id.intent, Kind(y) \notin Gone
      PROVE  y = id
  BY <1>4 DEF StoreInv, Kind
<1>. QED BY <1>1, <1>2, <1>3, <1>4 DEF Sound

-----------------------------------------------------------------------------
(* What is on the wire *)

\* What is on the wire is in the pool or in the ledger.
LEMMA SameWire ==
    ASSUME UNCHANGED <<pool, ledger>>
    PROVE  Broadcasts' = Broadcasts
BY Zenon DEF Broadcasts

\* A broadcast adds its transaction at most.
LEMMA SubmitAdds ==
    ASSUME NEW tx, NEW result, Submit(tx, result), UNCHANGED ledger
    PROVE  \A t \in Broadcasts' : t \in Broadcasts \/ (t = tx /\ Ours(tx))
<1>1. pool' \subseteq pool \cup {tx}
  BY Zenon DEF Submit
<1>. QED BY Zenon, <1>1 DEF Broadcasts, Ours

\* What is on the wire for an intent has its handle on file.
LEMMA WireFiled ==
    ASSUME LInv, NEW t \in Broadcasts
    PROVE  t.intent \in Intents /\ IdOf(t) \in DOMAIN handles
BY Zenon DEF Broadcasts, Ours, LInv, PoolInv, LedgerInv, OnFile, IdOf

\* No transaction is added to the wire.
LEMMA WriteKeeps ==
    ASSUME WriteInv, UNCHANGED handles,
           \A t \in Broadcasts' : t \in Broadcasts,
           phase = "bumpPut" => UNCHANGED tickVars
    PROVE  WriteInv'
<1>. USE Zenon
<1>. SUFFICES ASSUME NEW t \in Broadcasts' PROVE Written(t)' /\ handles'[IdOf(t)].status.kind \notin Gone
  BY DEF WriteInv, Kind
<1>1. Written(t) /\ Kind(IdOf(t)) \notin Gone
  BY DEF WriteInv
<1>2. CASE phase = "bumpPut"
  BY <1>1, <1>2 DEF Written, Kind, tickVars
<1>3. CASE phase # "bumpPut"
  BY <1>1, <1>3 DEF Written, Kind
<1>. QED BY <1>2, <1>3

\* One transaction is, and its handle is alive and lists it.
LEMMA WriteAdds ==
    ASSUME WriteInv, UNCHANGED handles, NEW tx, phase # "bumpPut",
           \A t \in Broadcasts' : t \in Broadcasts \/ t = tx,
           tx \in Broadcasts' => Written(tx)' /\ Kind(IdOf(tx)) \notin Gone
    PROVE  WriteInv'
<1>. USE Zenon
<1>. SUFFICES ASSUME NEW t \in Broadcasts' PROVE Written(t)' /\ handles'[IdOf(t)].status.kind \notin Gone
  BY DEF WriteInv, Kind
<1>1. CASE t = tx
  BY <1>1 DEF Kind
<1>2. CASE t \in Broadcasts
  BY <1>2 DEF WriteInv, Written, Kind
<1>. QED BY <1>1, <1>2

\* A put that keeps the hashes on the wire, and does not end what is there.
LEMMA WritePuts ==
    ASSUME LInv, WriteInv, NEW id, NEW rec, Put(id, rec), UNCHANGED <<pool, ledger>>,
           \A t \in Broadcasts : IdOf(t) = id => t.rev \in rec.revs /\ rec.status.kind \notin Gone,
           phase # "bumpPut" \/ id = cur
    PROVE  WriteInv'
<1>. USE Zenon
<1>1. /\ DOMAIN handles' = DOMAIN handles \cup {id}
      /\ handles'[id] = rec
      /\ \A x \in DOMAIN handles : x # id => handles'[x] = handles[x]
  BY PutReads
<1>. SUFFICES ASSUME NEW t \in Broadcasts
              PROVE  t.rev \in handles'[IdOf(t)].revs /\ handles'[IdOf(t)].status.kind \notin Gone
  BY SameWire DEF WriteInv, Kind, Written
<1>2. CASE IdOf(t) = id
  BY <1>1, <1>2
<1>3. CASE IdOf(t) # id
  <2>1. handles'[IdOf(t)] = handles[IdOf(t)]
    BY <1>1, <1>3, WireFiled
  <2>2. Written(t) /\ Kind(IdOf(t)) \notin Gone
    BY DEF WriteInv
  <2>. QED BY <1>3, <2>1, <2>2 DEF Written, Kind
<1>. QED BY <1>2, <1>3

-----------------------------------------------------------------------------
(* The chain, the copies, the calls *)

LEMMA LedgerLength ==
    ASSUME LInv
    PROVE  Len(ledger) \in Nat
BY DEF LInv, LedgerInv

\* Neither the chain nor the wallet's reading of it moves.
LEMMA ChainKeeps ==
    ASSUME ChainInv, UNCHANGED <<pool, ledger, cycle>>
    PROVE  ChainInv'
BY Zenon DEF ChainInv

\* A broadcast, whatever it comes to: only what the node takes is pooled.
LEMMA ChainSubmits ==
    ASSUME Calm, ChainInv, NEW tx, NEW result, Submit(tx, result), IsTx(tx),
           UNCHANGED <<ledger, cycle>>
    PROVE  ChainInv'
<1>1. pool' = pool \/ (pool' = pool \cup {tx} /\ tx.nonce >= Len(ledger))
  BY Zenon DEF Submit, Calm, Fault
<1>. QED BY Zenon, <1>1 DEF ChainInv

\* The transaction of a handle on file is one.
LEMMA HandleTx ==
    ASSUME NEW id, NEW r, IsId(id), id.nonce \in Nat
    PROVE  IsTx(Tx(id, r)) /\ IdOf(Tx(id, r)) = id /\ Tx(id, r).rev = r
BY Zenon DEF IsTx, Tx, IdOf, IsId, Id

\* While a call runs the tick is idle, or waits with copies that the call does
\* not touch.
LEMMA CopyCalls ==
    ASSUME CopyInv, NEW p, Alone(p), UNCHANGED tickVars,
           \A x \in DOMAIN todo : x.intent \in Intents => handles'[x] = handles[x]
    PROVE  CopyInv'
<1>. USE Zenon
<1>1. /\ phase' = phase /\ todo' = todo /\ cur' = cur
      /\ phase # "put"
  BY DEF tickVars, Alone
<1>2. ASSUME NEW x \in DOMAIN todo', x.intent \in Intents
      PROVE  /\ todo'[x].revs = handles'[x].revs /\ todo'[x].signed = handles'[x].signed
             /\ ~IsTerminal(handles'[x].status)
             /\ todo'[x].status = handles'[x].status
  BY <1>1, <1>2 DEF CopyInv
<1>3. ASSUME NEW x \in DOMAIN todo', x.intent \notin Intents
      PROVE  ~todo'[x].cancelled /\ todo'[x].status.kind # "Dropped"
  BY <1>1, <1>3 DEF CopyInv
<1>4. phase' \in {"idle", "reset", "load"} => DOMAIN todo' = {}
  BY <1>1 DEF CopyInv
<1>. QED BY <1>1, <1>2, <1>3, <1>4 DEF CopyInv

\* The tick goes on with some of the same copies.
LEMMA CopyGoesOn ==
    ASSUME CopyInv, UNCHANGED handles, phase # "put", phase' # "put",
           DOMAIN todo' \subseteq DOMAIN todo,
           \A x \in DOMAIN todo' : todo'[x] = todo[x],
           phase' \in {"idle", "reset", "load"} => DOMAIN todo' = {}
    PROVE  CopyInv'
<1>. USE Zenon
<1>1. ASSUME NEW x \in DOMAIN todo', x.intent \in Intents
      PROVE  /\ todo'[x].revs = handles'[x].revs /\ todo'[x].signed = handles'[x].signed
             /\ ~IsTerminal(handles'[x].status)
             /\ todo'[x].status = handles'[x].status
  BY <1>1 DEF CopyInv
<1>2. ASSUME NEW x \in DOMAIN todo', x.intent \notin Intents
      PROVE  ~todo'[x].cancelled /\ todo'[x].status.kind # "Dropped"
  BY <1>2 DEF CopyInv
<1>. QED BY <1>1, <1>2 DEF CopyInv

\* After a put of the current record, the tick goes on with the other copies.
LEMMA CopyPuts ==
    ASSUME CopyInv, NEW rec, Put(cur, rec), todo' = Without(todo, cur),
           TodoInv,
           phase' \notin {"idle", "reset", "load", "put"}
    PROVE  CopyInv'
<1>. USE Zenon
<1>1. ASSUME NEW x \in DOMAIN todo'
      PROVE  x \in DOMAIN todo /\ x # cur /\ todo'[x] = todo[x] /\ handles'[x] = handles[x]
  <2>1. x \in DOMAIN todo /\ x # cur /\ todo'[x] = todo[x]
    BY DEF Without
  <2>2. x \in DOMAIN handles
    BY <2>1 DEF TodoInv
  <2>. QED BY <2>1, <2>2, PutReads
<1>2. ASSUME NEW x \in DOMAIN todo', x.intent \in Intents
      PROVE  /\ todo'[x].revs = handles'[x].revs /\ todo'[x].signed = handles'[x].signed
             /\ ~IsTerminal(handles'[x].status)
             /\ todo'[x].status = handles'[x].status
  BY <1>1, <1>2 DEF CopyInv
<1>3. ASSUME NEW x \in DOMAIN todo', x.intent \notin Intents
      PROVE  ~todo'[x].cancelled /\ todo'[x].status.kind # "Dropped"
  BY <1>1, <1>3 DEF CopyInv
<1>. QED BY <1>2, <1>3 DEF CopyInv

Fresh == Rec(Plain("Pending"), FALSE, {0}, 0)

\* What holds of the call p at l with locals j.
Call(p, l, j) ==
    /\ l \in Filed => handles[j.id] = j.rec
    /\ p \in Senders =>
          /\ l \in {"persist", "submit", "sent", "failed"} => j.rec = Fresh
          /\ l = "persist" => j.id.nonce \in Nat
          /\ l \in {"submit", "sent", "failed"} /\ j.id \in DOMAIN todo => j.id.intent \notin Intents
          /\ l \in {"submit", "failed"} => \A t \in Broadcasts : IdOf(t) # j.id
Evicting == {"cancel", "unpoison", "record"}
Flags ==
    \A x \in DOMAIN handles :
        x.intent \notin Intents /\ handles[x].cancelled =>
            \E c \in Cancellers : pc[c] \in Evicting /\ job[c].id = x

LEMMA CallByCall == CallInv <=> (\A p \in Tasks : Call(p, pc[p], job[p])) /\ Flags
<1>1. Senders \subseteq Tasks
  BY Zenon DEF Tasks
<1>. QED BY Zenon, <1>1 DEF CallInv, Call, Flags, Evicting, Fresh

\* A call at rest promises nothing.
LEMMA AtRest ==
    ASSUME NEW p, NEW l \in Idle, NEW j
    PROVE  Call(p, l, j)
<1>1. l \notin Filed /\ l \notin {"persist", "submit", "sent", "failed"}
  BY Zenon DEF Idle, Filed, Carrying
<1>. QED BY Zenon, <1>1 DEF Call

\* The call p moves to l with locals j, and no other call is under way.
LEMMA CallMoves ==
    ASSUME JobInv, NEW p \in Tasks, NEW l, NEW j, Alone(p),
           Goto(p, l) \/ (UNCHANGED pc /\ l = pc[p]),
           job' = [job EXCEPT ![p] = j] \/ (job' = job /\ j = job[p]),
           Call(p, l, j)',
           \A x \in DOMAIN handles' :
              x.intent \notin Intents /\ handles'[x].cancelled =>
                 p \in Cancellers /\ l \in Evicting /\ j.id = x
    PROVE  CallInv'
<1>. USE Zenon
<1>1. pc'[p] = l /\ job'[p] = j
  BY DEF JobInv, Goto
<1>2. ASSUME NEW q \in Tasks, q # p PROVE pc'[q] \in Idle
  BY <1>2 DEF JobInv, Goto, Alone
<1>3. ASSUME NEW q \in Tasks PROVE Call(q, pc[q], job[q])'
  <2>1. CASE q = p
    BY <1>1, <2>1 DEF Call
  <2>2. CASE q # p
    BY <1>2, <2>2 DEF Call, Idle, Filed, Carrying
  <2>. QED BY <2>1, <2>2
<1>4. Flags'
  BY <1>1 DEF Flags
<1>5. Senders \subseteq Tasks
  BY DEF Tasks
<1>. QED BY <1>3, <1>4, <1>5 DEF CallInv, Call, Flags, Evicting, Fresh

\* No call is under way, and no cancel is marked.
LEMMA CallRests ==
    ASSUME \A p \in Tasks : pc'[p] \in Idle,
           \A x \in DOMAIN handles' : x.intent \notin Intents => ~handles'[x].cancelled
    PROVE  CallInv'
<1>. USE Zenon
<1>1. ASSUME NEW q \in Tasks
      PROVE  pc'[q] \notin Filed /\ pc'[q] \notin {"persist", "submit", "sent", "failed"}
  BY DEF Idle, Filed, Carrying
<1>2. Senders \subseteq Tasks
  BY DEF Tasks
<1>. QED BY <1>1, <1>2 DEF CallInv

\* Cancels are unmarked while no cancel is under way.
LEMMA Unmarked ==
    ASSUME CallInv, \A c \in Cancellers : pc[c] \in Idle
    PROVE  \A x \in DOMAIN handles : x.intent \notin Intents => ~handles[x].cancelled
<1>1. \A c \in Cancellers : pc[c] \notin {"cancel", "unpoison", "record"}
  BY Zenon DEF Idle
<1>. QED BY Zenon, <1>1 DEF CallInv

\* Or while a send is.
LEMMA UnmarkedSend ==
    ASSUME CallInv, NEW p \in Senders, Alone(p)
    PROVE  \A x \in DOMAIN handles : x.intent \notin Intents => ~handles[x].cancelled
<1>1. \A c \in Cancellers : pc[c] \in Idle
  BY Zenon, WalletRuntimeAssumption DEF Alone, Tasks
<1>. QED BY Zenon, <1>1, Unmarked

\* While the call c runs, a marked cancel is its target.
LEMMA MarkedTarget ==
    ASSUME CallInv, NEW c \in Cancellers, Alone(c),
           NEW x \in DOMAIN handles, x.intent \notin Intents, handles[x].cancelled
    PROVE  pc[c] \in Evicting /\ job[c].id = x
<1>. USE Zenon
<1>1. PICK d \in Cancellers : pc[d] \in {"cancel", "unpoison", "record"} /\ job[d].id = x
  BY DEF CallInv
<1>2. d = c
  BY <1>1 DEF Alone, Tasks, Idle
<1>. QED BY <1>1, <1>2 DEF Evicting

\* First sends: handles of no intent are filed, and nobody starts over.
LEMMA FirstKeeps ==
    ASSUME FirstInv,
           \A x \in DOMAIN handles' : x \in DOMAIN handles \/ x.intent \notin Intents,
           \A i \in Intents : pc'[i] \in Starting =>
              pc[i] \in Starting /\ (pc'[i] = "persist" => job'[i].id.intent = i)
    PROVE  FirstInv'
BY Zenon DEF FirstInv

\* No call moves, and only a cancel gets a handle.
LEMMA FirstStays ==
    ASSUME FirstInv, UNCHANGED <<pc, job>>,
           \A x \in DOMAIN handles' : x \in DOMAIN handles \/ x.intent \notin Intents
    PROVE  FirstInv'
<1>1. \A i \in Intents : pc'[i] \in Starting =>
         pc[i] \in Starting /\ (pc'[i] = "persist" => job'[i].id.intent = i)
  BY Zenon DEF FirstInv
<1>. QED BY Zenon, <1>1, FirstKeeps

\* A call that moves to l, outside the first steps of a send.
LEMMA FirstMoves ==
    ASSUME JobInv, FirstInv, NEW p \in Tasks, NEW l, l \notin Starting, Goto(p, l),
           \A q \in Tasks : q # p => job'[q] = job[q],
           \A x \in DOMAIN handles' : x \in DOMAIN handles \/ x.intent \notin Intents
    PROVE  FirstInv'
<1>. USE Zenon
<1>1. ASSUME NEW i \in Intents, pc'[i] \in Starting
      PROVE  pc[i] \in Starting /\ (pc'[i] = "persist" => job'[i].id.intent = i)
  <2>1. i \in Tasks
    BY DEF Tasks, Senders
  <2>2. pc'[p] = l
    BY DEF Goto, JobInv
  <2>3. i # p
    BY <1>1, <2>2
  <2>4. pc'[i] = pc[i] /\ job'[i] = job[i]
    BY <2>1, <2>3 DEF Goto, JobInv
  <2>. QED BY <1>1, <2>4 DEF FirstInv
<1>. QED BY <1>1, FirstKeeps

\* A resend does not start, or goes on from the same handles.
LEMMA AgainKeeps ==
    ASSUME AgainInv,
           pc'[Refiller] \in Starting =>
              /\ pc[Refiller] \in Starting /\ UNCHANGED handles
              /\ job'[Refiller].id.intent = job[Refiller].id.intent
    PROVE  AgainInv'
BY Zenon DEF AgainInv, Kind

\* The step of a call by itself.
LEMMA AgainMoves ==
    ASSUME JobInv, AgainInv, TurnInv, NEW p \in Tasks, NEW l, l \notin Starting, Goto(p, l), Alone(p)
    PROVE  AgainInv'
<1>. USE Zenon
<1>1. Refiller \in Tasks
  BY DEF Tasks, Senders
<1>2. pc'[Refiller] \notin Starting
  <2>1. CASE p = Refiller
    BY <1>1, <2>1 DEF Goto, JobInv
  <2>2. CASE p # Refiller
    <3>1. pc[Refiller] = "done"
      BY <2>2 DEF Alone, TurnInv
    <3>2. pc'[Refiller] = "done"
      BY <1>1, <2>2, <3>1 DEF Goto, JobInv
    <3>. QED BY <3>2 DEF Starting
  <2>. QED BY <2>1, <2>2
<1>. QED BY <1>2, AgainKeeps

-----------------------------------------------------------------------------
(* The steps of a call that runs by itself *)

\* Neither the store nor the ledger changes.
LEMMA StoreSame ==
    ASSUME StoreInv, UNCHANGED <<handles, ledger>>
    PROVE  StoreInv'
BY Zenon DEF StoreInv, Kind

\* The call moves and leaves the store and the wire alone.
LEMMA CallMovesOnly ==
    ASSUME LInv, OInv, NEW p \in Tasks, NEW l, Alone(p), Goto(p, l),
           UNCHANGED <<handles, pool, ledger, tickVars>>
    PROVE  TurnInv' /\ ChainInv' /\ StoreInv' /\ WriteInv' /\ CopyInv'
<1>. USE Zenon
<1>. USE DEF OInv
<1>1. TurnInv'
  BY TurnGoesOn DEF LInv
<1>2. ChainInv'
  BY ChainKeeps DEF tickVars
<1>3. StoreInv'
  BY StoreSame
<1>4. WriteInv'
  BY WriteKeeps, SameWire
<1>5. CopyInv'
  BY CopyCalls
<1>. QED BY <1>1, <1>2, <1>3, <1>4, <1>5

\* The call moves and broadcasts.
LEMMA CallBroadcasts ==
    ASSUME Calm, LInv, OInv, NEW p \in Tasks, NEW l, Alone(p), Goto(p, l) \/ UNCHANGED pc,
           UNCHANGED <<handles, ledger, tickVars>>,
           NEW tx, NEW result, Submit(tx, result), IsTx(tx),
           Ours(tx) => tx.rev \in handles[IdOf(tx)].revs /\ Kind(IdOf(tx)) \notin Gone
    PROVE  TurnInv' /\ ChainInv' /\ StoreInv' /\ WriteInv' /\ CopyInv'
<1>. USE Zenon
<1>. USE DEF OInv
<1>1. TurnInv'
  <2>1. CASE Goto(p, l)
    BY <2>1, TurnGoesOn DEF LInv
  <2>2. CASE UNCHANGED pc
    BY <2>2 DEF TurnInv, tickVars
  <2>. QED BY <2>1, <2>2
<1>2. ChainInv'
  BY ChainSubmits DEF tickVars
<1>3. StoreInv'
  BY StoreSame
<1>4. WriteInv'
  <2>1. \A t \in Broadcasts' : t \in Broadcasts \/ (t = tx /\ Ours(tx))
    BY SubmitAdds
  <2>2. ASSUME Ours(tx) PROVE Written(tx)'
    BY <2>2 DEF Written
  <2>3. phase # "bumpPut"
    BY DEF Alone
  <2>4. tx \in Broadcasts' => Written(tx)' /\ Kind(IdOf(tx)) \notin Gone
    BY <2>2 DEF Broadcasts
  <2>5. UNCHANGED handles /\ \A t \in Broadcasts' : t \in Broadcasts \/ t = tx
    BY <2>1
  <2>. QED BY <2>3, <2>4, <2>5, WriteAdds
<1>5. CopyInv'
  BY CopyCalls
<1>. QED BY <1>1, <1>2, <1>3, <1>4, <1>5

\* The call moves and writes a record.
LEMMA CallWrites ==
    ASSUME LInv, OInv, NEW p \in Tasks, NEW l, Alone(p), Goto(p, l),
           UNCHANGED <<pool, ledger, tickVars>>,
           NEW id, NEW rec, Put(id, rec), Sound(id, rec),
           \A t \in Broadcasts : IdOf(t) = id => t.rev \in rec.revs /\ rec.status.kind \notin Gone,
           id \in DOMAIN todo => id.intent \notin Intents
    PROVE  TurnInv' /\ ChainInv' /\ StoreInv' /\ WriteInv' /\ CopyInv'
<1>. USE Zenon
<1>. USE DEF OInv
<1>1. TurnInv'
  BY TurnGoesOn DEF LInv
<1>2. ChainInv'
  BY ChainKeeps DEF tickVars
<1>3. StoreInv'
  BY StorePuts
<1>4. WriteInv'
  <2>1. phase # "bumpPut"
    BY DEF Alone
  <2>. QED BY <2>1, WritePuts
<1>5. CopyInv'
  <2>1. ASSUME NEW x \in DOMAIN todo, x.intent \in Intents PROVE handles'[x] = handles[x]
    <3>1. x # id /\ x \in DOMAIN handles
      BY <2>1 DEF LInv, TodoInv
    <3>. QED BY <3>1, PutReads
  <2>. QED BY <2>1, CopyCalls
<1>. QED BY <1>1, <1>2, <1>3, <1>4, <1>5

\* The call returns.
LEMMA CallReturns ==
    ASSUME JobInv, TurnInv, FirstInv, AgainInv, NEW p \in Tasks, Alone(p), Return(p),
           \A x \in DOMAIN handles' : x \in DOMAIN handles \/ x.intent \notin Intents,
           \A x \in DOMAIN handles' : x.intent \notin Intents => ~handles'[x].cancelled
    PROVE  CallInv' /\ FirstInv' /\ AgainInv'
<1>. USE Zenon
<1>1. Goto(p, "done") /\ job' = [job EXCEPT ![p] = NoJob]
  BY DEF Return
<1>2. "done" \in Idle /\ "done" \notin Starting
  BY DEF Idle, Starting
<1>3. \A q \in Tasks : pc'[q] \in Idle
  BY <1>1, <1>2 DEF Goto, JobInv, Alone
<1>4. CallInv'
  BY <1>3, CallRests
<1>5. FirstInv'
  <2>1. \A q \in Tasks : q # p => job'[q] = job[q]
    BY <1>1 DEF JobInv
  <2>. QED BY <1>1, <1>2, <2>1, FirstMoves
<1>6. AgainInv'
  BY <1>1, <1>2, AgainMoves
<1>. QED BY <1>4, <1>5, <1>6

-----------------------------------------------------------------------------
(* send *)

\* A send starts alone: for the host, or within the tick.
LEMMA SendAlone ==
    ASSUME Calm, TurnInv, NEW p \in Senders, SendPreflight(p)
    PROVE  Alone(p)
<1>. USE Zenon
<1>1. p \in Tasks
  BY DEF Tasks
<1>2. CASE p # Refiller
  BY <1>1, <1>2, StartsAlone DEF SendPreflight
<1>3. CASE p = Refiller
  <2>1. phase = "refill"
    BY <1>3 DEF TurnInv, SendPreflight
  <2>2. ASSUME NEW q \in Tasks, q # Refiller PROVE pc[q] \in Idle
    BY <2>1, <2>2 DEF TurnInv
  <2>. QED BY <1>3, <2>1, <2>2 DEF Alone
<1>. QED BY <1>2, <1>3

\* Before a send files its handle, no handle of its intent is live.
LEMMA NoneLive ==
    ASSUME OInv, NEW p \in Senders, pc[p] = "persist"
    PROVE  /\ job[p].id.intent \in Intents \cup {Cancel}
           /\ \A x \in DOMAIN handles :
                 x.intent = job[p].id.intent /\ x.intent \in Intents => Kind(x) \in Gone
<1>. USE Zenon
<1>. USE DEF OInv
<1>1. pc[p] \in Starting
  BY DEF Starting
<1>2. CASE p \in Intents
  BY <1>1, <1>2 DEF FirstInv
<1>3. CASE p = Refiller
  BY <1>1, <1>3 DEF AgainInv, StoreInv
<1>. QED BY <1>2, <1>3 DEF Senders

-----------------------------------------------------------------------------
(* cancel *)

\* A cancel is no send.
LEMMA Cancelling ==
    ASSUME NEW c \in Cancellers
    PROVE  c \in Tasks /\ c \notin Senders /\ c # Refiller /\ Cancel \notin Intents
BY Zenon, WalletRuntimeAssumption DEF Tasks, Senders

\* While a cancel runs: where it is, and the handle it works on.
LEMMA CancelRuns ==
    ASSUME LInv, OInv, NEW c \in Cancellers, pc[c] \in {"poison", "cancel", "unpoison", "record"}
    PROVE  /\ Alone(c) /\ DOMAIN todo = {}
           /\ job[c].id \in DOMAIN handles /\ handles[job[c].id] = job[c].rec
           /\ IsId(job[c].id) /\ job[c].id.nonce \in Nat
<1>. USE Zenon
<1>. USE DEF OInv
<1>0. c \in Tasks /\ c # Refiller
  BY Cancelling
<1>1. pc[c] \notin Idle /\ pc[c] \in Filed
  BY DEF Idle, Filed, Carrying
<1>2. Alone(c)
  BY <1>0, <1>1, BusyAlone
<1>3. phase = "idle"
  BY <1>0, <1>2 DEF Alone
<1>4. DOMAIN todo = {}
  BY <1>3 DEF CopyInv
<1>5. job[c].id \in DOMAIN handles
  BY <1>0, <1>1 DEF LInv, JobInv
<1>. QED BY <1>0, <1>1, <1>2, <1>4, <1>5 DEF CallInv, LInv, HandlesInv, StoreInv

\* Writing the target again with another flag.
LEMMA FlagsOnly ==
    ASSUME LInv, OInv, NEW c \in Cancellers, pc[c] \in {"poison", "unpoison"}, NEW b,
           NEW rec, rec = Cancelled(job[c].rec, b)
    PROVE  /\ Sound(job[c].id, rec) /\ rec.cancelled = b
           /\ \A t \in Broadcasts :
                 IdOf(t) = job[c].id => t.rev \in rec.revs /\ rec.status.kind \notin Gone
<1>. USE Zenon
<1>. USE DEF OInv
<1>1. /\ job[c].id \in DOMAIN handles /\ handles[job[c].id] = job[c].rec
      /\ Alone(c)
  BY CancelRuns
<1>2. /\ rec.status = job[c].rec.status /\ rec.cancelled = b
      /\ rec.revs = job[c].rec.revs /\ rec.signed = job[c].rec.signed
  BY DEF Cancelled, Rec
<1>3. job[c].id.intent \in Intents => rec.signed \in rec.revs
  BY <1>1, <1>2 DEF StoreInv
<1>4. Sound(job[c].id, rec)
  BY <1>1, <1>2, <1>3, SoundAgain
<1>5. phase # "bumpPut"
  BY <1>1 DEF Alone
<1>6. ASSUME NEW t \in Broadcasts, IdOf(t) = job[c].id
      PROVE  t.rev \in rec.revs /\ rec.status.kind \notin Gone
  BY <1>1, <1>2, <1>5, <1>6 DEF WriteInv, Written, Kind
<1>. QED BY <1>2, <1>4, <1>6

-----------------------------------------------------------------------------
(* tick *)

\* While the tick works no call is under way and no cancel is marked.
Quiet == (\A p \in Tasks : pc[p] \in Idle) /\ pc[Refiller] = "done"

\* While the tick works no call does, and no cancel is marked cancelled.
LEMMA TickQuiet ==
    ASSUME Calm, OInv,
           phase \notin {"idle", "refill"} \/ (phase = "idle" /\ MayStart) \/
              (phase = "refill" /\ pc[Refiller] = "done")
    PROVE  Quiet /\ \A x \in DOMAIN handles : x.intent \notin Intents => ~handles[x].cancelled
<1>. USE Zenon
<1>. USE DEF OInv
<1>1. CASE phase = "refill" /\ pc[Refiller] = "done"
  <2>1. ASSUME NEW p \in Tasks PROVE pc[p] \in Idle
    BY <1>1 DEF TurnInv, Idle
  <2>2. \A c \in Cancellers : pc[c] \in Idle
    BY <2>1 DEF Tasks
  <2>. QED BY <1>1, <2>1, <2>2, Unmarked DEF Quiet
<1>2. CASE phase \notin {"idle", "refill"} \/ (phase = "idle" /\ MayStart)
  <2>1. phase # "refill"
    BY <1>2
  <2>2. Quiet
    BY <1>2, <2>1, TickAlone DEF Quiet
  <2>3. \A c \in Cancellers : pc[c] \in Idle
    BY <2>2 DEF Tasks, Quiet
  <2>. QED BY <2>2, <2>3, Unmarked
<1>. QED BY <1>1, <1>2

\* A step of the tick that leaves the calls alone.
LEMMA TickSteps ==
    ASSUME OInv, Quiet, UNCHANGED taskVars,
           \A x \in DOMAIN handles' : x \in DOMAIN handles \/ x.intent \notin Intents,
           \A x \in DOMAIN handles' : x.intent \notin Intents => ~handles'[x].cancelled
    PROVE  TurnInv' /\ CallInv' /\ FirstInv' /\ AgainInv'
<1>. USE Zenon
<1>. USE DEF OInv
<1>1. pc' = pc /\ job' = job
  BY DEF taskVars
<1>2. TurnInv'
  BY <1>1, TurnTicks DEF Quiet
<1>3. CallInv'
  BY <1>1, CallRests DEF Quiet
<1>4. FirstInv'
  BY <1>1, FirstStays
<1>5. pc'[Refiller] \notin Starting
  BY <1>1 DEF Quiet, Starting
<1>6. AgainInv'
  BY <1>5, AgainKeeps
<1>. QED BY <1>2, <1>3, <1>4, <1>6

\* The transaction of a copy that the tick broadcasts again.
LEMMA CopyTx ==
    ASSUME LInv, OInv, NEW id \in DOMAIN todo, NEW r, phase # "put"
    PROVE  /\ IsTx(Tx(id, r)) /\ IdOf(Tx(id, r)) = id /\ Tx(id, r).rev = r
           /\ Ours(Tx(id, r)) =>
                 /\ id.intent \in Intents /\ Kind(id) \notin Gone
                 /\ todo[id].signed \in handles[id].revs
<1>. USE Zenon
<1>. USE DEF OInv
<1>1. id \in DOMAIN handles /\ IsId(id) /\ id.nonce \in Nat
  BY DEF LInv, TodoInv, HandlesInv, StoreInv
<1>2. IsTx(Tx(id, r)) /\ IdOf(Tx(id, r)) = id /\ Tx(id, r).rev = r
  BY <1>1, HandleTx
<1>3. Tx(id, r).intent = id.intent
  BY DEF Tx
<1>4. ASSUME id.intent \in Intents
      PROVE  Kind(id) \notin Gone /\ todo[id].signed \in handles[id].revs
  <2>1. ~IsTerminal(handles[id].status) /\ todo[id].signed = handles[id].signed
    BY <1>4 DEF CopyInv
  <2>2. Kind(id) \notin Gone
    BY <2>1 DEF IsTerminal, Gone, Kind
  <2>. QED BY <1>1, <1>4, <2>1, <2>2 DEF StoreInv
<1>. QED BY <1>2, <1>3, <1>4 DEF Ours

\* What is left to do when a handle is done with.
LEMMA WithoutOne ==
    ASSUME NEW id, todo' = Without(todo, id)
    PROVE  DOMAIN todo' \subseteq DOMAIN todo /\ \A x \in DOMAIN todo' : todo'[x] = todo[x]
BY Zenon DEF Without

\* What advance_on_chain reads off the chain: a live handle is over only when
\* its nonce was counted and none of its hashes is there.
LEMMA NextGone ==
    ASSUME NEW id, NEW rec, ~IsTerminal(rec.status), NextStatus(id, rec).kind \in Gone
    PROVE  id.nonce < cycle /\ ~(id.nonce < Len(ledger) /\ \E r \in rec.revs : ledger[id.nonce + 1] = Tx(id, r))
<1>. USE Zenon
<1>. DEFINE mined == id.nonce < Len(ledger) /\ \E r \in rec.revs : ledger[id.nonce + 1] = Tx(id, r)
            e == EventFor(id, rec)
            next == Transition(rec.status, e, OneConfirmation, 1)
<1>1. e = IF mined THEN Event("Mined", 0, 0, TRUE)
          ELSE Event(IF id.nonce < cycle THEN "Replaced" ELSE "Pending", 0, 0, FALSE)
  BY DEF EventFor
<1>2. next.kind \in Gone
  BY DEF NextStatus, Gone, Plain, Status
<1>. HIDE DEF mined, next
<1>3. CASE mined
  <2>1. e = Event("Mined", 0, 0, TRUE)
    BY <1>1, <1>3
  <2>2. e.kind = "Mined" /\ e.executed = TRUE
    BY SMT, <2>1 DEF Event
  <2>. HIDE DEF e
  <2>3. next = OnMined(e, OneConfirmation, 1)
    BY <2>2 DEF next, Transition
  <2>4. OnMined(e, OneConfirmation, 1).kind \in {"Confirmed", "Mined"}
    BY <2>2 DEF OnMined, Status
  <2>. QED BY <1>2, <2>3, <2>4 DEF Gone
<1>4. CASE ~mined /\ ~(id.nonce < cycle)
  <2>1. e = Event("Pending", 0, 0, FALSE)
    BY <1>1, <1>4
  <2>2. e.kind = "Pending"
    BY SMT, <2>1 DEF Event
  <2>. HIDE DEF e
  <2>3. next = OnPending(rec.status)
    BY <2>2 DEF next, Transition
  <2>4. OnPending(rec.status).kind \notin Gone
    BY DEF OnPending, Plain, Status, IsTerminal, Gone
  <2>. QED BY <1>2, <2>3, <2>4
<1>. QED BY <1>3, <1>4 DEF mined

\* Dropped is for cancelled handles.
LEMMA NextDropped ==
    ASSUME NEW id, NEW rec, ~rec.cancelled, rec.status.kind # "Dropped"
    PROVE  NextStatus(id, rec).kind # "Dropped"
<1>1. \A e : Transition(rec.status, e, OneConfirmation, 1).kind # "Dropped"
  BY Zenon DEF Transition, OnPending, OnMined, OnReplaced, Plain, Status
<1>. QED BY Zenon, <1>1 DEF NextStatus

\* With every hash on the wire on file, a live handle whose nonce is taken and
\* none of whose hashes is on the chain is nowhere.
LEMMA NowhereToBeSeen ==
    ASSUME LInv, OInv, NEW id \in DOMAIN todo, id.intent \in Intents, phase = "confirm",
           NextStatus(id, todo[id]).kind \in Gone
    PROVE  id.nonce < Len(ledger) /\ \A t \in Broadcasts : IdOf(t) # id
<1>. USE Zenon
<1>. USE DEF OInv
<1>1. phase # "put" /\ phase # "bumpPut"
  OBVIOUS
<1>2. /\ todo[id].revs = handles[id].revs /\ todo[id].status = handles[id].status
      /\ ~IsTerminal(handles[id].status)
  BY <1>1 DEF CopyInv
<1>3. /\ id.nonce < cycle
      /\ ~(id.nonce < Len(ledger) /\ \E r \in todo[id].revs : ledger[id.nonce + 1] = Tx(id, r))
  BY <1>2, NextGone
<1>4. id \in DOMAIN handles /\ id.nonce \in Nat /\ Len(ledger) \in Nat
  BY LedgerLength DEF LInv, TodoInv, StoreInv
<1>5. id.nonce < Len(ledger)
  BY SMT, <1>3, <1>4 DEF ChainInv
<1>6. ASSUME NEW t \in Broadcasts, IdOf(t) = id PROVE FALSE
  <2>1. t.intent = id.intent /\ t.nonce = id.nonce
    BY <1>6 DEF IdOf, Id
  <2>2. t.rev \in todo[id].revs
    BY <1>1, <1>2, <1>6 DEF WriteInv, Written
  <2>3. CASE t \in pool
    <3>1. t.nonce >= Len(ledger)
      BY <2>3 DEF ChainInv
    <3>. QED BY SMT, <1>4, <1>5, <2>1, <3>1
  <2>4. CASE \E k \in 1 .. Len(ledger) : t = ledger[k]
    <3>1. PICK k \in 1 .. Len(ledger) : t = ledger[k]
      BY <2>4
    <3>2. t = Tx(IdOf(t), t.rev) /\ t.nonce = k - 1
      BY <3>1 DEF ChainInv, IsTx
    <3>3. k = id.nonce + 1
      BY SMT, <1>4, <2>1, <3>2
    <3>. QED BY <1>3, <1>5, <1>6, <2>2, <3>1, <3>2, <3>3
  <2>. QED BY <2>3, <2>4 DEF Broadcasts
<1>. QED BY <1>5, <1>6

\* The tick writes its copy back, with another status or another hash.
LEMMA SoundCopy ==
    ASSUME LInv, OInv, phase \in {"put", "bumpPut"}, NEW rec,
           rec.status = todo[cur].status,
           cur.intent \in Intents => rec.signed \in rec.revs
    PROVE  cur \in DOMAIN todo /\ cur \in DOMAIN handles /\ Sound(cur, rec)
<1>. USE Zenon
<1>. USE DEF OInv
<1>1. cur \in DOMAIN todo /\ cur \in DOMAIN handles
  BY DEF LInv, TodoInv
<1>2. CASE cur.intent \notin Intents
  <2>1. cur.nonce \in Nat /\ cur.intent \in Intents \cup {Cancel}
    BY <1>1 DEF StoreInv
  <2>2. rec.status.kind # "Dropped"
    BY <1>1, <1>2 DEF CopyInv
  <2>. QED BY <1>1, <1>2, <2>1, <2>2 DEF Sound
<1>3. CASE cur.intent \in Intents
  <2>1. ~IsTerminal(handles[cur].status)
        /\ (rec.status = handles[cur].status \/ phase = "put")
    BY <1>1, <1>3 DEF CopyInv
  <2>2. Kind(cur) \notin Gone
    BY <2>1 DEF IsTerminal, Gone, Kind
  <2>3. CASE rec.status = handles[cur].status
    BY <1>1, <2>3, SoundAgain
  <2>4. CASE phase = "put"
    <3>1. "Replaced" \in Gone /\ "Dropped" \in Gone
      BY DEF Gone
    <3>2. rec.status.kind \in {"Replaced", "Dropped"} => cur.nonce < Len(ledger)
      BY <1>3, <2>4, <3>1 DEF CopyInv
    <3>. QED BY <1>1, <1>3, <2>2, <3>2, SoundAgain
  <2>. QED BY <2>1, <2>3, <2>4
<1>. QED BY <1>2, <1>3

-----------------------------------------------------------------------------
(* The theorems *)

LEMMA OInvInit == Init => OInv
<1>. USE Zenon
<1>. SUFFICES ASSUME Init PROVE OInv
  OBVIOUS
<1>1. Refiller \in Tasks
  BY DEF Tasks, Senders
<1>2. TurnInv
  BY <1>1 DEF Init, TurnInv, Idle
<1>3. ChainInv /\ StoreInv
  BY SMT DEF Init, ChainInv, StoreInv, Empty
<1>4. WriteInv
  BY SMT DEF Init, WriteInv, Broadcasts
<1>5. CopyInv
  BY DEF Init, CopyInv, Empty
<1>6. CallInv
  <2>1. \A p \in Tasks : pc[p] \in {"new", "done"}
    BY DEF Init
  <2>2. \A p \in Tasks : pc[p] \notin Filed /\ pc[p] \notin {"persist", "submit", "sent", "failed"}
    BY <2>1 DEF Filed, Carrying
  <2>3. DOMAIN handles = {}
    BY DEF Init, Empty
  <2>4. Senders \subseteq Tasks
    BY DEF Tasks
  <2>. QED BY <2>2, <2>3, <2>4 DEF CallInv
<1>7. FirstInv
  <2>1. \A i \in Intents : pc[i] = "new"
    BY WalletRuntimeAssumption DEF Init, Tasks, Senders
  <2>2. DOMAIN handles = {}
    BY DEF Init, Empty
  <2>. QED BY <2>1, <2>2 DEF FirstInv
<1>8. AgainInv
  BY <1>1 DEF Init, AgainInv, Starting
<1>. QED BY <1>2, <1>3, <1>4, <1>5, <1>6, <1>7, <1>8 DEF OInv

LEMMA OInvStep ==
    ASSUME Calm
    PROVE  LInv /\ OInv /\ [Next]_vars => OInv'
<1>. USE Zenon
<1>. SUFFICES ASSUME LInv, OInv PROVE [Next]_vars => OInv'
  OBVIOUS
\* send: the checks before a nonce is taken.
<1>OSendStarts. ASSUME NEW p \in Senders, SendPreflight(p)
                PROVE  OInv'
  <2>. USE <1>OSendStarts
  <2>. USE DEF OInv
  <2>0. p \in Tasks /\ Refiller \in Tasks /\ Intents \subseteq Tasks
    BY DEF Tasks, Senders
  <2>1. Alone(p)
    BY SendAlone
  <2>2. UNCHANGED <<handles, pool, ledger, tickVars>>
    BY DEF SendPreflight, walletVars, chainVars
  <2>3. \A x \in DOMAIN handles' : x.intent \notin Intents => ~handles'[x].cancelled
    BY <2>1, <2>2, UnmarkedSend
  <2>4. CASE Return(p)
    <3>1. Goto(p, "done")
      BY <2>4 DEF Return
    <3>2. TurnInv' /\ ChainInv' /\ StoreInv' /\ WriteInv' /\ CopyInv'
      BY <2>0, <2>1, <2>2, <3>1, CallMovesOnly
    <3>3. CallInv' /\ FirstInv' /\ AgainInv'
      BY <2>0, <2>1, <2>2, <2>3, <2>4, CallReturns DEF LInv
    <3>. QED BY <3>2, <3>3
  <2>5. CASE Goto(p, "allocate") /\ UNCHANGED job
    <3>1. TurnInv' /\ ChainInv' /\ StoreInv' /\ WriteInv' /\ CopyInv'
      BY <2>0, <2>1, <2>2, <2>5, CallMovesOnly
    <3>2. pc'[p] = "allocate" /\ \A q \in Tasks : q # p => pc'[q] = pc[q]
      BY <2>0, <2>5 DEF Goto, LInv, JobInv
    <3>3. CallInv'
      <4>1. PICK j : j = job[p]
        OBVIOUS
      <4>2. Call(p, "allocate", j)'
        BY DEF Call, Filed, Carrying
      <4>. QED BY <2>0, <2>1, <2>3, <2>5, <4>1, <4>2, CallMoves DEF LInv
    <3>4. pc[p] \in Starting
      BY DEF SendPreflight, Starting
    <3>5. FirstInv'
      <4>1. \A i \in Intents : pc'[i] \in Starting =>
               pc[i] \in Starting /\ (pc'[i] = "persist" => job'[i].id.intent = i)
        BY <2>0, <2>5, <3>2, <3>4 DEF FirstInv
      <4>. QED BY <2>2, <4>1, FirstKeeps
    <3>6. AgainInv'
      BY <2>0, <2>2, <2>5, <3>2, <3>4, AgainKeeps
    <3>. QED BY <3>1, <3>3, <3>5, <3>6
  <2>. QED BY <2>4, <2>5 DEF SendPreflight
\* send: the nonce is reserved.
<1>OSendAllocates. ASSUME NEW p \in Senders, SendAllocate(p)
                   PROVE  OInv'
  <2>. USE <1>OSendAllocates
  <2>. USE DEF OInv
  <2>0. p \in Tasks /\ Refiller \in Tasks /\ Intents \subseteq Tasks
    BY DEF Tasks, Senders
  <2>1. pc[p] = "allocate" /\ pc[p] \in Starting /\ Alone(p)
    BY <2>0, BusyAlone DEF SendAllocate, Idle, Starting
  <2>2. UNCHANGED <<handles, pool, ledger, tickVars>>
    BY DEF SendAllocate, chainVars
  <2>3. \A x \in DOMAIN handles' : x.intent \notin Intents => ~handles'[x].cancelled
    BY <2>1, <2>2, UnmarkedSend
  <2>4. CASE Return(p)
    <3>1. Goto(p, "done")
      BY <2>4 DEF Return
    <3>2. TurnInv' /\ ChainInv' /\ StoreInv' /\ WriteInv' /\ CopyInv'
      BY <2>0, <2>1, <2>2, <3>1, CallMovesOnly
    <3>3. CallInv' /\ FirstInv' /\ AgainInv'
      BY <2>0, <2>1, <2>2, <2>3, <2>4, CallReturns DEF LInv
    <3>. QED BY <3>2, <3>3
  <2>5. CASE ~Return(p)
    <3>1. PICK n \in 0 .. MaxNonce :
             /\ job' = [job EXCEPT ![p] = Job(Id(Intent(p), n), Fresh, 0, FALSE)]
             /\ Goto(p, "persist")
      BY <2>5 DEF SendAllocate, Fresh
    <3>2. PICK j : j = Job(Id(Intent(p), n), Fresh, 0, FALSE)
      OBVIOUS
    <3>3. j.id.intent = Intent(p) /\ j.id.nonce = n /\ j.rec = Fresh
      BY <3>2 DEF Job, Id
    <3>4. job' = [job EXCEPT ![p] = j]
      BY <3>1, <3>2
    <3>5. TurnInv' /\ ChainInv' /\ StoreInv' /\ WriteInv' /\ CopyInv'
      BY <2>0, <2>1, <2>2, <3>1, CallMovesOnly
    <3>6. n \in Nat
      BY SMT, <3>1
    <3>7. CallInv'
      <4>1. Call(p, "persist", j)'
        BY <3>3, <3>6 DEF Call, Filed
      <4>. QED BY <2>0, <2>1, <2>3, <3>1, <3>4, <4>1, CallMoves DEF LInv
    <3>8. /\ pc'[p] = "persist" /\ job'[p] = j
          /\ \A q \in Tasks : q # p => pc'[q] = pc[q] /\ job'[q] = job[q]
      BY <2>0, <3>1, <3>4 DEF Goto, LInv, JobInv
    <3>9. FirstInv'
      <4>1. ASSUME NEW i \in Intents, pc'[i] \in Starting
            PROVE  pc[i] \in Starting /\ (pc'[i] = "persist" => job'[i].id.intent = i)
        <5>1. CASE i = p
          <6>1. Intent(p) = p
            BY <5>1, WalletRuntimeAssumption DEF Intent
          <6>. QED BY <2>1, <3>3, <3>8, <5>1, <6>1
        <5>2. CASE i # p
          BY <2>0, <3>8, <4>1, <5>2 DEF FirstInv
        <5>. QED BY <5>1, <5>2
      <4>. QED BY <2>2, <4>1, FirstKeeps
    <3>10. AgainInv'
      <4>1. CASE p = Refiller
        <5>1. Intent(p) = job[p].id.intent
          BY <4>1 DEF Intent
        <5>. QED BY <2>1, <2>2, <3>3, <3>8, <4>1, <5>1, AgainKeeps
      <4>2. CASE p # Refiller
        BY <2>0, <2>2, <3>8, <4>2, AgainKeeps
      <4>. QED BY <4>1, <4>2
    <3>. QED BY <3>5, <3>7, <3>9, <3>10
  <2>. QED BY <2>4, <2>5
\* send: the handle is written before the broadcast.
<1>OSendPersists. ASSUME NEW p \in Senders, SendPersist(p)
                  PROVE  OInv'
  <2>. USE <1>OSendPersists
  <2>. USE DEF OInv
  <2>0. p \in Tasks /\ Refiller \in Tasks /\ Intents \subseteq Tasks
    BY DEF Tasks, Senders
  <2>1. pc[p] = "persist" /\ Alone(p) /\ UNCHANGED <<pool, ledger, tickVars, job>>
    BY <2>0, BusyAlone DEF SendPersist, Idle, chainVars
  <2>2. \A x \in DOMAIN handles : x.intent \notin Intents => ~handles[x].cancelled
    BY <2>1, UnmarkedSend
  <2>3. CASE Goto(p, "release") /\ UNCHANGED handles
    <3>1. TurnInv' /\ ChainInv' /\ StoreInv' /\ WriteInv' /\ CopyInv'
      BY <2>0, <2>1, <2>3, CallMovesOnly
    <3>2. CallInv'
      <4>1. PICK j : j = job[p]
        OBVIOUS
      <4>2. Call(p, "release", j)'
        BY DEF Call, Filed, Carrying
      <4>. QED BY <2>0, <2>1, <2>2, <2>3, <4>1, <4>2, CallMoves DEF LInv
    <3>3. "release" \notin Starting
      BY DEF Starting
    <3>4. FirstInv' /\ AgainInv'
      BY <2>0, <2>1, <2>3, <3>3, FirstMoves, AgainMoves DEF LInv
    <3>. QED BY <3>1, <3>2, <3>4
  <2>4. CASE Put(job[p].id, job[p].rec) /\ Goto(p, "submit")
    <3>1. PICK j : j = job[p]
      OBVIOUS
    <3>2. j.id.nonce \in Nat /\ j.rec = Fresh
      BY <2>1, <3>1 DEF CallInv, Fresh
    <3>3. Put(j.id, j.rec)
      BY <2>4, <3>1
    <3>4. /\ j.id.intent \in Intents \cup {Cancel}
          /\ \A x \in DOMAIN handles : x.intent = j.id.intent /\ x.intent \in Intents => Kind(x) \in Gone
      BY <2>1, <3>1, NoneLive
    <3>5. Fresh.signed \in Fresh.revs /\ Fresh.status.kind = "Pending" /\ ~Fresh.cancelled
      BY DEF Fresh, Rec, Plain, Status
    <3>6. Sound(j.id, j.rec)
      <4>1. "Pending" # "Dropped" /\ "Pending" \notin {"Replaced", "Dropped"}
        OBVIOUS
      <4>. QED BY <3>2, <3>4, <3>5, <4>1 DEF Sound
    <3>7. \A t \in Broadcasts : IdOf(t) # j.id
      BY <3>4, WireFiled DEF WriteInv, IdOf, Id
    <3>8. ASSUME j.id \in DOMAIN todo PROVE j.id.intent \notin Intents
      <4>1. j.id \in DOMAIN handles
        BY <3>8 DEF LInv, TodoInv
      <4>2. ~IsTerminal(handles[j.id].status) => Kind(j.id) \notin Gone
        BY DEF IsTerminal, Gone, Kind
      <4>. QED BY <3>4, <3>8, <4>1, <4>2 DEF CopyInv
    <3>9. TurnInv' /\ ChainInv' /\ StoreInv' /\ WriteInv' /\ CopyInv'
      BY <2>0, <2>1, <2>4, <3>3, <3>6, <3>7, <3>8, CallWrites
    <3>10. /\ DOMAIN handles' = DOMAIN handles \cup {j.id}
           /\ handles'[j.id] = j.rec
           /\ \A x \in DOMAIN handles : x # j.id => handles'[x] = handles[x]
      BY <3>3, PutReads
    <3>11. CallInv'
      <4>1. Broadcasts' = Broadcasts /\ todo' = todo
        BY <2>1, SameWire DEF tickVars
      <4>2. Call(p, "submit", j)'
        BY <3>2, <3>7, <3>8, <3>10, <4>1 DEF Call
      <4>3. ASSUME NEW x \in DOMAIN handles', x.intent \notin Intents PROVE ~handles'[x].cancelled
        BY <2>2, <3>2, <3>5, <3>10, <4>3
      <4>. QED BY <2>0, <2>1, <2>4, <3>1, <4>2, <4>3, CallMoves DEF LInv
    <3>12. "submit" \notin Starting
      BY DEF Starting
    <3>13. pc'[p] = "submit" /\ \A q \in Tasks : q # p => pc'[q] = pc[q]
      BY <2>0, <2>4 DEF Goto, LInv, JobInv
    <3>14. FirstInv'
      <4>1. ASSUME NEW i \in Intents, pc'[i] \in Starting
            PROVE  /\ pc'[i] = "persist" => job'[i].id.intent = i
                   /\ \A x \in DOMAIN handles' : x.intent # i
        <5>1. i # p /\ pc[i] \in Starting
          BY <2>0, <3>12, <3>13, <4>1
        <5>2. j.id.intent # i
          <6>1. CASE p \in Intents
            <7>1. pc[p] \in Starting
              BY <2>1 DEF Starting
            <7>. QED BY <2>1, <3>1, <5>1, <6>1, <7>1 DEF FirstInv
          <6>2. CASE p = Refiller
            <7>1. pc[Refiller] \in Starting
              BY <2>1, <6>2 DEF Starting
            <7>2. PICK x \in DOMAIN handles : x.intent = j.id.intent
              BY <3>1, <6>2, <7>1 DEF AgainInv
            <7>. QED BY <5>1, <7>2 DEF FirstInv
          <6>. QED BY <6>1, <6>2 DEF Senders
        <5>3. pc'[i] = pc[i] /\ job'[i] = job[i]
          BY <2>0, <2>1, <3>13, <5>1
        <5>4. pc'[i] = "persist" => job'[i].id.intent = i
          BY <5>1, <5>3 DEF FirstInv
        <5>5. \A x \in DOMAIN handles : x.intent # i
          BY <5>1 DEF FirstInv
        <5>. QED BY <3>10, <5>2, <5>4, <5>5
      <4>. QED BY <4>1 DEF FirstInv
    <3>15. AgainInv'
      BY <2>0, <2>1, <2>4, <3>12, AgainMoves DEF LInv
    <3>. QED BY <3>9, <3>11, <3>14, <3>15
  <2>. QED BY <2>3, <2>4 DEF SendPersist
\* send: the broadcast.
<1>OSendSubmits. ASSUME NEW p \in Senders, SendSubmit(p)
                 PROVE  OInv'
  <2>. USE <1>OSendSubmits
  <2>. USE DEF OInv
  <2>0. p \in Tasks
    BY DEF Tasks
  <2>1. /\ pc[p] = "submit" /\ pc[p] \in Filed /\ Alone(p)
        /\ UNCHANGED <<handles, ledger, tickVars, job>>
    BY <2>0, BusyAlone DEF SendSubmit, Idle, Filed, Carrying, walletVars
  <2>2. \A x \in DOMAIN handles' : x.intent \notin Intents => ~handles'[x].cancelled
    BY <2>1, UnmarkedSend
  <2>3. PICK j : j = job[p]
    OBVIOUS
  <2>4. PICK result : Submit(Tx(j.id, 0), result) /\ Goto(p, SubmitOutcome(result))
    BY <2>3 DEF SendSubmit
  <2>5. PICK l : l = SubmitOutcome(result)
    OBVIOUS
  <2>6. /\ handles[j.id] = j.rec /\ j.rec = Fresh
        /\ j.id \in DOMAIN todo => j.id.intent \notin Intents
        /\ \A t \in Broadcasts : IdOf(t) # j.id
    BY <2>0, <2>1, <2>3 DEF CallInv, Fresh
  <2>7. j.id \in DOMAIN handles /\ IsId(j.id) /\ j.id.nonce \in Nat
    BY <2>0, <2>1, <2>3 DEF LInv, JobInv, HandlesInv, StoreInv
  <2>8. IsTx(Tx(j.id, 0)) /\ IdOf(Tx(j.id, 0)) = j.id /\ Tx(j.id, 0).rev = 0
    BY <2>7, HandleTx
  <2>9. 0 \in Fresh.revs /\ Fresh.status.kind \notin Gone
    BY DEF Fresh, Rec, Plain, Status, Gone
  <2>10. 0 \in handles[j.id].revs /\ Kind(j.id) \notin Gone
    BY <2>6, <2>9 DEF Kind
  <2>11. TurnInv' /\ ChainInv' /\ StoreInv' /\ WriteInv' /\ CopyInv'
    BY <2>0, <2>1, <2>4, <2>8, <2>10, CallBroadcasts
  <2>12. l \in {"sent", "failed"} /\ l \notin Starting /\ (l = "failed" => UNCHANGED pool)
    BY <2>4, <2>5 DEF SubmitOutcome, Starting, Submit
  <2>13. Call(p, l, j)'
    <3>1. l = "failed" => \A t \in Broadcasts' : IdOf(t) # j.id
      BY <2>1, <2>6, <2>12, SameWire
    <3>2. l # "persist" /\ l # "submit"
      BY <2>12
    <3>. QED BY <2>1, <2>6, <3>1, <3>2 DEF Call, tickVars
  <2>14. CallInv'
    BY <2>0, <2>1, <2>2, <2>3, <2>4, <2>5, <2>13, CallMoves DEF LInv
  <2>15. FirstInv' /\ AgainInv'
    BY <2>0, <2>1, <2>4, <2>5, <2>12, FirstMoves, AgainMoves DEF LInv
  <2>. QED BY <2>11, <2>14, <2>15
\* A send writes its handle for the last time: what it broadcast it marks Sent,
\* and what it marks Failed is not on the wire.
<1>OSendMarks. ASSUME NEW p \in Senders, SendMarkSent(p) \/ SendMarkFailed(p)
               PROVE  OInv'
  <2>. USE <1>OSendMarks
  <2>. USE DEF OInv
  <2>0. p \in Tasks
    BY DEF Tasks
  <2>1. /\ pc[p] \in {"sent", "failed"} /\ pc[p] \in Filed /\ Alone(p)
        /\ UNCHANGED <<pool, ledger, tickVars>>
    BY <2>0, BusyAlone DEF SendMarkSent, SendMarkFailed, Idle, Filed, Carrying, chainVars
  <2>2. \A x \in DOMAIN handles : x.intent \notin Intents => ~handles[x].cancelled
    BY <2>1, UnmarkedSend
  <2>3. PICK j : j = job[p]
    OBVIOUS
  <2>4. /\ handles[j.id] = j.rec /\ j.rec = Fresh
        /\ j.id \in DOMAIN todo => j.id.intent \notin Intents
        /\ pc[p] = "failed" => \A t \in Broadcasts : IdOf(t) # j.id
    BY <2>0, <2>1, <2>3 DEF CallInv, Fresh
  <2>5. j.id \in DOMAIN handles
    BY <2>0, <2>1, <2>3 DEF LInv, JobInv
  <2>6. PICK k : /\ k \in {"Sent", "Failed"}
                 /\ PutIgnored(j.id, WithStatus(j.rec, Plain(k)))
                 /\ k = "Failed" => pc[p] = "failed"
    BY <2>3 DEF SendMarkSent, SendMarkFailed
  <2>7. PICK rec : rec = WithStatus(j.rec, Plain(k))
    OBVIOUS
  <2>8. Put(j.id, rec)
    BY <2>6, <2>7, PutLands
  <2>9. /\ rec.status.kind = k /\ rec.revs = {0} /\ rec.signed = 0 /\ ~rec.cancelled
        /\ Fresh.revs = {0} /\ Fresh.status.kind = "Pending"
    <3>1. /\ rec.status = Plain(k) /\ rec.revs = Fresh.revs
          /\ rec.signed = Fresh.signed /\ rec.cancelled = Fresh.cancelled
      BY SMT, <2>4, <2>7 DEF WithStatus, Rec
    <3>2. Fresh.revs = {0} /\ Fresh.signed = 0 /\ Fresh.cancelled = FALSE /\ Fresh.status = Plain("Pending")
      BY SMT DEF Fresh, Rec
    <3>3. Plain(k).kind = k /\ Plain("Pending").kind = "Pending"
      BY SMT DEF Plain, Status
    <3>. QED BY <3>1, <3>2, <3>3
  <2>10. Sound(j.id, rec)
    <3>1. Kind(j.id) \notin Gone /\ k \notin {"Replaced", "Dropped"} /\ k # "Dropped"
      BY <2>4, <2>6, <2>9 DEF Kind, Gone
    <3>2. rec.signed \in rec.revs
      BY <2>9
    <3>. QED BY <2>5, <2>9, <3>1, <3>2, SoundAgain
  <2>11. ASSUME NEW t \in Broadcasts, IdOf(t) = j.id
         PROVE  t.rev \in rec.revs /\ rec.status.kind \notin Gone
    <3>1. t.rev \in handles[j.id].revs
      <4>1. phase # "bumpPut"
        BY <2>1 DEF Alone
      <4>. QED BY <2>11, <4>1 DEF WriteInv, Written
    <3>2. k # "Failed"
      BY <2>4, <2>6, <2>11
    <3>3. rec.status.kind \notin Gone
      BY <2>6, <2>9, <3>2 DEF Gone
    <3>. QED BY <2>4, <2>9, <3>1, <3>3
  <2>12. /\ DOMAIN handles' = DOMAIN handles \cup {j.id}
         /\ handles'[j.id] = rec
         /\ \A x \in DOMAIN handles : x # j.id => handles'[x] = handles[x]
    BY <2>8, PutReads
  <2>13. ASSUME NEW x \in DOMAIN handles' PROVE x \in DOMAIN handles
    BY <2>5, <2>12
  <2>14. ASSUME NEW x \in DOMAIN handles', x.intent \notin Intents PROVE ~handles'[x].cancelled
    BY <2>2, <2>9, <2>12, <2>14
  <2>15. CASE SendMarkSent(p)
    <3>1. Goto(p, "done") /\ Return(p)
      BY <2>15 DEF SendMarkSent, Return
    <3>2. TurnInv' /\ ChainInv' /\ StoreInv' /\ WriteInv' /\ CopyInv'
      BY <2>0, <2>1, <2>4, <2>8, <2>10, <2>11, <3>1, CallWrites
    <3>3. CallInv' /\ FirstInv' /\ AgainInv'
      BY <2>0, <2>1, <2>13, <2>14, <3>1, CallReturns DEF LInv
    <3>. QED BY <3>2, <3>3
  <2>16. CASE SendMarkFailed(p)
    <3>1. Goto(p, "release") /\ UNCHANGED job
      BY <2>16 DEF SendMarkFailed
    <3>2. TurnInv' /\ ChainInv' /\ StoreInv' /\ WriteInv' /\ CopyInv'
      BY <2>0, <2>1, <2>4, <2>8, <2>10, <2>11, <3>1, CallWrites
    <3>3. CallInv'
      <4>1. Call(p, "release", j)'
        BY DEF Call, Filed, Carrying
      <4>. QED BY <2>0, <2>1, <2>3, <2>14, <3>1, <4>1, CallMoves DEF LInv
    <3>4. "release" \notin Starting
      BY DEF Starting
    <3>5. FirstInv' /\ AgainInv'
      BY <2>0, <2>1, <2>13, <3>1, <3>4, FirstMoves, AgainMoves DEF LInv
    <3>. QED BY <3>2, <3>3, <3>5
  <2>. QED BY <2>15, <2>16
\* send: the nonce of a send that reached no node is given back.
<1>OSendReleases. ASSUME NEW p \in Senders, SendRelease(p)
                  PROVE  OInv'
  <2>. USE <1>OSendReleases
  <2>. USE DEF OInv
  <2>0. p \in Tasks
    BY DEF Tasks
  <2>1. Alone(p) /\ UNCHANGED <<handles, pool, ledger, tickVars>>
    BY <2>0, BusyAlone DEF SendRelease, Idle, chainVars
  <2>2. \A x \in DOMAIN handles' : x.intent \notin Intents => ~handles'[x].cancelled
    BY <2>1, UnmarkedSend
  <2>3. Return(p) /\ Goto(p, "done")
    BY DEF SendRelease, Return
  <2>4. TurnInv' /\ ChainInv' /\ StoreInv' /\ WriteInv' /\ CopyInv'
    BY <2>0, <2>1, <2>3, CallMovesOnly
  <2>5. CallInv' /\ FirstInv' /\ AgainInv'
    BY <2>0, <2>1, <2>2, <2>3, CallReturns DEF LInv
  <2>. QED BY <2>4, <2>5
\* cancel: the handle is read.
<1>OCancelLoads. ASSUME NEW c \in Cancellers, CancelLoad(c)
                 PROVE  OInv'
  <2>. USE <1>OCancelLoads
  <2>. USE DEF OInv
  <2>0. c \in Tasks /\ c \notin Senders /\ c # Refiller
    BY Cancelling
  <2>1. Alone(c) /\ (\A d \in Cancellers : pc[d] \in Idle) /\ UNCHANGED <<handles, pool, ledger, tickVars>>
    <3>1. Alone(c)
      BY <2>0, StartsAlone DEF CancelLoad
    <3>2. \A d \in Tasks : pc[d] \in Idle
      BY TickAlone DEF CancelLoad
    <3>. QED BY <3>1, <3>2 DEF CancelLoad, walletVars, chainVars, Tasks
  <2>2. \A x \in DOMAIN handles' : x.intent \notin Intents => ~handles'[x].cancelled
    BY <2>1, Unmarked
  <2>3. CASE Return(c)
    <3>1. Goto(c, "done")
      BY <2>3 DEF Return
    <3>2. TurnInv' /\ ChainInv' /\ StoreInv' /\ WriteInv' /\ CopyInv'
      BY <2>0, <2>1, <3>1, CallMovesOnly
    <3>3. CallInv' /\ FirstInv' /\ AgainInv'
      BY <2>0, <2>1, <2>2, <2>3, CallReturns DEF LInv
    <3>. QED BY <3>2, <3>3
  <2>4. CASE ~Return(c)
    <3>1. PICK id \in DOMAIN handles :
             /\ job' = [job EXCEPT ![c] = Job(id, handles[id], handles[id].signed, FALSE)]
             /\ Goto(c, "poison")
      BY <2>4 DEF CancelLoad
    <3>2. PICK j : j = Job(id, handles[id], handles[id].signed, FALSE)
      OBVIOUS
    <3>3. job' = [job EXCEPT ![c] = j] /\ j.id = id /\ j.rec = handles[id]
      BY <3>1, <3>2 DEF Job
    <3>4. TurnInv' /\ ChainInv' /\ StoreInv' /\ WriteInv' /\ CopyInv'
      BY <2>0, <2>1, <3>1, CallMovesOnly
    <3>5. Call(c, "poison", j)'
      BY <2>0, <2>1, <3>3 DEF Call
    <3>6. CallInv'
      BY <2>0, <2>1, <2>2, <3>1, <3>3, <3>5, CallMoves DEF LInv
    <3>7. "poison" \notin Starting /\ \A q \in Tasks : q # c => job'[q] = job[q]
      BY <3>3 DEF Starting, LInv, JobInv
    <3>8. FirstInv' /\ AgainInv'
      BY <2>0, <2>1, <3>1, <3>7, FirstMoves, AgainMoves DEF LInv
    <3>. QED BY <3>4, <3>6, <3>8
  <2>. QED BY <2>3, <2>4
\* cancel: the handle is marked cancelled before the broadcast.
<1>OCancelPoisons. ASSUME NEW c \in Cancellers, CancelPoison(c)
                   PROVE  OInv'
  <2>. USE <1>OCancelPoisons
  <2>. USE DEF OInv
  <2>0. c \in Tasks /\ c \notin Senders /\ c # Refiller
    BY Cancelling
  <2>1. pc[c] = "poison" /\ UNCHANGED <<pool, ledger, tickVars>>
    BY DEF CancelPoison, chainVars
  <2>2. pc[c] \in {"poison", "cancel", "unpoison", "record"} /\ pc[c] \in {"poison", "unpoison"}
    BY <2>1
  <2>3. /\ Alone(c) /\ DOMAIN todo = {}
        /\ job[c].id \in DOMAIN handles /\ handles[job[c].id] = job[c].rec
    BY <2>2, CancelRuns
  <2>4. PICK rec : rec = Cancelled(job[c].rec, TRUE)
    OBVIOUS
  <2>5. PICK j : j = Job(job[c].id, rec, job[c].basis, FALSE)
    OBVIOUS
  <2>6. j.id = job[c].id /\ j.rec = rec
    BY <2>5 DEF Job
  <2>7. /\ Put(j.id, rec) /\ Goto(c, "cancel")
        /\ job' = [job EXCEPT ![c] = j]
    <3>1. ~Fault("store")
      BY DEF Calm, Fault
    <3>2. /\ Put(job[c].id, Cancelled(job[c].rec, TRUE)) /\ Goto(c, "cancel")
          /\ job' = [job EXCEPT ![c] =
                       Job(job[c].id, Cancelled(job[c].rec, TRUE), job[c].basis, FALSE)]
      BY <3>1 DEF CancelPoison
    <3>. QED BY <2>4, <2>5, <2>6, <3>2
  <2>8. /\ Sound(j.id, rec)
        /\ \A t \in Broadcasts : IdOf(t) = j.id => t.rev \in rec.revs /\ rec.status.kind \notin Gone
    <3>1. /\ Sound(job[c].id, rec)
          /\ \A t \in Broadcasts :
                IdOf(t) = job[c].id => t.rev \in rec.revs /\ rec.status.kind \notin Gone
      BY <2>2, <2>4, FlagsOnly
    <3>. QED BY <2>6, <3>1
  <2>9. TurnInv' /\ ChainInv' /\ StoreInv' /\ WriteInv' /\ CopyInv'
    <3>1. j.id \notin DOMAIN todo
      BY <2>3
    <3>. QED BY <2>0, <2>1, <2>3, <2>7, <2>8, <3>1, CallWrites
  <2>10. /\ DOMAIN handles' = DOMAIN handles \cup {j.id}
         /\ handles'[j.id] = rec
         /\ \A x \in DOMAIN handles : x # j.id => handles'[x] = handles[x]
    BY <2>7, PutReads
  <2>11. ASSUME NEW x \in DOMAIN handles', x.intent \notin Intents, handles'[x].cancelled
         PROVE  j.id = x
    <3>1. "poison" \notin Evicting
      BY DEF Evicting
    <3>. QED BY <2>1, <2>3, <2>10, <2>11, <3>1, MarkedTarget
  <2>12. CallInv'
    <3>1. Call(c, "cancel", j)'
      BY <2>0, <2>6, <2>10 DEF Call
    <3>2. "cancel" \in Evicting
      BY DEF Evicting
    <3>. QED BY <2>0, <2>3, <2>7, <2>11, <3>1, <3>2, CallMoves DEF LInv
  <2>13. "cancel" \notin Starting /\ \A q \in Tasks : q # c => job'[q] = job[q]
    BY <2>7 DEF Starting, LInv, JobInv
  <2>14. FirstInv' /\ AgainInv'
    BY <2>0, <2>3, <2>6, <2>7, <2>10, <2>13, FirstMoves, AgainMoves DEF LInv
  <2>. QED BY <2>9, <2>12, <2>14
\* cancel: the self-send at the handle's nonce.
<1>OCancelSubmits. ASSUME NEW c \in Cancellers, CancelSubmit(c)
                   PROVE  OInv'
  <2>. USE <1>OCancelSubmits
  <2>. USE DEF OInv
  <2>0. c \in Tasks /\ c \notin Senders /\ c # Refiller /\ Cancel \notin Intents
    BY Cancelling
  <2>1. pc[c] = "cancel" /\ UNCHANGED <<handles, ledger, tickVars>>
    BY DEF CancelSubmit, walletVars
  <2>2. pc[c] \in {"poison", "cancel", "unpoison", "record"}
    BY <2>1
  <2>3. /\ Alone(c) /\ handles[job[c].id] = job[c].rec /\ job[c].id.nonce \in Nat
    BY <2>2, CancelRuns
  <2>4. ASSUME NEW x \in DOMAIN handles', x.intent \notin Intents, handles'[x].cancelled
        PROVE  job[c].id = x
    BY <2>1, <2>3, <2>4, MarkedTarget
  <2>5. PICK tx : tx = CancelTx(c)
    OBVIOUS
  <2>6. IsTx(tx) /\ ~Ours(tx)
    <3>1. IsId(Id(Cancel, job[c].id.nonce)) /\ Id(Cancel, job[c].id.nonce).nonce \in Nat
      BY <2>3 DEF IsId, Id
    <3>2. IsTx(tx)
      BY <2>5, <3>1, HandleTx DEF CancelTx
    <3>3. tx.intent = Cancel
      BY <2>5 DEF CancelTx, Tx, Id
    <3>. QED BY <2>0, <3>2, <3>3 DEF Ours
  \* The call goes on to l, with or without a broadcast.
  <2>7. ASSUME NEW l \in {"unpoison", "record"}, Goto(c, l), UNCHANGED job,
               UNCHANGED pool \/ \E result : Submit(tx, result)
        PROVE  OInv'
    <3>1. TurnInv' /\ ChainInv' /\ StoreInv' /\ WriteInv' /\ CopyInv'
      <4>1. CASE UNCHANGED pool
        BY <2>0, <2>1, <2>3, <2>7, <4>1, CallMovesOnly
      <4>2. CASE \E result : Submit(tx, result)
        BY <2>0, <2>1, <2>3, <2>6, <2>7, <4>2, CallBroadcasts
      <4>. QED BY <2>7, <4>1, <4>2
    <3>2. PICK j : j = job[c]
      OBVIOUS
    <3>3. l \in Evicting /\ l \notin Starting
      BY <2>7 DEF Evicting, Starting
    <3>4. Call(c, l, j)'
      BY <2>0, <2>1, <2>3, <3>2 DEF Call
    <3>5. CallInv'
      BY <2>0, <2>3, <2>4, <2>7, <3>2, <3>3, <3>4, CallMoves DEF LInv
    <3>6. FirstInv' /\ AgainInv'
      BY <2>0, <2>1, <2>3, <2>7, <3>3, FirstMoves, AgainMoves DEF LInv
    <3>. QED BY <3>1, <3>5, <3>6
  \* Underpriced: the call tries once more from the target's stored fees.
  <2>8. ASSUME UNCHANGED pc, NEW result, Submit(tx, result),
               job' = [job EXCEPT ![c] = Job(@.id, @.rec, handles[job[c].id].signed, TRUE)]
        PROVE  OInv'
    <3>1. TurnInv' /\ ChainInv' /\ StoreInv' /\ WriteInv' /\ CopyInv'
      BY <2>0, <2>1, <2>3, <2>6, <2>8, CallBroadcasts
    <3>2. PICK j : j = Job(job[c].id, job[c].rec, handles[job[c].id].signed, TRUE)
      OBVIOUS
    <3>3. j.id = job[c].id /\ j.rec = job[c].rec /\ job' = [job EXCEPT ![c] = j]
      BY <2>8, <3>2 DEF Job
    <3>4. PICK l : l = pc[c]
      OBVIOUS
    <3>5. Call(c, l, j)' /\ l \in Evicting
      BY <2>0, <2>1, <2>3, <3>3, <3>4 DEF Call, Evicting
    <3>6. CallInv'
      <4>1. Goto(c, l) \/ (UNCHANGED pc /\ l = pc[c])
        BY <2>8, <3>4
      <4>2. /\ JobInv /\ Alone(c)
            /\ job' = [job EXCEPT ![c] = j] \/ (job' = job /\ j = job[c])
        BY <2>3, <3>3 DEF LInv
      <4>. QED BY <2>0, <2>4, <3>3, <3>5, <4>1, <4>2, CallMoves
    <3>7. \A q \in Senders : job'[q] = job[q]
      BY <2>0, <3>3 DEF LInv, JobInv, Tasks
    <3>8. FirstInv'
      <4>1. \A i \in Intents : pc'[i] \in Starting =>
               pc[i] \in Starting /\ (pc'[i] = "persist" => job'[i].id.intent = i)
        BY <2>8, <3>7 DEF FirstInv, Senders
      <4>. QED BY <2>1, <4>1, FirstKeeps
    <3>9. AgainInv'
      <4>1. Refiller \in Senders
        BY DEF Senders
      <4>. QED BY <2>1, <2>8, <3>7, <4>1, AgainKeeps
    <3>. QED BY <3>1, <3>6, <3>8, <3>9
  <2>9. "unpoison" \in {"unpoison", "record"} /\ "record" \in {"unpoison", "record"}
    OBVIOUS
  <2>10. CASE Goto(c, "unpoison") /\ UNCHANGED <<job, pool>>
    BY <2>7, <2>9, <2>10
  <2>11. CASE \E result :
                 /\ Submit(tx, result)
                 /\ IF result = "underpriced" /\ ~job[c].retried
                    THEN /\ job' = [job EXCEPT ![c] =
                                      Job(@.id, @.rec, handles[job[c].id].signed, TRUE)]
                         /\ UNCHANGED pc
                    ELSE /\ Goto(c, IF result = "sent" THEN "record" ELSE "unpoison")
                         /\ UNCHANGED job
    BY <2>7, <2>8, <2>9, <2>11
  <2>. QED BY <2>5, <2>10, <2>11 DEF CancelSubmit
\* cancel: the mark is taken back, or the cancel's own handle is written.
<1>OCancelEnds. ASSUME NEW c \in Cancellers, CancelUnpoison(c) \/ CancelRecord(c)
                PROVE  OInv'
  <2>. USE <1>OCancelEnds
  <2>. USE DEF OInv
  <2>0. c \in Tasks /\ c \notin Senders /\ c # Refiller /\ Cancel \notin Intents
    BY Cancelling
  <2>1. pc[c] \in {"unpoison", "record"} /\ UNCHANGED <<pool, ledger, tickVars>>
        /\ Return(c) /\ Goto(c, "done")
    BY DEF CancelUnpoison, CancelRecord, chainVars, Return
  <2>2. pc[c] \in {"poison", "cancel", "unpoison", "record"}
    BY <2>1
  <2>3. /\ Alone(c) /\ DOMAIN todo = {} /\ job[c].id \in DOMAIN handles
        /\ handles[job[c].id] = job[c].rec /\ IsId(job[c].id) /\ job[c].id.nonce \in Nat
    BY <2>2, CancelRuns
  <2>4. ASSUME NEW id, NEW rec, Put(id, rec), Sound(id, rec), ~rec.cancelled,
               id \in DOMAIN handles \/ id.intent \notin Intents,
               job[c].id.intent \notin Intents => job[c].id = id,
               \A t \in Broadcasts : IdOf(t) = id => t.rev \in rec.revs /\ rec.status.kind \notin Gone
        PROVE  OInv'
    <3>1. TurnInv' /\ ChainInv' /\ StoreInv' /\ WriteInv' /\ CopyInv'
      <4>1. id \notin DOMAIN todo
        BY <2>3
      <4>. QED BY <2>0, <2>1, <2>3, <2>4, <4>1, CallWrites
    <3>2. /\ DOMAIN handles' = DOMAIN handles \cup {id}
          /\ handles'[id] = rec
          /\ \A x \in DOMAIN handles : x # id => handles'[x] = handles[x]
      BY <2>4, PutReads
    <3>3. ASSUME NEW x \in DOMAIN handles', x.intent \notin Intents PROVE ~handles'[x].cancelled
      <4>1. CASE x = id
        BY <2>4, <3>2, <4>1
      <4>2. CASE x # id
        <5>1. x \in DOMAIN handles /\ handles'[x] = handles[x]
          BY <3>2, <4>2
        <5>2. job[c].id # x
          BY <2>4, <3>3, <4>2
        <5>. QED BY <2>3, <3>3, <5>1, <5>2, MarkedTarget
      <4>. QED BY <4>1, <4>2
    <3>4. \A x \in DOMAIN handles' : x \in DOMAIN handles \/ x.intent \notin Intents
      BY <2>4, <3>2
    <3>5. CallInv' /\ FirstInv' /\ AgainInv'
      BY <2>0, <2>1, <2>3, <3>3, <3>4, CallReturns DEF LInv
    <3>. QED BY <3>1, <3>5
  <2>5. CASE CancelUnpoison(c)
    <3>1. PICK rec : rec = Cancelled(job[c].rec, FALSE)
      OBVIOUS
    <3>2. pc[c] \in {"poison", "unpoison"}
      BY <2>5 DEF CancelUnpoison
    <3>3. /\ Sound(job[c].id, rec) /\ rec.cancelled = FALSE
          /\ \A t \in Broadcasts :
                IdOf(t) = job[c].id => t.rev \in rec.revs /\ rec.status.kind \notin Gone
      BY <3>1, <3>2, FlagsOnly
    <3>4. Put(job[c].id, rec)
      BY <2>5, <3>1, PutLands DEF CancelUnpoison
    <3>. QED BY <2>3, <2>4, <3>3, <3>4
  <2>6. CASE CancelRecord(c)
    <3>1. PICK id : id = Id(Cancel, job[c].id.nonce)
      OBVIOUS
    <3>2. PICK r : PutIgnored(id, Rec(Plain("Sent"), FALSE, {r}, r))
      BY <2>6, <3>1 DEF CancelRecord
    <3>3. PICK rec : rec = Rec(Plain("Sent"), FALSE, {r}, r)
      OBVIOUS
    <3>4. Put(id, rec)
      BY <3>2, <3>3, PutLands
    <3>5. rec.status.kind = "Sent" /\ ~rec.cancelled
      BY <3>3 DEF Rec, Plain, Status
    <3>6. id.intent = Cancel /\ id.nonce = job[c].id.nonce
      BY <3>1 DEF Id
    <3>7. Sound(id, rec)
      <4>1. "Sent" # "Dropped"
        OBVIOUS
      <4>. QED BY <2>0, <2>3, <3>5, <3>6, <4>1 DEF Sound
    <3>8. ASSUME NEW t \in Broadcasts, IdOf(t) = id PROVE FALSE
      <4>1. t.intent = Cancel
        BY <3>6, <3>8 DEF IdOf, Id
      <4>. QED BY <2>0, <4>1, WireFiled
    <3>9. job[c].id.intent \notin Intents => job[c].id = id
      BY <2>3, <3>1 DEF StoreInv, IsId
    <3>. QED BY <2>0, <2>4, <3>4, <3>5, <3>6, <3>7, <3>8, <3>9
  <2>. QED BY <2>5, <2>6
\* tick: it starts, and each stage reads the active handles.
<1>OTickLoads. ASSUME TickStart \/ ConfirmLoad \/ EscalateLoad
               PROVE  OInv'
  <2>. USE <1>OTickLoads
  <2>. USE DEF OInv
  <2>1. /\ UNCHANGED <<handles, pool, ledger, taskVars>>
        /\ phase \notin {"put", "bumpPut"} /\ phase' \in {"recover", "confirm", "escalate"}
        /\ cycle' = cycle \/ cycle' = 0
    BY DEF TickStart, ConfirmLoad, EscalateLoad, walletVars, chainVars
  <2>2. PICK kinds : kinds \subseteq NotTerminal /\ todo' = Snapshot(kinds)
    <3>1. {"Pending", "Sent"} \subseteq NotTerminal /\ {"Sent"} \subseteq NotTerminal
      BY DEF NotTerminal, Kinds, IsTerminal, Plain, Status
    <3>. QED BY <3>1 DEF TickStart, ConfirmLoad, EscalateLoad
  <2>3. Quiet /\ \A x \in DOMAIN handles : x.intent \notin Intents => ~handles[x].cancelled
    <3>1. phase \notin {"idle", "refill"} \/ (phase = "idle" /\ MayStart)
      BY DEF TickStart, ConfirmLoad, EscalateLoad
    <3>. QED BY <3>1, TickQuiet
  <2>4. TurnInv' /\ CallInv' /\ FirstInv' /\ AgainInv'
    BY <2>1, <2>3, TickSteps
  <2>5. ChainInv'
    <3>1. Len(ledger) \in Nat
      BY LedgerLength
    <3>2. cycle' \in Nat /\ cycle' <= Len(ledger)
      BY SMT, <2>1, <3>1 DEF ChainInv
    <3>. QED BY <2>1, <3>2 DEF ChainInv
  <2>6. StoreInv'
    BY <2>1, StoreSame
  <2>7. WriteInv'
    <3>1. phase # "bumpPut"
      BY <2>1
    <3>. QED BY <2>1, <3>1, SameWire, WriteKeeps
  <2>8. CopyInv'
    <3>1. ASSUME NEW x \in DOMAIN todo'
          PROVE  x \in DOMAIN handles /\ todo'[x] = handles[x] /\ ~IsTerminal(handles[x].status)
      <4>1. x \in DOMAIN handles /\ handles[x].status.kind \in kinds /\ todo'[x] = handles[x]
        BY <2>2 DEF Snapshot
      <4>. QED BY <2>2, <4>1 DEF NotTerminal, IsTerminal, Plain, Status
    <3>2. ASSUME NEW x \in DOMAIN todo', x.intent \notin Intents
          PROVE  ~todo'[x].cancelled /\ todo'[x].status.kind # "Dropped"
      BY <2>3, <3>1, <3>2 DEF StoreInv, Kind
    <3>3. phase' \notin {"idle", "reset", "load"} /\ phase' # "put"
      BY <2>1
    <3>. QED BY <2>1, <3>1, <3>2, <3>3 DEF CopyInv
  <2>. QED BY <2>4, <2>5, <2>6, <2>7, <2>8
\* tick: from one stage to the next, or to its end.
<1>OTickMovesOn. ASSUME ReadCycle \/ ResetNonces \/ RefillDone \/ TickEnd \/ TickError
                 PROVE  OInv'
  <2>. USE <1>OTickMovesOn
  <2>. USE DEF OInv
  <2>1. /\ UNCHANGED <<handles, pool, ledger, taskVars, todo>>
        /\ cycle' = cycle \/ cycle' = 0 \/ cycle' = Len(ledger)
    BY DEF ReadCycle, ResetNonces, RefillDone, TickEnd, TickError, walletVars, chainVars
  <2>2. phase \notin {"put", "bumpPut", "idle"} /\ phase' \in {"reset", "confirm", "load", "idle"}
    BY DEF ReadCycle, ResetNonces, RefillDone, TickEnd, TickError
  <2>3. phase' \in {"idle", "reset", "load"} => DOMAIN todo = {}
    BY DEF ReadCycle, ResetNonces, RefillDone, TickEnd, TickError, CopyInv
  <2>4. phase = "refill" => pc[Refiller] = "done"
    BY DEF ReadCycle, ResetNonces, RefillDone, TickEnd, TickError
  <2>5. Quiet /\ \A x \in DOMAIN handles : x.intent \notin Intents => ~handles[x].cancelled
    <3>1. phase \notin {"idle", "refill"} \/ (phase = "refill" /\ pc[Refiller] = "done")
      BY <2>2, <2>4
    <3>. QED BY <3>1, TickQuiet
  <2>6. TurnInv' /\ CallInv' /\ FirstInv' /\ AgainInv'
    BY <2>1, <2>5, TickSteps
  <2>7. ChainInv'
    <3>1. Len(ledger) \in Nat
      BY LedgerLength
    <3>2. cycle' \in Nat /\ cycle' <= Len(ledger)
      BY SMT, <2>1, <3>1 DEF ChainInv
    <3>. QED BY <2>1, <3>2 DEF ChainInv
  <2>8. StoreInv'
    BY <2>1, StoreSame
  <2>9. phase # "put" /\ phase' # "put" /\ phase # "bumpPut"
    BY <2>2
  <2>10. WriteInv'
    BY <2>1, <2>9, SameWire, WriteKeeps
  <2>11. CopyInv'
    BY <2>1, <2>3, <2>9, CopyGoesOn
  <2>. QED BY <2>6, <2>7, <2>8, <2>10, <2>11
\* tick: recover broadcasts again what was persisted.
<1>ORecovers. ASSUME Recover
              PROVE  OInv'
  <2>. USE <1>ORecovers
  <2>. USE DEF OInv
  <2>1. UNCHANGED <<handles, ledger, taskVars, cycle>> /\ phase = "recover" /\ phase' = phase
    BY DEF Recover, walletVars
  <2>2. PICK id \in DOMAIN todo :
           \E result : Submit(Tx(id, todo[id].signed), result) /\ todo' = Without(todo, id)
    BY DEF Recover
  <2>3. PICK tx : tx = Tx(id, todo[id].signed)
    OBVIOUS
  <2>4. phase # "put" /\ phase # "bumpPut" /\ phase \notin {"idle", "refill"}
        /\ phase \notin {"idle", "reset", "load"}
    BY <2>1
  <2>5. /\ IsTx(tx) /\ IdOf(tx) = id /\ tx.rev = todo[id].signed
        /\ Ours(tx) => Kind(id) \notin Gone /\ todo[id].signed \in handles[id].revs
    BY <2>3, <2>4, CopyTx
  <2>6. Quiet /\ \A x \in DOMAIN handles : x.intent \notin Intents => ~handles[x].cancelled
    BY <2>4, TickQuiet
  <2>7. TurnInv' /\ CallInv' /\ FirstInv' /\ AgainInv'
    BY <2>1, <2>6, TickSteps
  <2>8. ChainInv'
    BY <2>1, <2>2, <2>3, <2>5, ChainSubmits
  <2>9. StoreInv'
    BY <2>1, StoreSame
  <2>10. WriteInv'
    <3>1. \A t \in Broadcasts' : t \in Broadcasts \/ (t = tx /\ Ours(tx))
      BY <2>1, <2>2, <2>3, SubmitAdds
    <3>2. tx \in Broadcasts' => Ours(tx)
      BY DEF Broadcasts
    <3>3. tx \in Broadcasts' => Written(tx)' /\ Kind(IdOf(tx)) \notin Gone
      BY <2>1, <2>5, <3>2 DEF Written
    <3>4. UNCHANGED handles /\ \A t \in Broadcasts' : t \in Broadcasts \/ t = tx
      BY <2>1, <3>1
    <3>. QED BY <2>4, <3>3, <3>4, WriteAdds
  <2>11. CopyInv'
    <3>1. DOMAIN todo' \subseteq DOMAIN todo /\ \A x \in DOMAIN todo' : todo'[x] = todo[x]
      BY <2>2, WithoutOne
    <3>. QED BY <2>1, <2>4, <3>1, CopyGoesOn
  <2>. QED BY <2>7, <2>8, <2>9, <2>10, <2>11
\* tick: advance reads the chain for one handle.
<1>OAdvances. ASSUME Advance
              PROVE  OInv'
  <2>. USE <1>OAdvances
  <2>. USE DEF OInv
  <2>1. UNCHANGED <<handles, pool, ledger, taskVars, cycle>> /\ phase = "confirm"
    BY DEF Advance, walletVars, chainVars
  <2>2. phase \notin {"idle", "refill"} /\ phase # "put" /\ phase # "bumpPut"
        /\ "confirm" \notin {"idle", "reset", "load"} /\ "put" \notin {"idle", "reset", "load"}
    BY <2>1
  <2>3. Quiet /\ \A x \in DOMAIN handles : x.intent \notin Intents => ~handles[x].cancelled
    BY <2>2, TickQuiet
  <2>4. TurnInv' /\ CallInv' /\ FirstInv' /\ AgainInv'
    BY <2>1, <2>3, TickSteps
  <2>5. ChainInv' /\ StoreInv'
    BY <2>1, ChainKeeps, StoreSame
  <2>6. WriteInv'
    BY <2>1, <2>2, SameWire, WriteKeeps
  <2>7. PICK id \in DOMAIN todo :
           \/ /\ todo' = [todo EXCEPT ![id] = WithStatus(todo[id], NextStatus(id, todo[id]))]
              /\ cur' = id /\ phase' = "put"
           \/ todo' = Without(todo, id) /\ phase' = phase
    BY DEF Advance
  <2>8. CASE todo' = Without(todo, id) /\ phase' = phase
    <3>1. DOMAIN todo' \subseteq DOMAIN todo /\ \A x \in DOMAIN todo' : todo'[x] = todo[x]
      BY <2>8, WithoutOne
    <3>2. CopyInv'
      BY <2>1, <2>2, <2>8, <3>1, CopyGoesOn
    <3>. QED BY <2>4, <2>5, <2>6, <3>2
  <2>9. CASE /\ todo' = [todo EXCEPT ![id] = WithStatus(todo[id], NextStatus(id, todo[id]))]
             /\ cur' = id /\ phase' = "put"
    <3>1. PICK next : next = NextStatus(id, todo[id])
      OBVIOUS
    <3>2. /\ DOMAIN todo' = DOMAIN todo
          /\ todo'[id] = WithStatus(todo[id], next)
          /\ \A x \in DOMAIN todo : x # id => todo'[x] = todo[x]
      BY <2>9, <3>1
    <3>3. /\ todo'[id].status = next /\ todo'[id].cancelled = todo[id].cancelled
          /\ todo'[id].revs = todo[id].revs /\ todo'[id].signed = todo[id].signed
      BY SMT, <3>2 DEF WithStatus, Rec
    <3>4. ASSUME NEW x \in DOMAIN todo', x.intent \notin Intents
          PROVE  ~todo'[x].cancelled /\ todo'[x].status.kind # "Dropped"
      <4>1. ~todo[x].cancelled /\ todo[x].status.kind # "Dropped"
        BY <3>2, <3>4 DEF CopyInv
      <4>. QED BY <3>1, <3>2, <3>3, <4>1, NextDropped
    <3>5. ASSUME NEW x \in DOMAIN todo', x.intent \in Intents
          PROVE  /\ todo'[x].revs = handles'[x].revs /\ todo'[x].signed = handles'[x].signed
                 /\ ~IsTerminal(handles'[x].status)
                 /\ todo'[x].status = handles'[x].status \/ x = cur'
      <4>1. /\ todo[x].revs = handles[x].revs /\ todo[x].signed = handles[x].signed
            /\ ~IsTerminal(handles[x].status) /\ todo[x].status = handles[x].status
        BY <2>2, <3>2, <3>5 DEF CopyInv
      <4>. QED BY <2>1, <2>9, <3>2, <3>3, <4>1
    <3>6. ASSUME id.intent \in Intents, next.kind \in Gone
          PROVE  id.nonce < Len(ledger') /\ \A t \in Broadcasts' : IdOf(t) # id
      BY <2>1, <3>1, <3>6, SameWire, NowhereToBeSeen
    <3>7. CopyInv'
      BY <2>2, <2>9, <3>3, <3>4, <3>5, <3>6 DEF CopyInv
    <3>. QED BY <2>4, <2>5, <2>6, <3>7
  <2>. QED BY <2>7, <2>8, <2>9
\* tick: the new status is written, and a displaced intent is resent.
<1>OAdvancePuts. ASSUME AdvancePut
                 PROVE  OInv'
  <2>. USE <1>OAdvancePuts
  <2>. USE DEF OInv
  <2>1. /\ phase = "put" /\ UNCHANGED <<pool, ledger, cycle>> /\ todo' = Without(todo, cur)
        /\ Put(cur, todo[cur]) /\ phase' \in {"confirm", "refill"}
        /\ \/ phase' = "confirm" /\ UNCHANGED taskVars
           \/ /\ phase' = "refill" /\ todo[cur].status.kind = "Replaced"
              /\ Goto(Refiller, "new")
              /\ job' = [job EXCEPT ![Refiller] = Job(cur, NoRecord, 0, FALSE)]
    <3>1. ~Fault("store")
      BY DEF Calm, Fault
    <3>2. phase' = "confirm" \/ phase' = "refill" => phase' \in {"confirm", "refill"}
      OBVIOUS
    <3>. QED BY <3>1, <3>2 DEF AdvancePut, chainVars
  <2>2. /\ phase \notin {"idle", "refill"} /\ phase # "bumpPut" /\ phase \in {"put", "bumpPut"}
        /\ phase' \notin {"idle", "reset", "load", "put"}
    BY <2>1
  <2>3. Quiet /\ \A x \in DOMAIN handles : x.intent \notin Intents => ~handles[x].cancelled
    BY <2>2, TickQuiet
  <2>4. cur \in DOMAIN todo /\ cur \in DOMAIN handles
    BY <2>2 DEF LInv, TodoInv
  <2>5. cur.intent \in Intents =>
           /\ todo[cur].revs = handles[cur].revs /\ todo[cur].signed = handles[cur].signed
           /\ ~IsTerminal(handles[cur].status)
    BY <2>4 DEF CopyInv
  <2>6. Sound(cur, todo[cur])
    <3>1. cur.intent \in Intents => todo[cur].signed \in todo[cur].revs
      BY <2>4, <2>5 DEF StoreInv
    <3>. QED BY <2>2, <3>1, SoundCopy
  <2>7. StoreInv' /\ ChainInv'
    BY <2>1, <2>6, StorePuts, ChainKeeps
  <2>8. WriteInv'
    <3>1. ASSUME NEW t \in Broadcasts, IdOf(t) = cur
          PROVE  t.rev \in todo[cur].revs /\ todo[cur].status.kind \notin Gone
      <4>1. cur.intent \in Intents
        <5>1. t.intent \in Intents
          BY WireFiled
        <5>. QED BY <3>1, <5>1 DEF IdOf, Id
      <4>2. t.rev \in todo[cur].revs
        BY <2>2, <2>5, <3>1, <4>1 DEF WriteInv, Written
      <4>. QED BY <2>1, <3>1, <4>1, <4>2 DEF CopyInv
    <3>. QED BY <2>1, <2>2, <3>1, WritePuts
  <2>9. CopyInv'
    BY <2>1, <2>2, CopyPuts DEF LInv
  <2>10. /\ DOMAIN handles' = DOMAIN handles \cup {cur}
         /\ handles'[cur] = todo[cur]
         /\ \A x \in DOMAIN handles : x # cur => handles'[x] = handles[x]
    BY <2>1, PutReads
  <2>11. ASSUME NEW x \in DOMAIN handles' PROVE x \in DOMAIN handles
    BY <2>4, <2>10
  <2>12. ASSUME NEW x \in DOMAIN handles', x.intent \notin Intents PROVE ~handles'[x].cancelled
    BY <2>3, <2>4, <2>10, <2>12 DEF CopyInv
  <2>13. CASE UNCHANGED taskVars
    <3>1. TurnInv' /\ CallInv' /\ FirstInv' /\ AgainInv'
      BY <2>3, <2>11, <2>12, <2>13, TickSteps
    <3>. QED BY <2>7, <2>8, <2>9, <3>1
  <2>14. CASE /\ phase' = "refill" /\ todo[cur].status.kind = "Replaced"
              /\ Goto(Refiller, "new")
              /\ job' = [job EXCEPT ![Refiller] = Job(cur, NoRecord, 0, FALSE)]
    <3>1. Refiller \in Tasks /\ Intents \subseteq Tasks /\ Refiller \notin Intents
      BY WalletRuntimeAssumption DEF Tasks, Senders
    <3>2. /\ pc'[Refiller] = "new" /\ \A q \in Tasks : q # Refiller => pc'[q] = pc[q]
          /\ job'[Refiller] = Job(cur, NoRecord, 0, FALSE)
          /\ \A q \in Tasks : q # Refiller => job'[q] = job[q]
      BY <2>14, <3>1 DEF Goto, LInv, JobInv
    <3>3. \A q \in Tasks : pc'[q] \in Idle
      <4>1. "new" \in Idle
        BY DEF Idle
      <4>. QED BY <2>3, <3>2, <4>1 DEF Quiet
    <3>4. TurnInv'
      BY <2>14, <3>3 DEF TurnInv
    <3>5. CallInv'
      BY <2>12, <3>3, CallRests
    <3>6. FirstInv'
      <4>1. \A i \in Intents : pc'[i] \in Starting =>
               pc[i] \in Starting /\ (pc'[i] = "persist" => job'[i].id.intent = i)
        BY <3>1, <3>2 DEF FirstInv
      <4>. QED BY <2>11, <4>1, FirstKeeps
    <3>7. AgainInv'
      <4>1. job'[Refiller].id = cur
        BY SMT, <3>2 DEF Job
      <4>2. ASSUME NEW x \in DOMAIN handles', x.intent = cur.intent, cur.intent \in Intents
            PROVE  handles'[x].status.kind \in Gone
        <5>1. "Replaced" \in Gone
          BY DEF Gone
        <5>2. CASE x = cur
          BY <2>10, <2>14, <5>1, <5>2
        <5>3. CASE x # cur
          <6>1. Kind(cur) \notin Gone
            BY <2>5, <4>2 DEF IsTerminal, Gone, Kind
          <6>2. x \in DOMAIN handles /\ handles'[x] = handles[x]
            BY <2>10, <5>3
          <6>3. Kind(x) \in Gone
            BY <2>4, <4>2, <5>3, <6>1, <6>2 DEF StoreInv
          <6>. QED BY <6>2, <6>3 DEF Kind
        <5>. QED BY <5>2, <5>3
      <4>3. cur \in DOMAIN handles'
        BY <2>10
      <4>. QED BY <4>1, <4>2, <4>3 DEF AgainInv, Kind
    <3>. QED BY <2>7, <2>8, <2>9, <3>4, <3>5, <3>6, <3>7
  <2>. QED BY <2>1, <2>13, <2>14
\* tick: escalate checks, signs and broadcasts a bump.
<1>OBumps. ASSUME BumpCheck \/ BumpSubmit
           PROVE  OInv'
  <2>. USE <1>OBumps
  <2>. USE DEF OInv
  <2>1. UNCHANGED <<handles, ledger, taskVars, cycle>> /\ phase \in {"escalate", "bump"}
    BY DEF BumpCheck, BumpSubmit, walletVars, chainVars
  <2>2. phase \notin {"idle", "refill"} /\ phase # "put" /\ phase # "bumpPut"
    BY <2>1
  <2>3. Quiet /\ \A x \in DOMAIN handles : x.intent \notin Intents => ~handles[x].cancelled
    BY <2>2, TickQuiet
  <2>4. TurnInv' /\ CallInv' /\ FirstInv' /\ AgainInv'
    BY <2>1, <2>3, TickSteps
  <2>5. StoreInv'
    BY <2>1, StoreSame
  <2>6. CopyInv'
    <3>1. phase' \in {"escalate", "bump", "bumpPut"}
      BY DEF BumpCheck, BumpSubmit
    <3>2. phase' # "put" /\ phase' \notin {"idle", "reset", "load"}
      BY <3>1
    <3>3. todo' = todo \/ \E id : todo' = Without(todo, id)
      BY DEF BumpCheck, BumpSubmit
    <3>4. DOMAIN todo' \subseteq DOMAIN todo /\ \A x \in DOMAIN todo' : todo'[x] = todo[x]
      BY <3>3, WithoutOne
    <3>. QED BY <2>1, <2>2, <3>2, <3>4, CopyGoesOn
  <2>7. CASE BumpCheck
    <3>1. UNCHANGED pool
      BY <2>7 DEF BumpCheck, chainVars
    <3>2. ChainInv' /\ WriteInv'
      BY <2>1, <2>2, <3>1, ChainKeeps, WriteKeeps, SameWire
    <3>. QED BY <2>4, <2>5, <2>6, <3>2
  <2>8. CASE BumpSubmit
    <3>1. PICK result : /\ Submit(Tx(cur, todo[cur].signed + 1), result)
                        /\ \/ result = "sent" /\ phase' = "bumpPut" /\ UNCHANGED <<todo, cur>>
                           \/ result # "sent"
      BY <2>8 DEF BumpSubmit
    <3>2. PICK tx : tx = Tx(cur, todo[cur].signed + 1)
      OBVIOUS
    <3>3. cur \in DOMAIN todo
      BY <2>8 DEF BumpSubmit, LInv, TodoInv
    <3>4. /\ IsTx(tx) /\ IdOf(tx) = cur /\ tx.rev = todo[cur].signed + 1
          /\ Ours(tx) => Kind(cur) \notin Gone
      BY <2>2, <3>2, <3>3, CopyTx
    <3>5. ChainInv'
      BY <2>1, <3>1, <3>2, <3>4, ChainSubmits
    <3>6. WriteInv'
      <4>1. CASE result # "sent"
        <5>1. UNCHANGED pool
          BY <3>1, <4>1 DEF Submit, Calm, Fault
        <5>. QED BY <2>1, <2>2, <5>1, WriteKeeps, SameWire
      <4>2. CASE result = "sent"
        <5>1. \A t \in Broadcasts' : t \in Broadcasts \/ (t = tx /\ Ours(tx))
          BY <2>1, <3>1, <3>2, SubmitAdds
        <5>2. tx \in Broadcasts' => Ours(tx)
          BY DEF Broadcasts
        <5>3. Written(tx)'
          BY <3>1, <3>4, <4>2 DEF Written
        <5>4. UNCHANGED handles /\ \A t \in Broadcasts' : t \in Broadcasts \/ t = tx
          BY <2>1, <5>1
        <5>5. tx \in Broadcasts' => Written(tx)' /\ Kind(IdOf(tx)) \notin Gone
          BY <3>4, <5>2, <5>3
        <5>. QED BY <2>2, <5>4, <5>5, WriteAdds
      <4>. QED BY <4>1, <4>2
    <3>. QED BY <2>4, <2>5, <2>6, <3>5, <3>6
  <2>. QED BY <2>7, <2>8
\* tick: the bump is recorded.
<1>OBumpPuts. ASSUME BumpPut
              PROVE  OInv'
  <2>. USE <1>OBumpPuts
  <2>. USE DEF OInv
  <2>1. /\ phase = "bumpPut" /\ UNCHANGED <<pool, ledger, taskVars, cycle>>
        /\ todo' = Without(todo, cur) /\ phase' = "escalate"
    BY DEF BumpPut, chainVars
  <2>2. /\ phase \notin {"idle", "refill"} /\ phase # "put" /\ phase \in {"put", "bumpPut"}
        /\ phase' \notin {"idle", "reset", "load", "put"}
    BY <2>1
  <2>3. Quiet /\ \A x \in DOMAIN handles : x.intent \notin Intents => ~handles[x].cancelled
    BY <2>2, TickQuiet
  <2>4. PICK rec : rec = Bumped(todo[cur], todo[cur].signed + 1)
    OBVIOUS
  <2>5. Put(cur, rec)
    BY <2>4, PutLands DEF BumpPut
  <2>6. /\ rec.status = todo[cur].status /\ rec.cancelled = todo[cur].cancelled
        /\ rec.revs = todo[cur].revs \cup {todo[cur].signed + 1} /\ rec.signed = todo[cur].signed + 1
    BY <2>4 DEF Bumped, Rec
  <2>7. rec.signed \in rec.revs
    BY <2>6
  <2>8. cur \in DOMAIN todo /\ cur \in DOMAIN handles /\ Sound(cur, rec)
    BY <2>2, <2>6, <2>7, SoundCopy
  <2>9. StoreInv' /\ ChainInv'
    BY <2>1, <2>5, <2>8, StorePuts, ChainKeeps
  <2>10. WriteInv'
    <3>1. ASSUME NEW t \in Broadcasts, IdOf(t) = cur
          PROVE  t.rev \in rec.revs /\ rec.status.kind \notin Gone
      <4>1. cur.intent \in Intents
        <5>1. t.intent \in Intents
          BY WireFiled
        <5>. QED BY <3>1, <5>1 DEF IdOf, Id
      <4>2. /\ todo[cur].revs = handles[cur].revs /\ todo[cur].status = handles[cur].status
            /\ todo[cur].signed = handles[cur].signed
        BY <2>2, <2>8, <4>1 DEF CopyInv
      <4>3. t.rev \in todo[cur].revs \/ t.rev = todo[cur].signed + 1
        BY <3>1, <4>2 DEF WriteInv, Written
      <4>4. rec.status.kind \notin Gone
        BY <2>6, <3>1, <4>2 DEF WriteInv, Kind
      <4>. QED BY <2>6, <4>3, <4>4
    <3>. QED BY <2>1, <2>5, <3>1, WritePuts
  <2>11. CopyInv'
    BY <2>1, <2>2, <2>5, CopyPuts DEF LInv
  <2>12. /\ DOMAIN handles' = DOMAIN handles \cup {cur}
         /\ handles'[cur] = rec
         /\ \A x \in DOMAIN handles : x # cur => handles'[x] = handles[x]
    BY <2>5, PutReads
  <2>13. ASSUME NEW x \in DOMAIN handles' PROVE x \in DOMAIN handles
    BY <2>8, <2>12
  <2>14. ASSUME NEW x \in DOMAIN handles', x.intent \notin Intents PROVE ~handles'[x].cancelled
    BY <2>3, <2>6, <2>8, <2>12, <2>14 DEF CopyInv
  <2>15. TurnInv' /\ CallInv' /\ FirstInv' /\ AgainInv'
    BY <2>1, <2>3, <2>13, <2>14, TickSteps
  <2>. QED BY <2>9, <2>10, <2>11, <2>15
\* The chain mines a transaction.
<1>OMines. ASSUME Mine \/ MineForeign
           PROVE  OInv'
  <2>. USE <1>OMines
  <2>. USE DEF OInv
  <2>1. PICK t : /\ Mined(t) /\ IsTx(t) /\ t.nonce = Len(ledger)
                 /\ t \in pool \/ ~Ours(t)
    <3>1. CASE Mine
      BY <3>1 DEF Mine, ChainInv
    <3>2. CASE MineForeign
      <4>1. PICK t : t = Foreign(Len(ledger))
        OBVIOUS
      <4>2. Len(ledger) \in Nat
        BY LedgerLength
      <4>3. IsTx(t) /\ t.nonce = Len(ledger) /\ t.intent = "foreign"
        BY <4>1, <4>2 DEF Foreign, IsTx, Tx, IdOf, Id
      <4>4. ~Ours(t)
        BY <4>3, WalletRuntimeAssumption DEF Ours
      <4>. QED BY <3>2, <4>1, <4>3, <4>4 DEF MineForeign
    <3>. QED BY <3>1, <3>2
  <2>2. /\ ledger' = Append(ledger, t) /\ pool' = {u \in pool : u.nonce # t.nonce}
        /\ UNCHANGED <<handles, pc, job, phase, todo, cur, cycle>>
    BY <2>1 DEF Mined, walletVars, taskVars, tickVars
  <2>3. /\ Len(ledger) \in Nat /\ Len(ledger') = Len(ledger) + 1
        /\ \A k \in 1 .. Len(ledger) : ledger'[k] = ledger[k]
        /\ ledger'[Len(ledger) + 1] = t
    <3>. DEFINE R == {ledger[k] : k \in 1 .. Len(ledger)}
                S == R \cup {t}
    <3>1. ledger \in Seq(S)
      BY SMT DEF LInv, LedgerInv
    <3>. HIDE DEF S
    <3>. QED BY SMT, <2>2, <3>1 DEF S
  <2>4. \A k \in 1 .. Len(ledger') : k \in 1 .. Len(ledger) \/ k = Len(ledger) + 1
    BY SMT, <2>3
  <2>5. Broadcasts' \subseteq Broadcasts
    <3>. SUFFICES ASSUME NEW u \in Broadcasts' PROVE u \in Broadcasts
      OBVIOUS
    <3>1. Ours(u) /\ (u \in pool \/ \E k \in 1 .. Len(ledger') : u = ledger'[k])
      BY <2>2 DEF Broadcasts
    <3>. QED BY <2>1, <2>3, <2>4, <3>1 DEF Broadcasts
  <2>6. ChainInv'
    <3>1. ASSUME NEW u \in pool' PROVE IsTx(u) /\ u.nonce >= Len(ledger')
      <4>1. u \in pool /\ u.nonce # Len(ledger)
        BY <2>1, <2>2
      <4>2. IsTx(u) /\ u.nonce \in Nat /\ u.nonce >= Len(ledger)
        BY <4>1 DEF ChainInv, IsTx
      <4>3. u.nonce >= Len(ledger')
        BY SMT, <2>3, <4>1, <4>2
      <4>. QED BY <4>2, <4>3
    <3>2. ASSUME NEW k \in 1 .. Len(ledger') PROVE IsTx(ledger'[k]) /\ ledger'[k].nonce = k - 1
      <4>1. CASE k \in 1 .. Len(ledger)
        BY <2>3, <4>1 DEF ChainInv
      <4>2. CASE k = Len(ledger) + 1
        <5>1. Len(ledger) = k - 1
          BY SMT, <2>3, <4>2
        <5>. QED BY <2>1, <2>3, <4>2, <5>1
      <4>. QED BY <2>4, <4>1, <4>2
    <3>3. cycle' \in Nat /\ cycle' <= Len(ledger')
      BY SMT, <2>2, <2>3 DEF ChainInv
    <3>. QED BY <3>1, <3>2, <3>3 DEF ChainInv
  <2>7. Len(ledger') \in Nat /\ Len(ledger) <= Len(ledger')
    BY SMT, <2>3
  <2>8. StoreInv'
    BY <2>2, <2>3, <2>7, StoreKeeps
  <2>9. WriteInv'
    BY <2>2, <2>5, WriteKeeps DEF tickVars
  <2>10. CopyInv'
    <3>1. ASSUME phase = "put", cur.intent \in Intents, todo[cur].status.kind \in Gone
          PROVE  cur.nonce < Len(ledger') /\ \A u \in Broadcasts' : IdOf(u) # cur
      <4>1. cur.nonce < Len(ledger) /\ \A u \in Broadcasts : IdOf(u) # cur
        BY <3>1 DEF CopyInv
      <4>2. cur.nonce \in Nat
        <5>1. cur \in DOMAIN handles
          BY <3>1 DEF LInv, TodoInv
        <5>. QED BY <5>1 DEF StoreInv
      <4>3. cur.nonce < Len(ledger')
        BY SMT, <2>3, <4>1, <4>2
      <4>. QED BY <2>5, <4>1, <4>3
    <3>. QED BY <2>2, <3>1 DEF CopyInv
  <2>11. CallInv'
    BY <2>2, <2>5 DEF CallInv
  <2>12. TurnInv' /\ FirstInv' /\ AgainInv'
    BY <2>2 DEF TurnInv, FirstInv, AgainInv, Kind
  <2>. QED BY <2>6, <2>8, <2>9, <2>10, <2>11, <2>12
<1>1. ASSUME NEW p \in Senders, Send(p) PROVE OInv'
  BY <1>1, <1>OSendStarts, <1>OSendAllocates, <1>OSendPersists, <1>OSendSubmits, <1>OSendMarks,
     <1>OSendReleases DEF Send
<1>2. ASSUME NEW c \in Cancellers, CancelCall(c) PROVE OInv'
  BY <1>2, <1>OCancelLoads, <1>OCancelPoisons, <1>OCancelSubmits, <1>OCancelEnds DEF CancelCall
<1>3. CASE Tick \/ TickError
  BY <1>3, <1>OTickLoads, <1>OTickMovesOn, <1>ORecovers, <1>OAdvances, <1>OAdvancePuts, <1>OBumps, <1>OBumpPuts
     DEF Tick
<1>4. ~Crash
  BY DEF Calm, Crash, Fault
<1>5. CASE Mine \/ MineForeign
  BY <1>5, <1>OMines
<1>6. CASE UNCHANGED vars
  <2>1. UNCHANGED <<handles, pool, ledger, pc, job, phase, todo, cur, cycle>>
    BY <1>6 DEF vars, walletVars, chainVars, taskVars, tickVars
  <2>2. Broadcasts' = Broadcasts
    BY <2>1, SameWire
  <2>3. TurnInv' /\ ChainInv' /\ StoreInv' /\ WriteInv'
    BY <2>1, <2>2 DEF OInv, TurnInv, ChainInv, StoreInv, WriteInv, Written, Kind
  <2>4. CopyInv'
    BY <2>1, <2>2 DEF OInv, CopyInv
  <2>5. CallInv'
    BY <2>1, <2>2 DEF OInv, CallInv
  <2>6. FirstInv' /\ AgainInv'
    BY <2>1 DEF OInv, FirstInv, AgainInv, Kind
  <2>. QED BY <2>3, <2>4, <2>5, <2>6 DEF OInv
<1>. QED BY <1>1, <1>2, <1>3, <1>4, <1>5, <1>6 DEF Next

\* The inductive invariant holds: calls and the tick take turns, every broadcast
\* is in the record of a handle that is not given up, and an intent has at most
\* one such handle (transaction_manager.rs:487-565, executor/mod.rs:271-289).
THEOREM OInvHolds ==
    ASSUME Calm
    PROVE  Spec => []OInv
<1>1. LInv /\ OInv /\ [Next]_vars => OInv'
  BY Zenon, OInvStep
<1>. QED BY <1>1, OInvInit, LInvHolds, PTL DEF Spec

\* However often it is bumped, displaced and refilled, an intent is executed at
\* most once (executor/mod.rs:271-289, lifecycle.rs:76-77): a Replaced intent is
\* sent again at a new nonce only when nothing of it can be mined any more.
THEOREM ExecutedAtMostOnce ==
    ASSUME Calm
    PROVE  Spec => []AtMostOnce
<1>1. ASSUME LInv, OInv PROVE AtMostOnce
  <2>. USE Zenon
  <2>. SUFFICES ASSUME NEW j \in 1 .. Len(ledger), NEW k \in 1 .. Len(ledger),
                       Ours(ledger[j]), ledger[j].intent = ledger[k].intent
                PROVE  j = k
    BY DEF AtMostOnce
  <2>1. ledger[j] \in Broadcasts /\ ledger[k] \in Broadcasts
    BY DEF Broadcasts, Ours
  <2>2. /\ IdOf(ledger[j]) \in DOMAIN handles /\ IdOf(ledger[k]) \in DOMAIN handles
        /\ ledger[j].intent \in Intents
    BY <1>1, <2>1, WireFiled
  <2>3. Kind(IdOf(ledger[j])) \notin Gone /\ Kind(IdOf(ledger[k])) \notin Gone
    BY <1>1, <2>1 DEF OInv, WriteInv
  <2>4. IdOf(ledger[j]).intent = ledger[j].intent /\ IdOf(ledger[k]).intent = ledger[k].intent
    BY DEF IdOf, Id
  <2>5. IdOf(ledger[j]) = IdOf(ledger[k])
    BY <1>1, <2>2, <2>3, <2>4 DEF OInv, StoreInv
  <2>6. ledger[j].nonce = ledger[k].nonce
    BY <2>5 DEF IdOf, Id
  <2>7. ledger[j].nonce = j - 1 /\ ledger[k].nonce = k - 1
    BY <1>1 DEF OInv, ChainInv
  <2>8. j \in Nat /\ k \in Nat
    BY SMT, <1>1, LedgerLength
  <2>9. j - 1 = k - 1
    BY <2>6, <2>7
  <2>. QED BY SMT, <2>8, <2>9
<1>2. LInv /\ OInv => AtMostOnce
  BY Zenon, <1>1
<1>3. Spec => []LInv /\ []OInv
  BY Zenon, LInvHolds, OInvHolds
<1>. QED BY <1>2, <1>3, PTL

\* A transaction reported Dropped was not executed: "a self-send at its nonce
\* evicted it" (primitives/handle.rs:66).
THEOREM DroppedDidNotRun ==
    ASSUME Calm
    PROVE  Spec => []DroppedNotExecuted
<1>1. ASSUME LInv, OInv PROVE DroppedNotExecuted
  <2>. USE Zenon
  <2>. SUFFICES ASSUME NEW x \in DOMAIN handles, handles[x].status.kind = "Dropped",
                       ledger[x.nonce + 1].intent = x.intent
                PROVE  FALSE
    BY DEF DroppedNotExecuted
  <2>1. /\ x.intent \in Intents /\ x.nonce \in Nat /\ x.nonce < Len(ledger)
        /\ IsId(x) /\ Len(ledger) \in Nat
    <3>1. "Dropped" \in {"Replaced", "Dropped"}
      OBVIOUS
    <3>. QED BY <1>1, <3>1, LedgerLength DEF OInv, StoreInv, Kind, LInv, HandlesInv
  <2>2. x.nonce + 1 \in 1 .. Len(ledger) /\ (x.nonce + 1) - 1 = x.nonce
    BY SMT, <2>1
  <2>3. ledger[x.nonce + 1] \in Broadcasts
    BY <2>1, <2>2 DEF Broadcasts, Ours
  <2>4. ledger[x.nonce + 1].nonce = x.nonce
    BY <1>1, <2>2 DEF OInv, ChainInv
  <2>5. IdOf(ledger[x.nonce + 1]) = x
    BY <2>1, <2>4 DEF IdOf, IsId
  <2>6. "Dropped" \in Gone
    BY DEF Gone
  <2>. QED BY <1>1, <2>3, <2>5, <2>6 DEF OInv, WriteInv, Kind
<1>2. LInv /\ OInv => DroppedNotExecuted
  BY Zenon, <1>1
<1>3. Spec => []LInv /\ []OInv
  BY Zenon, LInvHolds, OInvHolds
<1>. QED BY <1>2, <1>3, PTL
=============================================================================
