--------------------------- MODULE WalletRuntime ---------------------------
(***************************************************************************)
(* One account of a running wallet: send and cancel of TransactionManager  *)
(* (core/wallet/transaction_manager.rs) and tick of AccountExecutor        *)
(* (core/wallet/executor/mod.rs), over one StateStore, one mempool and one *)
(* chain.  Every await is a step, so (Concurrent) any other operation may  *)
(* run between two of them; handles are read and written as whole records. *)
(*                                                                         *)
(* The nonce manager is the atomic allocator that its compare-and-swap     *)
(* loops are proved to implement (NonceAllocator).  The status of a handle *)
(* moves by Lifecycle's Transition under a one-confirmation view: depth    *)
(* and reorgs are the subject of Confirmation.  Fees are revisions: a bump *)
(* or a cancel of revision r is signed with revision r + 1.                *)
(***************************************************************************)
EXTENDS NonceAllocator, Lifecycle, Sequences, FiniteSets

CONSTANTS
    Intents,     \* what the user asks to send, once each
    Cancellers,  \* calls of cancel
    Concurrent,  \* may send, cancel and tick run at the same time?
    Refill,      \* is a displaced intent sent again?
    Faults,      \* the fault kinds that may happen, of sign, store, read,
                 \* reject, transient (a broadcast of unknown fate) and crash
    MaxFaults,   \* bound: faults
    MaxForeign,  \* bound: out-of-band transactions with this key
    MaxRev,      \* the gas ceiling, as a fee revision
    MaxNonce     \* bound: no send beyond this nonce

VARIABLES
    handles,  \* the store: HandleId -> record, ids being (intent, nonce)
    pool,     \* transactions some node or builder may still mine
    ledger,   \* the mined transaction of each nonce
    pc,       \* where each send and cancel is
    job,      \* its locals: the handle id, its copy of the record, retries
    phase,    \* where the executor's tick is
    todo,     \* the executor's snapshot of pending_handles, what is left of it
    cur,      \* the handle id the executor works on
    cycle,    \* mined_nonce of the executor's cycle
    foreign,  \* out-of-band transactions so far
    faults    \* faults so far

walletVars == <<used, fresh, handles>>
chainVars  == <<pool, ledger, foreign>>
taskVars   == <<pc, job>>
tickVars   == <<phase, todo, cur, cycle>>
vars == <<walletVars, chainVars, taskVars, tickVars, faults>>

Cancel   == "cancel"
Refiller == "refill"
Senders  == Intents \cup {Refiller}
Tasks    == Senders \cup Cancellers

Id(i, n)     == [intent |-> i, nonce |-> n]
Tx(id, r)    == [intent |-> id.intent, nonce |-> id.nonce, rev |-> r]
NoId         == Id("none", 0)
Foreign(n)   == [intent |-> "foreign", nonce |-> n, rev |-> 0]
HandleIds    == [intent : Intents \cup {Cancel}, nonce : 0 .. MaxNonce]
Record       == [status : TxStatus, cancelled : BOOLEAN, revs : SUBSET (0 .. MaxRev),
                 signed : 0 .. MaxRev]

\* A handle's record; a call's locals.
Rec(status, cancelled, revs, signed) ==
    [status |-> status, cancelled |-> cancelled, revs |-> revs, signed |-> signed]
Job(id, rec, basis, retried) ==
    [id |-> id, rec |-> rec, basis |-> basis, retried |-> retried]
NoRecord == Rec(Plain("Pending"), FALSE, {}, 0)
NoJob    == Job(NoId, NoRecord, 0, FALSE)
Empty    == [x \in {} |-> NoRecord]

\* The copies of a record that the code makes by assigning some of its fields.
WithStatus(rec, s) == Rec(s, rec.cancelled, rec.revs, rec.signed)
Cancelled(rec, b)  == Rec(rec.status, b, rec.revs, rec.signed)
Bumped(rec, r)     == Rec(rec.status, rec.cancelled, rec.revs \cup {r}, r)

\* Intents are told apart from the wallet's own cancels, from whatever else the
\* key signs and from the executor's resends; no call is a send and a cancel.
ASSUME WalletRuntimeAssumption ==
    /\ Intents \cap {Cancel, "foreign", Refiller} = {}
    /\ Cancellers \cap Senders = {}

TypeOK ==
    /\ used \subseteq 0 .. MaxNonce + MaxForeign
    /\ DOMAIN handles \subseteq HandleIds
    /\ \A x \in DOMAIN handles : handles[x] \in Record
    /\ \A t \in pool : Id(t.intent, t.nonce) \in HandleIds /\ t.nonce >= Len(ledger)
    /\ DOMAIN pc = Tasks /\ DOMAIN job = Tasks
    /\ \A p \in Tasks : job[p].rec \in Record
    /\ \A x \in DOMAIN todo : x \in HandleIds /\ todo[x] \in Record
    /\ cur \in HandleIds \cup {NoId}
    /\ cycle <= Len(ledger)
    /\ faults \in 0 .. MaxFaults /\ foreign \in 0 .. MaxForeign

Init ==
    /\ used = {} /\ fresh = FALSE
    /\ handles = Empty
    /\ pool = {} /\ ledger = <<>> /\ foreign = 0
    /\ pc = [p \in Tasks |-> IF p = Refiller THEN "done" ELSE "new"]
    /\ job = [p \in Tasks |-> NoJob]
    /\ phase = "idle" /\ todo = Empty /\ cur = NoId /\ cycle = 0
    /\ faults = 0

\* A fault of a kind this instance allows.
Fault(kind) ==
    /\ kind \in Faults
    /\ faults < MaxFaults
    /\ faults' = faults + 1

\* With a host that runs one operation at a time, nothing else is under way.
MayStart ==
    \/ Concurrent
    \/ (\A p \in Tasks : pc[p] \in {"new", "done"}) /\ phase = "idle"

Goto(p, l) == pc' = [pc EXCEPT ![p] = l]
Return(p)  == Goto(p, "done") /\ job' = [job EXCEPT ![p] = NoJob]

-----------------------------------------------------------------------------
(* The store, the node *)

\* put_handle: the whole record under its id.
Put(id, rec) ==
    handles' = [x \in DOMAIN handles \cup {id} |-> IF x = id THEN rec ELSE handles[x]]

\* put_handle whose error the caller drops.
PutIgnored(id, rec) ==
    \/ Put(id, rec) /\ UNCHANGED faults
    \/ Fault("store") /\ UNCHANGED handles

\* pending_handles: the records that are not terminal, of the given statuses.
Snapshot(kinds) ==
    [x \in {y \in DOMAIN handles : handles[y].status.kind \in kinds} |-> handles[x]]
NotTerminal == {k \in Kinds : ~IsTerminal(Plain(k))}

Without(f, x) == [y \in DOMAIN f \ {x} |-> f[y]]

\* What broadcasting tx can come to.  A node takes a new transaction or a
\* better-paid replacement; it calls a known transaction or a consumed nonce
\* "already known" or "nonce too low" (both count as sent).
Underpriced(tx) ==
    \E t \in pool : t.nonce = tx.nonce /\ t # tx /\ t.rev >= tx.rev

Submit(tx, result) ==
    \/ /\ result = "sent" /\ (tx.nonce < Len(ledger) \/ tx \in pool)
       /\ UNCHANGED <<pool, faults>>
    \/ /\ result = "sent" /\ tx.nonce >= Len(ledger) /\ tx \notin pool /\ ~Underpriced(tx)
       /\ pool' = pool \cup {tx} /\ UNCHANGED faults
    \/ /\ result = "underpriced" /\ tx.nonce >= Len(ledger) /\ tx \notin pool /\ Underpriced(tx)
       /\ UNCHANGED <<pool, faults>>
    \/ /\ result = "rejected" /\ tx.nonce >= Len(ledger) /\ tx \notin pool
       /\ Fault("reject") /\ UNCHANGED pool
    \/ /\ result = "transient" /\ tx.nonce >= Len(ledger)
       /\ Fault("transient")
       /\ pool' = pool \/ (~Underpriced(tx) /\ pool' = pool \cup {tx})

-----------------------------------------------------------------------------
(* send: send_with_meta and build_sign_submit *)

Intent(p) == IF p = Refiller THEN job[p].id.intent ELSE p

\* Route, account, simulation, fees and policy: refuse, or go on.
SendPreflight(p) ==
    /\ pc[p] = "new"
    /\ p # Refiller => MayStart
    /\ \/ Goto(p, "allocate") /\ UNCHANGED job
       \/ Return(p)
    /\ UNCHANGED <<walletVars, chainVars, tickVars, faults>>

\* allocate may also fail, with nothing reserved.
SendAllocate(p) ==
    /\ pc[p] = "allocate"
    /\ \/ \E n \in 0 .. MaxNonce :
             /\ AAllocate(n)
             /\ job' = [job EXCEPT ![p] =
                   Job(Id(Intent(p), n), Rec(Plain("Pending"), FALSE, {0}, 0), 0, FALSE)]
             /\ Goto(p, "persist")
       \/ Return(p) /\ UNCHANGED <<used, fresh>>
    /\ UNCHANGED <<handles, chainVars, tickVars, faults>>

\* Mutant: a failed write does not stop the broadcast.
SendPersistUnchecked(p) ==
    /\ pc[p] = "persist"
    /\ \/ Put(job[p].id, job[p].rec) /\ UNCHANGED faults
       \/ (Fault("sign") \/ Fault("store")) /\ UNCHANGED handles
    /\ Goto(p, "submit")
    /\ UNCHANGED <<used, fresh, job, chainVars, tickVars>>

\* Sign, then persist as Pending before any broadcast; if either fails,
\* nothing was sent and the nonce goes back.
SendPersist(p) ==
    /\ pc[p] = "persist"
    /\ \/ Put(job[p].id, job[p].rec) /\ Goto(p, "submit") /\ UNCHANGED faults
       \/ (Fault("sign") \/ Fault("store")) /\ Goto(p, "release") /\ UNCHANGED handles
    /\ UNCHANGED <<used, fresh, job, chainVars, tickVars>>

\* Mutant: an indeterminate broadcast is taken for a rejected one.
SubmitOutcomeStrict(result) == IF result = "sent" THEN "sent" ELSE "failed"

\* Indeterminate and already-accepted broadcasts count as sent.
SubmitOutcome(result) == IF result \in {"sent", "transient"} THEN "sent" ELSE "failed"

SendSubmit(p) ==
    /\ pc[p] = "submit"
    /\ \E result \in {"sent", "underpriced", "rejected", "transient"} :
          Submit(Tx(job[p].id, 0), result) /\ Goto(p, SubmitOutcome(result))
    /\ UNCHANGED <<walletVars, ledger, foreign, job, tickVars>>

SendMarkSent(p) ==
    /\ pc[p] = "sent"
    /\ PutIgnored(job[p].id, WithStatus(job[p].rec, Plain("Sent")))
    /\ Return(p)
    /\ UNCHANGED <<used, fresh, chainVars, tickVars>>

SendMarkFailed(p) ==
    /\ pc[p] = "failed"
    /\ PutIgnored(job[p].id, WithStatus(job[p].rec, Plain("Failed")))
    /\ Goto(p, "release")
    /\ UNCHANGED <<used, fresh, job, chainVars, tickVars>>

\* The nonce goes back, unless nothing is reserved there any more.
SendRelease(p) ==
    /\ pc[p] = "release"
    /\ IF job[p].id.nonce \in used
       THEN ARelease(job[p].id.nonce)
       ELSE UNCHANGED <<used, fresh>>
    /\ Return(p)
    /\ UNCHANGED <<handles, chainVars, tickVars, faults>>

-----------------------------------------------------------------------------
(* cancel *)

\* Load the target; refuse a settled one, or by policy.
CancelLoad(c) ==
    /\ pc[c] = "new"
    /\ MayStart
    /\ \E id \in DOMAIN handles :
          \/ Return(c)
          \/ /\ ~IsTerminal(handles[id].status)
             /\ job' = [job EXCEPT ![c] = Job(id, handles[id], handles[id].signed, FALSE)]
             /\ Goto(c, "poison")
    /\ UNCHANGED <<walletVars, chainVars, tickVars, faults>>

\* cancelled = true is persisted before anything is broadcast.
CancelPoison(c) ==
    /\ pc[c] = "poison"
    /\ LET rec == Cancelled(job[c].rec, TRUE)
       IN  \/ /\ Put(job[c].id, rec) /\ Goto(c, "cancel")
              /\ job' = [job EXCEPT ![c] = Job(@.id, rec, @.basis, FALSE)] /\ UNCHANGED faults
           \/ Fault("store") /\ Return(c) /\ UNCHANGED handles
    /\ UNCHANGED <<used, fresh, chainVars, tickVars>>

CancelTx(c) == Tx(Id(Cancel, job[c].id.nonce), job[c].basis + 1)

\* Broadcast one step above the target's fees, if the gas ceiling and the
\* signer allow it; once, when underpriced, re-base on the target's stored fees.
CancelSubmit(c) ==
    /\ pc[c] = "cancel"
    /\ \/ /\ (job[c].basis >= MaxRev /\ UNCHANGED faults) \/ Fault("sign")
          /\ Goto(c, "unpoison") /\ UNCHANGED <<job, pool>>
       \/ /\ job[c].basis < MaxRev
          /\ \E result \in {"sent", "underpriced", "rejected", "transient"} :
                /\ Submit(CancelTx(c), result)
                /\ IF result = "underpriced" /\ ~job[c].retried
                   THEN /\ job' = [job EXCEPT ![c] =
                                     Job(@.id, @.rec, handles[job[c].id].signed, TRUE)]
                        /\ UNCHANGED pc
                   ELSE /\ Goto(c, IF result = "sent" THEN "record" ELSE "unpoison")
                        /\ UNCHANGED job
    /\ UNCHANGED <<walletVars, ledger, foreign, tickVars>>

\* The cancel is taken not to have been broadcast: the flag is withdrawn.
CancelUnpoison(c) ==
    /\ pc[c] = "unpoison"
    /\ PutIgnored(job[c].id, Cancelled(job[c].rec, FALSE))
    /\ Return(c)
    /\ UNCHANGED <<used, fresh, chainVars, tickVars>>

\* The cancel gets a handle of its own.
CancelRecord(c) ==
    /\ pc[c] = "record"
    /\ LET r == CancelTx(c).rev
       IN  PutIgnored(Id(Cancel, job[c].id.nonce), Rec(Plain("Sent"), FALSE, {r}, r))
    /\ Return(c)
    /\ UNCHANGED <<used, fresh, chainVars, tickVars>>

-----------------------------------------------------------------------------
(* tick: recover, confirm, escalate *)

\* Mutant: recover looks at Sent handles only.
TickStartSentOnly ==
    /\ phase = "idle"
    /\ MayStart
    /\ phase' = "recover"
    /\ todo' = Snapshot({"Sent"})
    /\ UNCHANGED <<walletVars, chainVars, taskVars, cur, cycle, faults>>

TickStart ==
    /\ phase = "idle"
    /\ MayStart
    /\ phase' = "recover"
    /\ todo' = Snapshot({"Pending", "Sent"})
    /\ UNCHANGED <<walletVars, chainVars, taskVars, cur, cycle, faults>>

\* Rebroadcast the signed bytes of a snapshot record; any error is skipped.
Recover ==
    /\ phase = "recover"
    /\ \E id \in DOMAIN todo :
          /\ \E result \in {"sent", "underpriced", "rejected", "transient"} :
                Submit(Tx(id, todo[id].signed), result)
          /\ todo' = Without(todo, id)
    /\ UNCHANGED <<walletVars, ledger, foreign, taskVars, phase, cur, cycle>>

\* A head that went backwards skips confirm, not escalate.
ReadCycle ==
    /\ phase = "recover" /\ DOMAIN todo = {}
    /\ \/ phase' = "reset" /\ cycle' = Len(ledger) /\ UNCHANGED faults
       \/ Fault("read") /\ phase' = "confirm" /\ UNCHANGED cycle
    /\ UNCHANGED <<walletVars, chainVars, taskVars, todo, cur>>

ResetNonces ==
    /\ phase = "reset"
    /\ AReset(cycle)
    /\ phase' = "load"
    /\ UNCHANGED <<handles, chainVars, taskVars, todo, cur, cycle, faults>>

ConfirmLoad ==
    /\ phase = "load"
    /\ phase' = "confirm"
    /\ todo' = Snapshot(NotTerminal)
    /\ UNCHANGED <<walletVars, chainVars, taskVars, cur, cycle, faults>>

\* event_for on a snapshot record: a recorded hash on the chain is ours; with
\* none, a consumed nonce is somebody else's.
EventFor(id, rec) ==
    LET mined == id.nonce < Len(ledger)
    IN  IF mined /\ \E r \in rec.revs : ledger[id.nonce + 1] = Tx(id, r)
        THEN Event("Mined", 0, 0, TRUE)
        ELSE Event(IF id.nonce < cycle THEN "Replaced" ELSE "Pending", 0, 0, FALSE)

OneConfirmation == [latest |-> 0, finalized |-> 0, mode |-> "Depth"]

\* Mutant: a cancelled handle settles like any other.
SettledAsReplaced(id, rec) == Transition(rec.status, EventFor(id, rec), OneConfirmation, 1)

\* Mutant: a cancelled handle settles Dropped whatever was mined.
SettledAsDropped(id, rec) ==
    LET next == Transition(rec.status, EventFor(id, rec), OneConfirmation, 1)
    IN  IF IsTerminal(next) /\ rec.cancelled THEN Plain("Dropped") ELSE next

\* The status advance_on_chain writes: Dropped for a cancelled Replaced.
NextStatus(id, rec) ==
    LET next == Transition(rec.status, EventFor(id, rec), OneConfirmation, 1)
    IN  IF next.kind = "Replaced" /\ rec.cancelled THEN Plain("Dropped") ELSE next

\* No new evidence, or a failed read: the handle waits for the next tick.
Advance ==
    /\ phase = "confirm"
    /\ \E id \in DOMAIN todo :
          LET next == NextStatus(id, todo[id])
          IN  \/ /\ next # todo[id].status
                 /\ todo' = [todo EXCEPT ![id] = WithStatus(@, next)]
                 /\ cur' = id /\ phase' = "put" /\ UNCHANGED faults
              \/ /\ Fault("read") \/ (next = todo[id].status /\ UNCHANGED faults)
                 /\ todo' = Without(todo, id) /\ UNCHANGED <<phase, cur>>
    /\ UNCHANGED <<walletVars, chainVars, taskVars, cycle>>

\* Persist; only then, for a displaced intent, send it again.
AdvancePut ==
    /\ phase = "put"
    /\ cur' = NoId
    /\ todo' = Without(todo, cur)
    /\ \/ /\ Put(cur, todo[cur])
          /\ IF Refill /\ todo[cur].status.kind = "Replaced"
             THEN /\ phase' = "refill"
                  /\ Goto(Refiller, "new")
                  /\ job' = [job EXCEPT ![Refiller] = Job(cur, NoRecord, 0, FALSE)]
             ELSE phase' = "confirm" /\ UNCHANGED taskVars
          /\ UNCHANGED faults
       \/ Fault("store") /\ phase' = "confirm" /\ UNCHANGED <<handles, taskVars>>
    /\ UNCHANGED <<used, fresh, chainVars, cycle>>

RefillDone ==
    /\ phase = "refill" /\ pc[Refiller] = "done"
    /\ phase' = "confirm"
    /\ UNCHANGED <<walletVars, chainVars, taskVars, todo, cur, cycle, faults>>

EscalateLoad ==
    /\ phase = "confirm" /\ DOMAIN todo = {}
    /\ phase' = "escalate"
    /\ todo' = Snapshot({"Sent"})
    /\ cycle' = 0
    /\ UNCHANGED <<walletVars, chainVars, taskVars, cur, faults>>

\* Not stuck, already mined, or at the gas ceiling: leave it; else bump.
BumpCheck ==
    /\ phase = "escalate"
    /\ \E id \in DOMAIN todo :
          \/ todo' = Without(todo, id) /\ UNCHANGED <<phase, cur>>
          \/ /\ id.nonce >= Len(ledger)
             /\ todo[id].signed < MaxRev
             /\ phase' = "bump" /\ cur' = id /\ UNCHANGED todo
    /\ UNCHANGED <<walletVars, chainVars, taskVars, cycle, faults>>

\* Sign and broadcast; on an error that is not "already accepted" give up.
BumpSubmit ==
    /\ phase = "bump"
    /\ \E result \in {"sent", "underpriced", "rejected", "transient"} :
          /\ Submit(Tx(cur, todo[cur].signed + 1), result)
          /\ IF result = "sent"
             THEN phase' = "bumpPut" /\ UNCHANGED <<todo, cur>>
             ELSE phase' = "escalate" /\ todo' = Without(todo, cur) /\ cur' = NoId
    /\ UNCHANGED <<walletVars, ledger, foreign, taskVars, cycle>>

\* Mutant: the replacement's hash takes the place of the earlier ones.
BumpPutForgets ==
    /\ phase = "bumpPut"
    /\ LET r == todo[cur].signed + 1
       IN  PutIgnored(cur, Rec(todo[cur].status, todo[cur].cancelled, {r}, r))
    /\ todo' = Without(todo, cur) /\ cur' = NoId /\ phase' = "escalate"
    /\ UNCHANGED <<used, fresh, chainVars, taskVars, cycle>>

\* Record the replacement's hash and bytes.
BumpPut ==
    /\ phase = "bumpPut"
    /\ PutIgnored(cur, Bumped(todo[cur], todo[cur].signed + 1))
    /\ todo' = Without(todo, cur) /\ cur' = NoId /\ phase' = "escalate"
    /\ UNCHANGED <<used, fresh, chainVars, taskVars, cycle>>

TickEnd ==
    /\ phase = "escalate" /\ DOMAIN todo = {}
    /\ phase' = "idle"
    /\ UNCHANGED <<walletVars, chainVars, taskVars, todo, cur, cycle, faults>>

\* A head, count or store access of the tick fails: the tick returns Err.
TickError ==
    /\ phase \in {"reset", "load"} \/ (phase \in {"recover", "confirm"} /\ DOMAIN todo = {})
    /\ Fault("read")
    /\ phase' = "idle" /\ cycle' = 0
    /\ UNCHANGED <<walletVars, chainVars, taskVars, todo, cur>>

-----------------------------------------------------------------------------
(* The process dies; the chain moves *)

Crash ==
    /\ Fault("crash")
    /\ pc' = [p \in Tasks |-> IF pc[p] = "new" /\ p # Refiller THEN "new" ELSE "done"]
    /\ job' = [p \in Tasks |-> NoJob]
    /\ phase' = "idle" /\ todo' = Empty /\ cur' = NoId /\ cycle' = 0
    /\ UNCHANGED <<walletVars, chainVars>>

Mined(t) ==
    /\ ledger' = Append(ledger, t)
    /\ pool' = {u \in pool : u.nonce # t.nonce}
    /\ UNCHANGED <<walletVars, taskVars, tickVars, faults>>

Mine ==
    /\ \E t \in pool : t.nonce = Len(ledger) /\ Mined(t)
    /\ UNCHANGED foreign

\* The key is used outside this wallet.
MineForeign ==
    /\ foreign < MaxForeign
    /\ Mined(Foreign(Len(ledger)))
    /\ foreign' = foreign + 1

Send(p) ==
    \/ SendPreflight(p) \/ SendAllocate(p) \/ SendPersist(p) \/ SendSubmit(p)
    \/ SendMarkSent(p) \/ SendMarkFailed(p) \/ SendRelease(p)

CancelCall(c) ==
    CancelLoad(c) \/ CancelPoison(c) \/ CancelSubmit(c) \/ CancelUnpoison(c) \/ CancelRecord(c)

Tick ==
    \/ TickStart \/ Recover \/ ReadCycle \/ ResetNonces \/ ConfirmLoad \/ Advance
    \/ AdvancePut \/ RefillDone \/ EscalateLoad \/ BumpCheck \/ BumpSubmit \/ BumpPut
    \/ TickEnd

Next ==
    \/ \E p \in Senders : Send(p)
    \/ \E c \in Cancellers : CancelCall(c)
    \/ Tick \/ TickError
    \/ Crash
    \/ Mine \/ MineForeign

Spec == Init /\ [][Next]_vars

\* The host keeps ticking, a call under way runs on (nobody has to start one),
\* and the chain mines what is pooled.
UnderWay(p) == pc[p] # "new" \/ p = Refiller

Fairness ==
    /\ WF_vars(Tick)
    /\ \A p \in Senders : WF_vars(UnderWay(p) /\ Send(p))
    /\ \A c \in Cancellers : WF_vars(UnderWay(c) /\ CancelCall(c))
    /\ WF_vars(Mine)

FairSpec == Spec /\ Fairness

-----------------------------------------------------------------------------
(* Properties *)

Ours(t) == t.intent \in Intents

\* What this wallet has broadcast for its intents: pooled or mined.
Broadcasts == {t \in pool \cup {ledger[k] : k \in 1 .. Len(ledger)} : Ours(t)}

\* The write-ahead rule of send ("persist the signed tx before broadcast",
\* transaction_manager.rs:527-532): the first broadcast of an intent is always
\* recorded in the store, through every later overwrite of its record.
SentIsLogged ==
    \A t \in Broadcasts :
        t.rev = 0 => /\ Id(t.intent, t.nonce) \in DOMAIN handles
                     /\ 0 \in handles[Id(t.intent, t.nonce)].revs

\* "It recycles the nonce only when nothing was broadcast, so a live tx's
\* nonce is never freed for reuse" (transaction_manager.rs:223-224).
LiveNonceReserved == \A t \in Broadcasts : t.nonce \in used

\* However often it is bumped, displaced and refilled, an intent is executed
\* at most once (executor/mod.rs:271-289, lifecycle.rs:76-77).
AtMostOnce ==
    \A j, k \in 1 .. Len(ledger) :
        Ours(ledger[j]) /\ ledger[j].intent = ledger[k].intent => j = k

\* The handle of an intent settles Replaced, and is refilled, only when a
\* foreign transaction took its nonce: "always a different sender's tx, since
\* our own bumps mine as Mined" (lifecycle.rs:76-77), and one evicted by its
\* cancel settles Dropped ("a cancelled tx is never refilled", facade.rs:405).
ReplacedIsForeign ==
    \A x \in DOMAIN handles :
        handles[x].status.kind = "Replaced" /\ x.intent \in Intents =>
            ledger[x.nonce + 1].intent = "foreign"

\* A transaction reported Dropped was not executed (primitives/handle.rs:66).
DroppedNotExecuted ==
    \A x \in DOMAIN handles :
        handles[x].status.kind = "Dropped" => ledger[x.nonce + 1].intent # x.intent

\* "Terminal statuses will not change again" (primitives/handle.rs:72): TLC
\* refutes it for interleaved operations (README, Known divergences).
TerminalForever ==
    [][\A x \in DOMAIN handles :
          IsTerminal(handles[x].status) => handles'[x].status = handles[x].status]_vars

\* A persisted transaction settles, also when the process died right after
\* writing it: recover rebroadcasts it (executor/mod.rs:165-181).
PersistedSettles ==
    \A i \in Intents, n \in 0 .. MaxNonce :
        (Id(i, n) \in DOMAIN handles) ~>
            (Id(i, n) \in DOMAIN handles /\ IsTerminal(handles[Id(i, n)].status))
=============================================================================
