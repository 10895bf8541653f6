----------------------------- MODULE SelfRelay -----------------------------
(***************************************************************************)
(* Gasless sends through our own relayer: Wallet::send_self_relay          *)
(* (facade.rs).  The user's manager reads the forwarder's nonce and signs  *)
(* a ForwardRequest; the relayer's manager wraps it in an outer execute()  *)
(* transaction, sends it from the relayer account and its executor, the    *)
(* second of a tick, follows the outer transaction and judges the inner    *)
(* call by the forwarder's event (transaction_manager.rs, executor/mod.rs, *)
(* meta_context.rs, forward_request.rs).                                   *)
(*                                                                         *)
(* The forwarder contract is external.  A handle is named by its send: the *)
(* outer intent holds the signed request.  Interleavings inside one send   *)
(* or one tick of an account are WalletRuntime's subject; here the steps   *)
(* are those between which the forwarder, the clock or the other part may  *)
(* move.                                                                   *)
(***************************************************************************)
EXTENDS WalletLoop, Sequences

CONSTANTS
    Relayed,     \* the calls of send_gasless
    Creations,   \* those whose intent creates a contract
    Window,      \* the deadline option of each: seconds a request stays valid
    MaxDeadline, \* the largest uint48
    MaxTime,     \* bound on the clock
    Ceiling      \* the approved envelope of each, as a fee revision

ASSUME SelfRelayAssumption ==
    /\ Creations \subseteq Relayed
    /\ Window \in [Relayed -> Nat] /\ Ceiling \in [Relayed -> Nat]
    /\ MaxDeadline \in Nat /\ MaxTime \in Nat

VARIABLES
    now,     \* the clock, of the wallet and of the blocks
    sends,   \* where each send is, the request it signed, its relayer nonce
    outers,  \* the store: the relayer's handles
    slots,   \* the relayer's nonces in use
    pool,    \* outer transactions the nodes know
    ledger   \* the mined transaction of each relayer nonce

selfVars == <<now, sends, outers, slots, pool, ledger>>

Progress == {"idle", "signed", "allocated", "persisted", "sent", "rejected",  \* under way
             "done", "failed", "refused", "lost", "crashed"}                  \* over
Request(at, nonce, deadline, slot) ==
    [at |-> at, nonce |-> nonce, deadline |-> deadline, slot |-> slot]
NoRequest(at) == Request(at, 0, 0, 0)
Outer     == [status : TxStatus, revs : SUBSET Nat, signed : Nat]
OuterRec(status, revs, signed) == [status |-> status, revs |-> revs, signed |-> signed]
OuterTx(s, rev) == [send |-> s, rev |-> rev]

RelayTypeOK ==
    /\ now \in 0 .. MaxTime
    /\ sends \in [Relayed -> [at : Progress, nonce : Nat, deadline : Nat, slot : Nat]]
    /\ DOMAIN outers \subseteq Relayed
    /\ \A s \in DOMAIN outers : outers[s] \in Outer
    /\ slots \subseteq Nat
    /\ pool \subseteq [send : Relayed, rev : Nat]

RelayInit ==
    /\ now = 0
    /\ sends = [s \in Relayed |-> NoRequest("idle")]
    /\ outers = Nothing
    /\ slots = {} /\ pool = {} /\ ledger = <<>>

Moved(r, at) == Request(at, r.nonce, r.deadline, r.slot)
At(s, at)    == sends' = [sends EXCEPT ![s] = Moved(sends[s], at)]
Refuse(s)    == sends' = [sends EXCEPT ![s] = NoRequest("failed")]
PutOuter(s, rec) ==
    outers' = [x \in DOMAIN outers \cup {s} |-> IF x = s THEN rec ELSE outers[x]]

\* put_handle whose error the caller drops.
PutOuterIgnored(s, rec) ==
    \/ PutOuter(s, rec) /\ UNCHANGED faults
    \/ Fault /\ UNCHANGED outers

-----------------------------------------------------------------------------
(* build_and_sign_forward_request, by the user's manager *)

\* now + window, clamped to what a uint48 holds.
Deadline(s) == IF now + Window[s] <= MaxDeadline THEN now + Window[s] ELSE MaxDeadline

\* The forwarder's nonce as it is now, the inner call's estimate, the user's
\* policy and signature: a request, or an error with nothing done.
SignRequest(s) ==
    /\ sends[s].at = "idle"
    /\ \/ /\ s \notin Creations
          /\ sends' = [sends EXCEPT ![s] = Request("signed", fwd, Deadline(s), 0)]
       \/ Refuse(s)
    /\ UNCHANGED <<head, fwd, faults, now, outers, slots, pool, ledger, loopVars>>

-----------------------------------------------------------------------------
(* send_with_meta, by the relayer's manager *)

\* What the forwarder checks of a request.
Acceptable(s) == sends[s].nonce = fwd /\ now <= sends[s].deadline

\* The relayer's next nonce: the lowest that is not in use.
NextSlot(n) == n \notin slots /\ 0 .. n - 1 \subseteq slots

\* The estimate executes the outer call, so a request the forwarder refuses
\* now stops here; then fees, the relayer's policy and the next nonce.
AllocateOuter(s) ==
    /\ sends[s].at = "signed"
    /\ \/ /\ Acceptable(s)
          /\ \E n \in 0 .. Cardinality(Relayed) :
                /\ NextSlot(n)
                /\ sends' = [sends EXCEPT ![s] =
                      Request("allocated", sends[s].nonce, sends[s].deadline, n)]
                /\ slots' = slots \cup {n}
       \/ Refuse(s) /\ UNCHANGED slots
    /\ UNCHANGED <<head, fwd, faults, now, outers, pool, ledger, loopVars>>

NewOuter(kind) == OuterRec(Plain(kind), {0}, 0)

\* Persist before broadcast.  An error gives the nonce back; the write may
\* have been made all the same.
PersistOuter(s) ==
    /\ sends[s].at = "allocated"
    /\ \/ PutOuter(s, NewOuter("Pending")) /\ At(s, "persisted") /\ UNCHANGED <<slots, faults>>
       \/ /\ Fault /\ slots' = slots \ {sends[s].slot}
          /\ \/ Refuse(s) /\ UNCHANGED outers
             \/ At(s, "lost") /\ PutOuter(s, NewOuter("Pending"))
    /\ UNCHANGED <<head, fwd, now, pool, ledger, loopVars>>

\* A node takes what is not in its pool and whose nonce is still free, one
\* transaction a nonce unless it pays more; its refusal of a transaction is
\* final (SubmissionError: neither transient nor already accepted).
MinedAt(n)   == n < Len(ledger)
Known(tx)    == tx \in pool \/ MinedAt(sends[tx.send].slot)
TakenBy(tx)  == {u \in pool : sends[u.send].slot = sends[tx.send].slot}
Welcome(tx)  == /\ sends[tx.send].at \notin {"rejected", "refused"}
                /\ \A u \in TakenBy(tx) : u.rev < tx.rev
Broadcast(tx) == pool' = IF ~Known(tx) /\ Welcome(tx) THEN pool \cup {tx} ELSE pool

\* Mutant: a broadcast that times out is taken for a refused one.
AfterSubmitStrict(answer) == IF answer = "sent" THEN "sent" ELSE "rejected"

\* A transient error is taken for sent: the transaction may be in flight.
AfterSubmit(answer) == IF answer \in {"sent", "transient"} THEN "sent" ELSE "rejected"

SubmitOuter(s) ==
    /\ sends[s].at = "persisted"
    /\ LET tx == OuterTx(s, 0)
       IN  \/ /\ Known(tx) \/ Welcome(tx)
              /\ Broadcast(tx) /\ At(s, AfterSubmit("sent")) /\ UNCHANGED faults
           \/ /\ Fault /\ At(s, AfterSubmit("transient"))
              /\ UNCHANGED pool \/ Broadcast(tx)
           \/ /\ ~Known(tx)
              /\ Welcome(tx) => Fault
              /\ ~Welcome(tx) => UNCHANGED faults
              /\ At(s, AfterSubmit("reject")) /\ UNCHANGED pool
    /\ UNCHANGED <<head, fwd, now, outers, slots, ledger, loopVars>>

\* Sent, or Failed with the nonce given back; either write may fail unseen.
MarkOuter(s) ==
    /\ \/ /\ sends[s].at = "sent" /\ At(s, "done")
          /\ PutOuterIgnored(s, NewOuter("Sent"))
          /\ UNCHANGED slots
       \/ /\ sends[s].at = "rejected" /\ At(s, "refused")
          /\ PutOuterIgnored(s, NewOuter("Failed"))
          /\ slots' = slots \ {sends[s].slot}
    /\ UNCHANGED <<head, fwd, now, pool, ledger, loopVars>>

-----------------------------------------------------------------------------
(* The chain and the forwarder (external) *)

\* execute(): a stale nonce or a passed deadline reverts the outer call; a
\* failing inner call reverts it too, or is reported by the event only.
Executions(s) ==
    IF Acceptable(s)
    THEN {[ok |-> TRUE,  logs |-> {[nonce |-> sends[s].nonce, success |-> TRUE]}],
          [ok |-> TRUE,  logs |-> {[nonce |-> sends[s].nonce, success |-> FALSE]}],
          [ok |-> FALSE, logs |-> {}]}
    ELSE {[ok |-> FALSE, logs |-> {}]}

\* The forwarder's nonce is used where the event is emitted.
NoncesUsed(logs) == IF logs = {} THEN 0 ELSE 1

MineOuter(tx) ==
    /\ tx \in pool /\ sends[tx.send].slot = Len(ledger)
    /\ head' = head + 1
    /\ \E x \in Executions(tx.send) :
          /\ ledger' = Append(ledger, [send |-> tx.send, rev |-> tx.rev, block |-> head + 1,
                                       ok |-> x.ok, logs |-> x.logs])
          /\ fwd' = fwd + NoncesUsed(x.logs)
    /\ UNCHANGED <<faults, now, sends, outers, slots, pool, loopVars>>

\* The latest block is replaced by one without the transaction, which is
\* still in the pools.
ReorgOuter ==
    /\ ledger # <<>>
    /\ LET last == ledger[Len(ledger)]
       IN  last.block = head /\ fwd' = fwd - NoncesUsed(last.logs)
    /\ Fault
    /\ ledger' = SubSeq(ledger, 1, Len(ledger) - 1)
    /\ UNCHANGED <<head, now, sends, outers, slots, pool, loopVars>>

ExtendRelayed ==
    /\ \/ head < MaxHead
       \/ \E k \in 1 .. Len(ledger) : Shallow(ledger[k].block)
       \/ \E s \in DOMAIN outers : outers[s].status.kind = "Replacing"
                                 /\ Shallow(outers[s].status.block)
    /\ head' = head + 1
    /\ UNCHANGED <<fwd, faults, selfVars, loopVars>>

TimePasses ==
    /\ now < MaxTime
    /\ now' = now + 1
    /\ UNCHANGED <<head, fwd, faults, sends, outers, slots, pool, ledger, loopVars>>

-----------------------------------------------------------------------------
(* The tick: the user's executor, then the relayer's *)

\* pending_handles, those of the given statuses.
Followed(kinds) == {s \in DOMAIN outers : outers[s].status.kind \in kinds}
InFlight == {"Pending", "Sent", "Mined", "Replacing"}

\* Mutant: recover looks at Sent handles only.
RelayPassSentOnly ==
    /\ phase = "user"
    /\ pool' = pool \cup {tx \in {OuterTx(s, outers[s].signed) : s \in Followed({"Sent"})} :
                             ~Known(tx) /\ Welcome(tx)}
    /\ \/ /\ phase' = "confirm"
          /\ cycle' = [latest |-> head, mined |-> Len(ledger)]
          /\ slots' = slots \cup 0 .. Len(ledger) - 1
          /\ todo' = [s \in Followed(InFlight) |-> outers[s]]
          /\ UNCHANGED faults
       \/ Fault /\ LeaveTick("sleeping") /\ UNCHANGED slots
    /\ UNCHANGED <<head, fwd, now, sends, outers, ledger, stopping>>

\* The user's pass is over without an error and the relayer's begins.  recover
\* broadcasts the signed bytes of what should be in the mempool; confirm reads
\* its cycle, brings the allocator forward and loads the handles, or fails.
RelayPass ==
    /\ phase = "user"
    /\ pool' = pool \cup {tx \in {OuterTx(s, outers[s].signed) : s \in Followed({"Pending", "Sent"})} :
                             ~Known(tx) /\ Welcome(tx)}
    /\ \/ /\ phase' = "confirm"
          /\ cycle' = [latest |-> head, mined |-> Len(ledger)]
          /\ slots' = slots \cup 0 .. Len(ledger) - 1
          /\ todo' = [s \in Followed(InFlight) |-> outers[s]]
          /\ UNCHANGED faults
       \/ Fault /\ LeaveTick("sleeping") /\ UNCHANGED slots
    /\ UNCHANGED <<head, fwd, now, sends, outers, ledger, stopping>>

\* inner_succeeded: the receipt carries the event of this request, a success.
InnerSucceeded(s, logs) == [nonce |-> sends[s].nonce, success |-> TRUE] \in logs

\* Mutant: a mined execute() is proof that the user's call ran.
OutcomeOfOuter(s, entry) == entry.ok

OutcomeOf(s, entry) == entry.ok /\ InnerSucceeded(s, entry.logs)

OuterEvent(s, rec) ==
    LET n == sends[s].slot
    IN  IF MinedAt(n) /\ ledger[n + 1].send = s /\ ledger[n + 1].rev \in rec.revs
        THEN Event("Mined", ledger[n + 1].block, ledger[n + 1].rev, OutcomeOf(s, ledger[n + 1]))
        ELSE Event(IF n < cycle.mined THEN "Replaced" ELSE "Pending", 0, 0, FALSE)

\* advance_on_chain; the relayer's executor never refills.
AdvanceOuter(s) ==
    /\ phase = "confirm" /\ s \in DOMAIN todo
    /\ todo' = Without(todo, s)
    /\ LET next == Transition(todo[s].status, OuterEvent(s, todo[s]), View(cycle.latest), Required)
       IN  \/ /\ next # todo[s].status
              /\ PutOuterIgnored(s, OuterRec(next, todo[s].revs, todo[s].signed))
           \/ next = todo[s].status /\ UNCHANGED <<outers, faults>>
    /\ UNCHANGED <<head, fwd, now, sends, slots, pool, ledger, phase, stopping, cycle>>

\* escalate: what is Sent, outstayed the timeout, is not mined by now and is
\* below the ceilings is replaced at its nonce, and the replacement recorded;
\* one of the writes may fail.
Bumped(rec) == OuterRec(rec.status, rec.revs \cup {rec.signed + 1}, rec.signed + 1)
Bumpable(s) == /\ ~MinedAt(sends[s].slot)
               /\ outers[s].signed < Ceiling[s]
               /\ Welcome(OuterTx(s, outers[s].signed + 1))

RelayEscalate ==
    /\ phase = "confirm" /\ DOMAIN todo = {}
    /\ \E stuck \in SUBSET {s \in Followed({"Sent"}) : Bumpable(s)} :
          /\ pool' = pool \cup {OuterTx(s, outers[s].signed + 1) : s \in stuck}
          /\ \/ /\ outers' = [s \in DOMAIN outers |->
                                 IF s \in stuck THEN Bumped(outers[s]) ELSE outers[s]]
                /\ UNCHANGED faults
             \/ /\ Fault
                /\ \E lost \in stuck : outers' = [s \in DOMAIN outers |->
                      IF s \in stuck \ {lost} THEN Bumped(outers[s]) ELSE outers[s]]
    /\ LeaveTick("sleeping")
    /\ UNCHANGED <<head, fwd, now, sends, slots, ledger, stopping>>

\* The process dies and is started again.
CrashRelay ==
    /\ Fault
    /\ sends' = [s \in Relayed |->
          IF sends[s].at \in {"signed", "allocated", "persisted", "sent", "rejected"}
          THEN Moved(sends[s], "crashed") ELSE sends[s]]
    /\ LeaveTick("user") /\ stopping' = FALSE
    /\ UNCHANGED <<head, fwd, now, outers, slots, pool, ledger>>

SendRelayed(s) == AllocateOuter(s) \/ PersistOuter(s) \/ SubmitOuter(s) \/ MarkOuter(s)

RelayTick ==
    \/ RelayPass \/ RelayEscalate
    \/ \E s \in Relayed : AdvanceOuter(s)

RelayNext ==
    \/ \E s \in Relayed : SignRequest(s) \/ SendRelayed(s)
    \/ \E tx \in pool : MineOuter(tx)
    \/ RelayTick \/ ReorgOuter \/ ExtendRelayed \/ TimePasses \/ CrashRelay

-----------------------------------------------------------------------------
(* Properties *)

Ran(s)     == \E k \in 1 .. Len(ledger) :
                 ledger[k].send = s /\ InnerSucceeded(s, ledger[k].logs)
RanDeep(s) == \E k \in 1 .. Len(ledger) :
                 /\ ledger[k].send = s /\ InnerSucceeded(s, ledger[k].logs)
                 /\ head - ledger[k].block + 1 >= Required

\* "A mined execute() is not evidence the user's intent executed"
\* (executor/mod.rs:499-502): where a self-relayed handle is Confirmed, the
\* user's call itself ran, in a block at the required depth, whichever
\* revision was mined and whatever was reorganised before.
RelayedConfirmedRan ==
    \A s \in DOMAIN outers : outers[s].status.kind = "Confirmed" => RanDeep(s)

\* No other send's handle is in the store with its nonce given back.  One that
\* is ("lost") makes two sends share a nonce, and then a reorg can have the
\* executor bump a send whose own broadcast the nodes are about to refuse.
Undisturbed(s) == \A t \in Relayed \ {s} : sends[t].at # "lost"

\* A self-relayed handle that is Failed, by a refused broadcast, a reverted
\* outer call or a failed inner one, has not run and never does, though its
\* bytes may be rebroadcast and blocks reorganised (transaction_manager.rs:
\* 546-556, executor/mod.rs:503-517).
RelayedFailedNotRun ==
    \A s \in DOMAIN outers :
        outers[s].status.kind = "Failed" /\ Undisturbed(s) => ~Ran(s)

\* A send_gasless that returned an error has not run and never does, so the
\* caller may send again (transaction_manager.rs:491-556); the exception is a
\* store that wrote the handle and failed to say so ("lost").
ErrorNotRun ==
    \A s \in Relayed :
        sends[s].at \in {"failed", "refused"} /\ Undisturbed(s) => ~Ran(s)

\* Nobody has a transaction for the handle's nonce or one below it, in a pool
\* or to rebroadcast: a process died holding that nonce, or the nodes refuse
\* the transaction that has it.
Offered(n) ==
    \/ \E tx \in pool : sends[tx.send].slot = n
    \/ \E s \in Followed({"Pending", "Sent"}) :
          sends[s].slot = n /\ Welcome(OuterTx(s, outers[s].signed))
Stuck(s) == \E n \in Len(ledger) .. sends[s].slot : ~Offered(n)

\* Every persisted relayer handle reaches a terminal status, also when a tick
\* of the user's executor fails before it, blocks are reorganised, the clock
\* passes its deadline or the process dies (executor/mod.rs:155-232,
\* facade.rs:296-302), unless its nonce or one below stays unused for good.
RelayedSettles ==
    \A s \in Relayed :
        (s \in DOMAIN outers) ~>
            \/ phase = "exited" \/ (s \in DOMAIN outers /\ IsTerminal(outers[s].status))
            \/ []Stuck(s)
=============================================================================
