------------------------------- MODULE Gelato -------------------------------
(***************************************************************************)
(* Gasless sends through a managed relay: Wallet::send_gelato (facade.rs), *)
(* GelatoRelay (adapters/relay/gelato.rs), persist_task_handle             *)
(* (transaction_manager.rs) and the executor's poll_task, which hands the  *)
(* handle over to the chain path (executor/mod.rs) once the relay names a  *)
(* transaction hash.                                                       *)
(*                                                                         *)
(* The relay queues, executes or gives up a task; a reorg may take the     *)
(* transaction out of the chain again, and the relay gets it in again,     *)
(* with Resubmits maybe at another gas price and so under another hash.    *)
(* The user account meanwhile sends transactions of its own.               *)
(***************************************************************************)
EXTENDS WalletLoop

CONSTANTS
    Sends,       \* the calls of send_gasless
    IntentOf,    \* the intent of each
    Unrelayable, \* intents that carry value or create a contract
    Relays,      \* the Gelato configurations: fee model and nonce scheme
    Refill,      \* refill_on_replaced
    Resubmits,   \* may the relay's transaction change its hash?
    NewStates,   \* may a task end in a state the adapter does not know?
    MaxEoa       \* bound on the user's own transactions

ASSUME GelatoAssumption ==
    /\ Relays \subseteq [fee : {"Sponsored", "SyncFee"}, nonce : {"Sequential", "Concurrent"}]
    /\ Refill \in BOOLEAN /\ Resubmits \in BOOLEAN /\ NewStates \in BOOLEAN
    /\ MaxEoa \in Nat

VARIABLES
    relay,    \* the relay's configuration, fixed when the wallet is built
    eoa,      \* mined transactions of the user account
    calls,    \* where each send is, the request it has built and signed
    tasks,    \* the relay's task for each send
    handles,  \* the store
    refilled  \* intents the executor has sent again from the user account

gelatoVars == <<relay, eoa, calls, tasks, handles, refilled>>
chain == <<relay, head, eoa, fwd>>

Intents == {IntentOf[s] : s \in Sends}

\* HandleId::new(intent_hash, nonce)
Id(s, n)  == [intent |-> IntentOf[s], nonce |-> n]
Ids       == [intent : Intents, nonce : 0 .. Cardinality(Sends) + MaxOthers]

\* A task: its state at the relay, the block that includes its transaction
\* (0: none) and the version of that transaction, which is its hash.
Task(state, block, version) == [state |-> state, block |-> block, version |-> version]
NoTask    == Task("none", 0, 0)
Tasks     == [state : {"none", "queued", "success", "failed", "other"},
              block : Nat, version : Nat]
Hashes    == [task : Sends, version : Nat]

Record    == [task : Sends, status : TxStatus, broadcasts : SUBSET Hashes,
              cancelled : BOOLEAN]
Handle(task, status, broadcasts, cancelled) ==
    [task |-> task, status |-> status, broadcasts |-> broadcasts, cancelled |-> cancelled]
WithStatus(rec, status) == Handle(rec.task, status, rec.broadcasts, rec.cancelled)
Stages    == {"idle", "built", "accepted", "persisted", "failed"}
Forwarders == {"1Balance", "1BalanceConcurrent", "SyncFee", "SyncFeeConcurrent", "none"}
Call(at, nonce, domain) == [at |-> at, nonce |-> nonce, domain |-> domain]
NoCall    == Call("idle", 0, "none")

GelatoTypeOK ==
    /\ relay \in Relays /\ eoa \in Nat
    /\ calls \in [Sends -> [at : Stages, nonce : Nat, domain : Forwarders]]
    /\ tasks \in [Sends -> Tasks]
    /\ DOMAIN handles \subseteq Ids
    /\ \A id \in DOMAIN handles : handles[id] \in Record
    /\ refilled \subseteq Intents

GelatoInit ==
    /\ relay \in Relays /\ eoa = 0
    /\ calls = [s \in Sends |-> NoCall]
    /\ tasks = [s \in Sends |-> NoTask]
    /\ handles = [id \in {} |-> {}]
    /\ refilled = {}

Put(id, rec) ==
    handles' = [x \in DOMAIN handles \cup {id} |-> IF x = id THEN rec ELSE handles[x]]

Reaching(call, at) == Call(at, call.nonce, call.domain)
Goto(s, at)  == calls' = [calls EXCEPT ![s] = Reaching(calls[s], at)]

\* The task goes into a state in which it has no transaction in the chain, or
\* loses the one it has.
Becomes(s, state) == tasks' = [tasks EXCEPT ![s] = Task(state, 0, tasks[s].version)]

-----------------------------------------------------------------------------
(* send_gelato *)

Sequential == relay.nonce = "Sequential"

\* The forwarder of a fee model and a nonce mode; its domain is what the user
\* signs for, and its counter the nonce that is read.
Domain(fee, nonce) ==
    CASE fee = "Sponsored" /\ nonce = "Sequential" -> "1Balance"
      [] fee = "Sponsored" /\ nonce = "Concurrent" -> "1BalanceConcurrent"
      [] fee = "SyncFee"   /\ nonce = "Sequential" -> "SyncFee"
      [] fee = "SyncFee"   /\ nonce = "Concurrent" -> "SyncFeeConcurrent"

\* build_call and sign_typed_data: the sequential nonce as the forwarder has
\* it now, or 0 and a salt of the request's own; then the user's policy and
\* signature.  An intent that cannot be relayed, a forwarder that does not
\* answer and a denial end the send here.
BuildCall(s) ==
    /\ calls[s].at = "idle"
    /\ \/ /\ IntentOf[s] \notin Unrelayable
          /\ calls' = [calls EXCEPT ![s] =
                Call("built", IF Sequential THEN fwd ELSE 0, Domain(relay.fee, relay.nonce))]
       \/ Goto(s, "failed")
    /\ UNCHANGED <<chain, tasks, handles, refilled, faults, loopVars>>

\* What submit posts: the endpoint goes by the fee model, isConcurrent by the
\* replay protection of the call.
Endpoint == IF relay.fee = "Sponsored" THEN "sponsored-call-erc2771"
                                       ELSE "call-with-sync-fee-erc2771"
IsConcurrent(s) == calls[s].domain \in {"1BalanceConcurrent", "SyncFeeConcurrent"}

\* The relay checks the signature against the forwarder the request selects.
Selected(s) ==
    Domain(IF Endpoint = "sponsored-call-erc2771" THEN "Sponsored" ELSE "SyncFee",
           IF IsConcurrent(s) THEN "Concurrent" ELSE "Sequential")

\* submit: a task; a refusal, whether of the credentials, by a status or in a
\* body that is not an answer; or a task whose id is lost on the way.
Submit(s) ==
    /\ calls[s].at = "built"
    /\ \/ /\ calls[s].domain = Selected(s)
          /\ Becomes(s, "queued")
          /\ \/ Goto(s, "accepted") /\ UNCHANGED faults
             \/ Goto(s, "failed") /\ Fault
       \/ /\ Goto(s, "failed") /\ UNCHANGED <<tasks, faults>>
    /\ UNCHANGED <<chain, handles, refilled, loopVars>>

TaskHandle(s) == Handle(s, Plain("Sent"), {}, FALSE)

\* persist_task_handle, the first write that mentions the task.
PersistTask(s) ==
    /\ calls[s].at = "accepted"
    /\ \/ /\ Put(Id(s, calls[s].nonce), TaskHandle(s))
          /\ Goto(s, "persisted") /\ UNCHANGED faults
       \/ Fault /\ Goto(s, "failed") /\ UNCHANGED handles
    /\ UNCHANGED <<chain, tasks, refilled, loopVars>>

\* cancel of a task handle: it is marked and written, and then there are no
\* signed bytes to take the fees from (fee_basis), which is the error returned.
CancelTask(id) ==
    /\ id \in DOMAIN handles
    /\ ~IsTerminal(handles[id].status)
    /\ LET rec == handles[id] IN Put(id, Handle(rec.task, rec.status, rec.broadcasts, TRUE))
    /\ UNCHANGED <<chain, calls, tasks, refilled, faults, loopVars>>

-----------------------------------------------------------------------------
(* The relay and the chain (external) *)

Include(s, version) ==
    /\ head' = head + 1
    /\ fwd' = fwd + 1
    /\ tasks' = [tasks EXCEPT ![s] = Task("success", head + 1, version)]

InTurn(s) == Sequential => calls[s].nonce = fwd

Execute(s) ==
    /\ tasks[s].state = "queued"
    /\ InTurn(s)
    /\ Include(s, 0)
    /\ UNCHANGED <<relay, eoa, calls, handles, refilled, faults, loopVars>>

\* Cancelled, expired or reverted; always so for a nonce already used.
GiveUp(s) ==
    /\ tasks[s].state = "queued"
    /\ \E state \in {"failed"} \cup (IF NewStates THEN {"other"} ELSE {}) :
          Becomes(s, state)
    /\ UNCHANGED <<chain, calls, handles, refilled, faults, loopVars>>

\* The latest block is replaced by one without the transaction.
Reorg(s) ==
    /\ tasks[s].block = head /\ head > 0
    /\ Fault
    /\ Becomes(s, tasks[s].state)
    /\ fwd' = fwd - 1
    /\ UNCHANGED <<relay, head, eoa, calls, handles, refilled, loopVars>>

Reinclude(s) ==
    /\ tasks[s].state = "success" /\ tasks[s].block = 0
    /\ InTurn(s)
    /\ \/ Include(s, tasks[s].version)
       \/ Resubmits /\ Include(s, tasks[s].version + 1)
    /\ UNCHANGED <<relay, eoa, calls, handles, refilled, faults, loopVars>>

Extend ==
    /\ \/ head < MaxHead
       \/ \E s \in Sends : Shallow(tasks[s].block)
       \/ \E id \in DOMAIN handles : handles[id].status.kind = "Replacing"
                                   /\ Shallow(handles[id].status.block)
    /\ head' = head + 1
    /\ UNCHANGED <<relay, eoa, fwd, calls, tasks, handles, refilled, faults, loopVars>>

\* A transaction the user account sends and pays itself.
EoaTx ==
    /\ eoa < MaxEoa
    /\ eoa' = eoa + 1
    /\ UNCHANGED <<relay, head, fwd, calls, tasks, handles, refilled, faults, loopVars>>

-----------------------------------------------------------------------------
(* The user's executor *)

\* confirm: one look at the chain, then a snapshot of the pending handles.
\* Nothing is rebroadcast before (no signed bytes) or bumped after it.
TaskPass ==
    /\ phase = "user"
    /\ phase' = "confirm"
    /\ cycle' = [latest |-> head, mined |-> eoa]
    /\ todo' = [id \in {x \in DOMAIN handles : ~IsTerminal(handles[x].status)} |-> handles[id]]
    /\ UNCHANGED <<head, fwd, faults, stopping, gelatoVars>>

TaskPassEnd ==
    /\ phase = "confirm" /\ DOMAIN todo = {}
    /\ LeaveTick("sleeping")
    /\ UNCHANGED <<head, fwd, faults, stopping, gelatoVars>>

IsAwaitingRelay(rec) == rec.broadcasts = {}

\* The hash the relay names for a task.
HashOf(s) == [task |-> s, version |-> tasks[s].version]

\* Mutant: the relay's word for it is a confirmation.
PolledTrusting(rec) ==
    LET state == tasks[rec.task].state
    IN  CASE state = "success" -> Handle(rec.task, Status("Confirmed", head, 0),
                                         {HashOf(rec.task)}, rec.cancelled)
          [] state = "failed" -> WithStatus(rec, Plain("Failed"))
          [] OTHER -> rec

\* Mutant: a task not executed yet is a failed one.
PolledImpatient(rec) ==
    LET state == tasks[rec.task].state
    IN  CASE state = "success" -> Handle(rec.task, Plain("Sent"), {HashOf(rec.task)}, rec.cancelled)
          [] OTHER -> WithStatus(rec, Plain("Failed"))

\* poll and parse_status, and what poll_task makes of the answer.
Polled(rec) ==
    LET state == tasks[rec.task].state
    IN  CASE state = "success" -> Handle(rec.task, Plain("Sent"), {HashOf(rec.task)}, rec.cancelled)
          [] state = "failed" -> WithStatus(rec, Plain("Failed"))
          [] OTHER -> rec

\* Mutant: a task is polled only until the handle has been cancelled.
PollTaskUncancelled(id) ==
    /\ IsAwaitingRelay(todo[id])
    /\ IF todo[id].cancelled \/ Polled(todo[id]) = todo[id] THEN UNCHANGED handles
       ELSE Put(id, Polled(todo[id]))
    /\ UNCHANGED <<eoa, refilled, faults>>

\* A task still pending, a poll that fails and a write that fails leave the
\* handle for a later tick.
PollTask(id) ==
    /\ IsAwaitingRelay(todo[id])
    /\ LET rec == Polled(todo[id])
       IN  \/ rec # todo[id] /\ Put(id, rec) /\ UNCHANGED faults
           \/ rec = todo[id] /\ UNCHANGED <<handles, faults>>
           \/ Fault /\ UNCHANGED handles
    /\ UNCHANGED <<eoa, refilled>>

\* event_for: a receipt for a recorded hash, else the count of the account
\* the handle is kept under against the nonce the handle carries.
OnChain(s, version) == tasks[s].block # 0 /\ tasks[s].version = version

EventFor(id, rec) ==
    LET found == {h \in rec.broadcasts : OnChain(h.task, h.version)}
    IN  IF found # {}
        THEN LET h == CHOOSE h \in found : TRUE
             IN  Event("Mined", tasks[h.task].block, h.version, TRUE)
        ELSE Event(IF id.nonce < cycle.mined THEN "Replaced" ELSE "Pending", 0, 0, FALSE)

NextStatus(id, rec) ==
    LET next == Transition(rec.status, EventFor(id, rec), View(cycle.latest), Required)
    IN  IF next.kind = "Replaced" /\ rec.cancelled THEN Plain("Dropped") ELSE next

\* advance_on_chain and on_settled; a refill is an ordinary send.
Advance(id) ==
    /\ ~IsAwaitingRelay(todo[id])
    /\ LET next == NextStatus(id, todo[id])
       IN  \/ /\ next # todo[id].status
              /\ Put(id, WithStatus(todo[id], next))
              /\ IF Refill /\ next.kind = "Replaced"
                 THEN /\ refilled' = refilled \cup {id.intent} /\ eoa' = eoa + 1
                 ELSE UNCHANGED <<refilled, eoa>>
              /\ UNCHANGED faults
           \/ next = todo[id].status /\ UNCHANGED <<handles, refilled, eoa, faults>>
           \/ Fault /\ UNCHANGED <<handles, refilled, eoa>>

\* advance_handle for the next handle of the snapshot.
AdvanceTask(id) ==
    /\ phase = "confirm" /\ id \in DOMAIN todo
    /\ todo' = Without(todo, id)
    /\ PollTask(id) \/ Advance(id)
    /\ UNCHANGED <<relay, head, fwd, calls, tasks, phase, stopping, cycle>>

\* The process dies and is started again; what was on its way to the relay or
\* the store is lost.
CrashGelato ==
    /\ \E s \in Sends : calls[s].at \in {"built", "accepted"}
    /\ Fault
    /\ calls' = [s \in Sends |-> IF calls[s].at \in {"built", "accepted"}
                                 THEN Reaching(calls[s], "failed") ELSE calls[s]]
    /\ LeaveTick("user") /\ stopping' = FALSE
    /\ UNCHANGED <<chain, tasks, handles, refilled>>

GelatoNext ==
    \/ \E s \in Sends : \/ BuildCall(s) \/ Submit(s) \/ PersistTask(s)
                        \/ Execute(s) \/ GiveUp(s) \/ Reorg(s) \/ Reinclude(s)
    \/ \E id \in Ids : CancelTask(id) \/ AdvanceTask(id)
    \/ TaskPass \/ TaskPassEnd
    \/ Extend \/ EoaTx \/ CrashGelato

\* The handles that follow the task of a send.
TaskIds(s) == {id \in DOMAIN handles : handles[id].task = s}

-----------------------------------------------------------------------------
(* Properties *)

OnChainTask(s) == tasks[s].block # 0
Deep(s) == OnChainTask(s) /\ head - tasks[s].block + 1 >= Required

\* "Never a false Confirmed: only a genuinely-included, depth-confirmed tx
\* settles" (executor/mod.rs:238): a Confirmed task handle's transaction is in
\* the chain at the required depth, reorgs before that notwithstanding.
ConfirmedIncluded ==
    \A id \in DOMAIN handles :
        handles[id].status.kind = "Confirmed" => Deep(handles[id].task)

\* A Failed task handle's call has not been executed and never will be
\* (poll_task, parse_status: neither "falsely confirm" nor "falsely fail").
FailedNotExecuted ==
    \A id \in DOMAIN handles :
        handles[id].status.kind = "Failed" =>
            tasks[handles[id].task].state = "failed" /\ ~OnChainTask(handles[id].task)

\* What following a handle cannot see the end of: a task in a state the
\* adapter does not know, a transaction resubmitted under another hash than
\* the recorded one, and one whose forwarder nonce another request has taken.
OutOfSight(id) ==
    LET rec == handles[id]
        t   == tasks[rec.task]
    IN  \/ t.state = "other"
        \/ rec.broadcasts # {} /\ HashOf(rec.task) \notin rec.broadcasts
        \/ t.state = "success" /\ t.block = 0 /\ Sequential /\ id.nonce < fwd

\* Every persisted task handle that is not out of sight reaches a terminal
\* status: polled to a hash or a failure, then followed to depth, through
\* reorgs and ticks that fail, unless the loop is stopped (executor/mod.rs:
\* 205-266, facade.rs:304-323).
TaskSettles ==
    \A s \in Sends :
        (TaskIds(s) # {})
            ~> \/ phase = "exited"
               \/ \A id \in TaskIds(s) : IsTerminal(handles[id].status) \/ OutOfSight(id)

-----------------------------------------------------------------------------
(* What the repository says and the code does not do: TLC refutes these, see *)
(* "Known divergences" in README.md.                                         *)

\* The nonce recorded on a task handle is "never used to gate confirmation"
\* (gelato.rs:107-108): no such handle is given up as displaced while its
\* transaction is in the chain.
NeverDisplaced ==
    \A id \in DOMAIN handles :
        handles[id].status.kind = "Replaced" => ~OnChainTask(handles[id].task)

\* An intent is sent again only if it was "displaced by a foreign tx"
\* (facade.rs:404): the relay has not executed it.
RefillOnlyDisplaced ==
    \A i \in refilled : ~ \E s \in Sends : IntentOf[s] = i /\ OnChainTask(s)

\* Dropped says "we cancelled this tx: a self-send at its nonce evicted it"
\* (handle.rs:66): then the transaction is not in the chain.
DroppedNotIncluded ==
    \A id \in DOMAIN handles :
        handles[id].status.kind = "Dropped" => ~OnChainTask(handles[id].task)

\* A send that returned a handle has its task polled "to inclusion" by the
\* user's executor (transaction_manager.rs:240-242): the store knows the task.
ReturnedIsTracked ==
    \A s \in Sends : calls[s].at = "persisted" =>
        \E id \in DOMAIN handles : handles[id].task = s
=============================================================================
