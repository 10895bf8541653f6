--------------------------- MODULE GaslessProofs ---------------------------
(***************************************************************************)
(* Proofs about the gasless backends (Gelato, SelfRelay, Gasless): what a  *)
(* Confirmed or Failed handle says is true of the chain, for any number of *)
(* sends, faults, reorgs and foreign requests.  A reorg replaces the       *)
(* latest block, so that what is said of depth needs Required >= 2.        *)
(***************************************************************************)
EXTENDS Gasless, Integers, TLAPS

-----------------------------------------------------------------------------
(* The inductive invariant of a wallet with a managed relay *)

\* The tasks whose transaction is in the chain at the required depth, and
\* those the relay has given up.
DeepTasks == {s \in Sends : Deep(s)}
GivenUp   == {s \in Sends : tasks[s].state = "failed"}

\* A record that follows its own task only.
Tracked == {rec \in Record : \A h \in rec.broadcasts : h.task = rec.task}

\* Only an executed task has a transaction in the chain, and a send that has
\* not been submitted has no task.
TasksInv ==
    /\ tasks \in [Sends -> Tasks] /\ DOMAIN calls = Sends
    /\ \A s \in Sends :
          /\ tasks[s].state # "success" => tasks[s].block = 0
          /\ calls[s].at \in {"idle", "built"} => tasks[s].state = "none"

\* What the pass works on: the chain as it was, and handles not settled then.
ReadInv ==
    /\ head \in Nat
    /\ cycle \in [latest : Nat, mined : Nat] /\ cycle.latest <= head

HandlesInv ==
    \A id \in DOMAIN handles :
        /\ handles[id] \in Tracked
        /\ Required >= 2 /\ handles[id].status.kind = "Confirmed" => handles[id].task \in DeepTasks
        /\ handles[id].status.kind = "Failed" => handles[id].task \in GivenUp

TodoInv == \A id \in DOMAIN todo : todo[id] \in Tracked /\ ~IsTerminal(todo[id].status)

GelatoInv == eoa \in Nat /\ ReadInv /\ TasksInv /\ HandlesInv /\ TodoInv

-----------------------------------------------------------------------------
(* The inductive invariant of a wallet with a relayer of its own *)

\* The sends that have reached their first write.
Stored  == {"persisted", "sent", "rejected", "done", "refused", "lost", "crashed"}
Entries == [send : Relayed, rev : Nat, block : Nat, ok : BOOLEAN,
            logs : SUBSET [nonce : Int, success : BOOLEAN]]

SendsInv ==
    /\ fwd \in Int
    /\ DOMAIN sends = Relayed
    /\ \A s \in Relayed : /\ sends[s].at \in Progress /\ sends[s].slot \in Nat
                          /\ sends[s].nonce \in Int
    /\ DOMAIN outers \subseteq Relayed
    /\ \A s \in DOMAIN outers : outers[s] \in Outer /\ sends[s].at \in Stored
    /\ \A s \in Relayed : sends[s].at \in Stored \ {"crashed"} => s \in DOMAIN outers
    /\ DOMAIN todo \subseteq DOMAIN outers
    /\ \A s \in DOMAIN todo : todo[s] \in Outer /\ ~IsTerminal(todo[s].status)
    /\ pool \subseteq [send : DOMAIN outers, rev : Nat]

\* A mined transaction was pooled, sits at its send's nonce and has the event
\* of that send's request, if any.
LedgerInv ==
    /\ ledger \in Seq(Entries)
    /\ \A k \in 1 .. Len(ledger) :
          /\ OuterTx(ledger[k].send, ledger[k].rev) \in pool
          /\ sends[ledger[k].send].slot = k - 1
          /\ \/ ledger[k].logs = {}
             \/ /\ ledger[k].ok
                /\ \E b \in BOOLEAN :
                      ledger[k].logs = {[nonce |-> sends[ledger[k].send].nonce, success |-> b]}

\* The sends whose outer transaction is at the required depth, by what became
\* of the user's call.
Judged(ran) ==
    {s \in Relayed :
        /\ sends[s].slot < Len(ledger)
        /\ ledger[sends[s].slot + 1].send = s
        /\ head - ledger[sends[s].slot + 1].block + 1 >= Required
        /\ InnerSucceeded(s, ledger[sends[s].slot + 1].logs) <=> ran}

Refused == {s \in Relayed : sends[s].at = "refused"}

OutersInv ==
    Required >= 2 =>
        \A s \in DOMAIN outers :
            /\ outers[s].status.kind = "Confirmed" => s \in Judged(TRUE)
            /\ outers[s].status.kind = "Failed" => s \in Judged(FALSE) \cup Refused

\* The sends that hold a nonce, and those the nodes have a transaction of.
Holders ==
    {s \in Relayed : \/ sends[s].at \in {"allocated", "persisted", "sent", "rejected", "done"}
                     \/ sends[s].at = "crashed" /\ s \in DOMAIN outers}
Pooled  == {tx.send : tx \in pool}
NoneLost == \A s \in Relayed : sends[s].at # "lost"

\* A nonce that is held is in use and has one holder.
OneHolder ==
    /\ \A s \in Holders : sends[s].slot \in slots
    /\ \A s, t \in Holders : sends[s].slot = sends[t].slot => s = t

\* The nonces the pass saw used are not given out again, and were used by
\* their holders.
UsedByHolder ==
    /\ 0 .. cycle.mined - 1 \subseteq slots
    /\ \A s \in Holders : sends[s].slot < cycle.mined => s \in Pooled

\* What the nodes know they have not refused.
KnownNotRefused == \A s \in Pooled : sends[s].at \notin {"rejected", "refused"}

\* A send about to be broadcast is untouched, in the store and in the pass,
\* unless the nodes already know its transaction.
Untouched ==
    {s \in DOMAIN outers : /\ s \notin Pooled /\ outers[s] = NewOuter("Pending")
                           /\ s \in DOMAIN todo => todo[s] = NewOuter("Pending")}
Unsent == {s \in Relayed : sends[s].at = "persisted" /\ OuterTx(s, 0) \notin pool}

\* All of it while no write was lost: see Undisturbed.
SlotsInv == NoneLost => /\ OneHolder /\ UsedByHolder /\ KnownNotRefused
                        /\ Unsent \subseteq Untouched

RelayInv == ReadInv /\ SendsInv /\ LedgerInv /\ OutersInv /\ SlotsInv

-----------------------------------------------------------------------------
\* The backend that is not configured stays as it was.
GaslessInv ==
    /\ backend \in {"gelato", "relayer"}
    /\ backend = "gelato" => GelatoInv /\ DOMAIN outers = {} /\ ledger = <<>>
    /\ backend = "relayer" => RelayInv /\ DOMAIN handles = {}

-----------------------------------------------------------------------------
(* The lifecycle *)

\* What lifecycle.rs may settle a handle as, and on which evidence.
LEMMA TransitionFacts ==
    ASSUME NEW s \in TxStatus, ~IsTerminal(s), NEW e \in ChainEvent, NEW latest \in Nat
    PROVE  LET next == Transition(s, e, View(latest), Required)
           IN  /\ next \in TxStatus
               /\ next.kind = "Confirmed" =>
                     e.kind = "Mined" /\ e.executed /\ IsFinal(e.block, View(latest), Required)
               /\ next.kind = "Failed" =>
                     e.kind = "Mined" /\ ~e.executed /\ IsFinal(e.block, View(latest), Required)
               /\ s.kind = "Pending" /\ e.kind = "Pending" => next = s
BY Zenon DEF Transition, OnPending, OnMined, OnReplaced, IsTerminal, TxStatus, Kinds, ChainEvent,
       Plain, Status, View

\* A block that is final by what a pass read is as deep now.
LEMMA FinalIsDeep ==
    ASSUME Required >= 2, NEW block \in Nat, NEW latest \in Nat, NEW top \in Nat, latest <= top,
           IsFinal(block, View(latest), Required)
    PROVE  top - block + 1 >= Required
BY WalletLoopAssumption DEF IsFinal, View, SaturatingSub

-----------------------------------------------------------------------------
(* The managed relay *)

\* A record the store is given, by its fields.
LEMMA TrackedRecord ==
    ASSUME NEW task \in Sends, NEW status \in TxStatus, NEW broadcasts \in SUBSET Hashes,
           NEW cancelled \in BOOLEAN, \A h \in broadcasts : h.task = task
    PROVE  LET rec == Handle(task, status, broadcasts, cancelled)
           IN  /\ rec \in Tracked /\ rec.task = task /\ rec.status = status
               /\ rec.broadcasts = broadcasts
BY Zenon DEF Tracked, Record, Handle

LEMMA TrackedFields ==
    ASSUME NEW rec \in Tracked
    PROVE  /\ rec.task \in Sends /\ rec.status \in TxStatus /\ rec.cancelled \in BOOLEAN
           /\ rec.broadcasts \in SUBSET Hashes /\ \A h \in rec.broadcasts : h.task = rec.task
BY Zenon DEF Tracked, Record

LEMMA PlainStatus ==
    ASSUME NEW kind \in Kinds
    PROVE  Plain(kind) \in TxStatus /\ Plain(kind).kind = kind
BY Zenon DEF Plain, Status, TxStatus

\* A write of a sound record, with the chain as it is, keeps the store sound.
LEMMA PutKeeps ==
    ASSUME HandlesInv, NEW id, NEW rec \in Tracked, Put(id, rec), UNCHANGED <<tasks, head>>,
           Required >= 2 /\ rec.status.kind = "Confirmed" => rec.task \in DeepTasks,
           rec.status.kind = "Failed" => rec.task \in GivenUp
    PROVE  HandlesInv'
<1>1. DeepTasks' = DeepTasks /\ GivenUp' = GivenUp
  BY Zenon DEF DeepTasks, GivenUp, Deep, OnChainTask
<1>. QED  BY Zenon, <1>1 DEF HandlesInv, Put

\* The relay and the chain keep the store sound as long as nothing deep comes
\* out of the chain and what was given up stays so.
LEMMA ChainKeeps ==
    ASSUME HandlesInv, UNCHANGED handles,
           Required >= 2 => DeepTasks \subseteq DeepTasks',
           GivenUp \subseteq GivenUp'
    PROVE  HandlesInv'
BY Zenon DEF HandlesInv

\* A step of one task, from a state in which it has nothing deep and is not
\* given up, leaves the other tasks' claims alone.
LEMMA TaskStep ==
    ASSUME TasksInv, ReadInv, NEW s \in Sends, NEW task \in Tasks,
           tasks' = [tasks EXCEPT ![s] = task], head' \in Nat, head' >= head,
           tasks[s].state # "failed", Required >= 2 => s \notin DeepTasks
    PROVE  /\ Required >= 2 => DeepTasks \subseteq DeepTasks'
           /\ GivenUp \subseteq GivenUp'
<1>1. ASSUME NEW t \in Sends, t # s  PROVE tasks'[t] = tasks[t] /\ tasks[t].block \in Nat
  BY Zenon, <1>1 DEF TasksInv, Tasks
<1>2. GivenUp \subseteq GivenUp'
  BY Zenon, <1>1 DEF GivenUp
<1>3. ASSUME NEW t \in Sends, t # s, Deep(t)  PROVE Deep(t)'
  BY <1>1, <1>3, WalletLoopAssumption DEF Deep, OnChainTask, ReadInv
<1>. QED  BY Zenon, <1>2, <1>3 DEF DeepTasks

\* The send: nothing it does touches a record's claim; persist_task_handle
\* writes a fresh one.
LEMMA GelatoSendStep ==
    ASSUME GelatoInv, NEW s \in Sends,
           BuildCall(s) \/ Submit(s) \/ PersistTask(s)
    PROVE  GelatoInv'
<1>. USE DEF GelatoInv
<1>1. CASE BuildCall(s)
  <2>1. TasksInv'
    BY Zenon, <1>1 DEF BuildCall, TasksInv, Goto, Call, Reaching, chain
  <2>2. DeepTasks' = DeepTasks /\ GivenUp' = GivenUp
    BY Zenon, <1>1 DEF BuildCall, chain, DeepTasks, GivenUp, Deep, OnChainTask
  <2>. QED  BY Zenon, <1>1, <2>1, <2>2, ChainKeeps DEF BuildCall, chain, loopVars, ReadInv, TodoInv
<1>2. CASE Submit(s)
  <2>1. tasks[s].state = "none" /\ tasks[s].block = 0 /\ tasks[s].version \in Nat
    BY Zenon, <1>2 DEF Submit, TasksInv, Tasks
  <2>2. Task("queued", 0, tasks[s].version) \in Tasks
    BY Zenon, <2>1 DEF Task, Tasks
  <2>3. TasksInv'
    BY <1>2, <2>1, <2>2 DEF Submit, Becomes, TasksInv, Goto, Call, Reaching, Task
  <2>4. (Required >= 2 => DeepTasks \subseteq DeepTasks') /\ GivenUp \subseteq GivenUp'
    <3>1. CASE Becomes(s, "queued")
      <4>1. s \notin DeepTasks
        BY Zenon, <2>1 DEF DeepTasks, Deep, OnChainTask
      <4>2. head' \in Nat /\ head' >= head
        BY <1>2 DEF Submit, chain, ReadInv
      <4>. QED  BY <2>1, <2>2, <3>1, <4>1, <4>2, TaskStep, Zenon DEF Becomes
    <3>2. CASE UNCHANGED tasks
      BY Zenon, <1>2, <3>2 DEF Submit, chain, DeepTasks, GivenUp, Deep, OnChainTask
    <3>. QED  BY Zenon, <1>2, <3>1, <3>2 DEF Submit
  <2>. QED  BY Zenon, <1>2, <2>3, <2>4, ChainKeeps DEF Submit, chain, loopVars, ReadInv, TodoInv
<1>3. CASE PersistTask(s)
  <2>1. TaskHandle(s) \in Tracked /\ TaskHandle(s).status.kind = "Sent"
    <3>1. Plain("Sent") \in TxStatus /\ Plain("Sent").kind = "Sent"
      BY Zenon, PlainStatus DEF Kinds
    <3>. QED  BY Zenon, <3>1 DEF TaskHandle, Tracked, Record, Handle
  <2>2. TasksInv'
    BY <1>3 DEF PersistTask, TasksInv, Goto, Call, Reaching, chain
  <2>3. HandlesInv'
    <3>1. CASE Put(Id(s, calls[s].nonce), TaskHandle(s))
      BY Zenon, <1>3, <2>1, <3>1, PutKeeps DEF PersistTask, chain
    <3>2. CASE UNCHANGED handles
      BY Zenon, <1>3, <3>2, ChainKeeps DEF PersistTask, chain, DeepTasks, GivenUp, Deep, OnChainTask
    <3>. QED  BY Zenon, <1>3, <3>1, <3>2 DEF PersistTask
  <2>. QED  BY Zenon, <1>3, <2>2, <2>3 DEF PersistTask, chain, loopVars, ReadInv, TodoInv
<1>. QED  BY Zenon, <1>1, <1>2, <1>3

LEMMA TaskFields ==
    ASSUME NEW state \in {"none", "queued", "success", "failed", "other"},
           NEW block \in Nat, NEW version \in Nat
    PROVE  /\ Task(state, block, version) \in Tasks
           /\ Task(state, block, version).state = state
           /\ Task(state, block, version).block = block
BY Zenon DEF Task, Tasks

\* The relay and the chain: a transaction comes in for a task that has none,
\* and only the latest block goes out.
LEMMA GelatoChainStep ==
    ASSUME GelatoInv, NEW s \in Sends,
           Execute(s) \/ GiveUp(s) \/ Reorg(s) \/ Reinclude(s)
    PROVE  GelatoInv'
<1>. USE DEF GelatoInv
<1>1. /\ tasks[s].version \in Nat /\ tasks[s].block \in Nat
      /\ tasks[s].state \in {"none", "queued", "success", "failed", "other"}
      /\ head \in Nat
  BY Zenon DEF TasksInv, Tasks, ReadInv
<1>2. PICK task \in Tasks :
          /\ tasks' = [tasks EXCEPT ![s] = task]
          /\ task.state # "success" => task.block = 0
          /\ task.state # "none"
  <2>1. ASSUME NEW state \in {"queued", "success", "failed", "other"}, NEW block \in Nat,
               NEW version \in Nat, state # "success" => block = 0,
               tasks' = [tasks EXCEPT ![s] = Task(state, block, version)]
        PROVE  \E task \in Tasks : /\ tasks' = [tasks EXCEPT ![s] = task]
                                   /\ task.state # "success" => task.block = 0
                                   /\ task.state # "none"
    <3>1. state \in {"none", "queued", "success", "failed", "other"} /\ state # "none"
      BY Zenon
    <3>2. /\ Task(state, block, version) \in Tasks
          /\ Task(state, block, version).state = state
          /\ Task(state, block, version).block = block
      BY <3>1, TaskFields
    <3>. QED  BY <2>1, <3>1, <3>2, Zenon
  <2>2. CASE Execute(s)
    <3>1. tasks' = [tasks EXCEPT ![s] = Task("success", head + 1, 0)] /\ head + 1 \in Nat
      BY <1>1, <2>2 DEF Execute, Include
    <3>. QED  BY <3>1, <2>1, Zenon
  <2>3. CASE GiveUp(s)
    <3>1. PICK state \in {"failed", "other"} : Becomes(s, state)
      BY Zenon, <2>3 DEF GiveUp
    <3>. QED  BY <1>1, <2>1, <3>1, Zenon DEF Becomes
  <2>4. CASE Reorg(s)
    <3>1. tasks[s].state = "success" /\ Becomes(s, "success")
      BY <1>1, <2>4 DEF Reorg, TasksInv
    <3>. QED  BY <1>1, <2>1, <3>1, Zenon DEF Becomes
  <2>5. CASE Reinclude(s)
    <3>1. PICK version \in Nat : tasks' = [tasks EXCEPT ![s] = Task("success", head + 1, version)]
      BY <1>1, <2>5 DEF Reinclude, Include
    <3>2. head + 1 \in Nat
      BY <1>1
    <3>. QED  BY <3>1, <3>2, <2>1, Zenon
  <2>. QED  BY Zenon, <2>2, <2>3, <2>4, <2>5
<1>3. tasks[s].state \notin {"none", "failed"} /\ UNCHANGED calls
  BY <1>1 DEF Execute, GiveUp, Reorg, Reinclude, TasksInv, chain
<1>4. head' \in Nat /\ head' >= head
  BY <1>1 DEF Execute, GiveUp, Reorg, Reinclude, Include, chain
<1>5. Required >= 2 => s \notin DeepTasks
  BY <1>1, WalletLoopAssumption
     DEF Execute, GiveUp, Reorg, Reinclude, TasksInv, DeepTasks, Deep, OnChainTask
<1>6. TasksInv'
  BY Zenon, <1>2, <1>3 DEF TasksInv
<1>7. HandlesInv'
  <2>1. (Required >= 2 => DeepTasks \subseteq DeepTasks') /\ GivenUp \subseteq GivenUp'
    BY <1>2, <1>3, <1>4, <1>5, TaskStep, Zenon
  <2>. QED  BY Zenon, <2>1, ChainKeeps DEF Execute, GiveUp, Reorg, Reinclude
<1>8. UNCHANGED <<eoa, loopVars>>
  BY Zenon DEF Execute, GiveUp, Reorg, Reinclude, chain
<1>. QED  BY <1>1, <1>4, <1>6, <1>7, <1>8 DEF loopVars, ReadInv, TodoInv

\* The chain grows, and the user account sends.
LEMMA GelatoGrowStep ==
    ASSUME GelatoInv, Extend \/ EoaTx
    PROVE  GelatoInv'
<1>. USE DEF GelatoInv
<1>1. /\ head \in Nat /\ head' \in Nat /\ head' >= head /\ eoa' \in Nat
      /\ UNCHANGED <<tasks, calls, handles, loopVars>>
  BY DEF Extend, EoaTx, ReadInv
<1>2. ASSUME NEW s \in Sends, Deep(s)  PROVE Deep(s)'
  BY <1>1, <1>2, WalletLoopAssumption DEF Deep, OnChainTask, TasksInv, Tasks
<1>3. HandlesInv'
  <2>1. DeepTasks \subseteq DeepTasks' /\ GivenUp' = GivenUp
    BY Zenon, <1>1, <1>2 DEF DeepTasks, GivenUp
  <2>. QED  BY Zenon, <1>1, <2>1, ChainKeeps
<1>. QED  BY <1>1, <1>3 DEF loopVars, ReadInv, TodoInv, TasksInv

\* poll_task: a hash for this very task, or a failure the relay has decided.
LEMMA PolledFacts ==
    ASSUME TasksInv, NEW rec \in Tracked, ~IsTerminal(rec.status)
    PROVE  /\ Polled(rec) \in Tracked
           /\ Polled(rec).status.kind # "Confirmed"
           /\ Polled(rec).status.kind = "Failed" => Polled(rec).task \in GivenUp
<1>1. /\ rec.task \in Sends /\ rec.status \in TxStatus /\ rec.cancelled \in BOOLEAN
      /\ rec.broadcasts \in SUBSET Hashes /\ \A h \in rec.broadcasts : h.task = rec.task
  BY Zenon, TrackedFields
<1>2. \A kind \in Kinds : Plain(kind) \in TxStatus /\ Plain(kind).kind = kind
  BY Zenon, PlainStatus
<1>3. CASE tasks[rec.task].state = "success"
  <2>1. /\ HashOf(rec.task) \in Hashes /\ HashOf(rec.task).task = rec.task
    BY Zenon, <1>1 DEF HashOf, Hashes, TasksInv, Tasks
  <2>2. Polled(rec) = Handle(rec.task, Plain("Sent"), {HashOf(rec.task)}, rec.cancelled)
    BY Zenon, <1>3 DEF Polled
  <2>3. Plain("Sent") \in TxStatus /\ Plain("Sent").kind = "Sent"
    BY Zenon, <1>2 DEF Kinds
  <2>4. Polled(rec) \in Tracked /\ Polled(rec).status = Plain("Sent")
    BY <1>1, <2>1, <2>2, <2>3 DEF Tracked, Record, Handle
  <2>. QED  BY Zenon, <2>3, <2>4
<1>4. CASE tasks[rec.task].state = "failed"
  <2>1. Polled(rec) = Handle(rec.task, Plain("Failed"), rec.broadcasts, rec.cancelled)
    BY Zenon, <1>4 DEF Polled, WithStatus
  <2>2. Plain("Failed") \in TxStatus /\ Plain("Failed").kind = "Failed"
    BY Zenon, <1>2 DEF Kinds
  <2>3. Polled(rec) \in Tracked /\ Polled(rec).status = Plain("Failed") /\ Polled(rec).task = rec.task
    BY <1>1, <2>1, <2>2 DEF Tracked, Record, Handle
  <2>. QED  BY Zenon, <1>1, <1>4, <2>2, <2>3 DEF GivenUp
<1>5. CASE tasks[rec.task].state \notin {"success", "failed"}
  <2>1. Polled(rec) = rec
    BY Zenon, <1>5 DEF Polled
  <2>. QED  BY Zenon, <1>1, <2>1 DEF IsTerminal
<1>. QED  BY Zenon, <1>3, <1>4, <1>5

\* event_for: what a receipt says is what the chain has for the task.
LEMMA EventFacts ==
    ASSUME TasksInv, ReadInv, NEW id, NEW rec \in Tracked
    PROVE  /\ EventFor(id, rec) \in ChainEvent
           /\ EventFor(id, rec).kind = "Mined" =>
                 /\ EventFor(id, rec).executed
                 /\ tasks[rec.task].block # 0
                 /\ EventFor(id, rec).block = tasks[rec.task].block
<1>1. /\ rec.task \in Sends /\ rec.broadcasts \in SUBSET Hashes
      /\ \A h \in rec.broadcasts : h.task = rec.task
  BY Zenon, TrackedFields
<1>. DEFINE found == {h \in rec.broadcasts : OnChain(h.task, h.version)}
<1>2. CASE found # {}
  <2>. DEFINE h == CHOOSE h \in found : TRUE
  <2>1. h \in found
    BY Zenon, <1>2
  <2>2. EventFor(id, rec) = Event("Mined", tasks[h.task].block, h.version, TRUE)
    BY Zenon, <1>2 DEF EventFor
  <2>3. h.task = rec.task /\ h.version \in Nat /\ tasks[h.task].block \in Nat /\ tasks[h.task].block # 0
    BY Zenon, <1>1, <2>1 DEF OnChain, Hashes, TasksInv, Tasks
  <2>. HIDE DEF h
  <2>. QED  BY <2>2, <2>3 DEF Event, ChainEvent
<1>3. CASE found = {}
  BY Zenon, <1>3 DEF EventFor, Event, ChainEvent
<1>. QED  BY Zenon, <1>2, <1>3

\* advance_on_chain: Confirmed is what is deep by now, Failed never comes of it.
LEMMA NextStatusFacts ==
    ASSUME TasksInv, ReadInv, NEW id, NEW rec \in Tracked, ~IsTerminal(rec.status)
    PROVE  /\ NextStatus(id, rec) \in TxStatus
           /\ NextStatus(id, rec).kind # "Failed"
           /\ Required >= 2 /\ NextStatus(id, rec).kind = "Confirmed" => rec.task \in DeepTasks
<1>. DEFINE next == Transition(rec.status, EventFor(id, rec), View(cycle.latest), Required)
<1>1. rec.task \in Sends /\ rec.status \in TxStatus
  BY Zenon, TrackedFields
<1>2. cycle.latest \in Nat /\ cycle.latest <= head /\ head \in Nat
  BY Zenon DEF ReadInv
<1>3. /\ EventFor(id, rec) \in ChainEvent
      /\ EventFor(id, rec).kind = "Mined" =>
            /\ EventFor(id, rec).executed
            /\ tasks[rec.task].block # 0
            /\ EventFor(id, rec).block = tasks[rec.task].block
  BY Zenon, EventFacts
<1>4. /\ next \in TxStatus
      /\ next.kind = "Confirmed" =>
            /\ EventFor(id, rec).kind = "Mined"
            /\ IsFinal(EventFor(id, rec).block, View(cycle.latest), Required)
      /\ next.kind # "Failed"
  BY Zenon, <1>1, <1>2, <1>3, TransitionFacts
<1>5. ASSUME Required >= 2, next.kind = "Confirmed"  PROVE rec.task \in DeepTasks
  <2>1. tasks[rec.task].block \in Nat
    BY Zenon, <1>1 DEF TasksInv, Tasks
  <2>2. head - tasks[rec.task].block + 1 >= Required
    BY Zenon, <1>2, <1>3, <1>4, <1>5, <2>1, FinalIsDeep
  <2>. QED  BY Zenon, <1>1, <1>3, <1>4, <1>5, <2>2 DEF DeepTasks, Deep, OnChainTask
<1>. HIDE DEF next
<1>6. CASE next.kind = "Replaced" /\ rec.cancelled
  <2>1. NextStatus(id, rec) = Plain("Dropped")
    BY Zenon, <1>6 DEF NextStatus, next
  <2>. QED  BY <2>1 DEF Plain, Status, TxStatus, Kinds
<1>7. CASE ~(next.kind = "Replaced" /\ rec.cancelled)
  <2>1. NextStatus(id, rec) = next
    BY Zenon, <1>7 DEF NextStatus, next
  <2>. QED  BY Zenon, <1>4, <1>5, <2>1
<1>. QED  BY Zenon, <1>6, <1>7

\* The handle's turn in a pass: polled, or moved by the chain.
LEMMA AdvanceTaskStep ==
    ASSUME GelatoInv, NEW id, AdvanceTask(id)
    PROVE  GelatoInv'
<1>. USE DEF GelatoInv
<1>1. /\ id \in DOMAIN todo /\ todo[id] \in Tracked /\ ~IsTerminal(todo[id].status)
      /\ UNCHANGED <<head, fwd, calls, tasks, phase, stopping, cycle>>
      /\ todo' = Without(todo, id)
  BY Zenon DEF AdvanceTask, TodoInv
<1>2. DeepTasks' = DeepTasks /\ GivenUp' = GivenUp
  BY Zenon, <1>1 DEF DeepTasks, GivenUp, Deep, OnChainTask
<1>3. TodoInv'
  BY Zenon, <1>1 DEF TodoInv, Without
<1>4. TasksInv' /\ ReadInv'
  BY Zenon, <1>1 DEF TasksInv, ReadInv
<1>5. UNCHANGED handles => HandlesInv'
  BY Zenon, <1>2, ChainKeeps
<1>6. CASE PollTask(id)
  <2>1. ASSUME Put(id, Polled(todo[id]))  PROVE HandlesInv'
    BY Zenon, <1>1, <2>1, PolledFacts, PutKeeps
  <2>2. HandlesInv' /\ UNCHANGED eoa
    BY Zenon, <1>5, <1>6, <2>1 DEF PollTask
  <2>. QED  BY Zenon, <1>3, <1>4, <2>2
<1>7. CASE Advance(id)
  <2>. DEFINE next == NextStatus(id, todo[id])
  <2>1. /\ next \in TxStatus /\ next.kind # "Failed"
        /\ Required >= 2 /\ next.kind = "Confirmed" => todo[id].task \in DeepTasks
    BY Zenon, <1>1, NextStatusFacts
  <2>2. ASSUME Put(id, WithStatus(todo[id], next))  PROVE HandlesInv'
    <3>1. /\ todo[id].task \in Sends /\ todo[id].cancelled \in BOOLEAN
          /\ todo[id].broadcasts \in SUBSET Hashes
          /\ \A h \in todo[id].broadcasts : h.task = todo[id].task
      BY Zenon, <1>1, TrackedFields
    <3>2. /\ WithStatus(todo[id], next) \in Tracked
          /\ WithStatus(todo[id], next).status = next
          /\ WithStatus(todo[id], next).task = todo[id].task
      BY <2>1, <3>1, TrackedRecord DEF WithStatus
    <3>. HIDE DEF next
    <3>. QED  BY Zenon, <1>1, <2>1, <2>2, <3>2, PutKeeps
  <2>. HIDE DEF next
  <2>3. HandlesInv'
    BY Zenon, <1>5, <1>7, <2>2 DEF Advance, next
  <2>4. eoa' \in Nat
    BY <1>7 DEF Advance
  <2>. QED  BY Zenon, <1>3, <1>4, <2>3, <2>4
<1>. QED  BY Zenon, <1>6, <1>7 DEF AdvanceTask

\* The loop leaves a tick, or the process dies: the snapshot is dropped.
LEMMA GelatoLoopStep ==
    ASSUME GelatoInv, UNCHANGED <<head, eoa, tasks, handles>>,
           UNCHANGED <<todo, cycle>> \/ (todo' = Nothing /\ cycle' = NoCycle),
           DOMAIN calls' = Sends,
           \A s \in Sends : calls'[s].at \in {"idle", "built"} => calls[s].at \in {"idle", "built"}
    PROVE  GelatoInv'
<1>. USE DEF GelatoInv
<1>1. DeepTasks' = DeepTasks /\ GivenUp' = GivenUp
  BY Zenon DEF DeepTasks, GivenUp, Deep, OnChainTask
<1>2. HandlesInv'
  BY Zenon, <1>1, ChainKeeps
<1>3. TasksInv'
  BY Zenon DEF TasksInv
<1>4. ReadInv' /\ TodoInv'
  BY DEF ReadInv, TodoInv, Nothing, NoCycle
<1>. QED  BY Zenon, <1>2, <1>3, <1>4

LEMMA GelatoPassStep ==
    ASSUME GelatoInv, TaskPass \/ TaskPassEnd \/ CrashGelato \/ \E id \in Ids : CancelTask(id)
    PROVE  GelatoInv'
<1>. USE DEF GelatoInv
<1>1. CASE TaskPass
  <2>1. UNCHANGED <<head, eoa, calls, tasks, handles>>
    BY Zenon, <1>1 DEF TaskPass, gelatoVars
  <2>2. DeepTasks' = DeepTasks /\ GivenUp' = GivenUp
    BY Zenon, <2>1 DEF DeepTasks, GivenUp, Deep, OnChainTask
  <2>3. HandlesInv' /\ TasksInv'
    BY Zenon, <2>1, <2>2, ChainKeeps DEF TasksInv
  <2>4. ReadInv'
    BY <1>1, <2>1 DEF TaskPass, ReadInv
  <2>5. TodoInv'
    BY Zenon, <1>1 DEF TaskPass, TodoInv, HandlesInv
  <2>. QED  BY Zenon, <2>1, <2>3, <2>4, <2>5
<1>2. CASE TaskPassEnd
  BY Zenon, <1>2, GelatoLoopStep DEF TaskPassEnd, LeaveTick, gelatoVars, TasksInv
<1>3. CASE CrashGelato
  <2>1. /\ DOMAIN calls' = Sends
        /\ \A s \in Sends : calls'[s].at \in {"idle", "built"} => calls[s].at \in {"idle", "built"}
    BY Zenon, <1>3 DEF CrashGelato, Reaching, Call
  <2>. QED  BY Zenon, <1>3, <2>1, GelatoLoopStep DEF CrashGelato, LeaveTick, chain
<1>4. ASSUME NEW id \in Ids, CancelTask(id)  PROVE GelatoInv'
  <2>. DEFINE old == handles[id]
              rec == Handle(old.task, old.status, old.broadcasts, TRUE)
  <2>1. old \in Tracked /\ ~IsTerminal(old.status)
    BY Zenon, <1>4 DEF CancelTask, HandlesInv
  <2>2. /\ old.task \in Sends /\ old.status \in TxStatus
        /\ old.broadcasts \in SUBSET Hashes /\ \A h \in old.broadcasts : h.task = old.task
    BY Zenon, <2>1, TrackedFields
  <2>3. rec \in Tracked /\ rec.status = old.status
    BY Zenon, <2>2 DEF Tracked, Record, Handle
  <2>4. HandlesInv'
    BY <1>4, <2>1, <2>3, PutKeeps, Zenon DEF CancelTask, chain, IsTerminal
  <2>. QED  BY Zenon, <1>4, <2>4 DEF CancelTask, chain, loopVars, TasksInv, ReadInv, TodoInv
<1>. QED  BY Zenon, <1>1, <1>2, <1>3, <1>4

\* Every step of a wallet with a managed relay keeps its invariant.
LEMMA GelatoStep ==
    ASSUME GelatoInv, GelatoNext
    PROVE  GelatoInv'
BY GelatoSendStep, GelatoChainStep, GelatoGrowStep, AdvanceTaskStep, GelatoPassStep, Zenon
   DEF GelatoNext

-----------------------------------------------------------------------------
(* The relayer: frames *)

\* A stored send keeps its nonces, and a refused one stays refused.
Steady ==
    /\ \A t \in DOMAIN outers : sends'[t].slot = sends[t].slot /\ sends'[t].nonce = sends[t].nonce
    /\ \A t \in Relayed : sends[t].at = "refused" => sends'[t].at = "refused"

\* What is mined is of stored sends.
LEMMA MinedStored ==
    ASSUME SendsInv, LedgerInv, NEW k \in 1 .. Len(ledger)
    PROVE  /\ ledger[k] \in Entries
           /\ ledger[k].send \in Pooled /\ ledger[k].send \in DOMAIN outers
           /\ sends[ledger[k].send].slot = k - 1
<1>1. ledger[k] \in Entries
  BY DEF LedgerInv
<1>2. OuterTx(ledger[k].send, ledger[k].rev) \in pool /\ sends[ledger[k].send].slot = k - 1
  BY Zenon DEF LedgerInv
<1>3. OuterTx(ledger[k].send, ledger[k].rev).send = ledger[k].send
  BY Zenon DEF OuterTx
<1>. QED  BY Zenon, <1>1, <1>2, <1>3 DEF SendsInv, Pooled

LEMMA PooledStored ==
    ASSUME SendsInv, NEW s \in Pooled
    PROVE  s \in DOMAIN outers /\ s \in Relayed /\ sends[s].at \in Stored
BY Zenon DEF SendsInv, Pooled

LEMMA LedgerFrame ==
    ASSUME SendsInv, LedgerInv, Steady, pool \subseteq pool', UNCHANGED ledger
    PROVE  LedgerInv'
<1>1. ASSUME NEW k \in 1 .. Len(ledger)
      PROVE  /\ ledger[k].send \in DOMAIN outers
             /\ OuterTx(ledger[k].send, ledger[k].rev) \in pool'
             /\ sends'[ledger[k].send].slot = k - 1
             /\ sends'[ledger[k].send].nonce = sends[ledger[k].send].nonce
  BY Zenon, <1>1, MinedStored DEF LedgerInv, Steady
<1>. QED  BY Zenon, <1>1 DEF LedgerInv

\* The chain's verdict on a stored send stands while the chain grows.
LEMMA JudgedFrame ==
    ASSUME ReadInv, SendsInv, LedgerInv, Steady, UNCHANGED ledger, head' \in Nat, head' >= head,
           NEW t \in DOMAIN outers, NEW ran \in BOOLEAN, t \in Judged(ran)
    PROVE  t \in Judged(ran)'
<1>1. /\ t \in Relayed /\ sends[t].slot \in Nat /\ sends'[t].slot = sends[t].slot
      /\ sends'[t].nonce = sends[t].nonce
  BY Zenon DEF Steady, SendsInv
<1>2. sends[t].slot + 1 \in 1 .. Len(ledger)
  BY <1>1 DEF Judged, LedgerInv
<1>. DEFINE e == ledger[sends[t].slot + 1]
<1>3. e.block \in Nat
  <2>1. e \in Entries
    BY Zenon, <1>2, MinedStored
  <2>. QED  BY Zenon, <2>1 DEF Entries
<1>4. /\ sends[t].slot < Len(ledger) /\ e.send = t /\ head - e.block + 1 >= Required
      /\ InnerSucceeded(t, e.logs) <=> ran
  BY Zenon DEF Judged
<1>5. head' - e.block + 1 >= Required
  <2>1. head \in Nat /\ Required \in Nat /\ head - e.block + 1 >= Required
    BY Zenon, <1>4, WalletLoopAssumption DEF ReadInv
  <2>. HIDE DEF e
  <2>. QED  BY <1>3, <2>1
<1>6. e' = e /\ (InnerSucceeded(t, e.logs)' <=> InnerSucceeded(t, e.logs))
  BY Zenon, <1>1 DEF InnerSucceeded
<1>7. ledger'[sends'[t].slot + 1] = e
  BY Zenon, <1>1
<1>. HIDE DEF e
<1>. QED  BY <1>1, <1>4, <1>5, <1>6, <1>7, Zenon DEF Judged, InnerSucceeded

\* The claims of the store stand when each record has the status it had, or
\* one whose claim is true now.
LEMMA OutersFrame ==
    ASSUME SendsInv, OutersInv, Steady,
           \A t \in DOMAIN outers : \A ran \in BOOLEAN :
               Required >= 2 /\ t \in Judged(ran) => t \in Judged(ran)',
           \A t \in DOMAIN outers' :
               \/ t \in DOMAIN outers /\ outers'[t].status = outers[t].status
               \/ /\ Required >= 2 /\ outers'[t].status.kind = "Confirmed" => t \in Judged(TRUE)'
                  /\ Required >= 2 /\ outers'[t].status.kind = "Failed" =>
                        t \in Judged(FALSE)' \cup Refused'
    PROVE  OutersInv'
<1>1. Refused \subseteq Refused'
  BY Zenon DEF Refused, Steady
<1>. QED  BY <1>1, Zenon DEF OutersInv

-----------------------------------------------------------------------------
(* The relayer: the send *)

\* The fields of a request.
LEMMA RequestFields ==
    ASSUME NEW at, NEW nonce, NEW deadline, NEW slot
    PROVE  LET r == Request(at, nonce, deadline, slot)
           IN  r.at = at /\ r.nonce = nonce /\ r.slot = slot
BY Zenon DEF Request

\* A send that has written nothing signs its request, or ends with an error
\* and gives back the nonce it holds, if any.
LEMMA EarlyStep ==
    ASSUME RelayInv, NEW s \in Relayed, sends[s].at \in {"idle", "signed", "allocated"},
           NEW at \in {"signed", "failed"}, NEW nonce \in Int, NEW deadline, NEW slot \in Nat,
           sends' = [sends EXCEPT ![s] = Request(at, nonce, deadline, slot)],
           UNCHANGED <<head, fwd, outers, pool, ledger, todo, cycle>>,
           \/ slots' = slots
           \/ sends[s].at = "allocated" /\ slots' = slots \ {sends[s].slot}
    PROVE  RelayInv'
<1>. USE DEF RelayInv
<1>1. /\ sends'[s].at = at /\ sends'[s].nonce = nonce /\ sends'[s].slot = slot
      /\ DOMAIN sends' = Relayed
      /\ \A t \in Relayed : t # s => sends'[t] = sends[t]
      /\ s \notin DOMAIN outers
  BY RequestFields DEF SendsInv, Stored
<1>2. ReadInv'
  BY Zenon DEF ReadInv
<1>3. SendsInv'
  BY Zenon, <1>1 DEF SendsInv, Progress, Stored
<1>4. Steady
  BY Zenon, <1>1 DEF Steady, SendsInv
<1>5. LedgerInv'
  BY Zenon, <1>4, LedgerFrame
<1>6. OutersInv'
  <2>1. \A t \in DOMAIN outers : \A ran \in BOOLEAN : t \in Judged(ran) => t \in Judged(ran)'
    BY <1>4, JudgedFrame DEF ReadInv
  <2>. QED  BY Zenon, <1>4, <2>1, OutersFrame
<1>7. ASSUME NoneLost'  PROVE OneHolder' /\ UsedByHolder' /\ KnownNotRefused' /\ Unsent' \subseteq Untouched'
  <2>1. NoneLost
    BY Zenon, <1>1, <1>7 DEF NoneLost
  <2>2. Holders' = Holders \ {s} /\ Pooled' = Pooled /\ s \notin Pooled
    <3>1. Pooled' = Pooled /\ s \notin Pooled
      BY Zenon, <1>1, PooledStored DEF Pooled
    <3>2. s \notin Holders'
      BY Zenon, <1>1 DEF Holders
    <3>3. \A t \in Relayed : t # s => (t \in Holders' <=> t \in Holders)
      BY Zenon, <1>1 DEF Holders
    <3>. QED  BY Zenon, <3>1, <3>2, <3>3 DEF Holders
  <2>3. OneHolder /\ UsedByHolder /\ KnownNotRefused /\ Unsent \subseteq Untouched
    BY Zenon, <2>1 DEF SlotsInv
  <2>4. sends[s].at = "allocated" => s \in Holders
    BY Zenon DEF Holders
  <2>5. \A t \in Holders' : t \in Holders /\ t # s /\ sends'[t] = sends[t]
    BY Zenon, <1>1, <2>2 DEF Holders
  <2>6. OneHolder'
    BY <2>2, <2>3, <2>4, <2>5 DEF OneHolder
  <2>7. sends[s].at = "allocated" => sends[s].slot >= cycle.mined
    BY <2>2, <2>3, <2>4 DEF UsedByHolder, SendsInv, ReadInv
  <2>8. UsedByHolder'
    BY <2>2, <2>3, <2>5, <2>7 DEF UsedByHolder, ReadInv, SendsInv
  <2>9. KnownNotRefused'
    BY Zenon, <1>1, <2>2, <2>3, PooledStored DEF KnownNotRefused
  <2>10. Unsent' \subseteq Unsent /\ Untouched' = Untouched
    BY Zenon, <1>1, <2>2 DEF Unsent, Untouched
  <2>. QED  BY Zenon, <2>3, <2>6, <2>8, <2>9, <2>10
<1>. QED  BY Zenon, <1>2, <1>3, <1>5, <1>6, <1>7 DEF SlotsInv

LEMMA RefuseStep ==
    ASSUME RelayInv, NEW s \in Relayed, sends[s].at \in {"idle", "signed", "allocated"},
           Refuse(s),
           UNCHANGED <<head, fwd, outers, pool, ledger, todo, cycle>>,
           \/ slots' = slots
           \/ sends[s].at = "allocated" /\ slots' = slots \ {sends[s].slot}
    PROVE  RelayInv'
<1>1. sends' = [sends EXCEPT ![s] = Request("failed", 0, 0, 0)]
  BY Zenon DEF Refuse, NoRequest
<1>2. 0 \in Nat /\ 0 \in Int /\ "failed" \in {"signed", "failed"}
  OBVIOUS
<1>. QED  BY <1>1, <1>2, EarlyStep, Zenon

LEMMA SignRequestStep ==
    ASSUME RelayInv, NEW s \in Relayed, SignRequest(s)
    PROVE  RelayInv'
<1>1. sends[s].at = "idle" /\ UNCHANGED <<head, fwd, outers, pool, ledger, todo, cycle, slots>>
  BY Zenon DEF SignRequest, loopVars
<1>2. fwd \in Int /\ 0 \in Nat /\ 0 \in Int
  BY DEF RelayInv, SendsInv
<1>3. CASE sends' = [sends EXCEPT ![s] = Request("signed", fwd, Deadline(s), 0)]
  BY <1>1, <1>2, <1>3, EarlyStep, Zenon
<1>4. CASE Refuse(s)
  BY Zenon, <1>1, <1>4, RefuseStep
<1>. QED  BY Zenon, <1>3, <1>4 DEF SignRequest

\* The next nonce is held by nobody, and is none the pass saw used.
LEMMA AllocateOuterStep ==
    ASSUME RelayInv, NEW s \in Relayed, AllocateOuter(s)
    PROVE  RelayInv'
<1>. USE DEF RelayInv
<1>1. sends[s].at = "signed" /\ UNCHANGED <<head, fwd, outers, pool, ledger, todo, cycle>>
  BY Zenon DEF AllocateOuter, loopVars
<1>3. CASE Refuse(s) /\ UNCHANGED slots
  BY Zenon, <1>1, <1>3, RefuseStep
<1>4. ASSUME NEW n \in 0 .. Cardinality(Relayed), n \notin slots,
             sends' = [sends EXCEPT ![s] = Request("allocated", sends[s].nonce, sends[s].deadline, n)],
             slots' = slots \cup {n}
      PROVE  RelayInv'
  <2>1. /\ sends'[s].at = "allocated" /\ sends'[s].nonce = sends[s].nonce /\ sends'[s].slot = n
        /\ DOMAIN sends' = Relayed
        /\ \A t \in Relayed : t # s => sends'[t] = sends[t]
        /\ s \notin DOMAIN outers /\ n \in Nat
    BY <1>1, <1>4, RequestFields DEF SendsInv, Stored
  <2>2. ReadInv' /\ SendsInv'
    BY Zenon, <1>1, <2>1 DEF ReadInv, SendsInv, Progress, Stored
  <2>3. Steady
    BY Zenon, <1>1, <2>1 DEF Steady, SendsInv
  <2>4. LedgerInv'
    BY Zenon, <1>1, <2>3, LedgerFrame
  <2>5. OutersInv'
    <3>1. \A t \in DOMAIN outers : \A ran \in BOOLEAN : t \in Judged(ran) => t \in Judged(ran)'
      BY <1>1, <2>3, JudgedFrame DEF ReadInv
    <3>. QED  BY <1>1, <2>3, <3>1, OutersFrame, Zenon
  <2>6. ASSUME NoneLost'
        PROVE  OneHolder' /\ UsedByHolder' /\ KnownNotRefused' /\ Unsent' \subseteq Untouched'
    <3>1. OneHolder /\ UsedByHolder /\ KnownNotRefused /\ Unsent \subseteq Untouched
      BY Zenon, <1>1, <2>1, <2>6 DEF NoneLost, SlotsInv
    <3>2. Pooled' = Pooled /\ s \notin Pooled
      BY Zenon, <1>1, <2>1, PooledStored DEF Pooled
    <3>3. \A t \in Holders' : t = s \/ (t \in Holders /\ sends'[t] = sends[t])
      BY Zenon, <1>1, <2>1 DEF Holders
    <3>4. OneHolder'
      BY <1>4, <2>1, <3>1, <3>3 DEF OneHolder
    <3>5. n >= cycle.mined
      BY <1>4, <2>1, <3>1 DEF UsedByHolder, ReadInv
    <3>6. UsedByHolder'
      BY <1>1, <1>4, <2>1, <3>1, <3>2, <3>3, <3>5 DEF UsedByHolder, ReadInv
    <3>7. KnownNotRefused'
      BY Zenon, <2>1, <3>1, <3>2, PooledStored DEF KnownNotRefused
    <3>8. Unsent' \subseteq Unsent /\ Untouched' = Untouched
      BY Zenon, <1>1, <2>1, <3>2 DEF Unsent, Untouched
    <3>. QED  BY Zenon, <3>1, <3>4, <3>6, <3>7, <3>8
  <2>. QED  BY Zenon, <2>2, <2>4, <2>5, <2>6 DEF SlotsInv
<1>. QED  BY Zenon, <1>3, <1>4 DEF AllocateOuter, NextSlot

\* A new record, in a status that is not terminal or Failed.
LEMMA NewOuterFields ==
    ASSUME NEW kind \in {"Pending", "Sent", "Failed"}
    PROVE  /\ NewOuter(kind) \in Outer
           /\ NewOuter(kind).status.kind = kind /\ NewOuter(kind).signed = 0
BY DEF NewOuter, OuterRec, Outer, Plain, Status, TxStatus, Kinds

\* The first write, and the one that is made and reported as failed.
LEMMA FirstWriteStep ==
    ASSUME RelayInv, NEW s \in Relayed, sends[s].at = "allocated",
           NEW at \in {"persisted", "lost"}, At(s, at), PutOuter(s, NewOuter("Pending")),
           at = "persisted" => UNCHANGED slots,
           UNCHANGED <<head, fwd, pool, ledger, todo, cycle>>
    PROVE  RelayInv'
<1>. USE DEF RelayInv
<1>1. /\ sends'[s].at = at /\ sends'[s].nonce = sends[s].nonce /\ sends'[s].slot = sends[s].slot
      /\ DOMAIN sends' = Relayed
      /\ \A t \in Relayed : t # s => sends'[t] = sends[t]
      /\ s \notin DOMAIN outers
  BY RequestFields DEF At, Moved, SendsInv, Stored
<1>2. /\ DOMAIN outers' = DOMAIN outers \cup {s}
      /\ outers'[s] = NewOuter("Pending")
      /\ \A t \in DOMAIN outers : outers'[t] = outers[t] /\ t # s
  BY Zenon, <1>1 DEF PutOuter
<1>3. NewOuter("Pending") \in Outer /\ NewOuter("Pending").status.kind = "Pending"
  BY Zenon, NewOuterFields
<1>4. ReadInv' /\ SendsInv'
  BY Zenon, <1>1, <1>2, <1>3 DEF ReadInv, SendsInv, Progress, Stored
<1>5. Steady
  BY Zenon, <1>1 DEF Steady, SendsInv
<1>6. LedgerInv'
  BY Zenon, <1>5, LedgerFrame
<1>7. OutersInv'
  <2>1. \A t \in DOMAIN outers : \A ran \in BOOLEAN : t \in Judged(ran) => t \in Judged(ran)'
    BY <1>5, JudgedFrame DEF ReadInv
  <2>. QED  BY <1>2, <1>3, <1>5, <2>1, OutersFrame, Zenon
<1>8. ASSUME NoneLost'
      PROVE  OneHolder' /\ UsedByHolder' /\ KnownNotRefused' /\ Unsent' \subseteq Untouched'
  <2>1. at = "persisted" /\ NoneLost
    BY Zenon, <1>1, <1>8 DEF NoneLost
  <2>2. OneHolder /\ UsedByHolder /\ KnownNotRefused /\ Unsent \subseteq Untouched
    BY Zenon, <2>1 DEF SlotsInv
  <2>3. Pooled' = Pooled /\ s \notin Pooled
    BY Zenon, <1>1, PooledStored DEF Pooled
  <2>4. Holders' = Holders /\ \A t \in Relayed : sends'[t].slot = sends[t].slot
    BY Zenon, <1>1, <1>2, <2>1 DEF Holders
  <2>5. OneHolder' /\ UsedByHolder'
    <3>1. \A t \in Holders : t \in Relayed
      BY Zenon DEF Holders
    <3>. QED  BY <2>1, <2>2, <2>3, <2>4, <3>1 DEF OneHolder, UsedByHolder
  <2>6. KnownNotRefused'
    BY Zenon, <1>1, <2>2, <2>3, PooledStored DEF KnownNotRefused
  <2>7. ASSUME NEW t \in Unsent'  PROVE t \in Untouched'
    <3>1. CASE t = s
      BY Zenon, <1>1, <1>2, <2>3, <3>1 DEF Untouched, SendsInv
    <3>2. CASE t # s
      <4>1. t \in Unsent
        BY Zenon, <1>1, <2>7, <3>2 DEF Unsent
      <4>. QED  BY Zenon, <1>2, <2>2, <2>3, <4>1 DEF Untouched
    <3>. QED  BY Zenon, <3>1, <3>2
  <2>. QED  BY Zenon, <2>5, <2>6, <2>7
<1>. QED  BY Zenon, <1>4, <1>6, <1>7, <1>8 DEF SlotsInv

LEMMA PersistOuterStep ==
    ASSUME RelayInv, NEW s \in Relayed, PersistOuter(s)
    PROVE  RelayInv'
<1>1. sends[s].at = "allocated" /\ UNCHANGED <<head, fwd, pool, ledger, todo, cycle>>
  BY Zenon DEF PersistOuter, loopVars
<1>2. CASE PutOuter(s, NewOuter("Pending")) /\ At(s, "persisted") /\ UNCHANGED slots
  BY Zenon, <1>1, <1>2, FirstWriteStep
<1>3. CASE At(s, "lost") /\ PutOuter(s, NewOuter("Pending"))
  BY Zenon, <1>1, <1>3, FirstWriteStep
<1>4. CASE Refuse(s) /\ UNCHANGED outers /\ slots' = slots \ {sends[s].slot}
  BY Zenon, <1>1, <1>4, RefuseStep
<1>. QED  BY Zenon, <1>2, <1>3, <1>4 DEF PersistOuter

\* The broadcast: a send the nodes refuse for good is one they do not know.
LEMMA SubmittedStep ==
    ASSUME RelayInv, NEW s \in Relayed, sends[s].at = "persisted",
           NEW at \in {"sent", "rejected"}, At(s, at),
           pool' = pool \/ pool' = pool \cup {OuterTx(s, 0)},
           at = "rejected" => pool' = pool /\ OuterTx(s, 0) \notin pool,
           UNCHANGED <<head, fwd, outers, slots, ledger, todo, cycle>>
    PROVE  RelayInv'
<1>. USE DEF RelayInv
<1>1. /\ sends'[s].at = at /\ sends'[s].nonce = sends[s].nonce /\ sends'[s].slot = sends[s].slot
      /\ DOMAIN sends' = Relayed
      /\ \A t \in Relayed : t # s => sends'[t] = sends[t]
      /\ s \in DOMAIN outers
  BY RequestFields DEF At, Moved, SendsInv, Stored
<1>2. OuterTx(s, 0) \in [send : DOMAIN outers, rev : Nat] /\ OuterTx(s, 0).send = s
  BY Zenon, <1>1 DEF OuterTx
<1>3. ReadInv' /\ SendsInv'
  BY Zenon, <1>1, <1>2 DEF ReadInv, SendsInv, Progress, Stored
<1>4. Steady
  BY Zenon, <1>1 DEF Steady, SendsInv
<1>5. LedgerInv'
  BY Zenon, <1>4, LedgerFrame
<1>6. OutersInv'
  <2>1. \A t \in DOMAIN outers : \A ran \in BOOLEAN : t \in Judged(ran) => t \in Judged(ran)'
    BY <1>4, JudgedFrame DEF ReadInv
  <2>. QED  BY <1>4, <2>1, OutersFrame, Zenon
<1>7. ASSUME NoneLost'
      PROVE  OneHolder' /\ UsedByHolder' /\ KnownNotRefused' /\ Unsent' \subseteq Untouched'
  <2>1. OneHolder /\ UsedByHolder /\ KnownNotRefused /\ Unsent \subseteq Untouched
    BY Zenon, <1>1, <1>7 DEF NoneLost, SlotsInv
  <2>2. Pooled \subseteq Pooled' /\ Pooled' \subseteq Pooled \cup {s}
    BY Zenon, <1>2 DEF Pooled
  <2>3. Holders' = Holders /\ \A t \in Relayed : sends'[t].slot = sends[t].slot
    BY Zenon, <1>1 DEF Holders
  <2>4. OneHolder' /\ UsedByHolder'
    <3>1. \A t \in Holders : t \in Relayed
      BY Zenon DEF Holders
    <3>. QED  BY <2>1, <2>2, <2>3, <3>1 DEF OneHolder, UsedByHolder
  <2>5. KnownNotRefused'
    <3>1. CASE at = "sent"
      BY Zenon, <1>1, <2>1, <2>2, <3>1, PooledStored DEF KnownNotRefused
    <3>2. CASE at = "rejected"
      <4>1. s \notin Pooled /\ Pooled' = Pooled
        BY Zenon, <2>1, <3>2 DEF Unsent, Untouched, Pooled
      <4>. QED  BY Zenon, <1>1, <2>1, <4>1, PooledStored DEF KnownNotRefused
    <3>. QED  BY Zenon, <3>1, <3>2
  <2>6. ASSUME NEW t \in Unsent'  PROVE t \in Untouched'
    <3>1. t \in Unsent /\ t # s
      BY Zenon, <1>1, <2>6 DEF Unsent
    <3>. QED  BY Zenon, <2>1, <2>2, <3>1 DEF Untouched
  <2>. QED  BY Zenon, <2>4, <2>5, <2>6
<1>. QED  BY Zenon, <1>3, <1>5, <1>6, <1>7 DEF SlotsInv

LEMMA SubmitOuterStep ==
    ASSUME RelayInv, NEW s \in Relayed, SubmitOuter(s)
    PROVE  RelayInv'
<1>1. /\ sends[s].at = "persisted"
      /\ UNCHANGED <<head, fwd, outers, slots, ledger, todo, cycle>>
  BY Zenon DEF SubmitOuter, loopVars
<1>2. CASE At(s, "sent") /\ (UNCHANGED pool \/ Broadcast(OuterTx(s, 0)))
  BY Zenon, <1>1, <1>2, SubmittedStep DEF Broadcast
<1>3. CASE At(s, "rejected") /\ UNCHANGED pool /\ ~Known(OuterTx(s, 0))
  BY Zenon, <1>1, <1>3, SubmittedStep DEF Known
<1>. QED  BY Zenon, <1>2, <1>3 DEF SubmitOuter, AfterSubmit

\* The last write of a send: Sent, or Failed for what the nodes refused.
LEMMA MarkOuterStep ==
    ASSUME RelayInv, NEW s \in Relayed, MarkOuter(s)
    PROVE  RelayInv'
<1>. USE DEF RelayInv
<1>1. UNCHANGED <<head, fwd, pool, ledger, todo, cycle>>
  BY Zenon DEF MarkOuter, loopVars
<1>2. PICK at \in {"done", "refused"} :
          /\ At(s, at)
          /\ \/ at = "done" /\ sends[s].at = "sent" /\ UNCHANGED slots
             \/ at = "refused" /\ sends[s].at = "rejected" /\ slots' = slots \ {sends[s].slot}
          /\ \/ UNCHANGED outers
             \/ at = "done" /\ PutOuter(s, NewOuter("Sent"))
             \/ at = "refused" /\ PutOuter(s, NewOuter("Failed"))
  BY Zenon DEF MarkOuter, PutOuterIgnored
<1>3. /\ sends'[s].at = at /\ sends'[s].nonce = sends[s].nonce /\ sends'[s].slot = sends[s].slot
      /\ DOMAIN sends' = Relayed
      /\ \A t \in Relayed : t # s => sends'[t] = sends[t]
      /\ s \in DOMAIN outers
  BY <1>2, RequestFields DEF At, Moved, SendsInv, Stored
<1>4. /\ DOMAIN outers' = DOMAIN outers
      /\ \A t \in DOMAIN outers : t # s => outers'[t] = outers[t]
      /\ outers'[s] \in Outer
      /\ \/ outers'[s] = outers[s]
         \/ outers'[s].status.kind = "Sent"
         \/ outers'[s].status.kind = "Failed" /\ at = "refused"
  BY Zenon, <1>2, <1>3, NewOuterFields DEF PutOuter, SendsInv
<1>5. ReadInv' /\ SendsInv'
  BY Zenon, <1>1, <1>2, <1>3, <1>4 DEF ReadInv, SendsInv, Progress, Stored
<1>6. Steady
  BY Zenon, <1>2, <1>3 DEF Steady, SendsInv
<1>7. LedgerInv'
  BY Zenon, <1>1, <1>6, LedgerFrame
<1>8. OutersInv'
  <2>1. \A t \in DOMAIN outers : \A ran \in BOOLEAN : t \in Judged(ran) => t \in Judged(ran)'
    BY <1>1, <1>6, JudgedFrame DEF ReadInv
  <2>2. at = "refused" => s \in Refused'
    BY Zenon, <1>3 DEF Refused
  <2>3. \A t \in DOMAIN outers' :
            \/ t \in DOMAIN outers /\ outers'[t].status = outers[t].status
            \/ /\ outers'[t].status.kind # "Confirmed"
               /\ outers'[t].status.kind = "Failed" => t \in Refused'
    BY Zenon, <1>4, <2>2
  <2>. QED  BY <1>6, <2>1, <2>3, OutersFrame, Zenon
<1>9. ASSUME NoneLost'
      PROVE  OneHolder' /\ UsedByHolder' /\ KnownNotRefused' /\ Unsent' \subseteq Untouched'
  <2>1. OneHolder /\ UsedByHolder /\ KnownNotRefused /\ Unsent \subseteq Untouched
    BY Zenon, <1>2, <1>3, <1>9 DEF NoneLost, SlotsInv
  <2>2. Pooled' = Pooled /\ s \in Holders /\ (at = "refused" => s \notin Pooled)
    BY Zenon, <1>1, <1>2, <2>1 DEF Pooled, Holders, KnownNotRefused
  <2>3. /\ \A t \in Holders' : t \in Holders /\ sends'[t].slot = sends[t].slot
        /\ at = "refused" => s \notin Holders'
    BY Zenon, <1>3, <1>4 , <2>2 DEF Holders
  <2>4. OneHolder'
    BY Zenon, <1>2, <2>1, <2>2, <2>3 DEF OneHolder
  <2>5. at = "refused" => sends[s].slot >= cycle.mined
    BY <2>1, <2>2 DEF UsedByHolder, SendsInv, ReadInv
  <2>6. UsedByHolder'
    BY <1>1, <1>2, <2>1, <2>2, <2>3, <2>5 DEF UsedByHolder, SendsInv, ReadInv
  <2>7. KnownNotRefused'
    BY Zenon, <1>2, <1>3, <2>1, <2>2, PooledStored DEF KnownNotRefused
  <2>8. ASSUME NEW t \in Unsent'  PROVE t \in Untouched'
    <3>1. t \in Unsent /\ t # s
      BY Zenon, <1>1, <1>3, <2>8 DEF Unsent
    <3>. QED  BY Zenon, <1>1, <1>4, <2>1, <2>2, <3>1 DEF Untouched
  <2>. QED  BY Zenon, <2>4, <2>6, <2>7, <2>8
<1>. QED  BY Zenon, <1>5, <1>7, <1>8, <1>9 DEF SlotsInv

-----------------------------------------------------------------------------
(* The relayer: the chain *)

\* What happens on the chain leaves nonces, pools and the pass alone.
LEMMA SlotsFrame ==
    ASSUME SlotsInv, UNCHANGED <<sends, slots, pool, outers, todo, cycle>>
    PROVE  SlotsInv'
<1>1. NoneLost' = NoneLost /\ Holders' = Holders /\ Pooled' = Pooled
  BY Zenon DEF NoneLost, Holders, Pooled
<1>2. Unsent' = Unsent /\ Untouched' = Untouched
  BY Zenon, <1>1 DEF Unsent, Untouched
<1>3. ASSUME OneHolder, UsedByHolder, KnownNotRefused
      PROVE  OneHolder' /\ UsedByHolder' /\ KnownNotRefused'
  BY Zenon, <1>1, <1>3 DEF OneHolder, UsedByHolder, KnownNotRefused
<1>4. ASSUME NoneLost' PROVE NoneLost
  BY Zenon, <1>4 DEF NoneLost
<1>. QED  BY Zenon, <1>2, <1>3, <1>4 DEF SlotsInv

\* The event a forwarder may emit for a request.
LEMMA ExecutionFacts ==
    ASSUME SendsInv, NEW s \in Relayed, NEW x \in Executions(s)
    PROVE  /\ x.ok \in BOOLEAN /\ x.logs \in SUBSET [nonce : Int, success : BOOLEAN]
           /\ \/ x.logs = {}
              \/ x.ok /\ \E b \in BOOLEAN : x.logs = {[nonce |-> sends[s].nonce, success |-> b]}
<1>1. sends[s].nonce \in Int
  BY Zenon DEF SendsInv
<1>2. /\ x.ok \in BOOLEAN
      /\ \/ x.logs = {}
         \/ x.ok /\ \E b \in BOOLEAN : x.logs = {[nonce |-> sends[s].nonce, success |-> b]}
  <2>1. \/ x = [ok |-> TRUE,  logs |-> {[nonce |-> sends[s].nonce, success |-> TRUE]}]
        \/ x = [ok |-> TRUE,  logs |-> {[nonce |-> sends[s].nonce, success |-> FALSE]}]
        \/ x = [ok |-> FALSE, logs |-> {}]
    BY Zenon DEF Executions
  <2>2. \/ x.ok = TRUE /\ x.logs = {[nonce |-> sends[s].nonce, success |-> TRUE]}
        \/ x.ok = TRUE /\ x.logs = {[nonce |-> sends[s].nonce, success |-> FALSE]}
        \/ x.ok = FALSE /\ x.logs = {}
    BY <2>1
  <2>. QED  BY <2>2, Zenon
<1>3. CASE x.logs = {}
  BY Zenon, <1>2, <1>3
<1>4. ASSUME NEW b \in BOOLEAN, x.logs = {[nonce |-> sends[s].nonce, success |-> b]}
      PROVE  x.logs \in SUBSET [nonce : Int, success : BOOLEAN]
  BY <1>1, <1>4
<1>. QED  BY Zenon, <1>2, <1>3, <1>4

\* A pooled transaction is mined at its nonce.
LEMMA MineOuterStep ==
    ASSUME RelayInv, NEW tx \in pool, MineOuter(tx)
    PROVE  RelayInv'
<1>. USE DEF RelayInv
<1>. DEFINE s == tx.send
<1>1. PICK x \in Executions(s) :
          /\ ledger' = Append(ledger, [send |-> s, rev |-> tx.rev, block |-> head + 1,
                                       ok |-> x.ok, logs |-> x.logs])
          /\ fwd' = fwd + NoncesUsed(x.logs)
  BY Zenon DEF MineOuter
<1>2. /\ s \in Relayed /\ s \in DOMAIN outers /\ tx.rev \in Nat /\ sends[s].slot = Len(ledger)
      /\ OuterTx(s, tx.rev) = tx
      /\ head' = head + 1 /\ head \in Nat
      /\ UNCHANGED <<sends, outers, slots, pool, todo, cycle>>
  BY Zenon DEF MineOuter, SendsInv, OuterTx, ReadInv, loopVars
<1>3. /\ x.ok \in BOOLEAN /\ x.logs \in SUBSET [nonce : Int, success : BOOLEAN]
      /\ \/ x.logs = {}
         \/ x.ok /\ \E b \in BOOLEAN : x.logs = {[nonce |-> sends[s].nonce, success |-> b]}
  BY Zenon, <1>2, ExecutionFacts
<1>. DEFINE e == [send |-> s, rev |-> tx.rev, block |-> head + 1, ok |-> x.ok, logs |-> x.logs]
<1>4. e \in Entries
  BY <1>2, <1>3 DEF Entries
<1>5. ledger \in Seq(Entries) /\ Len(ledger) \in Nat
  BY DEF LedgerInv
<1>6. /\ ledger' \in Seq(Entries) /\ Len(ledger') = Len(ledger) + 1
      /\ ledger'[Len(ledger) + 1] = e
      /\ \A k \in 1 .. Len(ledger) : ledger'[k] = ledger[k]
  <2>. HIDE DEF e
  <2>1. ledger' = Append(ledger, e)
    BY Zenon, <1>1 DEF e
  <2>. QED  BY <1>4, <1>5, <2>1
<1>7. e.send = s /\ e.rev = tx.rev /\ e.ok = x.ok /\ e.logs = x.logs
  BY Zenon
<1>. HIDE DEF s, e
<1>8. LedgerInv'
  <2>1. ASSUME NEW k \in 1 .. Len(ledger')
        PROVE  /\ OuterTx(ledger'[k].send, ledger'[k].rev) \in pool
               /\ sends[ledger'[k].send].slot = k - 1
               /\ \/ ledger'[k].logs = {}
                  \/ /\ ledger'[k].ok
                     /\ \E b \in BOOLEAN :
                           ledger'[k].logs = {[nonce |-> sends[ledger'[k].send].nonce, success |-> b]}
    <3>1. CASE k = Len(ledger) + 1
      BY <1>2, <1>3, <1>5, <1>6, <1>7, <3>1
    <3>2. CASE k \in 1 .. Len(ledger)
      BY Zenon, <1>6, <3>2 DEF LedgerInv
    <3>. QED  BY <1>5, <1>6, <3>1, <3>2
  <2>. QED  BY Zenon, <1>2, <1>6, <2>1 DEF LedgerInv
<1>9. ReadInv' /\ SendsInv'
  BY <1>1, <1>2 DEF ReadInv, SendsInv, NoncesUsed
<1>10. OutersInv'
  <2>1. ASSUME NEW t \in DOMAIN outers, NEW ran \in BOOLEAN, t \in Judged(ran)
        PROVE  t \in Judged(ran)'
    <3>1. t \in Relayed /\ sends[t].slot \in Nat /\ sends[t].slot < Len(ledger)
      BY Zenon, <2>1 DEF Judged, SendsInv
    <3>2. /\ sends[t].slot + 1 \in 1 .. Len(ledger)
          /\ sends[t].slot < Len(ledger')
          /\ ledger'[sends[t].slot + 1] = ledger[sends[t].slot + 1]
      BY <1>5, <1>6, <3>1
    <3>3. ledger[sends[t].slot + 1].block \in Nat
      BY Zenon, <3>2, MinedStored DEF Entries
    <3>4. head' - ledger[sends[t].slot + 1].block + 1 >= Required
      BY <1>2, <2>1, <3>3, WalletLoopAssumption DEF Judged
    <3>. QED  BY <1>2, <2>1, <3>1, <3>2, <3>4, Zenon DEF Judged, InnerSucceeded
  <2>2. Steady
    BY Zenon, <1>2 DEF Steady
  <2>. QED  BY <1>2, <2>1, <2>2, OutersFrame, Zenon
<1>11. SlotsInv'
  BY Zenon, <1>2, SlotsFrame
<1>. QED  BY Zenon, <1>8, <1>9, <1>10, <1>11


\* What is left of a sequence without its last elements.
LEMMA PrefixFacts ==
    ASSUME NEW S, NEW q \in Seq(S), NEW n \in Nat, n <= Len(q)
    PROVE  /\ SubSeq(q, 1, n) \in Seq(S) /\ Len(SubSeq(q, 1, n)) = n
           /\ \A k \in 1 .. n : SubSeq(q, 1, n)[k] = q[k]
<1>1. SubSeq(q, 1, n) \in Seq(S)
  OBVIOUS
<1>2. Len(SubSeq(q, 1, n)) = n
  OBVIOUS
<1>3. \A k \in 1 .. n : SubSeq(q, 1, n)[k] = q[k]
  OBVIOUS
<1>. QED  BY Zenon, <1>1, <1>2, <1>3

\* The latest block is replaced: what is at the required depth stays.
LEMMA ReorgOuterStep ==
    ASSUME RelayInv, ReorgOuter
    PROVE  RelayInv'
<1>. USE DEF RelayInv
<1>1. ledger \in Seq(Entries) /\ Len(ledger) \in Nat \ {0}
  BY DEF ReorgOuter, LedgerInv
<1>2. /\ ledger' = SubSeq(ledger, 1, Len(ledger) - 1)
      /\ ledger[Len(ledger)].block = head /\ fwd' = fwd - NoncesUsed(ledger[Len(ledger)].logs)
      /\ UNCHANGED <<head, sends, outers, slots, pool, todo, cycle>>
  BY Zenon DEF ReorgOuter, loopVars
<1>3. /\ ledger' \in Seq(Entries) /\ Len(ledger') = Len(ledger) - 1
      /\ \A k \in 1 .. Len(ledger') : k \in 1 .. Len(ledger) /\ ledger'[k] = ledger[k]
  <2>. DEFINE n == Len(ledger) - 1
  <2>1. n \in Nat /\ n <= Len(ledger) /\ \A k \in 1 .. n : k \in 1 .. Len(ledger)
    BY <1>1
  <2>2. ledger' = SubSeq(ledger, 1, n)
    BY Zenon, <1>2
  <2>3. n = Len(ledger) - 1
    BY Zenon
  <2>. HIDE DEF n
  <2>4. /\ ledger' \in Seq(Entries) /\ Len(ledger') = n
        /\ \A k \in 1 .. n : ledger'[k] = ledger[k]
    BY <1>1, <2>1, <2>2, PrefixFacts
  <2>. QED  BY Zenon, <2>1, <2>3, <2>4
<1>4. LedgerInv'
  <2>1. ASSUME NEW k \in 1 .. Len(ledger')
        PROVE  /\ OuterTx(ledger'[k].send, ledger'[k].rev) \in pool
               /\ sends[ledger'[k].send].slot = k - 1
               /\ \/ ledger'[k].logs = {}
                  \/ /\ ledger'[k].ok
                     /\ \E b \in BOOLEAN :
                           ledger'[k].logs = {[nonce |-> sends[ledger'[k].send].nonce, success |-> b]}
    <3>1. k \in 1 .. Len(ledger) /\ ledger'[k] = ledger[k]
      BY Zenon, <1>3
    <3>. QED  BY Zenon, <3>1 DEF LedgerInv
  <2>. QED  BY Zenon, <1>2, <1>3, <2>1 DEF LedgerInv
<1>5. ReadInv' /\ SendsInv'
  BY <1>2 DEF ReadInv, SendsInv, NoncesUsed
<1>6. OutersInv'
  <2>1. ASSUME NEW t \in DOMAIN outers, NEW ran \in BOOLEAN, t \in Judged(ran), Required >= 2
        PROVE  t \in Judged(ran)'
    <3>1. /\ t \in Relayed /\ sends[t].slot \in Nat /\ sends[t].slot < Len(ledger)
          /\ head - ledger[sends[t].slot + 1].block + 1 >= Required
          /\ head \in Nat /\ Required \in Nat
      BY Zenon, <2>1, WalletLoopAssumption DEF Judged, SendsInv, ReadInv
    <3>2. sends[t].slot + 1 # Len(ledger)
      BY <1>2, <2>1, <3>1
    <3>3. sends[t].slot + 1 \in 1 .. Len(ledger') /\ sends[t].slot < Len(ledger')
      BY <1>1, <1>3, <3>1, <3>2
    <3>4. ledger'[sends[t].slot + 1] = ledger[sends[t].slot + 1]
      BY Zenon, <1>3, <3>3
    <3>. QED  BY <1>2, <2>1, <3>1, <3>3, <3>4, Zenon DEF Judged, InnerSucceeded
  <2>2. Steady
    BY Zenon, <1>2 DEF Steady
  <2>. QED  BY <1>2, <2>1, <2>2, OutersFrame, Zenon
<1>7. SlotsInv'
  BY Zenon, <1>2, SlotsFrame
<1>. QED  BY Zenon, <1>4, <1>5, <1>6, <1>7

\* Blocks, time, and the user's requests that others bring.
LEMMA RelayGrowStep ==
    ASSUME RelayInv, ExtendRelayed \/ TimePasses \/ (ForeignRequest /\ UNCHANGED selfVars)
    PROVE  RelayInv'
<1>. USE DEF RelayInv
<1>1. /\ head' \in Nat /\ head' >= head /\ fwd' \in Int
      /\ UNCHANGED <<sends, outers, slots, pool, ledger, todo, cycle>>
  BY DEF ExtendRelayed, TimePasses, ForeignRequest, selfVars, loopVars, ReadInv, SendsInv
<1>2. ReadInv'
  BY <1>1 DEF ReadInv
<1>3. SendsInv'
  BY Zenon, <1>1 DEF SendsInv
<1>4. Steady
  BY Zenon, <1>1 DEF Steady
<1>5. LedgerInv'
  BY Zenon, <1>1, <1>4, LedgerFrame
<1>6. OutersInv'
  <2>1. \A t \in DOMAIN outers : \A ran \in BOOLEAN : t \in Judged(ran) => t \in Judged(ran)'
    BY Zenon, <1>1, <1>4, JudgedFrame
  <2>. QED  BY Zenon, <1>1, <1>4, <2>1, OutersFrame
<1>7. SlotsInv'
  BY Zenon, <1>1, SlotsFrame
<1>. QED  BY Zenon, <1>2, <1>3, <1>5, <1>6, <1>7

-----------------------------------------------------------------------------
(* The relayer: the loop *)

\* The nodes have transactions of holders only.
LEMMA PooledHolds ==
    ASSUME SendsInv, NoneLost, KnownNotRefused
    PROVE  Pooled \subseteq Holders
<1>1. ASSUME NEW s \in Pooled  PROVE s \in Holders
  <2>1. s \in DOMAIN outers /\ s \in Relayed /\ sends[s].at \in Stored
    BY Zenon, PooledStored
  <2>. QED  BY Zenon, <2>1 DEF KnownNotRefused, NoneLost, Holders, Stored
<1>. QED  BY Zenon, <1>1

\* A nonce the chain has used was used by its holder.
LEMMA MinedByHolder ==
    ASSUME SendsInv, LedgerInv, NoneLost, OneHolder, KnownNotRefused,
           NEW s \in Holders, sends[s].slot < Len(ledger)
    PROVE  s \in Pooled
<1>1. sends[s].slot \in Nat /\ sends[s].slot + 1 \in 1 .. Len(ledger)
  BY DEF Holders, SendsInv, LedgerInv
<1>. DEFINE t == ledger[sends[s].slot + 1].send
<1>2. t \in Pooled /\ sends[t].slot = sends[s].slot
  BY <1>1, MinedStored
<1>. HIDE DEF t
<1>3. t = s
  BY Zenon, <1>2, PooledHolds DEF OneHolder
<1>. QED  BY Zenon, <1>2, <1>3

\* What recover brings to the pools.
LEMMA RecoverFacts ==
    ASSUME SendsInv, RelayPass
    PROVE  /\ pool \subseteq pool'
           /\ \A tx \in pool' \ pool :
                 /\ tx.send \in DOMAIN outers /\ tx = OuterTx(tx.send, outers[tx.send].signed)
                 /\ tx \in [send : DOMAIN outers, rev : Nat]
                 /\ sends[tx.send].at \notin {"rejected", "refused"}
<1>1. pool \subseteq pool'
  BY Zenon DEF RelayPass
<1>2. ASSUME NEW tx \in pool' \ pool
      PROVE  /\ tx.send \in DOMAIN outers /\ tx = OuterTx(tx.send, outers[tx.send].signed)
             /\ tx \in [send : DOMAIN outers, rev : Nat]
             /\ sends[tx.send].at \notin {"rejected", "refused"}
  <2>1. Welcome(tx) /\ \E s \in DOMAIN outers : tx = OuterTx(s, outers[s].signed)
    BY <1>2, Zenon DEF RelayPass, Followed
  <2>2. PICK s \in DOMAIN outers : tx = OuterTx(s, outers[s].signed)
    BY Zenon, <2>1
  <2>3. outers[s].signed \in Nat
    BY Zenon DEF SendsInv, Outer
  <2>4. tx.send = s
    BY Zenon, <2>2 DEF OuterTx
  <2>5. tx \in [send : DOMAIN outers, rev : Nat]
    BY Zenon, <2>2, <2>3 DEF OuterTx
  <2>. QED  BY Zenon, <2>1, <2>2, <2>4, <2>5 DEF Welcome
<1>. QED  BY Zenon, <1>1, <1>2

LEMMA RelayPassStep ==
    ASSUME RelayInv, RelayPass
    PROVE  RelayInv'
<1>. USE DEF RelayInv
<1>1. UNCHANGED <<head, fwd, sends, outers, ledger>>
  BY Zenon DEF RelayPass
<1>2. \/ /\ cycle' = [latest |-> head, mined |-> Len(ledger)]
         /\ slots' = slots \cup 0 .. Len(ledger) - 1
         /\ todo' = [s \in Followed(InFlight) |-> outers[s]]
      \/ todo' = Nothing /\ cycle' = NoCycle /\ slots' = slots
  BY Zenon DEF RelayPass, LeaveTick
<1>3. Followed(InFlight) \subseteq DOMAIN outers
  BY Zenon DEF Followed
<1>4. /\ DOMAIN todo' \subseteq DOMAIN outers
      /\ \A s \in DOMAIN todo' : todo'[s] = outers[s] /\ ~IsTerminal(outers[s].status)
  BY Zenon, <1>2 DEF Followed, InFlight, IsTerminal, Nothing
<1>5. Len(ledger) \in Nat
  BY DEF LedgerInv
<1>6. ReadInv'
  BY <1>1, <1>2, <1>5 DEF ReadInv, NoCycle
<1>7. SendsInv'
  <2>1. pool' \subseteq [send : DOMAIN outers, rev : Nat]
    BY Zenon, RecoverFacts DEF SendsInv
  <2>2. \A s \in DOMAIN todo' : todo'[s] \in Outer /\ ~IsTerminal(todo'[s].status)
    BY Zenon, <1>4 DEF SendsInv
  <2>. QED  BY Zenon, <1>1, <1>4, <2>1, <2>2 DEF SendsInv
<1>8. Steady
  BY Zenon, <1>1 DEF Steady
<1>9. LedgerInv'
  BY Zenon, <1>1, <1>8, RecoverFacts, LedgerFrame
<1>10. OutersInv'
  <2>1. head' \in Nat /\ head' >= head
    BY <1>1 DEF ReadInv
  <2>2. \A t \in DOMAIN outers : \A ran \in BOOLEAN : t \in Judged(ran) => t \in Judged(ran)'
    BY Zenon, <1>1, <1>8, <2>1, JudgedFrame
  <2>. QED  BY Zenon, <1>1, <1>8, <2>2, OutersFrame
<1>11. ASSUME NoneLost'  PROVE OneHolder' /\ UsedByHolder' /\ KnownNotRefused' /\ Unsent' \subseteq Untouched'
  <2>1. NoneLost
    BY Zenon, <1>1, <1>11 DEF NoneLost
  <2>2. OneHolder /\ UsedByHolder /\ KnownNotRefused /\ Unsent \subseteq Untouched
    BY Zenon, <2>1 DEF SlotsInv
  <2>3. Holders' = Holders /\ slots \subseteq slots'
    BY Zenon, <1>1, <1>2 DEF Holders
  <2>4. /\ Pooled \subseteq Pooled'
        /\ \A s \in Pooled' \ Pooled : /\ OuterTx(s, outers[s].signed) \in pool'
                                       /\ sends[s].at \notin {"rejected", "refused"}
    <3>1. Pooled \subseteq Pooled'
      BY Zenon, RecoverFacts DEF Pooled
    <3>2. ASSUME NEW s \in Pooled' \ Pooled
          PROVE  /\ OuterTx(s, outers[s].signed) \in pool'
                 /\ sends[s].at \notin {"rejected", "refused"}
      <4>1. PICK tx \in pool' : s = tx.send
        BY Zenon DEF Pooled
      <4>2. tx \notin pool
        BY Zenon, <4>1 DEF Pooled
      <4>. QED  BY Zenon, <4>1, <4>2, RecoverFacts
    <3>. QED  BY Zenon, <3>1, <3>2
  <2>5. OneHolder'
    BY Zenon, <1>1, <2>2, <2>3 DEF OneHolder
  <2>6. UsedByHolder'
    <3>1. CASE cycle'.mined = Len(ledger) /\ slots' = slots \cup 0 .. Len(ledger) - 1
      <4>1. \A s \in Holders : sends[s].slot < Len(ledger) => s \in Pooled
        BY Zenon, <2>1, <2>2, MinedByHolder
      <4>. QED  BY Zenon, <1>1, <2>3, <2>4, <3>1, <4>1 DEF UsedByHolder
    <3>2. CASE cycle'.mined = 0
      BY <1>1, <2>3, <3>2 DEF UsedByHolder, Holders, SendsInv
    <3>. QED  BY <1>2, <3>1, <3>2 DEF NoCycle
  <2>7. KnownNotRefused'
    BY Zenon, <1>1, <2>2, <2>4 DEF KnownNotRefused
  <2>8. ASSUME NEW s \in Unsent'  PROVE s \in Untouched'
    <3>1. s \in Unsent /\ OuterTx(s, 0) \notin pool'
      BY Zenon, <1>1, RecoverFacts DEF Unsent
    <3>2. s \in Untouched
      BY Zenon, <2>2, <3>1
    <3>3. outers[s] = NewOuter("Pending") /\ s \in DOMAIN outers /\ s \notin Pooled
      BY Zenon, <3>2 DEF Untouched
    <3>4. outers[s].signed = 0
      BY <3>3 DEF NewOuter, OuterRec
    <3>5. s \notin Pooled'
      BY Zenon, <2>4, <3>1, <3>3, <3>4
    <3>. QED  BY Zenon, <1>1, <1>4, <3>3, <3>5 DEF Untouched
  <2>. QED  BY Zenon, <2>5, <2>6, <2>7, <2>8
<1>. QED  BY Zenon, <1>6, <1>7, <1>9, <1>10, <1>11 DEF SlotsInv


\* What a pass reads of an outer transaction: where it is mined, if it is, and
\* what became of the user's call there.
LEMMA OuterEventFacts ==
    ASSUME ReadInv, SendsInv, LedgerInv, NEW s \in DOMAIN todo
    PROVE  LET e == OuterEvent(s, todo[s])
               n == sends[s].slot
           IN  /\ e \in ChainEvent
               /\ e.kind = "Mined" => /\ n < Len(ledger) /\ ledger[n + 1].send = s /\ s \in Pooled
                                      /\ e.block = ledger[n + 1].block
                                      /\ e.executed <=> InnerSucceeded(s, ledger[n + 1].logs)
               /\ e.kind \in {"Mined", "Pending"} \/ n < cycle.mined
<1>. DEFINE e == OuterEvent(s, todo[s])
            n == sends[s].slot
            m == ledger[n + 1]
<1>1. n \in Nat /\ Len(ledger) \in Nat /\ cycle.mined \in Nat
  BY DEF SendsInv, LedgerInv, ReadInv
<1>2. CASE MinedAt(n) /\ m.send = s /\ m.rev \in todo[s].revs
  <2>1. n + 1 \in 1 .. Len(ledger) /\ n < Len(ledger)
    BY <1>1, <1>2 DEF MinedAt
  <2>2. m \in Entries /\ m.send \in Pooled
    BY Zenon, <2>1, MinedStored
  <2>3. m.logs = {} \/ m.ok
    BY Zenon, <2>1 DEF LedgerInv
  <2>4. m.block \in Nat /\ m.rev \in Nat /\ m.ok \in BOOLEAN
    BY Zenon, <2>2 DEF Entries
  <2>5. OutcomeOf(s, m) \in BOOLEAN /\ (OutcomeOf(s, m) <=> InnerSucceeded(s, m.logs))
    BY Zenon, <2>3, <2>4 DEF OutcomeOf, InnerSucceeded
  <2>. HIDE DEF m
  <2>6. e = Event("Mined", m.block, m.rev, OutcomeOf(s, m))
    BY <1>2, Zenon DEF OuterEvent, m
  <2>. HIDE DEF e
  <2>7. /\ e \in ChainEvent /\ e.kind = "Mined" /\ e.block = m.block
        /\ e.executed = OutcomeOf(s, m)
    BY Zenon, <2>4, <2>5, <2>6 DEF Event, ChainEvent
  <2>. QED  BY Zenon, <1>2, <2>1, <2>2, <2>5, <2>7 DEF e, m
<1>3. CASE ~(MinedAt(n) /\ m.send = s /\ m.rev \in todo[s].revs)
  <2>1. e = Event(IF n < cycle.mined THEN "Replaced" ELSE "Pending", 0, 0, FALSE)
    BY <1>3, Zenon DEF OuterEvent
  <2>. HIDE DEF e
  <2>2. /\ e \in ChainEvent /\ e.kind # "Mined"
        /\ e.kind = "Pending" \/ n < cycle.mined
    BY Zenon, <2>1 DEF Event, ChainEvent
  <2>. QED  BY Zenon, <2>2 DEF e
<1>. QED  BY Zenon, <1>2, <1>3

\* What the executor settles an outer handle as is so in the chain.
LEMMA OuterNextFacts ==
    ASSUME ReadInv, SendsInv, LedgerInv, NEW s \in DOMAIN todo
    PROVE  LET e    == OuterEvent(s, todo[s])
               next == Transition(todo[s].status, e, View(cycle.latest), Required)
           IN  /\ next \in TxStatus
               /\ Required >= 2 /\ next.kind = "Confirmed" => s \in Judged(TRUE)
               /\ Required >= 2 /\ next.kind = "Failed" => s \in Judged(FALSE)
               /\ todo[s].status.kind = "Pending" /\ e.kind = "Pending" => next = todo[s].status
<1>. DEFINE e    == OuterEvent(s, todo[s])
            next == Transition(todo[s].status, e, View(cycle.latest), Required)
            m    == ledger[sends[s].slot + 1]
<1>1. /\ e \in ChainEvent
      /\ e.kind = "Mined" => /\ sends[s].slot < Len(ledger) /\ m.send = s
                             /\ e.block = m.block
                             /\ e.executed <=> InnerSucceeded(s, m.logs)
  BY Zenon, OuterEventFacts
<1>2. /\ s \in Relayed /\ todo[s].status \in TxStatus /\ ~IsTerminal(todo[s].status)
      /\ cycle.latest \in Nat /\ cycle.latest <= head /\ head \in Nat
  BY Zenon DEF SendsInv, ReadInv, Outer
<1>. HIDE DEF e, m
<1>3. /\ next \in TxStatus
      /\ next.kind = "Confirmed" =>
            e.kind = "Mined" /\ e.executed /\ IsFinal(e.block, View(cycle.latest), Required)
      /\ next.kind = "Failed" =>
            e.kind = "Mined" /\ ~e.executed /\ IsFinal(e.block, View(cycle.latest), Required)
      /\ todo[s].status.kind = "Pending" /\ e.kind = "Pending" => next = todo[s].status
  BY Zenon, <1>1, <1>2, TransitionFacts
<1>. HIDE DEF next
<1>4. e.block \in Nat
  BY Zenon, <1>1 DEF ChainEvent
<1>5. Required >= 2 /\ IsFinal(e.block, View(cycle.latest), Required) => head - e.block + 1 >= Required
  BY Zenon, <1>2, <1>4, FinalIsDeep
<1>6. Required >= 2 /\ next.kind = "Confirmed" => s \in Judged(TRUE)
  BY <1>1, <1>2, <1>3, <1>5, Zenon DEF Judged, m
<1>7. Required >= 2 /\ next.kind = "Failed" => s \in Judged(FALSE)
  BY <1>1, <1>2, <1>3, <1>5, Zenon DEF Judged, m
<1>. QED  BY Zenon, <1>3, <1>6, <1>7 DEF next, e


LEMMA AdvanceOuterStep ==
    ASSUME RelayInv, NEW s \in Relayed, AdvanceOuter(s)
    PROVE  RelayInv'
<1>. USE DEF RelayInv
<1>. DEFINE e    == OuterEvent(s, todo[s])
            next == Transition(todo[s].status, e, View(cycle.latest), Required)
            rec  == OuterRec(next, todo[s].revs, todo[s].signed)
<1>1. /\ s \in DOMAIN todo /\ todo' = Without(todo, s)
      /\ UNCHANGED <<head, fwd, sends, slots, pool, ledger, cycle>>
      /\ outers' = outers \/ (next # todo[s].status /\ PutOuter(s, rec))
  <2>1. \/ next # todo[s].status /\ PutOuterIgnored(s, rec)
        \/ UNCHANGED <<outers, faults>>
    BY Zenon DEF AdvanceOuter
  <2>2. /\ s \in DOMAIN todo /\ todo' = Without(todo, s)
        /\ UNCHANGED <<head, fwd, sends, slots, pool, ledger, cycle>>
    BY Zenon DEF AdvanceOuter
  <2>. HIDE DEF next, rec
  <2>. QED  BY Zenon, <2>1, <2>2 DEF PutOuterIgnored
<1>2. /\ next \in TxStatus
      /\ Required >= 2 /\ next.kind = "Confirmed" => s \in Judged(TRUE)
      /\ Required >= 2 /\ next.kind = "Failed" => s \in Judged(FALSE)
      /\ todo[s].status.kind = "Pending" /\ e.kind = "Pending" => next = todo[s].status
  BY Zenon, <1>1, OuterNextFacts
<1>3. (e.kind = "Mined" => s \in Pooled) /\ (e.kind \in {"Mined", "Pending"} \/ sends[s].slot < cycle.mined)
  BY Zenon, <1>1, OuterEventFacts
<1>. HIDE DEF e, next
<1>4. todo[s] \in Outer /\ s \in DOMAIN outers
  BY Zenon, <1>1 DEF SendsInv
<1>5. rec \in Outer /\ rec.status = next
  BY Zenon, <1>2, <1>4 DEF OuterRec, Outer
<1>. HIDE DEF rec
<1>6. /\ DOMAIN outers' = DOMAIN outers
      /\ \A t \in DOMAIN outers : outers'[t] = outers[t] \/ (t = s /\ outers'[t] = rec)
      /\ next = todo[s].status => outers' = outers
  <2>1. CASE outers' = outers
    BY Zenon, <2>1
  <2>2. CASE next # todo[s].status /\ PutOuter(s, rec)
    <3>1. outers' = [x \in DOMAIN outers |-> IF x = s THEN rec ELSE outers[x]]
      BY Zenon, <1>4, <2>2 DEF PutOuter
    <3>. QED  BY Zenon, <2>2, <3>1
  <2>. QED  BY Zenon, <1>1, <2>1, <2>2
<1>7. /\ DOMAIN todo' = DOMAIN todo \ {s}
      /\ \A t \in DOMAIN todo' : todo'[t] = todo[t]
  BY Zenon, <1>1 DEF Without
<1>8. ReadInv' /\ SendsInv'
  BY Zenon, <1>1, <1>5, <1>6, <1>7 DEF ReadInv, SendsInv
<1>9. Steady
  BY Zenon, <1>1 DEF Steady
<1>10. LedgerInv'
  BY Zenon, <1>1, <1>9, LedgerFrame
<1>11. OutersInv'
  <2>1. head' \in Nat /\ head' >= head
    BY <1>1 DEF ReadInv
  <2>2. \A t \in DOMAIN outers : \A ran \in BOOLEAN : t \in Judged(ran) => t \in Judged(ran)'
    BY Zenon, <1>1, <1>9, <2>1, JudgedFrame
  <2>3. /\ Required >= 2 /\ next.kind = "Confirmed" => s \in Judged(TRUE)'
        /\ Required >= 2 /\ next.kind = "Failed" => s \in Judged(FALSE)'
    BY Zenon, <1>2, <1>4, <2>2
  <2>. QED  BY Zenon, <1>5, <1>6, <1>9, <2>2, <2>3, OutersFrame
<1>12. ASSUME NoneLost'  PROVE OneHolder' /\ UsedByHolder' /\ KnownNotRefused' /\ Unsent' \subseteq Untouched'
  <2>1. NoneLost
    BY Zenon, <1>1, <1>12 DEF NoneLost
  <2>2. OneHolder /\ UsedByHolder /\ KnownNotRefused /\ Unsent \subseteq Untouched
    BY Zenon, <2>1 DEF SlotsInv
  <2>3. Holders' = Holders /\ Pooled' = Pooled /\ Unsent' = Unsent
    BY Zenon, <1>1, <1>6 DEF Holders, Pooled, Unsent
  <2>4. OneHolder' /\ UsedByHolder' /\ KnownNotRefused'
    BY <1>1, <2>2, <2>3, Zenon DEF OneHolder, UsedByHolder, KnownNotRefused
  <2>5. ASSUME NEW t \in Unsent  PROVE t \in Untouched'
    <3>1. /\ t \in DOMAIN outers /\ t \notin Pooled /\ outers[t] = NewOuter("Pending")
          /\ t \in DOMAIN todo => todo[t] = NewOuter("Pending")
      BY Zenon, <2>2 DEF Untouched
    <3>2. t = s => outers' = outers
      <4>1. SUFFICES ASSUME t = s  PROVE next = todo[s].status
        BY Zenon, <1>6
      <4>2. t \in Holders /\ sends[t].slot \in Nat /\ cycle.mined \in Nat
        BY Zenon DEF Unsent, Holders, SendsInv, ReadInv
      <4>3. e.kind = "Pending"
        BY Zenon, <1>3, <2>2, <3>1, <4>1, <4>2 DEF UsedByHolder
      <4>4. todo[s].status.kind = "Pending"
        BY <1>1, <3>1, <4>1 DEF NewOuter, OuterRec, Plain, Status
      <4>. QED  BY Zenon, <1>2, <4>3, <4>4
    <3>3. outers'[t] = outers[t]
      BY Zenon, <1>6, <3>1, <3>2
    <3>. QED  BY Zenon, <1>6, <1>7, <2>3, <3>1, <3>3 DEF Untouched
  <2>. QED  BY Zenon, <2>3, <2>4, <2>5
<1>. QED  BY Zenon, <1>8, <1>10, <1>11, <1>12 DEF SlotsInv


\* A replacement is of the send it replaces, and only what is Sent is replaced.
LEMMA EscalateFacts ==
    ASSUME SendsInv, RelayEscalate
    PROVE  \E stuck \in SUBSET DOMAIN outers :
              /\ pool \subseteq pool' /\ pool' \subseteq [send : DOMAIN outers, rev : Nat]
              /\ Pooled' = Pooled \cup stuck
              /\ DOMAIN outers' = DOMAIN outers
              /\ \A t \in DOMAIN outers : outers'[t] \in Outer /\ outers'[t].status = outers[t].status
              /\ \A t \in DOMAIN outers \ stuck : outers'[t] = outers[t]
              /\ \A t \in stuck : /\ outers[t].status.kind = "Sent"
                                  /\ sends[t].at \notin {"rejected", "refused"}
<1>1. PICK stuck \in SUBSET {s \in Followed({"Sent"}) : Bumpable(s)} :
          /\ pool' = pool \cup {OuterTx(s, outers[s].signed + 1) : s \in stuck}
          /\ \/ outers' = [s \in DOMAIN outers |->
                              IF s \in stuck THEN Bumped(outers[s]) ELSE outers[s]]
             \/ \E lost \in stuck : outers' = [s \in DOMAIN outers |->
                    IF s \in stuck \ {lost} THEN Bumped(outers[s]) ELSE outers[s]]
  BY Zenon DEF RelayEscalate
<1>2. ASSUME NEW t \in stuck
      PROVE  /\ t \in DOMAIN outers /\ outers[t].status.kind = "Sent"
             /\ sends[t].at \notin {"rejected", "refused"}
  <2>1. t \in Followed({"Sent"}) /\ Bumpable(t)
    BY Zenon, <1>2
  <2>2. Welcome(OuterTx(t, outers[t].signed + 1)) /\ OuterTx(t, outers[t].signed + 1).send = t
    BY Zenon, <2>1 DEF Bumpable, OuterTx
  <2>3. sends[t].at \notin {"rejected", "refused"}
    BY <2>2, Zenon DEF Welcome
  <2>. QED  BY Zenon, <2>1, <2>3 DEF Followed
<1>3. ASSUME NEW t \in DOMAIN outers
      PROVE  /\ outers[t] \in Outer /\ outers[t].signed + 1 \in Nat
             /\ Bumped(outers[t]) \in Outer /\ Bumped(outers[t]).status = outers[t].status
  <2>1. outers[t] \in Outer
    BY Zenon DEF SendsInv
  <2>2. /\ outers[t].status \in TxStatus /\ outers[t].revs \in SUBSET Nat
        /\ outers[t].signed \in Nat /\ outers[t].signed + 1 \in Nat
    BY <2>1 DEF Outer
  <2>. QED  BY Zenon, <2>1, <2>2 DEF Bumped, OuterRec, Outer
<1>4. ASSUME NEW t \in stuck
      PROVE  /\ OuterTx(t, outers[t].signed + 1) \in [send : DOMAIN outers, rev : Nat]
             /\ OuterTx(t, outers[t].signed + 1).send = t
  <2>1. t \in DOMAIN outers
    BY Zenon, <1>2
  <2>2. outers[t].signed + 1 \in Nat
    BY Zenon, <1>3, <2>1
  <2>. QED  BY Zenon, <2>1, <2>2 DEF OuterTx
<1>5. pool \subseteq pool' /\ pool' \subseteq [send : DOMAIN outers, rev : Nat]
  BY <1>1, <1>4 DEF SendsInv
<1>6. Pooled' = Pooled \cup stuck
  BY <1>1, <1>4 DEF Pooled
<1>7. /\ DOMAIN outers' = DOMAIN outers
      /\ \A t \in DOMAIN outers : \/ outers'[t] = outers[t]
                                  \/ t \in stuck /\ outers'[t] = Bumped(outers[t])
  BY Zenon, <1>1
<1>8. \A t \in DOMAIN outers : outers'[t] \in Outer /\ outers'[t].status = outers[t].status
  BY <1>3, <1>7, Zenon
<1>9. stuck \in SUBSET DOMAIN outers
  BY Zenon, <1>2
<1>. QED  BY Zenon, <1>2, <1>5, <1>6, <1>7, <1>8, <1>9

LEMMA RelayEscalateStep ==
    ASSUME RelayInv, RelayEscalate
    PROVE  RelayInv'
<1>. USE DEF RelayInv
<1>1. /\ todo' = Nothing /\ cycle' = NoCycle
      /\ UNCHANGED <<head, fwd, sends, slots, ledger>>
  BY Zenon DEF RelayEscalate, LeaveTick
<1>2. PICK stuck \in SUBSET DOMAIN outers :
          /\ pool \subseteq pool' /\ pool' \subseteq [send : DOMAIN outers, rev : Nat]
          /\ Pooled' = Pooled \cup stuck
          /\ DOMAIN outers' = DOMAIN outers
          /\ \A t \in DOMAIN outers : outers'[t] \in Outer /\ outers'[t].status = outers[t].status
          /\ \A t \in DOMAIN outers \ stuck : outers'[t] = outers[t]
          /\ \A t \in stuck : /\ outers[t].status.kind = "Sent"
                              /\ sends[t].at \notin {"rejected", "refused"}
  BY EscalateFacts, Zenon
<1>3. DOMAIN todo' = {}
  BY Zenon, <1>1 DEF Nothing
<1>4. ReadInv'
  BY <1>1 DEF ReadInv, NoCycle
<1>5. SendsInv'
  BY Zenon, <1>1, <1>2, <1>3 DEF SendsInv
<1>6. Steady
  BY Zenon, <1>1 DEF Steady
<1>7. LedgerInv'
  BY Zenon, <1>1, <1>2, <1>6, LedgerFrame
<1>8. OutersInv'
  <2>1. head' \in Nat /\ head' >= head
    BY <1>1 DEF ReadInv
  <2>2. \A t \in DOMAIN outers : \A ran \in BOOLEAN : t \in Judged(ran) => t \in Judged(ran)'
    BY Zenon, <1>1, <1>6, <2>1, JudgedFrame
  <2>. QED  BY Zenon, <1>2, <1>6, <2>2, OutersFrame
<1>9. ASSUME NoneLost'  PROVE OneHolder' /\ UsedByHolder' /\ KnownNotRefused' /\ Unsent' \subseteq Untouched'
  <2>1. NoneLost
    BY Zenon, <1>1, <1>9 DEF NoneLost
  <2>2. OneHolder /\ UsedByHolder /\ KnownNotRefused /\ Unsent \subseteq Untouched
    BY Zenon, <2>1 DEF SlotsInv
  <2>3. Holders' = Holders /\ Unsent' \subseteq Unsent
    BY Zenon, <1>1, <1>2 DEF Holders, Unsent
  <2>4. OneHolder'
    BY <1>1, <2>2, <2>3, Zenon DEF OneHolder
  <2>5. UsedByHolder'
    BY <1>1, <2>3 DEF UsedByHolder, NoCycle, Holders, SendsInv
  <2>6. KnownNotRefused'
    BY Zenon, <1>1, <1>2, <2>2 DEF KnownNotRefused
  <2>7. ASSUME NEW t \in Unsent  PROVE t \in Untouched'
    <3>1. t \in DOMAIN outers /\ t \notin Pooled /\ outers[t] = NewOuter("Pending")
      BY Zenon, <2>2 DEF Untouched
    <3>2. t \notin stuck
      BY <1>2, <3>1 DEF NewOuter, OuterRec, Plain, Status
    <3>. QED  BY Zenon, <1>2, <1>3, <3>1, <3>2 DEF Untouched
  <2>. QED  BY Zenon, <2>3, <2>4, <2>5, <2>6, <2>7
<1>. QED  BY Zenon, <1>4, <1>5, <1>7, <1>8, <1>9 DEF SlotsInv


\* The loop leaves a tick, goes on, stops or is aborted.
LEMMA RelayLoopStep ==
    ASSUME RelayInv, UNCHANGED <<head, fwd, selfVars>>,
           UNCHANGED <<todo, cycle>> \/ (todo' = Nothing /\ cycle' = NoCycle)
    PROVE  RelayInv'
<1>. USE DEF RelayInv
<1>1. UNCHANGED <<head, fwd, sends, outers, slots, pool, ledger>>
  BY Zenon DEF selfVars
<1>2. /\ DOMAIN todo' \subseteq DOMAIN todo
      /\ \A s \in DOMAIN todo' : todo'[s] = todo[s]
  BY Zenon DEF Nothing
<1>3. ReadInv'
  BY <1>1 DEF ReadInv, NoCycle
<1>4. SendsInv'
  BY Zenon, <1>1, <1>2 DEF SendsInv
<1>5. Steady
  BY Zenon, <1>1 DEF Steady
<1>6. LedgerInv'
  BY Zenon, <1>1, <1>5, LedgerFrame
<1>7. OutersInv'
  <2>1. head' \in Nat /\ head' >= head
    BY <1>1 DEF ReadInv
  <2>2. \A t \in DOMAIN outers : \A ran \in BOOLEAN : t \in Judged(ran) => t \in Judged(ran)'
    BY Zenon, <1>1, <1>5, <2>1, JudgedFrame
  <2>. QED  BY Zenon, <1>1, <1>5, <2>2, OutersFrame
<1>8. ASSUME NoneLost'  PROVE OneHolder' /\ UsedByHolder' /\ KnownNotRefused' /\ Unsent' \subseteq Untouched'
  <2>1. NoneLost
    BY Zenon, <1>1, <1>8 DEF NoneLost
  <2>2. OneHolder /\ UsedByHolder /\ KnownNotRefused /\ Unsent \subseteq Untouched
    BY Zenon, <2>1 DEF SlotsInv
  <2>3. Holders' = Holders /\ Unsent' = Unsent /\ Pooled' = Pooled
    BY Zenon, <1>1 DEF Holders, Unsent, Pooled
  <2>4. OneHolder' /\ KnownNotRefused'
    BY <1>1, <2>2, <2>3, Zenon DEF OneHolder, KnownNotRefused
  <2>5. UsedByHolder'
    <3>1. CASE cycle' = cycle
      BY <1>1, <2>2, <2>3, <3>1, Zenon DEF UsedByHolder
    <3>2. CASE cycle' = NoCycle
      BY <1>1, <2>3, <3>2 DEF UsedByHolder, NoCycle, Holders, SendsInv
    <3>. QED  BY Zenon, <3>1, <3>2
  <2>6. Untouched \subseteq Untouched'
    BY Zenon, <1>1, <1>2, <2>3 DEF Untouched
  <2>. QED  BY Zenon, <2>2, <2>3, <2>4, <2>5, <2>6
<1>. QED  BY Zenon, <1>3, <1>4, <1>6, <1>7, <1>8 DEF SlotsInv

\* The process dies: sends under way end where they are.
LEMMA CrashRelayStep ==
    ASSUME RelayInv, CrashRelay
    PROVE  RelayInv'
<1>. USE DEF RelayInv
<1>1. /\ todo' = Nothing /\ cycle' = NoCycle
      /\ UNCHANGED <<head, fwd, outers, slots, pool, ledger>>
      /\ DOMAIN sends' = Relayed
  BY Zenon DEF CrashRelay, LeaveTick
<1>. DEFINE Under == {"signed", "allocated", "persisted", "sent", "rejected"}
<1>2. ASSUME NEW t \in Relayed
      PROVE  /\ sends'[t].slot = sends[t].slot /\ sends'[t].nonce = sends[t].nonce
             /\ sends[t].at \in Under => sends'[t].at = "crashed"
             /\ sends[t].at \notin Under => sends'[t].at = sends[t].at
  <2>1. sends'[t] = IF sends[t].at \in Under THEN Moved(sends[t], "crashed") ELSE sends[t]
    BY Zenon DEF CrashRelay
  <2>. QED  BY <2>1, RequestFields DEF Moved
<1>3. DOMAIN todo' = {}
  BY Zenon, <1>1 DEF Nothing
<1>4. ReadInv'
  BY <1>1 DEF ReadInv, NoCycle
<1>5. SendsInv'
  <2>1. \A t \in Relayed : /\ sends'[t].at \in Progress
                           /\ sends[t].at \in Stored => sends'[t].at \in Stored
                           /\ sends'[t].at \in Stored \ {"crashed"} => sends[t].at \in Stored \ {"crashed"}
    BY Zenon, <1>2 DEF SendsInv, Progress, Stored
  <2>. QED  BY Zenon, <1>1, <1>2, <1>3, <2>1 DEF SendsInv
<1>6. Steady
  BY Zenon, <1>2 DEF Steady, SendsInv
<1>7. LedgerInv'
  BY Zenon, <1>1, <1>6, LedgerFrame
<1>8. OutersInv'
  <2>1. head' \in Nat /\ head' >= head
    BY <1>1 DEF ReadInv
  <2>2. \A t \in DOMAIN outers : \A ran \in BOOLEAN : t \in Judged(ran) => t \in Judged(ran)'
    BY Zenon, <1>1, <1>6, <2>1, JudgedFrame
  <2>. QED  BY Zenon, <1>1, <1>6, <2>2, OutersFrame
<1>9. ASSUME NoneLost'  PROVE OneHolder' /\ UsedByHolder' /\ KnownNotRefused' /\ Unsent' \subseteq Untouched'
  <2>1. NoneLost
    BY Zenon, <1>2, <1>9 DEF NoneLost
  <2>2. OneHolder /\ KnownNotRefused
    BY Zenon, <2>1 DEF SlotsInv
  <2>3. Holders' \subseteq Holders
    <3>1. ASSUME NEW t \in Holders'  PROVE t \in Holders
      <4>1. /\ t \in Relayed
            /\ \/ sends'[t].at \in {"allocated", "persisted", "sent", "rejected", "done"}
               \/ sends'[t].at = "crashed" /\ t \in DOMAIN outers
        BY Zenon, <1>1 DEF Holders
      <4>2. CASE sends[t].at \in Under
        BY Zenon, <1>2, <4>1, <4>2 DEF Holders, SendsInv, Stored
      <4>3. CASE sends[t].at \notin Under
        BY Zenon, <1>2, <4>1, <4>3 DEF Holders
      <4>. QED  BY Zenon, <4>2, <4>3
    <3>. QED  BY Zenon, <3>1
  <2>4. Holders \subseteq Relayed /\ Unsent' = {} /\ Pooled' = Pooled /\ Pooled \subseteq Relayed
    <3>1. \A t \in Relayed : sends'[t].at # "persisted"
      BY Zenon, <1>2
    <3>2. Unsent' = {}
      BY <3>1, Zenon DEF Unsent
    <3>3. Holders \subseteq Relayed /\ Pooled' = Pooled
      BY Zenon, <1>1 DEF Holders, Pooled
    <3>. QED  BY Zenon, <3>2, <3>3, PooledStored
  <2>5. OneHolder'
    BY <1>1, <1>2, <2>2, <2>3, <2>4 DEF OneHolder
  <2>6. UsedByHolder'
    BY <1>1, <1>2, <2>3, <2>4 DEF UsedByHolder, NoCycle, SendsInv
  <2>7. KnownNotRefused'
    BY Zenon, <1>2, <2>2, <2>4 DEF KnownNotRefused
  <2>. QED  BY Zenon, <2>4, <2>5, <2>6, <2>7
<1>. QED  BY Zenon, <1>4, <1>5, <1>7, <1>8, <1>9 DEF SlotsInv

LEMMA RelayStep ==
    ASSUME RelayInv, RelayNext
    PROVE  RelayInv'
BY Zenon, SignRequestStep, AllocateOuterStep, PersistOuterStep, SubmitOuterStep, MarkOuterStep,
   MineOuterStep, ReorgOuterStep, RelayGrowStep, RelayPassStep, AdvanceOuterStep,
   RelayEscalateStep, CrashRelayStep, Zenon
   DEF RelayNext, SendRelayed, RelayTick


-----------------------------------------------------------------------------
(* The theorems *)

LEMMA GaslessInitial ==
    ASSUME GaslessInit
    PROVE  GaslessInv
<1>1. backend \in {"gelato", "relayer"}
  BY Zenon DEF GaslessInit, Backend
<1>2. ReadInv /\ DOMAIN todo = {} /\ cycle.mined = 0
  BY DEF GaslessInit, LoopInit, ReadInv, NoCycle, Nothing
<1>3. DOMAIN outers = {} /\ ledger = <<>> /\ pool = {} /\ DOMAIN handles = {}
  BY Zenon DEF GaslessInit, RelayInit, GelatoInit, Nothing
<1>4. GelatoInv
  <2>1. tasks = [s \in Sends |-> NoTask] /\ calls = [s \in Sends |-> NoCall] /\ eoa = 0
    BY Zenon DEF GaslessInit, GelatoInit
  <2>2. NoTask \in Tasks /\ NoTask.block = 0 /\ NoTask.state = "none"
    BY Zenon DEF NoTask, Task, Tasks
  <2>3. TasksInv
    BY Zenon, <2>1, <2>2 DEF TasksInv
  <2>. QED  BY Zenon, <1>2, <1>3, <2>1, <2>3 DEF GelatoInv, HandlesInv, TodoInv
<1>5. RelayInv
  <2>1. \A s \in Relayed : sends[s].at = "idle" /\ sends[s].slot = 0 /\ sends[s].nonce = 0
    BY Zenon DEF GaslessInit, RelayInit, NoRequest, Request
  <2>2. SendsInv
    BY <1>2, <1>3, <2>1 DEF SendsInv, GaslessInit, RelayInit, LoopInit, Progress, Stored
  <2>3. LedgerInv /\ OutersInv
    BY <1>3 DEF LedgerInv, OutersInv
  <2>4. Holders = {} /\ Pooled = {} /\ Unsent = {}
    BY Zenon, <1>3, <2>1 DEF Holders, Pooled, Unsent
  <2>5. SlotsInv
    BY <1>2, <2>4 DEF SlotsInv, OneHolder, UsedByHolder, KnownNotRefused
  <2>. QED  BY Zenon, <1>2, <2>2, <2>3, <2>5 DEF RelayInv
<1>. QED  BY Zenon, <1>1, <1>3, <1>4, <1>5 DEF GaslessInv

\* The loop's own steps, whichever backend is configured.
LEMMA LoopFacts ==
    ASSUME OnLoop(TickError) \/ OnLoop(Wake) \/ OnLoop(StopSeen) \/ OnLoop(Stop) \/ OnLoop(Abort)
    PROVE  /\ UNCHANGED <<head, fwd, gelatoVars, selfVars, backend>>
           /\ UNCHANGED <<todo, cycle>> \/ (todo' = Nothing /\ cycle' = NoCycle)
BY Zenon DEF OnLoop, TickError, Wake, StopSeen, Stop, Abort, LeaveTick

LEMMA GaslessStep ==
    ASSUME GaslessInv, [GaslessNext]_gaslessVars
    PROVE  GaslessInv'
<1>1. CASE OnGelato(GelatoNext)
  BY Zenon, <1>1, GelatoStep DEF OnGelato, GaslessInv, selfVars
<1>2. CASE OnRelayer(RelayNext)
  BY Zenon, <1>2, RelayStep DEF OnRelayer, GaslessInv, gelatoVars
<1>3. CASE OnChainOnly(ForeignRequest)
  <2>1. ForeignRequest /\ UNCHANGED <<selfVars, gelatoVars>> /\ backend' = backend
    BY Zenon, <1>3 DEF OnChainOnly
  <2>2. GelatoInv => GelatoInv'
    <3>1. SUFFICES ASSUME GelatoInv  PROVE GelatoInv'
      BY Zenon
    <3>. QED  BY Zenon, <2>1, <3>1, GelatoLoopStep DEF ForeignRequest, gelatoVars, loopVars, GelatoInv, TasksInv
  <2>3. RelayInv => RelayInv'
    BY Zenon, <2>1, RelayGrowStep
  <2>. QED  BY Zenon, <2>1, <2>2, <2>3 DEF GaslessInv, selfVars, gelatoVars
<1>4. ASSUME UNCHANGED <<head, fwd, gelatoVars, selfVars, backend>>,
             UNCHANGED <<todo, cycle>> \/ (todo' = Nothing /\ cycle' = NoCycle)
      PROVE  GaslessInv'
  <2>1. GelatoInv => GelatoInv'
    <3>1. SUFFICES ASSUME GelatoInv  PROVE GelatoInv'
      BY Zenon
    <3>. QED  BY Zenon, <1>4, <3>1, GelatoLoopStep DEF gelatoVars, GelatoInv, TasksInv
  <2>2. RelayInv => RelayInv'
    BY Zenon, <1>4, RelayLoopStep
  <2>. QED  BY Zenon, <1>4, <2>1, <2>2 DEF GaslessInv, selfVars, gelatoVars
<1>5. CASE UNCHANGED gaslessVars
  BY Zenon, <1>4, <1>5 DEF gaslessVars, loopVars
<1>. QED  BY Zenon, <1>1, <1>2, <1>3, <1>4, <1>5, LoopFacts DEF GaslessNext

\* Every step of a gasless send, of a tick, of the relay, the chain and the
\* forwarder keeps the invariant.
THEOREM GaslessInductive == GaslessSpec => []GaslessInv
<1>1. GaslessInit => GaslessInv
  BY Zenon, GaslessInitial
<1>2. GaslessInv /\ [GaslessNext]_gaslessVars => GaslessInv'
  BY Zenon, GaslessStep
<1>. QED  BY <1>1, <1>2, PTL DEF GaslessSpec


\* A Confirmed task handle's transaction is in the chain at the required
\* depth ("never a false Confirmed", executor/mod.rs:238), with any number of
\* sends and faults, as long as a reorg is shallower than the confirmations.
THEOREM ConfirmedIsIncluded ==
    ASSUME Required >= 2
    PROVE  GaslessSpec => []ConfirmedIncluded
<1>1. GaslessInv => ConfirmedIncluded
  BY Zenon DEF GaslessInv, GelatoInv, HandlesInv, ConfirmedIncluded, DeepTasks
<1>. QED  BY <1>1, GaslessInductive, PTL

\* A Failed task handle's call has not been executed and never is: the relay
\* gave the task up, which only its own answer can say (poll_task,
\* parse_status), and a task given up has nothing in the chain.
THEOREM FailedIsNotExecuted == GaslessSpec => []FailedNotExecuted
<1>1. GaslessInv => FailedNotExecuted
  BY Zenon DEF GaslessInv, GelatoInv, HandlesInv, TasksInv, FailedNotExecuted, GivenUp, OnChainTask
<1>. QED  BY <1>1, GaslessInductive, PTL

\* A mined outer transaction sits at its send's nonce, so that it is the one
\* the executor has judged.
LEMMA RanAtSlot ==
    ASSUME SendsInv, LedgerInv, NEW s \in Relayed, Ran(s)
    PROVE  /\ s \in DOMAIN outers /\ s \in Pooled
           /\ InnerSucceeded(s, ledger[sends[s].slot + 1].logs)
<1>1. PICK k \in 1 .. Len(ledger) : ledger[k].send = s /\ InnerSucceeded(s, ledger[k].logs)
  BY Zenon DEF Ran
<1>2. s \in Pooled /\ s \in DOMAIN outers /\ sends[s].slot = k - 1
  BY Zenon, <1>1, MinedStored
<1>3. sends[s].slot + 1 = k
  BY <1>2
<1>. QED  BY Zenon, <1>1, <1>2, <1>3

\* A send the nodes refused has not run, if no write of another was lost.
LEMMA RefusedNotRun ==
    ASSUME RelayInv, NEW s \in Relayed, sends[s].at = "refused", Undisturbed(s)
    PROVE  ~Ran(s)
<1>1. NoneLost
  BY Zenon DEF Undisturbed, NoneLost
<1>2. s \notin Pooled
  BY Zenon, <1>1 DEF RelayInv, SlotsInv, KnownNotRefused
<1>. QED  BY Zenon, <1>2, RanAtSlot DEF RelayInv

\* Where a self-relayed handle is Confirmed the user's own call ran, at the
\* required depth: a mined execute() is not taken for evidence of it
\* (executor/mod.rs:499-517), whichever revision was mined.
THEOREM RelayedConfirmedIsRun ==
    ASSUME Required >= 2
    PROVE  GaslessSpec => []RelayedConfirmedRan
<1>1. ASSUME RelayInv, NEW s \in DOMAIN outers, outers[s].status.kind = "Confirmed"
      PROVE  RanDeep(s)
  <2>1. s \in Judged(TRUE)
    BY Zenon, <1>1 DEF RelayInv, OutersInv
  <2>2. sends[s].slot \in Nat /\ ledger \in Seq(Entries) /\ sends[s].slot < Len(ledger)
    BY Zenon, <1>1, <2>1 DEF RelayInv, SendsInv, LedgerInv, Judged
  <2>3. sends[s].slot + 1 \in 1 .. Len(ledger)
    BY <2>2
  <2>. QED  BY <2>1, <2>3, Zenon DEF Judged, RanDeep
<1>2. GaslessInv => RelayedConfirmedRan
  BY Zenon, <1>1 DEF GaslessInv, RelayedConfirmedRan
<1>. QED  BY <1>2, GaslessInductive, PTL

\* A self-relayed handle that is Failed has not run and never does, though its
\* bytes may be rebroadcast and blocks reorganised (transaction_manager.rs:
\* 546-556, executor/mod.rs:503-517).
THEOREM RelayedFailedDidNotRun ==
    ASSUME Required >= 2
    PROVE  GaslessSpec => []RelayedFailedNotRun
<1>1. ASSUME RelayInv, NEW s \in DOMAIN outers, outers[s].status.kind = "Failed", Undisturbed(s)
      PROVE  ~Ran(s)
  <2>1. s \in Relayed
    BY Zenon, <1>1 DEF RelayInv, SendsInv
  <2>2. s \in Judged(FALSE) \/ sends[s].at = "refused"
    BY Zenon, <1>1 DEF RelayInv, OutersInv, Refused
  <2>3. CASE s \in Judged(FALSE)
    <3>1. ~InnerSucceeded(s, ledger[sends[s].slot + 1].logs)
      BY Zenon, <2>3 DEF Judged
    <3>. QED  BY Zenon, <1>1, <2>1, <3>1, RanAtSlot DEF RelayInv
  <2>4. CASE sends[s].at = "refused"
    BY Zenon, <1>1, <2>1, <2>4, RefusedNotRun
  <2>. QED  BY Zenon, <2>2, <2>3, <2>4
<1>2. GaslessInv => RelayedFailedNotRun
  BY Zenon, <1>1 DEF GaslessInv, RelayedFailedNotRun
<1>. QED  BY <1>2, GaslessInductive, PTL

\* A send_gasless that returned an error has not run and never does, so the
\* caller may send again (transaction_manager.rs:491-556).
THEOREM ErrorDidNotRun == GaslessSpec => []ErrorNotRun
<1>1. ASSUME RelayInv, NEW s \in Relayed, sends[s].at \in {"failed", "refused"}, Undisturbed(s)
      PROVE  ~Ran(s)
  <2>1. CASE sends[s].at = "failed"
    <3>1. s \notin DOMAIN outers
      BY Zenon, <1>1, <2>1 DEF RelayInv, SendsInv, Stored
    <3>. QED  BY Zenon, <1>1, <3>1, RanAtSlot DEF RelayInv
  <2>2. CASE sends[s].at = "refused"
    BY Zenon, <1>1, <2>2, RefusedNotRun
  <2>. QED  BY Zenon, <1>1, <2>1, <2>2
<1>2. ASSUME GaslessInv, backend = "gelato"  PROVE ErrorNotRun
  BY <1>2 DEF GaslessInv, ErrorNotRun, Ran
<1>3. GaslessInv => ErrorNotRun
  BY Zenon, <1>1, <1>2 DEF GaslessInv, ErrorNotRun
<1>. QED  BY <1>3, GaslessInductive, PTL
=============================================================================
