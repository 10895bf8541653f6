----------------------------- MODULE RedbStore -----------------------------
(***************************************************************************)
(* RedbStateStore (adapters/store/redb.rs): handles live in the table TX   *)
(* and, while they are not terminal, also in the index TX_PENDING, which is*)
(* what pending_handles goes by.  A write transaction excludes the others, *)
(* stages its changes and commits them together; reads see the last        *)
(* commit.  Transactions run on blocking threads: they go on when the      *)
(* caller is gone, and the process may die at any point of them.           *)
(***************************************************************************)
EXTENDS StateStore

VARIABLES
    index,   \* TX_PENDING as committed
    staged,  \* the open write transaction's view of the tables
    writer   \* the client whose write transaction is open, and its step

redbVars == <<nonces, handles, calls, index, staged, writer>>

NoTx == [at |-> "none"]

Tables == [nonces |-> nonces, tx |-> handles, pending |-> index]
NoTables == [nonces |-> [a \in Accounts |-> NoRow], tx |-> [i \in Ids |-> "absent"],
             pending |-> {}]

\* The transaction is committed, aborted or dropped.
CloseTx == writer' = NoTx /\ staged' = NoTables

RedbTypeOK ==
    /\ TypeOK
    /\ index \subseteq Ids
    /\ staged.pending \subseteq Ids
    /\ writer # NoTx => writer.at \in {"begun", "tx", "ready"} /\ writer.client \in Clients

RedbInit ==
    /\ Init
    /\ index = {} /\ writer = NoTx
    /\ staged = NoTables

Step(c, at) == writer' = [at |-> at, client |-> c]
In(c, at) == writer = [at |-> at, client |-> c]

-----------------------------------------------------------------------------
(* Writes *)

\* db.begin_write blocks while another write transaction is open.
BeginWrite(c) ==
    /\ calls[c].at = "called" /\ Req(c).op \in {"cas", "put"}
    /\ writer = NoTx
    /\ staged' = Tables
    /\ Step(c, "begun")
    /\ UNCHANGED <<nonces, handles, calls, index>>

\* cas: the guards against the row of this transaction; dropping the
\* transaction aborts it.
CasCheck(c) ==
    /\ In(c, "begun") /\ Req(c).op = "cas"
    /\ IF Wins(Req(c))
       THEN staged' = [staged EXCEPT !.nonces = Written(Req(c))]
            /\ Step(c, "ready") /\ UNCHANGED calls
       ELSE Finish(c, CasAnswer(Req(c))) /\ CloseTx
    /\ UNCHANGED <<nonces, handles, index>>

\* put: TX first ...
PutTx(c) ==
    /\ In(c, "begun") /\ Req(c).op = "put"
    /\ staged' = [staged EXCEPT !.tx[Req(c).id] =
                     IF Req(c).terminal THEN "terminal" ELSE "live"]
    /\ Step(c, "tx")
    /\ UNCHANGED <<nonces, handles, calls, index>>

\* Mutant: a settled handle stays in the index.
PutPendingKeeps(c) ==
    /\ In(c, "tx")
    /\ staged' = [staged EXCEPT !.pending = @ \cup {Req(c).id}]
    /\ Step(c, "ready")
    /\ UNCHANGED <<nonces, handles, calls, index>>

\* ... then the index.
PutPending(c) ==
    /\ In(c, "tx")
    /\ staged' = [staged EXCEPT !.pending =
                     IF Req(c).terminal THEN @ \ {Req(c).id} ELSE @ \cup {Req(c).id}]
    /\ Step(c, "ready")
    /\ UNCHANGED <<nonces, handles, calls, index>>

\* commit, with fsync.
Commit(c) ==
    /\ In(c, "ready")
    /\ nonces' = staged.nonces /\ handles' = staged.tx /\ index' = staged.pending
    /\ Finish(c, Answer(IF Req(c).op = "cas" THEN "true" ELSE "ok", 0, {}))
    /\ CloseTx

\* A storage error aborts the transaction.
Abort(c) ==
    /\ writer # NoTx /\ writer.client = c
    /\ Finish(c, Error) /\ CloseTx
    /\ UNCHANGED <<nonces, handles, index>>

-----------------------------------------------------------------------------
(* Reads, on the last committed tables *)

Indexed(a) == {i \in index : AccountOf[i] = a /\ handles[i] # "absent"}

Read(c) ==
    /\ calls[c].at = "called" /\ Req(c).op \in {"load", "pending", "handle"}
    /\ Finish(c, IF Req(c).op = "pending"
                 THEN Answer("pending", 0, Indexed(Req(c).account))
                 ELSE AnswerTo(Req(c)))
    /\ UNCHANGED <<nonces, handles, index, staged, writer>>

\* The call fails before a transaction, or its answer is not waited for.
CallerGone(c) ==
    /\ calls[c].at \in {"called", "done"} /\ (writer # NoTx => writer.client # c)
    /\ Finish(c, Error)
    /\ UNCHANGED <<nonces, handles, index, staged, writer>>

\* The process dies: every call is lost, an open transaction was never there.
Crash ==
    /\ \E c \in Clients : calls[c].at = "called"
    /\ calls' = [c \in Clients |-> IF calls[c] = Idle THEN Idle ELSE Done(Req(c), Error)]
    /\ CloseTx
    /\ UNCHANGED <<nonces, handles, index>>

RedbInvoke(c) == Invoke(c) /\ UNCHANGED <<index, staged, writer>>
RedbReturn(c) == Return(c) /\ UNCHANGED <<index, staged, writer>>

RedbNext ==
    \/ \E c \in Clients :
          \/ RedbInvoke(c) \/ BeginWrite(c) \/ CasCheck(c) \/ PutTx(c) \/ PutPending(c)
          \/ Commit(c) \/ Abort(c) \/ Read(c) \/ CallerGone(c) \/ RedbReturn(c)
    \/ Crash

RedbSpec == RedbInit /\ [][RedbNext]_redbVars
=============================================================================
