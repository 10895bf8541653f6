------------------------------- MODULE Stores -------------------------------
(***************************************************************************)
(* A wallet with a durable store: WalletBuilder::store (facade.rs) is given*)
(* the Postgres or the redb one.  The variables of the other stay as they  *)
(* were.                                                                   *)
(***************************************************************************)
EXTENDS PostgresStore, RedbStore

VARIABLE backend

storeVars == <<pgVars, redbVars, backend>>

StoresInit == PgInit /\ RedbInit /\ backend \in {"postgres", "redb"}

OnPostgres(A) == backend = "postgres" /\ A /\ UNCHANGED <<index, staged, writer, backend>>
OnRedb(A)     == backend = "redb" /\ A /\ UNCHANGED <<lock, tx, backend>>

StoresNext == OnPostgres(PgNext) \/ OnRedb(RedbNext)

StoresSpec == StoresInit /\ [][StoresNext]_storeVars

\* The server answers or drops the connection, and grants the advisory lock
\* to every waiter in the end (Postgres queues them); a blocking thread runs
\* to its end, and redb lets every waiting writer in in the end.
StoresFairSpec ==
    /\ StoresSpec
    /\ \A c \in Clients :
          /\ SF_storeVars(OnPostgres(CasLock(c))) /\ SF_storeVars(OnRedb(BeginWrite(c)))
          /\ WF_storeVars(OnPostgres(CasRead(c) \/ CasCommit(c) \/ Statement(c)))
          /\ WF_storeVars(OnRedb(CasCheck(c) \/ PutTx(c) \/ PutPending(c) \/ Commit(c) \/ Read(c)))

-----------------------------------------------------------------------------
(* Properties *)

\* Each durable store is a StateStore (state_store.rs:17-82): a call takes
\* effect at one moment, wholly or not at all, and is answered accordingly,
\* however many statements or table writes it is made of and wherever a
\* connection or the process is lost.  A crash fails every call at once.
Failures == calls' \in {[c \in Clients |-> IF calls[c] = Idle THEN Idle
                                           ELSE Done(calls[c].req, Error)]}
ImplementsPort == Init /\ [][Next \/ (Failures /\ UNCHANGED <<nonces, handles>>)]_vars

\* The fence guard: once a newer owner has committed, no write of a superseded
\* one gets in (state_store.rs:31-36).
FenceRises == [][\A a \in Accounts : nonces'[a].fence >= nonces[a].fence]_storeVars

\* The index and the table never disagree, whatever transaction is cut short
\* where (redb.rs:149-176): recovery after a restart rebroadcasts exactly the
\* handles that are not terminal.
IndexExact == backend = "redb" => index = {i \in Ids : handles[i] = "live"}

\* Every call is answered, however the others end: no early return, dropped
\* connection, aborted transaction or crash leaves the account's lock or the
\* write transaction taken (postgres.rs:115-140, redb.rs:60-176).
EveryCallAnswered ==
    \A c \in Clients : (calls[c].at = "called") ~> (calls[c].at # "called")
=============================================================================
