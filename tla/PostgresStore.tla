--------------------------- MODULE PostgresStore ---------------------------
(***************************************************************************)
(* PostgresStateStore (adapters/store/postgres.rs): cas_nonce_state is a   *)
(* transaction of several statements under an advisory lock, the other     *)
(* methods are one statement each.  A connection may drop before or after  *)
(* a commit.                                                               *)
(***************************************************************************)
EXTENDS StateStore

VARIABLES
    lock,  \* who holds the account's advisory lock, if anyone
    tx     \* the statement each client's transaction has reached

pgVars == <<nonces, handles, calls, lock, tx>>

Free == {}
Held(c) == {c}

PgTypeOK ==
    /\ TypeOK
    /\ \A a \in Accounts : lock[a] = Free \/ \E c \in Clients : lock[a] = Held(c)
    /\ tx \in [Clients -> {"none", "locked", "checked"}]

PgInit ==
    /\ Init
    /\ lock = [a \in Accounts |-> Free]
    /\ tx = [c \in Clients |-> "none"]

Acc(c) == Req(c).account
Running(c, op) == calls[c].at = "called" /\ Req(c).op = op

EndTx(c) == tx' = [tx EXCEPT ![c] = "none"] /\ lock' = [lock EXCEPT ![Acc(c)] = Free]

-----------------------------------------------------------------------------
(* cas_nonce_state *)

\* Mutant: no advisory lock.
CasLockNone(c) ==
    /\ Running(c, "cas") /\ tx[c] = "none"
    /\ tx' = [tx EXCEPT ![c] = "locked"]
    /\ UNCHANGED <<nonces, handles, calls, lock>>

\* BEGIN; SELECT pg_advisory_xact_lock
CasLock(c) ==
    /\ Running(c, "cas") /\ tx[c] = "none"
    /\ lock[Acc(c)] = Free
    /\ lock' = [lock EXCEPT ![Acc(c)] = Held(c)]
    /\ tx' = [tx EXCEPT ![c] = "locked"]
    /\ UNCHANGED <<nonces, handles, calls>>

\* Mutant: the fence is not looked at.
CasReadNoFence(c) ==
    /\ tx[c] = "locked"
    /\ IF Matches(Req(c))
       THEN tx' = [tx EXCEPT ![c] = "checked"] /\ UNCHANGED <<calls, lock>>
       ELSE Finish(c, CasAnswer(Req(c))) /\ EndTx(c)
    /\ UNCHANGED <<nonces, handles>>

\* Mutant: an early return keeps the lock.
CasReadKeepsLock(c) ==
    /\ tx[c] = "locked"
    /\ IF Wins(Req(c))
       THEN tx' = [tx EXCEPT ![c] = "checked"] /\ UNCHANGED <<calls, lock>>
       ELSE /\ Finish(c, CasAnswer(Req(c)))
            /\ tx' = [tx EXCEPT ![c] = "none"] /\ UNCHANGED lock
    /\ UNCHANGED <<nonces, handles>>

\* SELECT version, fence: fenced or outdated, the transaction is rolled back.
CasRead(c) ==
    /\ tx[c] = "locked"
    /\ IF Wins(Req(c))
       THEN tx' = [tx EXCEPT ![c] = "checked"] /\ UNCHANGED <<calls, lock>>
       ELSE Finish(c, CasAnswer(Req(c))) /\ EndTx(c)
    /\ UNCHANGED <<nonces, handles>>

\* INSERT ... ON CONFLICT DO UPDATE; COMMIT
CasCommit(c) ==
    /\ tx[c] = "checked"
    /\ nonces' = Written(Req(c))
    /\ Finish(c, Answer("true", 0, {})) /\ EndTx(c)
    /\ UNCHANGED handles

\* The connection drops and the server rolls the transaction back.
ConnectionLost(c) ==
    /\ tx[c] # "none"
    /\ Finish(c, Error) /\ EndTx(c)
    /\ UNCHANGED <<nonces, handles>>

-----------------------------------------------------------------------------
(* The single statements *)

\* put_handle: INSERT ... ON CONFLICT (id) DO UPDATE
Upsert(r) ==
    /\ handles' = [handles EXCEPT ![r.id] = IF r.terminal THEN "terminal" ELSE "live"]
    /\ UNCHANGED nonces

Statement(c) ==
    /\ calls[c].at = "called" /\ Req(c).op # "cas"
    /\ IF Req(c).op = "put" THEN Upsert(Req(c)) ELSE UNCHANGED <<nonces, handles>>
    /\ Finish(c, AnswerTo(Req(c)))
    /\ UNCHANGED <<lock, tx>>

AnswerLost(c) ==
    /\ \/ calls[c].at = "called" /\ tx[c] = "none"
       \/ calls[c].at = "done"
    /\ Finish(c, Error)
    /\ UNCHANGED <<nonces, handles, lock, tx>>

-----------------------------------------------------------------------------

PgInvoke(c) == Invoke(c) /\ UNCHANGED <<lock, tx>>
PgReturn(c) == Return(c) /\ UNCHANGED <<lock, tx>>

PgNext ==
    \E c \in Clients :
        \/ PgInvoke(c) \/ CasLock(c) \/ CasRead(c) \/ CasCommit(c)
        \/ ConnectionLost(c) \/ Statement(c) \/ AnswerLost(c) \/ PgReturn(c)

PgSpec == PgInit /\ [][PgNext]_pgVars
=============================================================================
