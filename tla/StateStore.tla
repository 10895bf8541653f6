----------------------------- MODULE StateStore -----------------------------
(***************************************************************************)
(* What the StateStore port promises (core/deps/state_store.rs): every call*)
(* takes effect at one moment between its invocation and its answer, or    *)
(* not at all.  A call that fails, or whose answer is lost, may or may not *)
(* have had its effect.  InMemoryStateStore (adapters/store/memory.rs) is  *)
(* this specification: each method holds a mutex from start to end.        *)
(***************************************************************************)
EXTENDS Naturals

CONSTANTS
    Clients,    \* the tasks, and replicas, that call the store
    Accounts,   \* the nonce scopes
    Ids,        \* handle ids
    AccountOf,  \* the account each handle belongs to
    Fences,     \* the fence tokens writers carry
    Ops,        \* the operations called in a run
    MaxVersion  \* bound on the versions of a nonce state

ASSUME StateStoreAssumption ==
    /\ AccountOf \in [Ids -> Accounts]
    /\ Fences \subseteq Nat
    /\ Ops \subseteq {"cas", "load", "put", "pending", "handle"}
    /\ MaxVersion \in Nat

VARIABLES
    nonces,  \* the nonce row of each account; version 0 means absent
    handles, \* the stored handles: absent, live or terminal
    calls    \* the call each client is in

vars == <<nonces, handles, calls>>

\* FenceToken::SINGLE_WRITER is 0, the fence of an absent row too.
NoRow   == [version |-> 0, fence |-> 0]
Rows    == [version : Nat, fence : Nat]
Request == [op : Ops, account : Accounts, id : Ids, expected : 0 .. MaxVersion,
            fence : Fences, terminal : BOOLEAN]

\* Answers: cas gives true, false or fenced; load a version; handle what is
\* stored; pending a set of ids; put ok.
Answer(kind, version, ids) == [kind |-> kind, version |-> version, ids |-> ids]
Answers == [kind : {"none", "error", "ok", "true", "false", "fenced", "loaded",
                    "absent", "live", "terminal", "pending"},
            version : Nat, ids : SUBSET Ids]
NoAnswer == Answer("none", 0, {})
Error    == Answer("error", 0, {})

Idle == [at |-> "idle"]
Called(r) == [at |-> "called", req |-> r, answer |-> NoAnswer]
Done(r, a) == [at |-> "done", req |-> r, answer |-> a]

Req(c) == calls[c].req
Finish(c, a) == calls' = [calls EXCEPT ![c] = Done(Req(c), a)]

TypeOK ==
    /\ nonces \in [Accounts -> Rows]
    /\ handles \in [Ids -> {"absent", "live", "terminal"}]
    /\ \A c \in Clients :
          \/ calls[c] = Idle
          \/ \E r \in Request : calls[c] = Called(r)
          \/ calls[c].at = "done" /\ calls[c].req \in Request /\ calls[c].answer \in Answers

Init ==
    /\ nonces = [a \in Accounts |-> NoRow]
    /\ handles = [i \in Ids |-> "absent"]
    /\ calls = [c \in Clients |-> Idle]

-----------------------------------------------------------------------------
(* The effect of each method, and its answer *)

Fenced(r)  == r.fence < nonces[r.account].fence
Matches(r) == nonces[r.account].version = r.expected
Wins(r)    == ~Fenced(r) /\ Matches(r)

Written(r) == [nonces EXCEPT ![r.account] =
                  [version |-> r.expected + 1, fence |-> r.fence]]

CasAnswer(r) ==
    Answer(CASE Fenced(r) -> "fenced" [] Wins(r) -> "true" [] OTHER -> "false", 0, {})

CasNonceState(r) ==
    /\ r.op = "cas"
    /\ nonces' = (IF Wins(r) THEN Written(r) ELSE nonces)
    /\ UNCHANGED handles

LoadNonceState(r) == r.op = "load" /\ UNCHANGED <<nonces, handles>>

PutHandle(r) ==
    /\ r.op = "put"
    /\ handles' = [handles EXCEPT ![r.id] = IF r.terminal THEN "terminal" ELSE "live"]
    /\ UNCHANGED nonces

PendingHandles(r) == r.op = "pending" /\ UNCHANGED <<nonces, handles>>

Pending(a) == {i \in Ids : AccountOf[i] = a /\ handles[i] = "live"}

Handle(r) == r.op = "handle" /\ UNCHANGED <<nonces, handles>>

AnswerTo(r) ==
    CASE r.op = "cas"     -> CasAnswer(r)
      [] r.op = "load"    -> Answer("loaded", nonces[r.account].version, {})
      [] r.op = "put"     -> Answer("ok", 0, {})
      [] r.op = "pending" -> Answer("pending", 0, Pending(r.account))
      [] r.op = "handle"  -> Answer(handles[r.id], 0, {})

-----------------------------------------------------------------------------
(* Calls *)

\* A caller of cas passes a version it has loaded, so one that was current; a
\* handle is kept under its account.
Invoke(c) ==
    /\ calls[c] = Idle
    /\ \E r \in Request :
          /\ r.account = AccountOf[r.id]
          /\ r.expected <= nonces[r.account].version /\ r.expected < MaxVersion
          /\ r.op # "cas" => r.expected = 0 /\ r.fence = 0
          /\ r.op # "put" => ~r.terminal
          /\ calls' = [calls EXCEPT ![c] = Called(r)]
    /\ UNCHANGED <<nonces, handles>>

Effect(c) ==
    /\ calls[c].at = "called"
    /\ LET r == calls[c].req
       IN  /\ \/ CasNonceState(r) \/ LoadNonceState(r) \/ PutHandle(r)
              \/ PendingHandles(r) \/ Handle(r)
           /\ Finish(c, AnswerTo(r))

\* A backend error; after the effect it is the answer that is lost.
Fail(c) ==
    /\ calls[c].at \in {"called", "done"}
    /\ Finish(c, Error)
    /\ UNCHANGED <<nonces, handles>>

Return(c) ==
    /\ calls[c].at = "done"
    /\ calls' = [calls EXCEPT ![c] = Idle]
    /\ UNCHANGED <<nonces, handles>>

Next == \E c \in Clients : Invoke(c) \/ Effect(c) \/ Fail(c) \/ Return(c)

Spec == Init /\ [][Next]_vars
=============================================================================
