------------------------------ MODULE ReadPort ------------------------------
(***************************************************************************)
(* What every read-only operation of the kit has in common: it asks a node *)
(* one RPC after another, the chain moves between two of them, and any of  *)
(* them may fail.  The chain is a function of facts (a balance, an ENS     *)
(* record, an account's activity); a fact keeps every value it has had     *)
(* while the operation ran, so that a property can ask what was true when. *)
(* Errors are classified as error.rs does.                                 *)
(***************************************************************************)
EXTENDS Integers, Sequences, Functions

CONSTANTS MaxChanges,     \* bound: changes of the chain while an operation runs
          MaxReadFaults   \* bound: RPCs that fail

ASSUME ReadPortAssumption == MaxChanges \in Nat /\ MaxReadFaults \in Nat

VARIABLES q,        \* the operation, with what it has read so far
          answer,   \* what it returned, Unanswered before that
          world,    \* the facts the node serves now
          seen,     \* every value a fact has had since the operation began
          met,      \* the failures the operation has met
          changes

readVars == <<q, answer, world, seen, met, changes>>

Unanswered == [ok |-> FALSE, pending |-> TRUE]
Ok(v) == [ok |-> TRUE, v |-> v]
Err(port, why, transient) == [ok |-> FALSE, err |-> [port |-> port, why |-> why, transient |-> transient]]

Answered  == answer # Unanswered
Succeeded == Answered /\ answer.ok
Failed    == Answered /\ ~answer.ok

\* A fact that is absent where an Option is returned.
None    == [some |-> FALSE]
Some(v) == [some |-> TRUE, v |-> v]

-----------------------------------------------------------------------------
\* rpc_err: a network failure, a timeout, a 5xx or a 429 is transient, a
\* method error is not.
Faults == {"transient", "fatal"}
RpcErr(port, fault) == Err(port, "Rpc", fault = "transient")

\* rpc_kind, account_kind and the arms of kind() for what a read can return.
Kind(e) == IF e.why = "Rpc" /\ e.transient THEN "Retryable" ELSE "Terminal"

-----------------------------------------------------------------------------
\* The operation q0 begins on the chain w.
Begin(q0, a0, w) ==
    /\ q = q0 /\ answer = a0
    /\ world = w /\ seen = [f \in DOMAIN w |-> {w[f]}]
    /\ met = <<>> /\ changes = 0

\* Another transaction, a block or a record's owner changes a fact.
Change(f, v) ==
    /\ ~Answered /\ changes < MaxChanges
    /\ v # world[f]
    /\ world' = [world EXCEPT ![f] = v]
    /\ seen' = [seen EXCEPT ![f] = @ \cup {v}]
    /\ changes' = changes + 1
    /\ UNCHANGED <<q, answer, met>>

\* The reply to an RPC takes the operation to q2, or it returns a.
Reply(q2, a) ==
    /\ q' = q2 /\ answer' = a
    /\ UNCHANGED <<world, seen, met, changes>>

\* The RPC fails and the operation goes on with q2, or returns a.
Fails(fault, q2, a) ==
    /\ Len(met) < MaxReadFaults
    /\ met' = Append(met, fault)
    /\ q' = q2 /\ answer' = a
    /\ UNCHANGED <<world, seen, changes>>
=============================================================================
