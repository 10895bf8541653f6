----------------------------- MODULE WalletLoop -----------------------------
(***************************************************************************)
(* What the two gasless backends share: the background loop of Wallet::run *)
(* with its Runner (facade.rs:292-350), and the chain both are included in *)
(* (its head and the user's nonce at the forwarder contract).              *)
(*                                                                         *)
(* A tick is a pass of the user's executor and, with self-relay, one of    *)
(* the relayer's; phase says where it is.  Each backend has its passes.    *)
(***************************************************************************)
EXTENDS Lifecycle, FiniteSets

CONSTANTS
    Required,   \* confirmations
    MaxHead,    \* bound on the blocks nobody waits for
    MaxOthers,  \* bound on the forwarder's nonce up to which others use it
    MaxFaults   \* bound: reorgs, crashes, failed reads, lost answers, failed writes

ASSUME WalletLoopAssumption ==
    Required \in Nat \ {0} /\ MaxHead \in Nat /\ MaxOthers \in Nat /\ MaxFaults \in Nat

VARIABLES
    head,     \* the latest block
    fwd,      \* the user's nonce at the forwarder
    faults,   \* faults so far
    phase,    \* where the loop is
    stopping, \* has stop been called?
    todo,     \* the pass's snapshot of pending handles, what is left of it
    cycle     \* what the confirm pass read first: latest block, mined nonce

loopVars == <<phase, stopping, todo, cycle>>

Phases   == {"user", "confirm", "sleeping", "exited"}

Nothing  == [x \in {} |-> 0]
NoCycle  == [latest |-> 0, mined |-> 0]

Without(f, x) == [y \in DOMAIN f \ {x} |-> f[y]]

LoopTypeOK ==
    /\ head \in Nat /\ fwd \in Nat /\ faults \in 0 .. MaxFaults
    /\ phase \in Phases /\ stopping \in BOOLEAN
    /\ cycle \in [latest : 0 .. head, mined : Nat]

LoopInit ==
    /\ head = 0 /\ fwd = 0 /\ faults = 0
    /\ phase = "user" /\ stopping = FALSE /\ todo = Nothing /\ cycle = NoCycle

Fault == faults < MaxFaults /\ faults' = faults + 1

\* A read of the chain is one look at the head (Depth: no finalized tag).
View(latest) == [latest |-> latest, finalized |-> 0, mode |-> "Depth"]

\* Blocks come for ever; they are of interest up to the bound, or while
\* something still waits for depth.
Shallow(block) == block # 0 /\ head - block + 1 < Required

\* A request the user has signed elsewhere is executed by the forwarder.
ForeignRequest ==
    /\ fwd < MaxOthers
    /\ fwd' = fwd + 1
    /\ UNCHANGED <<head, faults, loopVars>>

-----------------------------------------------------------------------------
(* run: tick, whatever comes of it, then sleep or stop *)

LeaveTick(to) == phase' = to /\ todo' = Nothing /\ cycle' = NoCycle

\* A store or chain access that a pass starts with fails.
PassFails ==
    /\ phase \in {"user", "confirm"} /\ DOMAIN todo = {}
    /\ Fault

\* An error ends the tick, the passes after it included, and not the loop.
TickError ==
    /\ PassFails
    /\ LeaveTick("sleeping")
    /\ UNCHANGED stopping

\* The two branches of select!.
Wake ==
    /\ phase = "sleeping"
    /\ phase' = "user"
    /\ UNCHANGED <<faults, stopping, todo, cycle>>

\* Mutant: after a tick that failed the loop only sleeps.
StopSeenUnlessErred ==
    /\ phase = "sleeping" /\ stopping /\ faults = 0
    /\ phase' = "exited"
    /\ UNCHANGED <<faults, stopping, todo, cycle>>

StopSeen ==
    /\ phase = "sleeping" /\ stopping
    /\ phase' = "exited"
    /\ UNCHANGED <<faults, stopping, todo, cycle>>

\* Runner::stop signals, then joins: it returns once the loop has exited.
Stop ==
    /\ ~stopping /\ phase # "exited"
    /\ stopping' = TRUE
    /\ UNCHANGED <<faults, phase, todo, cycle>>

\* Dropping the Runner, as giving up on stop also does, aborts the task where
\* it is suspended.
Abort ==
    /\ phase # "exited" /\ Fault
    /\ LeaveTick("exited")
    /\ UNCHANGED stopping

\* "Signal the loop to finish its current pass and exit, then join it"
\* (facade.rs:337): a call of stop comes back, whatever the tick under way
\* meets, even though a select! with both branches ready may sleep on.
StopReturns == stopping ~> (phase = "exited" \/ ~stopping)
=============================================================================
