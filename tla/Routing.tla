------------------------------ MODULE Routing ------------------------------
(***************************************************************************)
(* The route of a transaction: how SubmissionOpts (core/deps/submission.rs)*)
(* travel with a handle through send, recover, bump, cancel and refill, and*)
(* through which channel Router, PublicMempool and PrivateMev              *)
(* (adapters/submission/) hand the bytes over.  The host runs one operation*)
(* at a time; it may die between a broadcast and the write that follows it,*)
(* and come back with or without a relay identity.                         *)
(*                                                                         *)
(* Left to the other modules: nonces, fees (a bump is one more entry of    *)
(* broadcasts), depth.  Settle is what confirm may conclude of a handle.   *)
(***************************************************************************)
EXTENDS Naturals

CONSTANTS
    Intents,       \* what the user sends, once each
    Asked,         \* the routes the user may ask for
    Refuses,       \* may a relay or a node refuse a transaction?
    MaxBroadcasts, \* the gas ceiling, as a number of broadcasts of a handle
    MaxFaults      \* bound: crashes, lost answers and failed writes

ASSUME RoutingAssumption == MaxBroadcasts \in Nat \ {0} /\ MaxFaults \in Nat

VARIABLES
    handles,  \* the store
    wire,     \* the hand-overs of a transaction to a channel
    latest,   \* the latest one
    op,       \* the operation under way, with its copy of the handle
    relay,    \* is a relay identity configured?
    asked,    \* the route the user asked for, by intent
    faults

vars == <<handles, wire, latest, op, relay, asked, faults>>

Public             == [via |-> "public", stay |-> FALSE, cycles |-> 0]
StayPrivate(via)   == [via |-> via, stay |-> TRUE, cycles |-> 0]
PublicAfter(via,n) == [via |-> via, stay |-> FALSE, cycles |-> n]

Routes    == Asked \cup {Public}
Roles     == {"send", "refill", "cancel"}
Ids       == [intent : Intents, role : Roles]
Statuses  == {"Pending", "Sent", "Failed", "Settled"}
Record    == [status : Statuses, route : Routes, broadcasts : 1 .. MaxBroadcasts,
              cancelled : BOOLEAN]
Wire      == [id : Ids, channel : {"public", "private"}, taken : BOOLEAN]
Idle      == [at |-> "idle"]

Fresh(r)  == [status |-> "Pending", route |-> r, broadcasts |-> 1, cancelled |-> FALSE]

TypeOK ==
    /\ DOMAIN handles \subseteq Ids
    /\ \A x \in DOMAIN handles : handles[x] \in Record
    /\ wire \subseteq Wire /\ (wire # {} => latest \in wire)
    /\ op # Idle => op.id \in Ids /\ op.rec \in Record
    /\ relay \in BOOLEAN
    /\ DOMAIN asked \subseteq Intents /\ \A i \in DOMAIN asked : asked[i] \in Routes
    /\ faults \in 0 .. MaxFaults

Init ==
    /\ handles = [x \in {} |-> Fresh(Public)]
    /\ wire = {} /\ latest = Idle
    /\ op = Idle
    /\ relay \in BOOLEAN
    /\ asked = [i \in {} |-> Public]
    /\ faults = 0

Fault == faults < MaxFaults /\ faults' = faults + 1

Put(id, rec) ==
    handles' = [x \in DOMAIN handles \cup {id} |-> IF x = id THEN rec ELSE handles[x]]

PutMayFail(id, rec) ==
    \/ Put(id, rec) /\ UNCHANGED faults
    \/ Fault /\ UNCHANGED handles

Goto(l, id, rec) == op' = [at |-> l, id |-> id, rec |-> rec]

-----------------------------------------------------------------------------
(* SubmissionError and its predicates *)

Rpc(transient, msg) == [kind |-> "Rpc", transient |-> transient, message |-> msg]
Relay(kind)         == [kind |-> kind, transient |-> FALSE, message |-> "other"]
Ok                  == Relay("Ok")

IsTransient(e)       == e.kind = "Rpc" /\ e.transient
IsAlreadyAccepted(e) == e.kind = "Rpc" /\ e.message = "known"
IsUnderpriced(e)     == e.kind = "Rpc" /\ e.message = "underpriced"

\* What a channel may answer: a hash, "already known" or "nonce too low",
\* "underpriced", a refusal, a 401/403, a 5xx/429, or nothing at all.
Answers == {"hash", "known", "underpriced", "refused", "unauthorized", "unavailable", "lost"}

\* PublicMempool and the Protect relays: eth_sendRawTransaction.
SendRaw(answer) ==
    CASE answer = "hash"                    -> Ok
      [] answer \in {"known", "underpriced"} -> Rpc(FALSE, answer)
      [] answer \in {"refused", "unauthorized"} -> Rpc(FALSE, "other")
      [] answer \in {"unavailable", "lost"} -> Rpc(TRUE, "other")

\* Mutant: what Flashbots refuses passes for a network error.
ClassifyFlashbotsLenient(answer) ==
    CASE answer = "hash"                     -> Ok
      [] answer \in {"known", "underpriced"}  -> Rpc(FALSE, answer)
      [] OTHER                               -> Rpc(TRUE, "other")

\* classify_flashbots and net_err.
ClassifyFlashbots(answer) ==
    CASE answer = "hash"                    -> Ok
      [] answer = "unauthorized"            -> Relay("RelayAuth")
      [] answer \in {"unavailable", "lost"} -> Rpc(TRUE, "other")
      [] answer \in {"known", "underpriced"} -> Rpc(FALSE, answer)
      [] answer = "refused"                 -> Relay("RelayRejected")

-----------------------------------------------------------------------------
(* Router *)

SupportsRoute(r) == r.via = "public" \/ relay

\* Mutant: without a relay, the public mempool.
ChannelFallsBack(r) == IF r.via = "public" \/ ~relay THEN "public" ELSE "private"

Channel(r) ==
    CASE r.via = "public" -> "public"
      [] r.via # "public" /\ relay -> "private"
      [] OTHER -> "none"

\* A channel that answers: it refuses, or it may have the transaction now.
Answered(id, rec, answer) ==
    LET w(taken) == [id |-> id, channel |-> Channel(rec.route), taken |-> taken]
    IN  /\ latest' = w(answer \notin {"underpriced", "refused", "unauthorized"})
        /\ wire' = wire \cup {latest'}
        /\ answer = "known" => \E x \in wire : x.id.intent = id.intent /\ x.taken
        /\ answer \in {"underpriced", "refused", "unauthorized"} => Refuses
        /\ IF answer \in {"unavailable", "lost"} THEN Fault ELSE UNCHANGED faults

\* submit: dispatch by route, classify the answer.
Submit(id, rec, result) ==
    IF Channel(rec.route) = "none"
    THEN result = Relay("Route") /\ UNCHANGED <<wire, latest, faults>>
    ELSE \E answer \in Answers :
            /\ Answered(id, rec, answer)
            /\ result = IF rec.route.via = "flashbots"
                        THEN ClassifyFlashbots(answer)
                        ELSE SendRaw(answer)

Results ==
    {Ok, Relay("RelayAuth"), Relay("RelayRejected"), Relay("Route"), Rpc(TRUE, "other")}
      \cup {Rpc(FALSE, m) : m \in {"known", "underpriced", "other"}}

-----------------------------------------------------------------------------
(* send_with; refill is send, whose options are the default ones *)

Send(i, r) ==
    /\ op = Idle /\ i \notin DOMAIN asked
    /\ SupportsRoute(r)
    /\ asked' = [j \in DOMAIN asked \cup {i} |-> IF j = i THEN r ELSE asked[j]]
    /\ LET id == [intent |-> i, role |-> "send"]
       IN  Put(id, Fresh(r)) /\ Goto("submit", id, Fresh(r))
    /\ UNCHANGED <<wire, latest, relay, faults>>

SendSubmit ==
    /\ op.at = "submit"
    /\ \E result \in Results :
          /\ Submit(op.id, op.rec, result)
          /\ Goto("status", op.id, [op.rec EXCEPT !.status =
                IF result = Ok \/ IsTransient(result) \/ IsAlreadyAccepted(result)
                THEN "Sent" ELSE "Failed"])
    /\ UNCHANGED <<handles, relay, asked>>

SendStatus ==
    /\ op.at = "status"
    /\ PutMayFail(op.id, op.rec)
    /\ op' = Idle
    /\ UNCHANGED <<wire, latest, relay, asked>>

-----------------------------------------------------------------------------
(* The executor *)

\* recover: the persisted bytes on the persisted route.
Recover(id) ==
    /\ id \in DOMAIN handles
    /\ op = Idle
    /\ handles[id].status \in {"Pending", "Sent"}
    /\ \E result \in Results : Submit(id, handles[id], result)
    /\ UNCHANGED <<handles, op, relay, asked>>

\* bump: one-way to the public mempool once enough broadcasts were recorded.
Escalated(rec) ==
    IF rec.route.via # "public" /\ ~rec.route.stay /\ rec.broadcasts >= rec.route.cycles
    THEN Public ELSE rec.route

\* The copy of the handle that a bump submits and then persists.
Bumped(rec) ==
    [status |-> rec.status, route |-> Escalated(rec),
     broadcasts |-> rec.broadcasts + 1, cancelled |-> rec.cancelled]

Bump(id) ==
    /\ id \in DOMAIN handles
    /\ op = Idle
    /\ handles[id].status = "Sent"
    /\ handles[id].broadcasts < MaxBroadcasts
    /\ \E result \in Results :
          /\ Submit(id, Bumped(handles[id]), result)
          /\ IF result = Ok \/ IsAlreadyAccepted(result)
             THEN Goto("bumped", id, Bumped(handles[id]))
             ELSE UNCHANGED op
    /\ UNCHANGED <<handles, relay, asked>>

\* Mutant: the escalated route is not written back.
BumpPutKeepsRoute ==
    /\ op.at = "bumped"
    /\ PutMayFail(op.id, [op.rec EXCEPT !.route = handles[op.id].route])
    /\ op' = Idle
    /\ UNCHANGED <<wire, latest, relay, asked>>

\* Mutant: the replacement's hash is not added to broadcasts.
BumpPutNoCount ==
    /\ op.at = "bumped"
    /\ PutMayFail(op.id, [op.rec EXCEPT !.broadcasts = handles[op.id].broadcasts])
    /\ op' = Idle
    /\ UNCHANGED <<wire, latest, relay, asked>>

BumpPut ==
    /\ op.at = "bumped"
    /\ PutMayFail(op.id, op.rec)
    /\ op' = Idle
    /\ UNCHANGED <<wire, latest, relay, asked>>

\* confirm settles a handle whose nonce is consumed.
Settle(id) ==
    /\ id \in DOMAIN handles
    /\ op = Idle
    /\ handles[id].status \in {"Pending", "Sent"}
    /\ Put(id, [handles[id] EXCEPT !.status = "Settled"])
    /\ UNCHANGED <<wire, latest, op, relay, asked, faults>>

\* With refill_on_replaced: it settles Replaced, and unless it was cancelled
\* its intent is sent again, with the default options.
Refill(id) ==
    /\ id \in DOMAIN handles
    /\ op = Idle
    /\ id.role = "send" /\ ~handles[id].cancelled
    /\ handles[id].status \in {"Pending", "Sent"}
    /\ Put(id, [handles[id] EXCEPT !.status = "Settled"])
    /\ Goto("refill", [id EXCEPT !.role = "refill"], Fresh(Public))
    /\ UNCHANGED <<wire, latest, relay, asked, faults>>

RefillPut ==
    /\ op.at = "refill"
    /\ Put(op.id, op.rec)
    /\ Goto("submit", op.id, op.rec)
    /\ UNCHANGED <<wire, latest, relay, asked, faults>>

-----------------------------------------------------------------------------
(* cancel: on the route of the transaction it replaces *)

Cancel(id) ==
    /\ id \in DOMAIN handles
    /\ op = Idle
    /\ id.role = "send"
    /\ handles[id].status \in {"Pending", "Sent"}
    /\ LET rec == [handles[id] EXCEPT !.cancelled = TRUE]
       IN  Put(id, rec) /\ Goto("cancel", id, rec)
    /\ UNCHANGED <<wire, latest, relay, asked, faults>>

\* Underpriced is retried once with better fees: the answer may differ then.
CancelSubmit ==
    /\ op.at = "cancel"
    /\ LET id == [op.id EXCEPT !.role = "cancel"]
       IN  \E result \in Results :
              /\ Submit(id, Fresh(op.rec.route), result)
              /\ IF result = Ok \/ IsAlreadyAccepted(result)
                 THEN Goto("status", id, [Fresh(op.rec.route) EXCEPT !.status = "Sent"])
                 ELSE \/ Goto("status", op.id, [op.rec EXCEPT !.cancelled = FALSE])
                      \/ IsUnderpriced(result) /\ UNCHANGED op
    /\ UNCHANGED <<handles, relay, asked>>

\* The process dies; its next configuration may have a relay or not.
Crash ==
    /\ Fault
    /\ op' = Idle
    /\ relay' \in BOOLEAN
    /\ UNCHANGED <<handles, wire, latest, asked>>

Next ==
    \/ \E i \in Intents, r \in Asked : Send(i, r)
    \/ SendSubmit \/ SendStatus
    \/ \E id \in Ids : Recover(id)
    \/ \E id \in Ids : Bump(id)
    \/ \E id \in Ids : Settle(id)
    \/ \E id \in Ids : Cancel(id)
    \/ BumpPut \/ CancelSubmit
    \/ Crash

Spec == Init /\ [][Next]_vars

\* The wallet built with refill_on_replaced.
RefillSpec == Init /\ [][Next \/ RefillPut \/ \E id \in Ids : Refill(id)]_vars

\* The host ticks for ever: what is under way goes on, and every tick goes
\* through all handles, so a handle that stays stuck gets its bump whatever
\* other operations run in between.  A relay that is asked again and again
\* takes a replacement in the end (bump retries a declined one every tick).
Fairness ==
    /\ WF_vars(SendSubmit \/ SendStatus \/ BumpPut \/ CancelSubmit)
    /\ \A id \in Ids : SF_vars(Bump(id) /\ op' # op)

FairSpec == Spec /\ Fairness

-----------------------------------------------------------------------------
(* Properties *)

\* "A private tx never silently leaks to the public mempool" (README.md:70-71,
\* submission.rs:154): what the user asked to stay private is never handed to
\* the public mempool, by a send, a rebroadcast, a bump or a cancel, in any
\* configuration the process is restarted with.
NeverLeaks ==
    \A w \in wire : w.channel = "public" =>
        asked[w.id.intent].via = "public" \/ ~asked[w.id.intent].stay

\* "Never falsely assume broadcast" (private_mev.rs:270-272): a handle that is
\* Sent was handed to a channel that did not refuse it.
NoPhantom ==
    \A id \in DOMAIN handles :
        handles[id].status = "Sent" => \E w \in wire : w.id = id /\ w.taken

\* "Escalation is one-way and persisted" (executor/mod.rs:417-418): once the
\* public mempool took a transaction, no broadcast of it is private again,
\* unless the write of the escalated route failed or the process died.
NeverRehidden ==
    faults = 0 /\ wire # {} /\ latest.channel = "private" /\ latest.id.role # "cancel" =>
        ~\E w \in wire : w.id = latest.id /\ w.channel = "public" /\ w.taken

\* "The executor escalates per Escalation" (submission.rs:245-247): a stuck
\* transaction that may go public does so, or settles, as long as a relay is
\* configured for its private bumps.
EscalatesEventually ==
    \A i \in Intents :
        LET id == [intent |-> i, role |-> "send"]
        IN  (id \in DOMAIN handles /\ handles[id].status = "Sent" /\ ~asked[i].stay) ~>
                \/ \E w \in wire : w.id.intent = i /\ w.channel = "public"
                \/ id \in DOMAIN handles /\ handles[id].status = "Settled"
                \/ ~relay
=============================================================================
