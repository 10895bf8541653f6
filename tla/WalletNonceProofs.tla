------------------------- MODULE WalletNonceProofs -------------------------
(***************************************************************************)
(* Whose a nonce is, in a wallet whose host runs one operation at a time   *)
(* and loses no write or broadcast (Calm), for any number of intents,      *)
(* foreign transactions, rejected broadcasts and failed reads: the nonce   *)
(* of a live transaction is not free (UInv, CalmNonceNeverFreed), and with *)
(* one cancel, only foreign transactions displace an intent's (FInv,       *)
(* ReplacedByForeign).  Without Calm TLC refutes both.                     *)
(*                                                                         *)
(* No two intents live at one nonce (UInv), and where a cancel is on the   *)
(* wire all that lives at its nonce is marked (FInv): what displaced an    *)
(* unmarked handle is nothing of this wallet's.                            *)
(***************************************************************************)
EXTENDS WalletRuntimeProofs

-----------------------------------------------------------------------------
(* Who has a nonce *)

\* Where a send has a nonce, and where it has no live handle at it.
Held == {"persist", "submit", "sent", "failed", "release"}
Bare == {"persist", "release"}

\* A handle that has not failed has its nonce for good.
UsedInv == \A x \in DOMAIN handles : Kind(x) # "Failed" => x.nonce \in used

\* The nonce that a send has is in use, and no other handle lives at it.
HeldInv ==
    \A p \in Senders : pc[p] \in Held =>
        /\ job[p].id.nonce \in used
        /\ \A x \in DOMAIN handles :
              x.nonce = job[p].id.nonce /\ (x # job[p].id \/ pc[p] \in Bare) => Kind(x) = "Failed"

\* No two intents have live or settled transactions at one nonce.
SoleInv ==
    \A x, y \in DOMAIN handles :
        /\ x.intent \in Intents /\ Kind(x) # "Failed"
        /\ y.intent \in Intents /\ Kind(y) # "Failed"
        /\ x.nonce = y.nonce
        => x = y

\* What the tick works on has not failed, and is not what a send works on.
DueInv ==
    /\ \A x \in DOMAIN todo : Kind(x) # "Failed" /\ todo[x].status.kind # "Failed"
    /\ \A p \in Senders : pc[p] \in Held => job[p].id \notin DOMAIN todo

\* Nor is what a cancel works on.
Aiming == {"poison", "cancel", "unpoison", "record"}
AimInv == \A c \in Cancellers : pc[c] \in Aiming => Kind(job[c].id) # "Failed"

UInv == ~fresh /\ UsedInv /\ HeldInv /\ SoleInv /\ DueInv /\ AimInv

\* No handle is added, and none that has failed comes back.
Settling ==
    \A x \in DOMAIN handles' :
        x \in DOMAIN handles /\ (handles'[x].status.kind # "Failed" => Kind(x) # "Failed")

\* The nonces in use, while handles only settle.
LEMMA UsedKeeps ==
    ASSUME UsedInv, SoleInv, used \subseteq used', Settling
    PROVE  UsedInv' /\ SoleInv'
<1>. USE Zenon
<1>1. UsedInv'
  BY DEF UsedInv, Settling, Kind
<1>2. ASSUME NEW x \in DOMAIN handles', NEW y \in DOMAIN handles',
             x.intent \in Intents, y.intent \in Intents, x.nonce = y.nonce,
             handles'[x].status.kind # "Failed", handles'[y].status.kind # "Failed"
      PROVE  x = y
  BY <1>2 DEF SoleInv, Settling
<1>. QED BY <1>1, <1>2 DEF SoleInv, Kind

\* A call moves to l while handles only settle.
LEMMA UCalls ==
    ASSUME LInv, UInv, NEW p \in Tasks, NEW l, Alone(p), Goto(p, l) \/ (UNCHANGED pc /\ l = pc[p]),
           UNCHANGED <<used, fresh, tickVars>>, Settling,
           \A x \in DOMAIN todo : handles'[x].status.kind # "Failed",
           p \in Senders /\ l \in Held =>
              /\ pc[p] \in Held /\ job'[p].id = job[p].id
              /\ l \in Bare => pc[p] \in Bare \/ handles'[job[p].id].status.kind = "Failed",
           p \in Cancellers /\ l \in Aiming => handles'[job'[p].id].status.kind # "Failed"
    PROVE  UInv'
<1>. USE Zenon
<1>. USE DEF UInv
<1>1. pc'[p] = l /\ \A q \in Tasks : q # p => pc'[q] \in Idle
  BY DEF Goto, LInv, JobInv, Alone
<1>2. \A q \in Tasks : pc'[q] \in Held \cup Aiming => q = p
  <2>1. \A k \in Idle : k \notin Held \cup Aiming
    BY DEF Idle, Held, Aiming
  <2>. QED BY <1>1, <2>1
<1>3. Senders \subseteq Tasks /\ Cancellers \subseteq Tasks
  BY DEF Tasks
<1>4. used' = used /\ fresh' = fresh /\ todo' = todo
  BY DEF tickVars
<1>5. UsedInv' /\ SoleInv'
  BY <1>4, UsedKeeps
<1>6. HeldInv'
  <2>. SUFFICES ASSUME NEW q \in Senders, pc'[q] \in Held
                PROVE  /\ job'[q].id.nonce \in used'
                       /\ \A x \in DOMAIN handles' :
                             x.nonce = job'[q].id.nonce /\ (x # job'[q].id \/ pc'[q] \in Bare) =>
                                handles'[x].status.kind = "Failed"
    BY DEF HeldInv, Kind
  <2>1. q = p /\ l \in Held /\ p \in Senders
    BY <1>1, <1>2, <1>3
  <2>2. /\ pc[p] \in Held /\ job'[p].id = job[p].id
        /\ l \in Bare => pc[p] \in Bare \/ handles'[job[p].id].status.kind = "Failed"
    BY <2>1
  <2>3. ASSUME NEW x \in DOMAIN handles', x.nonce = job[p].id.nonce, x # job[p].id \/ l \in Bare,
               handles'[x].status.kind # "Failed"
        PROVE  FALSE
    <3>1. x \in DOMAIN handles /\ Kind(x) # "Failed"
      BY <2>3 DEF Settling
    <3>2. x = job[p].id /\ pc[p] \notin Bare
      BY <2>1, <2>2, <2>3, <3>1 DEF HeldInv
    <3>. QED BY <2>2, <2>3, <3>2
  <2>. QED BY <1>1, <1>4, <2>1, <2>2, <2>3 DEF HeldInv
<1>7. DueInv'
  BY <1>1, <1>2, <1>3, <1>4 DEF DueInv, Kind
<1>8. AimInv'
  BY <1>1, <1>2, <1>3 DEF AimInv, Kind
<1>9. ~fresh'
  BY SMT, <1>4
<1>. QED BY <1>5, <1>6, <1>7, <1>8, <1>9

\* The tick goes on while no call is under way.
LEMMA UTicks ==
    ASSUME UInv, \A p \in Tasks : pc'[p] \in Idle, ~fresh', used \subseteq used', Settling,
           \A x \in DOMAIN todo' : handles'[x].status.kind # "Failed" /\ todo'[x].status.kind # "Failed"
    PROVE  UInv'
<1>. USE Zenon
<1>. USE DEF UInv
<1>1. \A p \in Tasks : pc'[p] \notin Held /\ pc'[p] \notin Aiming
  <2>1. \A k \in Idle : k \notin Held /\ k \notin Aiming
    BY DEF Idle, Held, Aiming
  <2>. QED BY <2>1
<1>2. Senders \subseteq Tasks /\ Cancellers \subseteq Tasks
  BY DEF Tasks
<1>3. UsedInv' /\ SoleInv'
  BY UsedKeeps
<1>4. HeldInv' /\ AimInv' /\ DueInv'
  BY <1>1, <1>2 DEF HeldInv, AimInv, DueInv, Kind
<1>. QED BY <1>3, <1>4

\* Nothing is written.
LEMMA SettledSame ==
    ASSUME UNCHANGED handles
    PROVE  Settling
BY Zenon DEF Settling, Kind

\* One handle is written.
LEMMA SettledPut ==
    ASSUME NEW id \in DOMAIN handles, NEW rec, Put(id, rec),
           rec.status.kind # "Failed" => Kind(id) # "Failed"
    PROVE  Settling
<1>1. /\ DOMAIN handles' = DOMAIN handles \cup {id}
      /\ handles'[id] = rec
      /\ \A x \in DOMAIN handles : x # id => handles'[x] = handles[x]
  BY Zenon, PutReads
<1>. QED BY Zenon, <1>1 DEF Settling, Kind

-----------------------------------------------------------------------------
(* Who has a nonce: the steps *)

\* What the tick works on, while another handle is written.
LEMMA DueElsewhere ==
    ASSUME LInv, UInv, NEW id, NEW rec, Put(id, rec), id \notin DOMAIN todo
    PROVE  \A x \in DOMAIN todo : handles'[x].status.kind # "Failed"
<1>. USE Zenon
<1>1. ASSUME NEW x \in DOMAIN todo PROVE handles'[x].status.kind # "Failed"
  <2>1. x \in DOMAIN handles /\ x # id
    BY DEF LInv, TodoInv
  <2>. QED BY <2>1, PutReads DEF UInv, DueInv, Kind
<1>. QED BY <1>1

\* Under a one-confirmation view a handle that has not failed does not fail: the
\* chain runs what it mines.
LEMMA NextNotFailed ==
    ASSUME NEW id, NEW rec, rec.status.kind # "Failed"
    PROVE  NextStatus(id, rec).kind # "Failed"
<1>. DEFINE e == EventFor(id, rec)
            next == Transition(rec.status, e, OneConfirmation, 1)
<1>1. e.kind = "Mined" => e.executed = TRUE
  <2>. USE Zenon
  <2>1. /\ Event("Mined", 0, 0, TRUE).executed = TRUE
        /\ Event("Replaced", 0, 0, FALSE).kind # "Mined"
        /\ Event("Pending", 0, 0, FALSE).kind # "Mined"
    BY SMT DEF Event
  <2>2. e = Event("Mined", 0, 0, TRUE) \/ e = Event("Replaced", 0, 0, FALSE)
        \/ e = Event("Pending", 0, 0, FALSE)
    BY DEF EventFor
  <2>. HIDE DEF e
  <2>. QED BY <2>1, <2>2
<1>. HIDE DEF e
<1>2. \A k : k \in Kinds => Plain(k).kind = k
  BY DEF Plain, Status
<1>3. \A b, h : Status("Confirmed", b, h).kind = "Confirmed" /\ Status("Mined", b, h).kind = "Mined"
         /\ Status("Replacing", b, h).kind = "Replacing"
  BY DEF Status
<1>4. Plain("Sent").kind # "Failed" /\ Plain("Replaced").kind # "Failed" /\ Plain("Dropped").kind # "Failed"
  BY DEF Plain, Status
<1>5. OnPending(rec.status).kind # "Failed" /\ OnReplaced(rec.status, OneConfirmation, 1).kind # "Failed"
  BY Zenon, <1>3, <1>4 DEF OnPending, OnReplaced
<1>6. e.kind = "Mined" => OnMined(e, OneConfirmation, 1).kind # "Failed"
  BY Zenon, <1>1, <1>3 DEF OnMined
<1>7. next.kind # "Failed"
  BY Zenon, <1>5, <1>6 DEF Transition
<1>8. NextStatus(id, rec) = next \/ NextStatus(id, rec) = Plain("Dropped")
  BY Zenon DEF NextStatus, e
<1>. QED BY Zenon, <1>4, <1>7, <1>8

LEMMA UInvInit == Init => UInv
<1>. USE Zenon
<1>. SUFFICES ASSUME Init PROVE UInv
  OBVIOUS
<1>1. DOMAIN handles = {} /\ DOMAIN todo = {}
  BY DEF Init, Empty
<1>2. \A p \in Tasks : pc[p] \notin Held /\ pc[p] \notin Aiming
  BY DEF Init, Held, Aiming
<1>3. Senders \subseteq Tasks /\ Cancellers \subseteq Tasks
  BY DEF Tasks
<1>4. ~fresh
  BY SMT DEF Init
<1>. QED BY <1>1, <1>2, <1>3, <1>4 DEF UInv, UsedInv, HeldInv, SoleInv, DueInv, AimInv

LEMMA UInvStep ==
    ASSUME Calm
    PROVE  LInv /\ OInv /\ UInv /\ [Next]_vars => UInv'
<1>. USE Zenon
<1>. SUFFICES ASSUME LInv, OInv, UInv PROVE [Next]_vars => UInv'
  OBVIOUS
\* send: the checks before a nonce is taken.
<1>USendStarts. ASSUME NEW p \in Senders, SendPreflight(p)
                PROVE  UInv'
  <2>. USE <1>USendStarts
  <2>0. p \in Tasks
    BY DEF Tasks
  <2>1. Alone(p) /\ UNCHANGED <<handles, used, fresh, tickVars>>
    BY SendAlone DEF SendPreflight, walletVars, OInv
  <2>2. PICK l \in {"allocate", "done"} : Goto(p, l)
    BY DEF SendPreflight, Return
  <2>3. l \notin Held /\ l \notin Aiming
    BY DEF Held, Aiming
  <2>4. \A x \in DOMAIN todo : handles'[x].status.kind # "Failed"
    BY <2>1 DEF UInv, DueInv, Kind
  <2>. QED BY <2>0, <2>1, <2>2, <2>3, <2>4, SettledSame, UCalls
\* send: the nonce it gets is nobody's.
<1>USendAllocates. ASSUME NEW p \in Senders, SendAllocate(p)
                   PROVE  UInv'
  <2>. USE <1>USendAllocates
  <2>. USE DEF UInv
  <2>0. p \in Tasks /\ p \notin Cancellers /\ Senders \subseteq Tasks /\ Cancellers \subseteq Tasks
    BY WalletRuntimeAssumption DEF Tasks
  <2>1. Alone(p) /\ UNCHANGED <<handles, tickVars>>
    BY <2>0, BusyAlone DEF SendAllocate, Idle, OInv
  <2>2. CASE Return(p) /\ UNCHANGED <<used, fresh>>
    <3>1. "done" \notin Held /\ "done" \notin Aiming
      BY DEF Held, Aiming
    <3>2. \A x \in DOMAIN todo : handles'[x].status.kind # "Failed"
      BY <2>1 DEF DueInv, Kind
    <3>. QED BY <2>0, <2>1, <2>2, <3>1, <3>2, SettledSame, UCalls DEF Return
  <2>3. CASE \E n \in 0 .. MaxNonce :
                /\ AAllocate(n)
                /\ job' = [job EXCEPT ![p] = Job(Id(Intent(p), n), Fresh, 0, FALSE)]
                /\ Goto(p, "persist")
    <3>1. PICK n \in 0 .. MaxNonce :
                /\ AAllocate(n)
                /\ job' = [job EXCEPT ![p] = Job(Id(Intent(p), n), Fresh, 0, FALSE)]
                /\ Goto(p, "persist")
      BY <2>3
    <3>2. n \notin used /\ used' = used \cup {n} /\ ~fresh'
      BY <3>1 DEF AAllocate
    <3>3. /\ pc'[p] = "persist" /\ job'[p] = Job(Id(Intent(p), n), Fresh, 0, FALSE)
          /\ \A q \in Tasks : q # p => pc'[q] \in Idle
      BY <2>0, <2>1, <3>1 DEF Goto, LInv, JobInv, Alone
    <3>4. job'[p].id.nonce = n
      BY SMT, <3>3 DEF Job, Id
    <3>5. \A q \in Tasks : pc'[q] \in Held \cup Aiming => q = p
      <4>1. \A k \in Idle : k \notin Held \cup Aiming
        BY DEF Idle, Held, Aiming
      <4>. QED BY <3>3, <4>1
    <3>6. \A x \in DOMAIN handles : x.nonce = n => Kind(x) = "Failed"
      BY <3>2 DEF UsedInv
    <3>7. UsedInv' /\ SoleInv'
      BY <2>1, <3>2, SettledSame, UsedKeeps
    <3>8. HeldInv'
      BY <2>0, <2>1, <3>2, <3>4, <3>5, <3>6 DEF HeldInv, Kind
    <3>9. job'[p].id \notin DOMAIN todo
      <4>. SUFFICES ASSUME job'[p].id \in DOMAIN todo PROVE FALSE
        OBVIOUS
      <4>1. job'[p].id \in DOMAIN handles
        BY DEF LInv, TodoInv
      <4>. QED BY <3>4, <3>6, <4>1 DEF DueInv
    <3>10. DueInv'
      BY <2>0, <2>1, <3>5, <3>9 DEF DueInv, Kind, tickVars
    <3>11. AimInv'
      BY <2>0, <3>5 DEF AimInv
    <3>. QED BY <3>2, <3>7, <3>8, <3>10, <3>11
  <2>. QED BY <2>2, <2>3 DEF SendAllocate, Fresh
\* send: the handle is filed where no other lives.
<1>USendPersists. ASSUME NEW p \in Senders, SendPersist(p)
                  PROVE  UInv'
  <2>. USE <1>USendPersists
  <2>. USE DEF UInv
  <2>0. p \in Tasks /\ p \notin Cancellers /\ Senders \subseteq Tasks /\ Cancellers \subseteq Tasks
    BY WalletRuntimeAssumption DEF Tasks
  <2>1. pc[p] = "persist" /\ Alone(p) /\ UNCHANGED <<used, fresh, tickVars, job>>
    BY <2>0, BusyAlone DEF SendPersist, Idle, OInv
  <2>2. pc[p] \in Held /\ pc[p] \in Bare
    BY <2>1 DEF Held, Bare
  <2>3. CASE Goto(p, "release") /\ UNCHANGED handles
    <3>1. \A x \in DOMAIN todo : handles'[x].status.kind # "Failed"
      BY <2>3 DEF DueInv, Kind
    <3>. QED BY <2>0, <2>1, <2>2, <2>3, <3>1, SettledSame, UCalls
  <2>4. CASE Put(job[p].id, job[p].rec) /\ Goto(p, "submit")
    <3>1. PICK id : id = job[p].id /\ id = job'[p].id
      BY <2>1
    <3>2. /\ DOMAIN handles' = DOMAIN handles \cup {id}
          /\ \A x \in DOMAIN handles : x # id => handles'[x] = handles[x]
      BY <2>4, <3>1, PutReads
    <3>3. /\ id.nonce \in used /\ id \notin DOMAIN todo
          /\ \A x \in DOMAIN handles : x.nonce = id.nonce => Kind(x) = "Failed"
      BY <2>2, <3>1 DEF HeldInv, DueInv
    <3>4. ASSUME NEW x \in DOMAIN handles', x # id
          PROVE  x \in DOMAIN handles /\ handles'[x].status.kind = Kind(x)
      BY <3>2, <3>4 DEF Kind
    <3>5. /\ pc'[p] = "submit" /\ pc'[p] \notin Bare
          /\ \A q \in Tasks : q # p => pc'[q] \in Idle
      BY <2>0, <2>1, <2>4 DEF Goto, LInv, JobInv, Alone, Bare
    <3>6. \A q \in Tasks : pc'[q] \in Held \cup Aiming => q = p
      <4>1. \A k \in Idle : k \notin Held \cup Aiming
        BY DEF Idle, Held, Aiming
      <4>. QED BY <3>5, <4>1
    <3>7. UsedInv'
      BY <2>1, <3>3, <3>4 DEF UsedInv, Kind
    <3>8. SoleInv'
      <4>1. ASSUME NEW x \in DOMAIN handles', NEW y \in DOMAIN handles',
                   x.intent \in Intents, y.intent \in Intents, x.nonce = y.nonce,
                   handles'[x].status.kind # "Failed", handles'[y].status.kind # "Failed"
            PROVE  x = y
        BY <3>3, <3>4, <4>1 DEF SoleInv
      <4>. QED BY <4>1 DEF SoleInv, Kind
    <3>9. HeldInv'
      <4>1. ASSUME NEW x \in DOMAIN handles', x.nonce = id.nonce, x # id
            PROVE  handles'[x].status.kind = "Failed"
        BY <3>3, <3>4, <4>1
      <4>2. ASSUME NEW r \in Senders, pc'[r] \in Held
            PROVE  r = p /\ job'[r].id = id
        BY <2>0, <3>1, <3>6, <4>2
      <4>3. id.nonce \in used'
        BY <2>1, <3>3
      <4>. QED BY <3>5, <4>1, <4>2, <4>3 DEF HeldInv, Kind
    <3>10. DueInv'
      <4>1. todo' = todo
        BY <2>1 DEF tickVars
      <4>2. ASSUME NEW x \in DOMAIN todo
            PROVE  handles'[x].status.kind # "Failed" /\ todo[x].status.kind # "Failed"
        <5>1. x \in DOMAIN handles /\ x # id
          BY <3>3 DEF LInv, TodoInv
        <5>. QED BY <3>2, <5>1 DEF DueInv, Kind
      <4>. QED BY <2>0, <3>1, <3>3, <3>6, <4>1, <4>2 DEF DueInv, Kind
    <3>11. AimInv'
      BY <2>0, <3>6 DEF AimInv
    <3>12. ~fresh'
      BY SMT, <2>1
    <3>. QED BY <3>7, <3>8, <3>9, <3>10, <3>11, <3>12
  <2>. QED BY <2>3, <2>4 DEF SendPersist
\* send: the broadcast.
<1>USendSubmits. ASSUME NEW p \in Senders, SendSubmit(p)
                 PROVE  UInv'
  <2>. USE <1>USendSubmits
  <2>0. p \in Tasks /\ p \notin Cancellers
    BY WalletRuntimeAssumption DEF Tasks
  <2>1. /\ pc[p] \in Held /\ Alone(p)
        /\ UNCHANGED <<handles, used, fresh, tickVars, job>>
    BY <2>0, BusyAlone DEF SendSubmit, Idle, Held, walletVars, OInv
  <2>2. PICK l \in {"sent", "failed"} : Goto(p, l)
    BY DEF SendSubmit, SubmitOutcome
  <2>3. l \notin Bare
    BY DEF Bare
  <2>4. \A x \in DOMAIN todo : handles'[x].status.kind # "Failed"
    BY <2>1 DEF UInv, DueInv, Kind
  <2>. QED BY <2>0, <2>1, <2>2, <2>3, <2>4, SettledSame, UCalls
\* send: the outcome is written.
<1>USendMarks. ASSUME NEW p \in Senders, SendMarkSent(p) \/ SendMarkFailed(p)
               PROVE  UInv'
  <2>. USE <1>USendMarks
  <2>0. p \in Tasks /\ p \notin Cancellers
    BY WalletRuntimeAssumption DEF Tasks
  <2>1. /\ pc[p] \in {"sent", "failed"} /\ pc[p] \in Held /\ pc[p] \in Filed /\ Alone(p)
        /\ UNCHANGED <<used, fresh, tickVars>>
    BY <2>0, BusyAlone DEF SendMarkSent, SendMarkFailed, Idle, Held, Filed, Carrying, OInv
  <2>2. PICK id : id = job[p].id
    OBVIOUS
  <2>3. id \in DOMAIN handles /\ id \notin DOMAIN todo /\ Kind(id) # "Failed"
    <3>1. handles[id] = Fresh
      <4>1. handles[job[p].id] = job[p].rec
        BY <2>0, <2>1 DEF OInv, CallInv
      <4>2. pc[p] \in {"persist", "submit", "sent", "failed"}
        BY <2>1
      <4>3. job[p].rec = Fresh
        BY <4>2 DEF OInv, CallInv, Fresh
      <4>. QED BY <2>2, <4>1, <4>3
    <3>2. Fresh.status.kind = "Pending"
      BY SMT DEF Fresh, Rec, Plain, Status
    <3>. QED BY <2>0, <2>1, <2>2, <3>1, <3>2 DEF LInv, JobInv, UInv, DueInv, Kind
  <2>4. CASE SendMarkSent(p)
    <3>1. PICK rec : rec = WithStatus(job[p].rec, Plain("Sent"))
      OBVIOUS
    <3>2. Put(id, rec) /\ Goto(p, "done")
      BY <2>2, <2>4, <3>1, PutLands DEF SendMarkSent, Return
    <3>3. Settling /\ \A x \in DOMAIN todo : handles'[x].status.kind # "Failed"
      BY <2>3, <3>2, SettledPut, DueElsewhere
    <3>4. "done" \notin Held
      BY DEF Held
    <3>. QED BY <2>0, <2>1, <3>2, <3>3, <3>4, UCalls
  <2>5. CASE SendMarkFailed(p)
    <3>1. PICK rec : rec = WithStatus(job[p].rec, Plain("Failed"))
      OBVIOUS
    <3>2. Put(id, rec) /\ Goto(p, "release") /\ job' = job
      BY <2>2, <2>5, <3>1, PutLands DEF SendMarkFailed
    <3>3. Settling /\ \A x \in DOMAIN todo : handles'[x].status.kind # "Failed"
      BY <2>3, <3>2, SettledPut, DueElsewhere
    <3>4. handles'[id].status.kind = "Failed"
      <4>1. rec.status.kind = "Failed"
        BY SMT, <3>1 DEF WithStatus, Rec, Plain, Status
      <4>. QED BY <3>2, <4>1, PutReads
    <3>. QED BY <2>0, <2>1, <2>2, <3>2, <3>3, <3>4, UCalls
  <2>. QED BY <2>4, <2>5
\* send: the nonce that goes back is one where nothing lives.
<1>USendReleases. ASSUME NEW p \in Senders, SendRelease(p)
                  PROVE  UInv'
  <2>. USE <1>USendReleases
  <2>. USE DEF UInv
  <2>0. p \in Tasks /\ Senders \subseteq Tasks /\ Cancellers \subseteq Tasks
    BY DEF Tasks
  <2>1. /\ pc[p] \in Held /\ pc[p] \in Bare /\ Alone(p) /\ Goto(p, "done")
        /\ UNCHANGED <<handles, tickVars>>
    BY <2>0, BusyAlone DEF SendRelease, Return, Idle, Held, Bare, OInv
  <2>2. \A x \in DOMAIN handles : x.nonce = job[p].id.nonce => Kind(x) = "Failed"
    BY <2>1 DEF HeldInv
  <2>3. used' = used \ {job[p].id.nonce} \/ used' = used
    BY DEF SendRelease, ARelease
  <2>4. fresh' = fresh
    BY DEF SendRelease, ARelease
  <2>5. \A q \in Tasks : pc'[q] \notin Held /\ pc'[q] \notin Aiming
    <3>1. \A k \in Idle : k \notin Held /\ k \notin Aiming
      BY DEF Idle, Held, Aiming
    <3>2. \A q \in Tasks : pc'[q] \in Idle
      BY <2>0, <2>1 DEF Goto, LInv, JobInv, Alone, Idle
    <3>. QED BY <3>1, <3>2
  <2>6. UsedInv'
    BY <2>1, <2>2, <2>3 DEF UsedInv, Kind
  <2>7. SoleInv'
    BY <2>1 DEF SoleInv, Kind
  <2>8. HeldInv' /\ AimInv'
    BY <2>0, <2>5 DEF HeldInv, AimInv
  <2>9. DueInv'
    BY <2>0, <2>1, <2>5 DEF DueInv, Kind, tickVars
  <2>10. ~fresh'
    BY SMT, <2>4
  <2>. QED BY <2>6, <2>7, <2>8, <2>9, <2>10
\* cancel: it takes up a handle that has not settled.
<1>UCancelLoads. ASSUME NEW c \in Cancellers, CancelLoad(c)
                 PROVE  UInv'
  <2>. USE <1>UCancelLoads
  <2>0. c \in Tasks /\ c \notin Senders /\ c # Refiller
    BY Cancelling
  <2>1. Alone(c) /\ UNCHANGED <<handles, used, fresh, tickVars>>
    BY <2>0, StartsAlone DEF CancelLoad, walletVars, OInv
  <2>2. \A x \in DOMAIN todo : handles'[x].status.kind # "Failed"
    BY <2>1 DEF UInv, DueInv, Kind
  <2>3. CASE Return(c)
    <3>1. Goto(c, "done") /\ "done" \notin Aiming
      BY <2>3 DEF Return, Aiming
    <3>. QED BY <2>0, <2>1, <2>2, <3>1, SettledSame, UCalls
  <2>4. CASE ~Return(c)
    <3>1. PICK id \in DOMAIN handles :
             /\ ~IsTerminal(handles[id].status)
             /\ job' = [job EXCEPT ![c] = Job(id, handles[id], handles[id].signed, FALSE)]
             /\ Goto(c, "poison")
      BY <2>4 DEF CancelLoad
    <3>2. job'[c].id = id
      <4>1. job'[c] = Job(id, handles[id], handles[id].signed, FALSE)
        BY <2>0, <3>1 DEF LInv, JobInv
      <4>. QED BY SMT, <4>1 DEF Job
    <3>3. Kind(id) # "Failed"
      BY <3>1 DEF IsTerminal, Kind
    <3>4. handles'[job'[c].id].status.kind # "Failed"
      BY <2>1, <3>2, <3>3 DEF Kind
    <3>. QED BY <2>0, <2>1, <2>2, <3>1, <3>4, SettledSame, UCalls
  <2>. QED BY <2>3, <2>4
\* cancel: the mark, and its withdrawal, leave the status alone.
<1>UCancelMarks. ASSUME NEW c \in Cancellers, CancelPoison(c) \/ CancelUnpoison(c)
                 PROVE  UInv'
  <2>. USE <1>UCancelMarks
  <2>0. c \in Tasks /\ c \notin Senders
    BY Cancelling
  <2>1. pc[c] \in {"poison", "unpoison"} /\ UNCHANGED <<used, fresh, tickVars>>
    BY DEF CancelPoison, CancelUnpoison
  <2>2. pc[c] \in {"poison", "cancel", "unpoison", "record"} /\ pc[c] \in Aiming
    BY <2>1 DEF Aiming
  <2>3. PICK id : id = job[c].id
    OBVIOUS
  <2>4. Alone(c) /\ DOMAIN todo = {} /\ id \in DOMAIN handles /\ handles[id] = job[c].rec
    BY <2>2, <2>3, CancelRuns
  <2>5. Kind(id) # "Failed"
    BY <2>2, <2>3 DEF UInv, AimInv
  <2>6. ASSUME NEW b, NEW rec, rec = Cancelled(job[c].rec, b), Put(id, rec)
        PROVE  Settling /\ handles'[id].status.kind # "Failed"
    <3>1. rec.status = job[c].rec.status
      BY SMT, <2>6 DEF Cancelled, Rec
    <3>2. rec.status.kind # "Failed"
      BY <2>4, <2>5, <3>1 DEF Kind
    <3>. QED BY <2>4, <2>5, <2>6, <3>2, SettledPut, PutReads
  <2>7. CASE CancelPoison(c)
    <3>1. PICK rec : rec = Cancelled(job[c].rec, TRUE)
      OBVIOUS
    <3>2. /\ Put(id, rec) /\ Goto(c, "cancel")
          /\ job' = [job EXCEPT ![c] = Job(job[c].id, rec, job[c].basis, FALSE)]
      <4>1. ~Fault("store")
        BY DEF Calm, Fault
      <4>. QED BY <2>3, <2>7, <3>1, <4>1 DEF CancelPoison
    <3>3. job'[c].id = id
      <4>1. job'[c] = Job(job[c].id, rec, job[c].basis, FALSE)
        BY <2>0, <3>2 DEF LInv, JobInv
      <4>. QED BY SMT, <2>3, <4>1 DEF Job
    <3>4. Settling /\ handles'[job'[c].id].status.kind # "Failed"
      BY <2>6, <3>1, <3>2, <3>3
    <3>. QED BY <2>0, <2>1, <2>4, <3>2, <3>4, UCalls
  <2>8. CASE CancelUnpoison(c)
    <3>1. PICK rec : rec = Cancelled(job[c].rec, FALSE)
      OBVIOUS
    <3>2. Put(id, rec) /\ Goto(c, "done") /\ "done" \notin Aiming
      BY <2>3, <2>8, <3>1, PutLands DEF CancelUnpoison, Return, Aiming
    <3>3. Settling
      BY <2>6, <3>1, <3>2
    <3>. QED BY <2>0, <2>1, <2>4, <3>2, <3>3, UCalls
  <2>. QED BY <2>7, <2>8
\* cancel: the self-send.
<1>UCancelSubmits. ASSUME NEW c \in Cancellers, CancelSubmit(c)
                   PROVE  UInv'
  <2>. USE <1>UCancelSubmits
  <2>0. c \in Tasks /\ c \notin Senders
    BY Cancelling
  <2>1. pc[c] = "cancel" /\ UNCHANGED <<handles, used, fresh, tickVars>>
    BY DEF CancelSubmit, walletVars
  <2>2. pc[c] \in {"poison", "cancel", "unpoison", "record"} /\ pc[c] \in Aiming
    BY <2>1 DEF Aiming
  <2>3. Alone(c) /\ DOMAIN todo = {}
    BY <2>2, CancelRuns
  <2>4. Kind(job[c].id) # "Failed"
    BY <2>2 DEF UInv, AimInv
  <2>5. /\ \/ UNCHANGED pc
           \/ Goto(c, "unpoison") \/ Goto(c, "record")
        /\ \/ UNCHANGED job
           \/ job' = [job EXCEPT ![c] = Job(job[c].id, job[c].rec, handles[job[c].id].signed, TRUE)]
    BY DEF CancelSubmit
  <2>6. job'[c].id = job[c].id
    <3>1. CASE UNCHANGED job
      BY <3>1
    <3>2. CASE job' = [job EXCEPT ![c] = Job(job[c].id, job[c].rec, handles[job[c].id].signed, TRUE)]
      <4>1. job'[c] = Job(job[c].id, job[c].rec, handles[job[c].id].signed, TRUE)
        BY <2>0, <3>2 DEF LInv, JobInv
      <4>. QED BY SMT, <4>1 DEF Job
    <3>. QED BY <2>5, <3>1, <3>2
  <2>7. handles'[job'[c].id].status.kind # "Failed"
    BY <2>1, <2>4, <2>6 DEF Kind
  <2>8. PICK l : Goto(c, l) \/ (UNCHANGED pc /\ l = pc[c])
    BY <2>5
  <2>. QED BY <2>0, <2>1, <2>3, <2>7, <2>8, SettledSame, UCalls
\* cancel: the handle of the self-send has the nonce of its target.
<1>UCancelRecords. ASSUME NEW c \in Cancellers, CancelRecord(c)
                   PROVE  UInv'
  <2>. USE <1>UCancelRecords
  <2>. USE DEF UInv
  <2>0. /\ c \in Tasks /\ c \notin Senders /\ Cancel \notin Intents
        /\ Senders \subseteq Tasks /\ Cancellers \subseteq Tasks
    BY Cancelling DEF Tasks
  <2>1. pc[c] = "record" /\ UNCHANGED <<used, fresh, tickVars>> /\ Goto(c, "done")
    BY DEF CancelRecord, Return
  <2>2. pc[c] \in {"poison", "cancel", "unpoison", "record"} /\ pc[c] \in Aiming
    BY <2>1 DEF Aiming
  <2>3. Alone(c) /\ DOMAIN todo = {} /\ job[c].id \in DOMAIN handles
    BY <2>2, CancelRuns
  <2>4. job[c].id.nonce \in used
    BY <2>2, <2>3 DEF AimInv, UsedInv
  <2>5. PICK id : id = Id(Cancel, job[c].id.nonce)
    OBVIOUS
  <2>6. PICK rec : Put(id, rec)
    BY <2>5, PutLands DEF CancelRecord
  <2>7. ASSUME NEW x \in DOMAIN handles', x # id
        PROVE  x \in DOMAIN handles /\ handles'[x] = handles[x]
    <3>1. /\ DOMAIN handles' = DOMAIN handles \cup {id}
          /\ \A y \in DOMAIN handles : y # id => handles'[y] = handles[y]
      BY <2>6, PutReads
    <3>. QED BY <2>7, <3>1
  <2>8. id.nonce \in used /\ id.intent \notin Intents
    BY <2>0, <2>4, <2>5 DEF Id
  <2>9. \A q \in Tasks : pc'[q] \notin Held /\ pc'[q] \notin Aiming
    <3>1. \A k \in Idle : k \notin Held /\ k \notin Aiming
      BY DEF Idle, Held, Aiming
    <3>2. \A q \in Tasks : pc'[q] \in Idle
      BY <2>0, <2>1, <2>3 DEF Goto, LInv, JobInv, Alone, Idle
    <3>. QED BY <3>1, <3>2
  <2>10. UsedInv'
    BY <2>1, <2>7, <2>8 DEF UsedInv, Kind
  <2>11. SoleInv'
    <3>1. ASSUME NEW x \in DOMAIN handles', NEW y \in DOMAIN handles',
                 x.intent \in Intents, y.intent \in Intents, x.nonce = y.nonce,
                 handles'[x].status.kind # "Failed", handles'[y].status.kind # "Failed"
          PROVE  x = y
      BY <2>7, <2>8, <3>1 DEF SoleInv, Kind
    <3>. QED BY <3>1 DEF SoleInv, Kind
  <2>12. HeldInv' /\ AimInv'
    BY <2>0, <2>9 DEF HeldInv, AimInv
  <2>13. DueInv'
    BY <2>0, <2>1, <2>3, <2>9 DEF DueInv, tickVars
  <2>14. ~fresh'
    BY SMT, <2>1
  <2>. QED BY <2>10, <2>11, <2>12, <2>13, <2>14
\* tick: it reads, or goes on with some of the same copies.
<1>UTickReads. ASSUME \/ TickStart \/ ConfirmLoad \/ EscalateLoad
                      \/ ReadCycle \/ ResetNonces \/ RefillDone \/ TickEnd \/ TickError
                      \/ Recover \/ BumpCheck \/ BumpSubmit
               PROVE  UInv'
  <2>. USE <1>UTickReads
  <2>. USE DEF UInv
  <2>1. UNCHANGED <<handles, taskVars>>
    BY DEF TickStart, ConfirmLoad, EscalateLoad, ReadCycle, ResetNonces, RefillDone, TickEnd,
       TickError, Recover, BumpCheck, BumpSubmit, walletVars
  <2>2. \A p \in Tasks : pc'[p] \in Idle
    <3>1. \/ phase \notin {"idle", "refill"} \/ (phase = "idle" /\ MayStart)
          \/ (phase = "refill" /\ pc[Refiller] = "done")
      BY DEF TickStart, ConfirmLoad, EscalateLoad, ReadCycle, ResetNonces, RefillDone, TickEnd,
         TickError, Recover, BumpCheck, BumpSubmit
    <3>2. Quiet
      BY <3>1, TickQuiet
    <3>. QED BY <2>1, <3>2 DEF Quiet, taskVars
  <2>3. used \subseteq used' /\ ~fresh'
    <3>1. CASE ResetNonces
      BY SMT, <3>1 DEF ResetNonces, AReset
    <3>2. CASE ~ResetNonces
      <4>1. UNCHANGED <<used, fresh>>
        BY <3>2 DEF TickStart, ConfirmLoad, EscalateLoad, ReadCycle, RefillDone, TickEnd,
           TickError, Recover, BumpCheck, BumpSubmit, walletVars
      <4>. QED BY SMT, <4>1
    <3>. QED BY <3>1, <3>2
  <2>4. \/ \E kinds : kinds \subseteq NotTerminal /\ todo' = Snapshot(kinds)
        \/ todo' = todo \/ \E id : todo' = Without(todo, id)
    <3>1. {"Pending", "Sent"} \subseteq NotTerminal /\ {"Sent"} \subseteq NotTerminal
      BY DEF NotTerminal, Kinds, IsTerminal, Plain, Status
    <3>. QED BY <3>1 DEF TickStart, ConfirmLoad, EscalateLoad, ReadCycle, ResetNonces, RefillDone,
            TickEnd, TickError, Recover, BumpCheck, BumpSubmit
  <2>5. ASSUME NEW x \in DOMAIN todo'
        PROVE  handles'[x].status.kind # "Failed" /\ todo'[x].status.kind # "Failed"
    <3>1. CASE \E kinds : kinds \subseteq NotTerminal /\ todo' = Snapshot(kinds)
      <4>1. PICK kinds : kinds \subseteq NotTerminal /\ todo' = Snapshot(kinds)
        BY <3>1
      <4>2. handles[x].status.kind \in kinds /\ todo'[x] = handles[x]
        BY <4>1 DEF Snapshot
      <4>3. "Failed" \notin NotTerminal
        BY DEF NotTerminal, IsTerminal, Plain, Status
      <4>. QED BY <2>1, <4>1, <4>2, <4>3
    <3>2. CASE todo' = todo \/ \E id : todo' = Without(todo, id)
      <4>1. x \in DOMAIN todo /\ todo'[x] = todo[x]
        BY <3>2, WithoutOne
      <4>. QED BY <2>1, <4>1 DEF DueInv, Kind
    <3>. QED BY <2>4, <3>1, <3>2
  <2>. QED BY <2>1, <2>2, <2>3, <2>5, SettledSame, UTicks
\* tick: advance reads the chain for one handle.
<1>UAdvances. ASSUME Advance
              PROVE  UInv'
  <2>. USE <1>UAdvances
  <2>1. UNCHANGED <<handles, used, fresh, taskVars>> /\ phase = "confirm"
    BY DEF Advance, walletVars
  <2>2. \A p \in Tasks : pc'[p] \in Idle
    <3>1. phase \notin {"idle", "refill"}
      BY <2>1
    <3>. QED BY <2>1, <3>1, TickQuiet DEF Quiet, taskVars
  <2>3. PICK id \in DOMAIN todo :
           \/ todo' = [todo EXCEPT ![id] = WithStatus(todo[id], NextStatus(id, todo[id]))]
           \/ todo' = Without(todo, id)
    BY DEF Advance
  <2>4. ASSUME NEW x \in DOMAIN todo'
        PROVE  handles'[x].status.kind # "Failed" /\ todo'[x].status.kind # "Failed"
    <3>1. \A y \in DOMAIN todo : Kind(y) # "Failed" /\ todo[y].status.kind # "Failed"
      BY DEF UInv, DueInv
    <3>2. CASE todo' = Without(todo, id)
      BY <2>1, <3>1, <3>2, WithoutOne DEF Kind
    <3>3. CASE todo' = [todo EXCEPT ![id] = WithStatus(todo[id], NextStatus(id, todo[id]))]
      <4>1. PICK next : next = NextStatus(id, todo[id])
        OBVIOUS
      <4>2. x \in DOMAIN todo /\ (x # id => todo'[x] = todo[x]) /\ (x = id => todo'[x] = WithStatus(todo[id], next))
        BY <3>3, <4>1
      <4>3. WithStatus(todo[id], next).status = next
        BY SMT DEF WithStatus, Rec
      <4>4. next.kind # "Failed"
        BY <3>1, <4>1, NextNotFailed
      <4>. QED BY <2>1, <3>1, <4>2, <4>3, <4>4 DEF Kind
    <3>. QED BY <2>3, <3>2, <3>3
  <2>5. ~fresh'
    BY SMT, <2>1 DEF UInv
  <2>6. used \subseteq used'
    BY <2>1
  <2>. QED BY <2>1, <2>2, <2>4, <2>5, <2>6, SettledSame, UTicks
\* tick: a copy is written back.
<1>UTickPuts. ASSUME AdvancePut \/ BumpPut
              PROVE  UInv'
  <2>. USE <1>UTickPuts
  <2>1. /\ phase \in {"put", "bumpPut"} /\ todo' = Without(todo, cur) /\ UNCHANGED <<used, fresh>>
        /\ UNCHANGED pc \/ Goto(Refiller, "new")
    BY DEF AdvancePut, BumpPut, taskVars
  <2>2. PICK rec : rec.status = todo[cur].status /\ Put(cur, rec)
    <3>1. CASE AdvancePut
      <4>1. ~Fault("store")
        BY DEF Calm, Fault
      <4>. QED BY <3>1, <4>1 DEF AdvancePut
    <3>2. CASE BumpPut
      <4>1. Bumped(todo[cur], todo[cur].signed + 1).status = todo[cur].status
        BY SMT DEF Bumped, Rec
      <4>. QED BY <3>2, <4>1, PutLands DEF BumpPut
    <3>. QED BY <3>1, <3>2
  <2>3. cur \in DOMAIN todo /\ cur \in DOMAIN handles
    BY <2>1 DEF LInv, TodoInv
  <2>4. Kind(cur) # "Failed" /\ rec.status.kind # "Failed"
    BY <2>2, <2>3 DEF UInv, DueInv
  <2>5. Settling
    BY <2>2, <2>3, <2>4, SettledPut
  <2>6. ASSUME NEW x \in DOMAIN todo'
        PROVE  handles'[x].status.kind # "Failed" /\ todo'[x].status.kind # "Failed"
    <3>1. x \in DOMAIN todo /\ x # cur /\ todo'[x] = todo[x]
      BY <2>1 DEF Without
    <3>2. x \in DOMAIN handles
      BY <3>1 DEF LInv, TodoInv
    <3>. QED BY <2>2, <3>1, <3>2, PutReads DEF UInv, DueInv, Kind
  <2>7. \A p \in Tasks : pc'[p] \in Idle
    <3>1. phase \notin {"idle", "refill"}
      BY <2>1
    <3>2. \A p \in Tasks : pc[p] \in Idle
      BY <3>1, TickQuiet DEF Quiet
    <3>3. DOMAIN pc = Tasks /\ "new" \in Idle
      BY DEF LInv, JobInv, Idle
    <3>. QED BY <2>1, <3>2, <3>3 DEF Goto
  <2>8. ~fresh'
    BY SMT, <2>1 DEF UInv
  <2>9. used \subseteq used'
    BY <2>1
  <2>. QED BY <2>5, <2>6, <2>7, <2>8, <2>9, UTicks
<1>1. ASSUME NEW p \in Senders, Send(p) PROVE UInv'
  BY <1>1, <1>USendStarts, <1>USendAllocates, <1>USendPersists, <1>USendSubmits, <1>USendMarks,
     <1>USendReleases DEF Send
<1>2. ASSUME NEW c \in Cancellers, CancelCall(c) PROVE UInv'
  BY <1>2, <1>UCancelLoads, <1>UCancelMarks, <1>UCancelSubmits, <1>UCancelRecords DEF CancelCall
<1>3. CASE Tick \/ TickError
  BY <1>3, <1>UTickReads, <1>UAdvances, <1>UTickPuts DEF Tick
<1>4. ~Crash
  BY DEF Calm, Crash, Fault
<1>5. CASE Mine \/ MineForeign \/ UNCHANGED vars
  <2>1. UNCHANGED <<used, fresh, handles, pc, job, todo>>
    BY <1>5 DEF Mine, MineForeign, Mined, vars, walletVars, taskVars, tickVars
  <2>2. ~fresh'
    BY SMT, <2>1 DEF UInv
  <2>. QED BY <2>1, <2>2 DEF UInv, UsedInv, HeldInv, SoleInv, DueInv, AimInv, Kind
<1>. QED BY <1>1, <1>2, <1>3, <1>4, <1>5 DEF Next

\* The second inductive invariant holds: the nonce of a handle that has not
\* failed is in use, and no two intents have live handles at one nonce
\* (nonce_manager.rs:7-20, transaction_manager.rs:487-565).
THEOREM UInvHolds ==
    ASSUME Calm
    PROVE  Spec => []UInv
<1>1. LInv /\ OInv /\ UInv /\ [Next]_vars => UInv'
  BY Zenon, UInvStep
<1>2. Spec => []LInv /\ []OInv
  BY Zenon, LInvHolds, OInvHolds
<1>. QED BY <1>1, <1>2, UInvInit, PTL DEF Spec

\* "A live tx's nonce is never freed for reuse" (transaction_manager.rs:223-224),
\* whatever broadcasts the nodes reject: under Calm the rejection is believed only
\* when no node has the transaction.
THEOREM CalmNonceNeverFreed ==
    ASSUME Calm
    PROVE  Spec => []LiveNonceReserved
<1>1. ASSUME LInv, OInv, UInv PROVE LiveNonceReserved
  <2>. USE Zenon
  <2>1. ASSUME NEW t \in Broadcasts PROVE t.nonce \in used
    <3>1. IdOf(t) \in DOMAIN handles /\ Kind(IdOf(t)) \notin Gone
      BY <1>1, WireFiled DEF OInv, WriteInv
    <3>2. Kind(IdOf(t)) # "Failed"
      BY <3>1 DEF Gone
    <3>3. IdOf(t).nonce = t.nonce
      BY SMT DEF IdOf, Id
    <3>. QED BY <1>1, <3>1, <3>2, <3>3 DEF UInv, UsedInv
  <2>. QED BY <2>1 DEF LiveNonceReserved
<1>2. LInv /\ OInv /\ UInv => LiveNonceReserved
  BY Zenon, <1>1
<1>3. Spec => []LInv /\ []OInv /\ []UInv
  BY Zenon, LInvHolds, OInvHolds, UInvHolds
<1>. QED BY <1>2, <1>3, PTL

-----------------------------------------------------------------------------
(* Who took a nonce *)

\* cancel is called once: with two cancels TLC finds the second one withdrawing
\* the mark of the first.
OneCancel == \A c, d \in Cancellers : c = d

\* All that is pooled or mined.
Wire == pool \cup {ledger[k] : k \in 1 .. Len(ledger)}

\* Whatever lives at nonce n for an intent is marked cancelled.
Marked(n) ==
    /\ n \in used
    /\ \A x \in DOMAIN handles :
          x.intent \in Intents /\ x.nonce = n /\ Kind(x) # "Failed" => handles[x].cancelled

\* Where a cancel was broadcast, first or again, its target is marked.
EvictInv ==
    /\ \A t \in Wire :
          /\ t.intent \in Intents \cup {Cancel, "foreign"}
          /\ t.intent = Cancel => Marked(t.nonce)
    /\ \A y \in DOMAIN handles : y.intent \notin Intents /\ Kind(y) # "Failed" => Marked(y.nonce)

\* Nobody's cancel is where a send is about to have its own transaction.
ApartInv ==
    \A p \in Senders :
        pc[p] \in Held /\ (pc[p] # "sent" \/ job[p].id.intent \in Intents) =>
            \A t \in Wire : t.intent = Cancel => t.nonce # job[p].id.nonce

\* A cancel that has not been broadcast has left nothing behind, and one under
\* way has marked its target.
Evictions ==
    (\E t \in Wire : t.intent = Cancel) \/ (\E y \in DOMAIN handles : y.intent \notin Intents)
TargetInv ==
    \A c \in Cancellers :
        /\ pc[c] \notin {"record", "done"} => ~Evictions
        /\ pc[c] \in Aiming => job[c].id.intent \in Intents
        /\ pc[c] \in {"cancel", "record"} => handles[job[c].id].cancelled

\* The tick sees the marks.
MarkInv ==
    \A x \in DOMAIN todo : x.intent \in Intents => todo[x].cancelled = handles[x].cancelled

\* What is to be called Replaced was.
TakenInv ==
    /\ ReplacedIsForeign
    /\ phase = "put" /\ cur.intent \in Intents /\ todo[cur].status.kind = "Replaced" =>
          ledger[cur.nonce + 1].intent = "foreign"

FInv == EvictInv /\ ApartInv /\ TargetInv /\ MarkInv /\ TakenInv

\* Marks stay.
Marking == \A n : Marked(n) => Marked(n)'

\* Nothing is written.
LEMMA MarkingSame ==
    ASSUME UNCHANGED handles, used \subseteq used'
    PROVE  Marking
BY Zenon DEF Marking, Marked, Kind

\* A record is written, and keeps the mark.
LEMMA MarkingPut ==
    ASSUME NEW id \in DOMAIN handles, NEW rec, Put(id, rec), used \subseteq used',
           id.intent \in Intents /\ rec.status.kind # "Failed" =>
              Kind(id) # "Failed" /\ (handles[id].cancelled => rec.cancelled)
    PROVE  Marking
<1>. USE Zenon
<1>1. /\ DOMAIN handles' = DOMAIN handles \cup {id}
      /\ handles'[id] = rec
      /\ \A x \in DOMAIN handles : x # id => handles'[x] = handles[x]
  BY PutReads
<1>2. ASSUME NEW n, Marked(n), NEW x \in DOMAIN handles', x.intent \in Intents, x.nonce = n,
             handles'[x].status.kind # "Failed"
      PROVE  handles'[x].cancelled
  <2>1. CASE x = id
    BY <1>1, <1>2, <2>1 DEF Marked
  <2>2. CASE x # id
    BY <1>1, <1>2, <2>2 DEF Marked, Kind
  <2>. QED BY <2>1, <2>2
<1>3. \A n : Marked(n) => n \in used'
  BY DEF Marked
<1>. QED BY <1>2, <1>3 DEF Marking, Marked, Kind

\* Nothing is broadcast.
LEMMA WireSame ==
    ASSUME UNCHANGED <<pool, ledger>>
    PROVE  Wire' = Wire
BY Zenon DEF Wire

\* A broadcast adds its transaction at most, and only when it is sent.
LEMMA WireSubmits ==
    ASSUME Calm, NEW tx, NEW result, Submit(tx, result), UNCHANGED ledger
    PROVE  /\ \A t \in Wire' : t \in Wire \/ t = tx
           /\ result # "sent" => UNCHANGED pool
<1>1. (pool' = pool \/ pool' = pool \cup {tx}) /\ (result # "sent" => pool' = pool)
  BY Zenon DEF Submit, Calm, Fault
<1>. QED BY Zenon, <1>1 DEF Wire

\* Marks stay, and what is broadcast of a cancel is marked.
LEMMA EvictKeeps ==
    ASSUME EvictInv, Marking, Settling,
           \A t \in Wire' : \/ t \in Wire \/ t.intent \in Intents \cup {"foreign"}
                            \/ t.intent = Cancel /\ Marked(t.nonce) /\ Evictions
    PROVE  EvictInv' /\ (Evictions' => Evictions)
<1>. USE Zenon
<1>1. ASSUME NEW t \in Wire'
      PROVE  /\ t.intent \in Intents \cup {Cancel, "foreign"}
             /\ t.intent = Cancel => Marked(t.nonce)'
  <2>1. Cancel \notin Intents \cup {"foreign"}
    BY WalletRuntimeAssumption DEF Cancel
  <2>2. t.intent \in Intents \cup {Cancel, "foreign"} /\ (t.intent = Cancel => Marked(t.nonce))
    BY <2>1 DEF EvictInv
  <2>. QED BY <2>2 DEF Marking
<1>2. ASSUME NEW y \in DOMAIN handles', y.intent \notin Intents, handles'[y].status.kind # "Failed"
      PROVE  Marked(y.nonce)'
  BY <1>2 DEF EvictInv, Settling, Marking
<1>3. ASSUME Evictions' PROVE Evictions
  <2>1. Cancel \notin Intents \cup {"foreign"}
    BY WalletRuntimeAssumption DEF Cancel
  <2>2. CASE \E t \in Wire' : t.intent = Cancel
    BY <2>1, <2>2 DEF Evictions
  <2>3. CASE \E y \in DOMAIN handles' : y.intent \notin Intents
    BY <2>3 DEF Evictions, Settling
  <2>. QED BY <1>3, <2>2, <2>3 DEF Evictions
<1>. QED BY <1>1, <1>2, <1>3 DEF EvictInv, Kind

\* No send is under way.
LEMMA ApartRests ==
    ASSUME \A p \in Senders : pc'[p] \in Idle
    PROVE  ApartInv'
<1>1. \A k \in Idle : k \notin Held
  BY Zenon DEF Idle, Held
<1>. QED BY Zenon, <1>1 DEF ApartInv

\* The send p moves to l.
LEMMA ApartMoves ==
    ASSUME LInv, ApartInv, NEW p \in Senders, NEW l, Alone(p), Goto(p, l),
           l \in Held => pc[p] \in Held \ {"sent"} /\ job'[p].id = job[p].id,
           \A t \in Wire' : t.intent = Cancel =>
              t \in Wire \/ (l = "sent" /\ job[p].id.intent \notin Intents)
    PROVE  ApartInv'
<1>. USE Zenon
<1>1. p \in Tasks /\ Senders \subseteq Tasks
  BY DEF Tasks
<1>2. pc'[p] = l /\ \A q \in Tasks : q # p => pc'[q] \in Idle
  BY <1>1 DEF Goto, LInv, JobInv, Alone
<1>3. \A k \in Idle : k \notin Held
  BY DEF Idle, Held
<1>4. ASSUME NEW q \in Senders, pc'[q] \in Held, pc'[q] # "sent" \/ job'[q].id.intent \in Intents,
             NEW t \in Wire', t.intent = Cancel
      PROVE  t.nonce # job'[q].id.nonce
  <2>1. q = p /\ l \in Held
    BY <1>1, <1>2, <1>3, <1>4
  <2>2. pc[p] \in Held /\ pc[p] # "sent" /\ job'[p].id = job[p].id
    BY <2>1
  <2>3. t \in Wire
    BY <1>2, <1>4, <2>1, <2>2
  <2>. QED BY <1>4, <2>1, <2>2, <2>3 DEF ApartInv
<1>. QED BY <1>4 DEF ApartInv

\* No cancel moves or is under way.
LEMMA TargetRests ==
    ASSUME TargetInv, \A c \in Cancellers : pc'[c] = pc[c] /\ pc[c] \in Idle,
           Evictions' => Evictions
    PROVE  TargetInv'
<1>1. \A k \in Idle : k \notin Aiming /\ k \notin {"cancel", "record"}
  BY Zenon DEF Idle, Aiming
<1>. QED BY Zenon, <1>1 DEF TargetInv

\* The tick is not about to call a handle Replaced.
LEMMA TakenKeeps ==
    ASSUME TakenInv, UNCHANGED ledger, phase' # "put",
           \A x \in DOMAIN handles' :
              x.intent \in Intents /\ handles'[x].status.kind = "Replaced" =>
                 x \in DOMAIN handles /\ Kind(x) = "Replaced"
    PROVE  TakenInv'
BY Zenon DEF TakenInv, ReplacedIsForeign, Kind

\* What the tick sees, when another handle is written.
LEMMA MarkElsewhere ==
    ASSUME LInv, MarkInv, UNCHANGED todo,
           UNCHANGED handles \/ \E id, rec : Put(id, rec) /\ id \notin DOMAIN todo
    PROVE  MarkInv'
<1>. USE Zenon
<1>1. ASSUME NEW x \in DOMAIN todo PROVE handles'[x] = handles[x]
  <2>1. CASE UNCHANGED handles
    BY <2>1
  <2>2. CASE \E id, rec : Put(id, rec) /\ id \notin DOMAIN todo
    <3>1. PICK id, rec : Put(id, rec) /\ id \notin DOMAIN todo
      BY <2>2
    <3>2. x \in DOMAIN handles /\ x # id
      BY <3>1 DEF LInv, TodoInv
    <3>. QED BY <3>1, <3>2, PutReads
  <2>. QED BY <2>1, <2>2
<1>. QED BY <1>1 DEF MarkInv

\* While a call runs by itself, the others stay where they are.
LEMMA OthersStay ==
    ASSUME LInv, NEW p \in Tasks, NEW l, Alone(p), Goto(p, l)
    PROVE  pc'[p] = l /\ \A q \in Tasks : q # p => pc'[q] = pc[q] /\ pc[q] \in Idle
BY Zenon DEF Goto, LInv, JobInv, Alone

\* While a send runs no cancel does.
LEMMA SendOthers ==
    ASSUME LInv, NEW p \in Senders, NEW l, Alone(p), Goto(p, l)
    PROVE  \A c \in Cancellers : pc'[c] = pc[c] /\ pc[c] \in Idle
<1>1. p \in Tasks /\ \A c \in Cancellers : c \in Tasks /\ c # p
  BY Zenon, WalletRuntimeAssumption DEF Tasks
<1>. QED BY Zenon, <1>1, OthersStay

-----------------------------------------------------------------------------
(* Who took a nonce: send *)

\* A send moves on, and writes at most a handle that is not Replaced.
LEMMA FSends ==
    ASSUME LInv, FInv, NEW p \in Senders, NEW l, Alone(p), Goto(p, l),
           UNCHANGED <<ledger, tickVars>>, EvictInv', Evictions' => Evictions, ApartInv',
           \/ UNCHANGED handles
           \/ \E id, rec : Put(id, rec) /\ id \notin DOMAIN todo /\ rec.status.kind # "Replaced"
    PROVE  FInv'
<1>. USE Zenon
<1>. USE DEF FInv
<1>1. todo' = todo /\ phase' = phase /\ phase # "put"
  BY DEF tickVars, Alone
<1>2. TargetInv'
  BY SendOthers, TargetRests
<1>3. MarkInv'
  BY <1>1, MarkElsewhere
<1>4. ASSUME NEW x \in DOMAIN handles', handles'[x].status.kind = "Replaced"
      PROVE  x \in DOMAIN handles /\ Kind(x) = "Replaced"
  <2>1. CASE UNCHANGED handles
    BY <1>4, <2>1 DEF Kind
  <2>2. CASE \E id, rec : Put(id, rec) /\ id \notin DOMAIN todo /\ rec.status.kind # "Replaced"
    <3>1. PICK id, rec : Put(id, rec) /\ rec.status.kind # "Replaced"
      BY <2>2
    <3>2. /\ DOMAIN handles' = DOMAIN handles \cup {id}
          /\ handles'[id] = rec
          /\ \A y \in DOMAIN handles : y # id => handles'[y] = handles[y]
      BY <3>1, PutReads
    <3>3. x # id
      BY <1>4, <3>1, <3>2
    <3>4. x \in DOMAIN handles /\ handles'[x] = handles[x]
      BY <3>2, <3>3
    <3>. QED BY <1>4, <3>4 DEF Kind
  <2>. QED BY <2>1, <2>2
<1>5. TakenInv'
  BY <1>1, <1>4, TakenKeeps
<1>. QED BY <1>2, <1>3, <1>5

-----------------------------------------------------------------------------
(* Who took a nonce: cancel *)

\* The only cancel moves on.
LEMMA FCancels ==
    ASSUME LInv, OInv, FInv, OneCancel, NEW c \in Cancellers, NEW l, Alone(c),
           Goto(c, l) \/ (UNCHANGED pc /\ l = pc[c]), UNCHANGED <<ledger, tickVars>>, EvictInv',
           l \notin {"record", "done"} => ~Evictions',
           l \in Aiming => job'[c].id.intent \in Intents,
           l \in {"cancel", "record"} => handles'[job'[c].id].cancelled,
           \A x \in DOMAIN handles' :
              x.intent \in Intents /\ handles'[x].status.kind = "Replaced" =>
                 x \in DOMAIN handles /\ Kind(x) = "Replaced"
    PROVE  FInv'
<1>. USE Zenon
<1>. USE DEF FInv
<1>0. c \in Tasks /\ c # Refiller /\ c \notin Senders /\ Senders \subseteq Tasks
  BY Cancelling DEF Tasks
<1>1. /\ phase = "idle" /\ phase' # "put" /\ todo' = todo /\ DOMAIN todo = {}
  <2>1. phase = "idle" /\ phase' = phase /\ todo' = todo
    BY <1>0 DEF Alone, tickVars
  <2>. QED BY <2>1 DEF OInv, CopyInv
<1>2. pc'[c] = l /\ \A q \in Tasks : q # c => pc'[q] \in Idle
  <2>1. CASE Goto(c, l)
    BY <1>0, <2>1, OthersStay
  <2>2. CASE UNCHANGED pc /\ l = pc[c]
    BY <2>2 DEF Alone
  <2>. QED BY <2>1, <2>2
<1>3. ApartInv'
  <2>1. \A p \in Senders : pc'[p] \in Idle
    BY <1>0, <1>2
  <2>. QED BY <2>1, ApartRests
<1>4. TargetInv'
  <2>1. \A d \in Cancellers : d = c
    BY DEF OneCancel
  <2>. QED BY <1>2, <2>1 DEF TargetInv
<1>5. MarkInv'
  BY <1>1 DEF MarkInv
<1>6. TakenInv'
  BY <1>1, TakenKeeps
<1>. QED BY <1>3, <1>4, <1>5, <1>6

\* What a cancel has marked is all that lives at its nonce.
LEMMA TargetMarked ==
    ASSUME LInv, OInv, UInv, TargetInv, NEW c \in Cancellers, pc[c] \in {"cancel", "record"}
    PROVE  Marked(job[c].id.nonce)
<1>. USE Zenon
<1>1. pc[c] \in {"poison", "cancel", "unpoison", "record"} /\ pc[c] \in Aiming
  BY DEF Aiming
<1>2. PICK id : id = job[c].id
  OBVIOUS
<1>3. id \in DOMAIN handles /\ id.intent \in Intents /\ handles[id].cancelled /\ Kind(id) # "Failed"
  BY <1>1, <1>2, CancelRuns DEF TargetInv, UInv, AimInv
<1>4. id.nonce \in used
  BY <1>3 DEF UInv, UsedInv
<1>5. ASSUME NEW x \in DOMAIN handles, x.intent \in Intents, x.nonce = id.nonce, Kind(x) # "Failed"
      PROVE  handles[x].cancelled
  <2>1. x = id
    BY <1>3, <1>5 DEF UInv, SoleInv
  <2>. QED BY <1>3, <2>1
<1>. QED BY <1>2, <1>4, <1>5 DEF Marked

\* The target is written again with another flag.
LEMMA FlagKeeps ==
    ASSUME NEW id \in DOMAIN handles, NEW rec, NEW b, rec = Cancelled(handles[id], b), Put(id, rec)
    PROVE  /\ Settling /\ DOMAIN handles' = DOMAIN handles /\ handles'[id].cancelled = b
           /\ \A x \in DOMAIN handles' : handles'[x].status.kind = "Replaced" =>
                 x \in DOMAIN handles /\ Kind(x) = "Replaced"
<1>. USE Zenon
<1>1. /\ DOMAIN handles' = DOMAIN handles \cup {id}
      /\ handles'[id] = rec
      /\ \A x \in DOMAIN handles : x # id => handles'[x] = handles[x]
  BY PutReads
<1>2. rec.status = handles[id].status /\ rec.cancelled = b
  BY SMT DEF Cancelled, Rec
<1>3. DOMAIN handles' = DOMAIN handles
  BY <1>1
<1>4. \A x \in DOMAIN handles : handles'[x].status = handles[x].status
  BY <1>1, <1>2
<1>5. handles'[id].cancelled = b
  BY SMT, <1>1, <1>2
<1>. QED BY <1>3, <1>4, <1>5 DEF Settling, Kind

-----------------------------------------------------------------------------
(* Who took a nonce: the tick, the chain *)

\* No call is under way.
LEMMA FTicks ==
    ASSUME TargetInv, Quiet, UNCHANGED pc \/ (Goto(Refiller, "new") /\ DOMAIN pc = Tasks),
           Evictions' => Evictions
    PROVE  ApartInv' /\ TargetInv'
<1>. USE Zenon
<1>1. Refiller \in Tasks /\ Refiller \notin Cancellers /\ "new" \in Idle
  BY WalletRuntimeAssumption DEF Tasks, Senders, Idle
<1>2. \A p \in Tasks : pc'[p] \in Idle /\ (p # Refiller => pc'[p] = pc[p] /\ pc[p] \in Idle)
  BY <1>1 DEF Quiet, Goto
<1>3. \A p \in Senders : pc'[p] \in Idle
  BY <1>2 DEF Tasks
<1>4. \A c \in Cancellers : pc'[c] = pc[c] /\ pc[c] \in Idle
  BY <1>1, <1>2 DEF Tasks
<1>. QED BY <1>3, <1>4, ApartRests, TargetRests

\* What displaced a handle that is not marked came from elsewhere: a transaction
\* of its own would be in its record, one of another intent would be at another
\* nonce, and a cancel would have marked it.
LEMMA TakenElsewhere ==
    ASSUME LInv, OInv, UInv, FInv, NEW id \in DOMAIN todo, id.intent \in Intents, phase = "confirm",
           NextStatus(id, todo[id]).kind = "Replaced"
    PROVE  ledger[id.nonce + 1].intent = "foreign"
<1>. USE Zenon
<1>. USE DEF FInv
<1>1. "Replaced" \in Gone /\ Plain("Dropped").kind # "Replaced"
  BY SMT DEF Gone, Plain, Status
<1>2. id.nonce < Len(ledger) /\ \A t \in Broadcasts : IdOf(t) # id
  BY <1>1, NowhereToBeSeen
<1>3. id \in DOMAIN handles /\ id.nonce \in Nat /\ Kind(id) # "Failed"
  BY DEF LInv, TodoInv, OInv, StoreInv, UInv, DueInv
<1>4. id.nonce + 1 \in 1 .. Len(ledger) /\ (id.nonce + 1) - 1 = id.nonce
  <2>1. Len(ledger) \in Nat
    BY LedgerLength
  <2>. QED BY SMT, <1>2, <1>3, <2>1
<1>5. PICK t : t = ledger[id.nonce + 1]
  OBVIOUS
<1>6. t \in Wire /\ t.nonce = id.nonce
  BY <1>4, <1>5 DEF Wire, OInv, ChainInv
<1>7. t.intent \in Intents \cup {Cancel, "foreign"} /\ (t.intent = Cancel => Marked(t.nonce))
  BY <1>6 DEF EvictInv
<1>8. t.intent \notin Intents
  <2>. SUFFICES ASSUME t.intent \in Intents PROVE FALSE
    OBVIOUS
  <2>1. t \in Broadcasts
    BY <1>6 DEF Wire, Broadcasts, Ours
  <2>2. IdOf(t) \in DOMAIN handles /\ Kind(IdOf(t)) \notin Gone
    BY <2>1, WireFiled DEF OInv, WriteInv
  <2>3. IdOf(t).intent = t.intent /\ IdOf(t).nonce = t.nonce
    BY DEF IdOf, Id
  <2>4. Kind(IdOf(t)) # "Failed"
    BY <2>2 DEF Gone
  <2>5. IdOf(t) = id
    BY <1>3, <1>6, <2>2, <2>3, <2>4 DEF UInv, SoleInv
  <2>. QED BY <1>2, <2>1, <2>5
<1>9. t.intent # Cancel
  <2>. SUFFICES ASSUME t.intent = Cancel PROVE FALSE
    OBVIOUS
  <2>1. handles[id].cancelled
    BY <1>3, <1>6, <1>7 DEF Marked
  <2>2. todo[id].cancelled
    <3>1. todo[id].cancelled = handles[id].cancelled
      BY DEF MarkInv
    <3>. QED BY SMT, <2>1, <3>1
  <2>. QED BY <1>1, <2>2 DEF NextStatus
<1>. QED BY <1>5, <1>7, <1>8, <1>9

LEMMA FInvInit == Init => FInv
<1>. USE Zenon
<1>. SUFFICES ASSUME Init PROVE FInv
  OBVIOUS
<1>1. DOMAIN handles = {} /\ DOMAIN todo = {} /\ phase = "idle"
  BY DEF Init, Empty
<1>2. Wire = {}
  <2>1. pool = {} /\ ledger = <<>>
    BY DEF Init
  <2>. QED BY SMT, <2>1 DEF Wire
<1>3. \A p \in Tasks : pc[p] \notin Held /\ pc[p] \notin Aiming /\ pc[p] \notin {"cancel", "record"}
  BY DEF Init, Held, Aiming
<1>4. Senders \subseteq Tasks /\ Cancellers \subseteq Tasks
  BY DEF Tasks
<1>5. EvictInv /\ ApartInv /\ ~Evictions
  BY <1>1, <1>2 DEF EvictInv, ApartInv, Evictions
<1>6. TargetInv /\ MarkInv /\ TakenInv
  BY <1>1, <1>3, <1>4, <1>5 DEF TargetInv, MarkInv, TakenInv, ReplacedIsForeign
<1>. QED BY <1>5, <1>6 DEF FInv

LEMMA FInvStep ==
    ASSUME Calm, OneCancel
    PROVE  LInv /\ OInv /\ UInv /\ FInv /\ [Next]_vars => FInv'
<1>. USE Zenon
<1>. SUFFICES ASSUME LInv, OInv, UInv, FInv PROVE [Next]_vars => FInv'
  OBVIOUS
\* send: the checks before a nonce is taken.
<1>FSendStarts. ASSUME NEW p \in Senders, SendPreflight(p)
                PROVE  FInv'
  <2>. USE <1>FSendStarts
  <2>. USE DEF FInv
  <2>1. Alone(p) /\ UNCHANGED <<handles, used, pool, ledger, tickVars>>
    BY SendAlone DEF SendPreflight, walletVars, chainVars, OInv
  <2>2. PICK l \in {"allocate", "done"} : Goto(p, l)
    BY DEF SendPreflight, Return
  <2>3. l \notin Held
    BY DEF Held
  <2>4. Wire' = Wire
    BY <2>1, WireSame
  <2>5. EvictInv' /\ (Evictions' => Evictions)
    BY <2>1, <2>4, MarkingSame, SettledSame, EvictKeeps
  <2>6. ApartInv'
    BY <2>1, <2>2, <2>3, <2>4, ApartMoves
  <2>. QED BY <2>1, <2>2, <2>5, <2>6, FSends
\* send: no cancel is where the nonce is free.
<1>FSendAllocates. ASSUME NEW p \in Senders, SendAllocate(p)
                   PROVE  FInv'
  <2>. USE <1>FSendAllocates
  <2>. USE DEF FInv
  <2>0. p \in Tasks /\ Senders \subseteq Tasks
    BY DEF Tasks
  <2>1. Alone(p) /\ UNCHANGED <<handles, pool, ledger, tickVars>>
    BY <2>0, BusyAlone DEF SendAllocate, Idle, chainVars, OInv
  <2>2. Wire' = Wire
    BY <2>1, WireSame
  <2>3. CASE Return(p) /\ UNCHANGED <<used, fresh>>
    <3>1. Goto(p, "done") /\ "done" \notin Held
      BY <2>3 DEF Return, Held
    <3>2. EvictInv' /\ (Evictions' => Evictions)
      BY <2>1, <2>2, <2>3, MarkingSame, SettledSame, EvictKeeps
    <3>3. ApartInv'
      BY <2>1, <2>2, <3>1, ApartMoves
    <3>. QED BY <2>1, <3>1, <3>2, <3>3, FSends
  <2>4. CASE \E n \in 0 .. MaxNonce :
                /\ AAllocate(n)
                /\ job' = [job EXCEPT ![p] = Job(Id(Intent(p), n), Fresh, 0, FALSE)]
                /\ Goto(p, "persist")
    <3>1. PICK n \in 0 .. MaxNonce :
                /\ AAllocate(n)
                /\ job' = [job EXCEPT ![p] = Job(Id(Intent(p), n), Fresh, 0, FALSE)]
                /\ Goto(p, "persist")
      BY <2>4
    <3>2. n \notin used /\ used \subseteq used'
      <4>1. n \notin used /\ used' = used \cup {n}
        BY <3>1 DEF AAllocate, UInv
      <4>. QED BY <4>1
    <3>3. EvictInv' /\ (Evictions' => Evictions)
      BY <2>1, <2>2, <3>2, MarkingSame, SettledSame, EvictKeeps
    <3>4. job'[p].id.nonce = n
      <4>1. job'[p] = Job(Id(Intent(p), n), Fresh, 0, FALSE)
        BY <2>0, <3>1 DEF LInv, JobInv
      <4>. QED BY SMT, <4>1 DEF Job, Id
    <3>5. \A q \in Senders : pc'[q] \in Held => q = p
      <4>1. \A k \in Idle : k \notin Held
        BY DEF Idle, Held
      <4>2. \A q \in Tasks : q # p => pc'[q] \in Idle
        BY <2>0, <2>1, <3>1, OthersStay
      <4>. QED BY <2>0, <4>1, <4>2
    <3>6. \A t \in Wire : t.intent = Cancel => t.nonce # n
      BY <3>2 DEF EvictInv, Marked
    <3>7. ApartInv'
      BY <2>2, <3>4, <3>5, <3>6 DEF ApartInv
    <3>. QED BY <2>1, <3>1, <3>3, <3>7, FSends
  <2>. QED BY <2>3, <2>4 DEF SendAllocate, Fresh
\* send: the handle is filed where no cancel was.
<1>FSendPersists. ASSUME NEW p \in Senders, SendPersist(p)
                  PROVE  FInv'
  <2>. USE <1>FSendPersists
  <2>. USE DEF FInv
  <2>0. p \in Tasks
    BY DEF Tasks
  <2>1. pc[p] = "persist" /\ Alone(p) /\ UNCHANGED <<used, job, pool, ledger, tickVars>>
    BY <2>0, BusyAlone DEF SendPersist, Idle, chainVars, OInv
  <2>2. pc[p] \in Held /\ pc[p] \in Bare /\ pc[p] # "sent"
    BY <2>1 DEF Held, Bare
  <2>3. Wire' = Wire
    BY <2>1, WireSame
  <2>4. CASE Goto(p, "release") /\ UNCHANGED handles
    <3>1. EvictInv' /\ (Evictions' => Evictions)
      BY <2>1, <2>3, <2>4, MarkingSame, SettledSame, EvictKeeps
    <3>2. ApartInv'
      BY <2>1, <2>2, <2>3, <2>4, ApartMoves
    <3>. QED BY <2>1, <2>4, <3>1, <3>2, FSends
  <2>5. CASE Put(job[p].id, job[p].rec) /\ Goto(p, "submit")
    <3>1. PICK id : id = job[p].id
      OBVIOUS
    <3>2. PICK rec : rec = job[p].rec
      OBVIOUS
    <3>3. /\ DOMAIN handles' = DOMAIN handles \cup {id}
          /\ \A x \in DOMAIN handles : x # id => handles'[x] = handles[x]
      BY <2>5, <3>1, PutReads
    <3>4. ASSUME NEW x \in DOMAIN handles', x # id
          PROVE  x \in DOMAIN handles /\ handles'[x] = handles[x]
      BY <3>3, <3>4
    <3>5. /\ id.nonce \in used /\ id \notin DOMAIN todo
          /\ \A x \in DOMAIN handles : x.nonce = id.nonce => Kind(x) = "Failed"
      BY <2>2, <3>1 DEF UInv, HeldInv, DueInv
    <3>6. \A t \in Wire : t.intent = Cancel => t.nonce # id.nonce
      BY <2>2, <3>1 DEF ApartInv
    <3>7. ASSUME NEW n, Marked(n), n # id.nonce PROVE Marked(n)'
      BY <2>1, <3>4, <3>7 DEF Marked, Kind
    <3>8. id.intent \notin Intents => Marked(id.nonce)'
      BY <2>1, <3>4, <3>5 DEF Marked, Kind
    <3>9. EvictInv'
      <4>1. ASSUME NEW t \in Wire
            PROVE  /\ t.intent \in Intents \cup {Cancel, "foreign"}
                   /\ t.intent = Cancel => Marked(t.nonce)'
        BY <3>6, <3>7 DEF EvictInv
      <4>2. ASSUME NEW y \in DOMAIN handles', y.intent \notin Intents,
                   handles'[y].status.kind # "Failed"
            PROVE  Marked(y.nonce)'
        <5>1. CASE y = id
          BY <3>8, <4>2, <5>1
        <5>2. CASE y # id
          <6>1. y \in DOMAIN handles /\ Kind(y) # "Failed"
            BY <3>4, <4>2, <5>2 DEF Kind
          <6>2. y.nonce # id.nonce /\ Marked(y.nonce)
            BY <3>5, <4>2, <6>1 DEF EvictInv
          <6>. QED BY <3>7, <6>2
        <5>. QED BY <5>1, <5>2
      <4>. QED BY <2>3, <4>1, <4>2 DEF EvictInv, Kind
    <3>10. id.intent \notin Intents => \E x \in DOMAIN handles : x.intent = id.intent
      <4>1. pc[p] \in Starting
        BY <2>1 DEF Starting
      <4>2. p \in Intents => id.intent \in Intents
        BY <2>1, <3>1, <4>1 DEF OInv, FirstInv
      <4>3. p = Refiller => \E x \in DOMAIN handles : x.intent = id.intent
        BY <3>1, <4>1 DEF OInv, AgainInv
      <4>. QED BY <4>2, <4>3 DEF Senders
    <3>11. Evictions' => Evictions
      BY <2>3, <3>4, <3>10 DEF Evictions
    <3>12. ApartInv'
      BY <2>1, <2>2, <2>3, <2>5, ApartMoves
    <3>13. rec.status.kind # "Replaced"
      <4>1. rec = Fresh
        BY <2>1, <3>2 DEF OInv, CallInv, Fresh
      <4>. QED BY SMT, <4>1 DEF Fresh, Rec, Plain, Status
    <3>. QED BY <2>1, <2>5, <3>1, <3>2, <3>5, <3>9, <3>11, <3>12, <3>13, FSends
  <2>. QED BY <2>4, <2>5 DEF SendPersist
\* send: the broadcast.
<1>FSendSubmits. ASSUME NEW p \in Senders, SendSubmit(p)
                 PROVE  FInv'
  <2>. USE <1>FSendSubmits
  <2>. USE DEF FInv
  <2>0. p \in Tasks
    BY DEF Tasks
  <2>1. /\ pc[p] = "submit" /\ Alone(p)
        /\ UNCHANGED <<handles, used, job, ledger, tickVars>>
    BY <2>0, BusyAlone DEF SendSubmit, Idle, walletVars, OInv
  <2>2. pc[p] \in Held /\ pc[p] # "sent" /\ pc[p] \in Filed
    BY <2>1 DEF Held, Filed, Carrying
  <2>3. PICK id : id = job[p].id
    OBVIOUS
  <2>4. PICK tx : tx = Tx(id, 0)
    OBVIOUS
  <2>5. PICK result : Submit(tx, result) /\ Goto(p, SubmitOutcome(result))
    BY <2>3, <2>4 DEF SendSubmit
  <2>6. tx.intent = id.intent /\ tx.nonce = id.nonce
    BY <2>4 DEF Tx
  <2>7. (\A t \in Wire' : t \in Wire \/ t = tx) /\ (result # "sent" => UNCHANGED pool)
    BY <2>1, <2>5, WireSubmits
  <2>8. /\ id \in DOMAIN handles /\ id.intent \in Intents \cup {Cancel}
        /\ Kind(id) # "Failed"
    <3>1. id \in DOMAIN handles
      BY <2>0, <2>2, <2>3 DEF LInv, JobInv
    <3>2. handles[id] = Fresh
      <4>1. pc[p] \in {"persist", "submit", "sent", "failed"}
        BY <2>1
      <4>2. job[p].rec = Fresh
        BY <4>1 DEF OInv, CallInv, Fresh
      <4>. QED BY <2>0, <2>2, <2>3, <4>2 DEF OInv, CallInv
    <3>3. Fresh.status.kind = "Pending"
      BY SMT DEF Fresh, Rec, Plain, Status
    <3>. QED BY <3>1, <3>2, <3>3 DEF OInv, StoreInv, Kind
  <2>9. tx.intent \in Intents \/ (tx.intent = Cancel /\ Marked(tx.nonce) /\ Evictions)
    BY <2>6, <2>8 DEF EvictInv, Evictions
  <2>10. EvictInv' /\ (Evictions' => Evictions)
    <3>1. \A t \in Wire' : \/ t \in Wire \/ t.intent \in Intents \cup {"foreign"}
                           \/ t.intent = Cancel /\ Marked(t.nonce) /\ Evictions
      BY <2>7, <2>9
    <3>. QED BY <2>1, <3>1, MarkingSame, SettledSame, EvictKeeps
  <2>11. PICK l : l = SubmitOutcome(result)
    OBVIOUS
  <2>12. ApartInv'
    <3>1. \A t \in Wire' : t.intent = Cancel =>
             t \in Wire \/ (l = "sent" /\ job[p].id.intent \notin Intents)
      <4>1. result = "sent" => l = "sent"
        BY <2>11 DEF SubmitOutcome
      <4>2. Cancel \notin Intents
        BY WalletRuntimeAssumption DEF Cancel
      <4>3. result # "sent" => Wire' = Wire
        BY <2>1, <2>7, WireSame
      <4>. QED BY <2>3, <2>6, <2>7, <4>1, <4>2, <4>3
    <3>. QED BY <2>1, <2>2, <2>5, <2>11, <3>1, ApartMoves
  <2>. QED BY <2>1, <2>5, <2>10, <2>12, FSends
\* send: the outcome is written.
<1>FSendMarks. ASSUME NEW p \in Senders, SendMarkSent(p) \/ SendMarkFailed(p)
               PROVE  FInv'
  <2>. USE <1>FSendMarks
  <2>. USE DEF FInv
  <2>0. p \in Tasks
    BY DEF Tasks
  <2>1. /\ pc[p] \in {"sent", "failed"} /\ pc[p] \in Held /\ pc[p] \in Filed /\ Alone(p)
        /\ UNCHANGED <<used, pool, ledger, tickVars>>
    BY <2>0, BusyAlone DEF SendMarkSent, SendMarkFailed, Idle, Held, Filed, Carrying, chainVars, OInv
  <2>2. PICK id : id = job[p].id
    OBVIOUS
  <2>3. handles[id] = Fresh /\ job[p].rec = Fresh
    <3>1. handles[job[p].id] = job[p].rec
      BY <2>0, <2>1 DEF OInv, CallInv
    <3>2. pc[p] \in {"persist", "submit", "sent", "failed"}
      BY <2>1
    <3>3. job[p].rec = Fresh
      BY <3>2 DEF OInv, CallInv, Fresh
    <3>. QED BY <2>2, <3>1, <3>3
  <2>4. Fresh.status.kind = "Pending" /\ Fresh.cancelled = FALSE
    BY SMT DEF Fresh, Rec, Plain, Status
  <2>5. id \in DOMAIN handles /\ id \notin DOMAIN todo /\ Kind(id) # "Failed"
    BY <2>0, <2>1, <2>2, <2>3, <2>4 DEF LInv, JobInv, UInv, DueInv, Kind
  <2>6. ~handles[id].cancelled
    BY SMT, <2>3, <2>4
  <2>7. Wire' = Wire
    BY <2>1, WireSame
  <2>8. PICK l, rec :
           /\ Put(id, rec) /\ rec.status.kind # "Replaced" /\ Goto(p, l)
           /\ l = "done" \/ (l = "release" /\ pc[p] = "failed" /\ job' = job)
    <3>1. /\ WithStatus(Fresh, Plain("Sent")).status.kind # "Replaced"
          /\ WithStatus(Fresh, Plain("Failed")).status.kind # "Replaced"
      BY SMT DEF WithStatus, Rec, Plain, Status
    <3>2. CASE SendMarkSent(p)
      BY <2>2, <2>3, <3>1, <3>2, PutLands DEF SendMarkSent, Return
    <3>3. CASE SendMarkFailed(p)
      BY <2>2, <2>3, <3>1, <3>3, PutLands DEF SendMarkFailed
    <3>. QED BY <3>2, <3>3
  <2>9. Marking /\ Settling
    BY <2>1, <2>5, <2>6, <2>8, MarkingPut, SettledPut
  <2>10. EvictInv' /\ (Evictions' => Evictions)
    BY <2>7, <2>9, EvictKeeps
  <2>11. l \in Held => pc[p] \in Held \ {"sent"} /\ job'[p].id = job[p].id
    <3>1. "done" \notin Held
      BY DEF Held
    <3>. QED BY <2>1, <2>8, <3>1
  <2>12. ApartInv'
    BY <2>1, <2>7, <2>8, <2>11, ApartMoves
  <2>. QED BY <2>1, <2>5, <2>8, <2>10, <2>12, FSends
\* send: the nonce that goes back is one where no cancel was.
<1>FSendReleases. ASSUME NEW p \in Senders, SendRelease(p)
                  PROVE  FInv'
  <2>. USE <1>FSendReleases
  <2>. USE DEF FInv
  <2>0. p \in Tasks
    BY DEF Tasks
  <2>1. /\ pc[p] \in Held /\ pc[p] \in Bare /\ pc[p] # "sent" /\ Alone(p) /\ Goto(p, "done")
        /\ UNCHANGED <<handles, pool, ledger, tickVars>>
    BY <2>0, BusyAlone DEF SendRelease, Return, Idle, Held, Bare, chainVars, OInv
  <2>2. PICK m : m = job[p].id.nonce
    OBVIOUS
  <2>3. \A n \in used : n # m => n \in used'
    BY <2>2 DEF SendRelease, ARelease
  <2>4. \A x \in DOMAIN handles : x.nonce = m => Kind(x) = "Failed"
    BY <2>1, <2>2 DEF UInv, HeldInv
  <2>5. \A t \in Wire : t.intent = Cancel => t.nonce # m
    BY <2>1, <2>2 DEF ApartInv
  <2>6. \A n : Marked(n) /\ n # m => Marked(n)'
    BY <2>1, <2>3 DEF Marked, Kind
  <2>7. Wire' = Wire
    BY <2>1, WireSame
  <2>8. EvictInv'
    <3>1. ASSUME NEW t \in Wire
          PROVE  /\ t.intent \in Intents \cup {Cancel, "foreign"}
                 /\ t.intent = Cancel => Marked(t.nonce)'
      BY <2>5, <2>6 DEF EvictInv
    <3>2. ASSUME NEW y \in DOMAIN handles, y.intent \notin Intents, Kind(y) # "Failed"
          PROVE  Marked(y.nonce)'
      BY <2>4, <2>6, <3>2 DEF EvictInv
    <3>. QED BY <2>1, <2>7, <3>1, <3>2 DEF EvictInv, Kind
  <2>9. Evictions' => Evictions
    BY <2>1, <2>7 DEF Evictions
  <2>10. ApartInv'
    <3>1. "done" \notin Held
      BY DEF Held
    <3>. QED BY <2>1, <2>7, <3>1, ApartMoves
  <2>. QED BY <2>1, <2>8, <2>9, <2>10, FSends
\* cancel: it takes up the transaction of an intent.
<1>FCancelLoads. ASSUME NEW c \in Cancellers, CancelLoad(c)
                 PROVE  FInv'
  <2>. USE <1>FCancelLoads
  <2>. USE DEF FInv
  <2>0. c \in Tasks /\ c # Refiller
    BY Cancelling
  <2>1. /\ pc[c] = "new" /\ Alone(c) /\ UNCHANGED <<handles, used, pool, ledger, tickVars>>
    BY <2>0, StartsAlone DEF CancelLoad, walletVars, chainVars, OInv
  <2>2. Wire' = Wire
    BY <2>1, WireSame
  <2>3. EvictInv' /\ (Evictions' => Evictions)
    BY <2>1, <2>2, MarkingSame, SettledSame, EvictKeeps
  <2>4. ~Evictions /\ ~Evictions'
    <3>1. pc[c] \notin {"record", "done"}
      BY <2>1
    <3>. QED BY <2>3, <3>1 DEF TargetInv
  <2>5. \A x \in DOMAIN handles' : handles'[x].status.kind = "Replaced" =>
           x \in DOMAIN handles /\ Kind(x) = "Replaced"
    BY <2>1 DEF Kind
  <2>6. CASE Return(c)
    <3>1. Goto(c, "done") /\ "done" \notin Aiming /\ "done" \notin {"cancel", "record"}
      BY <2>6 DEF Return, Aiming
    <3>. QED BY <2>1, <2>3, <2>4, <2>5, <3>1, FCancels
  <2>7. CASE ~Return(c)
    <3>1. PICK id \in DOMAIN handles :
             /\ job' = [job EXCEPT ![c] = Job(id, handles[id], handles[id].signed, FALSE)]
             /\ Goto(c, "poison")
      BY <2>7 DEF CancelLoad
    <3>2. job'[c].id = id
      <4>1. job'[c] = Job(id, handles[id], handles[id].signed, FALSE)
        BY <2>0, <3>1 DEF LInv, JobInv
      <4>. QED BY SMT, <4>1 DEF Job
    <3>3. id.intent \in Intents
      BY <2>4 DEF Evictions
    <3>4. "poison" \notin {"cancel", "record"}
      OBVIOUS
    <3>. QED BY <2>1, <2>3, <2>4, <2>5, <3>1, <3>2, <3>3, <3>4, FCancels
  <2>. QED BY <2>6, <2>7
\* cancel: the mark, and its withdrawal.
<1>FCancelMarks. ASSUME NEW c \in Cancellers,
                        CancelPoison(c) \/ CancelUnpoison(c)
                 PROVE  FInv'
  <2>. USE <1>FCancelMarks
  <2>. USE DEF FInv
  <2>0. c \in Tasks
    BY Cancelling
  <2>1. pc[c] \in {"poison", "unpoison"} /\ UNCHANGED <<used, pool, ledger, tickVars>>
    BY DEF CancelPoison, CancelUnpoison, chainVars
  <2>2. /\ pc[c] \in {"poison", "cancel", "unpoison", "record"} /\ pc[c] \in Aiming
        /\ pc[c] \notin {"record", "done"}
    BY <2>1 DEF Aiming
  <2>3. PICK id : id = job[c].id
    OBVIOUS
  <2>4. Alone(c) /\ id \in DOMAIN handles /\ handles[id] = job[c].rec
    BY <2>2, <2>3, CancelRuns
  <2>5. id.intent \in Intents /\ ~Evictions
    BY <2>2, <2>3 DEF TargetInv
  <2>6. Wire' = Wire
    BY <2>1, WireSame
  <2>7. PICK b, rec, l :
           /\ rec = Cancelled(handles[id], b) /\ Put(id, rec) /\ Goto(c, l)
           /\ \/ b = TRUE /\ l = "cancel" /\ job' = [job EXCEPT ![c] = Job(job[c].id, rec, job[c].basis, FALSE)]
              \/ l = "done"
    <3>1. CASE CancelPoison(c)
      <4>1. ~Fault("store")
        BY DEF Calm, Fault
      <4>. QED BY <2>3, <2>4, <3>1, <4>1 DEF CancelPoison
    <3>2. CASE CancelUnpoison(c)
      BY <2>3, <2>4, <3>2, PutLands DEF CancelUnpoison, Return
    <3>. QED BY <3>1, <3>2
  <2>8. /\ Settling /\ DOMAIN handles' = DOMAIN handles /\ handles'[id].cancelled = b
        /\ \A x \in DOMAIN handles' : handles'[x].status.kind = "Replaced" =>
              x \in DOMAIN handles /\ Kind(x) = "Replaced"
    BY <2>4, <2>7, FlagKeeps
  <2>9. EvictInv' /\ ~Evictions'
    <3>1. \A t \in Wire : t.intent \in Intents \cup {Cancel, "foreign"} /\ t.intent # Cancel
      BY <2>5 DEF EvictInv, Evictions
    <3>2. \A y \in DOMAIN handles : y.intent \in Intents
      BY <2>5 DEF Evictions
    <3>. QED BY <2>6, <2>8, <3>1, <3>2 DEF EvictInv, Evictions
  <2>10. CASE l = "done"
    <3>1. l \notin Aiming /\ l \notin {"cancel", "record"}
      BY <2>10 DEF Aiming
    <3>. QED BY <2>1, <2>4, <2>7, <2>8, <2>9, <3>1, FCancels
  <2>11. CASE b = TRUE /\ job' = [job EXCEPT ![c] = Job(job[c].id, rec, job[c].basis, FALSE)]
    <3>1. job'[c].id = id
      <4>1. job'[c] = Job(job[c].id, rec, job[c].basis, FALSE)
        BY <2>0, <2>11 DEF LInv, JobInv
      <4>. QED BY SMT, <2>3, <4>1 DEF Job
    <3>2. handles'[job'[c].id].cancelled
      <4>1. handles'[id].cancelled
        BY SMT, <2>8, <2>11
      <4>. QED BY <3>1, <4>1
    <3>. QED BY <2>1, <2>4, <2>5, <2>7, <2>8, <2>9, <3>1, <3>2, FCancels
  <2>. QED BY <2>7, <2>10, <2>11
\* cancel: the self-send goes where its target is marked.
<1>FCancelSubmits. ASSUME NEW c \in Cancellers, CancelSubmit(c)
                   PROVE  FInv'
  <2>. USE <1>FCancelSubmits
  <2>. USE DEF FInv
  <2>0. c \in Tasks
    BY Cancelling
  <2>1. pc[c] = "cancel" /\ UNCHANGED <<handles, used, ledger, tickVars>>
    BY DEF CancelSubmit, walletVars
  <2>2. /\ pc[c] \in {"poison", "cancel", "unpoison", "record"} /\ pc[c] \in Aiming
        /\ pc[c] \notin {"record", "done"} /\ pc[c] \in {"cancel", "record"}
    BY <2>1 DEF Aiming
  <2>3. PICK id : id = job[c].id
    OBVIOUS
  <2>4. Alone(c)
    BY <2>2, CancelRuns
  <2>5. id.intent \in Intents /\ ~Evictions /\ handles[id].cancelled
    BY <2>2, <2>3 DEF TargetInv
  <2>6. Marked(id.nonce)
    BY <2>2, <2>3, TargetMarked
  <2>7. /\ \/ UNCHANGED pc
           \/ Goto(c, "unpoison") \/ Goto(c, "record")
        /\ \/ UNCHANGED job
           \/ job' = [job EXCEPT ![c] = Job(job[c].id, job[c].rec, handles[job[c].id].signed, TRUE)]
    BY DEF CancelSubmit
  <2>8. job'[c].id = id
    <3>1. CASE UNCHANGED job
      BY <2>3, <3>1
    <3>2. CASE job' = [job EXCEPT ![c] = Job(job[c].id, job[c].rec, handles[job[c].id].signed, TRUE)]
      <4>1. job'[c] = Job(job[c].id, job[c].rec, handles[job[c].id].signed, TRUE)
        BY <2>0, <3>2 DEF LInv, JobInv
      <4>. QED BY SMT, <2>3, <4>1 DEF Job
    <3>. QED BY <2>7, <3>1, <3>2
  <2>9. handles'[job'[c].id].cancelled /\ job'[c].id.intent \in Intents
    BY <2>1, <2>5, <2>8
  <2>10. PICK tx : tx = CancelTx(c)
    OBVIOUS
  <2>11. tx.intent = Cancel /\ tx.nonce = id.nonce
    BY <2>3, <2>10 DEF CancelTx, Tx, Id
  <2>12. PICK l : /\ Goto(c, l) \/ (UNCHANGED pc /\ l = pc[c])
                  /\ l = "record" \/ UNCHANGED pool
                  /\ UNCHANGED pool \/ \E result : Submit(tx, result)
    <3>1. CASE UNCHANGED pool
      BY <2>7, <3>1
    <3>2. CASE ~UNCHANGED pool
      <4>1. PICK result : /\ Submit(tx, result)
                          /\ result = "sent" => Goto(c, "record")
        BY <2>10, <3>2 DEF CancelSubmit
      <4>2. result = "sent"
        BY <2>1, <3>2, <4>1, WireSubmits
      <4>. QED BY <4>1, <4>2
    <3>. QED BY <3>1, <3>2
  <2>13. \A t \in Wire' : t \in Wire \/ t = tx
    BY <2>1, <2>12, WireSame, WireSubmits
  <2>14. \A n : Marked(n) => Marked(n)'
    BY <2>1, MarkingSame DEF Marking
  <2>15. EvictInv'
    <3>1. ASSUME NEW t \in Wire'
          PROVE  /\ t.intent \in Intents \cup {Cancel, "foreign"}
                 /\ t.intent = Cancel => Marked(t.nonce)'
      BY <2>6, <2>11, <2>13, <2>14 DEF EvictInv
    <3>2. ASSUME NEW y \in DOMAIN handles, y.intent \notin Intents, Kind(y) # "Failed"
          PROVE  Marked(y.nonce)'
      BY <2>14, <3>2 DEF EvictInv
    <3>. QED BY <2>1, <3>1, <3>2 DEF EvictInv, Kind
  <2>16. l \notin {"record", "done"} => ~Evictions'
    <3>1. UNCHANGED pool => Wire' = Wire
      BY <2>1, WireSame
    <3>. QED BY <2>1, <2>5, <2>12, <3>1 DEF Evictions
  <2>17. \A x \in DOMAIN handles' : handles'[x].status.kind = "Replaced" =>
            x \in DOMAIN handles /\ Kind(x) = "Replaced"
    BY <2>1 DEF Kind
  <2>. QED BY <2>1, <2>4, <2>9, <2>12, <2>15, <2>16, <2>17, FCancels
\* cancel: the handle of the self-send.
<1>FCancelRecords. ASSUME NEW c \in Cancellers, CancelRecord(c)
                   PROVE  FInv'
  <2>. USE <1>FCancelRecords
  <2>. USE DEF FInv
  <2>0. c \in Tasks /\ Cancel \notin Intents
    BY Cancelling
  <2>1. pc[c] = "record" /\ UNCHANGED <<used, pool, ledger, tickVars>> /\ Goto(c, "done")
    BY DEF CancelRecord, Return, chainVars
  <2>2. pc[c] \in {"poison", "cancel", "unpoison", "record"} /\ pc[c] \in {"cancel", "record"}
    BY <2>1
  <2>3. Alone(c) /\ Marked(job[c].id.nonce)
    BY <2>2, CancelRuns, TargetMarked
  <2>4. PICK id : id = Id(Cancel, job[c].id.nonce)
    OBVIOUS
  <2>5. PICK rec : Put(id, rec)
    BY <2>4, PutLands DEF CancelRecord
  <2>6. ASSUME NEW x \in DOMAIN handles', x # id
        PROVE  x \in DOMAIN handles /\ handles'[x] = handles[x]
    <3>1. /\ DOMAIN handles' = DOMAIN handles \cup {id}
          /\ \A y \in DOMAIN handles : y # id => handles'[y] = handles[y]
      BY <2>5, PutReads
    <3>. QED BY <2>6, <3>1
  <2>7. id.intent \notin Intents /\ Marked(id.nonce)
    BY <2>0, <2>3, <2>4 DEF Id
  <2>8. ASSUME NEW n, Marked(n) PROVE Marked(n)'
    BY <2>1, <2>6, <2>7, <2>8 DEF Marked, Kind
  <2>9. Wire' = Wire
    BY <2>1, WireSame
  <2>10. EvictInv'
    <3>1. ASSUME NEW t \in Wire
          PROVE  /\ t.intent \in Intents \cup {Cancel, "foreign"}
                 /\ t.intent = Cancel => Marked(t.nonce)'
      BY <2>8 DEF EvictInv
    <3>2. ASSUME NEW y \in DOMAIN handles', y.intent \notin Intents,
                 handles'[y].status.kind # "Failed"
          PROVE  Marked(y.nonce)'
      <4>1. CASE y = id
        BY <2>7, <2>8, <4>1
      <4>2. CASE y # id
        BY <2>6, <2>8, <3>2, <4>2 DEF EvictInv, Kind
      <4>. QED BY <4>1, <4>2
    <3>. QED BY <2>9, <3>1, <3>2 DEF EvictInv, Kind
  <2>11. \A x \in DOMAIN handles' :
            x.intent \in Intents /\ handles'[x].status.kind = "Replaced" =>
               x \in DOMAIN handles /\ Kind(x) = "Replaced"
    BY <2>6, <2>7 DEF Kind
  <2>12. "done" \notin Aiming /\ "done" \notin {"cancel", "record"}
    BY DEF Aiming
  <2>. QED BY <2>1, <2>3, <2>10, <2>11, <2>12, FCancels
\* tick: it reads, or broadcasts a copy of what is on file.
<1>FTickReads. ASSUME \/ TickStart \/ ConfirmLoad \/ EscalateLoad
                      \/ ReadCycle \/ ResetNonces \/ RefillDone \/ TickEnd \/ TickError
                      \/ Recover \/ BumpCheck \/ BumpSubmit
               PROVE  FInv'
  <2>. USE <1>FTickReads
  <2>. USE DEF FInv
  <2>1. UNCHANGED <<handles, ledger, taskVars>> /\ phase' # "put"
    BY DEF TickStart, ConfirmLoad, EscalateLoad, ReadCycle, ResetNonces, RefillDone, TickEnd,
       TickError, Recover, BumpCheck, BumpSubmit, walletVars, chainVars
  <2>2. Quiet
    <3>1. \/ phase \notin {"idle", "refill"} \/ (phase = "idle" /\ MayStart)
          \/ (phase = "refill" /\ pc[Refiller] = "done")
      BY DEF TickStart, ConfirmLoad, EscalateLoad, ReadCycle, ResetNonces, RefillDone, TickEnd,
         TickError, Recover, BumpCheck, BumpSubmit
    <3>. QED BY <3>1, TickQuiet
  <2>3. used \subseteq used'
    <3>1. CASE ResetNonces
      BY SMT, <3>1 DEF ResetNonces, AReset
    <3>2. CASE ~ResetNonces
      <4>1. UNCHANGED used
        BY <3>2 DEF TickStart, ConfirmLoad, EscalateLoad, ReadCycle, RefillDone, TickEnd,
           TickError, Recover, BumpCheck, BumpSubmit, walletVars
      <4>. QED BY <4>1
    <3>. QED BY <3>1, <3>2
  <2>4. ASSUME NEW t \in Wire'
        PROVE  t \in Wire \/ \E id \in DOMAIN todo : t.intent = id.intent /\ t.nonce = id.nonce
    <3>0. ASSUME NEW id \in DOMAIN todo, NEW r, NEW result, Submit(Tx(id, r), result)
          PROVE  t \in Wire \/ (t.intent = id.intent /\ t.nonce = id.nonce)
      <4>1. PICK tx : tx = Tx(id, r)
        OBVIOUS
      <4>2. tx.intent = id.intent /\ tx.nonce = id.nonce
        BY <4>1 DEF Tx
      <4>3. t \in Wire \/ t = tx
        BY <2>1, <3>0, <4>1, WireSubmits
      <4>. QED BY <4>2, <4>3
    <3>1. CASE Recover
      <4>1. PICK id \in DOMAIN todo : \E result : Submit(Tx(id, todo[id].signed), result)
        BY <3>1 DEF Recover
      <4>. QED BY <3>0, <4>1
    <3>2. CASE BumpSubmit
      <4>1. PICK result : Submit(Tx(cur, todo[cur].signed + 1), result)
        BY <3>2 DEF BumpSubmit
      <4>2. cur \in DOMAIN todo
        BY <3>2 DEF BumpSubmit, LInv, TodoInv
      <4>. QED BY <3>0, <4>1, <4>2
    <3>3. CASE ~Recover /\ ~BumpSubmit
      <4>1. UNCHANGED <<pool, ledger>>
        BY <3>3 DEF TickStart, ConfirmLoad, EscalateLoad, ReadCycle, ResetNonces, RefillDone,
           TickEnd, TickError, BumpCheck, chainVars
      <4>. QED BY <4>1, WireSame
    <3>. QED BY <3>1, <3>2, <3>3
  <2>5. ASSUME NEW id \in DOMAIN todo
        PROVE  id.intent \in Intents \/ (id.intent = Cancel /\ Marked(id.nonce) /\ Evictions)
    <3>1. id \in DOMAIN handles /\ id.intent \in Intents \cup {Cancel} /\ Kind(id) # "Failed"
      BY DEF LInv, TodoInv, OInv, StoreInv, UInv, DueInv
    <3>. QED BY <3>1 DEF EvictInv, Evictions
  <2>6. EvictInv' /\ (Evictions' => Evictions)
    <3>1. \A t \in Wire' : \/ t \in Wire \/ t.intent \in Intents \cup {"foreign"}
                           \/ t.intent = Cancel /\ Marked(t.nonce) /\ Evictions
      BY <2>4, <2>5
    <3>. QED BY <2>1, <2>3, <3>1, MarkingSame, SettledSame, EvictKeeps
  <2>7. ApartInv' /\ TargetInv'
    BY <2>1, <2>2, <2>6, FTicks DEF taskVars
  <2>8. MarkInv'
    <3>1. \/ \E kinds : todo' = Snapshot(kinds)
          \/ todo' = todo \/ \E id : todo' = Without(todo, id)
      BY DEF TickStart, ConfirmLoad, EscalateLoad, ReadCycle, ResetNonces, RefillDone,
         TickEnd, TickError, Recover, BumpCheck, BumpSubmit
    <3>2. CASE \E kinds : todo' = Snapshot(kinds)
      BY <2>1, <3>2 DEF MarkInv, Snapshot
    <3>3. CASE todo' = todo \/ \E id : todo' = Without(todo, id)
      BY <2>1, <3>3, WithoutOne DEF MarkInv
    <3>. QED BY <3>1, <3>2, <3>3
  <2>9. TakenInv'
    BY <2>1, TakenKeeps DEF Kind
  <2>. QED BY <2>6, <2>7, <2>8, <2>9
\* tick: advance reads the chain for one handle.
<1>FAdvances. ASSUME Advance
              PROVE  FInv'
  <2>. USE <1>FAdvances
  <2>. USE DEF FInv
  <2>1. UNCHANGED <<handles, used, pool, ledger, pc>> /\ phase = "confirm"
    BY DEF Advance, walletVars, chainVars, taskVars
  <2>2. Quiet
    <3>1. phase \notin {"idle", "refill"}
      BY <2>1
    <3>. QED BY <3>1, TickQuiet
  <2>3. Wire' = Wire
    BY <2>1, WireSame
  <2>4. EvictInv' /\ (Evictions' => Evictions)
    BY <2>1, <2>3, MarkingSame, SettledSame, EvictKeeps
  <2>5. ApartInv' /\ TargetInv'
    BY <2>1, <2>2, <2>4, FTicks
  <2>6. PICK id \in DOMAIN todo :
           \/ /\ todo' = [todo EXCEPT ![id] = WithStatus(todo[id], NextStatus(id, todo[id]))]
              /\ cur' = id /\ phase' = "put"
           \/ todo' = Without(todo, id) /\ phase' = phase
    BY DEF Advance
  <2>7. CASE todo' = Without(todo, id) /\ phase' = phase
    <3>1. MarkInv'
      BY <2>1, <2>7, WithoutOne DEF MarkInv
    <3>2. TakenInv'
      BY <2>1, <2>7, TakenKeeps DEF Kind
    <3>. QED BY <2>4, <2>5, <3>1, <3>2
  <2>8. CASE /\ todo' = [todo EXCEPT ![id] = WithStatus(todo[id], NextStatus(id, todo[id]))]
             /\ cur' = id /\ phase' = "put"
    <3>1. PICK next : next = NextStatus(id, todo[id])
      OBVIOUS
    <3>2. /\ DOMAIN todo' = DOMAIN todo
          /\ todo'[id] = WithStatus(todo[id], next)
          /\ \A x \in DOMAIN todo : x # id => todo'[x] = todo[x]
      BY <2>8, <3>1
    <3>3. todo'[id].status = next
      BY SMT, <3>2 DEF WithStatus, Rec
    <3>4. todo'[id].cancelled = todo[id].cancelled
      BY SMT, <3>2 DEF WithStatus, Rec
    <3>5. MarkInv'
      <4>1. ASSUME NEW x \in DOMAIN todo', x.intent \in Intents
            PROVE  todo'[x].cancelled = handles'[x].cancelled
        <5>1. todo[x].cancelled = handles[x].cancelled
          BY <3>2, <4>1 DEF MarkInv
        <5>2. todo'[x].cancelled = todo[x].cancelled
          BY <3>2, <3>4
        <5>. QED BY SMT, <2>1, <5>1, <5>2
      <4>. QED BY <4>1 DEF MarkInv
    <3>6. ASSUME id.intent \in Intents, next.kind = "Replaced"
          PROVE  ledger[id.nonce + 1].intent = "foreign"
      BY <2>1, <3>1, <3>6, TakenElsewhere
    <3>7. TakenInv'
      <4>1. ReplacedIsForeign'
        BY <2>1 DEF TakenInv, ReplacedIsForeign
      <4>. QED BY <2>1, <2>8, <3>3, <3>6, <4>1 DEF TakenInv
    <3>. QED BY <2>4, <2>5, <3>5, <3>7
  <2>. QED BY <2>6, <2>7, <2>8
\* tick: a copy is written back.
<1>FTickPuts. ASSUME AdvancePut \/ BumpPut
              PROVE  FInv'
  <2>. USE <1>FTickPuts
  <2>. USE DEF FInv
  <2>1. /\ phase \in {"put", "bumpPut"} /\ phase' # "put" /\ todo' = Without(todo, cur)
        /\ UNCHANGED <<used, pool, ledger>>
        /\ UNCHANGED pc \/ Goto(Refiller, "new")
    BY DEF AdvancePut, BumpPut, chainVars, taskVars
  <2>2. Quiet
    <3>1. phase \notin {"idle", "refill"}
      BY <2>1
    <3>. QED BY <3>1, TickQuiet
  <2>3. PICK rec : /\ Put(cur, rec) /\ rec.status = todo[cur].status
                   /\ rec.cancelled = todo[cur].cancelled
    <3>1. CASE AdvancePut
      <4>1. ~Fault("store")
        BY DEF Calm, Fault
      <4>. QED BY <3>1, <4>1 DEF AdvancePut
    <3>2. CASE BumpPut
      <4>1. PICK rec : rec = Bumped(todo[cur], todo[cur].signed + 1)
        OBVIOUS
      <4>2. rec.status = todo[cur].status
        BY SMT, <4>1 DEF Bumped, Rec
      <4>3. rec.cancelled = todo[cur].cancelled
        BY SMT, <4>1 DEF Bumped, Rec
      <4>. QED BY <3>2, <4>1, <4>2, <4>3, PutLands DEF BumpPut
    <3>. QED BY <3>1, <3>2
  <2>4. cur \in DOMAIN todo /\ cur \in DOMAIN handles
    BY <2>1 DEF LInv, TodoInv
  <2>5. /\ DOMAIN handles' = DOMAIN handles
        /\ handles'[cur] = rec
        /\ \A x \in DOMAIN handles : x # cur => handles'[x] = handles[x]
    <3>1. /\ DOMAIN handles' = DOMAIN handles \cup {cur}
          /\ handles'[cur] = rec
          /\ \A x \in DOMAIN handles : x # cur => handles'[x] = handles[x]
      BY <2>3, PutReads
    <3>. QED BY <2>4, <3>1
  <2>6. Kind(cur) # "Failed"
    BY <2>4 DEF UInv, DueInv
  <2>7. cur.intent \in Intents => rec.cancelled = handles[cur].cancelled
    <3>. SUFFICES ASSUME cur.intent \in Intents PROVE rec.cancelled = handles[cur].cancelled
      OBVIOUS
    <3>1. todo[cur].cancelled = handles[cur].cancelled
      BY <2>4 DEF MarkInv
    <3>. QED BY SMT, <2>3, <3>1
  <2>8. Marking /\ Settling
    <3>1. cur.intent \in Intents => (handles[cur].cancelled => rec.cancelled)
      BY <2>7
    <3>. QED BY <2>1, <2>3, <2>4, <2>6, <3>1, MarkingPut, SettledPut
  <2>9. EvictInv' /\ (Evictions' => Evictions)
    BY <2>1, <2>8, WireSame, EvictKeeps
  <2>10. ApartInv' /\ TargetInv'
    BY <2>1, <2>2, <2>9, FTicks DEF LInv, JobInv
  <2>11. MarkInv'
    <3>1. ASSUME NEW x \in DOMAIN todo', x.intent \in Intents
          PROVE  todo'[x].cancelled = handles'[x].cancelled
      <4>1. x \in DOMAIN todo /\ x # cur /\ todo'[x] = todo[x]
        BY <2>1 DEF Without
      <4>2. x \in DOMAIN handles
        BY <4>1 DEF LInv, TodoInv
      <4>. QED BY <2>5, <3>1, <4>1, <4>2 DEF MarkInv
    <3>. QED BY <3>1 DEF MarkInv
  <2>12. TakenInv'
    <3>1. ASSUME cur.intent \in Intents, rec.status.kind = "Replaced"
          PROVE  ledger[cur.nonce + 1].intent = "foreign"
      <4>1. CASE phase = "put"
        BY <2>3, <3>1, <4>1 DEF TakenInv
      <4>2. CASE phase # "put"
        <5>1. todo[cur].status = handles[cur].status
          BY <2>4, <3>1, <4>2 DEF OInv, CopyInv
        <5>2. Kind(cur) = "Replaced"
          BY <2>3, <3>1, <5>1 DEF Kind
        <5>. QED BY <2>4, <3>1, <5>2 DEF TakenInv, ReplacedIsForeign, Kind
      <4>. QED BY <4>1, <4>2
    <3>2. ASSUME NEW x \in DOMAIN handles', x.intent \in Intents,
                 handles'[x].status.kind = "Replaced"
          PROVE  ledger'[x.nonce + 1].intent = "foreign"
      <4>1. CASE x = cur
        BY <2>1, <2>5, <3>1, <3>2, <4>1
      <4>2. CASE x # cur
        BY <2>1, <2>5, <3>2, <4>2 DEF TakenInv, ReplacedIsForeign
      <4>. QED BY <4>1, <4>2
    <3>. QED BY <2>1, <3>2 DEF TakenInv, ReplacedIsForeign
  <2>. QED BY <2>9, <2>10, <2>11, <2>12
\* The chain takes a transaction of the pool, or one from elsewhere.
<1>FMines. ASSUME Mine \/ MineForeign
           PROVE  FInv'
  <2>. USE <1>FMines
  <2>. USE DEF FInv
  <2>1. PICK t : Mined(t) /\ (t \in pool \/ t.intent = "foreign")
    <3>1. CASE Mine
      BY <3>1 DEF Mine
    <3>2. CASE MineForeign
      <4>1. \A n : Foreign(n).intent = "foreign"
        BY DEF Foreign
      <4>. QED BY <3>2, <4>1 DEF MineForeign
    <3>. QED BY <3>1, <3>2
  <2>2. /\ ledger' = Append(ledger, t) /\ pool' \subseteq pool
        /\ UNCHANGED <<handles, used, pc, job, phase, todo, cur>>
    BY <2>1 DEF Mined, walletVars, taskVars, tickVars
  <2>3. /\ Len(ledger) \in Nat /\ Len(ledger') = Len(ledger) + 1
        /\ \A k \in 1 .. Len(ledger) : ledger'[k] = ledger[k]
        /\ ledger'[Len(ledger) + 1] = t
    <3>. DEFINE R == {ledger[k] : k \in 1 .. Len(ledger)}
                S == R \cup {t}
    <3>1. ledger \in Seq(S)
      BY SMT DEF LInv, LedgerInv
    <3>. HIDE DEF S
    <3>. QED BY SMT, <2>2, <3>1 DEF S
  <2>4. \A k \in 1 .. Len(ledger') : k \in 1 .. Len(ledger) \/ k = Len(ledger) + 1
    BY SMT, <2>3
  <2>5. \A u \in Wire' : u \in Wire \/ u.intent = "foreign"
    <3>. SUFFICES ASSUME NEW u \in Wire' PROVE u \in Wire \/ u.intent = "foreign"
      OBVIOUS
    <3>1. u \in pool \/ \E k \in 1 .. Len(ledger') : u = ledger'[k]
      BY <2>2 DEF Wire
    <3>. QED BY <2>1, <2>3, <2>4, <3>1 DEF Wire
  <2>6. Cancel # "foreign"
    BY DEF Cancel
  <2>7. EvictInv' /\ (Evictions' => Evictions)
    BY <2>2, <2>5, MarkingSame, SettledSame, EvictKeeps
  <2>8. ApartInv'
    BY <2>2, <2>5, <2>6 DEF ApartInv
  <2>9. TargetInv' /\ MarkInv'
    BY <2>2, <2>7 DEF TargetInv, MarkInv
  <2>10. ASSUME NEW n \in Nat, n < Len(ledger) PROVE ledger'[n + 1] = ledger[n + 1]
    <3>1. n + 1 \in 1 .. Len(ledger)
      BY SMT, <2>3, <2>10
    <3>. QED BY <2>3, <3>1
  <2>11. TakenInv'
    <3>1. ASSUME NEW x \in DOMAIN handles, x.intent \in Intents, Kind(x) = "Replaced"
          PROVE  ledger'[x.nonce + 1].intent = "foreign"
      <4>1. x.nonce \in Nat /\ x.nonce < Len(ledger)
        BY <3>1 DEF OInv, StoreInv
      <4>. QED BY <2>10, <3>1, <4>1 DEF TakenInv, ReplacedIsForeign, Kind
    <3>2. ASSUME phase = "put", cur.intent \in Intents, todo[cur].status.kind = "Replaced"
          PROVE  ledger'[cur.nonce + 1].intent = "foreign"
      <4>1. cur \in DOMAIN handles /\ todo[cur].status.kind \in Gone
        BY <3>2 DEF LInv, TodoInv, Gone
      <4>2. cur.nonce \in Nat /\ cur.nonce < Len(ledger)
        BY <3>2, <4>1 DEF OInv, StoreInv, CopyInv
      <4>. QED BY <2>10, <3>2, <4>2 DEF TakenInv
    <3>. QED BY <2>2, <3>1, <3>2 DEF TakenInv, ReplacedIsForeign, Kind
  <2>. QED BY <2>7, <2>8, <2>9, <2>11
<1>1. ASSUME NEW p \in Senders, Send(p) PROVE FInv'
  BY <1>1, <1>FSendStarts, <1>FSendAllocates, <1>FSendPersists, <1>FSendSubmits, <1>FSendMarks,
     <1>FSendReleases DEF Send
<1>2. ASSUME NEW c \in Cancellers, CancelCall(c) PROVE FInv'
  BY <1>2, <1>FCancelLoads, <1>FCancelMarks, <1>FCancelSubmits, <1>FCancelRecords DEF CancelCall
<1>3. CASE Tick \/ TickError
  BY <1>3, <1>FTickReads, <1>FAdvances, <1>FTickPuts DEF Tick
<1>4. ~Crash
  BY DEF Calm, Crash, Fault
<1>5. CASE Mine \/ MineForeign
  BY <1>5, <1>FMines
<1>6. CASE UNCHANGED vars
  <2>1. UNCHANGED <<used, handles, pool, ledger, pc, job, phase, todo, cur>>
    BY <1>6 DEF vars, walletVars, chainVars, taskVars, tickVars
  <2>2. Wire' = Wire
    BY <2>1, WireSame
  <2>3. EvictInv' /\ (Evictions' => Evictions)
    BY <2>1, <2>2, MarkingSame, SettledSame, EvictKeeps DEF FInv
  <2>4. ApartInv'
    BY <2>1, <2>2 DEF FInv, ApartInv
  <2>5. TargetInv'
    BY <2>1, <2>3 DEF FInv, TargetInv
  <2>6. MarkInv' /\ TakenInv'
    BY <2>1 DEF FInv, MarkInv, TakenInv, ReplacedIsForeign
  <2>. QED BY <2>3, <2>4, <2>5, <2>6 DEF FInv
<1>. QED BY <1>1, <1>2, <1>3, <1>4, <1>5, <1>6 DEF Next

\* "Always a different sender's tx, since our own bumps mine as Mined"
\* (lifecycle.rs:76-77): under Calm, and with one cancel, what settles Replaced,
\* and is sent again, lost its nonce to a transaction from outside the wallet.
THEOREM ReplacedByForeign ==
    ASSUME Calm, OneCancel
    PROVE  Spec => []ReplacedIsForeign
<1>1. LInv /\ OInv /\ UInv /\ FInv /\ [Next]_vars => FInv'
  BY Zenon, FInvStep
<1>2. Spec => []LInv /\ []OInv /\ []UInv
  BY Zenon, LInvHolds, OInvHolds, UInvHolds
<1>3. FInv => ReplacedIsForeign
  BY Zenon DEF FInv, TakenInv
<1>. QED BY <1>1, <1>2, <1>3, FInvInit, PTL DEF Spec
=============================================================================
