--------------------------- MODULE RoutingProofs ---------------------------
(***************************************************************************)
(* For every set of intents and routes, whatever relays and nodes answer,  *)
(* and over any number of crashes, lost answers and failed writes: what    *)
(* was asked to stay private never goes public, and a handle that is Sent  *)
(* was handed over.  Without faults, what has gone public stays public.    *)
(***************************************************************************)
EXTENDS Routing, TLAPS

\* The user asked for this intent to stay private.
Stays(i) == asked[i].via # "public" /\ asked[i].stay

\* Every copy of a route that is to stay private is the one that was asked for.
Kept(id, rec) ==
    /\ id.intent \in DOMAIN asked
    /\ Stays(id.intent) => rec.route = asked[id.intent]

\* Some channel may have this handle's transaction.
HandedOver(id) == \E w \in wire : w.id = id /\ w.taken

\* The operation under way, if any, has a copy that satisfies the same facts
\* as the handles in the store.
OpInv ==
    op # Idle =>
        /\ Kept(op.id, op.rec)
        /\ op.rec.status = "Sent" => HandedOver(op.id)

StoreInv == \A id \in DOMAIN handles : Kept(id, handles[id])

RInv ==
    /\ TypeOK
    /\ StoreInv
    /\ OpInv
    /\ \A w \in wire : w.id.intent \in DOMAIN asked
    /\ NeverLeaks
    /\ NoPhantom

\* The initial states satisfy the invariant: nothing is stored, under way or
\* on the wire.
LEMMA RInvInit == Init => RInv
BY RoutingAssumption DEF Init, RInv, StoreInv, OpInv, TypeOK, NeverLeaks, NoPhantom, Idle

\* What Submit reports as taken, or as possibly taken, is on the wire.
LEMMA SubmitHandsOver ==
    ASSUME NEW id, NEW rec, NEW result,
           Submit(id, rec, result),
           result = Ok \/ IsTransient(result) \/ IsAlreadyAccepted(result)
    PROVE  \E w \in wire' : w.id = id /\ w.taken
<1>1. Channel(rec.route) # "none"
  BY DEF Submit, Relay, Ok, IsTransient, IsAlreadyAccepted
<1>2. PICK answer \in Answers :
          /\ Answered(id, rec, answer)
          /\ result = IF rec.route.via = "flashbots"
                      THEN ClassifyFlashbots(answer) ELSE SendRaw(answer)
  BY <1>1 DEF Submit
<1>3. answer \notin {"underpriced", "refused", "unauthorized"}
  BY <1>2 DEF ClassifyFlashbots, SendRaw, Rpc, Relay, Ok, IsTransient,
              IsAlreadyAccepted, Answers
<1>4. latest' \in wire' /\ latest'.id = id /\ latest'.taken
  BY Zenon, <1>2, <1>3 DEF Answered
<1> QED BY <1>4

\* Submit adds at most one hand-over to the wire, on its route's channel.
LEMMA SubmitOnWire ==
    ASSUME NEW id \in Ids, NEW rec, NEW result, Submit(id, rec, result), TypeOK
    PROVE  /\ wire \subseteq wire' /\ wire' \subseteq Wire
           /\ wire' # {} => latest' \in wire'
           /\ faults' \in 0 .. MaxFaults
           /\ \A w \in wire' \ wire : w.id = id /\ w.channel = Channel(rec.route)
<1>1. CASE Channel(rec.route) = "none"
  BY <1>1 DEF Submit, TypeOK
<1>2. CASE Channel(rec.route) # "none"
  <2>1. PICK answer \in Answers : Answered(id, rec, answer)
    BY <1>2 DEF Submit
  <2>2. Channel(rec.route) \in {"public", "private"}
    BY <1>2 DEF Channel
  <2>3. latest' \in Wire /\ latest'.id = id /\ latest'.channel = Channel(rec.route)
    BY <2>1, <2>2 DEF Answered, Wire
  <2>4. wire' = wire \cup {latest'}
    BY <2>1 DEF Answered
  <2>5. faults' \in 0 .. MaxFaults
    BY <2>1, RoutingAssumption DEF Answered, Fault, TypeOK
  <2> QED BY <2>3, <2>4, <2>5 DEF TypeOK
<1> QED BY <1>1, <1>2

\* A submission of a copy that kept its route leaks nothing.
LEMMA SubmitKeeps ==
    ASSUME NEW id \in Ids, NEW rec, NEW result, Submit(id, rec, result),
           RInv, Kept(id, rec), UNCHANGED asked
    PROVE  /\ \A w \in wire' : w.id.intent \in DOMAIN asked'
           /\ NeverLeaks'
<1>1. \A w \in wire' \ wire : w.id = id /\ w.channel = Channel(rec.route)
  BY SubmitOnWire DEF RInv
<1>2. ASSUME NEW w \in wire', w.channel = "public"
      PROVE  ~Stays(w.id.intent)
  <2>1. CASE w \in wire
    BY <1>2, <2>1 DEF RInv, NeverLeaks, Stays
  <2>2. CASE w \notin wire
    <3>1. w.id = id /\ rec.route.via = "public"
      BY <1>1, <1>2, <2>2 DEF Channel
    <3> QED BY <3>1 DEF Kept, Stays
  <2> QED BY <2>1, <2>2
<1>3. \A w \in wire' : w.id.intent \in DOMAIN asked
  BY <1>1 DEF RInv, Kept
<1> QED
  BY <1>2, <1>3 DEF NeverLeaks, Stays

\* Writing a handle whose copy kept its route, and is Sent only if it was
\* handed over, keeps the store's part of the invariant.
LEMMA PutKeeps ==
    ASSUME NEW id \in Ids, NEW rec \in Record, RInv, Put(id, rec),
           Kept(id, rec), rec.status = "Sent" => HandedOver(id),
           UNCHANGED <<asked, wire>>
    PROVE  /\ DOMAIN handles' \subseteq Ids
           /\ \A x \in DOMAIN handles' : handles'[x] \in Record
           /\ StoreInv'
           /\ NoPhantom'
<1>1. /\ DOMAIN handles' = DOMAIN handles \cup {id}
      /\ \A x \in DOMAIN handles' : handles'[x] = IF x = id THEN rec ELSE handles[x]
  BY DEF Put
<1>2. DOMAIN handles' \subseteq Ids
  BY <1>1 DEF RInv, TypeOK
<1>3. ASSUME NEW x \in DOMAIN handles'
      PROVE  /\ handles'[x] \in Record /\ Kept(x, handles'[x])
             /\ handles'[x].status = "Sent" => HandedOver(x)
  <2>1. CASE x = id
    BY <1>1, <2>1
  <2>2. CASE x # id
    BY <1>1, <2>2 DEF RInv, TypeOK, StoreInv, NoPhantom, HandedOver
  <2> QED BY <2>1, <2>2
<1> QED
  BY <1>2, <1>3 DEF StoreInv, Kept, Stays, NoPhantom, HandedOver

\* A step that leaves what was asked and what is stored alone, and only adds
\* to the wire, keeps the store's part of the invariant.
LEMMA StoreKept ==
    ASSUME RInv, UNCHANGED <<asked, handles>>, wire \subseteq wire'
    PROVE  StoreInv' /\ NoPhantom'
<1>1. StoreInv'
  BY DEF RInv, StoreInv, Kept, Stays
<1>2. NoPhantom'
  BY DEF RInv, NoPhantom
<1> QED BY <1>1, <1>2

\* A first record is one the store may hold.
LEMMA FreshRecord ==
    ASSUME NEW r \in Routes
    PROVE  Fresh(r) \in Record /\ Fresh(r).status = "Pending" /\ Fresh(r).route = r
BY RoutingAssumption DEF Fresh, Record, Statuses

\* Send: the first record is stored with the route that is asked for.
LEMMA SendStep ==
    ASSUME RInv, NEW i \in Intents, NEW r \in Asked, Send(i, r)
    PROVE  RInv'
<1> DEFINE id == [intent |-> i, role |-> "send"]
<1>1. id \in Ids /\ id.intent = i /\ r \in Routes
  BY DEF Ids, Roles, Routes
<1>2. /\ DOMAIN asked' = DOMAIN asked \cup {i} /\ asked'[i] = r
      /\ \A j \in DOMAIN asked : asked'[j] = asked[j]
  BY DEF Send
<1>3. /\ DOMAIN handles' = DOMAIN handles \cup {id} /\ handles'[id] = Fresh(r)
      /\ \A x \in DOMAIN handles \ {id} : handles'[x] = handles[x]
  BY DEF Send, Put
<1>4. op' # Idle /\ op'.id = id /\ op'.rec = Fresh(r)
  BY DEF Send, Goto, Idle
<1>5. UNCHANGED <<wire, latest, relay, faults>>
  BY DEF Send
<1>6. Fresh(r) \in Record /\ Fresh(r).status = "Pending" /\ Fresh(r).route = r
  BY <1>1, FreshRecord
<1>7. Kept(id, Fresh(r))'
  BY <1>1, <1>2, <1>6 DEF Kept, Stays
<1>8. ASSUME NEW x \in DOMAIN handles, x # id
      PROVE  Kept(x, handles[x])'
  <2>1. Kept(x, handles[x]) /\ handles'[x] = handles[x]
    BY <1>3, <1>8 DEF RInv, StoreInv
  <2> QED BY <2>1, <1>2 DEF Kept, Stays
<1>9. TypeOK'
  BY <1>1, <1>2, <1>3, <1>4, <1>5, <1>6 DEF RInv, TypeOK
<1>10. StoreInv'
  BY <1>3, <1>7, <1>8 DEF StoreInv
<1>11. OpInv'
  BY <1>4, <1>6, <1>7 DEF OpInv
<1>12. \A w \in wire' : w.id.intent \in DOMAIN asked'
  BY <1>2, <1>5 DEF RInv
<1>13. NeverLeaks'
  BY <1>2, <1>5 DEF RInv, NeverLeaks
<1>14. NoPhantom'
  BY <1>3, <1>5, <1>6 DEF RInv, NoPhantom
<1> QED
  BY <1>9, <1>10, <1>11, <1>12, <1>13, <1>14 DEF RInv

\* The copy a bump makes is one the store may hold, below the ceiling.
LEMMA BumpedRecord ==
    ASSUME NEW r \in Record, r.broadcasts < MaxBroadcasts
    PROVE  Bumped(r) \in Record /\ Bumped(r).route = Escalated(r)
<1>1. Escalated(r) \in Routes
  BY DEF Escalated, Record, Routes
<1>2. r.broadcasts + 1 \in 1 .. MaxBroadcasts
  BY RoutingAssumption DEF Record
<1> QED BY <1>1, <1>2 DEF Bumped, Record

\* A step that hands a copy to its channel and leaves the store alone keeps
\* what the invariant says of the store and of the wire.
LEMMA SubmitStep ==
    ASSUME RInv, NEW id \in Ids, NEW rec, NEW result, Submit(id, rec, result),
           Kept(id, rec), UNCHANGED <<handles, relay, asked>>,
           op' # Idle => op'.id \in Ids /\ op'.rec \in Record,
           OpInv'
    PROVE  RInv'
<1>1. /\ wire \subseteq wire' /\ wire' \subseteq Wire
      /\ wire' # {} => latest' \in wire'
      /\ faults' \in 0 .. MaxFaults
  BY SubmitOnWire DEF RInv
<1>2. TypeOK'
  BY <1>1 DEF RInv, TypeOK
<1>3. StoreInv' /\ NoPhantom'
  BY <1>1, StoreKept
<1>4. (\A w \in wire' : w.id.intent \in DOMAIN asked') /\ NeverLeaks'
  BY SubmitKeeps
<1> QED
  BY <1>2, <1>3, <1>4 DEF RInv

\* send_with after the broadcast: Sent only if it was, or may have been, taken.
LEMMA SendSubmitStep == ASSUME RInv, SendSubmit PROVE RInv'
<1>1. op # Idle
  BY DEF SendSubmit, Idle
<1>2. op.id \in Ids /\ op.rec \in Record /\ Kept(op.id, op.rec)
  BY <1>1 DEF RInv, TypeOK, OpInv
<1>3. PICK result \in Results :
          /\ Submit(op.id, op.rec, result)
          /\ Goto("status", op.id, [op.rec EXCEPT !.status =
                IF result = Ok \/ IsTransient(result) \/ IsAlreadyAccepted(result)
                THEN "Sent" ELSE "Failed"])
  BY DEF SendSubmit
<1>4. UNCHANGED <<handles, relay, asked>>
  BY DEF SendSubmit
<1>5. /\ op'.id = op.id /\ op'.rec \in Record /\ op'.rec.route = op.rec.route
      /\ op'.rec.status = "Sent" =>
            result = Ok \/ IsTransient(result) \/ IsAlreadyAccepted(result)
  BY <1>2, <1>3 DEF Goto, Record, Statuses
<1>6. OpInv'
  <2>1. op'.rec.status = "Sent" => HandedOver(op.id)'
    BY <1>3, <1>5, SubmitHandsOver DEF HandedOver
  <2>2. Kept(op.id, op.rec)'
    BY <1>2, <1>4, <1>5 DEF Kept, Stays
  <2> QED BY <1>5, <2>1, <2>2 DEF OpInv, HandedOver
<1> QED
  BY <1>2, <1>3, <1>4, <1>5, <1>6, SubmitStep

\* recover: the stored copy, on the stored route.
LEMMA RecoverStep == ASSUME RInv, NEW id \in Ids, Recover(id) PROVE RInv'
<1>1. PICK result \in Results : Submit(id, handles[id], result)
  BY DEF Recover
<1>2. Kept(id, handles[id])
  BY DEF Recover, RInv, StoreInv
<1>3. op' = Idle /\ UNCHANGED <<handles, relay, asked>>
  BY DEF Recover
<1>4. OpInv'
  BY <1>3 DEF OpInv
<1> QED
  BY <1>1, <1>2, <1>3, <1>4, SubmitStep

\* bump: a route that is to stay private is not escalated.
LEMMA BumpStep == ASSUME RInv, NEW id \in Ids, Bump(id) PROVE RInv'
<1> DEFINE rec == Bumped(handles[id])
<1>1. PICK result \in Results :
          /\ Submit(id, rec, result)
          /\ IF result = Ok \/ IsAlreadyAccepted(result)
             THEN Goto("bumped", id, rec) ELSE UNCHANGED op
  BY DEF Bump
<1>2. /\ id \in DOMAIN handles /\ op = Idle /\ handles[id].broadcasts < MaxBroadcasts
      /\ UNCHANGED <<handles, relay, asked>>
  BY DEF Bump
<1>3. handles[id] \in Record /\ Kept(id, handles[id])
  BY <1>2 DEF RInv, TypeOK, StoreInv
<1>5. rec \in Record /\ rec.route = Escalated(handles[id])
  BY <1>2, <1>3, BumpedRecord
<1>6. Kept(id, rec)
  BY <1>3, <1>5 DEF Kept, Stays, Escalated
<1>7. CASE result = Ok \/ IsAlreadyAccepted(result)
  <2>1. op'.id = id /\ op'.rec = rec
    BY <1>1, <1>7 DEF Goto
  <2>2. HandedOver(id)'
    BY <1>1, <1>7, SubmitHandsOver DEF HandedOver
  <2>3. Kept(op.id, op.rec)'
    BY <1>2, <1>6, <2>1 DEF Kept, Stays
  <2>4. OpInv'
    BY <2>1, <2>2, <2>3 DEF OpInv, HandedOver
  <2> QED BY <1>1, <1>2, <1>5, <1>6, <2>1, <2>4, SubmitStep
<1>8. CASE ~(result = Ok \/ IsAlreadyAccepted(result))
  <2>1. op' = Idle
    BY <1>1, <1>2, <1>8
  <2>2. OpInv'
    BY <2>1 DEF OpInv
  <2> QED BY <1>1, <1>2, <1>6, <2>1, <2>2, SubmitStep
<1> QED BY <1>7, <1>8

\* cancel after its broadcast: the cancel's own copy, or the original again.
LEMMA CancelSubmitStep == ASSUME RInv, CancelSubmit PROVE RInv'
<1> DEFINE id  == [op.id EXCEPT !.role = "cancel"]
           rec == Fresh(op.rec.route)
<1>1. op # Idle
  BY DEF CancelSubmit, Idle
<1>2. op.id \in Ids /\ op.rec \in Record /\ Kept(op.id, op.rec)
  BY <1>1 DEF RInv, TypeOK, OpInv
<1>3. id \in Ids /\ id.intent = op.id.intent
  BY <1>2 DEF Ids, Roles
<1>4. rec \in Record /\ rec.route = op.rec.route
  BY <1>2, FreshRecord DEF Record
<1>5. Kept(id, rec)
  BY <1>2, <1>3, <1>4 DEF Kept
<1>6. PICK result \in Results :
          /\ Submit(id, rec, result)
          /\ IF result = Ok \/ IsAlreadyAccepted(result)
             THEN Goto("status", id, [rec EXCEPT !.status = "Sent"])
             ELSE \/ Goto("status", op.id, [op.rec EXCEPT !.cancelled = FALSE])
                  \/ UNCHANGED op
  BY DEF CancelSubmit
<1>7. UNCHANGED <<handles, relay, asked>>
  BY DEF CancelSubmit
<1>8. wire \subseteq wire'
  BY <1>3, <1>6, SubmitOnWire DEF RInv
<1> SUFFICES op'.id \in Ids /\ op'.rec \in Record /\ OpInv'
  BY <1>3, <1>5, <1>6, <1>7, SubmitStep
<1>9. CASE result = Ok \/ IsAlreadyAccepted(result)
  <2>1. op'.id = id /\ op'.rec \in Record /\ op'.rec.route = rec.route
    BY <1>4, <1>6, <1>9 DEF Goto, Record, Statuses
  <2>2. \E w \in wire' : w.id = id /\ w.taken
    BY <1>6, <1>9, SubmitHandsOver
  <2>3. HandedOver(op.id)'
    BY <2>1, <2>2 DEF HandedOver
  <2>4. Kept(op.id, op.rec)'
    BY <1>5, <1>7, <2>1 DEF Kept, Stays
  <2> QED BY <1>3, <2>1, <2>3, <2>4 DEF OpInv
<1>10. CASE /\ ~(result = Ok \/ IsAlreadyAccepted(result))
            /\ Goto("status", op.id, [op.rec EXCEPT !.cancelled = FALSE])
  <2>1. /\ op'.id = op.id /\ op'.rec \in Record
        /\ op'.rec.route = op.rec.route /\ op'.rec.status = op.rec.status
    BY Zenon, <1>2, <1>10 DEF Goto, Record
  <2>2. op'.rec.status = "Sent" => HandedOver(op.id)'
    BY <1>1, <1>8, <2>1 DEF RInv, OpInv, HandedOver
  <2>3. Kept(op.id, op.rec)'
    BY <1>2, <1>7, <2>1 DEF Kept, Stays
  <2> QED BY <1>2, <2>1, <2>2, <2>3 DEF OpInv
<1>11. CASE UNCHANGED op
  <2>1. op.rec.status = "Sent" => HandedOver(op.id)'
    BY <1>1, <1>8, <1>11 DEF RInv, OpInv, HandedOver
  <2>2. Kept(op.id, op.rec)'
    BY <1>2, <1>7, <1>11 DEF Kept, Stays
  <2> QED BY <1>2, <1>11, <2>1, <2>2 DEF OpInv
<1> QED BY <1>6, <1>9, <1>10, <1>11

\* The operation ends, or goes on with this copy.
GoesOnWith(id, rec) == op' # Idle => op'.id = id /\ op'.rec = rec

\* A step that writes a fit copy, leaves the wire alone, and ends the
\* operation or goes on with the same copy, keeps the invariant.
LEMMA PutStep ==
    ASSUME RInv, NEW id \in Ids, NEW rec \in Record, Put(id, rec),
           Kept(id, rec), rec.status = "Sent" => HandedOver(id),
           UNCHANGED <<asked, wire, latest, relay>>, faults' \in 0 .. MaxFaults,
           GoesOnWith(id, rec)
    PROVE  RInv'
<1>1. /\ DOMAIN handles' \subseteq Ids
      /\ \A x \in DOMAIN handles' : handles'[x] \in Record
      /\ StoreInv' /\ NoPhantom'
  BY PutKeeps
<1>2. TypeOK'
  BY <1>1 DEF RInv, TypeOK, GoesOnWith
<1>3. OpInv'
  BY DEF OpInv, Kept, Stays, HandedOver, GoesOnWith
<1>4. (\A w \in wire' : w.id.intent \in DOMAIN asked') /\ NeverLeaks'
  BY DEF RInv, NeverLeaks
<1> QED
  BY <1>1, <1>2, <1>3, <1>4 DEF RInv

\* A step that only ends the operation, or restarts the process, keeps it.
LEMMA IdleStep ==
    ASSUME RInv, op' = Idle, relay' \in BOOLEAN, faults' \in 0 .. MaxFaults,
           UNCHANGED <<handles, wire, latest, asked>>
    PROVE  RInv'
<1>1. TypeOK'
  BY DEF RInv, TypeOK
<1>2. StoreInv' /\ NoPhantom'
  BY StoreKept
<1>3. OpInv'
  BY DEF OpInv
<1>4. (\A w \in wire' : w.id.intent \in DOMAIN asked') /\ NeverLeaks'
  BY DEF RInv, NeverLeaks
<1> QED
  BY <1>1, <1>2, <1>3, <1>4 DEF RInv

\* send_with's and cancel's last write, which may fail.
LEMMA SendStatusStep == ASSUME RInv, SendStatus PROVE RInv'
<1>1. /\ op.id \in Ids /\ op.rec \in Record /\ Kept(op.id, op.rec)
      /\ op.rec.status = "Sent" => HandedOver(op.id)
  BY DEF SendStatus, Idle, RInv, TypeOK, OpInv
<1>2. op' = Idle /\ UNCHANGED <<wire, latest, relay, asked>>
  BY DEF SendStatus
<1>3. CASE Put(op.id, op.rec) /\ UNCHANGED faults
  <2>1. faults' \in 0 .. MaxFaults /\ GoesOnWith(op.id, op.rec)
    BY <1>2, <1>3 DEF RInv, TypeOK, GoesOnWith
  <2> QED BY <1>1, <1>2, <1>3, <2>1, PutStep
<1>4. CASE Fault /\ UNCHANGED handles
  <2>1. faults' \in 0 .. MaxFaults /\ relay' \in BOOLEAN
    BY <1>2, <1>4, RoutingAssumption DEF RInv, TypeOK, Fault
  <2> QED BY <1>2, <1>4, <2>1, IdleStep
<1> QED BY <1>3, <1>4 DEF SendStatus, PutMayFail

\* bump's write, which may fail.
LEMMA BumpPutStep == ASSUME RInv, BumpPut PROVE RInv'
<1>1. /\ op.id \in Ids /\ op.rec \in Record /\ Kept(op.id, op.rec)
      /\ op.rec.status = "Sent" => HandedOver(op.id)
  BY DEF BumpPut, Idle, RInv, TypeOK, OpInv
<1>2. op' = Idle /\ UNCHANGED <<wire, latest, relay, asked>>
  BY DEF BumpPut
<1>3. CASE Put(op.id, op.rec) /\ UNCHANGED faults
  <2>1. faults' \in 0 .. MaxFaults /\ GoesOnWith(op.id, op.rec)
    BY <1>2, <1>3 DEF RInv, TypeOK, GoesOnWith
  <2> QED BY <1>1, <1>2, <1>3, <2>1, PutStep
<1>4. CASE Fault /\ UNCHANGED handles
  <2>1. faults' \in 0 .. MaxFaults /\ relay' \in BOOLEAN
    BY <1>2, <1>4, RoutingAssumption DEF RInv, TypeOK, Fault
  <2> QED BY <1>2, <1>4, <2>1, IdleStep
<1> QED BY <1>3, <1>4 DEF BumpPut, PutMayFail

\* confirm's conclusion changes only the status, and never to Sent.
LEMMA SettleStep == ASSUME RInv, NEW id \in Ids, Settle(id) PROVE RInv'
<1> DEFINE rec == [handles[id] EXCEPT !.status = "Settled"]
<1>1. handles[id] \in Record /\ Kept(id, handles[id])
  BY DEF Settle, RInv, TypeOK, StoreInv
<1>2. rec \in Record /\ rec.route = handles[id].route /\ rec.status = "Settled"
  BY <1>1 DEF Record, Statuses
<1>3. Kept(id, rec)
  BY <1>1, <1>2 DEF Kept
<1>4. Put(id, rec) /\ op' = Idle /\ UNCHANGED <<asked, wire, latest, relay, faults>>
  BY DEF Settle
<1>5. faults' \in 0 .. MaxFaults /\ GoesOnWith(id, rec)
  BY <1>4 DEF RInv, TypeOK, GoesOnWith
<1> QED
  BY Zenon, <1>2, <1>3, <1>4, <1>5, PutStep

\* cancel's first write sets a flag.
LEMMA CancelStep == ASSUME RInv, NEW id \in Ids, Cancel(id) PROVE RInv'
<1> DEFINE rec == [handles[id] EXCEPT !.cancelled = TRUE]
<1>1. /\ handles[id] \in Record /\ Kept(id, handles[id])
      /\ handles[id].status = "Sent" => HandedOver(id)
  BY DEF Cancel, RInv, TypeOK, StoreInv, NoPhantom, HandedOver
<1>2. /\ rec \in Record /\ rec.route = handles[id].route
      /\ rec.status = handles[id].status
  BY Zenon, <1>1 DEF Record
<1>3. Kept(id, rec)
  BY <1>1, <1>2 DEF Kept
<1>4. /\ Put(id, rec) /\ op'.id = id /\ op'.rec = rec
      /\ UNCHANGED <<asked, wire, latest, relay, faults>>
  BY DEF Cancel, Goto
<1>5. faults' \in 0 .. MaxFaults /\ GoesOnWith(id, rec)
  BY <1>4 DEF RInv, TypeOK, GoesOnWith
<1> QED
  BY Zenon, <1>1, <1>2, <1>3, <1>4, <1>5, PutStep

\* Every step keeps the invariant.
LEMMA RInvStep == RInv /\ [Next]_vars => RInv'
<1> SUFFICES ASSUME RInv, [Next]_vars PROVE RInv'
  OBVIOUS
<1>1. CASE \E i \in Intents, r \in Asked : Send(i, r)
  BY <1>1, SendStep
<1>2. CASE SendSubmit
  BY <1>2, SendSubmitStep
<1>3. CASE SendStatus
  BY <1>3, SendStatusStep
<1>4. CASE \E id \in Ids : Recover(id)
  BY <1>4, RecoverStep
<1>5. CASE \E id \in Ids : Bump(id)
  BY <1>5, BumpStep
<1>6. CASE \E id \in Ids : Settle(id)
  BY <1>6, SettleStep
<1>7. CASE \E id \in Ids : Cancel(id)
  BY <1>7, CancelStep
<1>8. CASE BumpPut
  BY <1>8, BumpPutStep
<1>9. CASE CancelSubmit
  BY <1>9, CancelSubmitStep
<1>10. CASE Crash
  BY <1>10, IdleStep, RoutingAssumption DEF Crash, Fault, RInv, TypeOK
<1>11. CASE UNCHANGED vars
  BY <1>11 DEF vars, RInv, TypeOK, StoreInv, OpInv, Kept, Stays, HandedOver,
               NeverLeaks, NoPhantom
<1> QED
  BY <1>1, <1>2, <1>3, <1>4, <1>5, <1>6, <1>7, <1>8, <1>9, <1>10, <1>11 DEF Next

\* What the user asked to stay private is never handed to the public mempool
\* (submission.rs:154), for every set of intents and routes, any number of
\* bumps and any number of faults.
THEOREM NeverLeaksHolds == Spec => []NeverLeaks
<1>1. RInv => NeverLeaks
  BY DEF RInv
<1> QED
  BY <1>1, RInvInit, RInvStep, PTL DEF Spec

\* A handle that is Sent was handed to a channel that did not refuse it
\* (private_mev.rs:270-272).
THEOREM NoPhantomHolds == Spec => []NoPhantom
<1>1. RInv => NoPhantom
  BY DEF RInv
<1> QED
  BY <1>1, RInvInit, RInvStep, PTL DEF Spec

-----------------------------------------------------------------------------
(* Escalation is one-way, while no write fails and nobody dies *)

\* The transactions the public mempool took, those whose stored route is the
\* public mempool, and the one whose escalation is about to be stored.
Escaped == {x \in Ids : /\ x.role # "cancel"
                        /\ \E w \in wire : w.id = x /\ w.channel = "public" /\ w.taken}
Opened  == {x \in DOMAIN handles : handles[x].route.via = "public"}
Bumping == {x \in Ids : op.at = "bumped" /\ op.id = x /\ op.rec.route.via = "public"}

\* The copy under way has the stored route, or the one a bump has chosen.
CopyInv ==
    /\ op.at \in {"submit", "status", "cancel"} /\ op.id.role # "cancel" =>
          op.id \in DOMAIN handles /\ handles[op.id].route = op.rec.route
    /\ op.at = "bumped" /\ op.id \in Opened => op.id \in Bumping

OneWay    == Escaped \subseteq Opened \cup Bumping /\ CopyInv /\ NeverRehidden
OneWayInv == faults = 0 => OneWay

\* A fault is not undone.
LEMMA FaultStays == ASSUME RInv, Fault PROVE faults' # 0
BY DEF RInv, TypeOK, Fault

\* A submission on the route of a transaction that may be public already adds
\* to the escaped ones only what its caller is told of.
LEMMA SubmitOneWay ==
    ASSUME RInv, NeverRehidden, faults' = 0, faults = 0,
           NEW id \in Ids, NEW rec, NEW result, Submit(id, rec, result),
           id \in Escaped => rec.route.via = "public"
    PROVE  /\ NeverRehidden'
           /\ Escaped' \subseteq Escaped \cup {id}
           /\ id \in Escaped' \ Escaped =>
                 rec.route.via = "public" /\ (result = Ok \/ IsAlreadyAccepted(result))
<1>1. CASE Channel(rec.route) = "none"
  <2>1. UNCHANGED <<wire, latest>>
    BY <1>1 DEF Submit
  <2>2. Escaped' = Escaped
    BY <2>1 DEF Escaped
  <2>. QED  BY <2>1, <2>2 DEF NeverRehidden
<1>2. CASE Channel(rec.route) # "none"
  <2>1. PICK answer \in Answers :
            /\ Answered(id, rec, answer)
            /\ result = IF rec.route.via = "flashbots"
                        THEN ClassifyFlashbots(answer) ELSE SendRaw(answer)
    BY <1>2 DEF Submit
  <2>2. /\ wire' = wire \cup {latest'} /\ latest'.id = id
        /\ latest'.channel = Channel(rec.route)
        /\ latest'.taken <=> answer \notin {"underpriced", "refused", "unauthorized"}
    BY <2>1, Zenon DEF Answered
  <2>3. answer \notin {"unavailable", "lost"}
    BY <2>1, FaultStays DEF Answered
  <2>4. latest'.taken => result = Ok \/ IsAlreadyAccepted(result)
    BY <2>1, <2>2, <2>3 DEF Answers, ClassifyFlashbots, SendRaw, Rpc, Relay, Ok, IsAlreadyAccepted
  <2>5. latest'.channel = "public" <=> rec.route.via = "public"
    BY <2>2 DEF Channel
  <2>6. Escaped' \subseteq Escaped \cup {id}
    BY <2>2 DEF Escaped
  <2>7. id \in Escaped' \ Escaped => latest'.channel = "public" /\ latest'.taken
    BY <2>2 DEF Escaped
  <2>8. NeverRehidden'
    <3>1. SUFFICES ASSUME latest'.channel = "private", id.role # "cancel",
                          NEW w \in wire', w.id = id, w.channel = "public", w.taken
                   PROVE  FALSE
      BY <2>2 DEF NeverRehidden
    <3>2. w \in wire
      BY <2>2, <3>1
    <3>3. id \in Escaped
      BY <3>1, <3>2 DEF Escaped
    <3>. QED  BY <2>5, <3>1, <3>3
  <2>. QED  BY <2>4, <2>5, <2>6, <2>7, <2>8
<1>. QED  BY <1>1, <1>2

\* A write that does not take a public transaction back to a private route.
LEMMA PutOneWay ==
    ASSUME NEW id, NEW rec, Put(id, rec), Escaped \subseteq Opened \cup {id},
           id \in Escaped => rec.route.via = "public", UNCHANGED wire
    PROVE  Escaped' \subseteq Opened'
<1>1. Escaped' = Escaped
  BY DEF Escaped
<1>2. /\ DOMAIN handles' = DOMAIN handles \cup {id} /\ handles'[id] = rec
      /\ \A x \in DOMAIN handles : x # id => handles'[x] = handles[x]
  BY DEF Put
<1>3. ASSUME NEW x \in Escaped  PROVE x \in Opened'
  <2>1. CASE x = id
    BY <1>2, <1>3, <2>1 DEF Opened
  <2>2. CASE x # id
    BY <1>2, <1>3, <2>2 DEF Opened
  <2>. QED  BY <2>1, <2>2
<1>. QED  BY <1>1, <1>3

\* Nothing is under way.
LEMMA IdleCopy == ASSUME op = Idle PROVE Bumping = {} /\ CopyInv
BY DEF Idle, Bumping, CopyInv

LEMMA WireKept ==
    ASSUME UNCHANGED <<wire, latest>>, faults' = faults
    PROVE  Escaped' = Escaped /\ (NeverRehidden => NeverRehidden')
BY DEF Escaped, NeverRehidden


\* send_with's first write is of an intent nothing was handed over for.
LEMMA SendOneWay ==
    ASSUME RInv, OneWayInv, NEW i \in Intents, NEW r \in Asked, Send(i, r)
    PROVE  OneWayInv'
<1>. DEFINE id == [intent |-> i, role |-> "send"]
<1>1. /\ op = Idle /\ i \notin DOMAIN asked /\ Put(id, Fresh(r)) /\ Goto("submit", id, Fresh(r))
      /\ UNCHANGED <<wire, latest, faults>>
  BY DEF Send
<1>2. id.intent = i /\ id.role = "send"
  OBVIOUS
<1>. HIDE DEF id
<1>3. SUFFICES ASSUME faults = 0  PROVE OneWay'
  BY <1>1 DEF OneWayInv
<1>4. OneWay
  BY <1>3 DEF OneWayInv
<1>5. id \notin Escaped
  BY <1>1, <1>2 DEF Escaped, RInv
<1>6. Escaped' \subseteq Opened'
  BY <1>1, <1>4, <1>5, IdleCopy, PutOneWay DEF OneWay
<1>7. op'.at = "submit" /\ op'.id = id /\ op'.rec = Fresh(r)
  BY <1>1 DEF Goto
<1>8. handles'[id] = Fresh(r) /\ id \in DOMAIN handles'
  BY <1>1 DEF Put
<1>9. CopyInv'
  BY <1>7, <1>8 DEF CopyInv
<1>10. NeverRehidden'
  BY <1>1, <1>4, WireKept DEF OneWay
<1>. QED  BY <1>6, <1>9, <1>10 DEF OneWay

\* A submission of what the store has, the operation going on with its route.
LEMMA SendSubmitOneWay ==
    ASSUME RInv, OneWayInv, SendSubmit
    PROVE  OneWayInv'
<1>1. PICK result \in Results :
          /\ Submit(op.id, op.rec, result)
          /\ Goto("status", op.id, [op.rec EXCEPT !.status =
                IF result = Ok \/ IsTransient(result) \/ IsAlreadyAccepted(result)
                THEN "Sent" ELSE "Failed"])
  BY DEF SendSubmit
<1>2. op.at = "submit" /\ op # Idle /\ UNCHANGED <<handles, asked>>
  BY DEF SendSubmit, Idle
<1>3. op.id \in Ids /\ op.rec \in Record /\ faults \in Nat
  BY <1>2 DEF RInv, TypeOK
<1>4. op'.at = "status" /\ op'.id = op.id /\ op'.rec.route = op.rec.route
  BY <1>1, <1>3 DEF Goto, Record
<1>5. SUFFICES ASSUME faults' = 0  PROVE OneWay'
  BY DEF OneWayInv
<1>6. faults = 0
  BY <1>1, <1>5, FaultStays DEF Submit, Answered
<1>7. OneWay
  BY <1>6 DEF OneWayInv
<1>8. op.id.role # "cancel" => op.id \in DOMAIN handles /\ handles[op.id].route = op.rec.route
  BY <1>2, <1>7 DEF OneWay, CopyInv
<1>9. Bumping = {} /\ Escaped \subseteq Opened
  BY <1>2, <1>7 DEF OneWay, Bumping
<1>10. op.id \in Escaped => op.rec.route.via = "public"
  BY <1>8, <1>9 DEF Escaped, Opened
<1>11. /\ NeverRehidden'
       /\ Escaped' \subseteq Escaped \cup {op.id}
       /\ op.id \in Escaped' \ Escaped => op.rec.route.via = "public"
  BY <1>1, <1>3, <1>5, <1>6, <1>7, <1>10, SubmitOneWay DEF OneWay
<1>12. Opened' = Opened /\ (op.id \in Escaped' \ Escaped => op.id \in Opened)
  BY <1>2, <1>8, <1>11 DEF Opened, Escaped
<1>13. CopyInv'
  BY <1>2, <1>4, <1>8 DEF CopyInv
<1>. QED  BY <1>9, <1>11, <1>12, <1>13 DEF OneWay

\* recover submits the stored copy.
LEMMA RecoverOneWay ==
    ASSUME RInv, OneWayInv, NEW id \in Ids, Recover(id)
    PROVE  OneWayInv'
<1>1. PICK result \in Results : Submit(id, handles[id], result)
  BY DEF Recover
<1>2. op = Idle /\ op' = Idle /\ id \in DOMAIN handles /\ UNCHANGED handles
  BY DEF Recover
<1>3. SUFFICES ASSUME faults' = 0  PROVE OneWay'
  BY DEF OneWayInv
<1>4. faults = 0
  BY <1>1, <1>3, FaultStays DEF Submit, Answered
<1>5. OneWay /\ Escaped \subseteq Opened
  BY <1>2, <1>4, IdleCopy DEF OneWayInv, OneWay
<1>6. id \in Escaped => handles[id].route.via = "public"
  BY <1>5 DEF Opened
<1>7. /\ NeverRehidden'
      /\ Escaped' \subseteq Escaped \cup {id}
      /\ id \in Escaped' \ Escaped => handles[id].route.via = "public"
  BY <1>1, <1>3, <1>4, <1>5, <1>6, SubmitOneWay DEF OneWay
<1>8. Opened' = Opened /\ (id \in Escaped' \ Escaped => id \in Opened)
  BY <1>2, <1>7 DEF Opened
<1>9. CopyInv'
  BY <1>2 DEF Idle, CopyInv
<1>. QED  BY <1>5, <1>7, <1>8, <1>9 DEF OneWay

\* bump: what the public mempool takes is about to be stored as public.
LEMMA BumpOneWay ==
    ASSUME RInv, OneWayInv, NEW id \in Ids, Bump(id)
    PROVE  OneWayInv'
<1>. DEFINE rec == Bumped(handles[id])
<1>1. PICK result \in Results :
          /\ Submit(id, rec, result)
          /\ IF result = Ok \/ IsAlreadyAccepted(result)
             THEN Goto("bumped", id, rec) ELSE UNCHANGED op
  BY DEF Bump
<1>2. op = Idle /\ id \in DOMAIN handles /\ UNCHANGED handles
  BY DEF Bump
<1>3. handles[id].route.via = "public" => rec.route.via = "public"
  BY DEF Bumped, Escalated
<1>. HIDE DEF rec
<1>4. SUFFICES ASSUME faults' = 0  PROVE OneWay'
  BY DEF OneWayInv
<1>5. faults = 0
  BY <1>1, <1>4, FaultStays DEF Submit, Answered
<1>6. OneWay /\ Escaped \subseteq Opened
  BY <1>2, <1>5, IdleCopy DEF OneWayInv, OneWay
<1>7. id \in Escaped => rec.route.via = "public"
  BY <1>3, <1>6 DEF Opened
<1>8. /\ NeverRehidden'
      /\ Escaped' \subseteq Escaped \cup {id}
      /\ id \in Escaped' \ Escaped =>
            rec.route.via = "public" /\ (result = Ok \/ IsAlreadyAccepted(result))
  BY <1>1, <1>4, <1>5, <1>6, <1>7, SubmitOneWay DEF OneWay
<1>9. Opened' = Opened
  BY <1>2 DEF Opened
<1>10. CASE result = Ok \/ IsAlreadyAccepted(result)
  <2>1. op'.at = "bumped" /\ op'.id = id /\ op'.rec = rec
    BY <1>1, <1>10 DEF Goto
  <2>2. rec.route.via = "public" => id \in Bumping'
    BY <2>1 DEF Bumping
  <2>3. CopyInv'
    BY <1>3, <1>9, <2>1, <2>2 DEF CopyInv, Opened
  <2>. QED  BY <1>6, <1>8, <1>9, <2>2, <2>3 DEF OneWay
<1>11. CASE ~(result = Ok \/ IsAlreadyAccepted(result))
  <2>1. op' = Idle
    BY <1>1, <1>2, <1>11
  <2>2. CopyInv'
    BY <2>1 DEF Idle, CopyInv
  <2>. QED  BY <1>6, <1>8, <1>9, <1>11, <2>2 DEF OneWay
<1>. QED  BY <1>10, <1>11


\* cancel's broadcast is of a transaction of its own, on the stored route.
LEMMA CancelSubmitOneWay ==
    ASSUME RInv, OneWayInv, CancelSubmit
    PROVE  OneWayInv'
<1>. DEFINE id == [op.id EXCEPT !.role = "cancel"]
<1>1. PICK result \in Results :
          /\ Submit(id, Fresh(op.rec.route), result)
          /\ IF result = Ok \/ IsAlreadyAccepted(result)
             THEN Goto("status", id, [Fresh(op.rec.route) EXCEPT !.status = "Sent"])
             ELSE \/ Goto("status", op.id, [op.rec EXCEPT !.cancelled = FALSE])
                  \/ IsUnderpriced(result) /\ UNCHANGED op
  BY Zenon DEF CancelSubmit
<1>2. op.at = "cancel" /\ op # Idle /\ UNCHANGED handles
  BY DEF CancelSubmit, Idle
<1>3. op.id \in Ids /\ op.rec \in Record
  BY <1>2 DEF RInv, TypeOK
<1>4. id \in Ids /\ id.role = "cancel"
  BY <1>3 DEF Ids, Roles
<1>. HIDE DEF id
<1>5. SUFFICES ASSUME faults' = 0  PROVE OneWay'
  BY DEF OneWayInv
<1>6. faults = 0
  BY <1>1, <1>5, FaultStays DEF Submit, Answered
<1>7. OneWay
  BY <1>6 DEF OneWayInv
<1>8. op.id.role # "cancel" => op.id \in DOMAIN handles /\ handles[op.id].route = op.rec.route
  BY <1>2, <1>7 DEF OneWay, CopyInv
<1>9. Bumping = {} /\ Escaped \subseteq Opened
  BY <1>2, <1>7 DEF OneWay, Bumping
<1>10. id \notin Escaped /\ id \notin Escaped'
  BY <1>4 DEF Escaped
<1>11. NeverRehidden' /\ Escaped' \subseteq Escaped \cup {id}
  BY <1>1, <1>4, <1>5, <1>6, <1>7, <1>10, SubmitOneWay DEF OneWay
<1>12. Opened' = Opened
  BY <1>2 DEF Opened
<1>13. CopyInv'
  <2>1. CASE op' = op
    BY <1>2, <1>8, <2>1 DEF CopyInv
  <2>2. CASE Goto("status", op.id, [op.rec EXCEPT !.cancelled = FALSE])
    <3>1. op'.at = "status" /\ op'.id = op.id /\ op'.rec.route = op.rec.route
      BY <1>3, <2>2 DEF Goto, Record
    <3>. QED  BY <1>2, <1>8, <3>1 DEF CopyInv
  <2>3. CASE Goto("status", id, [Fresh(op.rec.route) EXCEPT !.status = "Sent"])
    <3>1. op'.at = "status" /\ op'.id = id
      BY <2>3 DEF Goto
    <3>. QED  BY <1>4, <3>1 DEF CopyInv
  <2>. QED  BY <1>1, <2>1, <2>2, <2>3
<1>. QED  BY <1>9, <1>10, <1>11, <1>12, <1>13 DEF OneWay

\* The write that ends an operation stores the route its copy has.
LEMMA LastPutOneWay ==
    ASSUME RInv, OneWayInv, SendStatus \/ BumpPut
    PROVE  OneWayInv'
<1>1. /\ PutMayFail(op.id, op.rec) /\ op' = Idle /\ UNCHANGED <<wire, latest>>
      /\ op.at \in {"status", "bumped"}
  BY DEF SendStatus, BumpPut
<1>2. SUFFICES ASSUME faults' = 0  PROVE OneWay'
  BY DEF OneWayInv
<1>3. Put(op.id, op.rec) /\ faults' = faults
  BY <1>1, <1>2, FaultStays DEF PutMayFail
<1>4. OneWay
  BY <1>2, <1>3 DEF OneWayInv
<1>5. Escaped \subseteq Opened \cup {op.id}
  BY <1>4 DEF OneWay, Bumping
<1>6. op.id \in Escaped => op.rec.route.via = "public"
  BY <1>1, <1>4 DEF OneWay, Bumping, CopyInv, Opened, Escaped
<1>7. Escaped' \subseteq Opened'
  BY <1>1, <1>3, <1>5, <1>6, PutOneWay
<1>8. CopyInv'
  BY <1>1 DEF Idle, CopyInv
<1>9. NeverRehidden'
  BY <1>1, <1>3, <1>4, WireKept DEF OneWay
<1>. QED  BY <1>7, <1>8, <1>9 DEF OneWay

\* confirm and cancel's first write leave the stored route alone.
LEMMA FlagOneWay ==
    ASSUME RInv, OneWayInv, NEW id \in Ids, Settle(id) \/ Cancel(id)
    PROVE  OneWayInv'
<1>1. /\ id \in DOMAIN handles /\ op = Idle /\ UNCHANGED <<wire, latest, faults>>
      /\ handles[id] \in Record
  BY DEF Settle, Cancel, RInv, TypeOK
<1>2. \E rec \in Record :
         /\ rec.route = handles[id].route /\ Put(id, rec)
         /\ op' = Idle \/ (op'.at = "cancel" /\ op'.id = id /\ op'.rec = rec)
  <2>1. CASE Settle(id)
    <3>. DEFINE rec == [handles[id] EXCEPT !.status = "Settled"]
    <3>1. rec \in Record /\ rec.route = handles[id].route
      BY <1>1 DEF Record, Statuses
    <3>2. Put(id, rec) /\ op' = Idle
      BY <2>1 DEF Settle
    <3>. HIDE DEF rec
    <3>. QED  BY <3>1, <3>2
  <2>2. CASE Cancel(id)
    <3>. DEFINE rec == [handles[id] EXCEPT !.cancelled = TRUE]
    <3>1. rec \in Record /\ rec.route = handles[id].route
      BY Zenon, <1>1 DEF Record
    <3>2. Put(id, rec) /\ op'.at = "cancel" /\ op'.id = id /\ op'.rec = rec
      BY <2>2 DEF Cancel, Goto
    <3>. HIDE DEF rec
    <3>. QED  BY <3>1, <3>2
  <2>. QED  BY <2>1, <2>2
<1>3. PICK rec \in Record :
         /\ rec.route = handles[id].route /\ Put(id, rec)
         /\ op' = Idle \/ (op'.at = "cancel" /\ op'.id = id /\ op'.rec = rec)
  BY <1>2
<1>4. SUFFICES ASSUME faults = 0  PROVE OneWay'
  BY <1>1 DEF OneWayInv
<1>5. OneWay /\ Escaped \subseteq Opened
  BY <1>1, <1>4, IdleCopy DEF OneWayInv, OneWay
<1>6. id \in Escaped => rec.route.via = "public"
  BY <1>3, <1>5 DEF Opened
<1>7. Escaped' \subseteq Opened'
  BY <1>1, <1>3, <1>5, <1>6, PutOneWay
<1>8. CopyInv'
  <2>1. id \in DOMAIN handles' /\ handles'[id] = rec
    BY <1>3 DEF Put
  <2>. QED  BY <1>3, <2>1 DEF Idle, CopyInv
<1>9. NeverRehidden'
  BY <1>1, <1>5, WireKept DEF OneWay
<1>. QED  BY <1>7, <1>8, <1>9 DEF OneWay

\* Once the public mempool took a transaction, no send, rebroadcast or bump of
\* it is private again (executor/mod.rs:417-418), for every set of intents and
\* routes and any number of bumps, unless a write fails or the process dies.
THEOREM NeverRehiddenHolds == Spec => []NeverRehidden
<1>1. Init => OneWayInv
  BY DEF Init, OneWayInv, OneWay, NeverRehidden, Escaped, CopyInv, Idle
<1>2. RInv /\ OneWayInv /\ [Next]_vars => OneWayInv'
  <2>1. SUFFICES ASSUME RInv, OneWayInv, [Next]_vars  PROVE OneWayInv'
    OBVIOUS
  <2>2. CASE Crash
    BY <2>1, <2>2, FaultStays DEF Crash, OneWayInv
  <2>3. CASE UNCHANGED vars
    BY <2>1, <2>3
       DEF vars, OneWayInv, OneWay, NeverRehidden, Escaped, Opened, Bumping, CopyInv
  <2>. QED
    BY Zenon, <2>1, <2>2, <2>3, SendOneWay, SendSubmitOneWay, RecoverOneWay, BumpOneWay,
       CancelSubmitOneWay, LastPutOneWay, FlagOneWay DEF Next
<1>3. RInv /\ OneWayInv => NeverRehidden
  BY DEF OneWayInv, OneWay, NeverRehidden
<1>. QED  BY <1>1, <1>2, <1>3, RInvInit, RInvStep, PTL DEF Spec
=============================================================================
