----------------------------- MODULE Discovery -----------------------------
(***************************************************************************)
(* AccountManager::discover (adapters/accounts.rs): the seed's addresses   *)
(* are probed in windows of gap_limit indices, one batched RPC per window  *)
(* and chain, until gap_limit indices in a row are unused or max_index is  *)
(* reached, scheme after scheme.  A chain that does not answer hides its   *)
(* activity, and the scan goes on.                                         *)
(***************************************************************************)
EXTENDS ReadPort, FiniteSetsExt

CONSTANTS Chains,      \* the sequence of chains to union over
          Scans,       \* the DiscoveryOpts to try
          MaxActive    \* bound: facts of activity when the scan begins

ASSUME DiscoveryAssumption ==
    /\ Chains \in Seq(Range(Chains)) /\ Len(Chains) > 0 /\ MaxActive \in Nat
    /\ \A o \in Scans :
          /\ o.schemes \in Seq(Range(o.schemes)) /\ o.gap_limit \in Nat
          /\ o.start_index \in Nat /\ o.max_index \in Nat /\ o.start_index < o.max_index

\* PathScheme: the two standard schemes agree at index 0 and nowhere else; a
\* custom template without {index} has no path.
Bip44Standard == "Bip44Standard"
LedgerLive    == "LedgerLive"
NoPlaceholder == "NoPlaceholder"
PathFor(scheme, i) ==
    IF scheme = NoPlaceholder THEN None
    ELSE IF i = 0 THEN Some(<<"index 0", 0>>) ELSE Some(<<scheme, i>>)
Address(scheme, i) == PathFor(scheme, i).v

\* is_used, of what account_activity said of an address.
IsUsed(activity, predicate) ==
    activity = "sent" \/ (predicate = "NonceOrBalance" /\ activity = "funded")

\* A window looks a whole gap ahead, within the bound.
Window(o) == Max({o.gap_limit, 1})
End(o, i) == Min({i + Window(o), o.max_index})

-----------------------------------------------------------------------------
\* discover's locals at a scheme's first index.
StartScheme(d, s) == [d EXCEPT !.s = s, !.i = d.opts.start_index, !.run = 0, !.c = 1, !.used = {}]

StartScan(o) ==
    [op |-> "discover", opts |-> o, s |-> 1, i |-> o.start_index, run |-> 0, c |-> 1, used |-> {},
     found |-> {}, hit_max_index |-> FALSE, partial |-> FALSE]

\* found.entry(address).or_insert: the first scheme to meet an address keeps it.
Insert(found, account) ==
    IF \E a \in found : a.address = account.address THEN found ELSE found \cup {account}

\* A mutant: the run of unused indices starts again with every window.
VisitPerWindow(d, i) ==
    LET scheme == d.opts.schemes[d.s]
        used == Address(scheme, i) \in d.used
    IN  IF used
        THEN [d EXCEPT !.run = 0, !.found = Insert(@, [index |-> i, address |-> Address(scheme, i)])]
        ELSE [d EXCEPT !.run = IF i = d.i THEN 1 ELSE @ + 1]

\* One entry of a window, in index order: used or not, as the union over the
\* chains that answered has it.
Visit(d, i) ==
    LET scheme == d.opts.schemes[d.s]
        used == Address(scheme, i) \in d.used
    IN  IF used
        THEN [d EXCEPT !.run = 0, !.found = Insert(@, [index |-> i, address |-> Address(scheme, i)])]
        ELSE [d EXCEPT !.run = @ + 1]

\* The gap ends the scheme: an entry after it is not looked at.
GapReached(d, i) == Address(d.opts.schemes[d.s], i) \notin d.used /\ d.run >= d.opts.gap_limit
VisitNext(v, i) ==
    IF v.stop THEN v ELSE LET d == Visit(v.d, i) IN [d |-> d, stop |-> GapReached(d, i)]

\* The loop over the entries: after[k] is what the first k leave.
Visits(d) ==
    LET after[k \in 0 .. End(d.opts, d.i) - d.i] ==
          IF k = 0 THEN [d |-> d, stop |-> FALSE] ELSE VisitNext(after[k - 1], d.i + k - 1)
    IN  after
VisitAll(d) == Visits(d)[End(d.opts, d.i) - d.i]

\* After the last chain of a window: visit its entries, then go on to the next
\* window, or to the next scheme.
CloseWindow(d) ==
    LET v == VisitAll(d)
        end == End(d.opts, d.i)
    IN  CASE v.stop -> StartScheme(v.d, d.s + 1)
          [] ~v.stop /\ end = d.opts.max_index ->
                StartScheme([v.d EXCEPT !.hit_max_index = TRUE], d.s + 1)
          [] OTHER -> [v.d EXCEPT !.i = end, !.c = 1, !.used = {}]

\* The next RPC of the scan, its result, or the error of a scheme's path.
Settle(d) ==
    CASE d.s > Len(d.opts.schemes) ->
            Ok([accounts |-> d.found, hit_max_index |-> d.hit_max_index, partial |-> d.partial])
      [] d.s <= Len(d.opts.schemes) /\ PathFor(d.opts.schemes[d.s], d.i) = None ->
            Err("Account", "InvalidPath", FALSE)
      [] OTHER -> Unanswered

Probed(d) == {Address(d.opts.schemes[d.s], i) : i \in d.i .. End(d.opts, d.i) - 1}
AfterChain(d) == IF d.c < Len(Chains) THEN [d EXCEPT !.c = @ + 1] ELSE CloseWindow(d)

Scanning == ~Answered /\ q.op = "discover"

\* account_activity answers for the whole window at once.
ActivityReply ==
    /\ Scanning
    /\ LET live == {a \in Probed(q) :
                        IsUsed(world[<<"activity", Chains[q.c], a>>], q.opts.used)}
           d == AfterChain([q EXCEPT !.used = @ \cup live])
       IN  Reply(d, Settle(d))

\* A chain is out: its entries stay unused and the scan is partial.
ActivityFails(fault) ==
    /\ Scanning
    /\ LET d == AfterChain([q EXCEPT !.partial = TRUE]) IN Fails(fault, d, Settle(d))

\* An account sends its first transaction, or is funded.  Its usage is never
\* undone: a nonce only rises, and a balance is spent by sending.
Activity == {"none", "funded", "sent"}
BecomesActive ==
    /\ Scanning
    /\ \E f \in DOMAIN world :
          \/ world[f] = "none" /\ Change(f, "funded")
          \/ Change(f, "sent")

DiscoveryNext ==
    \/ ActivityReply \/ BecomesActive
    \/ \E fault \in Faults : ActivityFails(fault)

ActivityFacts(o) ==
    {<<"activity", Chains[c], Address(sch, i)>> :
        c \in 1 .. Len(Chains), sch \in Range(o.schemes) \ {NoPlaceholder}, i \in 0 .. o.max_index - 1}

StartWorlds(o) ==
    LET F == ActivityFacts(o)
    IN  UNION {{[f \in F |-> IF f \in DOMAIN k THEN k[f] ELSE "none"] : k \in [S -> Activity \ {"none"}]}
                 : S \in UNION {kSubset(n, F) : n \in 0 .. MaxActive}}

DiscoveryInit == \E o \in Scans : \E w \in StartWorlds(o) : Begin(StartScan(o), Settle(StartScan(o)), w)

-----------------------------------------------------------------------------
\* What a scan means, without windows, batches or order: an index counts when
\* no gap_limit indices in a row before it are all unused.
Live(o, used, sch) ==
    {i \in o.start_index .. o.max_index - 1 :
        Address(sch, i) \in used}
Gaps(o, used, sch) ==
    {j \in o.start_index .. o.max_index - Window(o) :
        j .. j + Window(o) - 1 \cap Live(o, used, sch) = {}}
ReachableIn(o, used, sch) ==
    {Address(sch, i) : i \in {i \in Live(o, used, sch) : \A j \in Gaps(o, used, sch) : i < j}}
Reachable(o, used) == UNION {ReachableIn(o, used, sch) : sch \in Range(o.schemes)}

UsedAtStart(o) == {f[3] : f \in {f \in DOMAIN seen : \A v \in seen[f] : IsUsed(v, o.used)}}
UsedAtEnd(o)   == {f[3] : f \in {f \in DOMAIN seen : IsUsed(world[f], o.used)}}

\* discover's answer against its meaning, with accounts coming alive and chains
\* failing while it scans: it never reports an account that was not used, or
\* that lies beyond a gap ("usage can only be hidden, never invented"); unless
\* it says partial it has every account that was reachable when it began; and
\* unless it says hit_max_index a gap really ended every scheme.
DiscoverySound ==
    (q.op = "discover" /\ Succeeded) =>
        LET o == q.opts
            reported == {a.address : a \in answer.v.accounts}
        IN  /\ reported \subseteq Reachable(o, UsedAtEnd(o))
            /\ ~answer.v.partial => Reachable(o, UsedAtStart(o)) \subseteq reported
            /\ answer.v.hit_max_index =>
                  \E sch \in Range(o.schemes) : Gaps(o, UsedAtEnd(o), sch) = {}
            /\ ~answer.v.hit_max_index /\ ~answer.v.partial =>
                  \A sch \in Range(o.schemes) : Gaps(o, UsedAtStart(o), sch) # {}
=============================================================================
