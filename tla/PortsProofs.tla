---------------------------- MODULE PortsProofs ----------------------------
(***************************************************************************)
(* The two sides of the kit that stand on a port of their own, for any     *)
(* number of clients, accounts and handles, of chains, schemes, requests   *)
(* and endpoints, and any bound on failures and changes of the chain:      *)
(*   - an account scan reports what its gap rule means, a read answers     *)
(*     with what was true while it ran and hides no failure, and the       *)
(*     registry of endpoints is always one whole catalog;                  *)
(*   - both durable stores implement the StateStore port, redb's index of  *)
(*     pending handles is exact, and fences only rise.                     *)
(* The loops of the code are recursive functions: what they compute is     *)
(* proved by induction, from the least natural number of a set.            *)
(***************************************************************************)
EXTENDS Stores, Queries, WellFoundedInduction, TLAPS

\* Loops and the endpoints.

\* A set of naturals has a least one.
LEMMA LeastNatural ==
    ASSUME NEW T \in SUBSET Nat, T # {}
    PROVE  \E n \in T : \A m \in T : n <= m
<1>. DEFINE R == {p \in Nat \X Nat : p[1] < p[2]}
<1>1. IsWellFoundedOn(R, Nat)
  BY NatLessThanWellFounded, Zenon DEF OpToRel
<1>2. PICK n \in T : \A m \in T : ~(<<m, n>> \in R)
  BY <1>1, WFMin, Zenon
<1>3. ASSUME NEW m \in T PROVE n <= m
  <2>1. m \in Nat /\ n \in Nat /\ <<m, n>> \notin R
    BY <1>2
  <2>. QED BY <2>1
<1>. QED BY <1>3

\* Induction over an interval, for the set of the indices where something holds.
LEMMA Upward ==
    ASSUME NEW n \in Nat, NEW G, 0 \in G, \A k \in 0 .. n - 1 : k \in G => k + 1 \in G
    PROVE  0 .. n \subseteq G
<1>. DEFINE Bad == {k \in 0 .. n : k \notin G}
<1>. SUFFICES ASSUME Bad # {} PROVE FALSE
  BY Zenon
<1>1. Bad \in SUBSET Nat
  OBVIOUS
<1>2. PICK m \in Bad : \A j \in Bad : m <= j
  <2>. HIDE DEF Bad
  <2>. QED BY <1>1, LeastNatural, Zenon
<1>3. m \in Nat /\ m <= n /\ m # 0 /\ m - 1 \in 0 .. n /\ ~(m <= m - 1)
  OBVIOUS
<1>4. m - 1 \in G
  BY <1>2, <1>3, Zenon
<1>5. m - 1 \in 0 .. n - 1 /\ (m - 1) + 1 = m
  BY <1>3
<1>. QED BY <1>4, <1>5, Zenon

-----------------------------------------------------------------------------
(* Endpoints *)

\* An entry's endpoints are a sequence.
LEMMA UrlsAreSequence ==
    ASSUME NEW S, NEW strings \in Seq(S)
    PROVE  UrlsOf(strings) \in Seq(S)
<1>. DEFINE n == Len(strings)
            Turn(v, k) == IF strings[k] \in Malformed THEN v ELSE Append(v, strings[k])
            Good(g, m) == g = [k \in 0 .. m |-> IF k = 0 THEN <<>> ELSE Turn(g[k - 1], k)]
            G == {m \in 0 .. n : \E g : Good(g, m)}
<1>1. n \in Nat
  OBVIOUS
<1>. HIDE DEF n, Turn
<1>2. 0 \in G
  <2>. DEFINE g == [k \in 0 .. 0 |-> <<>>]
  <2>1. Good(g, 0)
    OBVIOUS
  <2>2. 0 \in 0 .. n
    BY <1>1
  <2>. QED BY <2>1, <2>2, Zenon
<1>3. ASSUME NEW m \in 0 .. n - 1, m \in G PROVE m + 1 \in G
  <2>. USE Zenon
  <2>1. PICK g : Good(g, m)
    BY <1>3
  <2>. DEFINE h == [k \in 0 .. m + 1 |-> IF k = m + 1 THEN Turn(g[m], m + 1) ELSE g[k]]
  <2>2. ASSUME NEW k \in 0 .. m + 1 PROVE h[k] = IF k = 0 THEN <<>> ELSE Turn(h[k - 1], k)
    <3>1. CASE k = m + 1
      <4>1. m \in 0 .. m + 1 /\ k - 1 = m /\ k # 0 /\ m # m + 1
        BY SMT, <1>1, <3>1
      <4>2. h[m] = g[m] /\ h[k] = Turn(g[m], k)
        BY <3>1, <4>1
      <4>. QED BY <4>1, <4>2
    <3>2. CASE k # m + 1
      <4>1. k \in 0 .. m /\ (k # 0 => k - 1 \in 0 .. m + 1 /\ k - 1 # m + 1)
        BY SMT, <1>1, <3>2
      <4>2. h[k] = g[k] /\ (k # 0 => h[k - 1] = g[k - 1])
        BY <3>2, <4>1
      <4>3. g[k] = IF k = 0 THEN <<>> ELSE Turn(g[k - 1], k)
        BY <2>1, <4>1
      <4>. QED BY <4>2, <4>3
    <3>. QED BY <3>1, <3>2
  <2>3. Good(h, m + 1)
    <3>. DEFINE e == [k \in 0 .. m + 1 |-> IF k = 0 THEN <<>> ELSE Turn(h[k - 1], k)]
    <3>1. \A k \in 0 .. m + 1 : h[k] = e[k]
      BY <2>2
    <3>2. h = e
      BY <3>1
    <3>. QED BY <3>2
  <2>4. m + 1 \in 0 .. n
    BY SMT, <1>1
  <2>. QED BY <2>3, <2>4
<1>4. n \in G
  <2>. USE Zenon
  <2>1. 0 .. n \subseteq G
    <3>. HIDE DEF G
    <3>. QED BY <1>1, <1>2, <1>3, Upward
  <2>2. n \in 0 .. n
    BY SMT, <1>1
  <2>. QED BY <2>1, <2>2
<1>5. PICK f : Good(f, n) /\ UrlsOf(strings) = f[n]
  BY <1>4, Zenon DEF UrlsOf, n, Turn
<1>. DEFINE H == {k \in 0 .. n : f[k] \in Seq(S)}
<1>6. 0 \in H
  BY <1>1, <1>5
<1>7. ASSUME NEW k \in 0 .. n - 1, k \in H PROVE k + 1 \in H
  <2>1. k + 1 \in 0 .. n /\ k + 1 # 0 /\ (k + 1) - 1 = k /\ k + 1 \in 1 .. n
    BY <1>1
  <2>2. f[k + 1] = Turn(f[k], k + 1)
    BY <1>5, <2>1, Zenon
  <2>3. f[k] \in Seq(S) /\ strings[k + 1] \in S
    BY <1>7, <2>1 DEF n
  <2>4. Turn(f[k], k + 1) \in Seq(S)
    BY <2>3 DEF Turn
  <2>. QED BY <2>1, <2>2, <2>4, Zenon
<1>8. 0 .. n \subseteq H
  <2>. HIDE DEF H
  <2>. QED BY <1>1, <1>6, <1>7, Upward, Zenon
<1>9. n \in 0 .. n
  BY <1>1
<1>. QED BY <1>5, <1>8, <1>9, Zenon

LEMMA MinOfTwo ==
    ASSUME NEW a \in Int, NEW b \in Int
    PROVE  Min({a, b}) \in {a, b} /\ Min({a, b}) <= a /\ Min({a, b}) <= b
<1>1. \E x \in {a, b} : \A y \in {a, b} : x =< y
  OBVIOUS
<1>. QED BY <1>1 DEF Min

LEMMA MaxOfTwo ==
    ASSUME NEW a \in Int, NEW b \in Int
    PROVE  Max({a, b}) \in {a, b} /\ Max({a, b}) >= a /\ Max({a, b}) >= b
<1>1. \E x \in {a, b} : \A y \in {a, b} : x >= y
  OBVIOUS
<1>. QED BY <1>1 DEF Max

\* A transport of a sequence of endpoints races one of them at least, and no
\* more than it has.
BuiltInv == built # NoTransport => built.endpoints # <<>> /\ built.active \in 1 .. Len(built.endpoints)

LEMMA BuildRaces ==
    ASSUME NEW S, NEW endpoints \in Seq(S), endpoints # <<>>, NEW hedge \in Nat,
           built' = Build(endpoints, hedge)
    PROVE  BuiltInv'
<1>1. Len(endpoints) \in Nat /\ Len(endpoints) >= 1
  OBVIOUS
<1>. DEFINE most == Max({hedge, 1})
            raced == Min({most, Len(endpoints)})
<1>2. most \in Int /\ most >= 1
  <2>. USE Zenon
  <2>1. hedge \in Int /\ 1 \in Int
    BY SMT
  <2>2. most \in {hedge, 1} /\ most >= 1
    BY <2>1, MaxOfTwo
  <2>. QED BY <2>1, <2>2
<1>3. raced \in 1 .. Len(endpoints)
  <2>. HIDE DEF most
  <2>1. raced \in {most, Len(endpoints)} /\ raced <= Len(endpoints)
    <3>1. Len(endpoints) \in Int
      BY <1>1
    <3>. QED BY <1>2, <3>1, MinOfTwo, Zenon
  <2>. HIDE DEF raced
  <2>. QED BY <1>1, <1>2, <2>1
<1>. QED BY <1>3 DEF Build, BuiltInv

\* The registry is a whole catalog with a chain in it, and what a refresh is
\* about to install is one that was fetched.
RegistryInv ==
    /\ \E body \in Published \cup {Embedded} : DOMAIN body # {} /\ registry = Parse(body)
    /\ DOMAIN refresh = Callers
    /\ \A t \in Callers : refresh[t].at = "parsed" => \E body \in Published : refresh[t].fresh = Parse(body)
    /\ BuiltInv

LEMMA RegistryInit == EndpointsInit => RegistryInv
<1>. SUFFICES ASSUME EndpointsInit PROVE RegistryInv
  OBVIOUS
<1>1. BuiltInv
  BY DEF EndpointsInit, BuiltInv
<1>. QED BY <1>1, EndpointsAssumption DEF EndpointsInit, RegistryInv, Resting

LEMMA RegistryStep == RegistryInv /\ (EndpointsNext \/ UNCHANGED endpointVars) => RegistryInv'
<1>. SUFFICES ASSUME RegistryInv, EndpointsNext \/ UNCHANGED endpointVars PROVE RegistryInv'
  OBVIOUS
\* refresh_public_endpoints, up to its last await.
<1>1. ASSUME NEW t \in Callers, NEW body \in Published, Fetch(t, body) PROVE RegistryInv'
  <2>. USE Zenon
  <2>1. /\ DOMAIN refresh' = Callers /\ UNCHANGED <<registry, built>>
        /\ refresh'[t] = [at |-> "parsed", fresh |-> Parse(body)]
        /\ \A u \in Callers \ {t} : refresh'[u] = refresh[u]
    BY <1>1 DEF Fetch, RegistryInv
  <2>2. refresh'[t].fresh = Parse(body)
    BY SMT, <2>1
  <2>3. BuiltInv'
    BY <2>1 DEF RegistryInv, BuiltInv
  <2>. QED BY <2>1, <2>2, <2>3 DEF RegistryInv
\* Its end: an empty catalog changes nothing, another replaces the registry.
<1>2. ASSUME NEW t \in Callers, Install(t) PROVE RegistryInv'
  <2>. USE Zenon
  <2>1. /\ DOMAIN refresh' = Callers /\ UNCHANGED built
        /\ refresh'[t] = Resting
        /\ \A u \in Callers \ {t} : refresh'[u] = refresh[u]
    BY <1>2 DEF Install, RegistryInv
  <2>2. refresh'[t].at # "parsed"
    BY SMT, <2>1 DEF Resting
  <2>3. \E body \in Published \cup {Embedded} : DOMAIN body # {} /\ registry' = Parse(body)
    <3>1. PICK body \in Published : refresh[t].fresh = Parse(body)
      BY <1>2 DEF Install, RegistryInv
    <3>2. DOMAIN Parse(body) = DOMAIN body
      BY SMT DEF Parse
    <3>. QED BY <1>2, <3>1, <3>2 DEF Install, RegistryInv
  <2>4. BuiltInv'
    BY <2>1 DEF RegistryInv, BuiltInv
  <2>. QED BY <2>1, <2>2, <2>3, <2>4 DEF RegistryInv
\* A builder leaves the registry alone.
<1>3. ASSUME UNCHANGED <<registry, refresh>>, BuiltInv' PROVE RegistryInv'
  BY <1>3, Zenon DEF RegistryInv
<1>4. ASSUME NEW c \in ChainIds, NEW hedge \in Hedges, ForChain(c, hedge) PROVE RegistryInv'
  <2>. DEFINE rpcs == PublicRpcs(c)
              m == Min({MaxDefault, Len(rpcs)})
              taken == SubSeq(rpcs, 1, m)
  <2>1. PICK S : rpcs \in Seq(S)
    <3>1. PICK body \in Published \cup {Embedded} : registry = Parse(body)
      BY Zenon DEF RegistryInv
    <3>2. CASE c \in DOMAIN registry
      <4>1. c \in DOMAIN body /\ rpcs = UrlsOf(body[c])
        BY <3>1, <3>2 DEF Parse, PublicRpcs
      <4>. QED BY <4>1, UrlsAreSequence, EndpointsAssumption, Zenon
    <3>3. CASE c \notin DOMAIN registry
      <4>1. rpcs = <<>>
        BY <3>3 DEF PublicRpcs
      <4>. QED BY <1>4, <4>1 DEF ForChain
    <3>. QED BY <3>2, <3>3, Zenon
  <2>2. rpcs # <<>> /\ built' = Build(taken, hedge) /\ UNCHANGED <<registry, refresh>>
    BY <1>4, Zenon DEF ForChain
  <2>. HIDE DEF rpcs
  <2>3. Len(rpcs) \in Nat /\ Len(rpcs) >= 1
    BY <2>1, <2>2
  <2>4. m \in 1 .. Len(rpcs)
    <3>1. MaxDefault \in Int /\ MaxDefault >= 1 /\ Len(rpcs) \in Int
      BY <2>3, EndpointsAssumption
    <3>2. m \in {MaxDefault, Len(rpcs)} /\ m <= Len(rpcs)
      BY <3>1, MinOfTwo, Zenon
    <3>. HIDE DEF m
    <3>. QED BY <2>3, <3>1, <3>2
  <2>. HIDE DEF m
  <2>5. taken \in Seq(S) /\ Len(taken) = m
    BY <2>1, <2>3, <2>4
  <2>6. taken # <<>> /\ hedge \in Nat
    BY <2>4, <2>5, EndpointsAssumption
  <2>. QED BY <1>3, <2>2, <2>5, <2>6, BuildRaces, Zenon
<1>5. ASSUME NEW v, NEW c, ForVendor(v, c) PROVE RegistryInv'
  <2>1. <<<<v, c>>>> \in Seq({<<v, c>>}) /\ <<<<v, c>>>> # <<>> /\ 1 \in Nat
    OBVIOUS
  <2>. QED BY <1>3, <1>5, <2>1, BuildRaces, Zenon DEF ForVendor
<1>6. ASSUME NEW urls \in Configs, NEW hedge \in Hedges, FromConfig(urls, hedge) PROVE RegistryInv'
  <2>1. urls \in Seq(Range(urls)) /\ hedge \in Nat
    BY EndpointsAssumption, Zenon
  <2>. QED BY <1>3, <1>6, <2>1, BuildRaces, Zenon DEF FromConfig
<1>7. CASE UNCHANGED endpointVars
  BY <1>7, Zenon DEF endpointVars, RegistryInv, BuiltInv
<1>. QED BY <1>1, <1>2, <1>4, <1>5, <1>6, <1>7, Zenon DEF EndpointsNext

-----------------------------------------------------------------------------
\* Account discovery.

Addresses(found) == {a.address : a \in found}

\* The scan of a scheme up to index i, the last run of them unused: no gap of
\* the addresses that are used now lies before i; unless a chain was out, the
\* run was unused when the scan began, and what was used then is found.
Position(o, sch, ue, us, found, partial, i, run) ==
    /\ \A j \in o.start_index .. i - Window(o) : \E k \in j .. j + Window(o) - 1 : Address(sch, k) \in ue
    /\ run \in Nat /\ run <= i - o.start_index /\ run < Window(o)
    /\ run < i - o.start_index => Address(sch, i - run - 1) \in ue
    /\ ~partial => /\ \A k \in i - run .. i - 1 : Address(sch, k) \notin us
                   /\ \A k \in o.start_index .. i - 1 :
                         Address(sch, k) \in us => Address(sch, k) \in Addresses(found)

\* A scheme that is done with.
Scanned(o, sch, us, found, partial, hit) ==
    ~partial => /\ ReachableIn(o, us, sch) \subseteq Addresses(found)
                /\ ~hit => Gaps(o, us, sch) # {}

LEMMA InsertAdds ==
    ASSUME NEW found, NEW i, NEW a
    PROVE  Addresses(Insert(found, [index |-> i, address |-> a])) = Addresses(found) \cup {a}
<1>. USE Zenon
<1>. DEFINE r == [index |-> i, address |-> a]
<1>1. r.address = a
  BY SMT
<1>. HIDE DEF r
<1>2. Addresses(Insert(found, r)) = Addresses(found) \cup {a}
  BY <1>1 DEF Addresses, Insert
<1>. QED BY <1>2 DEF r

LEMMA WindowIs ==
    ASSUME NEW o \in Scans
    PROVE  /\ Window(o) \in Nat /\ Window(o) >= 1 /\ Window(o) >= o.gap_limit
           /\ \A n \in Nat : n >= 1 => (n >= o.gap_limit <=> n >= Window(o))
           /\ o.start_index \in Nat /\ o.max_index \in Nat /\ o.start_index < o.max_index
<1>1. /\ o.gap_limit \in Nat /\ o.start_index \in Nat /\ o.max_index \in Nat
      /\ o.start_index < o.max_index
  BY DiscoveryAssumption, Zenon
<1>. DEFINE w == Window(o)
<1>2. w \in {o.gap_limit, 1} /\ w >= o.gap_limit /\ w >= 1
  <2>1. o.gap_limit \in Int /\ 1 \in Int
    BY <1>1
  <2>. QED BY <2>1, MaxOfTwo, Zenon DEF Window
<1>. HIDE DEF w
<1>3. w \in Nat /\ \A n \in Nat : n >= 1 => (n >= o.gap_limit <=> n >= w)
  BY <1>1, <1>2
<1>. QED BY <1>1, <1>2, <1>3, Zenon DEF w

LEMMA EndIs ==
    ASSUME NEW o \in Scans, NEW i \in Nat, i < o.max_index
    PROVE  End(o, i) \in Nat /\ i < End(o, i) /\ End(o, i) <= o.max_index
<1>1. Window(o) \in Nat /\ Window(o) >= 1 /\ o.max_index \in Nat
  BY WindowIs, Zenon
<1>. DEFINE e == End(o, i)
<1>2. e \in {i + Window(o), o.max_index} /\ e <= o.max_index
  <2>1. i + Window(o) \in Int /\ o.max_index \in Int
    BY <1>1
  <2>. QED BY <2>1, MinOfTwo, Zenon DEF End
<1>. HIDE DEF e
<1>3. e \in Nat /\ i < e /\ e <= o.max_index
  BY <1>1, <1>2
<1>. QED BY <1>3, Zenon DEF e

\* One entry of a window, as the chains that answered have it.
AtEntry(o, sch, ue, us, found, partial, i, run) ==
    /\ o \in Scans /\ sch \in Range(o.schemes) /\ partial \in BOOLEAN
    /\ i \in Nat /\ o.start_index <= i /\ i < o.max_index
    /\ Position(o, sch, ue, us, found, partial, i, run)
    /\ Addresses(found) \subseteq Reachable(o, ue)

LEMMA EntryUsed ==
    ASSUME NEW o, NEW sch, NEW ue, NEW us, NEW found, NEW partial, NEW i, NEW run,
           AtEntry(o, sch, ue, us, found, partial, i, run), Address(sch, i) \in ue,
           NEW more, Addresses(more) = Addresses(found) \cup {Address(sch, i)}
    PROVE  /\ Position(o, sch, ue, us, more, partial, i + 1, 0)
           /\ Addresses(more) \subseteq Reachable(o, ue)
<1>. USE Zenon
<1>. DEFINE w == Window(o)
            st == o.start_index
            A(k) == Address(sch, k)
            F == Addresses(found)
            M == Addresses(more)
<1>0. /\ o \in Scans /\ sch \in Range(o.schemes) /\ partial \in BOOLEAN
      /\ i \in Nat /\ o.start_index <= i /\ i < o.max_index
      /\ Position(o, sch, ue, us, found, partial, i, run) /\ Addresses(found) \subseteq Reachable(o, ue)
  BY DEF AtEntry
<1>1. w \in Nat /\ w >= 1 /\ st \in Nat /\ o.max_index \in Nat /\ i \in Nat /\ i < o.max_index
  BY <1>0, WindowIs
<1>2. \A j \in st .. i - w : \E k \in j .. j + w - 1 : A(k) \in ue
  BY <1>0 DEF Position
<1>3. A(i) \in ue /\ M = F \cup {A(i)} /\ st <= i
  BY <1>0
<1>4. ~partial => \A k \in st .. i - 1 : A(k) \in us => A(k) \in F
  BY <1>0 DEF Position
<1>. HIDE DEF w, st, A, F, M
<1>5. \A j \in st .. (i + 1) - w : \E k \in j .. j + w - 1 : A(k) \in ue
  <2>. TAKE j \in st .. (i + 1) - w
  <2>1. CASE j \in st .. i - w
    BY <1>2, <2>1
  <2>2. CASE j \notin st .. i - w
    <3>1. i \in j .. j + w - 1
      BY SMT, <1>1, <2>2
    <3>. QED BY <1>3, <3>1
  <2>. QED BY <2>1, <2>2
<1>6. 0 \in Nat /\ 0 <= (i + 1) - st /\ 0 < w /\ (i + 1) - 0 - 1 = i /\ (i + 1) - 1 = i
  BY SMT, <1>1, <1>3
<1>7. (i + 1) - 0 .. (i + 1) - 1 = {}
  BY SMT, <1>1
<1>8. ~partial => \A k \in st .. (i + 1) - 1 : A(k) \in us => A(k) \in M
  <2>. SUFFICES ASSUME ~partial, NEW k \in st .. (i + 1) - 1, A(k) \in us PROVE A(k) \in M
    OBVIOUS
  <2>1. k = i \/ k \in st .. i - 1
    BY SMT, <1>1
  <2>. QED BY <1>3, <1>4, <2>1
<1>9. Position(o, sch, ue, us, more, partial, i + 1, 0)
  BY <1>3, <1>5, <1>6, <1>7, <1>8 DEF Position, w, st, A, M
<1>10. A(i) \in Reachable(o, ue)
  <2>1. i \in Live(o, ue, sch)
    <3>1. i \in o.start_index .. o.max_index - 1
      BY SMT, <1>1, <1>3 DEF st
    <3>. QED BY <1>3, <3>1 DEF Live, A
  <2>2. ASSUME NEW j \in Gaps(o, ue, sch) PROVE i < j
    <3>1. j \in st .. o.max_index - w /\ (j .. j + w - 1) \cap Live(o, ue, sch) = {}
      BY DEF Gaps, st, w
    <3>2. ASSUME j <= i PROVE FALSE
      <4>1. CASE j \in st .. i - w
        <5>1. PICK k \in j .. j + w - 1 : A(k) \in ue
          BY <1>2, <4>1
        <5>2. k \in o.start_index .. o.max_index - 1
          BY SMT, <1>1, <3>1, <5>1 DEF st
        <5>. QED BY <3>1, <5>1, <5>2 DEF Live, A
      <4>2. CASE j \notin st .. i - w
        <5>1. i \in j .. j + w - 1
          BY SMT, <1>1, <3>1, <3>2, <4>2
        <5>. QED BY <2>1, <3>1, <5>1
      <4>. QED BY <4>1, <4>2
    <3>. QED BY SMT, <1>1, <3>1, <3>2
  <2>3. A(i) \in ReachableIn(o, ue, sch)
    BY <2>1, <2>2 DEF ReachableIn, A
  <2>. QED BY <1>0, <2>3 DEF Reachable
<1>11. M \subseteq Reachable(o, ue)
  BY <1>0, <1>3, <1>10 DEF F
<1>. QED BY <1>9, <1>11 DEF M

LEMMA EntryUnused ==
    ASSUME NEW o, NEW sch, NEW ue, NEW us, NEW found, NEW partial, NEW i, NEW run,
           AtEntry(o, sch, ue, us, found, partial, i, run),
           ~partial => Address(sch, i) \notin us
    PROVE  IF run + 1 < Window(o) THEN Position(o, sch, ue, us, found, partial, i + 1, run + 1)
           ELSE Scanned(o, sch, us, found, partial, FALSE)
<1>. USE Zenon
<1>. DEFINE w == Window(o)
            st == o.start_index
            A(k) == Address(sch, k)
            F == Addresses(found)
<1>0. /\ o \in Scans /\ sch \in Range(o.schemes) /\ partial \in BOOLEAN
      /\ i \in Nat /\ o.start_index <= i /\ i < o.max_index
      /\ Position(o, sch, ue, us, found, partial, i, run) /\ Addresses(found) \subseteq Reachable(o, ue)
  BY DEF AtEntry
<1>1. w \in Nat /\ w >= 1 /\ st \in Nat /\ o.max_index \in Nat /\ i \in Nat /\ i < o.max_index
  BY <1>0, WindowIs
<1>2. \A j \in st .. i - w : \E k \in j .. j + w - 1 : A(k) \in ue
  BY <1>0 DEF Position
<1>3. run \in Nat /\ run <= i - st /\ run < w /\ (run < i - st => A(i - run - 1) \in ue) /\ st <= i /\ i < o.max_index
  BY <1>0 DEF Position
<1>4. ~partial => /\ \A k \in i - run .. i - 1 : A(k) \notin us
                  /\ \A k \in st .. i - 1 : A(k) \in us => A(k) \in F
                  /\ A(i) \notin us
  BY <1>0 DEF Position
<1>. HIDE DEF w, st, A, F
<1>5. CASE run + 1 < w
  <2>1. \A j \in st .. (i + 1) - w : \E k \in j .. j + w - 1 : A(k) \in ue
    <3>. TAKE j \in st .. (i + 1) - w
    <3>1. CASE j \in st .. i - w
      BY <1>2, <3>1
    <3>2. CASE j \notin st .. i - w
      <4>1. i - run - 1 \in j .. j + w - 1 /\ run < i - st
        BY SMT, <1>1, <1>3, <1>5, <3>2
      <4>. QED BY <1>3, <4>1
    <3>. QED BY <3>1, <3>2
  <2>2. /\ run + 1 \in Nat /\ run + 1 <= (i + 1) - st /\ (run + 1 < (i + 1) - st => run < i - st)
        /\ (i + 1) - (run + 1) - 1 = i - run - 1 /\ (i + 1) - (run + 1) = i - run /\ (i + 1) - 1 = i
    BY SMT, <1>1, <1>3
  <2>3. ~partial => /\ \A k \in (i + 1) - (run + 1) .. (i + 1) - 1 : A(k) \notin us
                    /\ \A k \in st .. (i + 1) - 1 : A(k) \in us => A(k) \in F
    <3>. SUFFICES ASSUME ~partial
                  PROVE  /\ \A k \in (i + 1) - (run + 1) .. (i + 1) - 1 : A(k) \notin us
                         /\ \A k \in st .. (i + 1) - 1 : A(k) \in us => A(k) \in F
      OBVIOUS
    <3>1. \A k \in (i + 1) - (run + 1) .. (i + 1) - 1 : k = i \/ k \in i - run .. i - 1
      BY SMT, <1>1, <1>3
    <3>2. \A k \in st .. (i + 1) - 1 : k = i \/ k \in st .. i - 1
      BY SMT, <1>1, <1>3
    <3>. QED BY <1>4, <3>1, <3>2
  <2>. QED BY <1>3, <1>5, <2>1, <2>2, <2>3 DEF Position, w, st, A, F
<1>6. CASE ~(run + 1 < w)
  <2>. SUFFICES ASSUME ~partial PROVE ReachableIn(o, us, sch) \subseteq F /\ Gaps(o, us, sch) # {}
    BY <1>6 DEF Scanned, w, F
  <2>. DEFINE g == (i + 1) - w
  <2>1. g \in st .. o.max_index - w /\ g <= i /\ (\A k \in g .. g + w - 1 : k = i \/ k \in i - run .. i - 1)
    BY SMT, <1>1, <1>3, <1>6
  <2>. HIDE DEF g
  <2>2. (g .. g + w - 1) \cap Live(o, us, sch) = {}
    BY <1>4, <2>1 DEF Live, A
  <2>3. g \in Gaps(o, us, sch)
    BY <2>1, <2>2 DEF Gaps, st, w
  <2>4. ASSUME NEW k \in Live(o, us, sch), \A j \in Gaps(o, us, sch) : k < j PROVE A(k) \in F
    <3>1. k \in st .. o.max_index - 1 /\ A(k) \in us /\ k < g
      BY <2>3, <2>4 DEF Live, A, st
    <3>2. k \in st .. i - 1
      BY SMT, <1>1, <1>3, <2>1, <3>1
    <3>. QED BY <1>4, <3>1, <3>2
  <2>. QED BY <2>3, <2>4 DEF ReachableIn, A
<1>. QED BY <1>5, <1>6 DEF w

\* discover's locals, and what the steps of the scan do to them.
IsScan(d) ==
    DOMAIN d = {"op", "opts", "s", "i", "run", "c", "used", "found", "hit_max_index", "partial"}
SameBut(S, d, e) == IsScan(e) /\ \A x \in DOMAIN d \ S : e[x] = d[x]

LEMMA VisitDoes ==
    ASSUME NEW d, IsScan(d), NEW j
    PROVE  LET e == Visit(d, j)
               a == Address(d.opts.schemes[d.s], j)
           IN  /\ SameBut({"run", "found"}, d, e)
               /\ a \in d.used => e.run = 0 /\ e.found = Insert(d.found, [index |-> j, address |-> a])
               /\ a \notin d.used => e.run = d.run + 1 /\ e.found = d.found
<1>. DEFINE a == Address(d.opts.schemes[d.s], j)
            ins == Insert(d.found, [index |-> j, address |-> a])
<1>1. CASE a \in d.used
  <2>1. Visit(d, j) = [d EXCEPT !.run = 0, !.found = ins]
    BY <1>1 DEF Visit
  <2>. HIDE DEF a, ins
  <2>2. SameBut({"run", "found"}, d, Visit(d, j)) /\ Visit(d, j).run = 0 /\ Visit(d, j).found = ins
    BY Zenon, <2>1 DEF IsScan, SameBut
  <2>. QED BY <1>1, <2>2, Zenon DEF a, ins
<1>2. CASE a \notin d.used
  <2>1. Visit(d, j) = [d EXCEPT !.run = d.run + 1]
    BY <1>2 DEF Visit
  <2>. HIDE DEF a, ins
  <2>2. SameBut({"run", "found"}, d, Visit(d, j)) /\ Visit(d, j).run = d.run + 1 /\ Visit(d, j).found = d.found
    BY <2>1 DEF IsScan, SameBut
  <2>. QED BY <1>2, <2>2, Zenon DEF a, ins
<1>. QED BY <1>1, <1>2, Zenon

LEMMA FlagDoes ==
    ASSUME NEW d, IsScan(d), NEW x
    PROVE  /\ LET e == [d EXCEPT !.partial = x] IN SameBut({"partial"}, d, e) /\ e.partial = x
           /\ LET e == [d EXCEPT !.hit_max_index = x] IN SameBut({"hit_max_index"}, d, e) /\ e.hit_max_index = x
BY DEF IsScan, SameBut

\* A window whose chains have all been asked.
Entered(d, ue, us) ==
    LET o == d.opts
        sch == d.opts.schemes[d.s]
    IN  /\ IsScan(d) /\ o \in Scans /\ sch \in Range(o.schemes) /\ d.partial \in BOOLEAN
        /\ d.i \in Nat /\ o.start_index <= d.i /\ d.i < o.max_index
        /\ Position(o, sch, ue, us, d.found, d.partial, d.i, d.run)
        /\ Addresses(d.found) \subseteq Reachable(o, ue)
        /\ d.used \subseteq ue
        /\ ~d.partial => \A j \in d.i .. End(o, d.i) - 1 : Address(sch, j) \in us => Address(sch, j) \in d.used

\* What the first k entries of the window leave.
Visited(d, ue, us, k, v) ==
    LET o == d.opts
        sch == d.opts.schemes[d.s]
    IN  /\ SameBut({"run", "found"}, d, v.d) /\ v.stop \in BOOLEAN
        /\ Addresses(d.found) \subseteq Addresses(v.d.found)
        /\ Addresses(v.d.found) \subseteq Reachable(o, ue)
        /\ v.stop => Scanned(o, sch, us, v.d.found, d.partial, FALSE)
        /\ ~v.stop => Position(o, sch, ue, us, v.d.found, d.partial, d.i + k, v.d.run)

LEMMA VisitNextKeeps ==
    ASSUME NEW d, NEW ue, NEW us, Entered(d, ue, us),
           NEW k \in 0 .. End(d.opts, d.i) - d.i - 1, NEW v, Visited(d, ue, us, k, v)
    PROVE  Visited(d, ue, us, k + 1, VisitNext(v, d.i + k))
<1>. USE Zenon
<1>. DEFINE o == d.opts
            sch == d.opts.schemes[d.s]
            i == d.i + k
            w == VisitNext(v, i)
            e == Visit(v.d, i)
            a == Address(sch, i)
<1>1. CASE v.stop
  <2>1. w = v
    BY <1>1 DEF VisitNext
  <2>. HIDE DEF w
  <2>2. Visited(d, ue, us, k + 1, v)
    BY <1>1 DEF Visited
  <2>. QED BY <2>1, <2>2 DEF w
<1>2. CASE ~v.stop
  <2>1. w = [d |-> e, stop |-> GapReached(e, i)]
    BY <1>2 DEF VisitNext
  <2>2. w.d = e /\ w.stop = GapReached(e, i)
    BY SMT, <2>1
  <2>3. /\ o \in Scans /\ sch \in Range(o.schemes) /\ d.partial \in BOOLEAN /\ d.used \subseteq ue /\ IsScan(d)
        /\ Position(o, sch, ue, us, v.d.found, d.partial, i, v.d.run)
        /\ Addresses(v.d.found) \subseteq Reachable(o, ue) /\ Addresses(d.found) \subseteq Addresses(v.d.found)
        /\ SameBut({"run", "found"}, d, v.d)
    BY <1>2 DEF Entered, Visited
  <2>4. /\ i \in Nat /\ o.start_index <= i /\ i < o.max_index /\ i \in d.i .. End(o, d.i) - 1
        /\ d.i + (k + 1) = i + 1
    <3>1. d.i \in Nat /\ d.i < o.max_index /\ o.start_index <= d.i /\ o.start_index \in Nat /\ o.max_index \in Nat
      BY <2>3, WindowIs DEF Entered
    <3>2. End(o, d.i) \in Nat /\ End(o, d.i) <= o.max_index
      BY <2>3, <3>1, EndIs
    <3>. QED BY SMT, <3>1, <3>2
  <2>5. v.d.opts = o /\ v.d.s = d.s /\ v.d.used = d.used
    BY SMT, <2>3 DEF SameBut, IsScan
  <2>6. /\ SameBut({"run", "found"}, v.d, e)
        /\ a \in d.used => e.run = 0 /\ e.found = Insert(v.d.found, [index |-> i, address |-> a])
        /\ a \notin d.used => e.run = v.d.run + 1 /\ e.found = v.d.found
    <3>1. IsScan(v.d)
      BY <2>3 DEF SameBut
    <3>2. LET b == Address(v.d.opts.schemes[v.d.s], i)
          IN  /\ SameBut({"run", "found"}, v.d, e)
              /\ b \in v.d.used => e.run = 0 /\ e.found = Insert(v.d.found, [index |-> i, address |-> b])
              /\ b \notin v.d.used => e.run = v.d.run + 1 /\ e.found = v.d.found
      BY <3>1, VisitDoes
    <3>3. Address(v.d.opts.schemes[v.d.s], i) = a
      BY <2>5
    <3>. HIDE DEF a, e
    <3>. QED BY <2>5, <3>2, <3>3
  <2>7. SameBut({"run", "found"}, d, e) /\ e.opts = o /\ e.s = d.s /\ e.used = d.used
    BY <2>3, <2>6 DEF SameBut, IsScan
  <2>8. GapReached(e, i) = (a \notin d.used /\ e.run >= o.gap_limit)
    BY <2>7 DEF GapReached
  <2>. HIDE DEF w, e, a, i, o, sch
  <2>b. AtEntry(o, sch, ue, us, v.d.found, d.partial, i, v.d.run)
    BY <2>3, <2>4 DEF AtEntry
  <2>9. CASE a \in d.used
    <3>1. Addresses(e.found) = Addresses(v.d.found) \cup {a}
      <4>1. Addresses(Insert(v.d.found, [index |-> i, address |-> a])) = Addresses(v.d.found) \cup {a}
        BY InsertAdds
      <4>. QED BY <2>6, <2>9, <4>1
    <3>2. ~GapReached(e, i)
      BY <2>8, <2>9
    <3>3. a \in ue /\ a = Address(sch, i)
      BY <2>3, <2>9 DEF a
    <3>4. /\ Position(o, sch, ue, us, e.found, d.partial, i + 1, 0)
          /\ Addresses(e.found) \subseteq Reachable(o, ue)
      BY <2>b, <3>1, <3>3, EntryUsed
    <3>5. e.run = 0 /\ GapReached(e, i) \in BOOLEAN
      BY <2>6, <2>8, <2>9
    <3>6. Position(o, sch, ue, us, e.found, d.partial, d.i + (k + 1), e.run)
      BY <2>4, <3>4, <3>5
    <3>7. Addresses(d.found) \subseteq Addresses(e.found)
      BY <2>3, <3>1
    <3>. QED BY <2>2, <2>7, <3>2, <3>4, <3>5, <3>6, <3>7 DEF Visited, o, sch, w, i
  <2>10. CASE a \notin d.used
    <3>1. ~d.partial => Address(sch, i) \notin us
      BY <2>4, <2>10 DEF Entered, o, sch, a
    <3>2. IF v.d.run + 1 < Window(o) THEN Position(o, sch, ue, us, v.d.found, d.partial, i + 1, v.d.run + 1)
          ELSE Scanned(o, sch, us, v.d.found, d.partial, FALSE)
      BY <2>b, <3>1, EntryUnused
    <3>3. v.d.run \in Nat
      BY <2>3 DEF Position
    <3>4. v.d.run + 1 \in Nat /\ v.d.run + 1 >= 1
      BY SMT, <3>3
    <3>5. Window(o) \in Nat /\ (v.d.run + 1 >= o.gap_limit <=> v.d.run + 1 >= Window(o))
      BY <2>3, <3>4, WindowIs
    <3>6. v.d.run + 1 >= Window(o) <=> ~(v.d.run + 1 < Window(o))
      BY SMT, <3>4, <3>5
    <3>7. GapReached(e, i) <=> ~(v.d.run + 1 < Window(o))
      BY <2>6, <2>8, <2>10, <3>5, <3>6
    <3>8. GapReached(e, i) \in BOOLEAN
      BY <2>8
    <3>. QED BY <2>2, <2>3, <2>4, <2>6, <2>7, <2>10, <3>2, <3>7, <3>8 DEF Visited, o, sch, w, i
  <2>. QED BY <2>9, <2>10
<1>. QED BY <1>1, <1>2 DEF Visited

LEMMA VisitAllDoes ==
    ASSUME NEW d, NEW ue, NEW us, Entered(d, ue, us)
    PROVE  Visited(d, ue, us, End(d.opts, d.i) - d.i, VisitAll(d))
<1>. USE Zenon
<1>. DEFINE n == End(d.opts, d.i) - d.i
            v0 == [d |-> d, stop |-> FALSE]
            Turn(v, k) == VisitNext(v, d.i + k - 1)
            Good(g, m) == g = [k \in 0 .. m |-> IF k = 0 THEN v0 ELSE Turn(g[k - 1], k)]
            G == {m \in 0 .. n : \E g : Good(g, m)}
<1>1. n \in Nat /\ d.i \in Nat
  <2>1. d.i \in Nat /\ d.i < d.opts.max_index /\ d.opts \in Scans
    BY DEF Entered
  <2>2. End(d.opts, d.i) \in Nat /\ d.i < End(d.opts, d.i)
    BY <2>1, EndIs
  <2>. QED BY SMT, <2>1, <2>2
<1>a. v0.d = d /\ v0.stop = FALSE
  BY SMT
<1>. HIDE DEF n, Turn, v0
<1>2. 0 \in G
  <2>. DEFINE g == [k \in 0 .. 0 |-> v0]
  <2>1. Good(g, 0)
    BY SMT
  <2>2. 0 \in 0 .. n
    BY SMT, <1>1
  <2>. QED BY <2>1, <2>2
<1>3. ASSUME NEW m \in 0 .. n - 1, m \in G PROVE m + 1 \in G
  <2>1. PICK g : Good(g, m)
    BY <1>3
  <2>. DEFINE h == [k \in 0 .. m + 1 |-> IF k = m + 1 THEN Turn(g[m], m + 1) ELSE g[k]]
  <2>2. ASSUME NEW k \in 0 .. m + 1 PROVE h[k] = IF k = 0 THEN v0 ELSE Turn(h[k - 1], k)
    <3>1. CASE k = m + 1
      <4>1. m \in 0 .. m + 1 /\ k - 1 = m /\ k # 0 /\ m # m + 1
        BY SMT, <1>1, <3>1
      <4>2. h[m] = g[m] /\ h[k] = Turn(g[m], k)
        BY <3>1, <4>1
      <4>. QED BY <4>1, <4>2
    <3>2. CASE k # m + 1
      <4>1. k \in 0 .. m /\ (k # 0 => k - 1 \in 0 .. m + 1 /\ k - 1 # m + 1)
        BY SMT, <1>1, <3>2
      <4>2. h[k] = g[k] /\ (k # 0 => h[k - 1] = g[k - 1])
        BY <3>2, <4>1
      <4>3. g[k] = IF k = 0 THEN v0 ELSE Turn(g[k - 1], k)
        BY <2>1, <4>1
      <4>. QED BY <4>2, <4>3
    <3>. QED BY <3>1, <3>2
  <2>3. Good(h, m + 1)
    <3>. DEFINE e == [k \in 0 .. m + 1 |-> IF k = 0 THEN v0 ELSE Turn(h[k - 1], k)]
    <3>1. \A k \in 0 .. m + 1 : h[k] = e[k]
      BY <2>2
    <3>2. h = e
      BY <3>1
    <3>. QED BY <3>2
  <2>4. m + 1 \in 0 .. n
    BY SMT, <1>1
  <2>. QED BY <2>3, <2>4
<1>4. n \in G
  <2>1. 0 .. n \subseteq G
    <3>. HIDE DEF G
    <3>. QED BY <1>1, <1>2, <1>3, Upward
  <2>2. n \in 0 .. n
    BY SMT, <1>1
  <2>. QED BY <2>1, <2>2
<1>5. PICK f : Good(f, n) /\ VisitAll(d) = f[n]
  BY <1>4 DEF VisitAll, Visits, n, Turn, v0
<1>. DEFINE H == {k \in 0 .. n : Visited(d, ue, us, k, f[k])}
<1>6. 0 \in H
  <2>1. 0 \in 0 .. n /\ d.i + 0 = d.i
    BY SMT, <1>1
  <2>2. f[0] = v0
    BY <1>5, <2>1
  <2>3. SameBut({"run", "found"}, d, d)
    BY DEF SameBut, Entered
  <2>4. Visited(d, ue, us, 0, v0)
    BY <1>a, <2>1, <2>3 DEF Visited, Entered
  <2>. QED BY <2>1, <2>2, <2>4
<1>7. ASSUME NEW k \in 0 .. n - 1, k \in H PROVE k + 1 \in H
  <2>1. k + 1 \in 0 .. n /\ k + 1 # 0 /\ (k + 1) - 1 = k /\ d.i + (k + 1) - 1 = d.i + k
    BY SMT, <1>1
  <2>2. f[k + 1] = Turn(f[k], k + 1)
    BY <1>5, <2>1
  <2>3. f[k + 1] = VisitNext(f[k], d.i + k)
    BY <2>1, <2>2 DEF Turn
  <2>4. Visited(d, ue, us, k, f[k]) /\ k \in 0 .. End(d.opts, d.i) - d.i - 1
    BY <1>7 DEF n
  <2>5. Visited(d, ue, us, k + 1, f[k + 1])
    BY <2>3, <2>4, VisitNextKeeps
  <2>. QED BY <2>1, <2>5
<1>8. 0 .. n \subseteq H
  <2>. HIDE DEF H
  <2>. QED BY <1>1, <1>6, <1>7, Upward
<1>9. n \in 0 .. n
  BY SMT, <1>1
<1>. QED BY <1>5, <1>8, <1>9 DEF n

LEMMA ReachableGrows ==
    ASSUME NEW o, NEW sch, NEW U, NEW V, U \subseteq V
    PROVE  /\ Gaps(o, V, sch) \subseteq Gaps(o, U, sch)
           /\ ReachableIn(o, U, sch) \subseteq ReachableIn(o, V, sch)
<1>. USE Zenon
<1>1. Live(o, U, sch) \subseteq Live(o, V, sch)
  BY DEF Live
<1>2. Gaps(o, V, sch) \subseteq Gaps(o, U, sch)
  BY <1>1 DEF Gaps
<1>3. ReachableIn(o, U, sch) \subseteq ReachableIn(o, V, sch)
  BY <1>1, <1>2 DEF ReachableIn
<1>. QED BY <1>2, <1>3

LEMMA StartPosition ==
    ASSUME NEW o \in Scans
    PROVE  \A sch, ue, us, found, partial : Position(o, sch, ue, us, found, partial, o.start_index, 0)
<1>. USE Zenon
<1>. DEFINE st == o.start_index
            w == Window(o)
<1>1. w \in Nat /\ w >= 1 /\ st \in Nat
  BY WindowIs
<1>. HIDE DEF st, w
<1>2. /\ st .. st - w = {} /\ 0 \in Nat /\ 0 <= st - st /\ 0 < w /\ ~(0 < st - st)
      /\ st - 0 .. st - 1 = {} /\ st .. st - 1 = {}
  BY SMT, <1>1
<1>. QED BY <1>2 DEF Position, st, w

\* The scan reached max_index.
LEMMA RangeIsDone ==
    ASSUME NEW o \in Scans, NEW sch, NEW ue, NEW us, NEW found, NEW partial, NEW run,
           Position(o, sch, ue, us, found, partial, o.max_index, run)
    PROVE  Gaps(o, ue, sch) = {} /\ Scanned(o, sch, us, found, partial, TRUE)
<1>. USE Zenon
<1>1. Window(o) \in Nat /\ o.start_index \in Nat /\ o.max_index \in Nat
  BY WindowIs
<1>2. ASSUME NEW j \in Gaps(o, ue, sch) PROVE FALSE
  <2>1. j \in o.start_index .. o.max_index - Window(o) /\ (j .. j + Window(o) - 1) \cap Live(o, ue, sch) = {}
    BY DEF Gaps
  <2>2. PICK k \in j .. j + Window(o) - 1 : Address(sch, k) \in ue
    BY <2>1 DEF Position
  <2>3. k \in o.start_index .. o.max_index - 1
    BY SMT, <1>1, <2>1, <2>2
  <2>. QED BY <2>1, <2>2, <2>3 DEF Live
<1>3. ~partial => ReachableIn(o, us, sch) \subseteq Addresses(found)
  BY DEF Position, ReachableIn, Live
<1>. QED BY <1>2, <1>3 DEF Scanned

\* The scan between two RPCs, against what is used now and what was used when
\* it began.
ScanOk(d, ue, us) ==
    LET o == d.opts IN
    /\ IsScan(d) /\ d.op = "discover" /\ o \in Scans
    /\ d.hit_max_index \in BOOLEAN /\ d.partial \in BOOLEAN
    /\ d.s \in 1 .. Len(o.schemes) + 1 /\ d.c \in 1 .. Len(Chains)
    /\ d.i \in Nat /\ o.start_index <= d.i /\ d.i < o.max_index
    /\ Addresses(d.found) \subseteq Reachable(o, ue)
    /\ d.hit_max_index => \E sch \in Range(o.schemes) : Gaps(o, ue, sch) = {}
    /\ \A k \in 1 .. d.s - 1 : Scanned(o, o.schemes[k], us, d.found, d.partial, d.hit_max_index)
    /\ d.s <= Len(o.schemes) =>
          Position(o, o.schemes[d.s], ue, us, d.found, d.partial, d.i, d.run) /\ d.used \subseteq ue

LEMMA SchemeIs ==
    ASSUME NEW o \in Scans, NEW s \in 1 .. Len(o.schemes) + 1
    PROVE  Len(o.schemes) \in Nat /\ (s <= Len(o.schemes) => o.schemes[s] \in Range(o.schemes))
<1>1. o.schemes \in Seq(Range(o.schemes))
  BY DiscoveryAssumption, Zenon
<1>. QED BY <1>1

LEMMA ScanWeakens ==
    ASSUME NEW d, NEW ue, NEW us, ScanOk(d, ue, us), NEW ue2, NEW us2, ue \subseteq ue2, us2 \subseteq us
    PROVE  ScanOk(d, ue2, us2)
<1>. USE Zenon
<1>. DEFINE o == d.opts
<1>1. Addresses(d.found) \subseteq Reachable(o, ue2)
  <2>1. Addresses(d.found) \subseteq Reachable(o, ue)
    BY DEF ScanOk
  <2>2. \A sch \in Range(o.schemes) : ReachableIn(o, ue, sch) \subseteq ReachableIn(o, ue2, sch)
    BY ReachableGrows
  <2>3. Reachable(o, ue) \subseteq Reachable(o, ue2)
    BY <2>2 DEF Reachable
  <2>. QED BY <2>1, <2>3
<1>2. d.hit_max_index => \E sch \in Range(o.schemes) : Gaps(o, ue2, sch) = {}
  <2>. SUFFICES ASSUME d.hit_max_index PROVE \E sch \in Range(o.schemes) : Gaps(o, ue2, sch) = {}
    OBVIOUS
  <2>1. PICK sch \in Range(o.schemes) : Gaps(o, ue, sch) = {}
    BY DEF ScanOk
  <2>2. Gaps(o, ue2, sch) \subseteq Gaps(o, ue, sch)
    BY ReachableGrows
  <2>. QED BY <2>1, <2>2
<1>3. \A k \in 1 .. d.s - 1 : Scanned(o, o.schemes[k], us2, d.found, d.partial, d.hit_max_index)
  <2>. TAKE k \in 1 .. d.s - 1
  <2>1. Scanned(o, o.schemes[k], us, d.found, d.partial, d.hit_max_index)
    BY DEF ScanOk
  <2>2. /\ Gaps(o, us, o.schemes[k]) \subseteq Gaps(o, us2, o.schemes[k])
        /\ ReachableIn(o, us2, o.schemes[k]) \subseteq ReachableIn(o, us, o.schemes[k])
    BY ReachableGrows
  <2>. QED BY <2>1, <2>2 DEF Scanned
<1>4. d.s <= Len(o.schemes) =>
         Position(o, o.schemes[d.s], ue2, us2, d.found, d.partial, d.i, d.run) /\ d.used \subseteq ue2
  BY DEF ScanOk, Position
<1>. QED BY <1>1, <1>2, <1>3, <1>4 DEF ScanOk

LEMMA ScanGoesPartial ==
    ASSUME NEW d, NEW ue, NEW us, ScanOk(d, ue, us), NEW e, e = [d EXCEPT !.partial = TRUE]
    PROVE  ScanOk(e, ue, us) /\ e.partial /\ SameBut({"partial"}, d, e)
<1>. USE Zenon
<1>1. IsScan(d)
  BY DEF ScanOk
<1>2. SameBut({"partial"}, d, e) /\ e.partial = TRUE
  BY <1>1, FlagDoes
<1>3. /\ IsScan(e) /\ e.op = d.op /\ e.opts = d.opts /\ e.s = d.s /\ e.i = d.i /\ e.run = d.run /\ e.c = d.c
      /\ e.used = d.used /\ e.found = d.found /\ e.hit_max_index = d.hit_max_index
  BY SMT, <1>1, <1>2 DEF SameBut, IsScan
<1>4. \A k \in 1 .. d.s - 1 : Scanned(d.opts, d.opts.schemes[k], us, d.found, TRUE, d.hit_max_index)
  BY DEF Scanned
<1>5. d.s <= Len(d.opts.schemes) => Position(d.opts, d.opts.schemes[d.s], ue, us, d.found, TRUE, d.i, d.run)
  BY DEF ScanOk, Position
<1>. QED BY <1>2, <1>3, <1>4, <1>5 DEF ScanOk

LEMMA ScanLearns ==
    ASSUME NEW d, NEW ue, NEW us, ScanOk(d, ue, us), NEW e, SameBut({"used"}, d, e),
           d.s <= Len(d.opts.schemes) => e.used \subseteq ue
    PROVE  ScanOk(e, ue, us)
<1>. USE Zenon
<1>1. IsScan(d)
  BY DEF ScanOk
<1>2. /\ IsScan(e) /\ e.op = d.op /\ e.opts = d.opts /\ e.s = d.s /\ e.i = d.i /\ e.run = d.run /\ e.c = d.c
      /\ e.partial = d.partial /\ e.found = d.found /\ e.hit_max_index = d.hit_max_index
  BY SMT, <1>1 DEF SameBut, IsScan
<1>. QED BY <1>2 DEF ScanOk

\* Every entry of the window that was in use when the scan began is known to be.
Complete(d, us) ==
    ~d.partial => \A j \in d.i .. End(d.opts, d.i) - 1 :
                     Address(d.opts.schemes[d.s], j) \in us => Address(d.opts.schemes[d.s], j) \in d.used

LEMMA CloseWindowKeeps ==
    ASSUME NEW d, NEW ue, NEW us, ScanOk(d, ue, us), d.s <= Len(d.opts.schemes), Complete(d, us),
           NEW e, e = CloseWindow(d)
    PROVE  ScanOk(e, ue, us) /\ e.c = 1 /\ e.partial = d.partial /\ e.opts = d.opts
<1>. USE Zenon
<1>. DEFINE o == d.opts
            sch == d.opts.schemes[d.s]
            v == VisitAll(d)
            end == End(d.opts, d.i)
            p == d.partial
            F == v.d.found
<1>1. /\ IsScan(d) /\ d.op = "discover" /\ o \in Scans /\ d.hit_max_index \in BOOLEAN /\ p \in BOOLEAN
      /\ d.s \in 1 .. Len(o.schemes) + 1 /\ d.i \in Nat /\ o.start_index <= d.i /\ d.i < o.max_index
      /\ d.s <= Len(o.schemes)
  BY DEF ScanOk
<1>2. Len(o.schemes) \in Nat /\ sch \in Range(o.schemes)
  BY <1>1, SchemeIs
<1>3. Entered(d, ue, us)
  BY <1>1, <1>2 DEF Entered, ScanOk, Complete
<1>4. Visited(d, ue, us, end - d.i, v)
  BY <1>3, VisitAllDoes
<1>5. /\ end \in Nat /\ d.i < end /\ end <= o.max_index /\ o.max_index \in Nat /\ o.start_index \in Nat
      /\ 1 \in 1 .. Len(Chains) /\ o.start_index < o.max_index
  <2>1. end \in Nat /\ d.i < end /\ end <= o.max_index
    BY <1>1, EndIs
  <2>2. o.max_index \in Nat /\ o.start_index \in Nat /\ o.start_index < o.max_index
    BY <1>1, WindowIs
  <2>3. Len(Chains) \in Nat /\ Len(Chains) > 0
    BY SMT, DiscoveryAssumption
  <2>4. 1 \in 1 .. Len(Chains)
    BY SMT, <2>3
  <2>. QED BY <2>1, <2>2, <2>4
<1>6. d.i + (end - d.i) = end
  BY SMT, <1>1, <1>5
<1>7. e = CASE v.stop -> StartScheme(v.d, d.s + 1)
            [] ~v.stop /\ end = o.max_index -> StartScheme([v.d EXCEPT !.hit_max_index = TRUE], d.s + 1)
            [] OTHER -> [v.d EXCEPT !.i = end, !.c = 1, !.used = {}]
  BY DEF CloseWindow
<1>. HIDE DEF v, end
<1>8. /\ IsScan(v.d) /\ v.d.op = "discover" /\ v.d.opts = o /\ v.d.s = d.s /\ v.d.hit_max_index = d.hit_max_index
      /\ v.d.partial = p
  BY SMT, <1>1, <1>4 DEF Visited, SameBut, IsScan
<1>9. /\ Addresses(d.found) \subseteq Addresses(F) /\ Addresses(F) \subseteq Reachable(o, ue)
      /\ v.stop => Scanned(o, sch, us, F, p, FALSE)
      /\ ~v.stop => Position(o, sch, ue, us, F, p, end, v.d.run)
  BY <1>4, <1>6 DEF Visited
<1>10. \A k \in 1 .. d.s - 1 : \A h \in BOOLEAN :
          (~h => ~d.hit_max_index) => Scanned(o, o.schemes[k], us, F, p, h)
  <2>. SUFFICES ASSUME NEW k \in 1 .. d.s - 1, NEW h \in BOOLEAN, ~h => ~d.hit_max_index
                PROVE  Scanned(o, o.schemes[k], us, F, p, h)
    OBVIOUS
  <2>1. Scanned(o, o.schemes[k], us, d.found, p, d.hit_max_index)
    BY DEF ScanOk
  <2>. QED BY <1>9, <2>1 DEF Scanned
<1>11. d.hit_max_index => \E x \in Range(o.schemes) : Gaps(o, ue, x) = {}
  BY DEF ScanOk
<1>12. ASSUME NEW b, IsScan(b), b.op = "discover", b.opts = o, b.hit_max_index \in BOOLEAN, b.partial = p, b.found = F,
              b.hit_max_index => \E x \in Range(o.schemes) : Gaps(o, ue, x) = {},
              \A k \in 1 .. d.s : Scanned(o, o.schemes[k], us, F, p, b.hit_max_index),
              e = StartScheme(b, d.s + 1)
       PROVE  ScanOk(e, ue, us) /\ e.c = 1 /\ e.partial = d.partial /\ e.opts = d.opts
  <2>1. /\ SameBut({"s", "i", "run", "c", "used"}, b, e)
        /\ e.s = d.s + 1 /\ e.i = o.start_index /\ e.run = 0 /\ e.c = 1 /\ e.used = {}
    <3>1. IsScan(b) /\ b.opts = o /\ e = StartScheme(b, d.s + 1)
      BY <1>12
    <3>. HIDE DEF o
    <3>. QED BY <3>1 DEF StartScheme, IsScan, SameBut
  <2>2. /\ IsScan(e) /\ e.op = "discover" /\ e.opts = o /\ e.hit_max_index = b.hit_max_index
        /\ e.partial = p /\ e.found = F
    BY SMT, <1>12, <2>1 DEF SameBut, IsScan
  <2>3. /\ d.s + 1 \in 1 .. Len(o.schemes) + 1 /\ (d.s + 1) - 1 = d.s /\ o.start_index <= o.start_index
    BY SMT, <1>1, <1>2, <1>5
  <2>4. Position(o, o.schemes[d.s + 1], ue, us, F, p, o.start_index, 0)
    BY <1>1, StartPosition
  <2>. QED BY <1>1, <1>5, <1>9, <1>12, <2>1, <2>2, <2>3, <2>4 DEF ScanOk
<1>13. \A k \in 1 .. d.s : k = d.s \/ k \in 1 .. d.s - 1
  BY SMT, <1>1
<1>14. CASE v.stop
  <2>1. e = StartScheme(v.d, d.s + 1)
    BY <1>7, <1>14
  <2>2. \A h \in BOOLEAN : Scanned(o, sch, us, F, p, h)
    BY <1>9, <1>14 DEF Scanned
  <2>3. \A k \in 1 .. d.s : Scanned(o, o.schemes[k], us, F, p, d.hit_max_index)
    BY <1>1, <1>10, <1>13, <2>2
  <2>. QED BY <1>1, <1>8, <1>11, <1>12, <2>1, <2>3
<1>15. CASE ~v.stop /\ end = o.max_index
  <2>. DEFINE b == [v.d EXCEPT !.hit_max_index = TRUE]
  <2>1. e = StartScheme(b, d.s + 1)
    BY <1>7, <1>15
  <2>2. SameBut({"hit_max_index"}, v.d, b) /\ b.hit_max_index = TRUE
    BY <1>8, FlagDoes
  <2>. HIDE DEF b
  <2>3. IsScan(b) /\ b.op = "discover" /\ b.opts = o /\ b.partial = p /\ b.found = F
    BY SMT, <1>8, <2>2 DEF SameBut, IsScan
  <2>4. Position(o, sch, ue, us, F, p, o.max_index, v.d.run)
    BY <1>9, <1>15
  <2>5. Gaps(o, ue, sch) = {} /\ Scanned(o, sch, us, F, p, TRUE)
    BY <1>1, <2>4, RangeIsDone
  <2>6. \A k \in 1 .. d.s : Scanned(o, o.schemes[k], us, F, p, TRUE)
    BY <1>10, <1>13, <2>5
  <2>7. \A k \in 1 .. d.s : Scanned(o, o.schemes[k], us, F, p, b.hit_max_index)
    BY <2>2, <2>6
  <2>8. \E x \in Range(o.schemes) : Gaps(o, ue, x) = {}
    BY <1>2, <2>5
  <2>. QED BY <1>12, <2>1, <2>2, <2>3, <2>7, <2>8
<1>16. CASE ~v.stop /\ end # o.max_index
  <2>1. e = [v.d EXCEPT !.i = end, !.c = 1, !.used = {}]
    BY <1>7, <1>16
  <2>2. SameBut({"i", "c", "used"}, v.d, e) /\ e.i = end /\ e.c = 1 /\ e.used = {}
    BY <1>8, <2>1 DEF IsScan, SameBut
  <2>3. /\ IsScan(e) /\ e.op = "discover" /\ e.opts = o /\ e.s = d.s /\ e.hit_max_index = d.hit_max_index
        /\ e.partial = p /\ e.found = F /\ e.run = v.d.run
    BY SMT, <1>8, <2>2 DEF SameBut, IsScan
  <2>4. end \in Nat /\ o.start_index <= end /\ end < o.max_index
    BY SMT, <1>1, <1>5, <1>16
  <2>5. \A k \in 1 .. d.s - 1 : Scanned(o, o.schemes[k], us, F, p, d.hit_max_index)
    BY <1>1, <1>10
  <2>. QED BY <1>1, <1>5, <1>9, <1>11, <1>16, <2>2, <2>3, <2>4, <2>5 DEF ScanOk
<1>. QED BY <1>14, <1>15, <1>16

\* The addresses of facts.
Third(S) == {f[3] : f \in S}

LEMMA FactIs ==
    ASSUME NEW o, NEW f \in ActivityFacts(o)
    PROVE  \E k \in 1 .. Len(Chains) : f = <<"activity", Chains[k], f[3]>>
BY DEF ActivityFacts

LEMMA FactIn ==
    ASSUME NEW o, NEW k \in 1 .. Len(Chains), NEW sch \in Range(o.schemes), sch # NoPlaceholder,
           NEW i \in 0 .. o.max_index - 1
    PROVE  <<"activity", Chains[k], Address(sch, i)>> \in ActivityFacts(o)
BY DEF ActivityFacts

\* What the chains up to the n-th have said of the window.
Heard(d, sure, n) ==
    d.s <= Len(d.opts.schemes) /\ ~d.partial =>
        \A k \in 1 .. n : \A j \in d.i .. End(d.opts, d.i) - 1 :
            LET a == Address(d.opts.schemes[d.s], j)
            IN  <<"activity", Chains[k], a>> \in sure => a \in d.used

LEMMA AfterChainKeeps ==
    ASSUME NEW d, NEW ue, NEW sure, ScanOk(d, ue, Third(sure)), d.s <= Len(d.opts.schemes),
           Heard(d, sure, d.c), sure \subseteq ActivityFacts(d.opts), NEW e, e = AfterChain(d)
    PROVE  ScanOk(e, ue, Third(sure)) /\ Heard(e, sure, e.c - 1) /\ e.partial = d.partial /\ e.opts = d.opts
<1>. USE Zenon
<1>. DEFINE us == Third(sure)
<1>1. IsScan(d) /\ d.c \in 1 .. Len(Chains) /\ Len(Chains) \in Nat
  <2>1. IsScan(d) /\ d.c \in 1 .. Len(Chains)
    BY DEF ScanOk
  <2>2. Len(Chains) \in Nat
    BY SMT, DiscoveryAssumption
  <2>. QED BY <2>1, <2>2
<1>2. CASE d.c < Len(Chains)
  <2>1. e = [d EXCEPT !.c = d.c + 1]
    BY SMT, <1>2 DEF AfterChain
  <2>2. SameBut({"c"}, d, e) /\ e.c = d.c + 1
    BY SMT, <1>1, <2>1 DEF IsScan, SameBut
  <2>3. /\ IsScan(e) /\ e.op = d.op /\ e.opts = d.opts /\ e.s = d.s /\ e.i = d.i /\ e.run = d.run /\ e.used = d.used
        /\ e.partial = d.partial /\ e.found = d.found /\ e.hit_max_index = d.hit_max_index
    BY SMT, <1>1, <2>2 DEF SameBut, IsScan
  <2>4. e.c \in 1 .. Len(Chains) /\ e.c - 1 = d.c
    BY SMT, <1>1, <1>2, <2>2
  <2>5. ScanOk(e, ue, us)
    BY <2>3, <2>4 DEF ScanOk
  <2>6. Heard(e, sure, e.c - 1)
    BY <2>3, <2>4 DEF Heard
  <2>. QED BY <2>3, <2>5, <2>6
<1>3. CASE ~(d.c < Len(Chains))
  <2>1. e = CloseWindow(d)
    BY <1>3 DEF AfterChain
  <2>2. d.c = Len(Chains)
    BY SMT, <1>1, <1>3
  <2>3. Complete(d, us)
    <3>. SUFFICES ASSUME ~d.partial, NEW j \in d.i .. End(d.opts, d.i) - 1,
                         Address(d.opts.schemes[d.s], j) \in us
                  PROVE  Address(d.opts.schemes[d.s], j) \in d.used
      BY DEF Complete
    <3>. DEFINE a == Address(d.opts.schemes[d.s], j)
    <3>1. PICK f \in sure : f[3] = a
      BY DEF Third
    <3>2. PICK k \in 1 .. d.c : f = <<"activity", Chains[k], f[3]>>
      BY <2>2, FactIs
    <3>3. <<"activity", Chains[k], a>> \in sure
      BY <3>1, <3>2
    <3>. QED BY <3>3 DEF Heard
  <2>4. ScanOk(e, ue, us) /\ e.c = 1 /\ e.partial = d.partial /\ e.opts = d.opts
    BY <2>1, <2>3, CloseWindowKeeps
  <2>5. 1 .. e.c - 1 = {}
    BY SMT, <2>4
  <2>6. Heard(e, sure, e.c - 1)
    BY <2>5 DEF Heard
  <2>. QED BY <2>4, <2>6
<1>. QED BY <1>2, <1>3

\* The facts that are in use now, and those that have been since the beginning.
LiveFacts == {f \in DOMAIN seen : IsUsed(world[f], q.opts.used)}
SureFacts == {f \in DOMAIN seen : \A v \in seen[f] : IsUsed(v, q.opts.used)}

ScanInv ==
    /\ ScanOk(q, Third(LiveFacts), Third(SureFacts)) /\ Heard(q, SureFacts, q.c - 1)
    /\ answer = Settle(q)
    /\ DOMAIN world = ActivityFacts(q.opts) /\ DOMAIN seen = DOMAIN world
    /\ \A f \in DOMAIN world : world[f] \in seen[f]
    /\ met # <<>> => q.partial

LEMMA ScanBegins == DiscoveryInit => ScanInv
<1>. USE Zenon
<1>. SUFFICES ASSUME NEW o \in Scans, NEW w \in StartWorlds(o), Begin(StartScan(o), Settle(StartScan(o)), w)
              PROVE  ScanInv
  BY DEF DiscoveryInit
<1>1. DOMAIN w = ActivityFacts(o)
  BY SMT DEF StartWorlds
<1>2. /\ q = StartScan(o) /\ answer = Settle(q) /\ world = w /\ met = <<>>
      /\ seen = [f \in DOMAIN w |-> {w[f]}]
  BY DEF Begin
<1>3. DOMAIN seen = DOMAIN world /\ \A f \in DOMAIN world : world[f] \in seen[f]
  BY <1>2
<1>4. /\ IsScan(q) /\ q.op = "discover" /\ q.opts = o /\ q.s = 1 /\ q.i = o.start_index /\ q.run = 0 /\ q.c = 1
      /\ q.used = {} /\ q.found = {} /\ q.hit_max_index = FALSE /\ q.partial = FALSE
  BY SMT, <1>2 DEF StartScan, IsScan
<1>5. /\ 1 \in 1 .. Len(o.schemes) + 1 /\ 1 \in 1 .. Len(Chains) /\ 1 .. 1 - 1 = {}
      /\ o.start_index \in Nat /\ o.start_index <= o.start_index /\ o.start_index < o.max_index
  <2>1. o.schemes \in Seq(Range(o.schemes)) /\ Len(Chains) > 0 /\ Chains \in Seq(Range(Chains))
    BY DiscoveryAssumption
  <2>2. Len(o.schemes) \in Nat /\ Len(Chains) \in Nat
    BY SMT, <2>1
  <2>3. o.start_index \in Nat /\ o.start_index < o.max_index
    BY WindowIs
  <2>4. 1 \in 1 .. Len(o.schemes) + 1 /\ 1 \in 1 .. Len(Chains) /\ 1 .. 1 - 1 = {} /\ o.start_index <= o.start_index
    BY SMT, <2>1, <2>2, <2>3
  <2>. QED BY <2>3, <2>4
<1>6. Addresses({}) = {}
  BY DEF Addresses
<1>7. ScanOk(q, Third(LiveFacts), Third(SureFacts))
  BY <1>4, <1>5, <1>6, StartPosition DEF ScanOk
<1>8. Heard(q, SureFacts, q.c - 1)
  BY <1>4, <1>5 DEF Heard
<1>. QED BY <1>1, <1>2, <1>3, <1>4, <1>7, <1>8 DEF ScanInv

\* While the scan waits for a chain it has a scheme with paths.
LEMMA ScanningIs ==
    ASSUME ScanInv, Scanning
    PROVE  /\ q.s <= Len(q.opts.schemes) /\ q.opts.schemes[q.s] # NoPlaceholder
           /\ q.opts.schemes[q.s] \in Range(q.opts.schemes)
<1>. USE Zenon
<1>1. answer = Settle(q) /\ answer = Unanswered
  BY DEF ScanInv, Scanning, Answered
<1>2. \A v : Ok(v) # Unanswered
  BY SMT DEF Ok, Unanswered
<1>3. Err("Account", "InvalidPath", FALSE) # Unanswered
  <2>1. "err" \in DOMAIN Err("Account", "InvalidPath", FALSE) /\ "err" \notin DOMAIN Unanswered
    BY SMT DEF Err, Unanswered
  <2>. QED BY <2>1
<1>4. q.s \in 1 .. Len(q.opts.schemes) + 1 /\ q.opts \in Scans
  BY DEF ScanInv, ScanOk
<1>5. Len(q.opts.schemes) \in Nat /\ (q.s > Len(q.opts.schemes) <=> ~(q.s <= Len(q.opts.schemes)))
  <2>1. Len(q.opts.schemes) \in Nat
    BY <1>4, SchemeIs
  <2>. QED BY SMT, <1>4, <2>1
<1>6. q.s <= Len(q.opts.schemes) /\ q.opts.schemes[q.s] \in Range(q.opts.schemes)
  <2>1. q.s <= Len(q.opts.schemes)
    BY <1>1, <1>2, <1>5 DEF Settle
  <2>. QED BY <1>4, <2>1, SchemeIs
<1>7. PathFor(q.opts.schemes[q.s], q.i) # None
  BY <1>1, <1>3, <1>5, <1>6 DEF Settle
<1>8. q.opts.schemes[q.s] # NoPlaceholder
  BY <1>7 DEF PathFor
<1>. QED BY <1>6, <1>8

LEMMA ActivityReplyStep == ScanInv /\ ActivityReply => ScanInv'
<1>. USE Zenon
<1>. SUFFICES ASSUME ScanInv, ActivityReply PROVE ScanInv'
  OBVIOUS
<1>. DEFINE o == q.opts
            sch == q.opts.schemes[q.s]
            Act(a) == <<"activity", Chains[q.c], a>>
            live == {a \in Probed(q) : IsUsed(world[Act(a)], o.used)}
            d == [q EXCEPT !.used = @ \cup live]
            ue == Third(LiveFacts)
            us == Third(SureFacts)
<1>1. /\ q' = AfterChain(d) /\ answer' = Settle(AfterChain(d)) /\ UNCHANGED <<world, seen, met>>
      /\ Scanning
  BY DEF ActivityReply, Reply
<1>2. q.s <= Len(o.schemes) /\ sch # NoPlaceholder /\ sch \in Range(o.schemes)
  BY <1>1, ScanningIs
<1>3. /\ ScanOk(q, ue, us) /\ Heard(q, SureFacts, q.c - 1) /\ DOMAIN world = ActivityFacts(o) /\ DOMAIN seen = DOMAIN world
      /\ \A f \in DOMAIN world : world[f] \in seen[f]
      /\ met # <<>> => q.partial
  BY DEF ScanInv
<1>4. /\ IsScan(q) /\ o \in Scans /\ q.c \in 1 .. Len(Chains) /\ q.i \in Nat /\ q.i < o.max_index
  BY <1>3 DEF ScanOk
<1>5. \A j \in q.i .. End(o, q.i) - 1 : Act(Address(sch, j)) \in DOMAIN world
  <2>. TAKE j \in q.i .. End(o, q.i) - 1
  <2>1. End(o, q.i) \in Nat /\ End(o, q.i) <= o.max_index /\ o.max_index \in Nat
    BY <1>4, EndIs, WindowIs
  <2>2. j \in 0 .. o.max_index - 1
    BY SMT, <1>4, <2>1
  <2>. QED BY <1>2, <1>3, <1>4, <2>2, FactIn
<1>6. \A a : Act(a)[3] = a
  BY SMT
<1>7. live \subseteq ue
  <2>. SUFFICES ASSUME NEW a \in live PROVE a \in ue
    OBVIOUS
  <2>1. a \in Probed(q) /\ IsUsed(world[Act(a)], o.used)
    OBVIOUS
  <2>2. Act(a) \in DOMAIN seen
    BY <1>3, <1>5, <2>1 DEF Probed
  <2>3. Act(a) \in LiveFacts
    BY <2>1, <2>2 DEF LiveFacts
  <2>. QED BY <1>6, <2>3 DEF Third
<1>8. \A j \in q.i .. End(o, q.i) - 1 : Act(Address(sch, j)) \in SureFacts => Address(sch, j) \in live
  <2>. SUFFICES ASSUME NEW j \in q.i .. End(o, q.i) - 1, Act(Address(sch, j)) \in SureFacts
                PROVE  Address(sch, j) \in live
    OBVIOUS
  <2>1. IsUsed(world[Act(Address(sch, j))], o.used)
    BY <1>3, <1>5 DEF SureFacts
  <2>. QED BY <2>1 DEF Probed
<1>. HIDE DEF live, Act
<1>9. ScanOk(d, ue, us) /\ d.used = q.used \cup live /\ SameBut({"used"}, q, d)
  <2>1. d.used = q.used \cup live /\ SameBut({"used"}, q, d)
    BY SMT, <1>4 DEF SameBut, IsScan
  <2>2. d.used \subseteq ue
    BY <1>2, <1>3, <1>7, <2>1 DEF ScanOk
  <2>. HIDE DEF ue, us, d
  <2>. QED BY <1>3, <2>1, <2>2, ScanLearns
<1>. HIDE DEF d
<1>10. d.opts = o /\ d.s = q.s /\ d.i = q.i /\ d.c = q.c /\ d.partial = q.partial
  BY SMT, <1>4, <1>9 DEF SameBut, IsScan
<1>11. Heard(d, SureFacts, d.c)
  <2>. SUFFICES ASSUME ~q.partial, NEW k \in 1 .. q.c, NEW j \in q.i .. End(o, q.i) - 1,
                       <<"activity", Chains[k], Address(sch, j)>> \in SureFacts
                PROVE  Address(sch, j) \in d.used
    BY <1>10 DEF Heard
  <2>1. k = q.c \/ k \in 1 .. q.c - 1
    BY SMT, <1>4
  <2>2. CASE k = q.c
    BY <1>8, <1>9, <2>2 DEF Act
  <2>3. CASE k \in 1 .. q.c - 1
    BY <1>2, <1>3, <1>9, <2>3 DEF Heard
  <2>. QED BY <2>1, <2>2, <2>3
<1>12. SureFacts \subseteq ActivityFacts(d.opts)
  BY <1>3, <1>10 DEF SureFacts
<1>13. /\ ScanOk(q', ue, us) /\ Heard(q', SureFacts, q'.c - 1) /\ q'.partial = q.partial /\ q'.opts = q.opts
  <2>1. d.s <= Len(d.opts.schemes)
    BY <1>2, <1>10
  <2>2. ScanOk(d, ue, Third(SureFacts))
    BY <1>9
  <2>. HIDE DEF ue
  <2>3. ScanOk(q', ue, Third(SureFacts)) /\ Heard(q', SureFacts, q'.c - 1) /\ q'.partial = d.partial /\ q'.opts = d.opts
    BY <1>1, <1>11, <1>12, <2>1, <2>2, AfterChainKeeps
  <2>. QED BY <1>10, <2>3
<1>14. LiveFacts' = LiveFacts /\ SureFacts' = SureFacts
  BY <1>1, <1>13 DEF LiveFacts, SureFacts
<1>. QED BY <1>1, <1>3, <1>13, <1>14 DEF ScanInv

LEMMA ActivityFailsStep == ASSUME ScanInv, NEW fault, ActivityFails(fault) PROVE ScanInv'
<1>. USE Zenon
<1>. DEFINE o == q.opts
            d == [q EXCEPT !.partial = TRUE]
            ue == Third(LiveFacts)
<1>1. /\ q' = AfterChain(d) /\ answer' = Settle(AfterChain(d)) /\ UNCHANGED <<world, seen>>
      /\ Scanning
  BY DEF ActivityFails, Fails
<1>2. q.s <= Len(o.schemes)
  BY <1>1, ScanningIs
<1>3. /\ ScanOk(q, ue, Third(SureFacts)) /\ DOMAIN world = ActivityFacts(o) /\ DOMAIN seen = DOMAIN world
      /\ \A f \in DOMAIN world : world[f] \in seen[f]
  BY DEF ScanInv
<1>4. IsScan(q)
  BY <1>3 DEF ScanOk
<1>5. ScanOk(d, ue, Third(SureFacts)) /\ d.partial = TRUE /\ SameBut({"partial"}, q, d)
  <2>1. d.partial = TRUE
    BY SMT, <1>4 DEF IsScan
  <2>. HIDE DEF ue
  <2>. QED BY <1>3, <2>1, ScanGoesPartial
<1>. HIDE DEF d
<1>6. d.opts = o /\ d.s = q.s
  BY SMT, <1>4, <1>5 DEF SameBut, IsScan
<1>7. Heard(d, SureFacts, d.c)
  BY <1>5 DEF Heard
<1>8. SureFacts \subseteq ActivityFacts(d.opts)
  BY <1>3, <1>6 DEF SureFacts
<1>9. ScanOk(q', ue, Third(SureFacts)) /\ Heard(q', SureFacts, q'.c - 1) /\ q'.partial = TRUE /\ q'.opts = q.opts
  <2>1. d.s <= Len(d.opts.schemes)
    BY <1>2, <1>6
  <2>. HIDE DEF ue
  <2>2. ScanOk(q', ue, Third(SureFacts)) /\ Heard(q', SureFacts, q'.c - 1) /\ q'.partial = d.partial /\ q'.opts = d.opts
    BY <1>1, <1>5, <1>7, <1>8, <2>1, AfterChainKeeps
  <2>. QED BY <1>5, <1>6, <2>2
<1>10. LiveFacts' = LiveFacts /\ SureFacts' = SureFacts
  BY <1>1, <1>9 DEF LiveFacts, SureFacts
<1>. QED BY <1>1, <1>3, <1>9, <1>10 DEF ScanInv

LEMMA BecomesActiveStep == ScanInv /\ BecomesActive => ScanInv'
<1>. USE Zenon
<1>. SUFFICES ASSUME ScanInv, BecomesActive PROVE ScanInv'
  OBVIOUS
<1>1. PICK f \in DOMAIN world, v \in {"funded", "sent"} : Change(f, v) /\ (v = "sent" \/ world[f] = "none")
  BY DEF BecomesActive
<1>2. /\ world' = [world EXCEPT ![f] = v] /\ seen' = [seen EXCEPT ![f] = @ \cup {v}]
      /\ UNCHANGED <<q, answer, met>>
  BY <1>1 DEF Change
<1>3. /\ ScanOk(q, Third(LiveFacts), Third(SureFacts)) /\ Heard(q, SureFacts, q.c - 1) /\ answer = Settle(q)
      /\ DOMAIN world = ActivityFacts(q.opts) /\ DOMAIN seen = DOMAIN world
      /\ \A g \in DOMAIN world : world[g] \in seen[g]
      /\ met # <<>> => q.partial
  BY DEF ScanInv
<1>4. /\ DOMAIN world' = DOMAIN world /\ DOMAIN seen' = DOMAIN seen
      /\ \A g \in DOMAIN world : world'[g] = IF g = f THEN v ELSE world[g]
      /\ \A g \in DOMAIN world : seen'[g] = IF g = f THEN seen[f] \cup {v} ELSE seen[g]
  BY SMT, <1>2, <1>3
<1>5. \A g \in DOMAIN world : world'[g] \in seen'[g] /\ seen[g] \subseteq seen'[g]
  BY <1>3, <1>4
<1>6. \A p : IsUsed("sent", p) /\ ~IsUsed("none", p)
  BY SMT DEF IsUsed
<1>7. \A g \in DOMAIN world : \A p : IsUsed(world[g], p) => IsUsed(world'[g], p)
  BY <1>1, <1>4, <1>6
<1>8. LiveFacts \subseteq LiveFacts'
  BY <1>2, <1>3, <1>4, <1>7 DEF LiveFacts
<1>9. SureFacts' \subseteq SureFacts
  BY <1>2, <1>3, <1>4, <1>5 DEF SureFacts
<1>10. Third(LiveFacts) \subseteq Third(LiveFacts') /\ Third(SureFacts') \subseteq Third(SureFacts)
  BY <1>8, <1>9 DEF Third
<1>11. ScanOk(q, Third(LiveFacts'), Third(SureFacts'))
  BY <1>3, <1>10, ScanWeakens
<1>12. Heard(q, SureFacts', q.c - 1)
  BY <1>3, <1>9 DEF Heard
<1>. QED BY <1>2, <1>3, <1>4, <1>5, <1>11, <1>12 DEF ScanInv

LEMMA ScanStep == ScanInv /\ (DiscoveryNext \/ UNCHANGED readVars) => ScanInv'
<1>. USE Zenon
<1>1. ASSUME ScanInv, UNCHANGED readVars PROVE ScanInv'
  <2>1. UNCHANGED <<q, answer, world, seen, met>>
    BY <1>1 DEF readVars
  <2>2. LiveFacts' = LiveFacts /\ SureFacts' = SureFacts
    BY <2>1 DEF LiveFacts, SureFacts
  <2>. QED BY <1>1, <2>1, <2>2 DEF ScanInv
<1>. QED BY <1>1, ActivityReplyStep, ActivityFailsStep, BecomesActiveStep DEF DiscoveryNext

\* The answer of a finished scan.
LEMMA ScanAnswers ==
    ASSUME ScanInv
    PROVE  DiscoverySound /\ FaultsSurface /\ q.op = "discover"
<1>. USE Zenon
<1>. DEFINE o == q.opts
            n == Len(o.schemes)
            ok == [accounts |-> q.found, hit_max_index |-> q.hit_max_index, partial |-> q.partial]
<1>1. /\ ScanOk(q, Third(LiveFacts), Third(SureFacts)) /\ answer = Settle(q)
      /\ met # <<>> => q.partial
  BY DEF ScanInv
<1>2. q.op = "discover" /\ o \in Scans /\ q.s \in 1 .. n + 1
  BY <1>1 DEF ScanOk
<1>3. n \in Nat /\ o.schemes \in Seq(Range(o.schemes)) /\ (q.s > n <=> ~(q.s <= n))
  <2>1. n \in Nat /\ o.schemes \in Seq(Range(o.schemes))
    BY <1>2, SchemeIs, DiscoveryAssumption
  <2>. HIDE DEF n
  <2>. QED BY SMT, <1>2, <2>1
<1>4. /\ q.s > n => answer = Ok(ok)
      /\ ~(q.s > n) => answer = Unanswered \/ answer = Err("Account", "InvalidPath", FALSE)
  BY <1>1, <1>3 DEF Settle
<1>5. ~Unanswered.ok /\ ~Err("Account", "InvalidPath", FALSE).ok
  BY SMT DEF Unanswered, Err
<1>6. Ok(ok).ok /\ Ok(ok).v = ok
  BY DEF Ok
<1>7. ok.accounts = q.found /\ ok.hit_max_index = q.hit_max_index /\ ok.partial = q.partial
  OBVIOUS
<1>. HIDE DEF ok
<1>8. Succeeded => q.s > n /\ answer.v = ok
  BY <1>4, <1>5, <1>6 DEF Succeeded
<1>9. ASSUME Succeeded PROVE DiscoverySound
  <2>1. Third(LiveFacts) = UsedAtEnd(o) /\ Third(SureFacts) = UsedAtStart(o)
    BY DEF Third, LiveFacts, SureFacts, UsedAtEnd, UsedAtStart
  <2>2. Addresses(q.found) = {a.address : a \in answer.v.accounts}
    BY <1>7, <1>8, <1>9 DEF Addresses
  <2>3. q.s - 1 = n
    BY SMT, <1>2, <1>3, <1>8, <1>9
  <2>4. \A sch \in Range(o.schemes) :
           Scanned(o, sch, UsedAtStart(o), q.found, q.partial, q.hit_max_index)
    <3>1. \A sch \in Range(o.schemes) : \E k \in 1 .. n : sch = o.schemes[k]
      BY SMT, <1>3 DEF Range
    <3>. QED BY <1>1, <2>1, <2>3, <3>1 DEF ScanOk
  <2>5. Addresses(q.found) \subseteq Reachable(o, UsedAtEnd(o))
    BY <1>1, <2>1 DEF ScanOk
  <2>6. ~q.partial => Reachable(o, UsedAtStart(o)) \subseteq Addresses(q.found)
    BY <2>4 DEF Scanned, Reachable
  <2>7. q.hit_max_index => \E sch \in Range(o.schemes) : Gaps(o, UsedAtEnd(o), sch) = {}
    BY <1>1, <2>1 DEF ScanOk
  <2>8. ~q.hit_max_index /\ ~q.partial => \A sch \in Range(o.schemes) : Gaps(o, UsedAtStart(o), sch) # {}
    BY <2>4 DEF Scanned
  <2>. QED BY <1>7, <1>8, <1>9, <2>2, <2>5, <2>6, <2>7, <2>8 DEF DiscoverySound
<1>10. FaultsSurface
  <2>1. Succeeded /\ met # <<>> => answer.v.partial
    BY <1>1, <1>7, <1>8
  <2>2. Failed => answer = Err("Account", "InvalidPath", FALSE)
    BY <1>4, <1>6 DEF Failed, Answered
  <2>3. Kind(Err("Account", "InvalidPath", FALSE).err) = "Terminal" /\ "Terminal" # "Retryable"
    BY SMT DEF Err, Kind
  <2>4. Failed => Kind(answer.err) # "Retryable"
    BY <2>2, <2>3
  <2>. QED BY <1>2, <2>1, <2>4 DEF FaultsSurface
<1>11. ~Succeeded => DiscoverySound
  BY DEF DiscoverySound
<1>. QED BY <1>2, <1>9, <1>10, <1>11

-----------------------------------------------------------------------------
\* Reads.

\* An Ok, an Err and no answer are told apart.
LEMMA OkAnswers ==
    ASSUME NEW v
    PROVE  Ok(v) # Unanswered /\ Ok(v).ok = TRUE /\ Ok(v).v = v
BY DEF Ok, Unanswered

LEMMA ErrAnswers ==
    ASSUME NEW port, NEW why, NEW transient
    PROVE  Err(port, why, transient) # Unanswered
<1>1. "err" \in DOMAIN Err(port, why, transient) /\ "err" \notin DOMAIN Unanswered
  BY DEF Err, Unanswered
<1>. QED BY <1>1, Zenon

LEMMA OptionsDiffer ==
    ASSUME NEW v
    PROVE  /\ Some(v) # None /\ Some(v).v = v
           /\ Ok(Some(v)).v.some = TRUE /\ Ok(Some(v)).v.v = v /\ Ok(None).v.some = FALSE
BY DEF Some, None, Ok

\* A world whose facts have values a chain can give.
Typed(w) == \A f \in DOMAIN w : w[f] \in Values(f)

\* The facts a property is about are facts of the world.
HasFacts(r, D) ==
    /\ r.op = "balances" => <<"native">> \in D /\ \A t \in Range(r.tokens) : <<"balance", t>> \in D
    /\ r.op = "resolve" => <<"forward", r.name>> \in D
    /\ r.op = "reverse" => <<"reverse", r.address>> \in D /\ \A n \in Names : <<"forward", n>> \in D
    /\ r.op = "price" => <<"round">> \in D /\ <<"now">> \in D
    /\ r.op = "preview" => <<"outcome">> \in D

\* A set of such worlds, all about the same facts.
About(S, D) == \A w \in S : Typed(w) /\ DOMAIN w = D

LEMMA AboutFact ==
    ASSUME NEW f
    PROVE  About(Fact(f), {f})
BY DEF About, Typed, Fact

LEMMA AboutFacts ==
    ASSUME NEW D, NEW V, \A f \in D : Values(f) = V
    PROVE  About([D -> V], D)
BY Zenon DEF About, Typed

LEMMA AboutJoin ==
    ASSUME NEW S, NEW T, NEW D, NEW E, About(S, D), About(T, E)
    PROVE  About(Join(S, T), D \cup E)
<1>. USE Zenon
<1>. SUFFICES ASSUME NEW w \in Join(S, T) PROVE Typed(w) /\ DOMAIN w = D \cup E
  BY DEF About
<1>. DEFINE J(s, t) == [f \in DOMAIN s \cup DOMAIN t |-> IF f \in DOMAIN s THEN s[f] ELSE t[f]]
<1>1. PICK t \in T : w \in {J(s, t) : s \in S}
  BY DEF Join
<1>2. PICK s \in S : w = J(s, t)
  BY <1>1
<1>3. Typed(s) /\ Typed(t) /\ DOMAIN s = D /\ DOMAIN t = E
  BY DEF About
<1>4. DOMAIN w = D \cup E
  BY <1>2, <1>3
<1>5. ASSUME NEW f \in DOMAIN w PROVE w[f] \in Values(f)
  BY <1>2, <1>3 DEF Typed
<1>. QED BY <1>4, <1>5 DEF Typed

LEMMA WorldsTyped ==
    ASSUME NEW r \in Requests, NEW w \in Worlds(r)
    PROVE  Typed(w) /\ HasFacts(r, DOMAIN w)
<1>1. CASE r.op = "balances"
  <2>. DEFINE F == {<<"balance", t>> : t \in Range(r.tokens)}
  <2>1. w \in Join(Fact(<<"native">>), [F -> Words])
    BY <1>1 DEF Worlds
  <2>2. ASSUME NEW t PROVE Values(<<"balance", t>>) = Words
    BY DEF Values
  <2>3. About([F -> Words], F)
    <3>1. \A f \in F : Values(f) = Words
      BY <2>2, Zenon
    <3>. QED BY <3>1, AboutFacts, Zenon
  <2>4. Typed(w) /\ DOMAIN w = {<<"native">>} \cup F
    <3>. HIDE DEF F
    <3>1. About(Join(Fact(<<"native">>), [F -> Words]), {<<"native">>} \cup F)
      BY <2>3, AboutFact, AboutJoin, Zenon
    <3>. QED BY <2>1, <3>1, Zenon DEF About
  <2>. QED BY <1>1, <2>4 DEF HasFacts
<1>2. CASE r.op = "metadata"
  <2>1. w \in Join(Fact(<<"name", r.token>>), Join(Fact(<<"symbol", r.token>>), Fact(<<"decimals", r.token>>)))
    BY <1>2 DEF Worlds
  <2>2. Typed(w)
    <3>. USE Zenon
    <3>. DEFINE J == Join(Fact(<<"symbol", r.token>>), Fact(<<"decimals", r.token>>))
    <3>1. About(J, {<<"symbol", r.token>>} \cup {<<"decimals", r.token>>})
      BY AboutFact, AboutJoin
    <3>. HIDE DEF J
    <3>2. About(Join(Fact(<<"name", r.token>>), J),
                {<<"name", r.token>>} \cup ({<<"symbol", r.token>>} \cup {<<"decimals", r.token>>}))
      BY <3>1, AboutFact, AboutJoin
    <3>. QED BY <2>1, <3>2 DEF About, J
  <2>. QED BY <1>2, <2>2 DEF HasFacts
<1>3. CASE r.op = "single"
  <2>1. w \in Fact(<<"value">>)
    BY <1>3 DEF Worlds
  <2>2. Typed(w)
    BY <2>1, AboutFact, Zenon DEF About
  <2>. QED BY <1>3, <2>2 DEF HasFacts
<1>4. CASE r.op = "resolve"
  <2>1. w \in Fact(<<"forward", r.name>>)
    BY <1>4 DEF Worlds
  <2>2. Typed(w) /\ DOMAIN w = {<<"forward", r.name>>}
    BY <2>1, AboutFact, Zenon DEF About
  <2>. QED BY <1>4, <2>2 DEF HasFacts
<1>5. CASE r.op = "text"
  <2>1. w \in Fact(<<"text", r.name>>)
    BY <1>5 DEF Worlds
  <2>2. Typed(w)
    BY <2>1, AboutFact, Zenon DEF About
  <2>. QED BY <1>5, <2>2 DEF HasFacts
<1>6. CASE r.op = "reverse"
  <2>. DEFINE F == {<<"forward", n>> : n \in Names}
              V == Holders \cup {Zero} \cup EnsMisses
  <2>1. w \in Join(Fact(<<"reverse", r.address>>), [F -> V])
    BY <1>6 DEF Worlds
  <2>2. ASSUME NEW n PROVE Values(<<"forward", n>>) = V
    BY DEF Values
  <2>3. About([F -> V], F)
    <3>1. \A f \in F : Values(f) = V
      BY <2>2, Zenon
    <3>. QED BY <3>1, AboutFacts, Zenon
  <2>4. Typed(w) /\ DOMAIN w = {<<"reverse", r.address>>} \cup F
    <3>. HIDE DEF F, V
    <3>1. About(Join(Fact(<<"reverse", r.address>>), [F -> V]), {<<"reverse", r.address>>} \cup F)
      BY <2>3, AboutFact, AboutJoin, Zenon
    <3>. QED BY <2>1, <3>1, Zenon DEF About
  <2>. QED BY <1>6, <2>4 DEF HasFacts
<1>7. CASE r.op = "price"
  <2>1. w \in Join(Fact(<<"scale">>), Join(Fact(<<"round">>), Fact(<<"now">>)))
    BY <1>7 DEF Worlds
  <2>2. Typed(w) /\ DOMAIN w = {<<"scale">>} \cup ({<<"round">>} \cup {<<"now">>})
    <3>. USE Zenon
    <3>. DEFINE J == Join(Fact(<<"round">>), Fact(<<"now">>))
    <3>1. About(J, {<<"round">>} \cup {<<"now">>})
      BY AboutFact, AboutJoin
    <3>. HIDE DEF J
    <3>2. About(Join(Fact(<<"scale">>), J), {<<"scale">>} \cup ({<<"round">>} \cup {<<"now">>}))
      BY <3>1, AboutFact, AboutJoin
    <3>. QED BY <2>1, <3>2 DEF About, J
  <2>. QED BY <1>7, <2>2 DEF HasFacts
<1>8. CASE r.op = "preview"
  <2>1. w \in Fact(<<"outcome">>)
    BY <1>8 DEF Worlds
  <2>2. Typed(w) /\ DOMAIN w = {<<"outcome">>}
    BY <2>1, AboutFact, Zenon DEF About
  <2>. QED BY <1>8, <2>2 DEF HasFacts
<1>. QED BY <1>1, <1>2, <1>3, <1>4, <1>5, <1>6, <1>7, <1>8, ReadsAssumption, Zenon

\* What holds of the facts: each has one of its values, which is one of those
\* it has had.
WorldInv ==
    /\ DOMAIN seen = DOMAIN world
    /\ \A f \in DOMAIN world : world[f] \in seen[f] /\ seen[f] \subseteq Values(f)

\* What holds of an operation whatever it has read.
Asked ==
    /\ \E r \in Requests : \E g : q = [op |-> r.op, req |-> r, got |-> g]
    /\ HasFacts(q.req, DOMAIN world) /\ WorldInv /\ met \in Seq(Faults)

\* A failure is met by an operation that goes on only in a preview that has its
\* outcome.
Quiet == ~Answered /\ (q.op # "preview" \/ q.got = <<>>) => met = <<>>

\* What an operation has read so far was true when it read it.
GasTrue(g) ==
    /\ g.some => "returned" \in seen[<<"outcome">>]
    /\ ~g.some => met # <<>> \/ seen[<<"outcome">>] # {"returned"}

BalancesGot ==
    q.op = "balances" =>
        /\ q.got \in Seq(Words) /\ Len(q.got) <= Len(BalanceCalls(q.req.tokens))
        /\ \A k \in 1 .. Len(q.got) : q.got[k] \in seen[BalanceCalls(q.req.tokens)[k]]
ReverseGot ==
    q.op = "reverse" =>
        \/ q.got = <<>>
        \/ \E n \in Names : n \in seen[<<"reverse", q.req.address>>] /\ q.got = <<n>>
PreviewGot ==
    q.op = "preview" =>
        \/ q.got = <<>>
        \/ \E o \in seen[<<"outcome">>] : q.got = <<o>>
        \/ \E o \in seen[<<"outcome">>] : \E g : q.got = <<o, g>> /\ GasTrue(g)

Got == ~Answered => BalancesGot /\ ReverseGot /\ PreviewGot

ReadAnswers == BalancesAligned /\ AnswersWereTrue /\ FaultsSurface

ReadInv == Asked /\ Quiet /\ Got /\ ReadAnswers

-----------------------------------------------------------------------------
LEMMA UnansweredIsTrue ==
    ASSUME answer' = Unanswered
    PROVE  ReadAnswers'
BY Zenon DEF ReadAnswers, BalancesAligned, AnswersWereTrue, FaultsSurface, Is, Answered, Succeeded, Failed

\* An operation that answers has read all it will.
LEMMA AnsweredIsDone ==
    ASSUME answer' # Unanswered
    PROVE  Quiet' /\ Got'
BY Zenon DEF Quiet, Got, Answered

\* An answer other than the ones AnswersWereTrue and BalancesAligned are about.
LEMMA OkSurfaces ==
    ASSUME NEW v, answer' = Ok(v), met' = <<>> \/ q'.op = "preview"
    PROVE  FaultsSurface'
BY OkAnswers, Zenon DEF FaultsSurface, Answered, Succeeded, Failed

LEMMA ErrSurfaces ==
    ASSUME NEW port, NEW why, NEW transient \in BOOLEAN, answer' = Err(port, why, transient),
           ~(why = "Rpc" /\ transient), met' = <<>>
    PROVE  FaultsSurface' /\ AnswersWereTrue'
<1>1. answer'.ok = FALSE /\ answer' # Unanswered /\ Kind(answer'.err) = "Terminal"
  <2>. USE Zenon
  <2>. DEFINE e == Err(port, why, transient)
  <2>1. e.ok = FALSE /\ e.err.why = why /\ e.err.transient = transient
    BY SMT DEF Err
  <2>2. answer' = e /\ e # Unanswered
    BY ErrAnswers
  <2>. HIDE DEF e
  <2>. QED BY <2>1, <2>2 DEF Kind
<1>2. "transient" \notin Range(met')
  BY DEF Range
<1>3. "Terminal" # "Retryable"
  OBVIOUS
<1>. QED BY <1>1, <1>2, <1>3, Zenon DEF FaultsSurface, AnswersWereTrue, Is, Answered, Succeeded, Failed

LEMMA RpcSurfaces ==
    ASSUME NEW port, NEW fault \in Faults, answer' = RpcErr(port, fault), met' = <<fault>>, q'.op # "discover"
    PROVE  FaultsSurface' /\ AnswersWereTrue'
<1>1. answer'.ok = FALSE /\ answer' # Unanswered
      /\ Kind(answer'.err) = IF fault = "transient" THEN "Retryable" ELSE "Terminal"
  <2>. DEFINE e == Err(port, "Rpc", fault = "transient")
  <2>1. e.ok = FALSE /\ e.err.why = "Rpc" /\ e.err.transient = (fault = "transient")
    BY DEF Err
  <2>2. answer' = e
    BY DEF RpcErr
  <2>3. "err" \in DOMAIN e /\ "err" \notin DOMAIN Unanswered
    BY DEF Err, Unanswered
  <2>. HIDE DEF e
  <2>. QED BY <2>1, <2>2, <2>3, Zenon DEF Kind
<1>2. "transient" \in Range(met') <=> fault = "transient"
  BY DEF Range
<1>3. "Terminal" # "Retryable"
  OBVIOUS
<1>. QED BY <1>1, <1>2, <1>3, Zenon DEF FaultsSurface, AnswersWereTrue, Is, Answered, Succeeded, Failed

\* A reply leaves the chain as it is.
LEMMA ReplyKeeps ==
    ASSUME Asked, NEW g, NEW a, ReadReply(g, a)
    PROVE  /\ Asked' /\ q'.op = q.op /\ q'.req = q.req /\ q'.got = g /\ answer' = a
           /\ world' = world /\ seen' = seen /\ met' = met
<1>1. UNCHANGED <<world, seen, met>> /\ answer' = a /\ q' = [q EXCEPT !.got = g]
  BY Zenon DEF ReadReply, Reply
<1>2. PICK r \in Requests : \E h : q = [op |-> r.op, req |-> r, got |-> h]
  BY Zenon DEF Asked
<1>3. q' = [op |-> r.op, req |-> r, got |-> g] /\ q.op = r.op /\ q.req = r
  BY <1>1, <1>2
<1>4. q'.op = q.op /\ q'.req = q.req /\ q'.got = g
  BY <1>3
<1>. QED BY <1>1, <1>3, <1>4, Zenon DEF Asked, WorldInv

LEMMA FailKeeps ==
    ASSUME Asked, NEW g, NEW a, NEW fault \in Faults, Fails(fault, [q EXCEPT !.got = g], a)
    PROVE  /\ Asked' /\ q'.op = q.op /\ q'.req = q.req /\ q'.got = g /\ answer' = a
           /\ met' = Append(met, fault) /\ world' = world /\ seen' = seen
<1>1. UNCHANGED <<world, seen>> /\ answer' = a /\ met' = Append(met, fault) /\ q' = [q EXCEPT !.got = g]
  BY Zenon DEF Fails
<1>2. PICK r \in Requests : \E h : q = [op |-> r.op, req |-> r, got |-> h]
  BY Zenon DEF Asked
<1>3. q' = [op |-> r.op, req |-> r, got |-> g] /\ q.op = r.op /\ q.req = r
  BY <1>1, <1>2
<1>4. q'.op = q.op /\ q'.req = q.req /\ q'.got = g
  BY <1>3
<1>5. met' \in Seq(Faults)
  BY <1>1 DEF Asked
<1>. QED BY <1>1, <1>3, <1>4, <1>5, Zenon DEF Asked, WorldInv

-----------------------------------------------------------------------------
LEMMA BalanceCallsAre ==
    ASSUME NEW T, NEW tokens \in Seq(T)
    PROVE  /\ Len(BalanceCalls(tokens)) = Len(tokens) + 1 /\ BalanceCalls(tokens)[1] = <<"native">>
           /\ \A k \in 1 .. Len(tokens) : BalanceCalls(tokens)[k + 1] = <<"balance", tokens[k]>>
<1>. DEFINE facts == [k \in 1 .. Len(tokens) |-> <<"balance", tokens[k]>>]
<1>1. Len(tokens) \in Nat /\ facts \in Seq({<<"balance", t>> : t \in T}) /\ Len(facts) = Len(tokens)
  OBVIOUS
<1>2. \A k \in 1 .. Len(tokens) : facts[k] = <<"balance", tokens[k]>>
  OBVIOUS
<1>. HIDE DEF facts
<1>3. /\ Len(<<<<"native">>>> \o facts) = Len(tokens) + 1 /\ (<<<<"native">>>> \o facts)[1] = <<"native">>
      /\ \A k \in 1 .. Len(tokens) : (<<<<"native">>>> \o facts)[k + 1] = facts[k]
  BY <1>1
<1>. QED BY <1>2, <1>3, Zenon DEF BalanceCalls, facts

LEMMA FactValues ==
    /\ Values(<<"native">>) = {Result(TRUE, 0), Result(TRUE, 1)}
    /\ \A t : Values(<<"balance", t>>) = Words
    /\ Values(<<"outcome">>) = Outcomes
    /\ Values(<<"now">>) = Now
    /\ Values(<<"round">>) = [id : 0 .. 1, answer : {-1, 0, 1}, updated_at : Now]
    /\ \A n : Values(<<"forward", n>>) = Holders \cup {Zero} \cup EnsMisses
    /\ \A a : Values(<<"reverse", a>>) = Names \cup EnsMisses
BY Zenon DEF Values

\* aggregate3 on the next chunk of a balances call.
LEMMA BalancesStep ==
    ASSUME ReadInv, Aggregate, q.op = "balances"
    PROVE  ReadInv'
<1>. DEFINE tokens == q.req.tokens
            asked == CallsOf(q.req)
            done == Len(q.got)
            last == IF done + Batch < Len(asked) THEN done + Batch ELSE Len(asked)
            chunk == [k \in 1 .. last - done |-> world[asked[done + k]]]
            got == q.got \o chunk
<1>1. ~Answered /\ Asked /\ met = <<>> /\ BalancesGot
  BY Zenon DEF ReadInv, Aggregate, Reading, Quiet, Got
<1>2. q.req \in Requests /\ q.req.op = "balances"
  BY <1>1 DEF Asked
<1>3. tokens \in Seq(Range(tokens))
  BY <1>2, ReadsAssumption, Zenon
<1>4. asked = BalanceCalls(tokens)
  BY <1>2 DEF CallsOf
<1>5. /\ Len(tokens) \in Nat /\ Len(asked) = Len(tokens) + 1 /\ asked[1] = <<"native">>
      /\ \A k \in 1 .. Len(tokens) : asked[k + 1] = <<"balance", tokens[k]>>
  BY <1>3, <1>4, BalanceCallsAre
<1>6. ASSUME NEW k \in 1 .. Len(asked)
      PROVE  world[asked[k]] \in seen[asked[k]] /\ world[asked[k]] \in Words
  <2>. USE Zenon
  <2>1. CASE k = 1
    <3>1. <<"native">> \in DOMAIN world
      BY <1>1, <1>2 DEF Asked, HasFacts
    <3>2. {Result(TRUE, 0), Result(TRUE, 1)} \subseteq Words
      BY SMT DEF Words
    <3>. QED BY <1>1, <1>5, <2>1, <3>1, <3>2, FactValues DEF Asked, WorldInv
  <2>2. CASE k # 1
    <3>1. k - 1 \in 1 .. Len(tokens) /\ (k - 1) + 1 = k
      BY SMT, <1>5, <2>2
    <3>2. asked[k] = <<"balance", tokens[k - 1]>> /\ tokens[k - 1] \in Range(tokens)
      <4>1. tokens[k - 1] \in Range(tokens)
        BY SMT, <1>3, <3>1
      <4>. QED BY <1>5, <3>1, <4>1
    <3>3. <<"balance", tokens[k - 1]>> \in DOMAIN world
      BY <1>1, <1>2, <3>2 DEF Asked, HasFacts
    <3>4. Values(<<"balance", tokens[k - 1]>>) = Words
      BY FactValues
    <3>. QED BY <1>1, <3>2, <3>3, <3>4 DEF Asked, WorldInv
  <2>. QED BY <2>1, <2>2
<1>7. ReadReply(got, IF last = Len(asked) THEN ToAnswer(q.req, got) ELSE Unanswered)
  BY Zenon DEF Aggregate
<1>8. /\ q.got \in Seq(Words) /\ done \in Nat /\ done <= Len(asked)
      /\ \A k \in 1 .. done : q.got[k] \in seen[asked[k]]
  BY <1>1, <1>4 DEF BalancesGot
<1>. HIDE DEF tokens, asked, last
<1>9. last \in Nat /\ done <= last /\ last <= Len(asked)
  BY <1>5, <1>8, ReadsAssumption DEF last
<1>10. chunk \in Seq(Words) /\ Len(chunk) = last - done
       /\ \A k \in 1 .. last - done : chunk[k] = world[asked[done + k]]
  BY <1>5, <1>6, <1>8, <1>9
<1>. HIDE DEF chunk
<1>11. got \in Seq(Words) /\ Len(got) = last /\ \A k \in 1 .. last : got[k] \in seen[asked[k]]
  <2>1. got \in Seq(Words) /\ Len(got) = last
    BY <1>8, <1>9, <1>10
  <2>2. ASSUME NEW k \in 1 .. done PROVE got[k] \in seen[asked[k]]
    BY <1>8, <1>9, <1>10
  <2>3. ASSUME NEW k \in 1 .. last, k > done PROVE got[k] \in seen[asked[k]]
    <3>1. k - done \in 1 .. last - done /\ done + (k - done) = k /\ k \in 1 .. Len(asked)
      BY <1>5, <1>8, <1>9, <2>3
    <3>2. got[k] = chunk[k - done]
      BY <1>8, <1>9, <1>10, <2>3
    <3>. QED BY <1>6, <1>10, <3>1, <3>2, Zenon
  <2>4. \A k \in 1 .. last : k \in 1 .. done \/ k > done
    BY <1>8, <1>9
  <2>. QED BY <2>1, <2>2, <2>3, <2>4, Zenon
<1>. HIDE DEF got, done
<1>12. /\ Asked' /\ q'.op = "balances" /\ q'.req = q.req /\ q'.got = got /\ met' = <<>> /\ world' = world /\ seen' = seen
       /\ answer' = IF last = Len(asked) THEN ToAnswer(q.req, got) ELSE Unanswered
  <2>. USE Zenon
  <2>. DEFINE a == IF last = Len(asked) THEN ToAnswer(q.req, got) ELSE Unanswered
  <2>1. ReadReply(got, a)
    BY <1>7
  <2>. HIDE DEF a
  <2>2. /\ Asked' /\ q'.op = q.op /\ q'.req = q.req /\ q'.got = got /\ answer' = a
        /\ world' = world /\ seen' = seen /\ met' = met
    BY <1>1, <2>1, ReplyKeeps
  <2>. QED BY <1>1, <2>2 DEF a
<1>13. CASE last # Len(asked)
  <2>1. answer' = Unanswered
    BY <1>12, <1>13
  <2>2. BalancesGot'
    BY <1>4, <1>9, <1>11, <1>12, Zenon DEF BalancesGot, tokens
  <2>3. "balances" # "reverse" /\ "balances" # "preview"
    OBVIOUS
  <2>. QED BY <1>12, <2>1, <2>2, <2>3, UnansweredIsTrue, Zenon DEF ReadInv, Quiet, Got, ReverseGot, PreviewGot
<1>14. CASE last = Len(asked)
  <2>1. answer' = ToBalances(tokens, got)
    BY <1>2, <1>12, <1>14 DEF ToAnswer, tokens
  <2>2. got[1] \in seen[<<"native">>] /\ got[1] \in {Result(TRUE, 0), Result(TRUE, 1)}
    <3>. USE Zenon
    <3>1. 1 \in 1 .. last
      BY SMT, <1>5, <1>9, <1>14
    <3>2. <<"native">> \in DOMAIN world
      BY <1>1, <1>2 DEF Asked, HasFacts
    <3>. QED BY <1>1, <1>5, <1>11, <3>1, <3>2, FactValues DEF Asked, WorldInv
  <2>3. DecodeU256(got[1]) # None /\ got[1] = Result(TRUE, DecodeU256(got[1]).v)
    <3>1. got[1].success = TRUE /\ got[1].data # NoWord /\ got[1] = Result(TRUE, got[1].data)
      <4>1. CASE got[1] = Result(TRUE, 0)
        BY <4>1 DEF Result, NoWord
      <4>2. CASE got[1] = Result(TRUE, 1)
        BY <4>2 DEF Result, NoWord
      <4>. QED BY <2>2, <4>1, <4>2, Zenon
    <3>. QED BY <3>1, OptionsDiffer, Zenon DEF DecodeU256
  <2>. DEFINE v == [native |-> DecodeU256(got[1]).v,
                    tokens |-> [k \in 1 .. Len(tokens) |-> [token |-> tokens[k], balance |-> DecodeU256(got[k + 1])]]]
  <2>4. answer' = Ok(v)
    BY Zenon, <1>5, <1>11, <1>14, <2>1, <2>3 DEF ToBalances
  <2>5. answer' # Unanswered /\ answer'.ok = TRUE /\ answer'.v = v
    BY <2>4, OkAnswers, Zenon
  <2>6. v.native = DecodeU256(got[1]).v /\ Len(v.tokens) = Len(tokens)
        /\ \A k \in 1 .. Len(tokens) : v.tokens[k].token = tokens[k] /\ v.tokens[k].balance = DecodeU256(got[k + 1])
    BY <1>5
  <2>. HIDE DEF v
  <2>7. ASSUME NEW k \in 1 .. Len(tokens) PROVE got[k + 1] \in seen[<<"balance", tokens[k]>>]
    <3>1. k + 1 \in 1 .. last
      BY <1>5, <1>14
    <3>. QED BY <1>5, <1>11, <3>1, Zenon
  <2>8. BalancesAligned'
    <3>. USE Zenon
    <3>1. Result(TRUE, v.native) \in seen[<<"native">>]
      BY <2>2, <2>3, <2>6
    <3>2. \A k \in 1 .. Len(tokens) : \E r \in seen[<<"balance", v.tokens[k].token>>] : v.tokens[k].balance = DecodeU256(r)
      BY <2>6, <2>7
    <3>3. q'.req.tokens = tokens /\ seen' = seen /\ Succeeded' /\ ~Failed' /\ answer'.v = v
      BY <1>12, <2>5 DEF Succeeded, Failed, Answered, tokens
    <3>. QED BY <2>6, <3>1, <3>2, <3>3 DEF BalancesAligned
  <2>9. AnswersWereTrue'
    BY <1>12 DEF AnswersWereTrue, Is
  <2>10. FaultsSurface'
    BY <1>12, <2>4, OkSurfaces, Zenon
  <2>. QED BY <1>12, <2>5, <2>8, <2>9, <2>10, AnsweredIsDone, Zenon DEF ReadInv, ReadAnswers
<1>. QED BY <1>13, <1>14, Zenon

\* The reply that ends a lookup, a price, a preview ... with an Ok or with an
\* error of the operation's own.
LEMMA PlainAnswer ==
    ASSUME ReadInv, ~Answered, q.op \notin {"balances", "preview"}, NEW g, NEW a, ReadReply(g, a),
           \/ a = Unanswered /\ (q.op = "reverse" => \E n \in Names : n \in seen[<<"reverse", q.req.address>>] /\ g = <<n>>)
           \/ (\E v : a = Ok(v)) /\ AnswersWereTrue'
           \/ \E port, why : \E transient \in BOOLEAN : a = Err(port, why, transient) /\ ~(why = "Rpc" /\ transient)
    PROVE  ReadInv'
<1>. USE Zenon
<1>1. /\ Asked' /\ q'.op = q.op /\ q'.req = q.req /\ q'.got = g /\ answer' = a
      /\ world' = world /\ seen' = seen /\ met' = met /\ met = <<>>
  BY ReplyKeeps DEF ReadInv, Quiet
<1>2. BalancesAligned'
  BY <1>1 DEF BalancesAligned
<1>3. CASE a = Unanswered /\ (q.op = "reverse" => \E n \in Names : n \in seen[<<"reverse", q.req.address>>] /\ g = <<n>>)
  BY <1>1, <1>3, UnansweredIsTrue DEF ReadInv, Quiet, Got, BalancesGot, ReverseGot, PreviewGot
<1>4. CASE (\E v : a = Ok(v)) /\ AnswersWereTrue'
  <2>1. PICK v : a = Ok(v)
    BY <1>4
  <2>2. answer' # Unanswered /\ FaultsSurface'
    BY <1>1, <2>1, OkAnswers, OkSurfaces
  <2>. QED BY <1>1, <1>2, <1>4, <2>2, AnsweredIsDone DEF ReadInv, ReadAnswers
<1>5. CASE \E port, why : \E transient \in BOOLEAN : a = Err(port, why, transient) /\ ~(why = "Rpc" /\ transient)
  <2>1. PICK port, why : \E transient \in BOOLEAN : a = Err(port, why, transient) /\ ~(why = "Rpc" /\ transient)
    BY <1>5
  <2>2. PICK transient \in BOOLEAN : a = Err(port, why, transient) /\ ~(why = "Rpc" /\ transient)
    BY <2>1
  <2>3. answer' # Unanswered /\ FaultsSurface' /\ AnswersWereTrue'
    BY <1>1, <2>2, ErrAnswers, ErrSurfaces
  <2>. QED BY <1>1, <1>2, <2>3, AnsweredIsDone DEF ReadInv, ReadAnswers
<1>. QED BY <1>3, <1>4, <1>5

\* What none_or_err makes of a miss.
LEMMA NoneOrErrIs ==
    ASSUME NEW miss
    PROVE  NoneOrErr(miss) = Ok(None) \/ NoneOrErr(miss) = Err("Ens", "OffchainLookupRequired", FALSE)
BY Zenon DEF NoneOrErr

LEMMA OffchainIsTerminal ==
    \E port, why : \E transient \in BOOLEAN :
        Err("Ens", "OffchainLookupRequired", FALSE) = Err(port, why, transient) /\ ~(why = "Rpc" /\ transient)
<1>1. ~("OffchainLookupRequired" = "Rpc" /\ FALSE) /\ FALSE \in BOOLEAN
  OBVIOUS
<1>. QED BY <1>1, Zenon

\* Every other reply.
LEMMA RepliesStep ==
    ASSUME ReadInv,
           \/ Aggregate /\ q.op = "metadata"
           \/ Single \/ Resolve \/ Text \/ ClaimedName \/ ForwardVerify \/ FeedDecimals \/ LatestRound
    PROVE  ReadInv'
<1>. USE Zenon
<1>0. Asked /\ q.req \in Requests /\ q.req.op = q.op
  <2>1. PICK r \in Requests : \E g : q = [op |-> r.op, req |-> r, got |-> g]
    BY DEF ReadInv, Asked
  <2>2. q.req = r /\ q.op = r.op
    BY SMT, <2>1
  <2>. QED BY <2>2 DEF ReadInv
<1>1. CASE Aggregate /\ q.op = "metadata"
  <2>. DEFINE asked == CallsOf(q.req)
              done == Len(q.got)
              last == IF done + Batch < Len(asked) THEN done + Batch ELSE Len(asked)
              got == q.got \o [k \in 1 .. last - done |-> world[asked[done + k]]]
  <2>1. ~Answered /\ ReadReply(got, IF last = Len(asked) THEN ToAnswer(q.req, got) ELSE Unanswered)
    BY <1>1 DEF Aggregate, Reading
  <2>2. PICK v : ToAnswer(q.req, got) = Ok(v)
    <3>1. ToAnswer(q.req, got) = ToMetadata(got)
      BY SMT, <1>0, <1>1 DEF ToAnswer
    <3>. HIDE DEF got
    <3>. QED BY <3>1 DEF ToMetadata
  <2>. DEFINE a == IF last = Len(asked) THEN ToAnswer(q.req, got) ELSE Unanswered
  <2>3. ReadReply(got, a) /\ (a = Unanswered \/ a = Ok(v))
    BY <2>1, <2>2
  <2>. HIDE DEF got, a
  <2>4. q.op \notin {"balances", "preview"} /\ q.op # "reverse"
    BY SMT, <1>1
  <2>5. AnswersWereTrue'
    <3>1. q'.op = "metadata"
      BY <1>0, <1>1, <2>3, ReplyKeeps
    <3>. QED BY <3>1 DEF AnswersWereTrue, Is
  <2>. QED BY <2>1, <2>3, <2>4, <2>5, PlainAnswer
<1>2. CASE Single
  <2>. DEFINE r == world[<<"value">>]
              a == IF DecodeU256(r) = None THEN RpcErr("Read", "fatal") ELSE Ok(r.data)
  <2>1. ~Answered /\ q.op = "single" /\ ReadReply(<<r>>, a)
    BY <1>2 DEF Single, Reading
  <2>2. q.op \notin {"balances", "preview"} /\ q.op # "reverse"
    BY SMT, <2>1
  <2>3. (\E v : a = Ok(v)) \/ \E port, why : \E transient \in BOOLEAN : a = Err(port, why, transient) /\ ~(why = "Rpc" /\ transient)
    <3>1. RpcErr("Read", "fatal") = Err("Read", "Rpc", FALSE)
      BY DEF RpcErr
    <3>2. ~("Rpc" = "Rpc" /\ FALSE) /\ FALSE \in BOOLEAN
      BY SMT
    <3>. QED BY <3>1, <3>2
  <2>4. AnswersWereTrue'
    <3>1. q'.op = "single"
      BY <1>0, <2>1, ReplyKeeps
    <3>. QED BY SMT, <3>1 DEF AnswersWereTrue, Is
  <2>. HIDE DEF a
  <2>. QED BY <2>1, <2>2, <2>3, <2>4, PlainAnswer
<1>3. CASE Resolve
  <2>. DEFINE r == world[<<"forward", q.req.name>>]
              a == CASE r \in Holders -> Ok(Some(r)) [] r = Zero -> Ok(None) [] OTHER -> NoneOrErr(r)
  <2>1. ~Answered /\ q.op = "resolve" /\ ReadReply(<<r>>, a)
    BY <1>3 DEF Resolve, Reading
  <2>2. q.op \notin {"balances", "preview"} /\ q.op # "reverse"
    BY SMT, <2>1
  <2>3. /\ Asked' /\ q'.op = q.op /\ q'.req = q.req /\ answer' = a /\ seen' = seen
    BY <1>0, <2>1, ReplyKeeps
  <2>4. r \in seen[<<"forward", q.req.name>>] /\ (r \in Holders => r # Zero)
    <3>1. <<"forward", q.req.name>> \in DOMAIN world
      BY <1>0, <2>1 DEF Asked, HasFacts
    <3>2. Zero \notin Holders
      BY ReadsAssumption
    <3>. QED BY <1>0, <3>1, <3>2 DEF Asked, WorldInv
  <2>5. \/ a = Ok(Some(r)) /\ r \in Holders
        \/ a = Ok(None)
        \/ a = Err("Ens", "OffchainLookupRequired", FALSE)
    <3>. HIDE DEF r
    <3>1. NoneOrErr(r) = Ok(None) \/ NoneOrErr(r) = Err("Ens", "OffchainLookupRequired", FALSE)
      BY NoneOrErrIs
    <3>. QED BY <3>1, <2>4
  <2>. HIDE DEF r, a
  <2>6. ASSUME (a = Ok(Some(r)) /\ r \in Holders) \/ a = Ok(None) PROVE AnswersWereTrue'
    <3>1. CASE a = Ok(None)
      <4>1. ~answer'.v.some
        BY <2>3, <3>1, OptionsDiffer
      <4>. QED BY SMT, <2>1, <2>3, <4>1 DEF AnswersWereTrue, Is
    <3>2. CASE a = Ok(Some(r)) /\ r \in Holders
      <4>1. answer'.v.v = r
        BY <2>3, <3>2, OptionsDiffer
      <4>. QED BY SMT, <2>1, <2>3, <2>4, <3>2, <4>1 DEF AnswersWereTrue, Is
    <3>. QED BY <2>6, <3>1, <3>2
  <2>. QED BY <2>1, <2>2, <2>5, <2>6, OffchainIsTerminal, PlainAnswer
<1>4. CASE Text
  <2>. DEFINE r == world[<<"text", q.req.name>>]
              a == CASE r = "" -> Ok(None) [] r \in EnsMisses -> NoneOrErr(r) [] OTHER -> Ok(Some(r))
  <2>1. ~Answered /\ q.op = "text" /\ ReadReply(<<r>>, a)
    BY <1>4 DEF Text, Reading
  <2>2. q.op \notin {"balances", "preview"} /\ q.op # "reverse"
    BY <2>1
  <2>3. (\E v : a = Ok(v)) \/ a = Err("Ens", "OffchainLookupRequired", FALSE)
    <3>. HIDE DEF r
    <3>1. NoneOrErr(r) = Ok(None) \/ NoneOrErr(r) = Err("Ens", "OffchainLookupRequired", FALSE)
      BY NoneOrErrIs
    <3>2. a \in {Ok(None), Ok(Some(r)), NoneOrErr(r)}
      BY SMT DEF EnsMisses
    <3>. HIDE DEF a
    <3>. QED BY <3>1, <3>2
  <2>4. AnswersWereTrue'
    <3>1. q'.op = "text"
      BY <1>0, <2>1, ReplyKeeps
    <3>. QED BY SMT, <3>1 DEF AnswersWereTrue, Is
  <2>. HIDE DEF a
  <2>. QED BY <2>1, <2>2, <2>3, <2>4, OffchainIsTerminal, PlainAnswer
<1>5. CASE ClaimedName
  <2>. DEFINE r == world[<<"reverse", q.req.address>>]
              a == IF r \in Names THEN Unanswered ELSE NoneOrErr(r)
  <2>1. ~Answered /\ q.op = "reverse" /\ ReadReply(<<r>>, a)
    BY <1>5 DEF ClaimedName, Reading
  <2>2. q.op \notin {"balances", "preview"}
    BY SMT, <2>1
  <2>3. /\ q'.op = q.op /\ q'.req = q.req /\ answer' = a /\ seen' = seen
    <3>. HIDE DEF a
    <3>. QED BY <1>0, <2>1, ReplyKeeps
  <2>4. r \in seen[<<"reverse", q.req.address>>] /\ r \in Names \cup EnsMisses
    <3>1. <<"reverse", q.req.address>> \in DOMAIN world
      BY <1>0, <2>1 DEF Asked, HasFacts
    <3>2. Values(<<"reverse", q.req.address>>) = Names \cup EnsMisses
      BY FactValues
    <3>. QED BY <1>0, <3>1, <3>2 DEF Asked, WorldInv
  <2>5. \/ a = Unanswered /\ r \in Names
        \/ a = Ok(None) /\ r \notin Names
        \/ a = Err("Ens", "OffchainLookupRequired", FALSE)
    <3>. HIDE DEF r
    <3>1. NoneOrErr(r) = Ok(None) \/ NoneOrErr(r) = Err("Ens", "OffchainLookupRequired", FALSE)
      BY NoneOrErrIs
    <3>. QED BY <3>1
  <2>. HIDE DEF r, a
  <2>6. ASSUME a = Ok(None), r \notin Names PROVE AnswersWereTrue'
    <3>1. ~answer'.v.some
      BY <2>3, <2>6, OptionsDiffer
    <3>2. NameTrue'
      BY <2>3, <2>4, <2>6, <3>1 DEF NameTrue
    <3>. QED BY <2>1, <2>3, <3>2 DEF AnswersWereTrue, Is
  <2>. QED BY <2>1, <2>2, <2>4, <2>5, <2>6, OffchainIsTerminal, PlainAnswer
<1>6. CASE ForwardVerify
  <2>. DEFINE n == q.got[1]
              r == world[<<"forward", n>>]
              a == CASE r = q.req.address -> Ok(Some(n))
                     [] r \in (Holders \ {q.req.address}) \cup {Zero} -> Ok(None)
                     [] OTHER -> NoneOrErr(r)
  <2>1. ~Answered /\ q.op = "reverse" /\ q.got # <<>> /\ ReadReply(Append(q.got, r), a)
    BY <1>6 DEF ForwardVerify, Reading
  <2>2. q.op \notin {"balances", "preview"}
    BY SMT, <2>1
  <2>3. /\ q'.op = q.op /\ q'.req = q.req /\ answer' = a /\ seen' = seen
    BY <1>0, <2>1, ReplyKeeps
  <2>4. n \in Names /\ n \in seen[<<"reverse", q.req.address>>]
    <3>1. PICK m \in Names : m \in seen[<<"reverse", q.req.address>>] /\ q.got = <<m>>
      BY <2>1 DEF ReadInv, Got, ReverseGot
    <3>. QED BY SMT, <3>1
  <2>5. r \in seen[<<"forward", n>>] /\ q.req.address # Zero
    <3>1. <<"forward", n>> \in DOMAIN world
      BY <1>0, <2>1, <2>4 DEF Asked, HasFacts
    <3>2. Zero \notin Holders /\ q.req.address \in Holders
      BY <1>0, <2>1, ReadsAssumption
    <3>. QED BY <1>0, <3>1, <3>2 DEF Asked, WorldInv
  <2>6. \/ a = Ok(Some(n)) /\ r = q.req.address
        \/ a = Ok(None) /\ r # q.req.address
        \/ a = Err("Ens", "OffchainLookupRequired", FALSE)
    <3>1. NoneOrErr(r) = Ok(None) \/ NoneOrErr(r) = Err("Ens", "OffchainLookupRequired", FALSE)
      BY NoneOrErrIs
    <3>. HIDE DEF r, n
    <3>. QED BY <3>1, <2>5
  <2>. HIDE DEF r, a, n
  <2>7. ASSUME a = Ok(Some(n)), r = q.req.address PROVE AnswersWereTrue'
    <3>1. answer'.v.some = TRUE /\ answer'.v.v = n
      BY <2>3, <2>7, OptionsDiffer
    <3>2. NameTrue'
      BY <2>3, <2>4, <2>5, <2>7, <3>1 DEF NameTrue
    <3>. QED BY SMT, <2>1, <2>3, <3>2 DEF AnswersWereTrue, Is
  <2>8. ASSUME a = Ok(None), r # q.req.address PROVE AnswersWereTrue'
    <3>1. ~answer'.v.some
      BY <2>3, <2>8, OptionsDiffer
    <3>2. seen[<<"forward", n>>] # {q.req.address}
      BY <2>5, <2>8
    <3>3. NameTrue'
      BY <2>3, <2>4, <3>1, <3>2 DEF NameTrue
    <3>. QED BY SMT, <2>1, <2>3, <3>3 DEF AnswersWereTrue, Is
  <2>. QED BY <2>1, <2>2, <2>6, <2>7, <2>8, OffchainIsTerminal, PlainAnswer
<1>7. CASE FeedDecimals
  <2>1. ~Answered /\ q.op = "price" /\ ReadReply(<<world[<<"scale">>]>>, Unanswered)
    BY <1>7 DEF FeedDecimals, Reading
  <2>2. q.op \notin {"balances", "preview"} /\ q.op # "reverse"
    BY SMT, <2>1
  <2>. QED BY <2>1, <2>2, PlainAnswer
<1>8. CASE LatestRound
  <2>. DEFINE round == world[<<"round">>]
              now == world[<<"now">>]
              a == ToPrice(round, q.got[1], now)
  <2>1. ~Answered /\ q.op = "price" /\ ReadReply(q.got, a)
    BY <1>8 DEF LatestRound, Reading
  <2>2. q.op \notin {"balances", "preview"} /\ q.op # "reverse"
    BY SMT, <2>1
  <2>3. /\ q'.op = q.op /\ answer' = a /\ seen' = seen /\ world' = world
    BY <1>0, <2>1, ReplyKeeps
  <2>4. /\ round \in seen[<<"round">>] /\ round \in [id : 0 .. 1, answer : {-1, 0, 1}, updated_at : Now]
        /\ now \in Now
    <3>1. <<"round">> \in DOMAIN world /\ <<"now">> \in DOMAIN world
      BY <1>0, <2>1 DEF Asked, HasFacts
    <3>. QED BY <1>0, <3>1, FactValues DEF Asked, WorldInv
  <2>5. now \in Nat /\ round.updated_at \in Nat /\ round.answer \in Int /\ MaxAge \in Nat
    <3>1. Now \subseteq Nat /\ MaxAge \in Nat
      BY ReadsAssumption
    <3>2. round.updated_at \in Now /\ round.answer \in {-1, 0, 1} /\ now \in Now
      BY <2>4
    <3>3. {-1, 0, 1} \subseteq Int
      BY SMT
    <3>. HIDE DEF round, now
    <3>. QED BY <3>1, <3>2, <3>3
  <2>6. \/ \E port, why : \E transient \in BOOLEAN : a = Err(port, why, transient) /\ ~(why = "Rpc" /\ transient)
        \/ /\ ~(round.id = 0 \/ round.updated_at = 0 \/ round.updated_at > now \/ round.answer <= 0)
           /\ ~(now - round.updated_at > MaxAge)
           /\ a = Ok(Some([value |-> round.answer, decimals |-> q.got[1], updated_at |-> round.updated_at]))
    <3>1. "Feed" # "Rpc" /\ "Stale" # "Rpc" /\ FALSE \in BOOLEAN
      BY SMT
    <3>. QED BY <3>1 DEF ToPrice
  <2>. HIDE DEF round, now, a
  <2>7. ASSUME ~(round.id = 0 \/ round.updated_at = 0 \/ round.updated_at > now \/ round.answer <= 0),
               ~(now - round.updated_at > MaxAge),
               a = Ok(Some([value |-> round.answer, decimals |-> q.got[1], updated_at |-> round.updated_at]))
        PROVE  AnswersWereTrue'
    <3>. DEFINE v == [value |-> round.answer, decimals |-> q.got[1], updated_at |-> round.updated_at]
    <3>1. v.value = round.answer /\ v.updated_at = round.updated_at
      BY SMT
    <3>. HIDE DEF v
    <3>2. answer'.v.v = v
      BY <2>3, <2>7, OptionsDiffer DEF v
    <3>3. now - round.updated_at \in 0 .. MaxAge /\ round.answer > 0
      BY SMT, <2>5, <2>7
    <3>4. PriceTrue'
      BY <2>3, <2>4, <2>7, <3>1, <3>2, <3>3 DEF PriceTrue, now
    <3>. QED BY SMT, <2>1, <2>3, <3>4 DEF AnswersWereTrue, Is
  <2>. QED BY <2>1, <2>2, <2>6, <2>7, PlainAnswer
<1>. QED BY <1>1, <1>2, <1>3, <1>4, <1>5, <1>6, <1>7, <1>8

LEMMA SameFunction ==
    ASSUME NEW D, NEW S, NEW f \in [D -> S], NEW h \in [D -> S], \A x \in D : f[x] = h[x]
    PROVE  f = h
OBVIOUS

LEMMA ShortSequences ==
    ASSUME NEW o, NEW g, NEW l
    PROVE  /\ Append(<<o>>, g) = <<o, g>> /\ Append(<<o, g>>, l) = <<o, g, l>>
           /\ Len(<<>>) = 0 /\ Len(<<o>>) = 1 /\ Len(<<o, g>>) = 2 /\ Len(<<o, g, l>>) = 3
           /\ <<o>> # <<>> /\ <<o, g>> # <<>>
<1>. DEFINE S == {o, g, l}
            s == Append(<<o>>, g)
            t == Append(<<o, g>>, l)
<1>1. s = <<o, g>>
  <2>1. s \in Seq(S) /\ Len(s) = 2 /\ s[1] = o /\ s[2] = g /\ <<o, g>> \in [1 .. 2 -> S]
    OBVIOUS
  <2>. HIDE DEF s, S
  <2>2. s \in [1 .. 2 -> S] /\ \A i \in 1 .. 2 : s[i] = <<o, g>>[i]
    BY <2>1
  <2>. DEFINE p == <<o, g>>
  <2>3. p \in [1 .. 2 -> S] /\ \A i \in 1 .. 2 : s[i] = p[i]
    BY <2>1, <2>2, Zenon
  <2>. HIDE DEF p
  <2>4. s = p
    BY <2>2, <2>3, SameFunction
  <2>. QED BY <2>4 DEF p
<1>2. t = <<o, g, l>>
  <2>1. t \in Seq(S) /\ Len(t) = 3 /\ t[1] = o /\ t[2] = g /\ t[3] = l /\ <<o, g, l>> \in [1 .. 3 -> S]
    OBVIOUS
  <2>. HIDE DEF t, S
  <2>2. t \in [1 .. 3 -> S] /\ \A i \in 1 .. 3 : t[i] = <<o, g, l>>[i]
    BY <2>1
  <2>. DEFINE p == <<o, g, l>>
  <2>3. p \in [1 .. 3 -> S] /\ \A i \in 1 .. 3 : t[i] = p[i]
    BY <2>1, <2>2, Zenon
  <2>. HIDE DEF p
  <2>4. t = p
    BY <2>2, <2>3, SameFunction
  <2>. QED BY <2>4 DEF p
<1>3. Len(<<>>) = 0 /\ Len(<<o>>) = 1 /\ Len(<<o, g>>) = 2 /\ Len(<<o, g, l>>) = 3
  OBVIOUS
<1>. QED BY <1>1, <1>2, <1>3, Zenon

\* The three RPCs of a preview.
LEMMA PreviewStep ==
    ASSUME ReadInv, q.op = "preview",
           \/ PreviewCall \/ PreviewGas \/ PreviewAccessList
           \/ \E fault \in Faults : PreviewExtraFails(fault)
    PROVE  ReadInv'
<1>. USE Zenon
<1>0. /\ Asked /\ ~Answered /\ met \in Seq(Faults)
      /\ q.got = <<>> \/ (\E o \in seen[<<"outcome">>] : q.got = <<o>>)
         \/ \E o \in seen[<<"outcome">>] : \E g : q.got = <<o, g>> /\ GasTrue(g)
  <2>1. ~Answered
    BY DEF PreviewCall, PreviewGas, PreviewAccessList, PreviewExtraFails, Reading
  <2>. QED BY <2>1 DEF ReadInv, Asked, Got, PreviewGot
<1>1. world[<<"outcome">>] \in seen[<<"outcome">>] /\ seen[<<"outcome">>] \subseteq Outcomes
  <2>1. <<"outcome">> \in DOMAIN world
    BY SMT, <1>0 DEF Asked, HasFacts
  <2>. QED BY <1>0, <2>1, FactValues DEF Asked, WorldInv
\* The outcome, when it is all that was read, and the outcome with the gas.
<1>. 0 # 1 /\ 0 # 2 /\ 1 # 2
  BY SMT
<1>2. ASSUME Len(q.got) = 1 PROVE \E o \in seen[<<"outcome">>] : q.got = <<o>>
  BY <1>0, <1>2, ShortSequences
<1>3. ASSUME Len(q.got) = 2 PROVE \E o \in seen[<<"outcome">>] : \E g : q.got = <<o, g>> /\ GasTrue(g)
  BY <1>0, <1>3, ShortSequences
<1>4. ASSUME Asked', q'.op = "preview", answer' = Unanswered, PreviewGot', q'.got # <<>>
      PROVE  ReadInv'
  <2>1. "preview" # "balances" /\ "preview" # "reverse"
    BY SMT
  <2>. QED BY <1>4, <2>1, UnansweredIsTrue DEF ReadInv, Quiet, Got, BalancesGot, ReverseGot
<1>5. ASSUME Asked', q'.op = "preview", seen' = seen, NEW o \in seen[<<"outcome">>], NEW g, NEW l, GasTrue(g)',
             answer' = ToPreview(<<o, g, l>>)
      PROVE  ReadInv'
  <2>. DEFINE outcome == IF o = "returned" THEN "Success" ELSE DecodeRevert(o)
              v == [outcome |-> outcome, gas_estimate |-> g, access_list |-> l]
  <2>1. answer' = Ok(v)
    BY <1>5 DEF ToPreview
  <2>2. answer'.v = v /\ answer' # Unanswered
    BY <2>1, OkAnswers
  <2>3. v.outcome = outcome /\ v.gas_estimate = g
    BY SMT
  <2>4. o \in Outcomes /\ (outcome = "Success" <=> o = "returned")
    <3>1. o \in Outcomes
      BY <1>1
    <3>. QED BY SMT, <3>1 DEF Outcomes, DecodeRevert
  <2>5. o # "returned" => outcome = DecodeRevert(o)
    OBVIOUS
  <2>. HIDE DEF outcome, v
  <2>6. PreviewTrue'
    BY <1>5, <2>2, <2>3, <2>4, <2>5 DEF PreviewTrue, GasTrue
  <2>7. AnswersWereTrue' /\ BalancesAligned'
    BY SMT, <1>5, <2>6 DEF AnswersWereTrue, BalancesAligned, Is
  <2>8. FaultsSurface'
    BY <1>5, <2>1, OkSurfaces
  <2>. QED BY <1>5, <2>2, <2>7, <2>8, AnsweredIsDone DEF ReadInv, ReadAnswers
\* dry_run.
<1>6. CASE PreviewCall
  <2>1. ReadReply(<<world[<<"outcome">>]>>, Unanswered)
    BY <1>6 DEF PreviewCall
  <2>2. /\ Asked' /\ q'.op = "preview" /\ q'.got = <<world[<<"outcome">>]>> /\ answer' = Unanswered /\ seen' = seen
    BY <1>0, <2>1, ReplyKeeps
  <2>3. <<world[<<"outcome">>]>> # <<>>
    BY SMT
  <2>4. PreviewGot'
    BY <1>1, <2>2 DEF PreviewGot
  <2>. QED BY <1>4, <2>2, <2>3, <2>4
\* eth_estimateGas.
<1>7. CASE PreviewGas
  <2>0. PICK g : g = IF world[<<"outcome">>] = "returned" THEN Some("gas") ELSE None
    BY SMT
  <2>1. PICK o \in seen[<<"outcome">>] : q.got = <<o>>
    BY <1>2, <1>7 DEF PreviewGas
  <2>2. ReadReply(Append(q.got, g), Unanswered)
    BY <1>7, <2>0 DEF PreviewGas
  <2>3. g.some <=> world[<<"outcome">>] = "returned"
    BY SMT, <2>0 DEF Some, None
  <2>4. /\ Asked' /\ q'.op = "preview" /\ q'.got = Append(q.got, g) /\ answer' = Unanswered
        /\ seen' = seen /\ met' = met
    BY <1>0, <2>2, ReplyKeeps
  <2>5. Append(q.got, g) = <<o, g>> /\ <<o, g>> # <<>>
    BY <2>1, ShortSequences
  <2>6. GasTrue(g)'
    BY <1>1, <2>3, <2>4 DEF GasTrue
  <2>7. PreviewGot'
    BY <2>4, <2>5, <2>6 DEF PreviewGot
  <2>. QED BY <1>4, <2>4, <2>5, <2>7
\* eth_createAccessList.
<1>8. CASE PreviewAccessList
  <2>0. PICK o \in seen[<<"outcome">>] : \E g : q.got = <<o, g>> /\ GasTrue(g)
    BY <1>3, <1>8 DEF PreviewAccessList
  <2>1. PICK g : q.got = <<o, g>> /\ GasTrue(g)
    BY <2>0
  <2>2. PICK l : ReadReply(Append(q.got, l), ToPreview(Append(q.got, l)))
    BY <1>8 DEF PreviewAccessList
  <2>3. Append(q.got, l) = <<o, g, l>>
    BY <2>1, ShortSequences
  <2>4. /\ Asked' /\ q'.op = "preview" /\ answer' = ToPreview(<<o, g, l>>) /\ seen' = seen /\ met' = met
    BY <1>0, <2>2, <2>3, ReplyKeeps
  <2>5. GasTrue(g)'
    BY <2>1, <2>4 DEF GasTrue
  <2>. QED BY <1>5, <2>4, <2>5
\* Either extra fails.
<1>9. ASSUME NEW fault \in Faults, PreviewExtraFails(fault) PROVE ReadInv'
  <2>. DEFINE got == Append(q.got, None)
              a == IF Len(got) = 3 THEN ToPreview(got) ELSE Unanswered
  <2>1. Len(q.got) \in {1, 2} /\ Fails(fault, [q EXCEPT !.got = got], a)
    BY <1>9 DEF PreviewExtraFails
  <2>2. /\ Asked' /\ q'.op = "preview" /\ q'.got = got /\ answer' = a
        /\ met' = Append(met, fault) /\ seen' = seen
    <3>. HIDE DEF got, a
    <3>. QED BY <1>0, <2>1, FailKeeps
  <2>3. met' # <<>> /\ None.some = FALSE
    BY SMT, <1>0, <2>2 DEF None
  <2>4. CASE Len(q.got) = 1
    <3>1. PICK o \in seen[<<"outcome">>] : q.got = <<o>>
      BY <1>2, <2>4
    <3>2. got = <<o, None>> /\ Len(got) = 2 /\ got # <<>>
      BY <3>1, ShortSequences
    <3>. HIDE DEF got
    <3>3. a = Unanswered
      BY SMT, <3>2
    <3>. HIDE DEF got, a
    <3>4. GasTrue(None)'
      BY <2>3 DEF GasTrue
    <3>5. PreviewGot'
      BY <2>2, <3>1, <3>2, <3>4 DEF PreviewGot
    <3>. QED BY <1>4, <2>2, <3>2, <3>3, <3>5
  <2>5. CASE Len(q.got) = 2
    <3>0. PICK o \in seen[<<"outcome">>] : \E g : q.got = <<o, g>> /\ GasTrue(g)
      BY <1>3, <2>5
    <3>1. PICK g : q.got = <<o, g>> /\ GasTrue(g)
      BY <3>0
    <3>2. got = <<o, g, None>> /\ Len(got) = 3
      BY <3>1, ShortSequences
    <3>. HIDE DEF got
    <3>3. a = ToPreview(<<o, g, None>>)
      BY SMT, <3>2
    <3>. HIDE DEF got, a
    <3>4. GasTrue(g)'
      BY <2>2, <2>3, <3>1 DEF GasTrue
    <3>. QED BY <1>5, <2>2, <3>3, <3>4
  <2>. QED BY <2>1, <2>4, <2>5
<1>. QED BY <1>6, <1>7, <1>8, <1>9

\* Any other RPC fails.
LEMMA ReadFailsStep ==
    ASSUME ReadInv, NEW fault \in Faults, ReadFails(fault)
    PROVE  ReadInv'
<1>. USE Zenon
<1>1. /\ ~Answered /\ q.op # "discover" /\ ~(q.op = "preview" /\ Len(q.got) > 0) /\ Asked
      /\ Fails(fault, q, RpcErr(PortOf(q.op), fault))
  BY DEF ReadFails, ReadInv
<1>2. q.op = "preview" => q.got = <<>>
  <2>1. q.op = "preview" => \/ q.got = <<>>
                            \/ \E o : q.got = <<o>>
                            \/ \E o, g : q.got = <<o, g>>
    BY <1>1 DEF ReadInv, Got, PreviewGot
  <2>2. 1 > 0 /\ 2 > 0
    BY SMT
  <2>. QED BY <1>1, <2>1, <2>2, ShortSequences
<1>3. met = <<>>
  BY <1>1, <1>2 DEF ReadInv, Quiet
<1>4. /\ q' = q /\ answer' = RpcErr(PortOf(q.op), fault) /\ world' = world /\ seen' = seen
      /\ met' = Append(met, fault)
  BY <1>1 DEF Fails
<1>5. met' = <<fault>> /\ met' \in Seq(Faults) /\ met' # <<>>
  BY SMT, <1>3, <1>4
<1>6. Asked'
  BY <1>1, <1>4, <1>5 DEF Asked, WorldInv
<1>7. FaultsSurface' /\ AnswersWereTrue'
  BY <1>1, <1>4, <1>5, RpcSurfaces
<1>8. answer' # Unanswered /\ answer'.ok = FALSE
  <2>. DEFINE e == RpcErr(PortOf(q.op), fault)
  <2>1. "err" \in DOMAIN e /\ "err" \notin DOMAIN Unanswered /\ e.ok = FALSE
    BY SMT DEF RpcErr, Err, Unanswered
  <2>. HIDE DEF e
  <2>. QED BY <1>4, <2>1 DEF e
<1>9. BalancesAligned'
  BY <1>5, <1>8 DEF BalancesAligned, Succeeded
<1>. QED BY <1>6, <1>7, <1>8, <1>9, AnsweredIsDone DEF ReadInv, ReadAnswers

\* The chain moves while the operation waits.
LEMMA FactChangesStep ==
    ASSUME ReadInv, FactChanges
    PROVE  ReadInv'
<1>. USE Zenon
<1>1. ~Answered /\ Asked /\ Quiet /\ BalancesGot /\ ReverseGot /\ PreviewGot
  BY DEF FactChanges, ReadInv, Got
<1>2. PICK f \in DOMAIN world : \E v \in Values(f) : Change(f, v)
  BY DEF FactChanges
<1>3. PICK v \in Values(f) : Change(f, v)
  BY <1>2
<1>4. /\ world' = [world EXCEPT ![f] = v] /\ seen' = [seen EXCEPT ![f] = @ \cup {v}]
      /\ q' = q /\ answer' = answer /\ met' = met
  BY <1>3 DEF Change
<1>5. DOMAIN seen = DOMAIN world /\ \A e \in DOMAIN world : world[e] \in seen[e] /\ seen[e] \subseteq Values(e)
  BY <1>1 DEF Asked, WorldInv
<1>6. /\ DOMAIN seen' = DOMAIN world' /\ DOMAIN world' = DOMAIN world
      /\ \A e \in DOMAIN world : /\ world'[e] \in seen'[e] /\ seen'[e] \subseteq Values(e)
                                 /\ seen[e] \subseteq seen'[e]
  BY <1>3, <1>4, <1>5
<1>7. Asked'
  BY <1>1, <1>4, <1>6 DEF Asked, WorldInv
<1>8. PICK r \in Requests : \E g : q = [op |-> r.op, req |-> r, got |-> g]
  BY <1>1 DEF Asked
<1>9. q.req = r /\ q.op = r.op /\ HasFacts(q.req, DOMAIN world)
  <2>1. q.req = r /\ q.op = r.op
    BY SMT, <1>8
  <2>. QED BY <1>1, <2>1 DEF Asked
<1>10. BalancesGot'
  <2>. SUFFICES ASSUME q.op = "balances" PROVE BalancesGot'
    BY <1>4 DEF BalancesGot
  <2>. DEFINE tokens == q.req.tokens
  <2>1. tokens \in Seq(Range(tokens))
    BY <1>9, ReadsAssumption
  <2>. DEFINE asked == BalanceCalls(tokens)
  <2>2. /\ Len(tokens) \in Nat /\ Len(asked) = Len(tokens) + 1 /\ asked[1] = <<"native">>
        /\ \A k \in 1 .. Len(tokens) : asked[k + 1] = <<"balance", tokens[k]>>
    BY SMTT(30), <2>1, BalanceCallsAre
  <2>3. /\ q.got \in Seq(Words) /\ Len(q.got) \in Nat /\ Len(q.got) <= Len(asked)
        /\ \A k \in 1 .. Len(q.got) : q.got[k] \in seen[asked[k]]
    BY SMT, <1>1 DEF BalancesGot
  <2>. HIDE DEF tokens, asked
  <2>4. ASSUME NEW k \in 1 .. Len(q.got) PROVE asked[k] \in DOMAIN world
    <3>1. CASE k = 1
      BY <1>9, <2>2, <3>1 DEF HasFacts
    <3>2. CASE k # 1
      <4>1. k - 1 \in 1 .. Len(tokens) /\ (k - 1) + 1 = k
        BY SMT, <2>2, <2>3, <3>2
      <4>2. tokens[k - 1] \in Range(tokens)
        BY SMT, <2>1, <4>1
      <4>3. asked[k] = <<"balance", tokens[k - 1]>>
        BY <2>2, <4>1
      <4>. QED BY <1>9, <4>2, <4>3 DEF HasFacts, tokens
    <3>. QED BY <3>1, <3>2
  <2>5. \A k \in 1 .. Len(q.got) : q.got[k] \in seen'[asked[k]]
    BY <1>6, <2>3, <2>4
  <2>. QED BY <1>4, <2>3, <2>5 DEF BalancesGot, tokens, asked
<1>11. ReverseGot'
  BY <1>1, <1>4, <1>6, <1>9 DEF ReverseGot, HasFacts
<1>12. PreviewGot'
  <2>. SUFFICES ASSUME q.op = "preview" PROVE PreviewGot'
    BY <1>4 DEF PreviewGot
  <2>1. <<"outcome">> \in DOMAIN world
    BY <1>9 DEF HasFacts
  <2>2. seen[<<"outcome">>] \subseteq seen'[<<"outcome">>] /\ world[<<"outcome">>] \in seen[<<"outcome">>]
    BY <1>5, <1>6, <2>1
  <2>3. ASSUME NEW g, GasTrue(g) PROVE GasTrue(g)'
    <3>1. seen[<<"outcome">>] # {"returned"} => seen'[<<"outcome">>] # {"returned"}
      BY <2>2
    <3>. QED BY <1>4, <2>2, <2>3, <3>1 DEF GasTrue
  <2>. QED BY <1>1, <1>4, <2>2, <2>3 DEF PreviewGot
<1>13. Quiet' /\ answer' = Unanswered
  BY <1>1, <1>4 DEF Quiet, Answered
<1>. QED BY <1>7, <1>10, <1>11, <1>12, <1>13, UnansweredIsTrue DEF ReadInv, Got

-----------------------------------------------------------------------------
LEMMA ReadBegins == ReadsInit => ReadInv
<1>. USE Zenon
<1>. SUFFICES ASSUME ReadsInit PROVE ReadInv
  BY SMT
<1>1. PICK r \in Requests : \E w \in Worlds(r) : Begin(StartRead(r), FirstAnswer(r), w)
  BY DEF ReadsInit
<1>2. PICK w \in Worlds(r) : Begin(StartRead(r), FirstAnswer(r), w)
  BY <1>1
<1>3. /\ q = [op |-> r.op, req |-> r, got |-> <<>>] /\ answer = FirstAnswer(r) /\ world = w
      /\ seen = [f \in DOMAIN w |-> {w[f]}] /\ met = <<>>
  BY <1>2 DEF Begin, StartRead
<1>4. q.op = r.op /\ q.req = r /\ q.got = <<>>
  BY SMT, <1>3
<1>5. Typed(w) /\ HasFacts(r, DOMAIN w)
  BY WorldsTyped
<1>6. WorldInv
  BY <1>3, <1>5 DEF WorldInv, Typed
<1>7. met \in Seq(Faults)
  BY SMT, <1>3
<1>8. Asked /\ Quiet
  BY <1>3, <1>4, <1>5, <1>6, <1>7 DEF Asked, Quiet
<1>9. BalancesGot /\ ReverseGot /\ PreviewGot
  <2>1. BalancesGot
    <3>. SUFFICES ASSUME r.op = "balances" PROVE BalancesGot
      BY <1>4 DEF BalancesGot
    <3>1. r.tokens \in Seq(Range(r.tokens))
      BY ReadsAssumption
    <3>2. Len(BalanceCalls(r.tokens)) \in Nat
      BY SMT, <3>1, BalanceCallsAre
    <3>3. <<>> \in Seq(Words) /\ Len(<<>>) = 0 /\ 1 .. 0 = {} /\ 0 <= Len(BalanceCalls(r.tokens))
      BY SMT, <3>2
    <3>. QED BY <1>4, <3>3 DEF BalancesGot
  <2>. QED BY <1>4, <2>1 DEF ReverseGot, PreviewGot
<1>10. answer = Unanswered \/ ((\E v : answer = Ok(v)) /\ q.op = "metadata")
  BY SMT, <1>3, <1>4 DEF FirstAnswer
<1>11. ReadAnswers
  <2>1. CASE answer = Unanswered
    BY <2>1 DEF ReadAnswers, BalancesAligned, AnswersWereTrue, FaultsSurface, Is, Answered, Succeeded, Failed
  <2>2. CASE (\E v : answer = Ok(v)) /\ q.op = "metadata"
    <3>1. answer.ok = TRUE
      BY <2>2, OkAnswers
    <3>2. AnswersWereTrue /\ BalancesAligned
      BY SMT, <2>2 DEF AnswersWereTrue, BalancesAligned, Is
    <3>. QED BY <1>3, <3>1, <3>2 DEF ReadAnswers, FaultsSurface, Succeeded, Failed
  <2>. QED BY <1>10, <2>1, <2>2
<1>. QED BY <1>8, <1>9, <1>11 DEF ReadInv, Got

LEMMA ReadStep == ReadInv /\ (ReadsNext \/ FactChanges \/ UNCHANGED readVars) => ReadInv'
<1>. USE Zenon
<1>. SUFFICES ASSUME ReadInv, ReadsNext \/ FactChanges \/ UNCHANGED readVars PROVE ReadInv'
  BY SMT
<1>1. CASE Aggregate
  <2>1. q.op = "balances" \/ q.op = "metadata"
    BY <1>1 DEF Aggregate, Reading
  <2>. QED BY <1>1, <2>1, BalancesStep, RepliesStep
<1>2. CASE \/ PreviewCall \/ PreviewGas \/ PreviewAccessList
           \/ \E fault \in Faults : PreviewExtraFails(fault)
  <2>1. q.op = "preview"
    BY <1>2 DEF PreviewCall, PreviewGas, PreviewAccessList, PreviewExtraFails, Reading
  <2>. QED BY <1>2, <2>1, PreviewStep
<1>3. CASE Single \/ Resolve \/ Text \/ ClaimedName \/ ForwardVerify \/ FeedDecimals \/ LatestRound
  BY <1>3, RepliesStep
<1>4. CASE \E fault \in Faults : ReadFails(fault)
  BY <1>4, ReadFailsStep
<1>5. CASE FactChanges
  BY <1>5, FactChangesStep
<1>6. CASE UNCHANGED readVars
  <2>1. q' = q /\ answer' = answer /\ world' = world /\ seen' = seen /\ met' = met
    BY <1>6 DEF readVars
  <2>2. Asked' /\ Quiet'
    BY <2>1 DEF ReadInv, Asked, WorldInv, Quiet, Answered
  <2>3. Got'
    BY <2>1 DEF ReadInv, Got, Answered, BalancesGot, ReverseGot, PreviewGot, GasTrue
  <2>4. BalancesAligned' /\ FaultsSurface'
    BY <2>1 DEF ReadInv, ReadAnswers, BalancesAligned, FaultsSurface, Answered, Succeeded, Failed
  <2>5. AnswersWereTrue'
    BY <2>1 DEF ReadInv, ReadAnswers, AnswersWereTrue, Is, NameTrue, PriceTrue, PreviewTrue, Answered, Succeeded
  <2>. QED BY <2>2, <2>3, <2>4, <2>5 DEF ReadInv, ReadAnswers
<1>. QED BY <1>1, <1>2, <1>3, <1>4, <1>5, <1>6 DEF ReadsNext

-----------------------------------------------------------------------------
\* Theorems about the read-only side.

\* With callers refreshing and building at the same time, the registry is at
\* any moment one whole catalog with a chain in it, and a transport races at
\* least one endpoint and no more than it has (transport/chains.rs:63-96,
\* build.rs hedge and build).
THEOREM RegistryStaysWhole == QueriesSpec => []RegistryWhole
<1>1. QueriesInit => RegistryInv
  BY RegistryInit, Zenon DEF QueriesInit
<1>2. RegistryInv /\ [QueriesNext]_queryVars => RegistryInv'
  BY RegistryStep, Zenon DEF QueriesNext, queryVars, OnRead
<1>3. RegistryInv => RegistryWhole
  <2>. SUFFICES ASSUME RegistryInv PROVE RegistryWhole
    OBVIOUS
  <2>1. PICK body \in Published \cup {Embedded} : DOMAIN body # {} /\ registry = Parse(body)
    BY Zenon DEF RegistryInv
  <2>2. DOMAIN registry = DOMAIN body
    BY <2>1 DEF Parse
  <2>. QED BY <2>1, <2>2, Zenon DEF RegistryInv, BuiltInv, RegistryWhole
<1>. QED BY <1>1, <1>2, <1>3, PTL DEF QueriesSpec

\* The three topics of the read-only side, each with its invariant.
QueryInv ==
    \/ topic = "discover" /\ ScanInv
    \/ topic = "read" /\ ReadInv
    \/ topic = "endpoints" /\ q = NoRead /\ answer = Unanswered

LEMMA QueryInvHolds == QueriesSpec => []QueryInv
<1>1. QueriesInit => QueryInv
  BY ScanBegins, ReadBegins, Zenon DEF QueriesInit, QueryInv, Begin
<1>2. QueryInv /\ [QueriesNext]_queryVars => QueryInv'
  <2>. SUFFICES ASSUME QueryInv, [QueriesNext]_queryVars PROVE QueryInv'
    BY Zenon
  <2>1. CASE topic = "discover" /\ ScanInv
    <3>1. (DiscoveryNext \/ UNCHANGED readVars) /\ topic' = topic
      BY <2>1 DEF QueriesNext, queryVars, OnRead
    <3>. QED BY <2>1, <3>1, ScanStep, Zenon DEF QueryInv
  <2>2. CASE topic = "read" /\ ReadInv
    <3>1. (ReadsNext \/ FactChanges \/ UNCHANGED readVars) /\ topic' = topic
      BY <2>2 DEF QueriesNext, queryVars, OnRead
    <3>. QED BY <2>2, <3>1, ReadStep, Zenon DEF QueryInv
  <2>3. CASE topic = "endpoints" /\ q = NoRead /\ answer = Unanswered
    <3>1. UNCHANGED readVars /\ topic' = topic
      BY <2>3 DEF QueriesNext, queryVars
    <3>. QED BY <2>3, <3>1, Zenon DEF QueryInv, readVars
  <2>. QED BY <2>1, <2>2, <2>3, Zenon DEF QueryInv
<1>. QED BY <1>1, <1>2, PTL DEF QueriesSpec

LEMMA QueryInvAnswers ==
    ASSUME QueryInv
    PROVE  DiscoverySound /\ BalancesAligned /\ AnswersWereTrue /\ FaultsSurface
<1>. USE Zenon
<1>1. CASE ScanInv
  <2>1. DiscoverySound /\ FaultsSurface /\ q.op = "discover"
    BY <1>1, ScanAnswers
  <2>2. \A op \in {"balances", "reverse", "price", "preview", "resolve"} : q.op # op
    BY SMT, <2>1
  <2>. QED BY <2>1, <2>2 DEF BalancesAligned, AnswersWereTrue, Is
<1>2. CASE ReadInv
  <2>1. q.op # "discover"
    <3>1. PICK r \in Requests : \E g : q = [op |-> r.op, req |-> r, got |-> g]
      BY <1>2 DEF ReadInv, Asked
    <3>2. q.op = r.op
      BY SMT, <3>1
    <3>3. r.op # "discover"
      BY SMT, ReadsAssumption
    <3>. QED BY <3>2, <3>3
  <2>. QED BY <1>2, <2>1 DEF ReadInv, ReadAnswers, DiscoverySound
<1>3. CASE q = NoRead /\ answer = Unanswered
  <2>1. ~Succeeded /\ ~Failed /\ q.op = "none"
    BY <1>3 DEF Succeeded, Failed, Answered, NoRead
  <2>2. q.op # "balances"
    BY SMT, <2>1
  <2>. QED BY <2>1, <2>2 DEF DiscoverySound, BalancesAligned, AnswersWereTrue, Is, FaultsSurface
<1>. QED BY <1>1, <1>2, <1>3 DEF QueryInv

\* However many chains, schemes and windows a scan has, with accounts coming
\* alive and chains failing under it: discover reports only accounts that are
\* used and before a gap, all that were when it began unless it says partial,
\* and a gap ended every scheme unless it says hit_max_index
\* (adapters/accounts.rs discover).
THEOREM DiscoveryIsSound == QueriesSpec => []DiscoverySound
BY QueryInvHolds, QueryInvAnswers, PTL

\* balances' answer has the tokens asked for, in their order, each with what
\* its own balanceOf gave while the call ran, in whatever batches the aggregate
\* is split (adapters/read.rs balances, adapters/multicall.rs).
THEOREM BalancesStayAligned == QueriesSpec => []BalancesAligned
BY QueryInvHolds, QueryInvAnswers, PTL

\* A name, a price, a preview or an address that a read answers with was true
\* of the chain at some moment while the read ran (adapters/ens.rs,
\* adapters/pricing/chainlink.rs to_price, core/wallet/preview.rs dry_run).
THEOREM AnswersTrue == QueriesSpec => []AnswersWereTrue
BY QueryInvHolds, QueryInvAnswers, PTL

\* No read takes a failed RPC for an empty answer, and an error is Retryable
\* exactly when the transport failed for a moment (error.rs kind, ens.rs
\* none_or_err, multicall.rs contract_error).
THEOREM FaultsAlwaysSurface == QueriesSpec => []FaultsSurface
BY QueryInvHolds, QueryInvAnswers, PTL

-----------------------------------------------------------------------------
\* The durable stores.

\* What a client's call may be.
FitCall(x) == x = Idle \/ (x.at \in {"called", "done"} /\ x.req \in Request)

\* The port's variables have their types, and a call keeps its request.
BaseInv ==
    /\ nonces \in [Accounts -> Rows]
    /\ handles \in [Ids -> {"absent", "live", "terminal"}]
    /\ calls = [c \in Clients |-> calls[c]]
    /\ \A c \in Clients : FitCall(calls[c])

\* An open Postgres transaction holds its account's lock, and once its row was
\* checked the compare-and-swap still wins.
PgInv ==
    /\ lock \in [Accounts -> SUBSET Clients]
    /\ tx \in [Clients -> {"none", "locked", "checked"}]
    /\ \A c \in Clients :
          /\ tx[c] # "none" => /\ backend = "postgres" /\ Running(c, "cas")
                               /\ lock[Acc(c)] = Held(c)
          /\ tx[c] = "checked" => Wins(Req(c))

\* What put_handle makes of the tables.
StoredTx(r)   == [handles EXCEPT ![r.id] = IF r.terminal THEN "terminal" ELSE "live"]
StoredLive(r) == IF r.terminal THEN index \ {r.id} ELSE index \cup {r.id}

\* What an open write transaction has staged, by its step.
Staged(r, at) ==
    CASE at = "begun" -> staged = Tables
      [] at = "tx" -> r.op = "put" /\ staged = [nonces |-> nonces, tx |-> StoredTx(r), pending |-> index]
      [] at = "ready" ->
            \/ /\ r.op = "cas" /\ Wins(r)
               /\ staged = [nonces |-> Written(r), tx |-> handles, pending |-> index]
            \/ /\ r.op = "put"
               /\ staged = [nonces |-> nonces, tx |-> StoredTx(r), pending |-> StoredLive(r)]

WriterIs(c, at) ==
    /\ In(c, at) /\ backend = "redb"
    /\ calls[c].at = "called" /\ Req(c).op \in {"cas", "put"}
    /\ Staged(Req(c), at)

RedbInv ==
    /\ writer = NoTx \/ \E c \in Clients, at \in {"begun", "tx", "ready"} : WriterIs(c, at)
    /\ IndexExact

SInv == BaseInv /\ PgInv /\ RedbInv

\* A step of the port, as ImplementsPort allows it.
PortStep == [Next \/ (Failures /\ UNCHANGED <<nonces, handles>>)]_vars

\* The stores start empty.
LEMMA SInvInit == StoresInit => Init /\ SInv
<1> SUFFICES ASSUME StoresInit PROVE Init /\ SInv
  OBVIOUS
<1>1. Init
  BY DEF StoresInit, PgInit
<1>2. BaseInv
  <2>1. NoRow \in Rows
    BY DEF NoRow, Rows
  <2>2. nonces \in [Accounts -> Rows]
    BY <1>1, <2>1 DEF Init
  <2>3. handles \in [Ids -> {"absent", "live", "terminal"}]
    BY <1>1 DEF Init
  <2>4. calls = [c \in Clients |-> Idle]
    BY <1>1 DEF Init
  <2>5. \A c \in Clients : calls[c] = Idle
    BY Zenon, <2>4
  <2>6. [c \in Clients |-> calls[c]] = [c \in Clients |-> Idle]
    BY <2>5
  <2>7. calls = [c \in Clients |-> calls[c]]
    BY Zenon, <2>4, <2>6
  <2>8. \A c \in Clients : FitCall(calls[c])
    BY Zenon, <2>5 DEF FitCall
  <2> QED BY <2>2, <2>3, <2>7, <2>8 DEF BaseInv
<1>3. PgInv
  <2>1. lock \in [Accounts -> SUBSET Clients] /\ \A c \in Clients : tx[c] = "none"
    BY DEF StoresInit, PgInit, Free
  <2>2. tx \in [Clients -> {"none", "locked", "checked"}]
    BY DEF StoresInit, PgInit
  <2> QED BY <2>1, <2>2 DEF PgInv
<1>4. RedbInv
  BY <1>1 DEF StoresInit, RedbInit, Init, RedbInv, IndexExact
<1> QED BY <1>1, <1>2, <1>3, <1>4 DEF SInv

LEMMA IdleIs == Idle.at # "called" /\ Idle.at # "done"
BY DEF Idle

\* A call under way or answered keeps its request, and its account is one.
LEMMA KeepsRequest ==
    ASSUME SInv, NEW c \in Clients, calls[c].at = "called" \/ calls[c].at = "done"
    PROVE  Req(c) \in Request /\ Acc(c) \in Accounts /\ calls[c] # Idle
<1>1. calls[c] # Idle
  BY Zenon, IdleIs
<1>2. Req(c) \in Request
  BY Zenon, <1>1 DEF SInv, BaseInv, FitCall, Req
<1>3. \A r \in Request : r.account \in Accounts
  BY DEF Request
<1> QED BY Zenon, <1>1, <1>2, <1>3 DEF Acc

LEMMA DoneFits ==
    ASSUME NEW r \in Request, NEW a
    PROVE  FitCall(Done(r, a))
<1>1. Done(r, a).at = "done" /\ Done(r, a).req = r
  BY DEF Done
<1> QED BY Zenon, <1>1 DEF FitCall

\* A winning compare-and-swap leaves rows of the right type, whose fence is no
\* lower.
LEMMA WrittenRows ==
    ASSUME BaseInv, NEW r \in Request
    PROVE  /\ Written(r) \in [Accounts -> Rows]
           /\ \A a \in Accounts \ {r.account} : Written(r)[a] = nonces[a]
           /\ Wins(r) => \A a \in Accounts : Written(r)[a].fence >= nonces[a].fence
<1>0. r.account \in Accounts /\ r.expected \in 0 .. MaxVersion /\ r.fence \in Fences
  BY DEF Request
<1>1. r.account \in Accounts /\ r.expected + 1 \in Nat /\ r.fence \in Nat
  <2>1. Fences \subseteq Nat /\ MaxVersion \in Nat
    BY StateStoreAssumption
  <2>2. r.fence \in Nat
    BY Zenon, <1>0, <2>1
  <2>3. r.expected + 1 \in Nat
    BY <1>0, <2>1
  <2> QED BY <1>0, <2>2, <2>3
<1>2. [version |-> r.expected + 1, fence |-> r.fence] \in Rows
  BY Zenon, <1>1 DEF Rows
<1>3. Written(r) \in [Accounts -> Rows]
  <2> DEFINE row == [version |-> r.expected + 1, fence |-> r.fence]
  <2> HIDE DEF row
  <2>1. [nonces EXCEPT ![r.account] = row] \in [Accounts -> Rows]
    BY Zenon, <1>2 DEF BaseInv, row
  <2> QED BY <2>1 DEF Written, row
<1>4. /\ \A a \in Accounts \ {r.account} : Written(r)[a] = nonces[a]
      /\ Written(r)[r.account] = [version |-> r.expected + 1, fence |-> r.fence]
  BY <1>1 DEF Written, BaseInv
<1>5. \A a \in Accounts : nonces[a].fence \in Nat
  BY DEF BaseInv, Rows
<1>6. Wins(r) => r.fence >= nonces[r.account].fence
  BY <1>1, <1>5 DEF Wins, Fenced
<1> QED BY <1>3, <1>4, <1>5, <1>6

\* A call of a client without a transaction starts, ends or fails.
LEMMA CallStep ==
    ASSUME SInv, NEW c \in Clients, NEW x,
           calls' = [calls EXCEPT ![c] = x],
           FitCall(x),
           tx[c] = "none", writer = NoTx \/ writer.client # c,
           UNCHANGED <<nonces, handles, lock, tx, index, staged, writer, backend>>
    PROVE  SInv'
<1>1. /\ calls' = [d \in Clients |-> calls'[d]]
      /\ \A d \in Clients \ {c} : calls'[d] = calls[d]
      /\ calls'[c] = x
  BY DEF SInv, BaseInv
<1>2. BaseInv'
  BY <1>1 DEF SInv, BaseInv
<1>3. PgInv'
  BY Zenon, <1>1 DEF SInv, PgInv, Running, Acc, Req, Wins, Fenced, Matches
<1>4. RedbInv'
  <2>1. CASE writer = NoTx
    BY Zenon, <2>1 DEF SInv, RedbInv, IndexExact
  <2>2. CASE writer # NoTx
    <3>1. PICK d \in Clients, at \in {"begun", "tx", "ready"} : WriterIs(d, at)
      BY Zenon, <2>2 DEF SInv, RedbInv
    <3>2. d # c
      BY <2>2, <3>1 DEF WriterIs, In
    <3>3. WriterIs(d, at)'
      BY Zenon, <1>1, <3>1, <3>2 DEF WriterIs, In, Req, Staged, StoredTx, StoredLive, Tables, Wins,
                              Fenced, Matches, Written
    <3> QED BY Zenon, <3>3 DEF SInv, RedbInv, IndexExact
  <2> QED BY Zenon, <2>1, <2>2
<1> QED BY <1>2, <1>3, <1>4 DEF SInv

-----------------------------------------------------------------------------
(* Postgres *)

\* With Postgres no redb transaction is ever open.
LEMMA PgAlone ==
    ASSUME SInv, backend = "postgres", UNCHANGED <<writer, backend>>
    PROVE  writer = NoTx /\ RedbInv'
<1>1. writer = NoTx
  BY DEF SInv, RedbInv, WriterIs
<1> QED BY <1>1 DEF RedbInv, IndexExact

\* A compare-and-swap ends: it lost, its connection did, or it commits.  The
\* lock keeps other accounts' transactions apart from this one's row.
LEMMA PgEnds ==
    ASSUME SInv, NEW c \in Clients, NEW a, tx[c] # "none",
           Finish(c, a), EndTx(c), UNCHANGED <<handles, index, staged, writer, backend>>,
           nonces' = nonces \/ nonces' = Written(Req(c))
    PROVE  SInv'
<1>1. backend = "postgres" /\ Running(c, "cas") /\ lock[Acc(c)] = Held(c)
  BY DEF SInv, PgInv
<1>2. Req(c) \in Request /\ Acc(c) \in Accounts /\ calls[c] # Idle
  BY Zenon, <1>1, KeepsRequest DEF Running
<1>3. /\ calls' = [d \in Clients |-> calls'[d]]
      /\ \A d \in Clients \ {c} : calls'[d] = calls[d]
      /\ calls'[c] = Done(Req(c), a)
  BY DEF SInv, BaseInv, Finish
<1>4. nonces' \in [Accounts -> Rows] /\ \A b \in Accounts \ {Acc(c)} : nonces'[b] = nonces[b]
  BY <1>2, WrittenRows DEF SInv, BaseInv, Acc
<1>5. BaseInv'
  <2>1. FitCall(calls'[c])
    BY <1>2, <1>3 DEF Done, FitCall
  <2> QED BY <1>3, <1>4, <2>1 DEF SInv, BaseInv
<1>6. PgInv'
  <2>1. /\ lock' \in [Accounts -> SUBSET Clients]
        /\ tx' \in [Clients -> {"none", "locked", "checked"}]
        /\ tx'[c] = "none" /\ \A d \in Clients \ {c} : tx'[d] = tx[d]
        /\ \A b \in Accounts \ {Acc(c)} : lock'[b] = lock[b]
    BY Zenon DEF SInv, PgInv, EndTx, Free
  <2>2. ASSUME NEW d \in Clients, d # c, tx[d] # "none"
        PROVE  /\ Acc(d) \in Accounts \ {Acc(c)} /\ Req(d)' = Req(d) /\ Acc(d)' = Acc(d)
               /\ Running(d, "cas") /\ Running(d, "cas")' /\ lock[Acc(d)] = Held(d)
    <3>1. Running(d, "cas") /\ lock[Acc(d)] = Held(d)
      BY <2>2 DEF SInv, PgInv
    <3>2. Acc(d) # Acc(c)
      BY Zenon, <1>1, <2>2, <3>1 DEF Held
    <3>3. Acc(d) \in Accounts
      BY Zenon, <3>1, KeepsRequest DEF Running
    <3>4. calls'[d] = calls[d]
      BY <1>3, <2>2
    <3> QED BY Zenon, <3>1, <3>2, <3>3, <3>4 DEF Running, Req, Acc
  <2>3. ASSUME NEW d \in Clients, d # c, tx[d] = "checked"
        PROVE  Wins(Req(d))'
    <3>1. Wins(Req(d)) /\ Req(d)' = Req(d) /\ nonces'[Req(d).account] = nonces[Req(d).account]
      BY Zenon, <1>4, <2>2, <2>3 DEF SInv, PgInv, Acc
    <3> QED BY Zenon, <3>1 DEF Wins, Fenced, Matches
  <2> QED BY Zenon, <1>1, <2>1, <2>2, <2>3 DEF PgInv, Acc
<1>7. RedbInv'
  BY <1>1, PgAlone
<1> QED BY <1>5, <1>6, <1>7 DEF SInv

\* A step of the Postgres store is a step of the port and keeps the invariant.
LEMMA PgStep ==
    ASSUME SInv, NEW c \in Clients, backend = "postgres",
           UNCHANGED <<index, staged, writer, backend>>,
           \/ PgInvoke(c) \/ CasLock(c) \/ CasRead(c) \/ CasCommit(c)
           \/ ConnectionLost(c) \/ Statement(c) \/ AnswerLost(c) \/ PgReturn(c)
    PROVE  SInv' /\ PortStep
<1>0. writer = NoTx /\ RedbInv'
  BY PgAlone
<1>1. CASE PgInvoke(c)
  <2>1. calls[c] = Idle /\ tx[c] = "none"
    <3>1. calls[c] = Idle
      BY Zenon, <1>1 DEF PgInvoke, Invoke
    <3>. QED BY Zenon, <3>1, IdleIs DEF SInv, PgInv, Running
  <2>2. PICK r \in Request : calls' = [calls EXCEPT ![c] = Called(r)]
    BY Zenon, <1>1 DEF PgInvoke, Invoke
  <2>3. FitCall(Called(r))
    BY DEF Called, FitCall
  <2>4. UNCHANGED <<nonces, handles, lock, tx>>
    BY Zenon, <1>1 DEF PgInvoke, Invoke
  <2>5. SInv'
    BY Zenon, <1>0, <2>1, <2>2, <2>3, <2>4, CallStep
  <2> QED BY <1>1, <2>5 DEF PgInvoke, PortStep, Next
<1>2. CASE CasLock(c)
  <2>1. Running(c, "cas") /\ tx[c] = "none" /\ lock[Acc(c)] = {}
    BY <1>2 DEF CasLock, Free
  <2>2. Acc(c) \in Accounts
    BY Zenon, <2>1, KeepsRequest DEF Running
  <2>3. UNCHANGED <<nonces, handles, calls>>
    BY <1>2 DEF CasLock
  <2>4. /\ lock' \in [Accounts -> SUBSET Clients]
        /\ tx' \in [Clients -> {"none", "locked", "checked"}]
        /\ tx'[c] = "locked" /\ \A d \in Clients \ {c} : tx'[d] = tx[d]
        /\ lock'[Acc(c)] = Held(c) /\ \A b \in Accounts \ {Acc(c)} : lock'[b] = lock[b]
    BY <1>2, <2>2 DEF CasLock, SInv, PgInv, Held
  <2>5. ASSUME NEW d \in Clients, d # c, tx[d] # "none"
        PROVE  Running(d, "cas") /\ lock'[Acc(d)] = Held(d)
    <3>1. Running(d, "cas") /\ lock[Acc(d)] = Held(d)
      BY <2>5 DEF SInv, PgInv
    <3>2. Acc(d) \in Accounts
      BY Zenon, <3>1, KeepsRequest DEF Running
    <3>3. Acc(d) # Acc(c)
      BY Zenon, <2>1, <3>1 DEF Held
    <3> QED BY Zenon, <2>4, <3>1, <3>2, <3>3
  <2>6. PgInv'
    <3>1. \A d \in Clients : /\ Running(d, "cas") => Running(d, "cas")'
                            /\ Acc(d)' = Acc(d) /\ (Wins(Req(d)) => Wins(Req(d))')
      BY Zenon, <2>3 DEF Running, Acc, Req, Wins, Fenced, Matches
    <3>2. ASSUME NEW d \in Clients, tx'[d] # "none"
          PROVE  Running(d, "cas")' /\ lock'[Acc(d)'] = Held(d)
      <4>1. CASE d = c
        BY Zenon, <2>1, <2>4, <3>1, <4>1
      <4>2. CASE d # c
        BY Zenon, <2>4, <2>5, <3>1, <3>2, <4>2
      <4> QED BY Zenon, <4>1, <4>2
    <3>3. ASSUME NEW d \in Clients, tx'[d] = "checked"
          PROVE  Wins(Req(d))'
      <4>1. d # c /\ tx[d] = "checked"
        BY Zenon, <2>4, <3>3
      <4> QED BY Zenon, <3>1, <4>1 DEF SInv, PgInv
    <3> QED BY Zenon, <2>4, <3>2, <3>3 DEF PgInv, Held
  <2>7. BaseInv'
    BY <2>3 DEF SInv, BaseInv
  <2> QED BY <1>0, <2>3, <2>6, <2>7 DEF SInv, PortStep, vars
<1>3. CASE CasRead(c) /\ Wins(Req(c))
  <2>1. tx' = [tx EXCEPT ![c] = "checked"] /\ UNCHANGED <<nonces, handles, calls, lock>>
    BY <1>3 DEF CasRead
  <2>2. tx[c] = "locked"
    BY <1>3 DEF CasRead
  <2>3. /\ tx' \in [Clients -> {"none", "locked", "checked"}]
        /\ tx'[c] = "checked" /\ \A d \in Clients \ {c} : tx'[d] = tx[d]
    BY <2>1 DEF SInv, PgInv
  <2>4. PgInv'
    BY Zenon, <1>3, <2>1, <2>2, <2>3 DEF SInv, PgInv, Running, Acc, Req, Wins, Fenced, Matches
  <2>5. BaseInv'
    BY <2>1 DEF SInv, BaseInv
  <2> QED BY <1>0, <2>1, <2>4, <2>5 DEF SInv, PortStep, vars
<1>4. CASE CasRead(c) /\ ~Wins(Req(c))
  <2>1. /\ tx[c] # "none" /\ Finish(c, CasAnswer(Req(c))) /\ EndTx(c)
        /\ UNCHANGED <<nonces, handles>>
    BY Zenon, <1>4 DEF CasRead
  <2>2. SInv'
    BY <2>1, PgEnds
  <2>3. Running(c, "cas")
    BY <2>1 DEF SInv, PgInv
  <2>4. Effect(c)
    BY <1>4, <2>1, <2>3 DEF Effect, Running, Req, CasNonceState, AnswerTo
  <2> QED BY <2>2, <2>4 DEF PortStep, Next
<1>5. CASE CasCommit(c)
  <2>1. /\ tx[c] = "checked" /\ Finish(c, Answer("true", 0, {})) /\ EndTx(c)
        /\ nonces' = Written(Req(c)) /\ UNCHANGED handles
    BY <1>5 DEF CasCommit
  <2>2. SInv'
    BY <2>1, PgEnds
  <2>3. Running(c, "cas") /\ Wins(Req(c))
    BY <2>1 DEF SInv, PgInv
  <2>4. CasAnswer(Req(c)) = Answer("true", 0, {})
    BY <2>3 DEF CasAnswer, Wins
  <2>5. Effect(c)
    BY <2>1, <2>3, <2>4 DEF Effect, Running, Req, CasNonceState, AnswerTo
  <2> QED BY <2>2, <2>5 DEF PortStep, Next
<1>6. CASE ConnectionLost(c)
  <2>1. tx[c] # "none" /\ Finish(c, Error) /\ EndTx(c) /\ UNCHANGED <<nonces, handles>>
    BY <1>6 DEF ConnectionLost
  <2>2. SInv'
    BY <2>1, PgEnds
  <2>3. Fail(c)
    BY Zenon, <2>1 DEF SInv, PgInv, Running, Fail
  <2> QED BY <2>2, <2>3 DEF PortStep, Next
<1>7. CASE Statement(c)
  <2>1. /\ calls[c].at = "called" /\ Req(c).op # "cas" /\ Finish(c, AnswerTo(Req(c)))
        /\ UNCHANGED <<lock, tx>>
    BY Zenon, <1>7 DEF Statement
  <2>2. tx[c] = "none" /\ Req(c) \in Request
    <3>1. tx[c] = "none"
      BY Zenon, <2>1 DEF SInv, PgInv, Running
    <3> QED BY Zenon, <2>1, <3>1, KeepsRequest
  <2>3. CASE Req(c).op = "put"
    <3>1. Upsert(Req(c))
      BY Zenon, <1>7, <2>3 DEF Statement
    <3>2. Effect(c)
      BY Zenon, <2>1, <2>3, <3>1 DEF Effect, Req, PutHandle, Upsert
    <3>3. /\ calls' = [d \in Clients |-> calls'[d]]
          /\ \A d \in Clients \ {c} : calls'[d] = calls[d]
          /\ calls'[c] = Done(Req(c), AnswerTo(Req(c)))
      BY <2>1 DEF SInv, BaseInv, Finish
    <3>4. handles' \in [Ids -> {"absent", "live", "terminal"}] /\ UNCHANGED nonces
      BY Zenon, <3>1 DEF SInv, BaseInv, Upsert
    <3>5. FitCall(calls'[c])
      BY <2>2, <3>3 DEF Done, FitCall
    <3>6. BaseInv'
      BY <3>3, <3>4, <3>5 DEF SInv, BaseInv
    <3>7. PgInv'
      <4>1. ASSUME NEW d \in Clients, tx[d] # "none"
            PROVE  /\ Running(d, "cas") => Running(d, "cas")'
                   /\ Acc(d)' = Acc(d) /\ (Wins(Req(d)) => Wins(Req(d))')
        <5>1. calls'[d] = calls[d]
          BY Zenon, <2>2, <3>3, <4>1
        <5> QED BY Zenon, <3>4, <5>1 DEF Running, Acc, Req, Wins, Fenced, Matches
      <4>2. "checked" # "none"
        OBVIOUS
      <4> QED BY Zenon, <2>1, <4>1, <4>2 DEF SInv, PgInv, Held
    <3> QED BY <1>0, <3>2, <3>6, <3>7 DEF SInv, PortStep, Next
  <2>4. CASE Req(c).op # "put"
    <3>1. UNCHANGED <<nonces, handles>>
      BY Zenon, <1>7, <2>4 DEF Statement
    <3>2. FitCall(Done(Req(c), AnswerTo(Req(c))))
      BY <2>2 DEF Done, FitCall
    <3>3. calls' = [calls EXCEPT ![c] = Done(Req(c), AnswerTo(Req(c)))]
      BY <2>1 DEF Finish
    <3>4. SInv'
      BY Zenon, <1>0, <2>1, <2>2, <3>1, <3>2, <3>3, CallStep
    <3>5. Req(c).op \in {"load", "pending", "handle"}
      BY Zenon, <2>1, <2>2, <2>4, StateStoreAssumption DEF Request
    <3>6. Effect(c)
      BY Zenon, <2>1, <3>1, <3>5 DEF Effect, Req, LoadNonceState, PendingHandles, Handle
    <3> QED BY <3>4, <3>6 DEF PortStep, Next
  <2> QED BY <2>3, <2>4
<1>8. CASE AnswerLost(c)
  <2>1. /\ calls[c].at \in {"called", "done"} /\ Finish(c, Error)
        /\ UNCHANGED <<nonces, handles, lock, tx>>
    BY Zenon, <1>8 DEF AnswerLost
  <2>2. tx[c] = "none" /\ Req(c) \in Request
    <3>1. (calls[c].at = "called" /\ tx[c] = "none") \/ calls[c].at = "done"
      BY Zenon, <1>8 DEF AnswerLost
    <3>2. "done" # "called"
      OBVIOUS
    <3>3. tx[c] = "none"
      BY Zenon, <3>1, <3>2 DEF SInv, PgInv, Running
    <3> QED BY Zenon, <3>1, <3>3, KeepsRequest
  <2>3. FitCall(Done(Req(c), Error))
    BY <2>2 DEF Done, FitCall
  <2>4. SInv'
    BY Zenon, <1>0, <2>1, <2>2, <2>3, CallStep DEF Finish
  <2>5. Fail(c)
    BY Zenon, <2>1 DEF Fail
  <2> QED BY <2>4, <2>5 DEF PortStep, Next
<1>9. CASE PgReturn(c)
  <2>1. Return(c) /\ UNCHANGED <<lock, tx>>
    BY <1>9 DEF PgReturn
  <2>2. calls[c].at = "done" /\ calls' = [calls EXCEPT ![c] = Idle] /\ UNCHANGED <<nonces, handles>>
    BY <2>1 DEF Return
  <2>3. FitCall(Idle)
    BY DEF FitCall
  <2>4. tx[c] = "none"
    BY <2>2 DEF SInv, PgInv, Running
  <2>5. SInv'
    BY Zenon, <1>0, <2>1, <2>2, <2>3, <2>4, CallStep
  <2> QED BY <2>1, <2>5 DEF PortStep, Next
<1> QED BY <1>1, <1>2, <1>3, <1>4, <1>5, <1>6, <1>7, <1>8, <1>9

-----------------------------------------------------------------------------
(* redb *)

\* With redb no Postgres transaction is ever open.
LEMMA RedbAlone ==
    ASSUME SInv, backend = "redb", UNCHANGED <<lock, tx, backend>>
    PROVE  (\A c \in Clients : tx[c] = "none") /\ PgInv'
<1>1. \A c \in Clients : tx[c] = "none"
  BY DEF SInv, PgInv
<1> QED BY <1>1 DEF SInv, PgInv

\* The writer's call is the only one that can end a write transaction.
LEMMA WriterOf ==
    ASSUME SInv, NEW c, writer # NoTx, writer.client = c
    PROVE  \E at \in {"begun", "tx", "ready"} : c \in Clients /\ WriterIs(c, at)
<1>1. PICK d \in Clients, at \in {"begun", "tx", "ready"} : WriterIs(d, at)
  BY DEF SInv, RedbInv
<1>2. d = c
  BY Zenon, <1>1 DEF WriterIs, In
<1> QED BY <1>1, <1>2

\* A write transaction ends without a trace, or with tables that agree.
LEMMA RedbEnds ==
    ASSUME SInv, backend = "redb", NEW c \in Clients, NEW a, calls[c].at = "called",
           Finish(c, a), CloseTx, UNCHANGED <<lock, tx, backend>>,
           nonces' \in [Accounts -> Rows],
           handles' \in [Ids -> {"absent", "live", "terminal"}],
           IndexExact'
    PROVE  SInv'
<1>1. Req(c) \in Request
  BY Zenon, KeepsRequest
<1>2. /\ calls' = [d \in Clients |-> calls'[d]]
      /\ \A d \in Clients \ {c} : calls'[d] = calls[d]
      /\ calls'[c] = Done(Req(c), a)
  BY DEF SInv, BaseInv, Finish
<1>3. FitCall(calls'[c])
  BY <1>1, <1>2 DEF Done, FitCall
<1>4. BaseInv'
  BY <1>2, <1>3 DEF SInv, BaseInv
<1>5. PgInv'
  BY RedbAlone
<1>6. RedbInv'
  BY Zenon DEF RedbInv, CloseTx
<1> QED BY <1>4, <1>5, <1>6 DEF SInv

\* What put_handle writes keeps table and index in agreement.
LEMMA PutAgrees ==
    ASSUME SInv, backend = "redb", NEW r \in Request
    PROVE  /\ StoredTx(r) \in [Ids -> {"absent", "live", "terminal"}]
           /\ StoredLive(r) = {i \in Ids : StoredTx(r)[i] = "live"}
<1>1. index = {i \in Ids : handles[i] = "live"} /\ r.id \in Ids
  BY DEF SInv, RedbInv, IndexExact, Request
<1>2. StoredTx(r) \in [Ids -> {"absent", "live", "terminal"}]
  BY Zenon DEF StoredTx, SInv, BaseInv
<1>3. /\ \A i \in Ids \ {r.id} : StoredTx(r)[i] = handles[i]
      /\ StoredTx(r)[r.id] = IF r.terminal THEN "terminal" ELSE "live"
  BY <1>1 DEF StoredTx, SInv, BaseInv
<1>4. ASSUME NEW i PROVE i \in StoredLive(r) <=> i \in Ids /\ StoredTx(r)[i] = "live"
  <2>1. CASE i = r.id
    BY <1>1, <1>3, <2>1 DEF StoredLive
  <2>2. CASE i # r.id
    BY Zenon, <1>1, <1>3, <2>2 DEF StoredLive
  <2> QED BY <2>1, <2>2
<1> QED BY <1>2, <1>4

\* A write transaction goes on: only its staged tables and its step change.
LEMMA WriterStep ==
    ASSUME SInv, backend = "redb", NEW c \in Clients, NEW at \in {"begun", "tx", "ready"},
           WriterIs(c, at)', UNCHANGED <<nonces, handles, calls, index, lock, tx, backend>>
    PROVE  SInv' /\ PortStep
<1>1. BaseInv'
  BY DEF SInv, BaseInv
<1>2. PgInv'
  BY RedbAlone
<1>3. RedbInv'
  BY DEF SInv, RedbInv, IndexExact
<1> QED BY <1>1, <1>2, <1>3 DEF SInv, PortStep, vars

\* begin_write takes the committed tables.
LEMMA BeginWriteStep ==
    ASSUME SInv, backend = "redb", NEW c \in Clients, BeginWrite(c), UNCHANGED <<lock, tx, backend>>
    PROVE  SInv' /\ PortStep
<1>1. /\ calls[c].at = "called" /\ Req(c).op \in {"cas", "put"}
      /\ staged' = Tables /\ writer' = [at |-> "begun", client |-> c]
      /\ UNCHANGED <<nonces, handles, calls, index>>
  BY Zenon DEF BeginWrite, Step
<1>2. Staged(Req(c), "begun")'
  BY <1>1 DEF Staged, Tables
<1>3. WriterIs(c, "begun")'
  BY Zenon, <1>1, <1>2 DEF WriterIs, In, Req
<1> QED BY Zenon, <1>1, <1>3, WriterStep

\* cas against the staged row: refused it ends, else it is ready to commit.
LEMMA CasCheckStep ==
    ASSUME SInv, backend = "redb", NEW c \in Clients, CasCheck(c), UNCHANGED <<lock, tx, backend>>
    PROVE  SInv' /\ PortStep
<1>1. In(c, "begun") /\ Req(c).op = "cas" /\ UNCHANGED <<nonces, handles, index>>
  BY DEF CasCheck
<1>2. WriterIs(c, "begun")
  BY Zenon, <1>1, WriterOf DEF In, NoTx, WriterIs
<1>3. calls[c].at = "called" /\ staged = [nonces |-> nonces, tx |-> handles, pending |-> index]
  BY <1>2 DEF WriterIs, Staged, Tables
<1>4. CASE Wins(Req(c))
  <2>1. /\ staged' = [staged EXCEPT !.nonces = Written(Req(c))]
        /\ writer' = [at |-> "ready", client |-> c] /\ UNCHANGED calls
    BY <1>4 DEF CasCheck, Step
  <2>2. staged' = [nonces |-> Written(Req(c)), tx |-> handles, pending |-> index]
    BY <1>3, <2>1
  <2>3. Wins(Req(c))' /\ Written(Req(c))' = Written(Req(c)) /\ Req(c)' = Req(c)
    BY <1>1, <1>4, <2>1 DEF Wins, Fenced, Matches, Written, Req
  <2>4. Staged(Req(c), "ready")'
    BY <1>1, <2>2, <2>3 DEF Staged
  <2>5. WriterIs(c, "ready")'
    BY <1>1, <1>3, <2>1, <2>3, <2>4 DEF WriterIs, In
  <2> QED BY <1>1, <2>1, <2>5, WriterStep
<1>5. CASE ~Wins(Req(c))
  <2>1. Finish(c, CasAnswer(Req(c))) /\ CloseTx
    BY <1>5 DEF CasCheck
  <2>2. /\ nonces' \in [Accounts -> Rows]
        /\ handles' \in [Ids -> {"absent", "live", "terminal"}] /\ IndexExact'
    BY <1>1 DEF SInv, BaseInv, RedbInv, IndexExact
  <2>3. SInv'
    BY Zenon, <1>3, <2>1, <2>2, RedbEnds
  <2>4. Effect(c)
    BY <1>1, <1>3, <1>5, <2>1 DEF Effect, Req, CasNonceState, AnswerTo
  <2> QED BY <2>3, <2>4 DEF PortStep, Next
<1> QED BY <1>4, <1>5

\* put_handle stages the handle, ...
LEMMA PutTxStep ==
    ASSUME SInv, backend = "redb", NEW c \in Clients, PutTx(c), UNCHANGED <<lock, tx, backend>>
    PROVE  SInv' /\ PortStep
<1>1. /\ In(c, "begun") /\ Req(c).op = "put"
      /\ staged' = [staged EXCEPT !.tx[Req(c).id] = IF Req(c).terminal THEN "terminal" ELSE "live"]
      /\ writer' = [at |-> "tx", client |-> c]
      /\ UNCHANGED <<nonces, handles, calls, index>>
  BY DEF PutTx, Step
<1>2. WriterIs(c, "begun")
  BY Zenon, <1>1, WriterOf DEF In, NoTx, WriterIs
<1>3. calls[c].at = "called" /\ staged = [nonces |-> nonces, tx |-> handles, pending |-> index]
  BY <1>2 DEF WriterIs, Staged, Tables
<1>4. staged' = [nonces |-> nonces, tx |-> StoredTx(Req(c)), pending |-> index]
  BY <1>1, <1>3 DEF StoredTx
<1>5. Req(c)' = Req(c) /\ StoredTx(Req(c))' = StoredTx(Req(c))
  BY <1>1 DEF StoredTx, Req
<1>6. Staged(Req(c), "tx")'
  BY Zenon, <1>1, <1>4, <1>5 DEF Staged
<1>7. WriterIs(c, "tx")'
  BY <1>1, <1>3, <1>5, <1>6 DEF WriterIs, In
<1> QED BY <1>1, <1>7, WriterStep

\* ... then its place in the index.
LEMMA PutPendingStep ==
    ASSUME SInv, backend = "redb", NEW c \in Clients, PutPending(c), UNCHANGED <<lock, tx, backend>>
    PROVE  SInv' /\ PortStep
<1>1. /\ In(c, "tx")
      /\ staged' = [staged EXCEPT !.pending =
                        IF Req(c).terminal THEN @ \ {Req(c).id} ELSE @ \cup {Req(c).id}]
      /\ writer' = [at |-> "ready", client |-> c]
      /\ UNCHANGED <<nonces, handles, calls, index>>
  BY DEF PutPending, Step
<1>2. WriterIs(c, "tx")
  BY Zenon, <1>1, WriterOf DEF In, NoTx, WriterIs
<1>3. /\ calls[c].at = "called" /\ Req(c).op = "put"
      /\ staged = [nonces |-> nonces, tx |-> StoredTx(Req(c)), pending |-> index]
  BY <1>2 DEF WriterIs, Staged
<1>4. staged' = [nonces |-> nonces, tx |-> StoredTx(Req(c)), pending |-> StoredLive(Req(c))]
  BY <1>1, <1>3 DEF StoredLive
<1>5. /\ Req(c)' = Req(c) /\ StoredTx(Req(c))' = StoredTx(Req(c))
      /\ StoredLive(Req(c))' = StoredLive(Req(c))
  BY <1>1 DEF StoredTx, StoredLive, Req
<1>6. Staged(Req(c), "ready")'
  BY <1>1, <1>3, <1>4, <1>5 DEF Staged
<1>7. WriterIs(c, "ready")'
  BY <1>1, <1>3, <1>5, <1>6 DEF WriterIs, In
<1> QED BY <1>1, <1>7, WriterStep

\* commit makes the staged tables the committed ones, all at once.
LEMMA CommitStep ==
    ASSUME SInv, backend = "redb", NEW c \in Clients, Commit(c), UNCHANGED <<lock, tx, backend>>
    PROVE  SInv' /\ PortStep
<1>1. /\ In(c, "ready") /\ CloseTx
      /\ nonces' = staged.nonces /\ handles' = staged.tx /\ index' = staged.pending
      /\ Finish(c, Answer(IF Req(c).op = "cas" THEN "true" ELSE "ok", 0, {}))
  BY DEF Commit
<1>2. WriterIs(c, "ready")
  BY Zenon, <1>1, WriterOf DEF In, NoTx, WriterIs
<1>3. calls[c].at = "called" /\ Req(c) \in Request
  BY Zenon, <1>2, KeepsRequest DEF WriterIs
<1>4. CASE Req(c).op = "cas"
  <2>1. Wins(Req(c)) /\ staged = [nonces |-> Written(Req(c)), tx |-> handles, pending |-> index]
    BY <1>2, <1>4 DEF WriterIs, Staged
  <2>2. nonces' = Written(Req(c)) /\ handles' = handles /\ index' = index
    BY <1>1, <2>1
  <2>3. /\ nonces' \in [Accounts -> Rows]
        /\ handles' \in [Ids -> {"absent", "live", "terminal"}] /\ IndexExact'
    BY Zenon, <1>3, <2>2, WrittenRows DEF SInv, BaseInv, RedbInv, IndexExact
  <2>4. SInv'
    BY Zenon, <1>1, <1>3, <2>3, RedbEnds
  <2>5. CasAnswer(Req(c)) = Answer("true", 0, {})
    BY <2>1 DEF CasAnswer, Wins
  <2>6. Effect(c)
    BY <1>1, <1>3, <1>4, <2>1, <2>2, <2>5 DEF Effect, Req, CasNonceState, AnswerTo
  <2> QED BY <2>4, <2>6 DEF PortStep, Next
<1>5. CASE Req(c).op = "put"
  <2>1. staged = [nonces |-> nonces, tx |-> StoredTx(Req(c)), pending |-> StoredLive(Req(c))]
    BY <1>2, <1>5 DEF WriterIs, Staged
  <2>2. nonces' = nonces /\ handles' = StoredTx(Req(c)) /\ index' = StoredLive(Req(c))
    BY <1>1, <2>1
  <2>3. /\ nonces' \in [Accounts -> Rows]
        /\ handles' \in [Ids -> {"absent", "live", "terminal"}] /\ IndexExact'
    BY <1>3, <2>2, PutAgrees DEF SInv, BaseInv, IndexExact
  <2>4. SInv'
    BY Zenon, <1>1, <1>3, <2>3, RedbEnds
  <2>5. Effect(c)
    BY <1>1, <1>3, <1>5, <2>2 DEF Effect, Req, PutHandle, StoredTx, AnswerTo
  <2> QED BY <2>4, <2>5 DEF PortStep, Next
<1> QED BY Zenon, <1>2, <1>4, <1>5 DEF WriterIs

\* An aborted transaction leaves nothing.
LEMMA AbortStep ==
    ASSUME SInv, backend = "redb", NEW c \in Clients, Abort(c), UNCHANGED <<lock, tx, backend>>
    PROVE  SInv' /\ PortStep
<1>1. /\ writer # NoTx /\ writer.client = c /\ Finish(c, Error) /\ CloseTx
      /\ UNCHANGED <<nonces, handles, index>>
  BY DEF Abort
<1>2. calls[c].at = "called"
  BY Zenon, <1>1, WriterOf DEF WriterIs
<1>3. /\ nonces' \in [Accounts -> Rows]
      /\ handles' \in [Ids -> {"absent", "live", "terminal"}] /\ IndexExact'
  BY <1>1 DEF SInv, BaseInv, RedbInv, IndexExact
<1>4. SInv'
  BY Zenon, <1>1, <1>2, <1>3, RedbEnds
<1>5. Fail(c)
  BY Zenon, <1>1, <1>2 DEF Fail
<1> QED BY <1>4, <1>5 DEF PortStep, Next

\* A read sees the last commit, and pending_handles what the index says.
LEMMA StoreReadStep ==
    ASSUME SInv, backend = "redb", NEW c \in Clients, Read(c), UNCHANGED <<lock, tx, backend>>
    PROVE  SInv' /\ PortStep
<1>1. /\ calls[c].at = "called" /\ Req(c).op \in {"load", "pending", "handle"}
      /\ UNCHANGED <<nonces, handles, index, staged, writer>>
  BY Zenon DEF Read
<1>2. Indexed(Req(c).account) = Pending(Req(c).account)
  BY Zenon DEF Indexed, Pending, SInv, RedbInv, IndexExact
<1>3. Finish(c, AnswerTo(Req(c)))
  <2>1. CASE Req(c).op = "pending"
    BY <1>2, <2>1 DEF Read, AnswerTo
  <2>2. CASE Req(c).op # "pending"
    BY Zenon, <2>2 DEF Read
  <2> QED BY <2>1, <2>2
<1>4. writer = NoTx \/ writer.client # c
  BY Zenon, <1>1, WriterOf DEF WriterIs
<1>5. tx[c] = "none"
  BY RedbAlone
<1>6. FitCall(Done(Req(c), AnswerTo(Req(c))))
  BY Zenon, <1>1, KeepsRequest, DoneFits
<1>7. calls' = [calls EXCEPT ![c] = Done(Req(c), AnswerTo(Req(c)))]
  BY <1>3 DEF Finish
<1>8. SInv'
  BY Zenon, <1>1, <1>4, <1>5, <1>6, <1>7, CallStep
<1>9. Effect(c)
  BY Zenon, <1>1, <1>3 DEF Effect, Req, LoadNonceState, PendingHandles, Handle
<1> QED BY <1>8, <1>9 DEF PortStep, Next

\* A call that fails outside of a transaction.
LEMMA CallerGoneStep ==
    ASSUME SInv, backend = "redb", NEW c \in Clients, CallerGone(c), UNCHANGED <<lock, tx, backend>>
    PROVE  SInv' /\ PortStep
<1>1. /\ calls[c].at \in {"called", "done"} /\ (writer = NoTx \/ writer.client # c)
      /\ calls' = [calls EXCEPT ![c] = Done(Req(c), Error)]
      /\ UNCHANGED <<nonces, handles, index, staged, writer>>
  BY Zenon DEF CallerGone, Finish
<1>2. tx[c] = "none"
  BY RedbAlone
<1>3. FitCall(Done(Req(c), Error))
  <2>1. calls[c].at = "called" \/ calls[c].at = "done"
    BY Zenon, <1>1
  <2> QED BY Zenon, <2>1, KeepsRequest, DoneFits
<1>4. SInv'
  BY Zenon, <1>1, <1>2, <1>3, CallStep
<1>5. Fail(c)
  BY Zenon DEF CallerGone, Fail
<1> QED BY <1>4, <1>5 DEF PortStep, Next

\* A call begins or is over.
LEMMA RedbCallStep ==
    ASSUME SInv, backend = "redb", NEW c \in Clients, RedbInvoke(c) \/ RedbReturn(c),
           UNCHANGED <<lock, tx, backend>>
    PROVE  SInv' /\ PortStep
<1>1. UNCHANGED <<nonces, handles, index, staged, writer>>
  BY Zenon DEF RedbInvoke, RedbReturn, Invoke, Return
<1>2. tx[c] = "none"
  BY RedbAlone
<1>3. calls[c].at # "called"
  <2>1. calls[c] = Idle \/ calls[c].at = "done"
    BY Zenon DEF RedbInvoke, RedbReturn, Invoke, Return
  <2>2. "done" # "called"
    OBVIOUS
  <2> QED BY Zenon, <2>1, <2>2, IdleIs
<1>4. writer = NoTx \/ writer.client # c
  BY Zenon, <1>3, WriterOf DEF WriterIs
<1>5. PICK x : calls' = [calls EXCEPT ![c] = x] /\ FitCall(x)
  <2>. USE Zenon
  <2>1. CASE Invoke(c)
    BY <2>1 DEF Invoke, Called, FitCall
  <2>2. CASE Return(c)
    BY <2>2 DEF Return, FitCall
  <2> QED BY SMT, <2>1, <2>2 DEF RedbInvoke, RedbReturn
<1>6. SInv'
  BY Zenon, <1>1, <1>2, <1>4, <1>5, CallStep
<1> QED BY <1>6 DEF PortStep, Next, RedbInvoke, RedbReturn

\* A crash fails every call and drops the open transaction.
LEMMA CrashStep ==
    ASSUME SInv, backend = "redb", Crash, UNCHANGED <<lock, tx, backend>>
    PROVE  SInv' /\ PortStep
<1>1. /\ calls' = [c \in Clients |-> IF calls[c] = Idle THEN Idle ELSE Done(Req(c), Error)]
      /\ CloseTx /\ UNCHANGED <<nonces, handles, index>>
  BY Zenon DEF Crash
<1>2. \A c \in Clients : FitCall(calls'[c])
  BY Zenon, <1>1 DEF SInv, BaseInv, FitCall, Done, Req
<1>3. calls' = [c \in Clients |-> calls'[c]]
  BY <1>1
<1>4. BaseInv'
  BY Zenon, <1>1, <1>2, <1>3 DEF SInv, BaseInv
<1>5. PgInv'
  BY RedbAlone
<1>6. RedbInv'
  BY <1>1 DEF SInv, RedbInv, IndexExact, CloseTx
<1>7. Failures
  BY <1>1 DEF Failures, Req
<1> QED BY <1>1, <1>4, <1>5, <1>6, <1>7 DEF SInv, PortStep

-----------------------------------------------------------------------------

\* Every step of either store keeps the invariant and is a step of the port.
LEMMA SInvStep == SInv /\ [StoresNext]_storeVars => SInv' /\ PortStep
<1> SUFFICES ASSUME SInv, [StoresNext]_storeVars PROVE SInv' /\ PortStep
  OBVIOUS
<1>1. CASE OnPostgres(PgNext)
  BY <1>1, PgStep DEF OnPostgres, PgNext
<1>2. CASE OnRedb(RedbNext)
  <2>1. backend = "redb" /\ UNCHANGED <<lock, tx, backend>> /\ RedbNext
    BY <1>2 DEF OnRedb
  <2> QED
    BY Zenon, <2>1, RedbCallStep, BeginWriteStep, CasCheckStep, PutTxStep, PutPendingStep, CommitStep,
       AbortStep, StoreReadStep, CallerGoneStep, CrashStep DEF RedbNext
<1>3. CASE UNCHANGED storeVars
  <2>1. UNCHANGED <<nonces, handles, calls, lock, tx, index, staged, writer, backend>>
    BY <1>3 DEF storeVars, pgVars, redbVars
  <2>2. BaseInv'
    BY <2>1 DEF SInv, BaseInv
  <2>3. PgInv'
    BY Zenon, <2>1 DEF SInv, PgInv, Running, Acc, Req, Wins, Fenced, Matches
  <2>4. RedbInv'
    <3>1. ASSUME NEW c \in Clients, NEW at \in {"begun", "tx", "ready"}, WriterIs(c, at)
          PROVE  WriterIs(c, at)'
      BY Zenon, <2>1, <3>1 DEF WriterIs, In, Req, Staged, StoredTx, StoredLive, Tables, Wins,
                               Fenced, Matches, Written
    <3> QED BY <2>1, <3>1 DEF SInv, RedbInv, IndexExact
  <2> QED BY <2>1, <2>2, <2>3, <2>4 DEF SInv, PortStep, vars
<1> QED BY <1>1, <1>2, <1>3 DEF StoresNext

\* A step of the port never lowers a fence.
LEMMA FencesRise ==
    ASSUME SInv, PortStep
    PROVE  \A a \in Accounts : nonces'[a].fence >= nonces[a].fence
<1>1. \A a \in Accounts : nonces[a].fence \in Nat
  BY DEF SInv, BaseInv, Rows
<1>2. CASE UNCHANGED nonces
  BY <1>1, <1>2
<1>3. ASSUME NEW c \in Clients, Effect(c), nonces' # nonces
      PROVE  \A a \in Accounts : nonces'[a].fence >= nonces[a].fence
  <2>1. Wins(calls[c].req) /\ nonces' = Written(calls[c].req) /\ calls[c].at = "called"
    BY Zenon, <1>3 DEF Effect, CasNonceState, LoadNonceState, PutHandle, PendingHandles, Handle
  <2>2. calls[c].req \in Request
    BY Zenon, <2>1, KeepsRequest DEF Req
  <2> QED BY Zenon, <2>1, <2>2, WrittenRows DEF SInv
<1> QED BY Zenon, <1>2, <1>3 DEF PortStep, Next, Invoke, Fail, Return, vars

\* Both durable stores implement the StateStore port (state_store.rs:17-82).
THEOREM StoresImplementPort == StoresSpec => ImplementsPort
<1> QED BY SInvInit, SInvStep, PTL DEF StoresSpec, ImplementsPort, PortStep

\* redb's index holds exactly the handles that are not terminal (redb.rs:149-176).
THEOREM IndexStaysExact == StoresSpec => []IndexExact
<1>1. SInv => IndexExact
  BY DEF SInv, RedbInv
<1> QED BY <1>1, SInvInit, SInvStep, PTL DEF StoresSpec

\* No write of a superseded owner gets in (state_store.rs:31-36).
THEOREM FencesOnlyRise == StoresSpec => FenceRises
<1>1. SInv /\ [StoresNext]_storeVars =>
        [\A a \in Accounts : nonces'[a].fence >= nonces[a].fence]_storeVars
  BY SInvStep, FencesRise
<1> QED BY <1>1, SInvInit, SInvStep, PTL DEF StoresSpec, FenceRises
=============================================================================
