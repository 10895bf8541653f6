----------------------------- MODULE Endpoints -----------------------------
(***************************************************************************)
(* Where a Transport's endpoints come from (transport/chains.rs and        *)
(* build.rs): a process-wide registry of public endpoints per chain, first *)
(* the embedded catalog, replaced whole by any refresh that brings a       *)
(* catalog with a chain in it; vendor URLs; and the builder that turns     *)
(* them into a primary, its fallbacks and a number of them to race.        *)
(***************************************************************************)
EXTENDS Sequences, FiniteSetsExt

CONSTANTS ChainIds,       \* the chains callers ask for
          Embedded,       \* EMBEDDED: chain -> the strings of its endpoints
          Published,      \* the bodies the live catalog may answer with
          Malformed,      \* strings that are no URL
          Configs,        \* the endpoint lists of declarative configs
          VendorSlugs,    \* <<vendor, chain>> pairs of the curated map
          AnyChain,       \* vendors that take any chain id
          Hedges,         \* the values callers give to hedge
          MaxDefault,     \* MAX_DEFAULT_ENDPOINTS
          Callers         \* the tasks that refresh and build

ASSUME EndpointsAssumption ==
    /\ MaxDefault \in Nat \ {0} /\ Hedges \subseteq Nat
    /\ DOMAIN Embedded # {}
    /\ \A body \in Published \cup {Embedded} : \A c \in DOMAIN body : body[c] \in Seq(Range(body[c]))
    /\ \A urls \in Configs : urls \in Seq(Range(urls))

VARIABLES registry,   \* the catalog in use
          refresh,    \* caller -> its refresh: idle, or the catalog it parsed
          built       \* the last transport built

endpointVars == <<registry, refresh, built>>

\* An entry's endpoints in their order, without the strings that are no URL.
UrlsOf(strings) ==
    LET kept[k \in 0 .. Len(strings)] ==
          IF k = 0 THEN <<>>
          ELSE IF strings[k] \in Malformed THEN kept[k - 1] ELSE Append(kept[k - 1], strings[k])
    IN  kept[Len(strings)]

\* parse: the entries under a chain id; one whose strings all go keeps an empty
\* list.
Parse(body) == [c \in DOMAIN body |-> UrlsOf(body[c])]

NoTransport == [endpoints |-> <<>>, active |-> 0]
Resting == [at |-> "idle"]

EndpointsInit ==
    /\ registry = Parse(Embedded)
    /\ refresh = [t \in Callers |-> Resting]
    /\ built = NoTransport

\* refresh_public_endpoints up to its last await; a failed request returns.
Fetch(t, body) ==
    /\ refresh[t] = Resting
    /\ refresh' = [refresh EXCEPT ![t] = [at |-> "parsed", fresh |-> Parse(body)]]
    /\ UNCHANGED <<registry, built>>

\* A mutant: whatever was parsed replaces the registry.
InstallAnything(t) ==
    /\ refresh[t].at = "parsed"
    /\ registry' = refresh[t].fresh
    /\ refresh' = [refresh EXCEPT ![t] = Resting]
    /\ UNCHANGED built

\* The rest of it: a catalog without a chain is an error and changes nothing,
\* another takes the write lock and replaces the registry.
Install(t) ==
    /\ refresh[t].at = "parsed"
    /\ registry' = IF DOMAIN refresh[t].fresh = {} THEN registry ELSE refresh[t].fresh
    /\ refresh' = [refresh EXCEPT ![t] = Resting]
    /\ UNCHANGED built

-----------------------------------------------------------------------------
PublicRpcs(c) == IF c \in DOMAIN registry THEN registry[c] ELSE <<>>

\* TransportBuilder::hedge and build: at least one endpoint is raced, and no
\* more than there are; a single endpoint has no fallback layer.
Build(endpoints, hedge) ==
    [endpoints |-> endpoints, active |-> Min({Max({hedge, 1}), Len(endpoints)})]

\* builder_for_chain, hedge, build: the first public endpoint is the primary.
\* A chain without one is UnknownChain, and nothing is built.
ForChain(c, hedge) ==
    LET rpcs == PublicRpcs(c)
        taken == SubSeq(rpcs, 1, Min({MaxDefault, Len(rpcs)}))
    IN  /\ rpcs # <<>>
        /\ built' = Build(taken, hedge)
        /\ UNCHANGED <<registry, refresh>>

\* vendor and vendor_url: one endpoint, if the pair is mapped.
VendorUrl(v, c) == v \in AnyChain \/ <<v, c>> \in VendorSlugs
ForVendor(v, c) ==
    /\ VendorUrl(v, c)
    /\ built' = Build(<<<<v, c>>>>, 1)
    /\ UNCHANGED <<registry, refresh>>

\* from_config: the first endpoint given, the others behind it; none is
\* NoEndpoints.
FromConfig(urls, hedge) ==
    /\ urls # <<>>
    /\ built' = Build(urls, hedge)
    /\ UNCHANGED <<registry, refresh>>

EndpointsNext ==
    \/ \E t \in Callers : Install(t) \/ \E body \in Published : Fetch(t, body)
    \/ \E c \in ChainIds, hedge \in Hedges : ForChain(c, hedge)
    \/ \E v \in {p[1] : p \in VendorSlugs} \cup AnyChain, c \in ChainIds : ForVendor(v, c)
    \/ \E urls \in Configs, hedge \in Hedges : FromConfig(urls, hedge)

-----------------------------------------------------------------------------
\* With callers refreshing and building at the same time, the registry is at
\* any moment one whole catalog with a chain in it, the embedded one or one
\* that was fetched ("leaves the existing registry intact on failure"), and a
\* transport has between one endpoint and the cap, of which it races at least
\* one and never more than it has.
RegistryWhole ==
    /\ DOMAIN registry # {}
    /\ \E body \in Published \cup {Embedded} : registry = Parse(body)
    /\ built # NoTransport =>
          built.endpoints # <<>> /\ built.active \in 1 .. Len(built.endpoints)
=============================================================================
