------------------------------ MODULE Queries ------------------------------
(***************************************************************************)
(* The read-only side of the kit: an account scan, one read, or the        *)
(* endpoints behind all of them.  They share no state, so each behaviour   *)
(* is about one of them and leaves the variables of the others alone.      *)
(***************************************************************************)
EXTENDS Discovery, Reads, Endpoints

VARIABLE topic

queryVars == <<readVars, endpointVars, topic>>

NoRead == [op |-> "none"]

QueriesInit ==
    /\ EndpointsInit
    /\ \/ topic = "discover" /\ DiscoveryInit
       \/ topic = "read" /\ ReadsInit
       \/ topic = "endpoints" /\ Begin(NoRead, Unanswered, <<>>)

OnRead(A) == A /\ UNCHANGED <<endpointVars, topic>>

QueriesNext ==
    \/ topic = "discover" /\ OnRead(DiscoveryNext)
    \/ topic = "read" /\ OnRead(ReadsNext \/ FactChanges)
    \/ topic = "endpoints" /\ EndpointsNext /\ UNCHANGED <<readVars, topic>>

QueriesSpec == QueriesInit /\ [][QueriesNext]_queryVars
=============================================================================
