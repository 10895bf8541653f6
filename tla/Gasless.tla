------------------------------ MODULE Gasless ------------------------------
(***************************************************************************)
(* Wallet::send_gasless and the loop behind it: WalletBuilder::build       *)
(* (facade.rs) configures one backend, the relayer if both are given, and  *)
(* a send for the other one is refused before anything is signed.  The     *)
(* variables of the backend that is not there stay as they were.           *)
(***************************************************************************)
EXTENDS Gelato, SelfRelay

CONSTANT Configured   \* what the builder was given, of relayer and gelato

ASSUME GaslessAssumption == Configured \subseteq SUBSET {"relayer", "gelato"}

VARIABLE backend

gaslessVars == <<head, fwd, faults, loopVars, gelatoVars, selfVars, backend>>

Backend(given) == IF "relayer" \in given THEN "relayer" ELSE "gelato"

GaslessInit ==
    /\ LoopInit /\ GelatoInit /\ RelayInit
    /\ backend \in {Backend(given) : given \in Configured}
    /\ backend = "relayer" => relay = CHOOSE r \in Relays : TRUE

TypeOK == LoopTypeOK /\ GelatoTypeOK /\ RelayTypeOK /\ backend \in {"relayer", "gelato"}

OnGelato(A)  == backend = "gelato" /\ A /\ UNCHANGED <<selfVars, backend>>
OnRelayer(A) == backend = "relayer" /\ A /\ UNCHANGED <<gelatoVars, backend>>
OnLoop(A)    == A /\ UNCHANGED <<head, fwd, gelatoVars, selfVars, backend>>
OnChainOnly(A) == A /\ UNCHANGED <<gelatoVars, selfVars, backend>>

GaslessNext ==
    \/ OnGelato(GelatoNext) \/ OnRelayer(RelayNext) \/ OnChainOnly(ForeignRequest)
    \/ OnLoop(TickError) \/ OnLoop(Wake) \/ OnLoop(StopSeen) \/ OnLoop(Stop) \/ OnLoop(Abort)

GaslessSpec == GaslessInit /\ [][GaslessNext]_gaslessVars

\* A tick under way goes on and the timer fires; select! picks among ready
\* branches at random, so a stop that stays signalled is seen in the end.  A
\* send under way runs on.  The relay brings every task to an end, the nodes
\* mine what is pooled, and blocks keep coming.
GaslessFairSpec ==
    /\ GaslessSpec
    /\ WF_gaslessVars(OnGelato(TaskPass \/ TaskPassEnd \/ \E id \in Ids : AdvanceTask(id)))
    /\ WF_gaslessVars(OnRelayer(RelayTick))
    /\ WF_gaslessVars(OnLoop(Wake)) /\ SF_gaslessVars(OnLoop(StopSeen))
    /\ \A s \in Sends :
          /\ WF_gaslessVars(OnGelato(Submit(s) \/ PersistTask(s)))
          /\ WF_gaslessVars(OnGelato(Execute(s) \/ GiveUp(s)))
          /\ WF_gaslessVars(OnGelato(Reinclude(s)))
    /\ \A s \in Relayed : WF_gaslessVars(OnRelayer(SendRelayed(s)))
    /\ WF_gaslessVars(OnRelayer(\E tx \in pool : MineOuter(tx)))
    /\ WF_gaslessVars(OnGelato(Extend)) /\ WF_gaslessVars(OnRelayer(ExtendRelayed))
=============================================================================
