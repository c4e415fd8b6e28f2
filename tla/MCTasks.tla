------------------------------- MODULE MCTasks -------------------------------
(***************************************************************************)
(* Instances of the parts of the engine whose work must come to an end: a  *)
(* behaviour is of the retrier of external calls, of the state chain       *)
(* observer, of a task scope, of the witnessing of a vault, or of the      *)
(* source of epochs; the other parts are idle in it.                       *)
(***************************************************************************)
EXTENDS Tasks, ScObserver, VaultWitnessing

Load(requests, nodes, fickle, healthy) ==
    [requests |-> requests, nodes |-> nodes, fickle |-> fickle, healthy |-> healthy]
Both == {"Primary", "Secondary"}
NoLoad == Load(<<>>, {}, {}, "Primary")

\* More requests than there are slots, of methods with and without a limit, to one node or
\* two, of which one is healthy; fickle callers go away while they wait.
MCLoads ==
    {NoLoad,
     Load(<<"extrinsics", "subscribe_blocks", "broadcast_transaction">>, {"Primary"}, {}, "Primary"),
     Load(<<"block", "broadcast_transaction">>, Both, {1, 2}, "Secondary"),
     Load(<<"events", "best_events">>, Both, {}, "Primary"),
     Load(<<"send_raw_transaction", "submit_raw_encoded_extrinsic">>, {"Primary"}, {1}, "Primary")}

Sign(c, ours) == Request("ThresholdSignatureRequest", c, ours, 1)
Keygen(c, ours) == Request("KeygenRequest", c, ours, 1)
Broadcast(c) == Request("threshold_sign_and_broadcast", c, FALSE, 0)
Tx(c, ours, id) == Request("TxBroadcastRequest", c, ours, id)
Scenario(blocks, first, errors, lost) ==
    [blocks |-> blocks, start |-> first, errors |-> errors, lost |-> lost]
NoScenario == Scenario(<<>>, 1, 0, 0)

\* Ceremonies on two chains seen from their second block, with an unreadable block;
\* broadcasts with pending ones before them; a request with too many payloads.
MCScenarios ==
    {NoScenario,
     Scenario(<< <<Sign("Evm", TRUE), Sign("Btc", FALSE)>>,
                 <<Keygen("Evm", FALSE), Sign("Evm", TRUE), Keygen("Btc", TRUE)>>, <<>>,
                 <<Request("KeyHandoverRequest", "Btc", TRUE, 1)>> >>, 2, 1, 0),
     Scenario(<< <<Broadcast("Btc"), Broadcast("Btc"), Broadcast("Evm"), Broadcast("Btc")>>,
                 <<Tx("Btc", FALSE, 2), Tx("Evm", TRUE, 1), Broadcast("Btc")>>,
                 <<Tx("Btc", TRUE, 3), Tx("Btc", FALSE, 1)>>,
                 <<Request("TransactionSucceeded", "Btc", FALSE, 2), Tx("Btc", TRUE, 4)>> >>,
              1, 0, 1),
     Scenario(<< <<Broadcast("Btc"), Broadcast("Btc")>>, <<Tx("Btc", FALSE, 1)>>,
                 <<Tx("Btc", TRUE, 2)>> >>, 2, 1, 0),
     Scenario(<< <<Request("ThresholdSignatureRequest", "Btc", TRUE, 9)>>,
                 <<Sign("Btc", TRUE)>> >>, 1, 0, 0)}

Task(kind, ends) == [kind |-> kind, ends |-> ends]
Plan(tasks, parent, awaits, cancel) ==
    [children |-> tasks, parent |-> parent, awaits |-> awaits, cancel |-> cancel]
NoPlan == Plan(<<>>, "Never", {}, FALSE)

\* Three tasks of each kind and ending, and a top-level task that awaits a handle.
MCScopePlans ==
    {NoPlan}
    \cup {Plan(<<Task(k, e), Task("spawn", f), Task("weak", "Never")>>, p, {}, f = "Ok") :
            k \in {"spawn", "weak", "handle"}, e \in {"Ok", "Err", "Never"},
            f \in {"Ok", "Panic"}, p \in {"Ok", "Err"}}
    \cup {Plan(<<Task("handle", e), Task("spawn", f)>>, "Ok", {1}, FALSE) :
            e \in {"Ok", "Err"}, f \in {"Ok", "Never"}}

MCVault(from, end, height, limit, gap, channels, lifetime, crashes, store_failures, load_failures) ==
    [start |-> from, end |-> end, height |-> height, limit |-> limit, gap |-> gap,
     channels |-> channels, lifetime |-> lifetime, crashes |-> crashes,
     store_failures |-> store_failures, load_failures |-> load_failures]
NoVault == MCVault(1, 1, 1, 0, 0, 0, 0, 0, 0, FALSE)
MCVaults ==
    {NoVault,
     MCVault(1, 3, 3, 2, 2, 0, 0, 1, 1, FALSE), MCVault(1, 4, 4, 1, 2, 0, 0, 1, 0, TRUE),
     MCVault(1, 3, 3, 1, 1, 1, 0, 0, 0, FALSE), MCVault(1, 4, 4, 2, 2, 0, 0, 0, 0, FALSE),
     MCVault(0, 2, 2, 1, 1, 1, 0, 0, 0, FALSE)}

MCEpochPlan(ours, vaults, last, length) ==
    [ours |-> ours, vaults |-> vaults, last |-> last, blocks |-> length]
NoEpochPlan == MCEpochPlan({}, {}, 0, 0)
MCEpochPlans ==
    {NoEpochPlan,
     MCEpochPlan({1, 2, 3}, {1}, 3, 6), MCEpochPlan({1, 3}, {}, 3, 6), MCEpochPlan({2}, {1}, 3, 6),
     MCEpochPlan({1, 2, 3}, {1}, 2, 5)}

\* One part at a time.
Busy == <<load # NoLoad, scenario # NoScenario, scope_plan # NoPlan, vault # NoVault,
          epoch_plan # NoEpochPlan>>
Init ==
    /\ RetrierInit /\ ObserverInit /\ ScopeInit /\ VaultInit /\ EpochSourceInit
    /\ Cardinality({p \in DOMAIN Busy : Busy[p]}) = 1

Next ==
    \/ load # NoLoad /\ RetrierNext /\ UNCHANGED <<observerVars, scopeVars, vaultVars, epochSourceVars>>
    \/ scenario # NoScenario /\ ObserverNext /\ UNCHANGED <<retrierVars, scopeVars, vaultVars, epochSourceVars>>
    \/ scope_plan # NoPlan /\ ScopeNext /\ UNCHANGED <<retrierVars, observerVars, vaultVars, epochSourceVars>>
    \/ vault # NoVault /\ VaultNext /\ UNCHANGED <<retrierVars, observerVars, scopeVars, epochSourceVars>>
    \/ epoch_plan # NoEpochPlan /\ EpochSourceNext /\ UNCHANGED <<retrierVars, observerVars, scopeVars, vaultVars>>

vars == <<retrierVars, observerVars, scopeVars, vaultVars, epochSourceVars>>

Spec ==
    /\ Init /\ [][Next]_vars
    /\ RetrierFairness /\ ObserverFairness /\ ScopeFairness /\ VaultFairness /\ EpochSourceFairness
=============================================================================
