------------------------------ MODULE MCEngine ------------------------------
(***************************************************************************)
(* Instances of the parts of the engine that are checked for safety: a     *)
(* behaviour is of the submission of signed extrinsics, of the signing EVM *)
(* client, of the runner and its two versions, of the peer-to-peer layer,  *)
(* of the block sources and the lag safety, or of what is reported of a    *)
(* range of blocks; the other parts stay as they start.                    *)
(***************************************************************************)
EXTENDS SubmissionWatcher, EngineRunner, P2P, ChainSources, BlockWitnessing, TLC

CONSTANT Parts   \* the parts to check
VARIABLE part    \* the part that the behaviour is of

MCPlan(requests, height, foreign, retracts, upgrades, drops) ==
    [requests |-> requests, asked |-> 0, height |-> height, foreign |-> foreign,
     retracts |-> retracts, forked |-> FALSE, upgrades |-> upgrades, drops |-> drops]

\* Two calls each, with another user of the account, a reorganisation, an upgrade of the
\* runtime and extrinsics that our node forgets.
MCPlans ==
    {MCPlan(<<"Many", "StrictlyOne">>, 7, 1, 0, 0, 1),
     MCPlan(<<"Many", "Many">>, 6, 1, 1, 0, 0),
     MCPlan(<<"Many", "DryRun">>, 6, 0, 1, 1, 1)}

SignerLoad(broadcasts, failures, timeouts) ==
    [broadcasts |-> broadcasts, failures |-> failures, timeouts |-> timeouts]

MCSignerLoads == {SignerLoad(3, FALSE, 1), SignerLoad(2, TRUE, 1)}

\* The chain requires the new version from block boundary on, and the account has its role
\* from block role on.
History(height, boundary, role, lag, slack) ==
    [height |-> height, lag |-> lag, slack |-> slack,
     required |-> [n \in 1 .. height |-> IF n < boundary THEN <<1, 4, 0>> ELSE <<1, 5, 0>>],
     role |-> [n \in 1 .. height |-> IF n < role THEN "NotFunded" ELSE "Validator"]]
MCOldVersion == <<1, 4, 3>>
MCNewVersion == <<1, 5, 0>>

MCHistories ==
    {History(7, 5, 1, 1, 1), History(6, 4, 2, 0, 1), History(5, 1, 1, 1, 0),
     [History(3, 1, 1, 1, 0) EXCEPT !.role[2] = "Broker"]}

Peer(a, k) == (a :> PeerInfo(a, k, "h1"))
MCNetwork(initial, registrations, deregistrations, failures, successes, idles, sends,
          incoming, unreadable) ==
    [initial |-> initial, ours |-> PeerInfo("us", "k0", "h1"),
     registrations |-> registrations, deregistrations |-> deregistrations,
     failures |-> failures, successes |-> successes, idles |-> idles, sends |-> sends,
     incoming |-> incoming, unreadable |-> unreadable]
UsAndA == Peer("us", "k0") @@ Peer("a", "k1")

MCNetworks ==
    {MCNetwork(Peer("a", "k1"), 2, 1, 1, 0, 0, 0, 0, 0),
     MCNetwork(UsAndA, 1, 1, 0, 0, 0, 0, 1, 0),
     MCNetwork(UsAndA, 1, 0, 2, 1, 1, 1, 0, 0),
     MCNetwork(UsAndA, 0, 0, 3, 1, 0, 0, 0, 0),
     MCNetwork(UsAndA, 1, 1, 0, 0, 1, 0, 0, 1)}

MCChain(kind, period, margin, height, reorgs, losses, endpoints) ==
    [kind |-> kind, period |-> period, margin |-> margin, depth |-> margin, height |-> height,
     reorgs |-> reorgs,
     losses |-> losses, endpoints |-> endpoints, fork |-> 0, before |-> <<>>]
MCChains ==
    {MCChain("evm", 1, 2, 5, 1, 1, 1), MCChain("evm", 2, 3, 6, 1, 0, 1),
     MCChain("evm", 2, 2, 6, 1, 0, 1), MCChain("btc", 1, 2, 5, 1, 0, 2),
     MCChain("dot", 1, 1, 5, 1, 1, 1)}

MCBlockPlan(c, kinds, channels, length, txs, tokens, events, transactions, restarts, unreadable) ==
    [chain |-> c, kinds |-> kinds, channels |-> channels, ranges |-> length, txs |-> txs,
     tokens |-> tokens, events |-> events, transactions |-> transactions, restarts |-> restarts,
     unreadable |-> unreadable]
Output(to, amount) == [to |-> to, amount |-> amount]
BlockTx(outputs, egress, success, proxy_added) ==
    [outputs |-> outputs, egress |-> egress, success |-> success, proxy_added |-> proxy_added]
Vault(kind, token, valid) == ContractEvent("vault", kind, token, valid)
KeyManager(kind, valid) == ContractEvent("key_manager", kind, "none", valid)
Gateway(kind) == ContractEvent("gateway", kind, "Flip", TRUE)

\* Deposits and the deployment of the contract in any order over two ranges; tokens and events
\* that can and cannot be converted, with a restart; several outputs to one address.
MCBlockPlans ==
    {MCBlockPlan("arb", {"native"}, ("a" :> "native"), 2, 3, {}, {}, {}, 0, FALSE),
     MCBlockPlan("arb", {"native", "erc20", "vault"}, ("a" :> "native" @@ "b" :> "ArbUsdc"), 1, 2,
        {"ArbUsdc"}, {Vault("SwapNative", "none", TRUE), Vault("SwapToken", "Flip", TRUE),
                      Vault("TransferTokenFailed", "ArbUsdc", TRUE)}, {}, 1, TRUE),
     MCBlockPlan("eth", {"key_manager", "gateway"}, ("a" :> "Usdc"), 1, 2, {},
        {KeyManager("SignatureAccepted", TRUE), KeyManager("SignatureAccepted", FALSE),
         KeyManager("GovernanceAction", TRUE), KeyManager("AggKeySetByGovKey", TRUE),
         Gateway("Funded"), Gateway("RedemptionExpired")}, {}, 0, FALSE),
     MCBlockPlan("eth", {"vault", "erc20", "gateway"}, ("a" :> "Usdc"), 1, 2, {"Usdc"},
        {Vault("XcallToken", "Usdc", TRUE), Vault("XcallNative", "none", FALSE),
         Vault("TransferTokenFailed", "Usdc", TRUE), Vault("TransferNativeFailed", "none", TRUE),
         Gateway("RedemptionExecuted")}, {}, 0, FALSE),
     MCBlockPlan("btc", {"btc"}, ("a" :> "Btc" @@ "b" :> "Btc"), 1, 2, {}, {},
        {BlockTx(<<Output("a", 1), Output("a", 2), Output("x", 1)>>, FALSE, TRUE, FALSE),
         BlockTx(<<Output("b", 1), Output("a", 0)>>, TRUE, TRUE, FALSE),
         BlockTx(<<Output("x", 1)>>, TRUE, TRUE, FALSE)}, 1, TRUE),
     MCBlockPlan("dot", {"dot"}, ("a" :> "Dot"), 1, 2, {}, {},
        {BlockTx(<<Output("a", 1), Output("a", 2)>>, FALSE, TRUE, FALSE),
         BlockTx(<<Output("x", 1)>>, TRUE, FALSE, TRUE), BlockTx(<<Output("a", 1)>>, TRUE, TRUE, FALSE),
         BlockTx(<<>>, TRUE, FALSE, FALSE)}, 1, FALSE)}

\* One part at a time; the others have the first of their scenarios.
First(scenarios) == CHOOSE s \in scenarios : TRUE

Init ==
    /\ part \in Parts
    /\ WatcherInit /\ (part # "watcher" => plan = First(Plans))
    /\ SignerInit /\ (part # "signer" => signer_load = First(SignerLoads))
    /\ RunnerInit /\ (part # "runner" => chain_history = First(Histories))
    /\ P2PInit /\ (part # "p2p" => network = First(Networks))
    /\ SourcesInit /\ (part # "sources" => external = First(Chains))
    /\ BlockInit /\ (part # "blocks" => block_plan = First(BlockPlans))

Next ==
    /\ UNCHANGED part
    /\ \/ /\ part = "watcher" /\ WatcherNext
          /\ UNCHANGED <<signerVars, runnerVars, p2pVars, sourceVars, blockVars>>
       \/ /\ part = "signer" /\ SignerNext
          /\ UNCHANGED <<watcherVars, runnerVars, p2pVars, sourceVars, blockVars>>
       \/ /\ part = "runner" /\ RunnerNext
          /\ UNCHANGED <<watcherVars, signerVars, p2pVars, sourceVars, blockVars>>
       \/ /\ part = "p2p" /\ P2PNext
          /\ UNCHANGED <<watcherVars, signerVars, runnerVars, sourceVars, blockVars>>
       \/ /\ part = "sources" /\ SourcesNext
          /\ UNCHANGED <<watcherVars, signerVars, runnerVars, p2pVars, blockVars>>
       \/ /\ part = "blocks" /\ BlockNext
          /\ UNCHANGED <<watcherVars, signerVars, runnerVars, p2pVars, sourceVars>>

vars == <<part, watcherVars, signerVars, runnerVars, p2pVars, sourceVars, blockVars>>
Spec == Init /\ [][Next]_vars
=============================================================================
