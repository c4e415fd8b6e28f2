---------------------------- MODULE MCStateChain ----------------------------
(***************************************************************************)
(* Pallets of the State Chain on small instances.  They do not share state *)
(* here: each behaviour is one of the part it starts with, and the         *)
(* variables of the other parts keep their first values.                   *)
(***************************************************************************)
EXTENDS Governance, RuntimeUpgrades, BitcoinVault, Reputation, VaultActivation, Funding,
        ChainTransactions, TLC

CONSTANT Parts   \* the parts that are explored

VARIABLE part

First(S) == CHOOSE s \in S : TRUE

(***************************************************************************)
(* Governance: three members that are replaced, one member and upgrades    *)
(***************************************************************************)

MembersTo(S) == [kind |-> "new_membership_set", members |-> S, required |-> 0]
Upgrade(n) == [kind |-> "chainflip_runtime_upgrade", members |-> {}, required |-> n]
Sudo == [kind |-> "call_as_sudo", members |-> {}, required |-> 0]

MCGovPlans == {
  [accounts |-> {"a", "b", "c"}, members |-> {"a", "b", "c"}, expiry |-> 1, max_time |-> 3,
   max_proposals |-> 2, commitments |-> 0, modes |-> {"Automatic", "Manual"},
   compatible |-> {0}, calls |-> {MembersTo({"a"}), MembersTo({"b", "c"}), Sudo}],
  [accounts |-> {"a"}, members |-> {"a"}, expiry |-> 1, max_time |-> 3,
   max_proposals |-> 2, commitments |-> 2, modes |-> {"Automatic", "Manual"},
   compatible |-> {1, 2}, calls |-> {Upgrade(2), Sudo}]}

(***************************************************************************)
(* Token holders: two accounts whose shares change                         *)
(***************************************************************************)

SetKey(chain, key) ==
  [kind |-> "SetGovernanceKey", chain |-> chain, key |-> key, decodes |-> TRUE]
CommunityKey(key) ==
  [kind |-> "SetCommunityKey", chain |-> "Ethereum", key |-> key, decodes |-> TRUE]
Holds(a, b) == [x \in {"a", "b"} |-> IF x = "a" THEN a ELSE b]

MCVotePlans == {
  [funds |-> Holds(4, 2), bonds |-> Holds(0, 1), max_block |-> 4, max_submissions |-> 2,
   transfers |-> {[funds |-> Holds(3, 3), dot_vault |-> TRUE]},
   proposals |-> {SetKey("Polkadot", "k1"), SetKey("Polkadot", "k2"), CommunityKey("k1")}]}

(***************************************************************************)
(* Upgrades: from three releases, with channels, swaps and accounts left   *)
(***************************************************************************)

Stored(v, action, boosted) ==
  [open |-> TRUE, stored |-> Channel(action, boosted, v >= 10, v >= 9)]
Closed(v, action) == [Stored(v, action, FALSE) EXCEPT !.open = FALSE]
Account(kind, total, pending, consumers, keys, settled) ==
  [role |-> kind, total |-> total, pending |-> pending, providers |-> 1,
   consumers |-> consumers, keys |-> keys, settled |-> settled]

LeftFrom(v, queue, modes) ==
  [height |-> 2, last_block |-> 4, releases |-> 2, swap_queue |-> queue, safe_mode |-> modes,
   versions |-> [environment |-> IF v = 10 THEN 11 ELSE 10,
                 swapping |-> IF v = 10 THEN 4 ELSE 3, ingress_egress |-> v],
   channels |-> <<Stored(v, "Swap", FALSE), Stored(v, "Swap", TRUE),
                  Stored(v, "LiquidityProvision", TRUE), Closed(v, "Swap"),
                  Closed(v, "LiquidityProvision")>>,
   accounts |-> <<Account("Validator", 0, FALSE, 1, TRUE, TRUE),
                  Account("Validator", 0, TRUE, 1, TRUE, TRUE),
                  Account("Validator", 0, FALSE, 1, TRUE, FALSE),
                  Account("Broker", 0, FALSE, 1, FALSE, TRUE),
                  Account("LiquidityProvider", 0, FALSE, 0, FALSE, TRUE),
                  Account("None", 0, FALSE, 1, FALSE, TRUE),
                  Account("Validator", 1, FALSE, 1, TRUE, TRUE)>>]

SwapsLeft == 0 :> <<"s1", "s2">> @@ 1 :> <<"s3">> @@ 3 :> <<"s4">> @@ 4 :> <<"s5">>

MCUpgradePlans == {
  LeftFrom(8, SwapsLeft, [funding |-> TRUE, swapping |-> FALSE]),
  LeftFrom(9, SwapsLeft, [funding |-> TRUE, swapping |-> FALSE]),
  LeftFrom(10, 3 :> <<"s1">>,
           [funding |-> TRUE, broadcast_solana |-> TRUE, ingress_egress_solana |-> FALSE])}

(***************************************************************************)
(* Bitcoin: deposits, a transfer, rotations, a change of the fees          *)
(***************************************************************************)

Btc == [rates |-> {1000}, deposit_amounts |-> {6, 12}, transfer_amounts |-> {5},
        consolidation |-> [threshold |-> 3, size |-> 2], deposits |-> 3, all_deposits |-> 3,
        transfers |-> 1, rotations |-> 1, fee_changes |-> 0, calm |-> TRUE,
        max_transactions |-> 3]

TwoRotations == [Btc EXCEPT !.rotations = 2, !.deposits = 2, !.all_deposits = 2,
                            !.deposit_amounts = {9}]

MCBtcPlans == {
  Btc, TwoRotations, [TwoRotations EXCEPT !.calm = FALSE],
  [Btc EXCEPT !.rates = {1000, 3000}, !.deposit_amounts = {5, 9}, !.fee_changes = 1,
              !.deposits = 2, !.all_deposits = 2],
  [Btc EXCEPT !.deposits = 4, !.all_deposits = 4, !.rotations = 0, !.max_transactions = 2,
              !.transfer_amounts = {5, 14}],
  [Btc EXCEPT !.consolidation.threshold = 2, !.deposit_amounts = {2, 6}, !.rotations = 0,
              !.transfer_amounts = {7}]}

(***************************************************************************)
(* Reputation: two authorities over blocks, one under changing parameters  *)
(***************************************************************************)

Loses(points, blocks) == [reputation |-> points, suspension |-> blocks]
Accrues(points, blocks) == [points |-> points, blocks |-> blocks]

TwoNodes ==
  [nodes |-> {"a", "b"}, authorities |-> <<"a", "b">>, interval |-> 2, floor |-> -3,
   ceiling |-> 3, maximum_accruable |-> 2, max_block |-> 4, max_slot |-> 5, max_calls |-> 0,
   penalties |-> [MissedHeartbeat |-> Loses(2, 2), MissedAuthorshipSlot |-> Loses(1, 3),
                  GrandpaEquivocation |-> Loses(0, 1)],
   reported |-> {<<"a">>, <<"a", "b">>}, equivocations |-> {1, 2}, ratio |-> Accrues(1, 2),
   ratios |-> {Accrues(2, 1), Accrues(3, 1), Accrues(1, 3), Accrues(1, 0)},
   new_penalties |-> {Loses(1, 1)}, mortal |-> {"a"}, safe_mode |-> TRUE]

MCRepPlans == {
  TwoNodes,
  [TwoNodes EXCEPT !.max_calls = 2, !.max_block = 2, !.max_slot = 3, !.nodes = {"a"},
                   !.authorities = <<"a">>, !.reported = {<<"a">>}],
  [TwoNodes EXCEPT !.max_calls = 3, !.max_block = 2, !.max_slot = 1, !.interval = 5, !.safe_mode = FALSE,
                   !.reported = {<<"a">>, <<"b">>}, !.equivocations = {}, !.ratios = {},
                   !.mortal = {}, !.penalties = [o \in DOMAIN @ |-> Loses(0, 3)]]}

(***************************************************************************)
(* Backups: two validators, and a liquidity provider among the funded      *)
(***************************************************************************)

OneAuthority ==
  [accounts |-> {"a", "b", "c", "l"}, balances |-> [a |-> 12, b |-> 10, c |-> 6, l |-> 0],
   authorities |-> {"a"}, bond |-> 8, bidders |-> {"a", "b", "c"},
   validators |-> {"a", "b", "c"}, reward_percentage |-> 100, authority_emission |-> 10,
   backup_emission |-> 4, interval |-> 3, new_balances |-> {0, 5}, cfe_versions |-> {2},
   conditions |-> {"online"}, bonds |-> {6}, max_steps |-> 3, max_intervals |-> 1]

MCBackupPlans == {
  OneAuthority,
  [OneAuthority EXCEPT !.authorities = {"a", "b"}, !.backup_emission = 20,
                       !.max_intervals = 2, !.max_steps = 2]}

(***************************************************************************)
(* Vaults: a second EVM chain joins, a first Polkadot and Bitcoin vault    *)
(***************************************************************************)

EvmVaults == [chains |-> {"Ethereum", "Arbitrum"}, started |-> {"Ethereum"},
              initialized |-> {"Ethereum"}, period |-> 2, max_height |-> 2, max_epoch |-> 3,
              max_sent |-> 2]
OtherVaults == [EvmVaults EXCEPT !.chains = {"Polkadot", "Bitcoin"}, !.started = {"Polkadot"},
                                 !.initialized = {"Polkadot"}]

MCVaultPlans == {EvmVaults, OtherVaults, [OtherVaults EXCEPT !.started = {}]}

(***************************************************************************)
(* Funding: two accounts and two Ethereum addresses                        *)
(***************************************************************************)

FundingBudget(fund, redeems, fee, blocks, update) ==
  [fund |-> fund, redeem |-> redeems, fee |-> fee, block |-> blocks, update |-> update]

\* Restrictions that come and go while a redemption is pending; the roles, rewards
\* and slashing of a validator.
MCFundingBudgets == {FundingBudget(2, 1, 1, 0, 1), FundingBudget(1, 1, 1, 1, 1)}

(***************************************************************************)
(* EVM: the chains share the addresses of their contracts                  *)
(***************************************************************************)

EvmFees(base, priority, mult) == [base_fee |-> base, priority_fee |-> priority, multiplier |-> mult]
Contracts(id, tokens) ==
  [chain_id |-> id, key_manager |-> "km", vault |-> "vault", gateway |-> "gateway", tokens |-> tokens]
EvmTransfer(asset, amount) == [asset |-> asset, to |-> "dest", amount |-> amount]
EvmChannel(id, asset, state) == [channel_id |-> id, address |-> <<"channel", id>>, asset |-> asset, state |-> state]
AllBatchOf(chain, fetches, payments) ==
  [kind |-> "AllBatch", chain |-> chain, fetches |-> fetches, transfers |-> payments]
MessageOf(chain, asset, source) ==
  [kind |-> "ExecutexSwapAndCall", chain |-> chain, transfers |-> <<EvmTransfer(asset, 5)>>,
   source_chain |-> "Bitcoin", source_address |-> source, message |-> "m", gas_budget |-> 40]
KeyCall(chain, kind) == [kind |-> kind, chain |-> chain, key |-> "k"]
Fallback(chain) == [kind |-> "TransferFallback", chain |-> chain, transfers |-> <<EvmTransfer(gas_asset(chain), 5)>>]
SentWith(fee, priority, limit) ==
  [contract |-> "", max_fee |-> fee, max_priority |-> priority, gas_limit |-> limit]

EvmEnv == [Ethereum |-> Contracts(1, [Usdc |-> {"usdc"}, Flip |-> {"flip"}]),
           Arbitrum |-> Contracts(2, [ArbUsdc |-> {}])]
EvmPlan(wanted, calls, sigs, attempts, fees) ==
  [env |-> EvmEnv, requests |-> wanted, max_calls |-> calls, max_signatures |-> sigs,
   max_attempts |-> attempts, gas_used |-> 2, prices |-> {3}, readies |-> {"nominee"},
   tracked |-> [Ethereum |-> {EvmFees(2, 1, 10)}, Arbitrum |-> {EvmFees(3, 0, 15)}],
   fees |-> fees, others |-> {SentWith({5}, {1}, {20})}]
Varied(plan) ==
  [plan EXCEPT !.prices = {3, 8}, !.readies = {"nominee", "nobody", "barrier", "CallResigned"},
               !.others = {SentWith({5}, {1}, {20}), SentWith({5}, {1}, {13})}]
NoFees == [c \in {"Ethereum", "Arbitrum"} |-> {}]

MCEvmPlans == {
  \* a message whose fees change, and its failure
  Varied(EvmPlan({MessageOf("Ethereum", "Usdc", <<[chain |-> "Arbitrum", bytes |-> "b"]>>)}, 1, 2, 2,
                 [NoFees EXCEPT !["Ethereum"] = {EvmFees(4, 1, 10)}])),
  EvmPlan({MessageOf("Arbitrum", "ArbEth", <<>>)}, 1, 1, 2,
          [NoFees EXCEPT !["Arbitrum"] = {EvmFees(5, 0, 15), EvmFees(0, 0, 10)}]),
  \* the same call for both chains, the other calls
  [EvmPlan({KeyCall("Ethereum", "SetAggKeyWithAggKey"), KeyCall("Arbitrum", "SetAggKeyWithAggKey"),
            Fallback("Ethereum"), Fallback("Arbitrum"), MessageOf("Arbitrum", "ArbUsdc", <<>>)},
           2, 3, 1, NoFees) EXCEPT !.readies = {"nominee", "CallResigned"}],
  EvmPlan({KeyCall("Ethereum", "SetGovKeyWithAggKey"), KeyCall("Ethereum", "SetCommKeyWithAggKey"),
           [kind |-> "RegisterRedemption", chain |-> "Ethereum", node_id |-> "n", amount |-> 4,
            to |-> "dest", expiry |-> 9, executor |-> <<>>],
           [kind |-> "RegisterRedemption", chain |-> "Ethereum", node_id |-> "n", amount |-> 4,
            to |-> "dest", expiry |-> 9, executor |-> <<"e">>],
           [kind |-> "UpdateFlipSupply", chain |-> "Ethereum", supply |-> 7, block |-> 1]}, 2, 2, 1, NoFees),
  \* batches
  EvmPlan({AllBatchOf("Ethereum", <<EvmChannel(1, "Eth", "Undeployed"), EvmChannel(2, "Usdc", "Pending"),
                                    EvmChannel(3, "Flip", "Deployed"), EvmChannel(4, "Eth", "Deployed")>>,
                      <<EvmTransfer("Eth", 1), EvmTransfer("Usdc", 2)>>),
           AllBatchOf("Ethereum", <<EvmChannel(4, "Eth", "Deployed")>>, <<>>),
           AllBatchOf("Arbitrum", <<EvmChannel(1, "ArbEth", "Undeployed")>>, <<>>),
           AllBatchOf("Arbitrum", <<EvmChannel(1, "ArbUsdc", "Deployed")>>, <<EvmTransfer("ArbEth", 1)>>)},
          2, 2, 1, NoFees)}

(***************************************************************************)
(* Bitcoin: the boundaries of the encodings of numbers and lengths, every  *)
(* kind of script, transactions that spend the vault and channels of the   *)
(* current and of the previous key                                         *)
(***************************************************************************)

BtcData(n) == Opaque(<<"data", n>>, n)
Segwit(v, n) == [kind |-> "OtherSegwit", version |-> v, data |-> BtcData(n)]
MCScripts ==
  {Script("P2PKH", BtcData(20)), Script("P2SH", BtcData(20)), Script("P2WPKH", BtcData(20)), Script("P2WSH", BtcData(32)),
   Script("Taproot", BtcData(32))} \cup {Segwit(v, n) : v \in {1, 2, 16}, n \in {2, 40}} \cup {Segwit(16, 32)}
MCSalts == {0, 1, 16, 17, 127, 128, 129, 255, 256, 65535, 65536, 16777215, 16777216}

BtcChannel(key, salt) == DepositAddress(key, salt)
Coin(tx, vout, amount, address) == [tx |-> tx, vout |-> vout, amount |-> amount, deposit_address |-> address]
Pay(amount, script) == [amount |-> amount, script |-> script]
BtcTx(inputs, outputs) ==
  [kind |-> "tx", tx |-> [inputs |-> inputs, outputs |-> outputs, agg_key |-> [current |-> 2, previous |-> {1}]]]

MCBtcCases ==
  {[kind |-> "number", value |-> v] : v \in {0, 1, 252, 253, 254, 255, 256, 65535, 65536, 1000000}}
    \cup {[kind |-> "salt", salt |-> s, others |-> MCSalts] : s \in MCSalts}
    \cup {[kind |-> "address", script |-> s, network |-> n] :
            s \in MCScripts, n \in {"Mainnet", "Testnet", "Regtest"}}
    \cup {BtcTx(<<Coin(1, 0, 1000, BtcChannel(k, s))>>, <<Pay(700, Script("P2PKH", BtcData(20)))>>) :
            k \in {1, 2}, s \in {0, 3, 129, 300}}
    \cup {BtcTx(<<Coin(1, 0, 1000, BtcChannel(k, s)), Coin(1, 1, 70000, BtcChannel(3 - k, t)), Coin(2, 0, 5, BtcChannel(2, 0))>>,
                <<Pay(700, Segwit(16, 40)), Pay(70000, Script("Taproot", Key(2)))>>) :
            k \in {1, 2}, s \in {0, 3}, t \in {0, 300}}
    \cup {BtcTx(<<Coin(1, 256, 1000, BtcChannel(2, 65536))>>, <<>>)}

(***************************************************************************)

Init ==
  /\ part \in Parts
  /\ GovInit /\ (part # "governance" => gov_plan = First(GovPlans))
  /\ VoteInit /\ (part # "votes" => vote_plan = First(VotePlans))
  /\ UpgradeInit /\ (part # "upgrades" => up_plan = First(UpgradePlans))
  /\ BtcInit /\ (part # "bitcoin" =>
       btc_plan = First(BtcPlans) /\ sats_per_kilobyte = First(btc_plan.rates))
  /\ RepInit /\ (part # "reputation" => rep_plan = First(RepPlans))
  /\ BackupInit /\ (part # "backups" => bk_plan = First(BackupPlans))
  /\ VaultInit /\ (part # "vaults" => va_plan = First(VaultPlans))
  /\ FundingInit /\ (part # "funding" =>
       funding_budget = First(FundingBudgets) /\ RestrictedAddresses = {})
  /\ EvmInit /\ (part # "evm" => evm_plan = First(EvmPlans))
  /\ EncodingInit /\ (part # "encoding" => btc_case = [kind |-> "number", value |-> 0])

Next ==
  /\ UNCHANGED <<part, btcCaseVars>>
  /\ \/ /\ part = "governance" /\ GovNext
        /\ UNCHANGED <<voteVars, upVars, btcVars, repVars, backupVars, vaultVars, flipVars, evmVars>>
     \/ /\ part = "votes" /\ VoteNext
        /\ UNCHANGED <<govVars, upVars, btcVars, repVars, backupVars, vaultVars, flipVars, evmVars>>
     \/ /\ part = "upgrades" /\ UpgradeNext
        /\ UNCHANGED <<govVars, voteVars, btcVars, repVars, backupVars, vaultVars, flipVars, evmVars>>
     \/ /\ part = "bitcoin" /\ BtcNext
        /\ UNCHANGED <<govVars, voteVars, upVars, repVars, backupVars, vaultVars, flipVars, evmVars>>
     \/ /\ part = "reputation" /\ RepNext
        /\ UNCHANGED <<govVars, voteVars, upVars, btcVars, backupVars, vaultVars, flipVars, evmVars>>
     \/ /\ part = "backups" /\ BackupNext
        /\ UNCHANGED <<govVars, voteVars, upVars, btcVars, repVars, vaultVars, flipVars, evmVars>>
     \/ /\ part = "vaults" /\ VaultNext
        /\ UNCHANGED <<govVars, voteVars, upVars, btcVars, repVars, backupVars, flipVars, evmVars>>
     \/ /\ part = "funding" /\ FundingNext
        /\ UNCHANGED <<govVars, voteVars, upVars, btcVars, repVars, backupVars, vaultVars, evmVars>>
     \/ /\ part = "evm" /\ EvmNext
        /\ UNCHANGED <<govVars, voteVars, upVars, btcVars, repVars, backupVars, vaultVars, flipVars>>

Spec == Init /\ [][Next]_<<part, govVars, voteVars, upVars, btcVars, repVars, backupVars, vaultVars,
                         flipVars, evmVars, btcCaseVars>>
=============================================================================
