----------------------------- MODULE MCMarket ------------------------------
(***************************************************************************)
(* What happens to the funds of users on small instances: deposits and     *)
(* egress, swaps, and the pools.  The parts do not share state here: each  *)
(* behaviour is one of the part it starts with, and the variables of the   *)
(* other parts keep their first values.                                    *)
(***************************************************************************)
EXTENDS IngressEgress, Swapping, Pools

CONSTANT Parts   \* the parts that are explored

VARIABLE part

First(S) == CHOOSE s \in S : TRUE

(***************************************************************************)
(* Deposits: two providers, two boost pools and two channels               *)
(***************************************************************************)

Channels(assets, actions, fees) == [asset : assets, action : actions, boost_fee : fees]

DepositBudget(addresses, opened, deposit, reorg, blocks, boost, withdrawals, egress, config) ==
  [channels |-> addresses, open |-> opened, deposit |-> deposit, reorg |-> reorg, height |-> blocks,
   boost |-> boost, withdraw |-> withdrawals, egress |-> egress, config |-> config]

\* Boosting with both pools; an address that is used again; fees and egress.
MCDepositBudgets ==
  {DepositBudget(Channels({BoostAsset}, {"Swap"}, {4}), 1, 1, 1, 4, 3, 0, 0, 0),
   DepositBudget(Channels({BoostAsset}, {"Swap"}, {4}), 1, 2, 0, 0, 3, 0, 0, 0),
   DepositBudget(Channels({BoostAsset}, {"Swap"}, {0}), 2, 2, 0, 4, 0, 0, 1, 0),
   DepositBudget(Channels({BoostAsset}, {"Swap"}, {0}), 3, 1, 0, 6, 0, 0, 1, 0),
   DepositBudget(Channels(ChainAssets, Boosters \cup {"Ccm"}, {0, 2}), 1, 1, 0, 0, 1, 1, 1, 1)}


(***************************************************************************)
(* Swaps: two brokers, amounts of tens and pools that hold hundreds        *)
(***************************************************************************)

MCEgressFee == [asset \in Assets |-> IF asset \in {"Eth", "Usdc"} THEN 2 ELSE 0]
MCDustLimit == [asset \in Assets |-> IF asset = "Eth" THEN 4 ELSE 0]

Pool(in, out, depth) == [in |-> in, out |-> out, depth |-> depth]
Market(sell, buy) == [ToStable |-> [asset \in Assets |-> sell], FromStable |-> [asset \in Assets |-> buy]]

\* Deep pools, shallow pools whose price falls with the amount, a market in
\* which nothing can be bought.
Deep == Market(Pool(400, 800, 400), Pool(800, 400, 400))
Shallow == Market(Pool(60, 90, 400), Pool(60, 60, 400))
Dry == Market(Pool(400, 800, 400), Pool(800, 400, 0))
MCMarkets == {Deep, Shallow, Dry}

Terms(from, to, commission, refund, message) ==
  [from |-> from, to |-> to, commission |-> commission, refund |-> refund, message |-> message]
FillOrKill(retry_duration, min_price) == {[retry_duration |-> retry_duration, min_price |-> min_price]}
NoCommission == [b \in {} |-> 0]

NoSwapping == [channel |-> 0, role |-> 0, withdraw |-> 0, deposit |-> 0, contract |-> 0, ccm |-> 0,
            config |-> 0, interval |-> 0, safe_mode |-> 0, burn |-> 0, until |-> 3, terms |-> {}, channels |-> {},
            amounts |-> {}, assets |-> {}, gas |-> {}, limits |-> {}, intervals |-> {}, markets |-> MCMarkets]

\* Fill-or-kill swaps that share a batch; brokers; messages; the network fee;
\* the maximum amount.
MCSwapBudgets ==
  {[NoSwapping EXCEPT !.deposit = 2, !.until = 2, !.safe_mode = 2, !.amounts = {10, 35},
      !.channels = {Terms("Eth", "Usdc", NoCommission, FillOrKill(2, 12), {}),
                    Terms("Eth", "Flip", NoCommission, FillOrKill(6, 6), {})}],
   [NoSwapping EXCEPT !.role = 3, !.channel = 1, !.deposit = 2, !.until = 3, !.withdraw = 1, !.amounts = {35, 150},
      !.terms = {Terms("Eth", "Btc", [b \in Brokers |-> 500], {}, {}),
                 Terms("Usdc", "Eth", [b \in Brokers |-> 550], {}, {})}],
   [NoSwapping EXCEPT !.ccm = 1, !.contract = 1, !.until = 1, !.amounts = {8, 20}, !.gas = {0, 8},
      !.assets = {"Flip", "Eth"}],
   [NoSwapping EXCEPT !.role = 1, !.channel = 1, !.deposit = 2, !.config = 1, !.amounts = {20},
      !.assets = {"Eth", "Btc"}, !.limits = {{}, {12}},
      !.terms = {Terms("Btc", "Usdc", NoCommission, FillOrKill(5, 10), {}),
                 Terms("Btc", "Eth", NoCommission, {}, {9}),
                 Terms("Eth", "Btc", NoCommission, {}, {9})}],
   [NoSwapping EXCEPT !.contract = 2, !.interval = 1, !.burn = 1, !.amounts = {40}, !.intervals = {2, 3},
      !.assets = {"Usdc", "Eth"}, !.markets = {Deep, Dry}]}

(***************************************************************************)
(* Pools: five ticks, two providers and amounts of a few units             *)
(***************************************************************************)

\* Square roots of the prices of the ticks, in eighths.
MCSqrtPrice(tick) == CASE tick = -2 -> 4 [] tick = -1 -> 6 [] tick = 0 -> 8
                       [] tick = 1 -> 11 [] tick = 2 -> 16

MCMinTick == -2

NoTrading == [limit |-> 0, range |-> 0, sweep |-> 0, fees |-> 0, impact |-> 0, schedule |-> 0,
            block |-> 0, swap |-> 0, sides |-> {}, ticks |-> {}, sizes |-> {}, ranges |-> {},
            range_sizes |-> {}, inputs |-> {}, amounts |-> {}]

\* Limit orders at one price and partial fills; limit orders at several
\* prices with a change of fee; range orders; both kinds; scheduled updates.
MCPoolBudgets ==
  {[NoTrading EXCEPT !.limit = 3, !.swap = 3, !.sides = {"Quote"}, !.ticks = {0}, !.sizes = {3, 5},
                   !.inputs = {"Base"}, !.amounts = {1, 2, 4}],
   [NoTrading EXCEPT !.limit = 2, !.swap = 2, !.fees = 1, !.sides = Pairs, !.ticks = {-1, 1},
                   !.sizes = {0, 4}, !.inputs = Pairs, !.amounts = {4}, !.sweep = 1],
   [NoTrading EXCEPT !.range = 3, !.swap = 2, !.ranges = {<<-1, 0>>, <<-1, 1>>, <<0, 1>>, <<1, 2>>},
                   !.range_sizes = {Liquidity(12)}, !.inputs = Pairs, !.amounts = {2, 8}],
   [NoTrading EXCEPT !.range = 2, !.swap = 1, !.sweep = 1, !.ranges = {<<-1, 1>>, <<0, 2>>},
                   !.range_sizes = {Liquidity(40), Amounts(PairsMap(3, 4), PairsMap(1, 1))},
                   !.inputs = Pairs, !.amounts = {8}],
   [NoTrading EXCEPT !.range = 1, !.limit = 1, !.swap = 2, !.impact = 1, !.ranges = {<<-1, 1>>, <<-2, 2>>},
                   !.range_sizes = {Liquidity(12)}, !.sides = Pairs, !.ticks = {-1, 0, 1}, !.sizes = {4},
                   !.inputs = Pairs, !.amounts = {2, 6}],
   [NoTrading EXCEPT !.limit = 1, !.schedule = 2, !.block = 2, !.sides = {"Base"}, !.ticks = {0},
                   !.sizes = {2, 8}]}

\* Range orders that share a tick, and one swap between them: RangeOrdersNeverPanic fails.
RangeBudgets ==
  {[NoTrading EXCEPT !.range = 2, !.swap = 1, !.ranges = {<<-1, 0>>, <<0, 1>>},
                   !.range_sizes = {Liquidity(12)}, !.inputs = {"Quote"}, !.amounts = {2}]}


(***************************************************************************)

\* The providers are interchangeable in every part.
Symmetry == Permutations(LPs)

Init ==
  /\ part \in Parts
  /\ InitIngress /\ (part # "deposits" => deposit_budget = First(DepositBudgets))
  /\ SwappingInit /\ (part # "swaps" => swap_budget = First(SwapBudgets))
  /\ PoolsInit /\ (part # "pools" => pool_budget = First(PoolBudgets) /\ the_pool.fee = 0)

Next ==
  /\ UNCHANGED part
  /\ \/ part = "deposits" /\ DepositsNext /\ UNCHANGED <<swappingVars, poolsVars>>
     \/ part = "swaps" /\ SwappingNext /\ UNCHANGED <<depositVars, poolsVars>>
     \/ part = "pools" /\ PoolsNext /\ UNCHANGED <<depositVars, swappingVars>>

Spec == Init /\ [][Next]_<<part, depositVars, swappingVars, poolsVars>>
=============================================================================
