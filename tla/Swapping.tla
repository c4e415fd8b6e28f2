------------------------------ MODULE Swapping ------------------------------
(***************************************************************************)
(* The cf-swapping pallet: the queue of swaps, their execution in batches  *)
(* at the end of a block, fill-or-kill refunds, cross-chain messages whose *)
(* principal and gas are swapped separately, broker fees; with the network *)
(* fee of cf-pools, which is swapped to FLIP and burnt, and the egress of  *)
(* cf-ingress-egress, which withholds a fee and may schedule a swap of it. *)
(* What the pools give for an amount is a market that is chosen anew in    *)
(* each block; within a block every attempt at a batch sees the same one,  *)
(* because a failed attempt is rolled back.                                *)
(***************************************************************************)
EXTENDS Integers, TLC, FiniteSetsExt, SequencesExt

CONSTANTS Brokers,
          NetworkFee,          \* in basis points
          EgressFee,           \* what an egress costs, in units of each asset
          EgressDustLimit,     \* the least amount of each asset that is sent out
          SwapPriceOne,            \* the scale of a price
          Markets,             \* what the pools may offer
          LastSwapBlock,            \* bound: blocks in a behaviour
          SwapBudgets              \* bound: the calls of a behaviour and their inputs

VARIABLES swap_block,
          SwapQueue,           \* the swaps due at each block
          SwapIdCounter, CcmIdCounter,
          EarnedBrokerFees, PendingCcms, CcmOutputs, CollectedRejectedFunds,
          MaximumSwapAmount,   \* for each asset a set of at most one limit
          FlipToBurn, CollectedNetworkFee, FlipBuyInterval, WithheldTransactionFees,
          open_channels,                \* between on_initialize and on_finalize of the block
          swaps_enabled,       \* the safe mode of the pallet
          brokers,             \* accounts with the role of a broker
          channels,            \* the terms of the open deposit channels
          ledger,              \* history: where the funds went, what became of each swap
          swap_panicked,
          swap_budget

swappingVars == <<swap_block, open_channels, SwapQueue, SwapIdCounter, CcmIdCounter, EarnedBrokerFees, PendingCcms, CcmOutputs,
          CollectedRejectedFunds, MaximumSwapAmount, FlipToBurn, CollectedNetworkFee,
          FlipBuyInterval, WithheldTransactionFees, swaps_enabled, brokers, channels, ledger,
          swap_panicked, swap_budget>>

SWAP_DELAY_BLOCKS == 2
SWAP_RETRY_DELAY_BLOCKS == 5

Assets == {"Usdc", "Eth", "Flip", "Btc"}
STABLE_ASSET == "Usdc"
gas_asset(asset) == IF asset = "Btc" THEN "Btc" ELSE "Eth"
ccm_support(asset) == asset # "Btc"

NoFunds == [asset \in Assets |-> 0]
Only(set) == CHOOSE x \in set : TRUE
saturating_sub(a, b) == IF a < b THEN 0 ELSE a - b

\* Permill and BasisPoints times an amount: to the nearest, ties downwards.
Portion(bps, amount) == (2 * bps * amount + 9999) \div 20000

-----------------------------------------------------------------------------
(* The storage a call works on.                                            *)

SwapStorage == [queue |-> SwapQueue, ids |-> SwapIdCounter, ccm_ids |-> CcmIdCounter,
            fees |-> EarnedBrokerFees, ccms |-> PendingCcms, outputs |-> CcmOutputs,
            rejected |-> CollectedRejectedFunds, burn |-> FlipToBurn,
            network_fee |-> CollectedNetworkFee, withheld |-> WithheldTransactionFees,
            ledger |-> ledger, panicked |-> swap_panicked]

Stored(s) ==
  /\ SwapQueue' = s.queue /\ SwapIdCounter' = s.ids /\ CcmIdCounter' = s.ccm_ids
  /\ EarnedBrokerFees' = s.fees /\ PendingCcms' = s.ccms /\ CcmOutputs' = s.outputs
  /\ CollectedRejectedFunds' = s.rejected /\ FlipToBurn' = s.burn
  /\ CollectedNetworkFee' = s.network_fee /\ WithheldTransactionFees' = s.withheld
  /\ ledger' = s.ledger /\ swap_panicked' = s.panicked

SwapPanicIn(s, reason) == [s EXCEPT !.panicked = @ \cup {reason}]

QueueAt(queue, at) == IF at \in DOMAIN queue THEN queue[at] ELSE <<>>
Append_(queue, at, a_swap) == (at :> Append(QueueAt(queue, at), a_swap)) @@ queue

SwapOutcome(s, id, what, amount) ==
  [s EXCEPT !.ledger.history[id].outcomes = Append(@, [what |-> what, amount |-> amount])]

-----------------------------------------------------------------------------
(* Scheduling a swap.                                                      *)

\* Amounts above the maximum are confiscated, except from the network fee.
schedule_swap(s, from, to, amount, refund, kind, ccm) ==
  LET enqueue(id, swapped) ==
        [s EXCEPT !.ids = id,
                  !.rejected[from] = @ + (amount - swapped),
                  !.queue = Append_(@, swap_block + SWAP_DELAY_BLOCKS,
                                    [id |-> id, from |-> from, to |-> to, amount |-> swapped,
                                     refund |-> refund, kind |-> kind, ccm |-> ccm]),
                  !.ledger.history = Append(@, [at |-> swap_block, from |-> from, to |-> to,
                                                amount |-> swapped, price |-> 0, outcomes |-> <<>>])]
  IN  enqueue(s.ids + 1,
              IF kind = "NetworkFee" THEN amount ELSE Min(MaximumSwapAmount[from] \cup {amount}))

-----------------------------------------------------------------------------
(* Egress.                                                                 *)

Withhold(s, asset, fee) ==
  IF asset = gas_asset(asset) THEN [s EXCEPT !.withheld[asset] = @ + fee]
  ELSE IF fee = 0 THEN s
  ELSE schedule_swap(s, asset, gas_asset(asset), fee, {}, "IngressEgressFee", 0)

\* The fee stays withheld when what is left is too little to be sent.
schedule_egress(s, asset, amount) ==
  LET send(t, rest) ==
        IF rest >= EgressDustLimit[asset]
          THEN [ok |-> TRUE, s |-> [t EXCEPT !.ledger.egressed[asset] = @ + rest]]
          ELSE [ok |-> FALSE, s |-> [t EXCEPT !.ledger.ignored[asset] = @ + rest]]
  IN  send(Withhold(s, asset, Min({EgressFee[asset], amount})), saturating_sub(amount, EgressFee[asset]))

\* A message is sent with its gas whatever the amounts are.
schedule_ccm_egress(s, ccm, principal, gas) ==
  [s EXCEPT !.ledger.egressed[ccm.destination] = @ + principal,
            !.ledger.egressed[gas_asset(ccm.destination)] = @ + gas]

-----------------------------------------------------------------------------
(* Executing a batch.                                                      *)

\* SwapState::new; Option values are sets of at most one element.
SwapState(a_swap) ==
  [swap |-> a_swap,
   stable |-> IF a_swap.from = STABLE_ASSET THEN {a_swap.amount} ELSE {},
   final |-> IF a_swap.from = a_swap.to THEN {a_swap.amount} ELSE {}]

swap_asset(state, direction) ==
  LET asset == IF direction = "ToStable" THEN state.swap.from ELSE state.swap.to
  IN  {asset} \ {STABLE_ASSET}

swap_amount(state, direction) ==
  IF direction = "ToStable" THEN state.swap.amount ELSE Max(state.stable \cup {0})

update_swap_result(state, direction, output) ==
  IF direction = "FromStable" THEN [state EXCEPT !.final = {output}]
  ELSE [state EXCEPT !.stable = {output},
                     !.final = IF state.swap.to = STABLE_ASSET THEN {output} ELSE @]

\* What the pool of an asset gives for an input (swap_single_leg): a pool
\* with reserves on both sides, or none for more than it holds.
execute_leg(market, direction, asset, input) ==
  LET a_pool == market[direction][asset]
  IN  IF input > a_pool.depth THEN {} ELSE {(input * a_pool.out) \div (a_pool.in + input)}

FailedBatch(batch) == [batch EXCEPT !.ok = FALSE]

\* A swap's share of the output of its bundle, rounded down.
Share(amount, output, input) == IF input = 0 THEN 0 ELSE (amount * output) \div input

\* All swaps of one asset and direction are one swap of the pool.
execute_group_of_swaps(batch, asset, direction, market) ==
  LET members == {i \in DOMAIN batch.swaps : asset \in swap_asset(batch.swaps[i], direction)}
      from == IF direction = "ToStable" THEN asset ELSE STABLE_ASSET
      to == IF direction = "ToStable" THEN STABLE_ASSET ELSE asset
      bundle(input, output) ==
        [batch EXCEPT
           !.swaps = [i \in DOMAIN @ |->
                        IF i \notin members THEN @[i]
                        ELSE update_swap_result(@[i], direction,
                               Share(swap_amount(@[i], direction), output, input))],
           !.s.ledger.pools[from] = @ + input,
           !.s.ledger.pools[to] = @ - output,
           !.s.ledger.legs[to] = @ + Cardinality(members)]
      swapped(input, outputs) ==
        IF outputs = {} THEN FailedBatch(batch) ELSE bundle(input, Max(outputs))
      apply(input) == swapped(input, execute_leg(market, direction, asset, input))
  IN  IF ~batch.ok \/ members = {} THEN batch
      ELSE apply(MapThenSumSet(LAMBDA i : swap_amount(batch.swaps[i], direction), members))

do_group_and_swap(batch, direction, market) ==
  FoldSet(LAMBDA asset, b : execute_group_of_swaps(b, asset, direction, market),
          batch, Assets \ {STABLE_ASSET})

\* take_network_fee (cf-pools) for every swap that is not itself one of the fee.
take_network_fees(batch) ==
  LET charged(state, fee) ==
        [state EXCEPT !.stable = {swap_amount(state, "FromStable") - fee},
                      !.final = IF state.swap.to = STABLE_ASSET
                                  THEN {swap_amount(state, "FromStable") - fee} ELSE @]
      fee_of(state) == IF state.swap.kind = "NetworkFee" THEN 0
                       ELSE Portion(NetworkFee, swap_amount(state, "FromStable"))
  IN  IF ~batch.ok THEN batch
      ELSE [batch EXCEPT
              !.swaps = [i \in DOMAIN @ |->
                           IF @[i].swap.kind = "NetworkFee" THEN @[i] ELSE charged(@[i], fee_of(@[i]))],
              !.s.network_fee = @ + MapThenSumSet(LAMBDA i : fee_of(batch.swaps[i]),
                                                  DOMAIN batch.swaps)]

\* Whether a swap got the least output it was to have.
Satisfied(state) == \A refund \in state.swap.refund : \A final \in state.final : final >= refund.min

swap_into_stable_taking_network_fee(batch, market) ==
  take_network_fees(do_group_and_swap(batch, "ToStable", market))

\* An attempt at a batch: on an error its changes are rolled back.
execute_batch(s, swaps, market) ==
  do_group_and_swap(
    swap_into_stable_taking_network_fee(
      [ok |-> TRUE, s |-> s, swaps |-> [i \in DOMAIN swaps |-> SwapState(swaps[i])]], market),
    "FromStable", market)

-----------------------------------------------------------------------------
(* What becomes of the swaps of a batch.                                   *)

handle_ccm_swap_result(s, id, output, leg) ==
  LET finish(ccm, done) ==
        [schedule_ccm_egress(s, ccm, Max(done.principal), Max(done.gas)) EXCEPT
           !.ccms = Restrict(@, DOMAIN @ \ {id}),
           !.outputs = Restrict(@, DOMAIN @ \ {id})]
      record(done) ==
        IF done.principal = {} \/ done.gas = {} THEN [s EXCEPT !.outputs[id] = done]
        ELSE IF id \notin DOMAIN s.ccms THEN SwapPanicIn(s, "Ccm can only be completed once.")
        ELSE finish(s.ccms[id], done)
  IN  IF id \notin DOMAIN s.outputs
        THEN SwapPanicIn(s, "CCM that scheduled Swaps must exist in storage")
        ELSE record([s.outputs[id] EXCEPT ![leg] = {output}])

process_swap_outcome(s, state) ==
  LET a_swap == state.swap
      complete(t, output) ==
        CASE a_swap.kind = "Swap" -> schedule_egress(t, a_swap.to, output).s
          [] a_swap.kind = "CcmPrincipal" -> handle_ccm_swap_result(t, a_swap.ccm, output, "principal")
          [] a_swap.kind = "CcmGas" -> handle_ccm_swap_result(t, a_swap.ccm, output, "gas")
          [] a_swap.kind = "NetworkFee" /\ a_swap.to = "Flip" -> [t EXCEPT !.burn = @ + output]
          [] a_swap.kind = "IngressEgressFee" /\ a_swap.to = gas_asset(a_swap.to) ->
               [t EXCEPT !.withheld[a_swap.to] = @ + output]
          [] OTHER -> SwapPanicIn(t, "a fee is swapped to the wrong asset")
      executed(output) == complete(SwapOutcome(s, a_swap.id, "executed", output), output)
  IN  IF state.final = {} THEN SwapPanicIn(s, "Swap is not completed yet!") ELSE executed(Max(state.final))

process_swap_outcomes(s, states) == FoldLeft(process_swap_outcome, s, states)

\* A swap that failed is refunded if the next attempt would be too late.
refund_or_reschedule(s, a_swap) ==
  IF \E refund \in a_swap.refund : refund.block < swap_block + SWAP_RETRY_DELAY_BLOCKS
    THEN schedule_egress(SwapOutcome(s, a_swap.id, "refunded", a_swap.amount), a_swap.from, a_swap.amount).s
    ELSE [s EXCEPT !.queue = Append_(@, swap_block + SWAP_RETRY_DELAY_BLOCKS, a_swap)]

\* The batch is tried again without the swaps that missed their price, until
\* all of it succeeds or a pool cannot take it.
RECURSIVE execute_swaps(_, _, _)
execute_swaps(s, swaps, market) ==
  LET split(batch, satisfied) ==
        LET good == {i \in DOMAIN swaps : satisfied[i]}
            choose(keep) == [j \in 1..Cardinality(keep) |-> swaps[SetToSortSeq(keep, <)[j]]]
        IN  IF good = DOMAIN swaps THEN process_swap_outcomes(batch.s, batch.swaps)
            ELSE execute_swaps(FoldLeft(refund_or_reschedule, s, choose(DOMAIN swaps \ good)),
                               choose(good), market)
      settle(batch) ==
        IF ~batch.ok THEN FoldLeft(refund_or_reschedule, s, swaps)
        ELSE split(batch, [i \in DOMAIN swaps |-> Satisfied(batch.swaps[i])])
  IN  IF swaps = <<>> THEN s ELSE settle(execute_batch(s, swaps, market))

\* faulty variant: the swaps are read and not taken from the queue
finalize_without_taking(s, market) ==
  IF swaps_enabled THEN execute_swaps(s, QueueAt(s.queue, swap_block), market) ELSE s

\* All swaps due are executed; in safe mode they are put off.
swapping_on_finalize(s, market) ==
  LET due == QueueAt(s.queue, swap_block)
      taken == [s EXCEPT !.queue = Restrict(@, DOMAIN @ \ {swap_block})]
      put_off(t, a_swap) == [t EXCEPT !.queue = Append_(@, swap_block + SWAP_RETRY_DELAY_BLOCKS, a_swap)]
  IN  IF swaps_enabled THEN execute_swaps(taken, due, market)
      ELSE [FoldLeft(put_off, taken, due) EXCEPT
              !.ledger.postponed = @ + (IF due = <<>> THEN 0 ELSE 1)]

-----------------------------------------------------------------------------
(* Blocks.                                                                 *)

settings == <<MaximumSwapAmount, FlipBuyInterval, swaps_enabled, brokers, channels>>

\* A call within a block.
Call(what) == /\ open_channels /\ swap_panicked = {}
              /\ swap_budget[what] > 0
              /\ swap_budget' = [swap_budget EXCEPT ![what] = @ - 1]
              /\ UNCHANGED <<swap_block, open_channels>>

\* Bound: deposits are made in the first blocks only.
Deposited(what) == Call(what) /\ swap_block <= swap_budget.until

Received(s, asset, amount) == [s EXCEPT !.ledger.received[asset] = @ + amount]

\* cf-pools: every so many blocks the collected fees are swapped to FLIP.
pools_on_initialize ==
  IF FlipBuyInterval = 0 \/ swap_block % FlipBuyInterval # 0 \/ CollectedNetworkFee = 0 THEN SwapStorage
  ELSE [schedule_swap(SwapStorage, STABLE_ASSET, "Flip", CollectedNetworkFee, {}, "NetworkFee", 0) EXCEPT
          !.network_fee = 0]

\* A block starts with on_initialize and, after its calls, ends with on_finalize.
BlockStarts ==
  /\ ~open_channels /\ swap_block <= LastSwapBlock /\ swap_panicked = {}
  /\ Stored(pools_on_initialize)
  /\ open_channels' = TRUE
  /\ UNCHANGED <<swap_block, settings, swap_budget>>

BlockEnds ==
  /\ open_channels /\ swap_panicked = {}
  /\ \E market \in (IF swap_block \in DOMAIN SwapQueue THEN swap_budget.markets
                                                   ELSE {CHOOSE m \in Markets : TRUE}) :
       Stored(swapping_on_finalize(SwapStorage, market))
  /\ swap_block' = swap_block + 1 /\ open_channels' = FALSE
  /\ UNCHANGED <<settings, swap_budget>>

-----------------------------------------------------------------------------
(* Brokers and deposit channels.                                           *)

\* A commission is a function from brokers to basis points; a message is a
\* set of at most one gas budget.
request_swap_deposit_address_with_affiliates ==
  /\ Call("channel")
  /\ \E broker \in brokers, terms \in swap_budget.terms :
       /\ DOMAIN terms.commission \ {broker} \subseteq brokers
       /\ MapThenSumSet(LAMBDA b : terms.commission[b], DOMAIN terms.commission) <= 1000
       /\ terms.message # {} => ccm_support(terms.to)
       /\ channels' = channels \cup {terms}
  /\ Stored(SwapStorage)
  /\ UNCHANGED <<MaximumSwapAmount, FlipBuyInterval, swaps_enabled, brokers>>

register_as_broker ==
  /\ Call("role")
  /\ \E broker \in Brokers \ brokers : brokers' = brokers \cup {broker}
  /\ Stored(SwapStorage)
  /\ UNCHANGED <<MaximumSwapAmount, FlipBuyInterval, swaps_enabled, channels>>

deregister_as_broker ==
  /\ Call("role")
  /\ \E broker \in brokers :
       /\ EarnedBrokerFees[broker] = NoFunds
       /\ brokers' = brokers \ {broker}
  /\ Stored(SwapStorage)
  /\ UNCHANGED <<MaximumSwapAmount, FlipBuyInterval, swaps_enabled, channels>>

Withdrawal(broker, asset) ==
  schedule_egress([SwapStorage EXCEPT !.fees[broker][asset] = 0], asset, EarnedBrokerFees[broker][asset])

withdraw ==
  /\ Call("withdraw")
  /\ \E broker \in brokers, asset \in Assets :
       /\ EarnedBrokerFees[broker][asset] # 0
       /\ \E egress \in {Withdrawal(broker, asset)} : egress.ok /\ Stored(egress.s)
  /\ UNCHANGED settings

-----------------------------------------------------------------------------
(* Deposits.                                                               *)

\* The commission is taken from the deposit, and each broker's share added
\* to the broker's fees; the price limit becomes a least output and a block.
schedule_swap_from_channel(s, terms, amount) ==
  LET commission == terms.commission
      fee == Portion(MapThenSumSet(LAMBDA b : commission[b], DOMAIN commission), amount)
      refund == {[block |-> swap_block + r.retry_duration,
                  min |-> ((amount - fee) * r.min_price + SwapPriceOne - 1) \div SwapPriceOne] : r \in terms.refund}
      credited(t) ==
        [t EXCEPT !.fees = [b \in Brokers |-> IF b \notin DOMAIN commission THEN @[b] ELSE
                              [@[b] EXCEPT ![terms.from] = @ + Portion(commission[b], amount)]],
                  !.ledger.shares[terms.from] =
                    @ + (IF Cardinality(DOMAIN commission) < 2 THEN 0 ELSE Cardinality(DOMAIN commission) + 1),
                  !.ledger.history[t.ids].price = Max({0} \cup {r.min_price : r \in terms.refund})]
  IN  credited(schedule_swap(s, terms.from, terms.to, amount - fee, refund, "Swap", 0))

principal_and_gas_amounts(amount, gas_budget, source, destination) ==
  [ok |-> ccm_support(destination) /\ amount >= gas_budget,
   principal |-> saturating_sub(amount, gas_budget),
   gas |-> gas_budget,
   other_gas_asset |-> IF gas_budget = 0 THEN {} ELSE {gas_asset(destination)} \ {source}]

\* Whether the principal has to be swapped.
PrincipalSwapped(source, destination, amounts) == source # destination /\ amounts.principal # 0

on_ccm_deposit(s, source, amount, destination, gas_budget) ==
  LET store(t, ccm, output) ==
        IF output.principal # {} /\ output.gas # {}
          THEN schedule_ccm_egress(t, ccm, Max(output.principal), Max(output.gas))
          ELSE [t EXCEPT !.ccms = (t.ccm_ids :> ccm) @@ @, !.outputs = (t.ccm_ids :> output) @@ @]
      gas(t, amounts, principal) ==
        store(IF amounts.other_gas_asset = {} THEN t
              ELSE schedule_swap(t, source, Only(amounts.other_gas_asset), amounts.gas, {},
                                 "CcmGas", t.ccm_ids),
              [source |-> source, destination |-> destination],
              [principal |-> principal,
               gas |-> IF amounts.other_gas_asset = {} THEN {amounts.gas} ELSE {}])
      principal(t, amounts) ==
        IF PrincipalSwapped(source, destination, amounts)
          THEN gas(schedule_swap(t, source, destination, amounts.principal, {}, "CcmPrincipal",
                                 t.ccm_ids), amounts, {})
          ELSE gas(t, amounts, {amounts.principal})
      accept(amounts) ==
        IF amounts.ok THEN principal([s EXCEPT !.ccm_ids = @ + 1], amounts)
        ELSE [s EXCEPT !.rejected[source] = @ + amount]
  IN  accept(principal_and_gas_amounts(amount, gas_budget, source, destination))

\* A deposit into a channel: IngressEgress, perform_channel_action.
DepositToChannel ==
  /\ Deposited("deposit")
  /\ \E terms \in channels, amount \in swap_budget.amounts :
       Stored(IF terms.message = {}
                THEN schedule_swap_from_channel(Received(SwapStorage, terms.from, amount), terms, amount)
                ELSE on_ccm_deposit(Received(SwapStorage, terms.from, amount), terms.from, amount,
                                    terms.to, Only(terms.message)))
  /\ UNCHANGED settings

schedule_swap_from_contract ==
  /\ Deposited("contract")
  /\ \E from, to \in swap_budget.assets, amount \in swap_budget.amounts :
       Stored(schedule_swap(Received(SwapStorage, from, amount), from, to, amount, {}, "Swap", 0))
  /\ UNCHANGED settings

ccm_deposit ==
  /\ Deposited("ccm")
  /\ \E from, to \in swap_budget.assets, amount \in swap_budget.amounts, gas_budget \in swap_budget.gas :
       Stored(on_ccm_deposit(Received(SwapStorage, from, amount), from, amount, to, gas_budget))
  /\ UNCHANGED settings

-----------------------------------------------------------------------------
(* Governance, and the burning of FLIP by cf-emissions.                    *)

update_pallet_config ==
  /\ Call("config")
  /\ \E asset \in swap_budget.assets, limit \in swap_budget.limits :
       MaximumSwapAmount' = [MaximumSwapAmount EXCEPT ![asset] = limit]
  /\ Stored(SwapStorage)
  /\ UNCHANGED <<FlipBuyInterval, swaps_enabled, brokers, channels>>

update_buy_interval ==
  /\ Call("interval")
  /\ \E interval \in swap_budget.intervals \ {0} : FlipBuyInterval' = interval
  /\ Stored(SwapStorage)
  /\ UNCHANGED <<MaximumSwapAmount, swaps_enabled, brokers, channels>>

SetSafeMode ==
  /\ Call("safe_mode")
  /\ swaps_enabled' = ~swaps_enabled
  /\ Stored(SwapStorage)
  /\ UNCHANGED <<MaximumSwapAmount, FlipBuyInterval, brokers, channels>>

\* The FLIP taken is sent off chain to be burnt.
take_flip_to_burn ==
  /\ Call("burn")
  /\ FlipToBurn > 0
  /\ Stored([SwapStorage EXCEPT !.burn = 0, !.ledger.egressed["Flip"] = @ + FlipToBurn])
  /\ UNCHANGED settings

-----------------------------------------------------------------------------

SwappingInit ==
  /\ swap_block = 1 /\ open_channels = TRUE
  /\ SwapQueue = <<>> /\ SwapIdCounter = 0 /\ CcmIdCounter = 0
  /\ EarnedBrokerFees = [b \in Brokers |-> NoFunds]
  /\ PendingCcms = <<>> /\ CcmOutputs = <<>>
  /\ CollectedRejectedFunds = NoFunds /\ MaximumSwapAmount = [asset \in Assets |-> {}]
  /\ FlipToBurn = 0 /\ CollectedNetworkFee = 0 /\ FlipBuyInterval = 0
  /\ WithheldTransactionFees = NoFunds
  /\ swaps_enabled = TRUE /\ brokers = {} /\ swap_panicked = {}
  /\ swap_budget \in SwapBudgets
  /\ channels = swap_budget.channels
  /\ ledger = [received |-> NoFunds, egressed |-> NoFunds, ignored |-> NoFunds, pools |-> NoFunds,
               shares |-> NoFunds, legs |-> NoFunds, history |-> <<>>, postponed |-> 0]

SwappingNext ==
  \/ BlockStarts
  \/ BlockEnds
  \/ request_swap_deposit_address_with_affiliates
  \/ register_as_broker
  \/ deregister_as_broker
  \/ withdraw
  \/ DepositToChannel
  \/ schedule_swap_from_contract
  \/ ccm_deposit
  \/ update_pallet_config
  \/ update_buy_interval
  \/ SetSafeMode
  \/ take_flip_to_burn

SwappingSpec == SwappingInit /\ [][SwappingNext]_swappingVars

-----------------------------------------------------------------------------
(* Properties.                                                             *)

Queued == UNION {{<<at, i>> : i \in DOMAIN SwapQueue[at]} : at \in DOMAIN SwapQueue}
QueuedSwap(q) == SwapQueue[q[1]][q[2]]

\* The storage has its types; amounts are never negative, a least output is
\* only kept for swaps to an address.
SwappingTypeOK ==
  /\ swap_block \in Nat /\ open_channels \in BOOLEAN /\ swaps_enabled \in BOOLEAN
  /\ \A q \in Queued :
       /\ QueuedSwap(q).id \in 1..SwapIdCounter
       /\ {QueuedSwap(q).from, QueuedSwap(q).to} \subseteq Assets
       /\ QueuedSwap(q).amount \in Nat
       /\ QueuedSwap(q).refund # {} => QueuedSwap(q).kind = "Swap"
  /\ \A b \in Brokers : EarnedBrokerFees[b] \in [Assets -> Nat]
  /\ CollectedRejectedFunds \in [Assets -> Nat] /\ WithheldTransactionFees \in [Assets -> Nat]
  /\ FlipToBurn \in Nat /\ CollectedNetworkFee \in Nat

\* Every swap that was ever scheduled is either queued once, or it was
\* executed or refunded, once: on_finalize neither loses a swap nor settles
\* one twice, however often the batch is split and tried again.
SettledOnce ==
  \A id \in 1..SwapIdCounter :
    Cardinality({q \in Queued : QueuedSwap(q).id = id}) + Len(ledger.history[id].outcomes) = 1

\* No swap is due in a block that is over: on_finalize takes only the swaps
\* of its own block, so such a swap would never be executed.
QueueAhead == \A at \in DOMAIN SwapQueue : at >= swap_block

\* The parts of a message that are still to come are exactly its queued
\* swaps: the two `expect`s of handle_ccm_swap_result hold, no message waits
\* for a swap that does not come, and fees are swapped to the right asset.
CcmLegsMatch ==
  LET waiting(kind, id) ==
        Cardinality({q \in Queued : QueuedSwap(q).kind = kind /\ QueuedSwap(q).ccm = id})
  IN  /\ swap_panicked = {}
      /\ DOMAIN PendingCcms = DOMAIN CcmOutputs
      /\ \A id \in 1..CcmIdCounter :
           LET missing(part) == IF id \in DOMAIN CcmOutputs /\ CcmOutputs[id][part] = {} THEN 1 ELSE 0
           IN  /\ waiting("CcmPrincipal", id) = missing("principal")
               /\ waiting("CcmGas", id) = missing("gas")
               /\ id \in DOMAIN CcmOutputs => missing("principal") + missing("gas") > 0

\* A swap with a price limit that was executed got at least that price for
\* what was swapped, after the network fee and whatever else was in its batch.
PriceRespected ==
  \A id \in 1..SwapIdCounter : \A i \in DOMAIN ledger.history[id].outcomes :
    LET a_swap == ledger.history[id]  outcome == a_swap.outcomes[i]
    IN  outcome.what = "executed" => outcome.amount * SwapPriceOne >= a_swap.amount * a_swap.price

\* A swap with a price limit is never tried again later than its retry
\* duration allows, except for the times that safe mode put it off.
RefundInTime ==
  \A q \in Queued : \A refund \in QueuedSwap(q).refund :
    q[1] <= Max({refund.block, ledger.history[QueuedSwap(q).id].at + SWAP_DELAY_BLOCKS})
              + SWAP_RETRY_DELAY_BLOCKS * ledger.postponed

\* What the pallets still owe in an asset.
OwedBySwaps(asset) ==
  LET parts(id) ==
        (IF PendingCcms[id].destination = asset THEN Max({0} \cup CcmOutputs[id].principal) ELSE 0)
          + (IF gas_asset(PendingCcms[id].destination) = asset THEN Max({0} \cup CcmOutputs[id].gas) ELSE 0)
  IN  MapThenSumSet(LAMBDA q : IF QueuedSwap(q).from = asset THEN QueuedSwap(q).amount ELSE 0, Queued)
        + MapThenSumSet(LAMBDA b : EarnedBrokerFees[b][asset], Brokers)
        + MapThenSumSet(parts, DOMAIN PendingCcms)
        + CollectedRejectedFunds[asset] + WithheldTransactionFees[asset]
        + (IF asset = "Flip" THEN FlipToBurn ELSE 0)
        + (IF asset = STABLE_ASSET THEN CollectedNetworkFee ELSE 0)

\* What was received of an asset, less what was sent out and what the pools
\* took, is what is owed, up to what was too little to be sent and to
\* rounding: less than one unit for each swap of a bundle, and half a unit
\* for each share of a commission. A batch that is rolled back leaves no
\* network fee behind, a refund is not paid beside an execution, and nothing
\* that is confiscated, withheld or to be burnt is counted twice or lost.
FundsAccounted ==
  \A asset \in Assets :
    LET l == ledger
        surplus == l.received[asset] - l.egressed[asset] - l.ignored[asset] - l.pools[asset] - OwedBySwaps(asset)
    IN  /\ -l.shares[asset] <= 2 * surplus
        /\ 2 * surplus <= l.shares[asset] + 2 * l.legs[asset]

\* Swaps are settled once, in time, at the price they ask for, and no funds are lost
\* or made on the way, however batches fail and are tried again.
SwapsAreAccountedFor ==
  /\ SwappingTypeOK /\ SettledOnce /\ QueueAhead /\ CcmLegsMatch
  /\ PriceRespected /\ RefundInTime /\ FundsAccounted
=============================================================================
