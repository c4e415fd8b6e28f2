--------------------------- MODULE IngressEgress ----------------------------
(***************************************************************************)
(* Deposits and egress of one EVM chain (pallet cf-ingress-egress) with    *)
(* the boost pools and the free balances of liquidity providers (cf-lp).   *)
(* Deposit channels are opened, deposited to, boosted when a deposit is    *)
(* prewitnessed, finalised, fetched and, one lifetime after they expired,  *)
(* recycled.  An address is named by its channel id.                       *)
(*                                                                         *)
(* Swaps are handed the deposits they are made from, and give back what    *)
(* they egress (module Swapping).  A call that is refused changes nothing, *)
(* so reasons to refuse that change nothing else (safe mode, the account   *)
(* role, the fee for opening a channel) are left out.  Failed cross-chain  *)
(* calls (FailedForeignChainCalls) are in module Broadcast.                *)
(***************************************************************************)
EXTENDS Integers, FiniteSets, Functions, TLC, SequencesExt

(***************************************************************************)
(* A boost pool (cf-ingress-egress, pool.rs): boosters put funds in  *)
(* a pool, which advances deposits that are not final yet; what each of    *)
(* them is owed is recorded per deposit.  Inside the pool amounts are      *)
(* scaled by ScaleFactor.  Operations are operators on a pool record; the  *)
(* saturation of 128-bit amounts is out of reach of any supply and left    *)
(* out.                                                                    *)
(***************************************************************************)

CONSTANTS ScaleFactor, BasisPointsMax

ASSUME ScaleAssumption == ScaleFactor \in Nat \ {0} /\ BasisPointsMax \in Nat \ {0}

Total(f) == FoldFunction(+, 0, f)
Excluding(f, k) == Restrict(f, DOMAIN f \ {k})

from_chain_amount(amount) == amount * ScaleFactor
into_chain_amount(scaled) == scaled \div ScaleFactor

\* multiply_by_rational_with_rounding, down and up
MulDown(x, num, den) == (x * num) \div den
MulUp(x, num, den) == (x * num + den - 1) \div den
\* A Permill times an amount: to the nearest, and down when in the middle.
MulNearest(x, num, den) == MulDown(x, num, den) + (IF 2 * ((x * num) % den) > den THEN 1 ELSE 0)

fee_from_boosted_amount(scaled, bps) == MulNearest(scaled, bps, BasisPointsMax)
fee_from_provided_amount(scaled, bps) == MulDown(scaled, BasisPointsMax, BasisPointsMax - bps) - scaled

Empty == [x \in {} |-> {}]

\* `amounts` are the shares of the boosters in `available`; `pending_boosts`
\* says what each contributor is owed for a deposit; `pending_withdrawals`
\* the deposits a booster who stopped still waits for.
new(fee_bps) ==
  [fee_bps |-> fee_bps, available |-> 0, amounts |-> Empty, pending_boosts |-> Empty,
   pending_withdrawals |-> Empty]

CreditLP(amounts, b, scaled) ==
  (b :> scaled + (IF b \in DOMAIN amounts THEN amounts[b] ELSE 0)) @@ amounts

\* A booster who adds funds does not want to withdraw any more.
add_funds_inner(boost_pool, b, scaled) ==
  [boost_pool EXCEPT !.pending_withdrawals = Excluding(@, b),
               !.amounts = CreditLP(@, b, scaled),
               !.available = @ + scaled]

add_funds(boost_pool, b, amount) == add_funds_inner(boost_pool, b, from_chain_amount(amount))

WithExcess(amounts, lucky, excess) == [amounts EXCEPT ![lucky] = @ + excess]

WithRemainder(toReceive, lucky, remainder) == [toReceive EXCEPT ![lucky] = @ + remainder]

\* Contributions are rounded up, what is owed is rounded down, and a "lucky"
\* booster gets both differences.
use_funds_for_boosting(boost_pool, deposit, required, fee, lucky) ==
  LET shares == boost_pool.amounts
      contribution == [b \in DOMAIN shares |-> MulUp(required, shares[b], boost_pool.available)]
      toReceive == [b \in DOMAIN shares |-> MulDown(required + fee, shares[b], boost_pool.available)]
      left == [b \in DOMAIN shares |-> shares[b] - contribution[b]]
      excess == Total(contribution) - required
      remainder == required + fee - Total(toReceive)
  IN  [boost_pool EXCEPT !.available = @ - required,
                   !.amounts = WithExcess(left, lucky, excess),
                   !.pending_boosts = (deposit :> WithRemainder(toReceive, lucky, remainder)) @@ @]

\* The pool provides what the deposit needs, or all it has.  The amounts it
\* reports back are whole.
provide_funds_for_boosting(boost_pool, deposit, amount, lucky) ==
  LET toBoost == from_chain_amount(amount)
      fullFee == fee_from_boosted_amount(toBoost, boost_pool.fee_bps)
      enough == boost_pool.available >= toBoost - fullFee
      provided == IF enough THEN toBoost - fullFee ELSE boost_pool.available
      fee == IF enough THEN fullFee ELSE fee_from_provided_amount(boost_pool.available, boost_pool.fee_bps)
  IN  [pool |-> use_funds_for_boosting(boost_pool, deposit, provided, fee, lucky),
       boosted |-> into_chain_amount(provided + fee),
       fee |-> into_chain_amount(fee)]

\* The contributors to a deposit that wait for it wait for it no longer.
StopWaiting(withdrawals, contributors, deposit) ==
  LET left == [b \in DOMAIN withdrawals |->
                 IF b \in contributors THEN withdrawals[b] \ {deposit} ELSE withdrawals[b]]
  IN  Restrict(left, {b \in DOMAIN left : b \in contributors => left[b] # {}})

\* Nothing, when the pool has not boosted the deposit.
OwedByDeposits(boost_pool, deposit) ==
  IF deposit \in DOMAIN boost_pool.pending_boosts THEN boost_pool.pending_boosts[deposit] ELSE Empty

\* LPs who stopped get what they are owed, in whole units; the others
\* have it added to their share.
process_deposit_as_finalised(boost_pool, deposit) ==
  LET owed == OwedByDeposits(boost_pool, deposit)
      leaving == DOMAIN owed \cap DOMAIN boost_pool.pending_withdrawals
      staying == DOMAIN owed \ leaving
      back == [b \in staying \cup DOMAIN boost_pool.amounts |->
                 (IF b \in staying THEN owed[b] ELSE 0)
                 + (IF b \in DOMAIN boost_pool.amounts THEN boost_pool.amounts[b] ELSE 0)]
  IN  [pool |-> [boost_pool EXCEPT !.pending_boosts = Excluding(@, deposit),
                             !.pending_withdrawals = StopWaiting(@, DOMAIN OwedByDeposits(boost_pool, deposit), deposit),
                             !.amounts = back,
                             !.available = @ + Total(Restrict(owed, staying))],
       unlocked |-> [b \in leaving |-> into_chain_amount(owed[b])]]

process_deposit_as_lost(boost_pool, deposit) ==
  [boost_pool EXCEPT !.pending_boosts = Excluding(@, deposit),
               !.pending_withdrawals = StopWaiting(@, DOMAIN OwedByDeposits(boost_pool, deposit), deposit)]

Contributed(boost_pool, b) == {d \in DOMAIN boost_pool.pending_boosts : b \in DOMAIN boost_pool.pending_boosts[d]}

\* The whole units of the booster's share are unlocked and the rest is gone;
\* the booster waits for the deposits it contributed to.
stop_boosting(boost_pool, b) ==
  [pool |-> [boost_pool EXCEPT !.amounts = Excluding(@, b),
                         !.available = @ - boost_pool.amounts[b],
                         !.pending_withdrawals =
                            IF Contributed(boost_pool, b) = {} THEN @ ELSE (b :> Contributed(boost_pool, b)) @@ @],
   unlocked |-> into_chain_amount(boost_pool.amounts[b])]

----------------------------------------------------------------------------

\* The pool's available amount is the sum of its boosters' shares, and none of
\* them is negative, however contributions were rounded.
SharesBalance(boost_pool) ==
  /\ boost_pool.available = Total(boost_pool.amounts)
  /\ \A b \in DOMAIN boost_pool.amounts : boost_pool.amounts[b] >= 0

\* A booster who stopped has no share, and waits for exactly the deposits in
\* which it is owed something.
WithdrawalsExact(boost_pool) ==
  \A b \in DOMAIN boost_pool.pending_withdrawals :
    /\ b \notin DOMAIN boost_pool.amounts
    /\ boost_pool.pending_withdrawals[b] = Contributed(boost_pool, b)
    /\ boost_pool.pending_withdrawals[b] # {}

CONSTANTS Boosters,            \* liquidity providers, who are the boosters too
          ChainAssets, GasAsset, BoostAsset, \* assets of the chain; the one with boost pools
          Tiers,          \* fees of the boost pools, in basis points
          MaxChannels, \* bound
          DepositChannelLifetime,
          WitnessDelay,   \* blocks by which a deposit may be witnessed late
          DepositAmounts, BoostAmounts, WithdrawAmounts, MinimumDeposits,
          Fees,           \* estimates of the ingress and egress fee
          DepositDustLimit, BoosterBalance,
          DepositBudgets,        \* bounds: channels that may be open, how often things happen
          NoChannel

ASSUME IngressAssumption ==
  /\ GasAsset \in ChainAssets /\ BoostAsset \in ChainAssets
  /\ 0 \notin Tiers /\ \A t \in Tiers : t < BasisPointsMax
  /\ WitnessDelay < DepositChannelLifetime

ChannelIds == 1 .. MaxChannels
Actions == Boosters \cup {"Swap", "Ccm"}

VARIABLES
  DepositChannelLookup, DepositChannelPool, ChannelIdCounter, DepositChannelRecycleBlocks,
  BoostPools, PrewitnessedDepositIdCounter,
  MinimumDeposit, DisabledEgressAssets,
  ScheduledEgressFetchOrTransfer, ScheduledEgressCcm,
  DepositBalances, WithheldFees,
  FreeBalances,
  height,      \* block height of the chain, as chain tracking knows it
  deposits,    \* external: deposits on the chain that are not final here
  batches,     \* external: the addresses of the fetch batches that were sent
  handed,      \* external: what swaps have been given, per asset
  feeSwaps,    \* external: fees handed to swaps for gas, per asset
  paidIn,      \* history: deposits that were accepted, per asset
  paidOut,     \* history: what was egressed, or is owed to nobody
  boost_parts,       \* history: how many pools took part in boosts
  deploys,     \* history: how often an address was deployed
  deposit_budget

channelVars == <<DepositChannelLookup, DepositChannelPool, ChannelIdCounter, DepositChannelRecycleBlocks>>
boostVars == <<BoostPools, PrewitnessedDepositIdCounter, boost_parts>>
configVars == <<MinimumDeposit, DisabledEgressAssets>>
egressVars == <<ScheduledEgressFetchOrTransfer, ScheduledEgressCcm>>
feeVars == <<DepositBalances, WithheldFees, feeSwaps>>
depositVars == <<channelVars, boostVars, configVars, egressVars, feeVars, FreeBalances, height, deposits,
          batches, handed, paidIn, paidOut, deploys, deposit_budget>>

SatSub(x, y) == IF x > y THEN x - y ELSE 0
AtMost(x, y) == IF x < y THEN x ELSE y
DepositBounded(action) == deposit_budget[action] > 0 /\ deposit_budget' = [deposit_budget EXCEPT ![action] = @ - 1]

NotBoosted == [id |-> 0, pools |-> {}, amount |-> 0]
ZeroFunds == [a \in ChainAssets |-> 0]

InitIngress ==
  /\ DepositChannelLookup = [c \in ChannelIds |-> NoChannel]
  /\ DepositChannelPool = {} /\ ChannelIdCounter = 0 /\ DepositChannelRecycleBlocks = <<>>
  /\ BoostPools = [t \in Tiers |-> new(t)]
  /\ PrewitnessedDepositIdCounter = 0
  /\ MinimumDeposit = 0 /\ DisabledEgressAssets = {}
  /\ ScheduledEgressFetchOrTransfer = <<>> /\ ScheduledEgressCcm = <<>>
  /\ DepositBalances = [a \in ChainAssets |-> [unfetched |-> 0, fetched |-> 0]]
  /\ WithheldFees = 0 /\ feeSwaps = ZeroFunds
  /\ FreeBalances = [l \in Boosters |-> [a \in ChainAssets |-> IF a = BoostAsset THEN BoosterBalance ELSE 0]]
  /\ height = 0 /\ deposits = {} /\ batches = {} /\ handed = ZeroFunds
  /\ paidIn = [a \in ChainAssets |-> IF a = BoostAsset THEN BoosterBalance * Cardinality(Boosters) ELSE 0]
  /\ paidOut = ZeroFunds /\ boost_parts = 0 /\ deploys = [c \in ChannelIds |-> 0]
  /\ deposit_budget \in DepositBudgets

----------------------------------------------------------------------------
(* Channels *)

expiry_and_recycle_block_height(now) ==
  [expires |-> now + DepositChannelLifetime, recycle |-> now + 2 * DepositChannelLifetime]

\* An address from the pool is used again, with its state; else the next id.
open_channel(c, asset, action, boost_fee) ==
  LET heights == expiry_and_recycle_block_height(height)
      reused == DepositChannelPool # {}
  IN  /\ DepositBounded("open")
      /\ [asset |-> asset, action |-> action, boost_fee |-> boost_fee] \in deposit_budget.channels
      /\ IF reused THEN c \in DepositChannelPool ELSE c = ChannelIdCounter + 1 /\ c <= MaxChannels
      /\ DepositChannelPool' = DepositChannelPool \ {c}
      /\ ChannelIdCounter' = IF reused THEN ChannelIdCounter ELSE c
      /\ DepositChannelRecycleBlocks' =
           Append(DepositChannelRecycleBlocks, [block |-> heights.recycle, address |-> c])
      /\ DepositChannelLookup' =
           [DepositChannelLookup EXCEPT ![c] =
              [asset |-> asset, state |-> IF reused THEN "Deployed" ELSE "Undeployed",
               opened_at |-> height, expires_at |-> heights.expires, action |-> action,
               boost_fee |-> boost_fee, boost_status |-> NotBoosted]]
      /\ UNCHANGED <<boostVars, configVars, egressVars, feeVars, FreeBalances, height, deposits, batches,
                     handed, paidIn, paidOut, deploys>>

request_liquidity_deposit_address(c, asset, lp_account, boost_fee) == open_channel(c, asset, lp_account, boost_fee)

request_swap_deposit_address(c, asset, ccm, boost_fee) ==
  open_channel(c, asset, IF ccm THEN "Ccm" ELSE "Swap", boost_fee)

\* Undeployed addresses are not recycled; the others count as deployed.
maybe_recycle(state) == state # "Undeployed"

LoseBoost(tier, boost_pool, status) ==
  IF tier \in status.pools THEN process_deposit_as_lost(boost_pool, status.id) ELSE boost_pool

AfterTaking(queue, taken) == SubSeq(queue, taken + 1, Len(queue))

\* The queue is searched as a sorted one; weight may limit how many are taken.
on_idle(taken) ==
  LET queue == DepositChannelRecycleBlocks
      due == Cardinality({i \in DOMAIN queue : queue[i].block <= height})
      recycled == {queue[i].address : i \in 1 .. taken}
      opened == {c \in recycled : DepositChannelLookup[c] # NoChannel}
      Lost(tier, boost_pool, c) == LoseBoost(tier, boost_pool, DepositChannelLookup[c].boost_status)
  IN  /\ taken \in 1 .. due
      /\ DepositChannelRecycleBlocks' = AfterTaking(queue, taken)
      /\ DepositChannelLookup' = [c \in ChannelIds |-> IF c \in recycled THEN NoChannel ELSE DepositChannelLookup[c]]
      /\ DepositChannelPool' =
           DepositChannelPool \cup {c \in opened : maybe_recycle(DepositChannelLookup[c].state)}
      /\ BoostPools' = [t \in Tiers |-> FoldSet(LAMBDA c, boost_pool : Lost(t, boost_pool, c), BoostPools[t], opened)]
      /\ UNCHANGED <<ChannelIdCounter, PrewitnessedDepositIdCounter, boost_parts, configVars, egressVars, feeVars,
                     FreeBalances, height, deposits, batches, handed, paidIn, paidOut, deploys, deposit_budget>>

----------------------------------------------------------------------------
(* Fees and balances *)

register_deposit(balances, a, amount) == [balances EXCEPT ![a].unfetched = @ + amount]
register_transfer(balances, a, amount) == [balances EXCEPT ![a].fetched = SatSub(@, amount)]
mark_as_fetched(balances, a, amount) ==
  [balances EXCEPT ![a].unfetched = SatSub(@, amount), ![a].fetched = @ + amount]

FeeTaken(fee, amount) == AtMost(fee, amount)

\* A fee in the gas asset is withheld; another is swapped for gas.  For an
\* asset that is not the gas asset, `fee` is what the pools ask for the gas.
withhold_ingress_or_egress_fee(balances, a, amount, fee) ==
  LET taken == FeeTaken(fee, amount)
  IN  [after |-> SatSub(amount, fee),
       balances |-> IF a = GasAsset THEN register_transfer(balances, a, taken) ELSE balances,
       withheld |-> IF a = GasAsset THEN taken ELSE 0,
       swapped |-> IF a = GasAsset THEN 0 ELSE taken]

ChargeFee(a, charged) ==
  /\ WithheldFees' = WithheldFees + charged.withheld
  /\ feeSwaps' = [feeSwaps EXCEPT ![a] = @ + charged.swapped]

try_credit_account(balances, l, a, amount) == [balances EXCEPT ![l][a] = @ + amount]

\* The deposit is credited to a provider or handed to a swap; a cross-chain
\* message that is refused leaves the deposit with nobody.
perform_channel_action(action, a, amount, accepted) ==
  /\ FreeBalances' = IF action \in Boosters THEN try_credit_account(FreeBalances, action, a, amount) ELSE FreeBalances
  /\ handed' = IF action \in Boosters \/ (action = "Ccm" /\ ~accepted) THEN handed
               ELSE [handed EXCEPT ![a] = @ + amount]
  /\ paidOut' = IF action = "Ccm" /\ ~accepted THEN [paidOut EXCEPT ![a] = @ + amount] ELSE paidOut

----------------------------------------------------------------------------
(* Deposits *)

\* external: somebody deposits to an open channel before it expires.
Deposit(c, amount) ==
  LET channel == DepositChannelLookup[c]
  IN  /\ DepositBounded("deposit")
      /\ channel # NoChannel /\ height <= channel.expires_at
      /\ deposits' = deposits \cup
           {[n |-> deposit_budget["deposit"], c |-> c, asset |-> channel.asset, amount |-> amount, block |-> height,
             opened_at |-> channel.opened_at, action |-> channel.action, prewitnessed |-> FALSE]}
      /\ UNCHANGED <<channelVars, boostVars, configVars, egressVars, feeVars, FreeBalances, height, batches,
                     handed, paidIn, paidOut, deploys>>

\* external: the deposit is dropped in a reorganisation.
Reorg(d) ==
  /\ DepositBounded("reorg") /\ deposits' = deposits \ {d}
  /\ UNCHANGED <<channelVars, boostVars, configVars, egressVars, feeVars, FreeBalances, height, batches,
                 handed, paidIn, paidOut, deploys>>

\* external: the chain goes on; deposits are witnessed with a bounded delay.
Advance ==
  /\ DepositBounded("height") /\ height' = height + 1
  /\ \A d \in deposits : height' <= d.block + WitnessDelay
  /\ UNCHANGED <<channelVars, boostVars, configVars, egressVars, feeVars, FreeBalances, deposits, batches,
                 handed, paidIn, paidOut, deploys>>

\* The pools contribute from the cheapest up to the channel's fee, until the
\* deposit is covered; `lucky` says who gets the roundings of each pool.
try_boosting(a, amount, maxFee, id, lucky) ==
  LET Contribute(acc, t) ==
        LET boost_pool == BoostPools[t]
            part == provide_funds_for_boosting(boost_pool, id, acc.remaining, lucky[t])
        IN  IF acc.remaining = 0 \/ t > maxFee \/ into_chain_amount(boost_pool.available) = 0 THEN acc
            ELSE [remaining |-> SatSub(acc.remaining, part.boosted), fee |-> acc.fee + part.fee,
                  used |-> acc.used \cup {t}, pools |-> [acc.pools EXCEPT ![t] = part.pool]]
  IN  FoldLeft(Contribute, [remaining |-> amount, fee |-> 0, used |-> {}, pools |-> BoostPools],
               IF a = BoostAsset THEN SetToSortSeq(Tiers, <) ELSE <<>>)

MayBoost(channel) == channel.boost_fee > 0 /\ channel.boost_status = NotBoosted

\* add_prewitnessed_deposits, for one deposit
prewitnessed(d, fee, lucky, accepted) ==
  LET channel == DepositChannelLookup[d.c]
      id == PrewitnessedDepositIdCounter + 1
      boost == try_boosting(d.asset, d.amount, channel.boost_fee, id, lucky)
      charged == withhold_ingress_or_egress_fee(DepositBalances, d.asset, SatSub(d.amount, boost.fee), fee)
      considered == d.amount >= MinimumDeposit /\ channel # NoChannel
      boosted == considered /\ MayBoost(channel) /\ boost.remaining = 0
  IN  /\ ~d.prewitnessed
      /\ \A t \in Tiers : lucky[t] \in DOMAIN BoostPools[t].amounts \/ DOMAIN BoostPools[t].amounts = {}
      /\ deposits' = (deposits \ {d}) \cup {[d EXCEPT !.prewitnessed = TRUE]}
      /\ PrewitnessedDepositIdCounter' = IF considered THEN id ELSE PrewitnessedDepositIdCounter
      /\ IF boosted
         THEN /\ BoostPools' = boost.pools /\ boost_parts' = boost_parts + Cardinality(boost.used)
              /\ DepositChannelLookup' = [DepositChannelLookup EXCEPT ![d.c].boost_status =
                                            [id |-> id, pools |-> boost.used, amount |-> d.amount]]
              /\ DepositBalances' = charged.balances /\ ChargeFee(d.asset, charged)
              /\ perform_channel_action(channel.action, d.asset, charged.after, accepted)
         ELSE UNCHANGED <<BoostPools, boost_parts, DepositChannelLookup, feeVars, FreeBalances, handed, paidOut>>
      /\ UNCHANGED <<DepositChannelPool, ChannelIdCounter, DepositChannelRecycleBlocks, configVars, egressVars,
                     height, batches, paidIn, deploys, deposit_budget>>

\* The boosters of a deposit are paid, those who stopped to their free balance.
FinaliseBoost(channel) ==
  LET status == channel.boost_status
      Finalised(t) == process_deposit_as_finalised(BoostPools[t], status.id)
      Unlocked(l) == FoldSet(LAMBDA t, sum : sum + (IF l \in DOMAIN Finalised(t).unlocked
                                                    THEN Finalised(t).unlocked[l] ELSE 0), 0, status.pools)
  IN  /\ BoostPools' = [t \in Tiers |-> IF t \in status.pools THEN Finalised(t).pool ELSE BoostPools[t]]
      /\ FreeBalances' = [l \in Boosters |-> [FreeBalances[l] EXCEPT ![channel.asset] = @ + Unlocked(l)]]

\* faulty variant: any deposit finalises the boost of the channel
FinalisesBoost_any(channel, amount) == channel.boost_status # NotBoosted

FinalisesBoost(channel, amount) == channel.boost_status # NotBoosted /\ channel.boost_status.amount = amount

\* process_deposit_witnesses, for one deposit
process_single_deposit(d, fee, accepted) ==
  LET channel == DepositChannelLookup[d.c]
      charged == withhold_ingress_or_egress_fee(DepositBalances, d.asset, d.amount, fee)
      rejected == channel = NoChannel \/ channel.asset # d.asset \/ d.amount < MinimumDeposit
  IN  /\ deposits' = deposits \ {d}
      /\ IF rejected
         THEN UNCHANGED <<DepositChannelLookup, ScheduledEgressFetchOrTransfer, feeVars, BoostPools, FreeBalances,
                          handed, paidIn, paidOut>>
         ELSE /\ ScheduledEgressFetchOrTransfer' =
                   Append(ScheduledEgressFetchOrTransfer,
                          [kind |-> "Fetch", asset |-> d.asset, address |-> d.c, amount |-> d.amount])
              /\ paidIn' = [paidIn EXCEPT ![d.asset] = @ + d.amount]
              /\ IF FinalisesBoost(channel, d.amount)
                 THEN /\ FinaliseBoost(channel)
                      /\ DepositChannelLookup' = [DepositChannelLookup EXCEPT ![d.c].boost_status = NotBoosted]
                      /\ DepositBalances' = register_deposit(DepositBalances, d.asset, d.amount)
                      /\ UNCHANGED <<WithheldFees, feeSwaps, handed, paidOut>>
                 ELSE /\ DepositBalances' = register_deposit(charged.balances, d.asset, charged.after)
                      /\ ChargeFee(d.asset, charged)
                      /\ IF charged.after = 0 THEN UNCHANGED <<FreeBalances, handed, paidOut>>
                         ELSE perform_channel_action(channel.action, d.asset, charged.after, accepted)
                      /\ UNCHANGED <<DepositChannelLookup, BoostPools>>
      /\ UNCHANGED <<DepositChannelPool, ChannelIdCounter, DepositChannelRecycleBlocks,
                     PrewitnessedDepositIdCounter, boost_parts, configVars, ScheduledEgressCcm, height, batches, deploys,
                     deposit_budget>>

process_deposits(d, fee, accepted) ==
  \/ \E lucky \in [Tiers -> Boosters] : prewitnessed(d, fee, lucky, accepted)
  \/ process_single_deposit(d, fee, accepted)

----------------------------------------------------------------------------
(* LPs and liquidity providers *)

CanDebit(l, a, amount) == FreeBalances[l][a] >= amount

add_boost_funds(l, t, amount) ==
  /\ DepositBounded("boost")
  /\ CanDebit(l, BoostAsset, amount)
  /\ FreeBalances' = [FreeBalances EXCEPT ![l][BoostAsset] = @ - amount]
  /\ BoostPools' = [BoostPools EXCEPT ![t] = add_funds(@, l, amount)]
  /\ UNCHANGED <<channelVars, PrewitnessedDepositIdCounter, boost_parts, configVars, egressVars, feeVars, height,
                 deposits, batches, handed, paidIn, paidOut, deploys>>

StopBoosting(l, t) ==
  LET stopped == stop_boosting(BoostPools[t], l)
  IN  /\ l \in DOMAIN BoostPools[t].amounts
      /\ BoostPools' = [BoostPools EXCEPT ![t] = stopped.pool]
      /\ FreeBalances' = try_credit_account(FreeBalances, l, BoostAsset, stopped.unlocked)
      /\ UNCHANGED <<channelVars, PrewitnessedDepositIdCounter, boost_parts, configVars, egressVars, feeVars, height,
                     deposits, batches, handed, paidIn, paidOut, deploys, deposit_budget>>

\* An egress below the dust limit is refused, but its fee has been charged.
schedule_channel_egress(a, amount, fee) ==
  LET charged == withhold_ingress_or_egress_fee(DepositBalances, a, amount, fee)
      accepted == charged.after >= DepositDustLimit
  IN  [accepted |-> accepted, after |-> charged.after, withheld |-> charged.withheld, swapped |-> charged.swapped,
       balances |-> IF accepted THEN register_transfer(charged.balances, a, charged.after) ELSE charged.balances,
       queue |-> IF accepted
                 THEN Append(ScheduledEgressFetchOrTransfer,
                             [kind |-> "Transfer", asset |-> a, address |-> 0, amount |-> charged.after])
                 ELSE ScheduledEgressFetchOrTransfer]

\* A provider withdraws; a refused egress undoes the call.
withdraw_asset(l, a, amount, fee) ==
  LET egress == schedule_channel_egress(a, amount, fee)
  IN  /\ DepositBounded("withdraw")
      /\ CanDebit(l, a, amount) /\ egress.accepted
      /\ FreeBalances' = [FreeBalances EXCEPT ![l][a] = @ - amount]
      /\ DepositBalances' = egress.balances /\ ChargeFee(a, egress)
      /\ ScheduledEgressFetchOrTransfer' = egress.queue
      /\ paidOut' = [paidOut EXCEPT ![a] = @ + egress.after]
      /\ UNCHANGED <<channelVars, boostVars, configVars, ScheduledEgressCcm, height, deposits, batches, handed,
                     paidIn, deploys>>

transfer_asset(l, to, a, amount) ==
  /\ DepositBounded("withdraw")
  /\ l # to /\ CanDebit(l, a, amount)
  /\ FreeBalances' = [FreeBalances EXCEPT ![l][a] = @ - amount, ![to][a] = @ + amount]
  /\ UNCHANGED <<channelVars, boostVars, configVars, egressVars, feeVars, height, deposits, batches, handed,
                 paidIn, paidOut, deploys>>

\* cf-swapping: a swap egresses what it was handed; a refused egress is dropped.
SwapEgress(a, fee) ==
  LET amount == handed[a]
      egress == schedule_channel_egress(a, amount, fee)
  IN  /\ DepositBounded("withdraw") /\ amount > 0
      /\ handed' = [handed EXCEPT ![a] = 0]
      /\ DepositBalances' = egress.balances /\ ChargeFee(a, egress)
      /\ ScheduledEgressFetchOrTransfer' = egress.queue
      /\ paidOut' = [paidOut EXCEPT ![a] = @ + egress.after]
      /\ UNCHANGED <<channelVars, boostVars, configVars, ScheduledEgressCcm, FreeBalances, height, deposits,
                     batches, paidIn, deploys>>

\* cf-swapping: a swap egresses with a message; its gas has been paid already.
SwapEgressCcm(a) ==
  /\ DepositBounded("withdraw") /\ handed[a] > 0
  /\ handed' = [handed EXCEPT ![a] = 0]
  /\ ScheduledEgressCcm' = Append(ScheduledEgressCcm, [asset |-> a, amount |-> handed[a]])
  /\ DepositBalances' = register_transfer(DepositBalances, a, handed[a])
  /\ paidOut' = [paidOut EXCEPT ![a] = @ + handed[a]]
  /\ UNCHANGED <<channelVars, boostVars, configVars, ScheduledEgressFetchOrTransfer, WithheldFees,
                 feeSwaps, FreeBalances, height, deposits, batches, paidIn, deploys>>

----------------------------------------------------------------------------
(* Sending *)

can_fetch(state) == state # "Pending"
on_fetch_scheduled(state) == IF state = "Undeployed" THEN "Pending" ELSE state
on_fetch_completed(state) == "Deployed"

\* The requests for enabled assets are taken, fetches only from channels that
\* are open and not being deployed.
ExtractRequests ==
  LET Extract(acc, request) ==
        LET channel == acc.channels[request.address]
            fetch == request.kind = "Fetch"
            ready == /\ request.asset \notin DisabledEgressAssets
                     /\ fetch => channel # NoChannel /\ can_fetch(channel.state)
        IN  IF ~ready THEN [acc EXCEPT !.kept = Append(@, request)]
            ELSE IF ~fetch THEN [acc EXCEPT !.taken = Append(@, request)]
            ELSE [acc EXCEPT !.taken = Append(@, request),
                             !.channels[request.address].state = on_fetch_scheduled(@),
                             !.deploys[request.address] = @ + (IF channel.state = "Undeployed" THEN 1 ELSE 0)]
  IN  FoldLeft(Extract, [kept |-> <<>>, taken |-> <<>>, channels |-> DepositChannelLookup, deploys |-> deploys],
               ScheduledEgressFetchOrTransfer)

\* Messages for enabled assets are taken, whether they can be built or not.
do_egress_scheduled_ccm == SelectSeq(ScheduledEgressCcm, LAMBDA m : m.asset \in DisabledEgressAssets)

\* If the batch cannot be built, its requests stay.
on_finalize(built) ==
  LET requests == ExtractRequests
      fetches == SelectSeq(requests.taken, LAMBDA r : r.kind = "Fetch")
      send == built /\ requests.taken # <<>>
  IN  /\ DepositBounded("egress")
      /\ send \/ do_egress_scheduled_ccm # ScheduledEgressCcm
      /\ ScheduledEgressCcm' = do_egress_scheduled_ccm
      /\ IF send
         THEN /\ ScheduledEgressFetchOrTransfer' = requests.kept
              /\ DepositChannelLookup' = requests.channels /\ deploys' = requests.deploys
              /\ DepositBalances' =
                   FoldLeft(LAMBDA acc, r : mark_as_fetched(acc, r.asset, r.amount), DepositBalances, fetches)
              /\ batches' = batches \cup ({{fetches[i].address : i \in DOMAIN fetches}} \ {{}})
         ELSE UNCHANGED <<ScheduledEgressFetchOrTransfer, DepositChannelLookup, deploys, DepositBalances, batches>>
      /\ UNCHANGED <<DepositChannelPool, ChannelIdCounter, DepositChannelRecycleBlocks, boostVars, configVars,
                     WithheldFees, feeSwaps, FreeBalances, height, deposits, handed, paidIn, paidOut>>

\* The batch with these addresses has succeeded.
finalise_ingress(addresses) ==
  /\ addresses \in batches /\ batches' = batches \ {addresses}
  /\ DepositChannelLookup' =
       [c \in ChannelIds |->
          IF c \in addresses /\ DepositChannelLookup[c] # NoChannel
          THEN [DepositChannelLookup[c] EXCEPT !.state = on_fetch_completed(@)] ELSE DepositChannelLookup[c]]
  /\ UNCHANGED <<DepositChannelPool, ChannelIdCounter, DepositChannelRecycleBlocks, boostVars, configVars,
                 egressVars, feeVars, FreeBalances, height, deposits, handed, paidIn, paidOut, deploys, deposit_budget>>

\* Governance
enable_or_disable_egress(a) ==
  /\ DepositBounded("config")
  /\ DisabledEgressAssets' = IF a \in DisabledEgressAssets THEN DisabledEgressAssets \ {a}
                             ELSE DisabledEgressAssets \cup {a}
  /\ UNCHANGED <<channelVars, boostVars, MinimumDeposit, egressVars, feeVars, FreeBalances, height, deposits,
                 batches, handed, paidIn, paidOut, deploys>>

update_ingress_config(minimum) ==
  /\ DepositBounded("config")
  /\ MinimumDeposit' = minimum
  /\ UNCHANGED <<channelVars, boostVars, DisabledEgressAssets, egressVars, feeVars, FreeBalances, height,
                 deposits, batches, handed, paidIn, paidOut, deploys>>

DepositsNext ==
  \/ \E c \in ChannelIds, a \in ChainAssets, boost_fee \in Tiers \cup {0} :
        \/ \E l \in Boosters : request_liquidity_deposit_address(c, a, l, boost_fee)
        \/ \E ccm \in BOOLEAN : request_swap_deposit_address(c, a, ccm, boost_fee)
  \/ \E taken \in 1 .. MaxChannels : on_idle(taken)
  \/ \E c \in ChannelIds, amount \in DepositAmounts : Deposit(c, amount)
  \/ \E d \in deposits : Reorg(d)
  \/ Advance
  \/ \E d \in deposits, fee \in Fees, accepted \in BOOLEAN : process_deposits(d, fee, accepted)
  \/ \E l \in Boosters, t \in Tiers, amount \in BoostAmounts : add_boost_funds(l, t, amount)
  \/ \E l \in Boosters, t \in Tiers : StopBoosting(l, t)
  \/ \E l \in Boosters, a \in ChainAssets, amount \in WithdrawAmounts, fee \in Fees : withdraw_asset(l, a, amount, fee)
  \/ \E l, to \in Boosters, a \in ChainAssets, amount \in WithdrawAmounts : transfer_asset(l, to, a, amount)
  \/ \E a \in ChainAssets, fee \in Fees : SwapEgress(a, fee)
  \/ \E a \in ChainAssets : SwapEgressCcm(a)
  \/ \E built \in BOOLEAN : on_finalize(built)
  \/ \E addresses \in batches : finalise_ingress(addresses)
  \/ \E a \in ChainAssets : enable_or_disable_egress(a)
  \/ \E minimum \in MinimumDeposits : update_ingress_config(minimum)

IngressSpec == InitIngress /\ [][DepositsNext]_depositVars

----------------------------------------------------------------------------

\* Type invariant of the channels, queues and balances.
DepositsTypeOK ==
  /\ DepositChannelPool \subseteq ChannelIds
  /\ \A c \in ChannelIds : DepositChannelLookup[c] # NoChannel =>
       /\ DepositChannelLookup[c].asset \in ChainAssets /\ DepositChannelLookup[c].action \in Actions
       /\ DepositChannelLookup[c].state \in {"Undeployed", "Pending", "Deployed"}
  /\ \A l \in Boosters, a \in ChainAssets : FreeBalances[l][a] \in Nat
  /\ \A a \in ChainAssets : handed[a] \in Nat /\ feeSwaps[a] \in Nat /\ DepositBalances[a].unfetched \in Nat

\* In every pool the shares of the boosters add up to what is available:
\* boosting rounds contributions up, gives the excess back and takes no more
\* than a booster has.
PoolsBalance == \A t \in Tiers : SharesBalance(BoostPools[t])

\* LPs that leave, come back, and wait for deposits that are finalised or
\* lost in any order wait for exactly what they are owed.
BoostersWaitForTheirs == \A t \in Tiers : WithdrawalsExact(BoostPools[t])

\* The pending boosts of the pools are those of the open channels: each ends
\* once, by being finalised or lost, and the pools are told about every one.
BoostsMatchChannels ==
  LET boosted == {c \in ChannelIds : DepositChannelLookup[c] # NoChannel /\ DepositChannelLookup[c].boost_status # NotBoosted}
  IN  /\ \A t \in Tiers :
           DOMAIN BoostPools[t].pending_boosts =
             {DepositChannelLookup[c].boost_status.id : c \in {x \in boosted : t \in DepositChannelLookup[x].boost_status.pools}}
      /\ \A c1, c2 \in boosted :
           DepositChannelLookup[c1].boost_status.id = DepositChannelLookup[c2].boost_status.id => c1 = c2

BoostedAmount(c) == IF DepositChannelLookup[c] = NoChannel THEN 0 ELSE DepositChannelLookup[c].boost_status.amount

OwedFor(id) ==
  FoldSet(LAMBDA t, sum : sum + Total(OwedByDeposits(BoostPools[t], id)), 0, Tiers)

\* What the boosters of a deposit are owed covers the deposit they advanced,
\* and exceeds it by less than one unit for each pool that gave all it had.
OwedForDeposit ==
  \A c \in ChannelIds : BoostedAmount(c) > 0 =>
    LET status == DepositChannelLookup[c].boost_status
        owed == OwedFor(status.id)
    IN  /\ owed >= from_chain_amount(status.amount)
        /\ owed < from_chain_amount(status.amount + Cardinality(status.pools) - 1) + 1

\* Per asset, what providers, pools, swaps, fees and recipients have been
\* given is no more than what was deposited and what boosters have advanced,
\* except for the part of a unit of each boost fee that the depositor is not
\* charged.
FundsBacked ==
  \A a \in ChainAssets :
    LET free == FoldSet(LAMBDA l, sum : sum + FreeBalances[l][a], 0, Boosters)
        fees == feeSwaps[a] + (IF a = GasAsset THEN WithheldFees ELSE 0)
        pooled == IF a # BoostAsset THEN 0
                  ELSE FoldSet(LAMBDA t, sum : sum + BoostPools[t].available
                                 + Total([id \in DOMAIN BoostPools[t].pending_boosts |-> Total(OwedByDeposits(BoostPools[t], id))]),
                               0, Tiers)
        advanced == FoldSet(LAMBDA c, sum : sum + (IF a = BoostAsset THEN BoostedAmount(c) ELSE 0), 0, ChannelIds)
    IN  from_chain_amount(free + handed[a] + fees + paidOut[a]) + pooled
          <= from_chain_amount(paidIn[a] + advanced) + (ScaleFactor - 1) * boost_parts

\* A deposit made before its channel expired finds that channel when it is
\* witnessed: the address has not been given to anybody else, because it is
\* recycled one lifetime after it expired.
DepositsReachTheirChannel ==
  \A d \in deposits :
    /\ DepositChannelLookup[d.c] # NoChannel
    /\ DepositChannelLookup[d.c].opened_at = d.opened_at /\ DepositChannelLookup[d.c].action = d.action

\* An address is deployed at most once, and one counts as deployed only when
\* that was sent: re-use of addresses and late confirmations of fetches never
\* meet an undeployed one.
DeployedOnce ==
  \A c \in ChannelIds :
    /\ deploys[c] <= 1
    /\ DepositChannelLookup[c] # NoChannel => (DepositChannelLookup[c].state = "Undeployed" <=> deploys[c] = 0)
    /\ c \in DepositChannelPool => deploys[c] = 1 /\ DepositChannelLookup[c] = NoChannel

\* Every open channel has one entry in the recycling queue, and the queue is
\* sorted, which the search in it relies on.
RecycleQueueSorted ==
  LET queue == DepositChannelRecycleBlocks
  IN  /\ \A i, j \in DOMAIN queue : i < j => queue[i].block <= queue[j].block /\ queue[i].address # queue[j].address
      /\ {c \in ChannelIds : DepositChannelLookup[c] # NoChannel} = {queue[i].address : i \in DOMAIN queue}

\* Deposits, boosted or not, are credited to the right channel and to nobody twice, in
\* whatever order channels are opened, expire and are used again: what boosters have,
\* wait for and are owed adds up, and no more is given than was deposited.
DepositsAreAccountedFor ==
  /\ DepositsTypeOK /\ PoolsBalance /\ RecycleQueueSorted /\ BoostersWaitForTheirs /\ BoostsMatchChannels /\ OwedForDeposit
  /\ FundsBacked /\ DepositsReachTheirChannel /\ DeployedOnce
=============================================================================
