------------------------------ MODULE Funding -------------------------------
(***************************************************************************)
(* Funding and redeeming accounts (pallet cf-funding) on the FLIP ledger,  *)
(* with what else moves FLIP: transaction fees, slashing, block rewards,   *)
(* the burning of network fees (cf-emissions), the roles that keep an      *)
(* account alive (cf-account-roles), and the StateChainGateway contract on *)
(* Ethereum as the pallet sees it.                                         *)
(*                                                                         *)
(* A call that is refused changes nothing, so the reasons to refuse that   *)
(* change nothing else (safe mode, the auction phase, the executor) are    *)
(* left out.                                                               *)
(***************************************************************************)
EXTENDS Integers, FiniteSets, Functions

(***************************************************************************)
(* The FLIP ledger (pallet cf-flip): every movement of tokens creates a    *)
(* Surplus (tokens taken from somewhere) or a Deficit (tokens put          *)
(* somewhere), which is offset against its opposite; what is left over is  *)
(* reverted to its source when it is removed.  Operations are operators    *)
(* on a ledger record.  The reserves (Reserve) are left out: no pallet of  *)
(* the runtime uses them.                                                  *)
(***************************************************************************)

CONSTANTS FlipAccounts,   \* account ids
          MaxBalance, \* the largest value of the Balance type
          None

ASSUME MaxBalanceAssumption == MaxBalance \in Nat \ {0}

Balances == 0 .. MaxBalance

\* `issuance` and `offchain` are TotalIssuance and OffchainFunds, `known` the
\* accounts with an entry in Account, `pending` is PendingRedemptionsReserve.
Ledgers ==
  [known : SUBSET FlipAccounts, balance : [FlipAccounts -> Balances],
   bond : [FlipAccounts -> Balances], pending : [FlipAccounts -> Balances \cup {None}],
   issuance : Balances, offchain : Balances]

FlipGenesis(total) ==
  [known |-> {}, balance |-> [a \in FlipAccounts |-> 0], bond |-> [a \in FlipAccounts |-> 0],
   pending |-> [a \in FlipAccounts |-> None], issuance |-> total, offchain |-> total]

SatSub(x, y) == IF x > y THEN x - y ELSE 0
AtMost(x, y) == IF x < y THEN x ELSE y
SatAdd(x, y) == AtMost(x + y, MaxBalance)
\* checked_add, with nothing added on overflow
Addable(x, y) == IF x + y > MaxBalance THEN 0 ELSE y

liquid(l, a) == SatSub(l.balance[a], l.bond[a])
can_be_slashed(l, a, amount) == SatSub(l.balance[a], amount) > l.bond[a] \div 5

----------------------------------------------------------------------------
(* Imbalances: the ledger after the movement, the amount really moved and  *)
(* where it came from or went to.                                          *)

External == <<"External">>
Emissions == <<"Emissions">>
AccountSource(a) == <<"Account", a>>
PendingSource(a) == <<"PendingRedemption", a>>

Imbalance(l, amount, source) == [ledger |-> l, amount |-> amount, source |-> source]

Credited(l, a, amount) ==
  [l EXCEPT !.known = @ \cup {a}, !.balance[a] = @ + amount]

SurplusFromMint(l, amount) ==
  LET added == Addable(l.issuance, amount)
  IN  Imbalance([l EXCEPT !.issuance = @ + added], added, Emissions)

SurplusFromAcct(l, a, amount) ==
  LET deducted == AtMost(l.balance[a], amount)
  IN  Imbalance(Credited(l, a, -deducted), deducted, AccountSource(a))

SurplusFromOffchain(l, amount) ==
  LET deducted == AtMost(l.offchain, amount)
  IN  Imbalance([l EXCEPT !.offchain = @ - deducted], deducted, External)

SurplusFromPending(l, a) ==
  Imbalance([l EXCEPT !.pending[a] = None], l.pending[a], PendingSource(a))

DeficitFromBurn(l, amount) ==
  LET burnt == AtMost(l.issuance, amount)
  IN  Imbalance([l EXCEPT !.issuance = @ - burnt], burnt, Emissions)

DeficitFromAcct(l, a, amount) ==
  LET added == Addable(l.balance[a], amount)
  IN  Imbalance(Credited(l, a, added), added, AccountSource(a))

DeficitFromPending(l, a, amount) ==
  Imbalance([l EXCEPT !.pending[a] = amount], amount, PendingSource(a))

DeficitFromOffchain(l, amount) ==
  LET added == Addable(l.offchain, amount)
  IN  Imbalance([l EXCEPT !.offchain = @ + added], added, External)

\* Dropping a surplus of `amount` gives it back to where it was taken from.
RevertSurplus(l, source, amount) ==
  CASE source = External  -> [l EXCEPT !.offchain = SatAdd(@, amount)]
    [] source = Emissions -> [l EXCEPT !.issuance = SatSub(@, amount)]
    [] source[1] = "Account" -> [l EXCEPT !.balance[source[2]] = SatAdd(@, amount)]
    [] source[1] = "PendingRedemption" ->
         IF amount = 0 THEN l ELSE [l EXCEPT !.pending[source[2]] = amount]

\* Dropping a deficit of `amount` takes it back from where it was put.
RevertDeficit(l, source, amount) ==
  CASE source = External  -> [l EXCEPT !.offchain = SatSub(@, amount)]
    [] source = Emissions -> [l EXCEPT !.issuance = SatAdd(@, amount)]
    [] source[1] = "Account" -> [l EXCEPT !.balance[source[2]] = SatSub(@, amount)]
    [] source[1] = "PendingRedemption" ->
         IF amount = 0 THEN l ELSE [l EXCEPT !.pending[source[2]] = None]

\* faulty variant: what remains is forgotten, not reverted
OffsetForgetting(l, surplus, deficit) == l

\* Cancel a surplus against a deficit made after it, or the reverse, and drop
\* what remains of the larger one.  `l` is the ledger after both.
Offset(l, surplus, deficit) ==
  IF surplus.amount >= deficit.amount
  THEN RevertSurplus(l, surplus.source, surplus.amount - deficit.amount)
  ELSE RevertDeficit(l, deficit.source, deficit.amount - surplus.amount)

SettleSurplus(a, surplus) ==
  LET deficit == DeficitFromAcct(surplus.ledger, a, surplus.amount)
  IN  Offset(deficit.ledger, surplus, deficit)

SettleDeficit(a, deficit) ==
  LET surplus == SurplusFromAcct(deficit.ledger, a, deficit.amount)
  IN  Offset(surplus.ledger, surplus, deficit)

----------------------------------------------------------------------------
(* What the other pallets call.                                            *)

mint_to(l, a, amount) == SettleSurplus(a, SurplusFromMint(l, amount))

credit_funds(l, a, amount) == SettleSurplus(a, SurplusFromOffchain(l, amount))

\* The callers check the guards of the next two, whose failure is an error.
CanBurnFee(l, a, amount) == a \in l.known /\ amount <= liquid(l, a)
try_burn_fee(l, a, amount) ==
  LET surplus == SurplusFromAcct(l, a, amount)
      deficit == DeficitFromBurn(surplus.ledger, amount)
  IN  Offset(deficit.ledger, surplus, deficit)

CanInitiateRedemption(l, a, amount) == amount <= liquid(l, a)
try_initiate_redemption(l, a, amount) == SettleDeficit(a, DeficitFromPending(l, a, amount))

finalize_redemption(l, a) ==
  LET surplus == SurplusFromPending(l, a)
      deficit == DeficitFromOffchain(surplus.ledger, surplus.amount)
  IN  Offset(deficit.ledger, surplus, deficit)

revert_redemption(l, a) == SettleSurplus(a, SurplusFromPending(l, a))

burn_offchain(l, amount) ==
  LET deficit == DeficitFromBurn(l, amount)
      surplus == SurplusFromOffchain(deficit.ledger, amount)
  IN  Offset(surplus.ledger, surplus, deficit)

update_bond(l, a, bond) == IF a \in l.known THEN [l EXCEPT !.bond[a] = bond] ELSE l

attempt_slash(l, a, amount) ==
  IF amount # 0 /\ can_be_slashed(l, a, amount)
  THEN SettleDeficit(a, DeficitFromBurn(l, amount))
  ELSE l

\* OnKilledAccount: burn what is left and forget the account.
BurnFlipAccount(l, a) ==
  LET burnt == SettleDeficit(a, DeficitFromBurn(l, l.balance[a]))
  IN  [burnt EXCEPT !.known = @ \ {a}, !.balance[a] = 0, !.bond[a] = 0]

\* A fee is taken when an extrinsic starts, in full, from the whole balance ...
CanPayFee(l, a, fee) == a \in l.known /\ fee <= l.balance[a]
withdraw_fee(l, a, fee) == SurplusFromAcct(l, a, fee)

\* ... and what the extrinsic really cost is burnt when it has run; the rest
\* goes back to the payer unless the account is gone.
correct_and_deposit_fee(l, exists, escrow, corrected) ==
  LET deficit == DeficitFromBurn(l, IF exists THEN corrected ELSE escrow.amount)
  IN  Offset(deficit.ledger, escrow, deficit)

SumOver(f) == FoldFunction(+, 0, f)
OnchainFunds(l) ==
  SumOver(l.balance) + SumOver([a \in FlipAccounts |-> IF l.pending[a] = None THEN 0 ELSE l.pending[a]])

CONSTANTS EthAddresses,        \* Ethereum addresses
          GenesisIssuance, GenesisAccount, GenesisFunds, GenesisMinimum, GenesisTax,
          FundingAmounts,   \* amounts of a funding event
          RedeemAmounts, MaxAmount, \* values of RedemptionAmount::Exact, and ::Max
          Minimums, Taxes,  \* values governance gives MinimumFunding and RedemptionTax
          TxFee,            \* the fee withheld for an extrinsic
          Bonds,            \* bonds the validator pallet sets
          SlashAmount, Inflation, InflationBase, CompoundingInterval,
          SupplyUpdateInterval, BurnFeeMultiple,
          FundingBudgets           \* how often each bounded action may happen

ASSUME GenesisAssumption == GenesisTax < GenesisMinimum

VARIABLES
  ledger,              \* the FLIP ledger
  role,                \* AccountRoles; None for an account that does not exist
  PendingRedemptions, RestrictedAddresses, RestrictedBalances, BoundRedeemAddress,
  MinimumFunding, RedemptionTax,
  FlipToBurn,          \* FLIP bought with network fees, held by the vault
  emission,            \* CurrentAuthorityEmissionPerBlock
  funding_block, LastSupplyUpdateBlock,
  escrow,              \* the fee of the extrinsic that is running
  gateway,             \* external: state of each account's redemption on Ethereum
  free,                \* external: FLIP that is free on Ethereum
  lost, owed,          \* history: what accounts lost, what restricted funders are owed
  funding_budget               \* how often each bounded action may still happen

fundingVars == <<PendingRedemptions, RestrictedAddresses, RestrictedBalances, BoundRedeemAddress>>
paramVars == <<MinimumFunding, RedemptionTax>>
emissionVars == <<emission, funding_block, LastSupplyUpdateBlock>>
ethVars == <<gateway, free>>
historyVars == <<lost, owed>>
flipVars == <<ledger, role, fundingVars, paramVars, FlipToBurn, emissionVars, escrow, ethVars, historyVars, funding_budget>>

NoRestrictions == [x \in EthAddresses |-> None]
Value(b) == IF b = None THEN 0 ELSE b
RestrictedSum(held_for) == SumOver([x \in EthAddresses |-> Value(held_for[x])])

FundingBounded(action) == funding_budget[action] > 0 /\ funding_budget' = [funding_budget EXCEPT ![action] = @ - 1]

\* Witnessed calls and block hooks run outside an extrinsic or inside one of a
\* validator; governance and block hooks run outside.
InWitnessing == escrow = None \/ (escrow # None /\ role[escrow.who] = "Validator")
InCallOf(a) == escrow # None /\ escrow.who = a /\ ~escrow.ran
Ran == escrow' = [escrow EXCEPT !.ran = TRUE]

FundingInit ==
  /\ ledger = credit_funds(FlipGenesis(GenesisIssuance), GenesisAccount, GenesisFunds)
  /\ role = [a \in FlipAccounts |-> IF a = GenesisAccount THEN "Unregistered" ELSE None]
  /\ PendingRedemptions = [a \in FlipAccounts |-> None]
  /\ RestrictedAddresses \in SUBSET EthAddresses
  /\ RestrictedBalances = [a \in FlipAccounts |-> NoRestrictions]
  /\ BoundRedeemAddress = [a \in FlipAccounts |-> None]
  /\ MinimumFunding = GenesisMinimum /\ RedemptionTax = GenesisTax
  /\ FlipToBurn = 0 /\ emission = 0 /\ escrow = None /\ funding_block = 0 /\ LastSupplyUpdateBlock = 0
  /\ gateway = [a \in FlipAccounts |-> "idle"] /\ free = ledger.offchain
  /\ lost = [a \in FlipAccounts |-> 0] /\ owed = [a \in FlipAccounts |-> [x \in EthAddresses |-> 0]]
  /\ funding_budget \in FundingBudgets

----------------------------------------------------------------------------
(* Funding *)

\* An account that does not exist is created, with the role of OnNewAccount.
add_funds_to_account(a, amount) ==
  /\ role' = [role EXCEPT ![a] = IF @ = None THEN "Unregistered" ELSE @]
  /\ ledger' = credit_funds(ledger, a, amount)

\* A funder sends FLIP to the contract, and the event is witnessed.
funded(a, amount, funder) ==
  /\ InWitnessing /\ FundingBounded("fund")
  /\ amount <= free - FlipToBurn /\ free' = free - amount
  /\ add_funds_to_account(a, amount)
  /\ IF funder \in RestrictedAddresses
     THEN /\ RestrictedBalances' = [RestrictedBalances EXCEPT ![a][funder] = Value(@) + amount]
          /\ owed' = [owed EXCEPT ![a][funder] = @ + amount]
     ELSE UNCHANGED <<RestrictedBalances, owed>>
  /\ UNCHANGED <<PendingRedemptions, RestrictedAddresses, BoundRedeemAddress, paramVars,
                 FlipToBurn, emissionVars, escrow, gateway, lost>>

----------------------------------------------------------------------------
(* Redeeming *)

\* What may leave: all but the bond, or all but what is restricted to others.
RedeemableBalance(a, x) ==
  LET restricted == RestrictedBalances[a]
      deficit == SatSub(RestrictedSum(restricted), ledger.balance[a])
      others == SatSub(RestrictedSum(restricted), deficit + Value(restricted[x]))
  IN  SatSub(ledger.balance[a], IF ledger.bond[a] > others THEN ledger.bond[a] ELSE others)

\* The restricted balance of the address pays first, the fee included.
ReduceRestricted(restricted, x, debit) ==
  IF restricted[x] = None THEN restricted
  ELSE [restricted EXCEPT ![x] = IF @ > debit THEN @ - debit ELSE None]

PendingInfo(restricted, x, redeemAmount, fee) ==
  [total |-> redeemAmount, restricted |-> AtMost(SatSub(Value(restricted[x]), fee), redeemAmount),
   redeem_address |-> x]

EnoughRemains(remaining, restricted, deficit) ==
  /\ remaining >= 0
  /\ remaining = 0 \/ remaining >= MinimumFunding
  /\ remaining >= RestrictedSum(restricted) - deficit

redeem(a, amount, x) ==
  LET restricted == RestrictedBalances[a]
      deficit == SatSub(RestrictedSum(restricted), ledger.balance[a])
      max == RedeemableBalance(a, x)
      redeemAmount == IF amount = MaxAmount THEN SatSub(max, RedemptionTax) ELSE amount
      debit == IF amount = MaxAmount THEN max ELSE SatAdd(amount, RedemptionTax)
      taxed == try_burn_fee(ledger, a, RedemptionTax)
      reduced == ReduceRestricted(restricted, x, debit)
      initiated == try_initiate_redemption(taxed, a, redeemAmount)
  IN  /\ InCallOf(a) /\ FundingBounded("redeem")
      /\ PendingRedemptions[a] = None
      /\ BoundRedeemAddress[a] \in {None, x} \/ restricted[x] # None
      /\ CanBurnFee(ledger, a, RedemptionTax)
      /\ EnoughRemains(taxed.balance[a] - redeemAmount, reduced, deficit)
      /\ RestrictedBalances' = [RestrictedBalances EXCEPT ![a] = reduced]
      /\ \/ /\ redeemAmount > 0
            /\ CanInitiateRedemption(taxed, a, redeemAmount)
            /\ initiated.balance[a] = 0 => role[a] = "Unregistered"
            /\ ledger' = initiated
            /\ PendingRedemptions' =
                 [PendingRedemptions EXCEPT ![a] = PendingInfo(restricted, x, redeemAmount, RedemptionTax)]
            /\ gateway' = [gateway EXCEPT ![a] = "requested"]
         \/ /\ redeemAmount = 0
            /\ ledger' = taxed
            /\ UNCHANGED <<PendingRedemptions, gateway>>
      /\ owed' = [owed EXCEPT ![a][x] = SatSub(@, RedemptionTax)]
      /\ Ran
      /\ UNCHANGED <<role, RestrictedAddresses, BoundRedeemAddress, paramVars, FlipToBurn, emissionVars, free, lost>>

\* external: the signed call registers the redemption with the contract, its
\* owner executes it in time, or it is executed after its expiry.
Register(a) ==
  /\ gateway[a] = "requested" /\ gateway' = [gateway EXCEPT ![a] = "registered"]
  /\ UNCHANGED <<ledger, role, fundingVars, paramVars, FlipToBurn, emissionVars, escrow, free, historyVars, funding_budget>>

Execute(a) ==
  /\ gateway[a] = "registered"
  /\ \/ gateway' = [gateway EXCEPT ![a] = "executed"] /\ free' = free + PendingRedemptions[a].total
     \/ gateway' = [gateway EXCEPT ![a] = "expired"] /\ UNCHANGED free
  /\ UNCHANGED <<ledger, role, fundingVars, paramVars, FlipToBurn, emissionVars, escrow, historyVars, funding_budget>>

\* Everything the pallets hold for an account that is killed goes.
Reap(a, l) ==
  /\ ledger' = BurnFlipAccount(l, a)
  /\ role' = [role EXCEPT ![a] = None]
  /\ RestrictedBalances' = [RestrictedBalances EXCEPT ![a] = NoRestrictions]
  /\ BoundRedeemAddress' = [BoundRedeemAddress EXCEPT ![a] = None]
  /\ lost' = [lost EXCEPT ![a] = 0]
  /\ owed' = [owed EXCEPT ![a] = [x \in EthAddresses |-> 0]]

\* Provider::killed refuses to kill an account that has a role.
Reapable(l, a) == l.balance[a] = 0 /\ role[a] = "Unregistered"

redeemed(a) ==
  LET pending == PendingRedemptions[a]
      finalized == finalize_redemption(ledger, a)
  IN  /\ InWitnessing /\ gateway[a] = "executed"
      /\ pending # None
      /\ PendingRedemptions' = [PendingRedemptions EXCEPT ![a] = None]
      /\ gateway' = [gateway EXCEPT ![a] = "idle"]
      /\ IF Reapable(finalized, a)
         THEN Reap(a, finalized)
         ELSE /\ ledger' = finalized
              /\ owed' = [owed EXCEPT ![a][pending.redeem_address] = SatSub(@, pending.total)]
              /\ UNCHANGED <<role, RestrictedBalances, BoundRedeemAddress, lost>>
      /\ UNCHANGED <<RestrictedAddresses, paramVars, FlipToBurn, emissionVars, escrow, free, funding_budget>>

redemption_expired(a) ==
  LET pending == PendingRedemptions[a]
  IN  /\ InWitnessing /\ gateway[a] = "expired"
      /\ pending # None
      /\ PendingRedemptions' = [PendingRedemptions EXCEPT ![a] = None]
      /\ gateway' = [gateway EXCEPT ![a] = "idle"]
      /\ ledger' = revert_redemption(ledger, a)
      /\ RestrictedBalances' =
           IF pending.redeem_address \in RestrictedAddresses
           THEN [RestrictedBalances EXCEPT ![a][pending.redeem_address] = Value(@) + pending.restricted]
           ELSE RestrictedBalances
      /\ UNCHANGED <<role, RestrictedAddresses, BoundRedeemAddress, paramVars, FlipToBurn, emissionVars,
                     escrow, free, historyVars, funding_budget>>

----------------------------------------------------------------------------
(* Extrinsics: the fee is withheld, the call runs or fails, the fee is     *)
(* corrected.                                                              *)

WithdrawFee(a) ==
  LET surplus == withdraw_fee(ledger, a, TxFee)
  IN  /\ escrow = None /\ role[a] # None /\ FundingBounded("fee")
      /\ CanPayFee(ledger, a, TxFee)
      /\ ledger' = surplus.ledger
      /\ escrow' = [who |-> a, amount |-> surplus.amount, source |-> surplus.source, ran |-> FALSE]
      /\ UNCHANGED <<role, fundingVars, paramVars, FlipToBurn, emissionVars, ethVars, historyVars>>

CorrectFee(corrected) ==
  LET a == escrow.who
      after == correct_and_deposit_fee(ledger, role[a] # None, escrow, corrected)
  IN  /\ escrow # None
      /\ ledger' = after
      /\ lost' = [lost EXCEPT ![a] = @ + (ledger.balance[a] + escrow.amount - after.balance[a])]
      /\ escrow' = None
      /\ UNCHANGED <<role, fundingVars, paramVars, FlipToBurn, emissionVars, ethVars, owed, funding_budget>>

bind_redeem_address(a, x) ==
  /\ InCallOf(a) /\ Ran
  /\ BoundRedeemAddress[a] = None
  /\ BoundRedeemAddress' = [BoundRedeemAddress EXCEPT ![a] = x]
  /\ UNCHANGED <<ledger, role, PendingRedemptions, RestrictedAddresses, RestrictedBalances, paramVars,
                 FlipToBurn, emissionVars, ethVars, historyVars, funding_budget>>

SetRole(a, from, to) ==
  /\ InCallOf(a) /\ Ran
  /\ role[a] = from
  /\ role' = [role EXCEPT ![a] = to]
  /\ UNCHANGED <<ledger, fundingVars, paramVars, FlipToBurn, emissionVars, ethVars, historyVars, funding_budget>>

register_account_role(a) == SetRole(a, "Unregistered", "Validator")
deregister_account_role(a) == SetRole(a, "Validator", "Unregistered")

----------------------------------------------------------------------------
(* Governance and the validator pallet *)

Update == escrow = None /\ FundingBounded("update")

update_minimum_funding(minimum) ==
  /\ Update
  /\ minimum > RedemptionTax /\ MinimumFunding' = minimum
  /\ UNCHANGED <<ledger, role, fundingVars, RedemptionTax, FlipToBurn, emissionVars, escrow, ethVars, historyVars>>

update_redemption_tax(amount) ==
  /\ Update
  /\ amount < MinimumFunding /\ RedemptionTax' = amount
  /\ UNCHANGED <<ledger, role, fundingVars, MinimumFunding, FlipToBurn, emissionVars, escrow, ethVars, historyVars>>

\* Addresses are added first; those removed lose their restricted balances.
update_restricted_addresses(added, dropped) ==
  /\ Update
  /\ RestrictedAddresses' = (RestrictedAddresses \cup added) \ dropped
  /\ RestrictedBalances' =
       [a \in FlipAccounts |-> [x \in EthAddresses |-> IF x \in dropped THEN None ELSE RestrictedBalances[a][x]]]
  /\ owed' = [a \in FlipAccounts |-> [x \in EthAddresses |-> IF x \in dropped THEN 0 ELSE owed[a][x]]]
  /\ UNCHANGED <<ledger, role, PendingRedemptions, BoundRedeemAddress, paramVars, FlipToBurn,
                 emissionVars, escrow, ethVars, lost>>

\* The validator pallet bonds an authority; the reputation pallet slashes one.
UpdateBond(a, bond) ==
  /\ Update /\ role[a] = "Validator"
  /\ ledger' = update_bond(ledger, a, bond)
  /\ UNCHANGED <<role, fundingVars, paramVars, FlipToBurn, emissionVars, escrow, ethVars, historyVars>>

Slash(a) ==
  /\ Update /\ role[a] = "Validator"
  /\ ledger' = attempt_slash(ledger, a, SlashAmount)
  /\ lost' = [lost EXCEPT ![a] = @ + (ledger.balance[a] - ledger'.balance[a])]
  /\ UNCHANGED <<role, fundingVars, paramVars, FlipToBurn, emissionVars, escrow, ethVars, owed>>

----------------------------------------------------------------------------
(* Emissions *)

\* Swapping leaves the FLIP it bought with network fees in the vault.
NetworkFee ==
  /\ Update /\ FlipToBurn < free
  /\ FlipToBurn' = FlipToBurn + 1
  /\ UNCHANGED <<ledger, role, fundingVars, paramVars, emissionVars, escrow, ethVars, historyVars>>

\* The egress to the gateway may be refused, and is undone when what arrives
\* is small against the fee; the FLIP to burn is kept then.
burn_flip_network_fee(l, fee, refused) ==
  LET amount == SatSub(FlipToBurn, fee)
      skipped == FlipToBurn = 0 \/ refused \/ amount < BurnFeeMultiple * fee
  IN  IF skipped
      THEN [ledger |-> l, kept |-> FlipToBurn, sent |-> 0]
      ELSE [ledger |-> burn_offchain(l, amount), kept |-> 0, sent |-> amount]

\* The author of the block, if there is one, is paid first.
distribute_rewards(author) ==
  IF emission = 0 \/ author = None THEN ledger ELSE mint_to(ledger, author, emission)

should_update_supply_at(n) == n - LastSupplyUpdateBlock >= SupplyUpdateInterval

emissions_on_initialize(author, syncEnabled, fee, refused) ==
  LET at == funding_block + 1
      rewarded == distribute_rewards(author)
      burnt == burn_flip_network_fee(rewarded, fee, refused)
  IN  /\ escrow = None /\ FundingBounded("block") /\ funding_block' = at
      /\ author # None => role[author] = "Validator"
      /\ IF should_update_supply_at(at) /\ syncEnabled
         THEN /\ ledger' = burnt.ledger /\ FlipToBurn' = burnt.kept /\ free' = free - burnt.sent
              /\ LastSupplyUpdateBlock' = at
         ELSE ledger' = rewarded /\ UNCHANGED <<FlipToBurn, free, LastSupplyUpdateBlock>>
      /\ UNCHANGED <<role, fundingVars, paramVars, emission, escrow, gateway, historyVars>>

\* Every heartbeat interval the emission is computed from the issuance.
calculate_block_emissions ==
  /\ escrow = None /\ FundingBounded("update")
  /\ emission' = ((ledger.issuance * Inflation) \div InflationBase) \div CompoundingInterval
  /\ UNCHANGED <<ledger, role, fundingVars, paramVars, FlipToBurn, funding_block, LastSupplyUpdateBlock, escrow,
                 ethVars, historyVars>>

----------------------------------------------------------------------------

FundingNext ==
  \/ \E a \in FlipAccounts, amount \in FundingAmounts, x \in EthAddresses : funded(a, amount, x)
  \/ \E a \in FlipAccounts, amount \in RedeemAmounts \cup {MaxAmount}, x \in EthAddresses : redeem(a, amount, x)
  \/ \E a \in FlipAccounts : Register(a)
  \/ \E a \in FlipAccounts : Execute(a)
  \/ \E a \in FlipAccounts : redeemed(a)
  \/ \E a \in FlipAccounts : redemption_expired(a)
  \/ \E a \in FlipAccounts : WithdrawFee(a)
  \/ \E corrected \in 0 .. TxFee : CorrectFee(corrected)
  \/ \E a \in FlipAccounts, x \in EthAddresses : bind_redeem_address(a, x)
  \/ \E a \in FlipAccounts : register_account_role(a)
  \/ \E a \in FlipAccounts : deregister_account_role(a)
  \/ \E minimum \in Minimums : update_minimum_funding(minimum)
  \/ \E amount \in Taxes : update_redemption_tax(amount)
  \/ \E x \in EthAddresses :
       update_restricted_addresses({x}, {}) \/ update_restricted_addresses({}, {x})
  \/ \E a \in FlipAccounts, bond \in Bonds : UpdateBond(a, bond)
  \/ \E a \in FlipAccounts : Slash(a)
  \/ NetworkFee
  \/ \E author \in FlipAccounts \cup {None}, sync, refused \in BOOLEAN, fee \in 0 .. 1 :
        emissions_on_initialize(author, sync, fee, refused)
  \/ calculate_block_emissions

FundingSpec == FundingInit /\ [][FundingNext]_flipVars

----------------------------------------------------------------------------

\* Type invariant of the ledger and of the funding pallet's storage.
FundingTypeOK ==
  /\ ledger \in Ledgers
  /\ role \in [FlipAccounts -> {None, "Unregistered", "Validator"}]
  /\ RestrictedAddresses \subseteq EthAddresses
  /\ RestrictedBalances \in [FlipAccounts -> [EthAddresses -> Balances \cup {None}]]
  /\ BoundRedeemAddress \in [FlipAccounts -> EthAddresses \cup {None}]
  /\ free \in Balances /\ FlipToBurn \in Balances

\* The FLIP issued is now any time the FLIP off chain, in the accounts, in
\* pending redemptions and in the fee that is held for the running extrinsic:
\* every imbalance the ledger creates is offset or reverted in full.
FundsConserved ==
  ledger.issuance =
    ledger.offchain + OnchainFunds(ledger) + (IF escrow = None THEN 0 ELSE escrow.amount)

\* A redemption pending in the funding pallet has exactly its total in the
\* ledger's reserve, which the two `expect`s of redeemed and
\* redemption_expired rely on.
RedemptionsBacked ==
  \A a \in FlipAccounts :
    ledger.pending[a] = (IF PendingRedemptions[a] = None THEN None ELSE PendingRedemptions[a].total)

\* OffchainFunds agrees with the tokens that are free on Ethereum, except for
\* redemptions that were executed but not witnessed yet.
MatchesEthereum ==
  free = ledger.offchain
         + SumOver([a \in FlipAccounts |-> IF gateway[a] = "executed" THEN PendingRedemptions[a].total ELSE 0])

\* The restricted balances of an account, with those a pending redemption may
\* give back, never exceed what the account holds, its pending redemption and
\* what it has lost to fees and slashing: expiry, funding and the lifting of
\* restrictions in any order create no claim on FLIP that is not there.
RestrictionsCovered ==
  \A a \in FlipAccounts :
    LET pending == PendingRedemptions[a]
        held == IF escrow # None /\ escrow.who = a THEN escrow.amount ELSE 0
    IN  RestrictedSum(RestrictedBalances[a]) + (IF pending = None THEN 0 ELSE pending.restricted)
          <= ledger.balance[a] + held + Value(ledger.pending[a]) + lost[a]

\* What a restricted address has funded and neither redeemed, paid as
\* redemption tax nor been released from stays restricted: a redemption that
\* expires restores its restriction.
RestrictionsKept ==
  \A a \in FlipAccounts, x \in EthAddresses :
    (PendingRedemptions[a] = None \/ PendingRedemptions[a].redeem_address # x)
      => Value(RestrictedBalances[a][x]) >= owed[a][x]

\* An account that does not exist has no FLIP, no redemption and no
\* restriction, and one with a role exists: a redemption of everything that
\* settles after new funds arrived or a role was taken must not reap it.
ReapedLeavesNothing ==
  \A a \in FlipAccounts :
    role[a] = None =>
      /\ a \notin ledger.known /\ ledger.balance[a] = 0 /\ ledger.bond[a] = 0
      /\ PendingRedemptions[a] = None /\ RestrictedBalances[a] = NoRestrictions

\* Reaping burns nothing: the issuance changes with fees, rewards, slashing
\* and burns, and never when a redemption is settled.
SettlingBurnsNothing ==
  [][(\E a \in FlipAccounts : PendingRedemptions[a] # None /\ PendingRedemptions'[a] = None)
       => ledger'.issuance = ledger.issuance]_flipVars

\* A redemption leaves the bond, and what other addresses may claim, in the
\* account, except for what was uncovered before.
RedeemLeavesTheRest ==
  [][\A a \in FlipAccounts :
       (PendingRedemptions[a] = None /\ PendingRedemptions'[a] # None) =>
         LET x == PendingRedemptions'[a].redeem_address
             others == [RestrictedBalances[a] EXCEPT ![x] = None]
         IN  /\ ledger'.balance[a] >= ledger'.bond[a]
             /\ ledger'.balance[a] >=
                  RestrictedSum(others) - SatSub(RestrictedSum(RestrictedBalances[a]), ledger.balance[a])]_flipVars

\* FLIP is conserved through fundings, redemptions that are executed or expire, slashing
\* and rewards, the chain and the contract agree on it, and restricted funds stay
\* restricted.
FlipIsAccountedFor ==
  /\ [](/\ FundingTypeOK /\ FundsConserved /\ RedemptionsBacked /\ MatchesEthereum
        /\ RestrictionsCovered /\ RestrictionsKept /\ ReapedLeavesNothing)
  /\ SettlingBurnsNothing
  /\ RedeemLeavesTheRest
=============================================================================
