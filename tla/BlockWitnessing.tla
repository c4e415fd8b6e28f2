-------------------------- MODULE BlockWitnessing --------------------------
(***************************************************************************)
(* What an engine reports of a witness range of an external chain: which    *)
(* witnessers the start functions of witness/eth.rs, arb.rs, btc.rs and     *)
(* dot.rs put together, and what each makes of the range: deposits of the   *)
(* native asset of an EVM chain from balances and fetches                   *)
(* (evm/evm_deposits.rs), of tokens from transfers (erc20_deposits.rs),     *)
(* calls from the events of the contracts (key_manager.rs, vault.rs,        *)
(* state_chain_gateway.rs), deposits and egresses of Bitcoin and Polkadot   *)
(* (btc.rs, btc/deposits.rs, dot.rs, dot/dot_deposits.rs). Each witnesser    *)
(* records the ranges it has processed under its name in the database, and  *)
(* goes on from there after a restart (see VaultWitnessing).                *)
(*                                                                          *)
(* The external chains are modelled by what their blocks hold. A deposit    *)
(* contract passes on what it receives, so that the vault emits             *)
(* FetchedNative; deposits by self-destruct are left out, as the comment on *)
(* ethereum_deposits does. The channels are those of the range.             *)
(***************************************************************************)
EXTENDS Integers, Sequences, FiniteSets, SequencesExt, FiniteSetsExt

CONSTANTS BlockPlans   \* chain, channels (address |-> asset) and what may happen

VARIABLES
    block_plan,
    account,    \* EVM: the state of the deposit addresses (balance, has_contract)
    range,      \* the range being made
    ranges,     \* the finished ranges
    done,       \* per witnesser: the ranges it has processed
    db,         \* per name: the ranges recorded in the database
    calls,      \* per witnesser: the calls submitted, with their range
    panicked    \* a witnesser has panicked, which ends the engine

blockVars == <<block_plan, account, range, ranges, done, db, calls, panicked>>

Evm == {"eth", "arb"}
Addresses == DOMAIN block_plan.channels
Total(amounts) == FoldSeq(LAMBDA x, y : x + y, 0, amounts)

----------------------------------------------------------------------------
\* The witnessers of a chain: what they look at, for which asset, and the name under which
\* the processed ranges are stored.

Witnesser(name, kind, asset) == [name |-> name, kind |-> kind, asset |-> asset]

eth_witnessers ==
    {Witnesser("KeyManager", "key_manager", "Eth"), Witnesser("StateChainGateway", "gateway", "Flip"),
     Witnesser("USDCDeposits", "erc20", "Usdc"), Witnesser("FlipDeposits", "erc20", "Flip"),
     Witnesser("USDTDeposits", "erc20", "Usdt"), Witnesser("EthereumDeposits", "native", "Eth"),
     Witnesser("Vault", "vault", "Eth")}

arb_witnessers ==
    {Witnesser("ArbitrumKeyManager", "key_manager", "ArbEth"),
     Witnesser("ArbitrumUSDCDeposits", "erc20", "ArbUsdc"),
     Witnesser("ArbitrumDeposits", "native", "ArbEth"), Witnesser("ArbitrumVault", "vault", "ArbEth")}

btc_witnessers == {Witnesser("Bitcoin", "btc", "Btc")}
dot_witnessers == {Witnesser("Polkadot", "dot", "Dot")}

Witnessers(chain) ==
    CASE chain = "eth" -> eth_witnessers [] chain = "arb" -> arb_witnessers
      [] chain = "btc" -> btc_witnessers [] chain = "dot" -> dot_witnessers

TheWitnessers == {w \in Witnessers(block_plan.chain) : w.kind \in block_plan.kinds}

----------------------------------------------------------------------------
\* EVM: what happens in a range.

\* A contract's event: its kind, the token it names, and whether its fields can be converted
\* (for SignatureAccepted: whether the receipt holds what is needed).
ContractEvent(contract, kind, token, valid) ==
    [contract |-> contract, kind |-> kind, token |-> token, valid |-> valid]
FetchedNative(sender, amount) == [contract |-> "vault", kind |-> "FetchedNative", sender |-> sender,
                                  amount |-> amount]
Transfer(token, to, amount) == [contract |-> token, kind |-> "Transfer", to |-> to, amount |-> amount]

Happens(event) ==
    /\ range.txs < block_plan.txs
    /\ range' = [range EXCEPT !.txs = @ + 1, !.events = Append(@, event)]

DepositNative(a, amount) ==
    /\ block_plan.chain \in Evm /\ block_plan.channels[a] = "native"
    /\ range.txs < block_plan.txs
    /\ range' = [range EXCEPT !.txs = @ + 1, !.deposited[a] = @ + amount,
                              !.events = IF account[a].has_contract
                                         THEN Append(@, FetchedNative(a, amount)) ELSE @]
    /\ account' = IF account[a].has_contract THEN account
                  ELSE [account EXCEPT ![a].balance = @ + amount]
    /\ UNCHANGED <<block_plan, ranges, done, db, calls, panicked>>

\* The vault deploys the deposit contract, which passes on its balance.
DeployAndFetch(a) ==
    /\ block_plan.chain \in Evm /\ block_plan.channels[a] = "native" /\ ~account[a].has_contract
    /\ Happens(FetchedNative(a, account[a].balance))
    /\ account' = [account EXCEPT ![a] = [balance |-> 0, has_contract |-> TRUE]]
    /\ UNCHANGED <<block_plan, ranges, done, db, calls, panicked>>

TransferToken(token, a, amount) ==
    /\ block_plan.chain \in Evm
    /\ Happens(Transfer(token, a, amount))
    /\ UNCHANGED <<block_plan, account, ranges, done, db, calls, panicked>>

EmitEvent(event) ==
    /\ block_plan.chain \in Evm
    /\ Happens(event)
    /\ UNCHANGED <<block_plan, account, ranges, done, db, calls, panicked>>

\* Bitcoin: a transaction is its outputs and whether it is one of our egresses. Polkadot: an
\* extrinsic is the transfers it makes, whether it succeeds, adds a proxy, and is ours.
AddTransaction(tx) ==
    /\ block_plan.chain \notin Evm
    /\ Happens(tx)
    /\ UNCHANGED <<block_plan, account, ranges, done, db, calls, panicked>>

NewRange(accounts) ==
    [txs |-> 0, before |-> accounts, events |-> <<>>, deposited |-> [a \in Addresses |-> 0]]

\* The range is over: it is safe from now on. Some node may fail to answer for it.
EndRange ==
    /\ Len(ranges) < block_plan.ranges /\ range.txs > 0
    /\ \E readable \in {TRUE} \cup {~block_plan.unreadable} :
        ranges' = Append(ranges, [before |-> range.before, after |-> account, events |-> range.events,
                                  deposited |-> range.deposited, readable |-> readable])
    /\ range' = NewRange(account)
    /\ UNCHANGED <<block_plan, account, done, db, calls, panicked>>

----------------------------------------------------------------------------
\* What the witnessers report. A report is a sequence of calls.

\* events_at_block: the logs of one contract, or an error when one of them cannot be parsed.
events_at_block(r, contract) == SelectSeq(r.events, LAMBDA e : e.contract = contract)

DepositWitness(address, amount) == [deposit_address |-> address, amount |-> amount]
Deposits(witnesses) == IF witnesses = <<>> THEN <<>> ELSE <<[call |-> "process_deposits",
                                                            deposit_witnesses |-> witnesses]>>

\* faulty variant: the balance witnessed before is not taken off
ingress_without_previous(previous, current, fetched) ==
    IF ~current.has_contract THEN current.balance - previous.balance ELSE fetched

\* The amount that an address got in a range, from its states before and after and from the
\* sum of the FetchedNative events.
ingress(previous, current, fetched) ==
    CASE ~current.has_contract -> Max({0, current.balance - previous.balance})
      [] current.has_contract /\ ~previous.has_contract -> Max({0, fetched - previous.balance})
      [] OTHER -> fetched

eth_ingresses_at_block(r, addresses) ==
    LET fetched(a) ==
            Total([k \in DOMAIN r.events |->
                IF r.events[k].kind = "FetchedNative" /\ r.events[k].sender = a
                THEN r.events[k].amount ELSE 0])
        amount(a) == ingress(r.before[a], r.after[a], fetched(a))
    IN  {DepositWitness(a, amount(a)) : a \in {b \in addresses : amount(b) > 0}}

ethereum_deposits(r) ==
    Deposits(SetToSeq(eth_ingresses_at_block(r, {a \in Addresses : block_plan.channels[a] = "native"})))

erc20_deposits(r, asset) ==
    LET transfers == SelectSeq(events_at_block(r, asset), LAMBDA e :
                        e.to \in Addresses /\ block_plan.channels[e.to] = asset)
    IN  Deposits([k \in DOMAIN transfers |-> DepositWitness(transfers[k].to, transfers[k].amount)])

\* call_from_event of the vault: nothing, an error, a panic or a call. Failed transfers are
\* reported to the pallet of Ethereum, whichever chain the vault is on, and the conversion of a
\* supported token to an asset of Ethereum is expected to succeed.
supported_assets(chain) == IF chain = "eth" THEN {"Usdc", "Flip", "Usdt"} ELSE {"ArbUsdc"}
Call(name, asset) == [call |-> name, asset |-> asset]
Error == <<Call("error", "none")>>
Panic == <<Call("panic", "none")>>

call_from_event(event, native_asset, supported) ==
    CASE event.kind \in {"SwapNative", "XcallNative"} ->
            IF ~event.valid THEN Error
            ELSE <<Call(IF event.kind = "SwapNative" THEN "schedule_swap_from_contract"
                        ELSE "ccm_deposit", native_asset)>>
      [] event.kind \in {"SwapToken", "XcallToken"} ->
            IF event.token \notin supported \/ ~event.valid THEN Error
            ELSE <<Call(IF event.kind = "SwapToken" THEN "schedule_swap_from_contract"
                        ELSE "ccm_deposit", event.token)>>
      [] event.kind = "TransferNativeFailed" ->
            IF event.valid THEN <<Call("vault_transfer_failed", "Eth")>> ELSE Error
      [] event.kind = "TransferTokenFailed" ->
            CASE event.token \notin supported -> Error
              [] event.token \in supported \ supported_assets("eth") -> Panic
              [] OTHER -> IF event.valid THEN <<Call("vault_transfer_failed", event.token)>>
                          ELSE Error
      [] OTHER -> <<>>

\* An event that gives an error is ignored; the others are reported, up to the first panic.
OfEvents(events, call(_)) == FlattenSeq([k \in DOMAIN events |-> call(events[k])])

vault_witnessing(r, asset) ==
    LET events == events_at_block(r, "vault")
        call(e) == call_from_event(e, asset, supported_assets(block_plan.chain))
        reported(e) == IF call(e) = Error THEN <<>> ELSE call(e)
        panic == SelectInSeq(events, LAMBDA e : call(e) = Panic)
    IN  OfEvents(IF panic = 0 THEN events ELSE SubSeq(events, 1, panic), reported)

\* A SignatureAccepted whose receipt lacks a field ends the range with an error.
key_manager_witnessing(r) ==
    LET events == events_at_block(r, "key_manager")
        bad == SelectInSeq(events, LAMBDA e : e.kind = "SignatureAccepted" /\ ~e.valid)
        handled == IF bad = 0 THEN events ELSE SubSeq(events, 1, bad - 1)
        call(e) ==
            CASE e.kind = "AggKeySetByGovKey" -> <<Call("vault_key_rotated_externally", "Key")>>
              [] e.kind = "SignatureAccepted" -> <<Call("transaction_succeeded", "Signature")>>
              [] e.kind = "GovernanceAction" -> <<Call("set_whitelisted_call_hash", "Hash")>>
              [] OTHER -> <<>>
    IN  OfEvents(handled, call)

state_chain_gateway_witnessing(r) ==
    LET call(e) ==
            CASE e.kind = "Funded" -> <<Call("funded", "Flip")>>
              [] e.kind = "RedemptionExecuted" -> <<Call("redeemed", "Flip")>>
              [] e.kind = "RedemptionExpired" -> <<Call("redemption_expired", "Flip")>>
              [] OTHER -> <<>>
    IN  OfEvents(events_at_block(r, "gateway"), call)

\* Bitcoin: of the outputs of a transaction to one address only the largest is a deposit.
LargestTo(tx, a) ==
    LET amounts == {tx.outputs[k].amount : k \in {j \in DOMAIN tx.outputs :
                        tx.outputs[j].to = a /\ tx.outputs[j].amount > 0}}
    IN  IF amounts = {} THEN <<>> ELSE <<DepositWitness(a, Max(amounts))>>

btc_deposit_witnesses(r) ==
    FlattenSeq([k \in DOMAIN r.events |->
        FlattenSeq([j \in DOMAIN SetToSeq(Addresses) |->
            LargestTo(r.events[k], SetToSeq(Addresses)[j])])])

Egresses(txs) == [k \in DOMAIN txs |-> Call("transaction_succeeded", "Egress")]

success_witnesses(r) == Egresses(SelectSeq(r.events, LAMBDA tx : tx.egress))

btc_witnessing(r) == Deposits(btc_deposit_witnesses(r)) \o success_witnesses(r)

\* Polkadot: every transfer of an extrinsic is a deposit. An egress is looked for among the
\* extrinsics that succeeded and those that added a proxy to our vault.
dot_deposit_witnesses(r) ==
    FlattenSeq([k \in DOMAIN r.events |->
        LET to_us == SelectSeq(r.events[k].outputs, LAMBDA o : o.to \in Addresses)
        IN  [j \in DOMAIN to_us |-> DepositWitness(to_us[j].to, to_us[j].amount)]])

dot_process_egress(r) ==
    Egresses(SelectSeq(r.events, LAMBDA x : (x.success \/ x.proxy_added) /\ x.egress))

dot_witnessing(r) == Deposits(dot_deposit_witnesses(r)) \o dot_process_egress(r)

Report(w, r) ==
    CASE w.kind = "native" -> ethereum_deposits(r)
      [] w.kind = "erc20" -> erc20_deposits(r, w.asset)
      [] w.kind = "vault" -> vault_witnessing(r, w.asset)
      [] w.kind = "key_manager" -> key_manager_witnessing(r)
      [] w.kind = "gateway" -> state_chain_gateway_witnessing(r)
      [] w.kind = "btc" -> btc_witnessing(r)
      [] w.kind = "dot" -> dot_witnessing(r)

----------------------------------------------------------------------------

Panics(report) == report # <<>> /\ SubSeq(report, Len(report), Len(report)) = Panic

\* A witnesser processes a range it has not processed, in any order. When the logs cannot be
\* parsed it reports nothing, and the range counts as processed. When it panics, it has
\* submitted the calls before, and the range does not count as processed.
WitnessRange(w) ==
    /\ ~panicked
    /\ \E n \in DOMAIN ranges \ done[w] :
        LET report == IF ranges[n].readable THEN Report(w, ranges[n]) ELSE <<>>
        IN  /\ calls' = [calls EXCEPT ![w] = @ \cup {[range |-> n, report |-> report]}]
            /\ panicked' = Panics(report)
            /\ done' = IF Panics(report) THEN done ELSE [done EXCEPT ![w] = @ \cup {n}]
            /\ db' = [db EXCEPT ![w.name] = done'[w]]
    /\ UNCHANGED <<block_plan, account, range, ranges>>

RestartEngine ==
    /\ block_plan.restarts > 0
    /\ block_plan' = [block_plan EXCEPT !.restarts = @ - 1]
    /\ done' = [w \in TheWitnessers |-> db[w.name]]
    /\ panicked' = FALSE
    /\ UNCHANGED <<account, range, ranges, db, calls>>

BlockInit ==
    /\ block_plan \in BlockPlans
    /\ account = [a \in Addresses |-> [balance |-> 0, has_contract |-> FALSE]]
    /\ range = NewRange(account)
    /\ ranges = <<>>
    /\ done = [w \in TheWitnessers |-> {}] /\ calls = [w \in TheWitnessers |-> {}]
    /\ db = [n \in {w.name : w \in TheWitnessers} |-> {}]
    /\ panicked = FALSE

BlockNext ==
    \/ \E a \in Addresses : (\E n \in 1 .. 2 : DepositNative(a, n)) \/ DeployAndFetch(a)
    \/ \E a \in Addresses, t \in block_plan.tokens : TransferToken(t, a, 1)
    \/ \E e \in block_plan.events : EmitEvent(e)
    \/ \E tx \in block_plan.transactions : AddTransaction(tx)
    \/ EndRange
    \/ \E w \in TheWitnessers : WitnessRange(w)
    \/ RestartEngine

----------------------------------------------------------------------------

DepositsIn(report) ==
    FlattenSeq([k \in DOMAIN report |->
        IF report[k].call = "process_deposits" THEN report[k].deposit_witnesses ELSE <<>>])
AmountTo(report, a) ==
    LET of(d) == IF d.deposit_address = a THEN d.amount ELSE 0
    IN  Total([k \in DOMAIN DepositsIn(report) |-> of(DepositsIn(report)[k])])

\* The state has its types: calls are of finished ranges, and deposits are positive amounts to
\* monitored addresses.
BlocksTypeOK ==
    \A w \in TheWitnessers :
        /\ done[w] \subseteq DOMAIN ranges /\ db[w.name] \subseteq DOMAIN ranges
        /\ \A c \in calls[w] : \A k \in DOMAIN DepositsIn(c.report) :
            DepositsIn(c.report)[k].deposit_address \in Addresses /\ DepositsIn(c.report)[k].amount > 0

\* What is reported of a readable range as deposited in the native asset is what its channels
\* got in it, whether the deposit contract was deployed before, in, or after the range, and however
\* deposits and the fetch are ordered in it: nothing is counted twice and nothing is missed.
NativeDepositsExact ==
    \A w \in TheWitnessers : w.kind = "native" =>
        \A c \in calls[w] : ranges[c.range].readable =>
            \A a \in Addresses : AmountTo(c.report, a) = ranges[c.range].deposited[a]

\* What a witnesser counts as processed, after any restart, it has reported, to the last event:
\* no witnesser takes another's record for its own, and none a range that it panicked in. (Of
\* an unreadable range the report is empty: it counts as processed and is never looked at
\* again.)
ProcessedWereReported ==
    \A w \in TheWitnessers : \A n \in done[w] :
        \E c \in calls[w] : c.range = n /\ ~Panics(c.report)

\* No witnesser panics: "Asset translated from EthereumAddress must be supported by the chain."
\* (vault.rs:194). The code breaks this: a failed transfer of USDC from the vault of Arbitrum is
\* translated to an asset of Arbitrum, and then converted to an asset of Ethereum.
FailedTransfersConvert == ~panicked

\* Of a readable range that no panic ends, the events of the vault or the gateway that can be
\* reported are, in their order and with their asset, whatever else is in the range; those of
\* the key manager are, up to the first incomplete receipt. One asset is wrong in the code, and
\* accepted here: a failed native transfer on Arbitrum is reported as one of Ethereum's Eth.
ContractEventsReported ==
    \A w \in TheWitnessers : \A c \in calls[w] :
        LET events == events_at_block(ranges[c.range], w.kind)
            OfToken(e) == e.kind \in {"SwapToken", "XcallToken", "TransferTokenFailed"}
            good == {k \in DOMAIN events : events[k].kind \notin {"FetchedNative", "Other"}
                       /\ events[k].valid
                       /\ (OfToken(events[k]) => events[k].token \in supported_assets(block_plan.chain))
                       /\ (w.kind = "key_manager" => \A j \in 1 .. k : events[j].valid)}
            kth(k) == c.report[Cardinality({j \in good : j <= k})]
            asset(e) == IF e.kind = "TransferNativeFailed" THEN "Eth"
                        ELSE IF OfToken(e) THEN e.token ELSE w.asset
        IN  w.kind \in {"vault", "gateway", "key_manager"} /\ ranges[c.range].readable
              /\ ~Panics(c.report)
                => /\ Len(c.report) = Cardinality(good)
                   /\ w.kind = "vault" => \A k \in good : kth(k).asset = asset(events[k])

\* In a readable range, a transaction of Bitcoin brings at most one deposit to an address, however many outputs it
\* has, and at least one if it pays the address anything; what is reported was paid.
OneDepositPerTransaction ==
    \A w \in TheWitnessers : w.kind = "btc" => \A c \in calls[w] :
        LET txs == ranges[c.range].events
            pays(tx, a) == \E k \in DOMAIN tx.outputs : tx.outputs[k].to = a /\ tx.outputs[k].amount > 0
            reported(a) == SelectSeq(DepositsIn(c.report), LAMBDA d : d.deposit_address = a)
        IN  ranges[c.range].readable =>
            \A a \in Addresses :
                Len(reported(a)) = Cardinality({k \in DOMAIN txs : pays(txs[k], a)})

\* In a readable range, an egress is reported as succeeded only if it is on the chain and, on
\* Polkadot, its extrinsic succeeded or added a proxy to our vault; and all of those are.
EgressesSucceeded ==
    \A w \in TheWitnessers : w.kind \in {"btc", "dot"} => \A c \in calls[w] :
        LET txs == ranges[c.range].events
            succeeded == {k \in DOMAIN txs : txs[k].egress
                            /\ (w.kind = "dot" => txs[k].success \/ txs[k].proxy_added)}
            reported == SelectSeq(c.report, LAMBDA x : x.call = "transaction_succeeded")
        IN  ranges[c.range].readable => Len(reported) = Cardinality(succeeded)

\* What is reported of a range of blocks whose logs can be parsed is what happened in it,
\* deposit by deposit, with restarts, events that cannot be converted and contracts deployed on
\* the way. Of a range whose logs cannot be parsed nothing is ever reported: "We then do this on
\* *every* block. This ensures we don't miss anything" (evm_deposits.rs:189) holds for the
\* readable ranges only.
ReportsAreTrue ==
    /\ BlocksTypeOK /\ NativeDepositsExact /\ ProcessedWereReported /\ ContractEventsReported
    /\ OneDepositPerTransaction /\ EgressesSucceeded
=============================================================================
