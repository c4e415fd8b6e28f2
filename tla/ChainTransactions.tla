------------------------- MODULE ChainTransactions --------------------------
(***************************************************************************)
(* The transactions of the chains: the calls of the EVM contracts and how  *)
(* they are paid for, and the encoding of Bitcoin transactions, scripts    *)
(* and addresses.                                                          *)
(***************************************************************************)
EXTENDS Integers, Sequences, FiniteSets, FiniteSetsExt, SequencesExt

(* The transactions of the State Chain for Ethereum and Arbitrum: how an api call is made,      *)
(* signed and put in a transaction, how the transaction's fees follow the tracked fees from one *)
(* attempt to the next, and what its sender gets back when it succeeded.  A hash is the value   *)
(* that is hashed; a signature is its number, signatures[n] being what it was made for.         *)

CONSTANTS
    EvmBatchCost, EvmFetchCost, EvmNativeCost, EvmTokenCost,  \* gas of a batch and of its parts
    EvmMaxGasLimit,
    \* Instances: the environment of each chain, the calls that are asked for, the fees that may
    \* be tracked, what others may send, bounds.
    EvmPlans

VARIABLES
    evm_plan,
    evm_nonces,             \* EthereumSignatureNonce, ArbitrumSignatureNonce
    tracked,            \* the tracked data of each chain, at most one
    api_calls,          \* the calls made and their broadcast data
    signatures,         \* what each signature was made for
    out_ids,            \* TransactionOutIdToBroadcastId of each chain
    used_nonces,        \* of the contracts: the nonces that were accepted
    accepted,           \* the accepted signatures, still to be witnessed
    refunds             \* the outcomes of transaction_succeeded

evmVars == <<evm_plan, evm_nonces, tracked, api_calls, signatures, out_ids, used_nonces, accepted, refunds>>

EvmChains == {"Ethereum", "Arbitrum"}
gas_asset(chain) == IF chain = "Ethereum" THEN "Eth" ELSE "ArbEth"

environment_of(chain) == evm_plan.env[chain]

----------------------------------------------------------------------------
\* Fees.

base_fee_multiplier(chain) == IF chain = "Ethereum" THEN <<2, 1>> ELSE <<3, 2>>

eth_max_fee_per_gas(data, mult) == ((mult[1] * data.base_fee) \div mult[2]) + data.priority_fee
arb_max_fee_per_gas(data, mult) == (mult[1] * data.base_fee) \div mult[2]

max_fee_per_gas(chain, data, mult) ==
    IF chain = "Ethereum" THEN eth_max_fee_per_gas(data, mult) ELSE arb_max_fee_per_gas(data, mult)

get_priority_fee(chain, data) == IF chain = "Ethereum" THEN data.priority_fee ELSE 0

\* The price of gas that users are charged, in one unit for both chains.
eth_gas_cost(data, gas) == (data.base_fee + data.priority_fee) * gas
arb_gas_cost(data, gas) == data.base_fee * ((data.multiplier * gas) \div 10)
gas_cost(chain, data, gas) ==
    IF chain = "Ethereum" THEN eth_gas_cost(data, gas) ELSE arb_gas_cost(data, gas)

FetchCost(chain, asset) == IF asset = gas_asset(chain) THEN 0 ELSE EvmFetchCost
TransferCost(chain, asset) == IF asset = gas_asset(chain) THEN EvmNativeCost ELSE EvmTokenCost

estimate_ingress_fee(chain, data, asset) ==
    gas_cost(chain, data, EvmBatchCost + FetchCost(chain, asset))
estimate_egress_fee(chain, data, asset) ==
    gas_cost(chain, data, EvmBatchCost + TransferCost(chain, asset))

----------------------------------------------------------------------------
\* The calls.

\* A deposit contract is deployed by its first fetch; a deployed one forwards the gas asset itself.
EvmFetchId(chain, channel) ==
    IF channel.state = "Undeployed" THEN "DeployAndFetch"
    ELSE IF channel.asset = gas_asset(chain) THEN "NotRequired"
    ELSE "Fetch"

token_address(chain, asset) ==
    IF asset = gas_asset(chain) THEN {"ETHEREUM_ETH_ADDRESS"} ELSE environment_of(chain).tokens[asset]

TokenOf(chain, asset) == CHOOSE a \in token_address(chain, asset) : TRUE

EncodableTransfer(chain, transfer) == <<TokenOf(chain, transfer.asset), transfer.to, transfer.amount>>

EncodableFetchDeploy(chain, channel) == <<channel.channel_id, TokenOf(chain, channel.asset)>>
EncodableFetch(chain, channel) == <<channel.address, TokenOf(chain, channel.asset)>>

OfKind(chain, deposit_channels, id) == SelectSeq(deposit_channels, LAMBDA c : EvmFetchId(chain, c) = id)

ToDeploy(chain, deposit_channels) == OfKind(chain, deposit_channels, "DeployAndFetch")

evm_all_batch_builder(chain, fetches, payments) ==
    LET deploys == ToDeploy(chain, fetches)
        fetch_only == OfKind(chain, fetches, "Fetch")
    IN  <<[i \in DOMAIN deploys |-> EncodableFetchDeploy(chain, deploys[i])],
          [i \in DOMAIN fetch_only |-> EncodableFetch(chain, fetch_only[i])],
          [i \in DOMAIN payments |-> EncodableTransfer(chain, payments[i])]>>

NotRequired(chain, r) ==
    /\ r.transfers = <<>>
    /\ \A i \in DOMAIN r.fetches : EvmFetchId(chain, r.fetches[i]) = "NotRequired"

\* The source's own chain takes the place of the stated one.
destructure_address(chain, address) ==
    IF address = <<>> THEN <<chain, <<>>>> ELSE <<address[1].chain, <<address[1].bytes>>>>

RedemptionExecutor(executor) == IF executor = <<>> THEN "zero" ELSE executor[1]

SetAggKeyWithAggKey(r) == <<r.key>>
SetGovKeyWithAggKey(r) == <<r.key>>
SetCommKeyWithAggKey(r) == <<r.key>>
RegisterRedemption(r) == <<r.node_id, r.amount, r.to, r.expiry, RedemptionExecutor(r.executor)>>
UpdateFlipSupply(r) == <<r.supply, r.block>>
EvmAllBatch(r) == evm_all_batch_builder(r.chain, r.fetches, r.transfers)
ExecutexSwapAndCall(r) ==
    <<EncodableTransfer(r.chain, r.transfers[1]),
      destructure_address(r.source_chain, r.source_address), r.message>>
TransferFallback(r) == <<EncodableTransfer(r.chain, r.transfers[1])>>

function_call_args(r) ==
    CASE r.kind = "SetAggKeyWithAggKey" -> SetAggKeyWithAggKey(r)
      [] r.kind = "SetGovKeyWithAggKey" -> SetGovKeyWithAggKey(r)
      [] r.kind = "SetCommKeyWithAggKey" -> SetCommKeyWithAggKey(r)
      [] r.kind = "RegisterRedemption" -> RegisterRedemption(r)
      [] r.kind = "UpdateFlipSupply" -> UpdateFlipSupply(r)
      [] r.kind = "AllBatch" -> EvmAllBatch(r)
      [] r.kind = "ExecutexSwapAndCall" -> ExecutexSwapAndCall(r)
      [] r.kind = "TransferFallback" -> TransferFallback(r)

gas_budget(r) == IF r.kind = "ExecutexSwapAndCall" THEN {r.gas_budget} ELSE {}

\* The contract that a call is for.
eth_contract(env, kind) ==
    CASE kind \in {"SetAggKeyWithAggKey", "SetGovKeyWithAggKey", "SetCommKeyWithAggKey"} -> env.key_manager
      [] kind \in {"RegisterRedemption", "UpdateFlipSupply"} -> env.gateway
      [] OTHER -> env.vault

arb_contract(env, kind) == IF kind = "SetAggKeyWithAggKey" THEN env.key_manager ELSE env.vault

target_contract(chain, kind) ==
    IF chain = "Ethereum" THEN eth_contract(environment_of(chain), kind)
    ELSE arb_contract(environment_of(chain), kind)

Assets(r) ==
    (IF r.kind = "AllBatch" THEN {r.fetches[i].asset : i \in DOMAIN r.fetches} ELSE {})
      \cup (IF r.kind \in {"AllBatch", "ExecutexSwapAndCall", "TransferFallback"}
            THEN {r.transfers[i].asset : i \in DOMAIN r.transfers} ELSE {})

evm_replay_protection(chain, contract) ==
    [nonce |-> evm_nonces[chain] + 1, chain_id |-> environment_of(chain).chain_id,
     key_manager_address |-> environment_of(chain).key_manager, contract_address |-> contract]

\* faulty variant: the chain is not a part of what is signed
tokenize_without_chain(replay) ==
    <<replay.nonce, replay.contract_address, replay.key_manager_address>>

tokenize(replay) ==
    <<replay.nonce, replay.contract_address, replay.chain_id, replay.key_manager_address>>

msg_hash(kind, args) == <<kind, args>>

threshold_signature_payload(kind, args, replay) == <<msg_hash(kind, args), tokenize(replay)>>

\* new_unsigned: a batch or transfer of a token without an address is refused, and with it
\* everything its caller did; a batch with nothing to do has taken a nonce all the same.
new_unsigned(r) ==
    /\ Len(api_calls) < evm_plan.max_calls /\ evm_nonces[r.chain] < evm_plan.max_calls
    /\ \A asset \in Assets(r) : token_address(r.chain, asset) # {}
    /\ evm_nonces' = [evm_nonces EXCEPT ![r.chain] = @ + 1]
    /\ IF r.kind = "AllBatch" /\ NotRequired(r.chain, r)
       THEN UNCHANGED api_calls
       ELSE api_calls' = Append(api_calls,
               [request |-> r, args |-> function_call_args(r),
                replay |-> evm_replay_protection(r.chain, target_contract(r.chain, r.kind)),
                fees_at |-> tracked[r.chain],
                sigs |-> {}, payload |-> <<>>, metadata |-> <<>>, sent |-> <<>>,
                priced_at |-> {}, quoted |-> {}, asked |-> FALSE])
    /\ UNCHANGED <<evm_plan, tracked, signatures, out_ids, used_nonces, accepted, refunds>>

----------------------------------------------------------------------------
\* Transactions.

calculate_gas_limit(chain, r) ==
    {LET price == max_fee_per_gas(chain, data, <<1, 1>>)
     IN  Min({IF price = 0 THEN 0 ELSE gas_limit_of \div price, EvmMaxGasLimit})
        : gas_limit_of \in gas_budget(r), data \in tracked[chain]}

chain_encoded(c, sig) == [kind |-> c.request.kind, args |-> c.args, sig_data |-> [sig |-> sig, nonce |-> c.replay.nonce]]

build_transaction(c, sig) ==
    [chain_id |-> c.replay.chain_id, contract |-> c.replay.contract_address,
     data |-> chain_encoded(c, sig), gas_limit |-> calculate_gas_limit(c.request.chain, c.request),
     max_fee |-> {}, max_priority |-> {}]

refresh_unsigned_data(chain, tx) ==
    IF tracked[chain] = {} THEN tx
    ELSE [tx EXCEPT !.max_fee = {max_fee_per_gas(chain, d, base_fee_multiplier(chain)) : d \in tracked[chain]},
                    !.max_priority = {get_priority_fee(chain, d) : d \in tracked[chain]}]

extract_metadata(tx) ==
    [contract |-> tx.contract, max_fee |-> tx.max_fee, max_priority |-> tx.max_priority,
     gas_limit |-> tx.gas_limit]

\* Each attempt refreshes the fees and states what is expected; only a nominee gets to know them.
start_broadcast_attempt(c, tx, nominated) ==
    LET with(fresh) ==
            [c EXCEPT !.metadata = <<extract_metadata(fresh)>>,
                      !.payload = IF nominated THEN <<fresh>> ELSE <<tx>>,
                      !.sent = IF nominated THEN Append(@, fresh) ELSE @,
                      !.quoted = IF nominated THEN tracked[c.request.chain] ELSE @,
                      !.asked = nominated]
    IN  with(refresh_unsigned_data(c.request.chain, tx))

\* on_signature_ready: the first signature of a call is broadcast, after the barrier if there is
\* one; that of a fallback transfer, and later ones of a failed message, are only kept for users.
on_signature_ready(i, how) ==
    LET c == api_calls[i]
        sig == Len(signatures) + 1
        signed == [c EXCEPT !.sigs = @ \cup {sig}]
        priced == [signed EXCEPT !.priced_at = tracked[c.request.chain]]
        tx == build_transaction(c, sig)
    IN  /\ Len(signatures) < evm_plan.max_signatures
        /\ signatures' = Append(signatures, threshold_signature_payload(c.request.kind, c.args, c.replay))
        /\ \/ /\ how = "CallResigned"
              /\ \/ c.request.kind = "TransferFallback"
                 \/ c.request.kind = "ExecutexSwapAndCall" /\ c.sigs # {}
              /\ api_calls' = [api_calls EXCEPT ![i] = signed]
              /\ UNCHANGED out_ids
           \/ /\ how # "CallResigned"
              /\ c.sigs = {} /\ c.request.kind # "TransferFallback"
              /\ out_ids' = [out_ids EXCEPT ![c.request.chain] = @ \cup {<<sig, i>>}]
              /\ api_calls' = [api_calls EXCEPT ![i] =
                     IF how = "barrier" THEN [priced EXCEPT !.payload = <<tx>>]
                     ELSE start_broadcast_attempt(priced, tx, how = "nominee")]
        /\ UNCHANGED <<evm_plan, evm_nonces, tracked, used_nonces, accepted, refunds>>

start_next_broadcast_attempt(i, nominated) ==
    /\ api_calls[i].payload # <<>>
    /\ Len(api_calls[i].sent) < evm_plan.max_attempts
    /\ api_calls' = [api_calls EXCEPT ![i] =
            start_broadcast_attempt(@, api_calls[i].payload[1], nominated)]
    /\ UNCHANGED <<evm_plan, evm_nonces, tracked, signatures, out_ids, used_nonces, accepted, refunds>>

\* update_chain_state
TrackFees(chain, data) ==
    /\ tracked[chain] # {data}
    /\ tracked' = [tracked EXCEPT ![chain] = {data}]
    /\ UNCHANGED <<evm_plan, evm_nonces, api_calls, signatures, out_ids, used_nonces, accepted, refunds>>

----------------------------------------------------------------------------
\* The contracts: what was signed may be sent by anyone, to any chain; the function runs if the
\* signature is one for the function, its arguments, the chain and the contract, and the nonce
\* was not used before.
ExecuteOnChain(chain, data, metadata, price, nominee) ==
    LET replay == [nonce |-> data.sig_data.nonce, chain_id |-> environment_of(chain).chain_id,
                   key_manager_address |-> environment_of(chain).key_manager,
                   contract_address |-> target_contract(chain, data.kind)]
    IN  /\ data.sig_data.nonce \notin used_nonces[chain]
        /\ signatures[data.sig_data.sig] = threshold_signature_payload(data.kind, data.args, replay)
        /\ used_nonces' = [used_nonces EXCEPT ![chain] = @ \cup {data.sig_data.nonce}]
        /\ accepted' = accepted \cup
                {[chain |-> chain, data |-> data, price |-> price, nominee |-> nominee,
                  metadata |-> metadata, witnessed |-> FALSE]}
        /\ UNCHANGED <<evm_plan, evm_nonces, tracked, api_calls, signatures, out_ids, refunds>>

NomineeSends(i, k, price) ==
    LET tx == api_calls[i].sent[k]
    IN  ExecuteOnChain(api_calls[i].request.chain, tx.data, extract_metadata(tx), price, TRUE)

AnyoneSends(chain, i, sig, metadata, price) ==
    ExecuteOnChain(chain, chain_encoded(api_calls[i], sig),
                   [metadata EXCEPT !.contract = target_contract(chain, api_calls[i].request.kind)],
                   price, FALSE)

----------------------------------------------------------------------------

Unset(expected) == expected = {}

verify_metadata(actual, expected) ==
    /\ actual.contract = expected.contract
    /\ Unset(expected.max_fee) \/ expected.max_fee = actual.max_fee
    /\ Unset(expected.max_priority) \/ expected.max_priority = actual.max_priority
    /\ Unset(expected.gas_limit) \/ expected.gas_limit = actual.gas_limit

return_fee_refund(tx, price, gas_used) ==
    Min({price, IF tx.max_fee = {} THEN 0 ELSE CHOOSE f \in tx.max_fee : TRUE}) * gas_used

transaction_succeeded(e) ==
    /\ ~e.witnessed
    /\ accepted' = (accepted \ {e}) \cup {[e EXCEPT !.witnessed = TRUE]}
    /\ \E o \in out_ids[e.chain] :
        LET c == api_calls[o[2]]
            verified == c.metadata # <<>> /\ verify_metadata(e.metadata, c.metadata[1])
        IN  /\ o[1] = e.data.sig_data.sig
            /\ out_ids' = [out_ids EXCEPT ![e.chain] = @ \ {o}]
            /\ refunds' = refunds \cup
                {[call |-> o[2], event |-> e, recorded |-> verified,
                  amount |-> IF verified THEN return_fee_refund(c.payload[1], e.price, evm_plan.gas_used)
                             ELSE 0]}
            /\ api_calls' = [api_calls EXCEPT ![o[2]].payload = <<>>]
    /\ UNCHANGED <<evm_plan, evm_nonces, tracked, signatures, used_nonces>>

----------------------------------------------------------------------------

EvmInit ==
    /\ evm_plan \in EvmPlans
    /\ evm_nonces = [c \in EvmChains |-> 0]
    /\ tracked = evm_plan.tracked
    /\ api_calls = <<>> /\ signatures = <<>>
    /\ out_ids = [c \in EvmChains |-> {}] /\ used_nonces = [c \in EvmChains |-> {}]
    /\ accepted = {} /\ refunds = {}

EvmNext ==
    \/ \E r \in evm_plan.requests : new_unsigned(r)
    \/ \E i \in DOMAIN api_calls :
        \/ \E how \in evm_plan.readies : on_signature_ready(i, how)
        \/ \E nominated \in BOOLEAN : start_next_broadcast_attempt(i, nominated)
        \/ \E price \in evm_plan.prices :
            \/ \E k \in DOMAIN api_calls[i].sent : NomineeSends(i, k, price)
            \/ \E chain \in EvmChains, sig \in api_calls[i].sigs, metadata \in evm_plan.others :
                AnyoneSends(chain, i, sig, metadata, price)
    \/ \E chain \in EvmChains : \E data \in evm_plan.fees[chain] : TrackFees(chain, data)
    \/ \E e \in accepted : transaction_succeeded(e)

----------------------------------------------------------------------------

\* The state has its types; a signed call has a transaction until it succeeds.
EvmTypeOK ==
    /\ \A c \in EvmChains : evm_nonces[c] \in Nat /\ Cardinality(tracked[c]) <= 1
    /\ \A i \in DOMAIN api_calls :
        /\ Len(api_calls[i].payload) <= 1 /\ Len(api_calls[i].metadata) <= 1
        /\ api_calls[i].payload # <<>> => api_calls[i].sigs # {}
    /\ \A c \in EvmChains : \A o \in out_ids[c] :
        o[1] \in DOMAIN signatures /\ o[2] \in DOMAIN api_calls
    /\ \A r \in refunds : r.amount \in Nat /\ r.recorded \in BOOLEAN

\* What the contracts did is what was asked for: each accepted function call is a call that was
\* made for that very chain, with its arguments, and no call took effect twice, however often it
\* was signed and wherever its signatures were used.
CallsTakeEffectOnce ==
    /\ \A e \in accepted : \E i \in DOMAIN api_calls :
        LET c == api_calls[i]
        IN  /\ c.request.chain = e.chain /\ c.replay.nonce = e.data.sig_data.nonce
            /\ c.request.kind = e.data.kind /\ c.args = e.data.args
    /\ \A e, f \in accepted :
        (e.chain = f.chain /\ e.data.sig_data.nonce = f.data.sig_data.nonce) => e = f

\* A refund is recorded only for a transaction that kept to what a nominee was asked to send, and
\* is neither more than what was paid nor more than the nominee was asked to pay at most.
RefundsWithinRequests ==
    \A r \in refunds : r.recorded =>
        /\ r.amount <= r.event.price * evm_plan.gas_used
        /\ r.amount > 0 =>
            \E k \in DOMAIN api_calls[r.call].sent :
                LET tx == api_calls[r.call].sent[k]
                IN  \A f \in tx.max_fee : r.amount <= f * evm_plan.gas_used
        /\ \A limit \in api_calls[r.call].metadata[1].gas_limit : r.event.metadata.gas_limit = {limit}

\* A nominee that sent what it was last asked to is refunded in full. That is all the pallet
\* grants: an attempt overwrites the metadata expected of the one before, also when it finds no
\* nominee, so the nominee of an earlier attempt whose transaction is included after fees have
\* changed is refused its refund, although it sent what it was asked to.
NomineesAreRefunded ==
    \A r \in refunds :
        LET c == api_calls[r.call]
        IN  /\ c.asked /\ r.event.nominee
            /\ r.event.metadata = extract_metadata(c.sent[Len(c.sent)])
            /\ \E f \in r.event.metadata.max_fee : r.event.price <= f
            => r.recorded /\ r.amount = r.event.price * evm_plan.gas_used

\* The gas a message may use costs, at the price when its transaction was made, at most the
\* user's budget; no other call has a limit.
GasWithinBudget ==
    \A i \in DOMAIN api_calls : \A k \in DOMAIN api_calls[i].sent :
        LET c == api_calls[i]
        IN  \A limit \in c.sent[k].gas_limit :
            /\ limit <= EvmMaxGasLimit
            /\ \A gas_limit_of \in gas_budget(c.request) : \A data \in c.priced_at :
                limit * max_fee_per_gas(c.request.chain, data, <<1, 1>>) <= gas_limit_of

\* The last nominee was asked to offer enough for the fees that were tracked when it was asked,
\* and at most the multiple of the base fee we are willing to pay: a transaction that was priced
\* out is offered anew by the next attempt.
AttemptsFollowFees ==
    \A i \in DOMAIN api_calls : api_calls[i].sent # <<>> =>
        LET c == api_calls[i]
            offered == c.sent[Len(c.sent)].max_fee
        IN  \A data \in c.quoted :
                /\ offered # {}
                /\ \A f \in offered : /\ f >= data.base_fee
                                      /\ f <= 2 * data.base_fee + data.priority_fee

Batches == {i \in DOMAIN api_calls : api_calls[i].request.kind = "AllBatch"}

\* A batch deploys each undeployed deposit contract, fetches from each deployed one that holds
\* tokens, and makes each transfer, once.
BatchesAreComplete ==
    \A i \in Batches :
        LET r == api_calls[i].request
            args == api_calls[i].args
            count(P(_)) == Cardinality({j \in DOMAIN r.fetches : P(r.fetches[j])})
        IN  /\ Len(args[1]) = count(LAMBDA c : c.state = "Undeployed")
            /\ Len(args[2]) = count(LAMBDA c : c.state # "Undeployed" /\ c.asset # gas_asset(r.chain))
            /\ Len(args[3]) = Len(r.transfers)
            /\ \A j \in DOMAIN r.fetches :
                LET c == r.fetches[j]
                IN  IF c.state = "Undeployed"
                    THEN \E k \in DOMAIN args[1] : args[1][k] = <<c.channel_id, TokenOf(r.chain, c.asset)>>
                    ELSE c.asset # gas_asset(r.chain) =>
                            \E k \in DOMAIN args[2] : args[2][k] = <<c.address, TokenOf(r.chain, c.asset)>>

\* The fees that users are charged for the parts of a batch pay for the gas of the whole batch,
\* at the fees tracked when the batch was made.
FeesCoverBatches ==
    \A i \in Batches : \A data \in api_calls[i].fees_at :
        LET r == api_calls[i].request
            total(S, f(_)) == MapThenSumSet(f, S)
        IN  total(DOMAIN r.fetches, LAMBDA j : estimate_ingress_fee(r.chain, data, r.fetches[j].asset))
              + total(DOMAIN r.transfers, LAMBDA j : estimate_egress_fee(r.chain, data, r.transfers[j].asset))
            >= gas_cost(r.chain, data,
                   EvmBatchCost
                     + total(DOMAIN r.fetches, LAMBDA j : FetchCost(r.chain, r.fetches[j].asset))
                     + total(DOMAIN r.transfers, LAMBDA j : TransferCost(r.chain, r.transfers[j].asset)))

\* Calls take effect on their chain once and batches are complete and paid for within their
\* budget, however often fees change and transactions are attempted again; the nominees of the
\* last attempt get back what they spent (those of earlier attempts may not, see
\* NomineesAreRefunded).
EvmCallsAreSound ==
    /\ EvmTypeOK
    /\ CallsTakeEffectOnce
    /\ RefundsWithinRequests
    /\ NomineesAreRefunded
    /\ GasWithinBudget
    /\ AttemptsFollowFees
    /\ BatchesAreComplete
    /\ FeesCoverBatches

(* Scripts, addresses and transactions of Bitcoin as bytes, checked against what a Bitcoin node *)
(* makes of them: a script is run, an address is read back, a transaction is parsed and each of *)
(* its inputs verified.  A byte of a hash, key or signature is an opaque value that says what    *)
(* it is of; checksums of addresses are intact.                                                  *)

CONSTANTS
    OddTweaks,          \* the salts whose tweaked public key has an odd y coordinate
    BtcCases            \* instances: the values, scripts, addresses and transactions considered

VARIABLE btc_case

btcCaseVars == <<btc_case>>

Opaque(x, n) == [i \in 1 .. n |-> x]

\* to_le_bytes, of values below 2^31.
to_le_bytes(value, n) == [i \in 1 .. n |-> IF i > 4 THEN 0 ELSE (value \div (256 ^ (i - 1))) % 256]

Concat(seqs) == FoldLeft(LAMBDA a, b : a \o b, <<>>, seqs)

to_varint(value) ==
    IF value <= 252 THEN to_le_bytes(value, 1)
    ELSE IF value <= 65535 THEN <<253>> \o to_le_bytes(value, 2)
    ELSE <<254>> \o to_le_bytes(value, 4)

----------------------------------------------------------------------------
\* Scripts.

PushUint(value) == [op |-> "PushUint", value |-> value, bytes |-> <<>>]
PushBytes(bytes) == [op |-> "PushBytes", value |-> 0, bytes |-> bytes]
PushArray20(bytes) == [op |-> "PushArray20", value |-> 0, bytes |-> bytes]
PushArray32(bytes) == [op |-> "PushArray32", value |-> 0, bytes |-> bytes]
PushVersion(version) == [op |-> "PushVersion", value |-> version, bytes |-> <<>>]
Op(name) == [op |-> name, value |-> 0, bytes |-> <<>>]

OpCode == [Drop |-> 117, CheckSig |-> 172, Dup |-> 118, Hash160 |-> 169, EqualVerify |-> 136, Equal |-> 135]

\* The bytes of a number without its leading zeros.
SignificantBytes(value) ==
    IF value >= 16777216 THEN 4 ELSE IF value >= 65536 THEN 3 ELSE IF value >= 256 THEN 2 ELSE 1

push_uint(value) ==
    IF value = 0 THEN <<0>>
    ELSE IF value <= 16 THEN <<80 + value>>
    ELSE IF value = 129 THEN <<79>>
    ELSE <<SignificantBytes(value)>> \o to_le_bytes(value, SignificantBytes(value))

push_length(n) ==
    IF n <= 75 THEN <<n>>
    ELSE IF n <= 255 THEN <<76, n>>
    ELSE IF n <= 65535 THEN <<77>> \o to_le_bytes(n, 2)
    ELSE <<78>> \o to_le_bytes(n, 4)

btc_encode(o) ==
    CASE o.op = "PushUint" -> push_uint(o.value)
      [] o.op = "PushBytes" -> push_length(Len(o.bytes)) \o o.bytes
      [] o.op = "PushArray20" -> <<20>> \o o.bytes
      [] o.op = "PushArray32" -> <<32>> \o o.bytes
      [] o.op = "PushVersion" -> IF o.value = 0 THEN <<0>> ELSE <<80 + o.value>>
      [] OTHER -> <<OpCode[o.op]>>

\* BitcoinScript::new, and its serialization as a list of bytes.
BitcoinScript(ops) == Concat([i \in DOMAIN ops |-> btc_encode(ops[i])])
btc_serialize(script) == to_varint(Len(script)) \o script

program(s) ==
    CASE s.kind = "P2PKH" -> <<Op("Dup"), Op("Hash160"), PushArray20(s.data), Op("EqualVerify"), Op("CheckSig")>>
      [] s.kind = "P2SH" -> <<Op("Hash160"), PushArray20(s.data), Op("Equal")>>
      [] s.kind = "P2WPKH" -> <<PushVersion(0), PushArray20(s.data)>>
      [] s.kind = "P2WSH" -> <<PushVersion(0), PushArray32(s.data)>>
      [] s.kind = "Taproot" -> <<PushVersion(1), PushArray32(s.data)>>
      [] s.kind = "OtherSegwit" -> <<PushVersion(s.version), PushBytes(s.data)>>

Script(kind, data) == [kind |-> kind, version |-> 0, data |-> data]

----------------------------------------------------------------------------
\* Addresses.

p2pkh_address_version(network) == IF network = "Mainnet" THEN 0 ELSE 111
p2sh_address_version(network) == IF network = "Mainnet" THEN 5 ELSE 196
bech32_and_bech32m_address_hrp(network) ==
    CASE network = "Mainnet" -> "bc" [] network = "Testnet" -> "tb" [] network = "Regtest" -> "bcrt"

Bech32Variant(kind) == IF kind \in {"P2WPKH", "P2WSH"} THEN "Bech32" ELSE "Bech32m"
SegwitVersion(s) == CASE s.kind \in {"P2WPKH", "P2WSH"} -> 0 [] s.kind = "Taproot" -> 1 [] OTHER -> s.version

\* An address is its encoding, the version or prefix it starts with, and its data.
to_address(s, network) ==
    CASE s.kind = "P2PKH" -> [encoding |-> "Base58", hrp |-> "", version |-> p2pkh_address_version(network), data |-> s.data]
      [] s.kind = "P2SH" -> [encoding |-> "Base58", hrp |-> "", version |-> p2sh_address_version(network), data |-> s.data]
      [] OTHER -> [encoding |-> Bech32Variant(s.kind), hrp |-> bech32_and_bech32m_address_hrp(network),
                   version |-> SegwitVersion(s), data |-> s.data]

try_decode_as_base58(a, network) ==
    IF a.encoding # "Base58" \/ Len(a.data) # 20 THEN {}
    ELSE IF a.version = p2pkh_address_version(network) THEN {Script("P2PKH", a.data)}
    ELSE IF a.version = p2sh_address_version(network) THEN {Script("P2SH", a.data)}
    ELSE {}

try_decode_as_bech32_or_bech32m(a, network) ==
    IF a.encoding = "Base58" \/ a.hrp # bech32_and_bech32m_address_hrp(network) THEN {}
    ELSE IF a.version = 0 /\ a.encoding = "Bech32" /\ Len(a.data) = 20 THEN {Script("P2WPKH", a.data)}
    ELSE IF a.version = 0 /\ a.encoding = "Bech32" /\ Len(a.data) = 32 THEN {Script("P2WSH", a.data)}
    ELSE IF a.version = 1 /\ a.encoding = "Bech32m" /\ Len(a.data) = 32 THEN {Script("Taproot", a.data)}
    ELSE IF a.version \in 1 .. 16 /\ a.encoding = "Bech32m" /\ Len(a.data) \in 2 .. 40
         THEN {[kind |-> "OtherSegwit", version |-> a.version, data |-> a.data]}
    ELSE {}

try_from_address(a, network) ==
    IF try_decode_as_base58(a, network) # {} THEN try_decode_as_base58(a, network)
    ELSE try_decode_as_bech32_or_bech32m(a, network)

----------------------------------------------------------------------------
\* Deposit addresses.

Key(k) == Opaque(<<"key", k>>, 32)

unlock_script(pubkey_x, salt) ==
    BitcoinScript(<<PushUint(salt), Op("Drop"), PushArray32(pubkey_x), Op("CheckSig")>>)

tapleaf_hash(version, script) == <<"tapleaf", version, script>>
Tweaked(leaf) == <<"tweak", leaf>>

\* The vault's own address (salt 0) is spent with its key, a channel's with its script.
DepositAddress(k, salt) ==
    [pubkey_x |-> Key(k),
     script_path |->
        IF salt = 0 THEN {}
        ELSE {[unlock_script |-> unlock_script(Key(k), salt),
               tapleaf_hash |-> tapleaf_hash(192, unlock_script(Key(k), salt)),
               odd |-> salt \in OddTweaks]}]

leaf_version(path) == IF path.odd THEN 193 ELSE 192

script_pubkey(address) ==
    Script("Taproot",
           IF address.script_path = {} THEN address.pubkey_x
           ELSE LET path == CHOOSE p \in address.script_path : TRUE
                IN  Opaque(Tweaked(path.tapleaf_hash), 32))

----------------------------------------------------------------------------
\* Transactions.

LOCKTIME == to_le_bytes(0, 4)
VERSION == to_le_bytes(2, 4)
SEQUENCE_NUMBER == <<253, 255, 255, 255>>

TxIdBytes(id) == Opaque(<<"tx", id>>, 32)
OutPoint(input) == TxIdBytes(input.tx) \o to_le_bytes(input.vout, 4)

EncodedOutput(output) ==
    to_le_bytes(output.amount, 8) \o btc_serialize(BitcoinScript(program(output.script)))

extend_with_inputs_outputs(inputs, outputs) ==
    to_varint(Len(inputs))
      \o Concat([i \in DOMAIN inputs |-> OutPoint(inputs[i]) \o <<0>> \o SEQUENCE_NUMBER])
      \o to_varint(Len(outputs)) \o Concat([i \in DOMAIN outputs |-> EncodedOutput(outputs[i])])

transaction_bytes(tx) == VERSION \o <<0, 1>> \o extend_with_inputs_outputs(tx.inputs, tx.outputs)

PathOf(input) == CHOOSE p \in input.deposit_address.script_path : TRUE

\* The message that is signed for an input.
signing_payload(tx, i) ==
    [outpoints |-> Concat([j \in DOMAIN tx.inputs |-> OutPoint(tx.inputs[j])]),
     amounts |-> Concat([j \in DOMAIN tx.inputs |-> to_le_bytes(tx.inputs[j].amount, 8)]),
     scriptpubkeys |-> Concat([j \in DOMAIN tx.inputs |->
        btc_serialize(BitcoinScript(program(script_pubkey(tx.inputs[j].deposit_address))))]),
     sequences |-> Concat([j \in DOMAIN tx.inputs |-> SEQUENCE_NUMBER]),
     outputs |-> Concat([j \in DOMAIN tx.outputs |-> EncodedOutput(tx.outputs[j])]),
     index |-> i,
     spend |-> IF tx.inputs[i].deposit_address.script_path = {} THEN <<0>>
               ELSE <<2, PathOf(tx.inputs[i]).tapleaf_hash>>]

\* faulty variant: the inputs of the old key are those without a script
old_utxo_input_indices_by_path(tx) ==
    {i \in DOMAIN tx.inputs : tx.inputs[i].deposit_address.script_path # {} /\ tx.agg_key.previous # {}}

\* create_new_unsigned: the inputs that the previous key must sign for.
tx_old_inputs(tx) ==
    {i \in DOMAIN tx.inputs : /\ tx.inputs[i].deposit_address.pubkey_x # Key(tx.agg_key.current)
                              /\ tx.agg_key.previous # {}}

\* For each input the key that signs and the message.
tx_signing_payloads(tx) ==
    [i \in DOMAIN tx.inputs |->
        [key |-> IF i \in tx_old_inputs(tx) THEN "Previous" ELSE "Current",
         message |-> signing_payload(tx, i)]]

\* The signatures of a ceremony: each payload is signed by the holders of the key it names.
signatures_of(tx) ==
    [i \in DOMAIN tx.inputs |->
        LET payload == tx_signing_payloads(tx)[i]
            signer == IF payload.key = "Current" THEN tx.agg_key.current
                      ELSE CHOOSE k \in tx.agg_key.previous : TRUE
        IN  Opaque(<<"sig", <<"key", signer>>, payload.message>>, 64)]

witness(input, signature) ==
    IF input.deposit_address.script_path = {} THEN <<1, 64>> \o signature
    ELSE LET path == PathOf(input)
         IN  <<3, 64>> \o signature \o btc_serialize(path.unlock_script)
               \o <<33, leaf_version(path)>> \o Opaque(<<"internal key">>, 32)

finalize(tx, sigs) ==
    transaction_bytes(tx) \o Concat([i \in DOMAIN tx.inputs |-> witness(tx.inputs[i], sigs[i])]) \o LOCKTIME

txid(tx) == VERSION \o extend_with_inputs_outputs(tx.inputs, tx.outputs) \o LOCKTIME

----------------------------------------------------------------------------
\* A Bitcoin node: how it reads numbers, scripts and transactions, and what it accepts.

Rest(b, n) == SubSeq(b, n + 1, Len(b))
ReadNumber(b, n) ==
    LET term[i \in 0 .. n] == IF i = 0 THEN 0 ELSE term[i - 1] + (IF i > 4 THEN 0 ELSE b[i] * (256 ^ (i - 1)))
    IN  term[n]

ReadVarint(b) ==
    IF b[1] < 253 THEN [value |-> b[1], rest |-> Rest(b, 1)]
    ELSE IF b[1] = 253 THEN [value |-> ReadNumber(Rest(b, 1), 2), rest |-> Rest(b, 3)]
    ELSE [value |-> ReadNumber(Rest(b, 1), 4), rest |-> Rest(b, 5)]

\* The list of n items read one after the other by Read, and what follows.
ReadMany(b, n, Read(_)) ==
    LET step[i \in 0 .. n] ==
            IF i = 0 THEN [items |-> <<>>, rest |-> b]
            ELSE LET r == Read(step[i - 1].rest)
                 IN  [items |-> Append(step[i - 1].items, r.item), rest |-> r.rest]
    IN  step[n]

ReadBytes(b) ==
    LET n == ReadVarint(b)
    IN  [item |-> SubSeq(n.rest, 1, n.value), rest |-> Rest(n.rest, n.value)]

ReadInput(b) ==
    [item |-> [outpoint |-> SubSeq(b, 1, 36), script |-> b[37], sequence |-> SubSeq(b, 38, 41)],
     rest |-> Rest(b, 41)]

ReadOutput(b) ==
    LET script == ReadBytes(Rest(b, 8))
    IN  [item |-> [amount |-> ReadNumber(b, 8), script |-> script.item], rest |-> script.rest]

ReadWitness(b) ==
    LET n == ReadVarint(b)
        items == ReadMany(n.rest, n.value, ReadBytes)
    IN  [item |-> items.items, rest |-> items.rest]

ReadTransaction(b) ==
    LET n_inputs == ReadVarint(Rest(b, 6))
        inputs == ReadMany(n_inputs.rest, n_inputs.value, ReadInput)
        n_outputs == ReadVarint(inputs.rest)
        outputs == ReadMany(n_outputs.rest, n_outputs.value, ReadOutput)
        witnesses == ReadMany(outputs.rest, n_inputs.value, ReadWitness)
    IN  [version |-> ReadNumber(b, 4), flags |-> SubSeq(b, 5, 6), inputs |-> inputs.items,
         outputs |-> outputs.items, witnesses |-> witnesses.items, locktime |-> witnesses.rest]

\* One step of a script: data is pushed, an operation changes the stack.
ScriptStep(script) ==
    IF script[1] \in 1 .. 75 THEN [push |-> <<SubSeq(script, 2, script[1] + 1)>>, op |-> 0, rest |-> Rest(script, script[1] + 1)]
    ELSE IF script[1] = 0 THEN [push |-> << <<>> >>, op |-> 0, rest |-> Rest(script, 1)]
    ELSE IF script[1] = 79 THEN [push |-> << <<129>> >>, op |-> 0, rest |-> Rest(script, 1)]
    ELSE IF script[1] \in 81 .. 96 THEN [push |-> << <<script[1] - 80>> >>, op |-> 0, rest |-> Rest(script, 1)]
    ELSE [push |-> <<>>, op |-> script[1], rest |-> Rest(script, 1)]

RECURSIVE ScriptSteps(_)
ScriptSteps(script) ==
    IF script = <<>> THEN <<>>
    ELSE <<[push |-> ScriptStep(script).push, op |-> ScriptStep(script).op]>> \o ScriptSteps(ScriptStep(script).rest)

\* The key that a script of the form <number> DROP <key> CHECKSIG asks a signature of.
KeyOfScript(script) ==
    LET steps == ScriptSteps(script)
    IN  IF /\ Len(steps) = 4
           /\ steps[1].push # <<>> /\ steps[2].op = 117 /\ steps[3].push # <<>> /\ steps[4].op = 172
        THEN {steps[3].push[1][1]} ELSE {}

\* The message a node verifies a signature for.
VerifiedMessage(read, spent, i, spend) ==
    [outpoints |-> Concat([j \in DOMAIN read.inputs |-> read.inputs[j].outpoint]),
     amounts |-> Concat([j \in DOMAIN spent |-> to_le_bytes(spent[j].amount, 8)]),
     scriptpubkeys |-> Concat([j \in DOMAIN spent |-> to_varint(Len(spent[j].script)) \o spent[j].script]),
     sequences |-> Concat([j \in DOMAIN read.inputs |-> read.inputs[j].sequence]),
     outputs |-> Concat([j \in DOMAIN read.outputs |->
        to_le_bytes(read.outputs[j].amount, 8) \o to_varint(Len(read.outputs[j].script)) \o read.outputs[j].script]),
     index |-> i, spend |-> spend]

InputAccepted(read, spent, i) ==
    LET w == read.witnesses[i]
        committed == spent[i].script[3]
    IN  \/ /\ Len(w) = 1 /\ Len(w[1]) = 64
           /\ w[1][1] = <<"sig", committed, VerifiedMessage(read, spent, i, <<0>>)>>
        \/ /\ Len(w) = 3 /\ Len(w[1]) = 64 /\ Len(w[3]) = 33
           /\ LET leaf == tapleaf_hash(192, w[2])
              IN  /\ committed = Tweaked(leaf)
                  /\ w[3][1] = IF spent[i].odd THEN 193 ELSE 192
                  /\ \E key \in KeyOfScript(w[2]) :
                        w[1][1] = <<"sig", key, VerifiedMessage(read, spent, i, <<2, leaf>>)>>

\* What the inputs of a transaction spend, as the chain knows it.
Spent(tx) ==
    [i \in DOMAIN tx.inputs |->
        [amount |-> tx.inputs[i].amount,
         script |-> <<81, 32>> \o script_pubkey(tx.inputs[i].deposit_address).data,
         odd |-> \E p \in tx.inputs[i].deposit_address.script_path : p.odd]]

----------------------------------------------------------------------------

EncodingInit == btc_case \in BtcCases

\* Numbers are written in the compact form of the protocol: what a node reads back is the number,
\* and nothing of what follows is taken for a part of it.
NumbersReadBack ==
    btc_case.kind = "number" =>
        LET r == ReadVarint(to_varint(btc_case.value) \o <<7, 7, 7>>)
        IN  r.value = btc_case.value /\ r.rest = <<7, 7, 7>>

\* The script of a deposit channel is the one that drops the channel's salt and asks for a
\* signature of the vault's key; the scripts of two channels differ.
UnlockScriptsWork ==
    btc_case.kind = "salt" =>
        LET s == unlock_script(Key(1), btc_case.salt)
        IN  /\ KeyOfScript(s) = {Key(1)[1]}
            /\ ScriptSteps(s)[1].push = << IF btc_case.salt = 0 THEN <<>>
                                           ELSE to_le_bytes(btc_case.salt, SignificantBytes(btc_case.salt)) >>
            /\ \A other \in btc_case.others : other # btc_case.salt => unlock_script(Key(1), other) # s

\* An address that is made of a script is read back as the script; one of another network is
\* refused, but for the old forms, which the test networks share.
AddressesReadBack ==
    btc_case.kind = "address" =>
        \A read_on \in {"Mainnet", "Testnet", "Regtest"} :
            LET s == btc_case.script
                result == try_from_address(to_address(s, btc_case.network), read_on)
            IN  IF read_on = btc_case.network
                THEN /\ Cardinality(result) = 1
                     /\ \A r \in result : BitcoinScript(program(r)) = BitcoinScript(program(s))
                ELSE \/ result = {}
                     \/ /\ s.kind \in {"P2PKH", "P2SH"} /\ result = {s}
                        /\ "Mainnet" \notin {btc_case.network, read_on}

\* A node reads the inputs and outputs that the transaction was made of, and accepts each of its
\* inputs, spent by key or by script.
NodesAcceptTransactions ==
    btc_case.kind = "tx" =>
        LET tx == btc_case.tx
            read == ReadTransaction(finalize(tx, signatures_of(tx)))
        IN  /\ read.version = 2 /\ read.flags = <<0, 1>> /\ read.locktime = LOCKTIME
            /\ Len(read.inputs) = Len(tx.inputs) /\ Len(read.outputs) = Len(tx.outputs)
            /\ \A i \in DOMAIN tx.outputs :
                /\ read.outputs[i].amount = tx.outputs[i].amount
                /\ read.outputs[i].script = BitcoinScript(program(tx.outputs[i].script))
            /\ \A i \in DOMAIN tx.inputs :
                /\ read.inputs[i].outpoint = OutPoint(tx.inputs[i]) /\ read.inputs[i].script = 0
                /\ InputAccepted(read, Spent(tx), i)

\* The identifier a transaction is witnessed by is that of the transaction on the chain: it is made
\* of what a node reads, without the witnesses, so signing again does not change it.
IdentifierOfTheChain ==
    btc_case.kind = "tx" =>
        LET tx == btc_case.tx
            read == ReadTransaction(finalize(tx, signatures_of(tx)))
        IN  txid(tx) = to_le_bytes(read.version, 4)
                \o to_varint(Len(read.inputs))
                \o Concat([j \in DOMAIN read.inputs |->
                        read.inputs[j].outpoint \o <<read.inputs[j].script>> \o read.inputs[j].sequence])
                \o to_varint(Len(read.outputs))
                \o Concat([j \in DOMAIN read.outputs |->
                        to_le_bytes(read.outputs[j].amount, 8) \o to_varint(Len(read.outputs[j].script))
                          \o read.outputs[j].script])
                \o read.locktime

\* What is written for Bitcoin means to a node what it meant here: numbers, scripts and
\* addresses are read back, and transactions are accepted under the identifier given to them.
BitcoinReadsBack ==
    /\ NumbersReadBack
    /\ UnlockScriptsWork
    /\ AddressesReadBack
    /\ NodesAcceptTransactions
    /\ IdentifierOfTheChain

=============================================================================
