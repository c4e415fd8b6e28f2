---------------------------- MODULE BitcoinVault ----------------------------
(* The UTXOs of the Bitcoin vault: the list the environment pallet keeps, how UTXOs are         *)
(* selected from it for the transfers of a block and for consolidation, the transactions that   *)
(* are built from them, and the change that comes back when a transaction is signed. A          *)
(* transaction is its inputs, its outputs and the keys it is to be signed with.                 *)
EXTENDS Integers, FiniteSets, Sequences, SequencesExt, FiniteSetsExt

CONSTANTS
    INPUT_UTXO_SIZE, VAULT_UTXO_SIZE, OUTPUT_UTXO_SIZE, MINIMUM_BTC_TX_SIZE,
    BITCOIN_DUST_LIMIT,
    \* Instances: fee rates, amounts of deposits and transfers, consolidation parameters, and how
    \* many deposits, transfers, rotations and fee changes there are. In a calm one the key is
    \* rotated only when nothing spendable is left under the one before.
    BtcPlans

VARIABLES
    btc_plan,
    sats_per_kilobyte,  \* the fee rate tracked
    agg_key,            \* AggKey: previous ({} or one key) and current
    available_utxos,    \* BitcoinAvailableUtxos
    transfers,          \* ScheduledEgressFetchOrTransfer of Bitcoin: amounts
    transactions,       \* the transactions built, in order
    removed,            \* the UTXOs dropped: stale, or part of a consolidation that does not pay
    panicked

btcVars == <<btc_plan, sats_per_kilobyte, agg_key, available_utxos, transfers, transactions, removed,
             panicked>>

Total(seq, Amount(_)) == FoldSeq(LAMBDA x, t : t + Amount(x), 0, seq)

----------------------------------------------------------------------------
\* BitcoinFeeInfo.

FeeFor(size) == (sats_per_kilobyte * size) \div 1000
fee_per_input_utxo == FeeFor(INPUT_UTXO_SIZE)
fee_per_vault_utxo == FeeFor(VAULT_UTXO_SIZE)
fee_per_output_utxo == FeeFor(OUTPUT_UTXO_SIZE)
min_fee_required_per_tx == FeeFor(MINIMUM_BTC_TX_SIZE)

fee_for_utxo(utxo) == IF utxo.script_path THEN fee_per_input_utxo ELSE fee_per_vault_utxo

net_value(utxo) == Max({0, utxo.amount - fee_for_utxo(utxo)})

----------------------------------------------------------------------------
\* utxo_selection.

SortedByValue(utxos) ==
    LET before(i, j) == \/ net_value(utxos[i]) < net_value(utxos[j])
                        \/ net_value(utxos[i]) = net_value(utxos[j]) /\ i < j
        order == SetToSortSeq(DOMAIN utxos, before)
    IN  [k \in DOMAIN utxos |-> utxos[order[k]]]

\* The first UTXO of the selection that ends at last: at most limit of them, from low on.
Window(low, last, limit) == Max({low, last - limit + 1})

\* The first window of sorted UTXOs that is worth the amount, with one more if there is room: no
\* selection when there is none.
select_utxos_from_pool(utxos, amount, limit) ==
    LET sorted == SortedByValue(utxos)
        spendable == {k \in DOMAIN sorted : net_value(sorted[k]) > 0}
        low == Min(spendable)
        worth(first, last) == Total(SubSeq(sorted, first, last), net_value)
        found == {l \in low .. Len(sorted) : worth(Window(low, l, limit), l) >= amount}
        taken(first, last) ==
            [selected |-> SubSeq(sorted, first, last), total |-> worth(first, last),
             rest |-> SubSeq(sorted, 1, first - 1) \o SubSeq(sorted, last + 1, Len(sorted))]
        extended(first, last) ==
            taken(first, IF last < Len(sorted) /\ last - first + 1 < limit THEN last + 1 ELSE last)
    IN  IF spendable = {} \/ found = {} THEN {}
        ELSE {extended(Window(low, Min(found), limit), Min(found))}

UpTo(seq, n) == SubSeq(seq, 1, Min({n, Len(seq)}))

Beyond(seq, n) == SubSeq(seq, n + 1, Len(seq))

\* faulty variant: what is worth nothing is not put back
select_utxos_for_consolidation_dropping(utxos) ==
    LET spendable == SelectSeq(utxos, LAMBDA u : net_value(u) > 0)
        size == btc_plan.consolidation.size
    IN  IF Len(spendable) >= btc_plan.consolidation.threshold
        THEN [selected |-> UpTo(spendable, size), rest |-> Beyond(spendable, size)]
        ELSE [selected |-> <<>>, rest |-> utxos]

\* Too many UTXOs: the first ones are merged. Otherwise those of the previous key are moved.
select_utxos_for_consolidation(utxos) ==
    LET spendable == SelectSeq(utxos, LAMBDA u : net_value(u) > 0)
        dust == SelectSeq(utxos, LAMBDA u : net_value(u) = 0)
        size == btc_plan.consolidation.size
        old == UpTo(SelectSeq(spendable, LAMBDA u : u.key \in agg_key.previous), size)
    IN  IF Len(spendable) >= btc_plan.consolidation.threshold
        THEN [selected |-> UpTo(spendable, size), rest |-> Beyond(spendable, size) \o dust]
        ELSE [selected |-> old,
              rest |-> SelectSeq(spendable, LAMBDA u : ~\E k \in DOMAIN old : old[k] = u) \o dust]

----------------------------------------------------------------------------
\* Transactions.

\* The inputs that are signed with the previous key.
old_utxo_input_indices(inputs) ==
    IF agg_key.previous = {} THEN {} ELSE {k \in DOMAIN inputs : inputs[k].key # agg_key.current}

\* get_signing_payloads: the indices of the old inputs are taken from the front of their list
\* while the inputs are gone through.
get_signing_payloads(inputs, old) ==
    FoldLeft(LAMBDA acc, k :
                 IF acc.old # {} /\ Min(acc.old) = k
                 THEN [old |-> acc.old \ {k}, keys |-> Append(acc.keys, "Previous")]
                 ELSE [acc EXCEPT !.keys = Append(@, "Current")],
             [old |-> old, keys |-> <<>>], [k \in DOMAIN inputs |-> k]).keys

\* create_new_unsigned asserts that every other input belongs to the previous key.
Spendable(inputs) ==
    agg_key.previous = {} \/ \A k \in DOMAIN inputs : inputs[k].key \in agg_key.previous \cup {agg_key.current}

create_new_unsigned(kind, inputs, outputs) ==
    [kind |-> kind, inputs |-> inputs, outputs |-> outputs, key |-> agg_key, rate |-> sats_per_kilobyte,
     payloads |-> get_signing_payloads(inputs, old_utxo_input_indices(inputs)), signed |-> FALSE]

Change(amount) == [amount |-> amount, to |-> "vault"]

amount_of(x) == x.amount

\* AllBatch::new_unsigned with select_and_take_bitcoin_utxos: {} when it fails.
AllBatch(utxos) ==
    LET outputs == [k \in DOMAIN transfers |-> [amount |-> transfers[k], to |-> "user"]]
        paid == SelectSeq(outputs, LAMBDA o : o.amount >= BITCOIN_DUST_LIMIT)
        needed == Total(paid, amount_of) + (Len(paid) + 1) * fee_per_output_utxo + min_fee_required_per_tx
        with_change(s) ==
            [utxos |-> s.rest,
             new |-> <<create_new_unsigned("batch", s.selected,
                         IF s.total - needed >= BITCOIN_DUST_LIMIT
                         THEN Append(paid, Change(s.total - needed)) ELSE paid)>>]
    IN  IF Total(paid, amount_of) = 0 THEN {[utxos |-> utxos, new |-> <<>>]}
        ELSE {with_change(s) : s \in select_utxos_from_pool(utxos, needed, btc_plan.consolidation.threshold)}

\* What consolidation leaves; below zero it is not done.
consolidation_transaction_change_amount(selected) ==
    Total(selected, amount_of)
        - (fee_per_input_utxo * Len(selected) + min_fee_required_per_tx + fee_per_output_utxo)

Stale(utxos) ==
    IF agg_key.previous = {} THEN <<>>
    ELSE SelectSeq(utxos, LAMBDA u : u.key \notin agg_key.previous \cup {agg_key.current})

\* consolidate_utxos: stale UTXOs are discarded; the selected ones leave the list whether or not
\* a transaction is made of them.
Consolidate(utxos) ==
    LET fresh == SelectSeq(utxos, LAMBDA u : ~\E k \in DOMAIN Stale(utxos) : Stale(utxos)[k] = u)
        take(s) ==
            LET change == consolidation_transaction_change_amount(s.selected)
            IN  IF s.selected = <<>> THEN [utxos |-> s.rest, new |-> <<>>, dropped |-> {}]
                ELSE IF change < 0
                THEN [utxos |-> s.rest, new |-> <<>>, dropped |-> ToSet(s.selected)]
                ELSE [utxos |-> s.rest, dropped |-> {},
                      new |-> <<create_new_unsigned("consolidation", s.selected, <<Change(change)>>)>>]
    IN  take(select_utxos_for_consolidation(fresh))

----------------------------------------------------------------------------
\* Steps.

\* on_finalize of the ingress egress pallet: the transfers of the block, then consolidation. If
\* the transfers cannot be built they stay; if the assertion fails the block cannot be made.
on_finalize ==
    LET step(batch, rest) ==
            LET consolidated(c) ==
                    /\ available_utxos' = c.utxos
                    /\ transactions' = transactions \o batch \o c.new
                    /\ removed' = [removed EXCEPT !.stale = @ \cup ToSet(Stale(rest)),
                                                  !.unprofitable = @ \cup c.dropped]
            IN  consolidated(Consolidate(rest))
        unspendable == \E b \in AllBatch(available_utxos) :
                            \E k \in DOMAIN b.new : ~Spendable(b.new[k].inputs)
    IN  /\ Len(transactions) < btc_plan.max_transactions
        /\ ~panicked
        /\ IF unspendable
           THEN panicked' = TRUE /\ UNCHANGED <<available_utxos, transactions, transfers, removed>>
           ELSE /\ UNCHANGED panicked
                /\ IF AllBatch(available_utxos) = {}
                   THEN UNCHANGED transfers /\ step(<<>>, available_utxos)
                   ELSE \E b \in AllBatch(available_utxos) :
                            transfers' = <<>> /\ step(b.new, b.utxos)
        /\ UNCHANGED <<btc_plan, sats_per_kilobyte, agg_key>>

ChangeOutput(tx) == Len(tx.outputs)

\* on_broadcast_ready: the signed transaction's last output becomes available.
on_broadcast_ready(n) ==
    /\ ~transactions[n].signed
    /\ transactions' = [transactions EXCEPT ![n].signed = TRUE]
    /\ available_utxos' = Append(available_utxos,
           [id |-> [tx |-> n, vout |-> ChangeOutput(transactions[n])],
            amount |-> transactions[n].outputs[ChangeOutput(transactions[n])].amount,
            key |-> transactions[n].key.current, script_path |-> FALSE])
    /\ UNCHANGED <<btc_plan, sats_per_kilobyte, agg_key, transfers, removed, panicked>>

\* add_bitcoin_utxo_to_list: a deposit to a channel opened under the current or previous key.
add_bitcoin_utxo_to_list(amount, key) ==
    /\ btc_plan.deposits > 0
    /\ btc_plan' = [btc_plan EXCEPT !.deposits = @ - 1]
    /\ available_utxos' = Append(available_utxos,
           [id |-> [tx |-> 0, vout |-> btc_plan.deposits], amount |-> amount, key |-> key,
            script_path |-> TRUE])
    /\ UNCHANGED <<sats_per_kilobyte, agg_key, transfers, transactions, removed, panicked>>

ScheduleTransfer(amount) ==
    /\ btc_plan.transfers > 0
    /\ btc_plan' = [btc_plan EXCEPT !.transfers = @ - 1]
    /\ transfers' = Append(transfers, amount)
    /\ UNCHANGED <<sats_per_kilobyte, agg_key, available_utxos, transactions, removed, panicked>>

\* The handover to the next key: the current one becomes the previous.
RotateKey ==
    /\ btc_plan.rotations > 0
    /\ btc_plan.calm =>
        /\ \A k \in DOMAIN transactions : transactions[k].signed
        /\ \A k \in DOMAIN available_utxos : available_utxos[k].key \notin agg_key.previous
    /\ btc_plan' = [btc_plan EXCEPT !.rotations = @ - 1]
    /\ agg_key' = [previous |-> {agg_key.current}, current |-> agg_key.current + 1]
    /\ UNCHANGED <<sats_per_kilobyte, available_utxos, transfers, transactions, removed, panicked>>

TrackFee(rate) ==
    /\ rate # sats_per_kilobyte /\ btc_plan.fee_changes > 0
    /\ btc_plan' = [btc_plan EXCEPT !.fee_changes = @ - 1]
    /\ sats_per_kilobyte' = rate
    /\ UNCHANGED <<agg_key, available_utxos, transfers, transactions, removed, panicked>>

----------------------------------------------------------------------------

BtcInit ==
    /\ btc_plan \in BtcPlans
    /\ sats_per_kilobyte \in btc_plan.rates
    /\ agg_key = [previous |-> {}, current |-> 1]
    /\ available_utxos = <<>> /\ transfers = <<>> /\ transactions = <<>>
    /\ removed = [stale |-> {}, unprofitable |-> {}] /\ panicked = FALSE

BtcNext ==
    \/ on_finalize
    \/ \E n \in DOMAIN transactions : on_broadcast_ready(n)
    \/ \E amount \in btc_plan.deposit_amounts, key \in agg_key.previous \cup {agg_key.current} :
            add_bitcoin_utxo_to_list(amount, key)
    \/ \E amount \in btc_plan.transfer_amounts : ScheduleTransfer(amount)
    \/ RotateKey
    \/ \E rate \in btc_plan.rates : TrackFee(rate)

----------------------------------------------------------------------------

Outstanding == {available_utxos[k] : k \in DOMAIN available_utxos}
Inputs(n) == ToSet(transactions[n].inputs)
Dropped == removed.stale \cup removed.unprofitable

\* The state has its types; the list holds no UTXO twice.
BtcTypeOK ==
    /\ \A u \in Outstanding : u.amount \in Nat /\ u.key \in 1 .. agg_key.current
    /\ Cardinality(Outstanding) = Len(available_utxos)
    /\ agg_key.previous = IF agg_key.current = 1 THEN {} ELSE {agg_key.current - 1}
    /\ \A n \in DOMAIN transactions :
        /\ transactions[n].outputs # <<>>
        /\ Len(transactions[n].inputs) <= btc_plan.consolidation.threshold

\* A UTXO is spent by at most one transaction, and then it is neither available nor dropped:
\* however the selections of transfers and of consolidation, the signatures that return change
\* and the changes of key interleave.
SpentOnce ==
    /\ Outstanding \cap Dropped = {}
    /\ \A n \in DOMAIN transactions :
        /\ Inputs(n) \cap (Outstanding \cup Dropped) = {}
        /\ Cardinality(Inputs(n)) = Len(transactions[n].inputs)
        /\ \A m \in DOMAIN transactions : m # n => Inputs(m) \cap Inputs(n) = {}

Returned == {[tx |-> n, vout |-> ChangeOutput(transactions[n])] :
                n \in {m \in DOMAIN transactions : transactions[m].signed}}

\* No UTXO is forgotten: a deposit, and the output that a signed transaction leaves to the vault,
\* is available, spent, or dropped for one of the two reasons there are: its key is older than
\* the previous one, or it was part of a consolidation whose inputs do not pay its fees.
NoUtxoForgotten ==
    {u.id : u \in Outstanding \cup Dropped \cup UNION {Inputs(n) : n \in DOMAIN transactions}}
        = Returned \cup {[tx |-> 0, vout |-> k] : k \in btc_plan.deposits + 1 .. btc_plan.all_deposits}

\* The fee a transaction pays is at least the one its inputs and outputs cost at the rate it was
\* made at, and more by less than the dust limit, the fee of the change output that was left
\* out, and what consolidation sets aside for inputs that are cheaper than it reckons.
FeesAreFair ==
    \A n \in DOMAIN transactions :
        LET tx == transactions[n]
            fee(size) == (tx.rate * size) \div 1000
            cost(u) == IF u.script_path THEN fee(INPUT_UTXO_SIZE) ELSE fee(VAULT_UTXO_SIZE)
            paid == Total(tx.inputs, amount_of) - Total(tx.outputs, amount_of)
            due == Total(tx.inputs, cost) + Len(tx.outputs) * fee(OUTPUT_UTXO_SIZE)
                       + fee(MINIMUM_BTC_TX_SIZE)
        IN  /\ due <= paid
            /\ tx.kind = "batch" => paid < due + BITCOIN_DUST_LIMIT + fee(OUTPUT_UTXO_SIZE)
            /\ tx.kind = "consolidation" =>
                paid <= due + Len(tx.inputs) * (fee(INPUT_UTXO_SIZE) - fee(VAULT_UTXO_SIZE))

\* select_utxos_from_pool finds a selection exactly when some set of UTXOs within the limit is
\* worth the amount, and what it selects is one.
SelectionFindsFunds ==
    LET limit == btc_plan.consolidation.threshold
        worth(S) == FoldSet(LAMBDA k, t : t + net_value(available_utxos[k]), 0, S)
    IN  \A amount \in btc_plan.transfer_amounts :
            LET found == select_utxos_from_pool(available_utxos, amount, limit)
            IN  /\ found # {} <=> \E S \in SUBSET DOMAIN available_utxos :
                                    Cardinality(S) <= limit /\ worth(S) >= amount
                /\ \A f \in found :
                    /\ f.total >= amount /\ Len(f.selected) <= limit
                    /\ ToSet(f.selected) \cup ToSet(f.rest) = Outstanding
                    /\ Len(f.selected) + Len(f.rest) = Len(available_utxos)

\* Each input of a transaction is to be signed with the key its UTXO belongs to, which is the one
\* verify_threshold_signature will compare with.
PayloadsNameTheKey ==
    \A n \in DOMAIN transactions : \A k \in DOMAIN transactions[n].inputs :
        LET tx == transactions[n]
        IN  tx.inputs[k].key \in IF tx.payloads[k] = "Previous" THEN tx.key.previous ELSE {tx.key.current}

\* What becomes available when a transaction with a change output is signed is its change. A
\* batch whose change is below the dust limit has none, and on_broadcast_ready takes the last
\* output for it all the same: see AvailableUtxosAreOurs.
ChangeComesBack ==
    \A u \in Outstanding : u.id.tx > 0 =>
        LET outputs == transactions[u.id.tx].outputs
        IN  (\E k \in DOMAIN outputs : outputs[k].to = "vault") => outputs[u.id.vout].to = "vault"

\* What the environment pallet says of BitcoinAvailableUtxos: "The set of available UTXOs
\* available in our Bitcoin Vault." It does not hold: the last output of a batch without change
\* is one of the transfers, and is listed under the vault's key when the batch is signed.
AvailableUtxosAreOurs ==
    \A u \in Outstanding : u.id.tx > 0 => transactions[u.id.tx].outputs[u.id.vout].to = "vault"

\* No transaction is built from a UTXO of an older key, and so the assertion of
\* create_new_unsigned ("TODO: enforce this assumption ie. ensure we never use unspendable
\* utxos") holds, in a calm instance: one where a key is in use until everything under the one
\* before has been moved to it. The code does not see to that. In the other instances a batch
\* may be built after two rotations and before a consolidation has discarded what is stale, and
\* panics.
NeverUnspendable == btc_plan.calm => ~panicked

\* Every output the list names is spent at most once and forgotten never, with a key that can
\* still sign for it, through batches, consolidations and rotations. Two cases are left out, see
\* ChangeComesBack (a batch without change) and NeverUnspendable (two rotations at once).
UtxosAreAccountedFor ==
    /\ BtcTypeOK /\ SpentOnce /\ NoUtxoForgotten /\ FeesAreFair /\ SelectionFindsFunds
    /\ PayloadsNameTheKey /\ ChangeComesBack /\ NeverUnspendable
=============================================================================
