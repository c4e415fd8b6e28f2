--------------------------- MODULE RuntimeUpgrades ---------------------------
(***************************************************************************)
(* Runtime upgrades: the migrations the runtime runs once, in a fixed      *)
(* order, in the first block of a new release (AllMigrations of the        *)
(* runtime), the versioned migrations that decide by the stored version of *)
(* a pallet whether they run, and what the migrations of this release do   *)
(* to deposit channels, scheduled swaps, the safe mode and old accounts.   *)
(*                                                                         *)
(* A stored value is modelled by its format: the fields that the release   *)
(* which wrote it knew.  A value is read only if all its fields are there: *)
(* translate leaves an entry it cannot decode as it is.                    *)
(***************************************************************************)
EXTENDS Integers, Sequences, FiniteSets, SequencesExt

CONSTANT UpgradePlans   \* what is on the chain before the upgrade

VARIABLES
  up_plan,          \* the scenario, chosen at the start
  height,           \* the number of the current block
  release,          \* CurrentReleaseVersion in storage
  code,             \* the release of the running code
  versions,         \* stored version of each pallet with migrations
  channels,         \* DepositChannelLookup: address -> stored details
  swap_queue,       \* SwapQueue: block -> sequence of stored swaps
  safe_mode,        \* RuntimeSafeMode: the flags that are stored
  old_accounts,     \* the accounts that exist and their reference counts
  swapped           \* swaps that were executed

upVars == <<up_plan, height, release, code, versions, channels, swap_queue, safe_mode, old_accounts, swapped>>

Pallets == {"environment", "swapping", "ingress_egress"}
Addresses == DOMAIN up_plan.channels
Blocks == 0..up_plan.last_block

\* PALLET_VERSION of the code of each release
current_storage_version == [environment |-> 11, swapping |-> 4, ingress_egress |-> 10]

----------------------------------------------------------------------------
(* Formats.                                                                *)

\* A deposit channel as one of the releases writes it: swaps (and messages,
\* which are as swaps here) of version 10 carry refund parameters, a boost of
\* version 9 carries its amount.
Channel(action, boosted, refund, amount) ==
  [action |-> action, boosted |-> boosted, refund |-> refund, amount |-> amount]

\* Only swaps have the field of the refund and only boosts the amount.
Decodes(channel, refund, amount) ==
  /\ channel.action = "Swap" => channel.refund = refund
  /\ channel.boosted => channel.amount = amount

RefundKnown(version) == version >= 10
AmountKnown(version) == version >= 9

Readable(channel) == Decodes(channel, TRUE, TRUE)

----------------------------------------------------------------------------
(* The migrations, each a function of the state of the chain.              *)

\* Clears the prewitnessed deposits and gives each boost an amount.  The
\* entries are decoded with the action of the new release.
remove_prewitnessed_deposits(chain) ==
  [chain EXCEPT !.channels =
     [a \in DOMAIN @ |-> IF Decodes(@[a], TRUE, FALSE) THEN [@[a] EXCEPT !.amount = TRUE] ELSE @[a]]]

\* Gives each swap channel (empty) refund parameters.
add_refund_params(chain) ==
  [chain EXCEPT !.channels =
     [a \in DOMAIN @ |-> IF Decodes(@[a], FALSE, TRUE) THEN [@[a] EXCEPT !.refund = TRUE] ELSE @[a]]]

\* faulty variant: what was scheduled for the current block is replaced
separate_swap_state_overwriting(chain) ==
  LET Past == {b \in DOMAIN chain.swap_queue : b < chain.height /\ chain.swap_queue[b] # <<>>}
  IN  { [chain EXCEPT !.swap_queue =
           [b \in DOMAIN @ |-> IF b \in Past THEN <<>>
                               ELSE IF b = chain.height /\ Past # {}
                                    THEN FlattenSeq([i \in DOMAIN order |-> @[order[i]]])
                                    ELSE @[b]]]
        : order \in SetToSeqs(Past) }

\* Translates the swaps (their format is of no consequence here) and moves
\* those of past blocks, in the order of the storage keys, which is not that
\* of the block numbers, behind those of the current block.
separate_swap_state(chain) ==
  LET Past == {b \in DOMAIN chain.swap_queue : b < chain.height /\ chain.swap_queue[b] # <<>>}
  IN  { [chain EXCEPT !.swap_queue =
           [b \in DOMAIN @ |-> IF b \in Past THEN <<>>
                               ELSE IF b = chain.height
                                    THEN @[b] \o FlattenSeq([i \in DOMAIN order |-> @[order[i]]])
                                    ELSE @[b]]]
        : order \in SetToSeqs(Past) }

\* The flags of Solana are added to the stored safe mode: its broadcasts and
\* signatures are enabled, its deposits and egress are not.
SolanaIntegration(chain) ==
  [chain EXCEPT !.safe_mode =
     [f \in DOMAIN @ \union {"broadcast_solana", "ingress_egress_solana"} |->
        IF f \in DOMAIN @ THEN @[f] ELSE f = "broadcast_solana"]]

----------------------------------------------------------------------------
(* reap_old_accounts.  consumers counts the references to an account: its  *)
(* session keys are one, and a role registered since the roles count is    *)
(* another.                                                                *)

\* Deregistration, where nothing stands against it (a bid, a key that is
\* still in use, a balance, open orders, earned fees): it purges the session
\* keys of a validator and drops one consumer for the role.
deregister(account) ==
  [account EXCEPT !.role = "Unregistered", !.keys = FALSE,
                  !.consumers = @ - 1 - (IF account.role = "Validator" /\ account.keys THEN 1 ELSE 0)]

\* Consumer::created, then the deregistration of the account's role; if the
\* deregistration fails the added consumer stays.
compensated(account) ==
  LET counted == [account EXCEPT !.consumers = @ + 1]
  IN  IF account.settled THEN [ok |-> TRUE, account |-> deregister(counted)]
                         ELSE [ok |-> FALSE, account |-> counted]

\* the accounts the migration tries to reap
considered(account) ==
  account.total = 0 /\ ~account.pending /\ account.providers = 1 /\ account.consumers = 1

\* dec_providers removes an account that has no consumers left.
dec_providers(result) == IF result.ok /\ result.account.consumers = 0 THEN {} ELSE {result.account}

\* what is left of an account: itself, possibly changed, or nothing
reaped(account) ==
  IF ~considered(account) THEN {account}
  ELSE CASE account.role = "Unregistered" -> {account}
         [] account.role = "None" -> dec_providers([ok |-> TRUE, account |-> account])
         [] OTHER -> dec_providers(compensated(account))

reap_old_accounts(chain) ==
  LET Left(a) == reaped(chain.old_accounts[a])
      Kept == {a \in DOMAIN chain.old_accounts : Left(a) # {}}
  IN  [chain EXCEPT !.old_accounts = [a \in Kept |-> CHOOSE left \in Left(a) : TRUE]]

----------------------------------------------------------------------------
(* Versioned migrations and the order they run in.                         *)

should_upgrade(chain, migration) ==
  /\ chain.versions[migration.pallet] = migration.from
  /\ current_storage_version[migration.pallet] >= migration.to

\* The upgrade of the inner migration, and the new version of the pallet.
VersionedMigration(chain, migration, Migrated) ==
  IF should_upgrade(chain, migration)
    THEN { [next EXCEPT !.versions[migration.pallet] = migration.to] : next \in Migrated }
    ELSE {chain}

Versioned(pallet, from, to) == [pallet |-> pallet, from |-> from, to |-> to]

\* ingress-egress: both its migrations run, one after the other
IngressEgressMigrations(chains) ==
  LET Boosts(chain) == VersionedMigration(chain, Versioned("ingress_egress", 8, 9), {remove_prewitnessed_deposits(chain)})
      Refunds(chain) == VersionedMigration(chain, Versioned("ingress_egress", 9, 10), {add_refund_params(chain)})
  IN  UNION { Refunds(chain) : chain \in UNION {Boosts(chain) : chain \in chains} }

SwappingMigrations(chains) ==
  UNION { VersionedMigration(chain, Versioned("swapping", 3, 4), separate_swap_state(chain)) : chain \in chains }

EnvironmentMigrations(chains) ==
  UNION { VersionedMigration(chain, Versioned("environment", 10, 11), {SolanaIntegration(chain)}) : chain \in chains }

\* In the order of the runtime: swapping before ingress-egress, the safe mode
\* of the environment at the end, after it the migrations of the release.
AllMigrations(chain) ==
  { reap_old_accounts(next) :
      next \in EnvironmentMigrations(IngressEgressMigrations(SwappingMigrations({[chain EXCEPT !.release = code]}))) }

----------------------------------------------------------------------------
UpgradeInit ==
  /\ up_plan \in UpgradePlans
  /\ height = up_plan.height
  /\ release = 0
  /\ code = 0
  /\ versions = up_plan.versions
  /\ channels = [a \in {b \in Addresses : up_plan.channels[b].open} |-> up_plan.channels[a].stored]
  /\ swap_queue = [b \in Blocks |-> IF b \in DOMAIN up_plan.swap_queue THEN up_plan.swap_queue[b] ELSE <<>>]
  /\ safe_mode = up_plan.safe_mode
  /\ old_accounts = up_plan.accounts
  /\ swapped = {}

\* The runtime runs the migrations before anything else of the block in
\* which the code is new.
on_runtime_upgrade ==
  /\ release # code
  /\ \E chain \in AllMigrations([height |-> height, release |-> release, versions |-> versions, channels |-> channels,
                                 swap_queue |-> swap_queue, safe_mode |-> safe_mode, old_accounts |-> old_accounts]) :
       /\ release' = chain.release
       /\ versions' = chain.versions
       /\ channels' = chain.channels
       /\ swap_queue' = chain.swap_queue
       /\ safe_mode' = chain.safe_mode
       /\ old_accounts' = chain.old_accounts
  /\ UNCHANGED <<up_plan, height, code, swapped>>

\* The end of a block.  The swaps scheduled for it are taken from the queue
\* and executed, those of earlier blocks are not looked at (the code before
\* the first upgrade may leave swaps of the past behind).  New code that was
\* set in the block, with the same pallets, runs from the next one.
EndOfBlock ==
  /\ release = code /\ height < up_plan.last_block
  /\ \E next \in {code, code + 1} \intersect (1..up_plan.releases) : code' = next
  /\ swapped' = IF code = 0 THEN swapped ELSE swapped \union ToSet(swap_queue[height])
  /\ swap_queue' = IF code = 0 THEN swap_queue ELSE [swap_queue EXCEPT ![height] = <<>>]
  /\ height' = height + 1
  /\ UNCHANGED <<up_plan, release, versions, channels, safe_mode, old_accounts>>

\* A channel that is opened is written in the format of the running code.
OpenChannel ==
  /\ release = code
  /\ \E a \in Addresses \ DOMAIN channels :
       channels' = [b \in DOMAIN channels \union {a} |->
                      IF b # a THEN channels[b]
                      ELSE Channel(up_plan.channels[a].stored.action, FALSE,
                                   RefundKnown(versions["ingress_egress"]), AmountKnown(versions["ingress_egress"]))]
  /\ UNCHANGED <<up_plan, height, release, code, versions, swap_queue, safe_mode, old_accounts, swapped>>

UpgradeNext == on_runtime_upgrade \/ EndOfBlock \/ OpenChannel

----------------------------------------------------------------------------
QueuedSwaps == UNION {ToSet(swap_queue[b]) : b \in Blocks}
Planned == UNION {ToSet(up_plan.swap_queue[b]) : b \in DOMAIN up_plan.swap_queue}
Upgraded == release = code /\ code > 0

\* Stored values are of the kinds the releases write, and no migration
\* leaves a reference count below zero.
UpgradeTypeOK ==
  /\ height \in Blocks /\ release \in 0..code /\ code \in 0..up_plan.releases
  /\ versions \in [Pallets -> 1..11]
  /\ \A a \in DOMAIN channels :
       channels[a] \in [action : {"Swap", "LiquidityProvision"}, boosted : BOOLEAN, refund : BOOLEAN, amount : BOOLEAN]
  /\ \A a \in DOMAIN old_accounts : old_accounts[a].consumers \in Nat

\* Once the migrations of a release have run every pallet is at the version
\* of the code, from whichever of the supported versions it came.
UpgradedToCurrent == Upgraded => versions = current_storage_version

\* After an upgrade from version 9 or 10 every deposit channel can be read.
\* From version 8 that fails for a swap channel with a boost under way, and
\* only for one: remove_prewitnessed_deposits decodes it with an action that
\* has refund parameters already, add_refund_params with the amount the first
\* did not add, so both leave it as it was and nothing can read it any more
\* (post_upgrade of the first asserts that every boost carries over, but
\* compares only the channels it can read).
ChannelsStayReadable ==
  Upgraded => \A a \in DOMAIN channels :
    \/ Readable(channels[a])
    \/ /\ up_plan.versions["ingress_egress"] = 8
       /\ channels[a] = Channel("Swap", TRUE, FALSE, FALSE)
       /\ channels[a] = up_plan.channels[a].stored

\* No scheduled swap is lost or executed twice by an upgrade, and after it
\* none is left at a block that has passed, where it would never be executed.
SwapsSurviveUpgrades ==
  /\ QueuedSwaps \union swapped = Planned /\ QueuedSwaps \intersect swapped = {}
  /\ \A b, c \in Blocks : \A i \in DOMAIN swap_queue[b], j \in DOMAIN swap_queue[c] :
       swap_queue[b][i] = swap_queue[c][j] => b = c /\ i = j
  /\ Upgraded => \A b \in Blocks : b < height => swap_queue[b] = <<>>

\* An upgrade changes no flag of the safe mode that was set before it, and
\* deposits and egress of Solana are not enabled by any.
SafeModeIsKept ==
  /\ \A f \in DOMAIN up_plan.safe_mode : safe_mode[f] = up_plan.safe_mode[f]
  /\ Upgraded => safe_mode["ingress_egress_solana"] = FALSE

\* An account disappears only without balance, without a pending redemption
\* and without anything that stands against the deregistration of its role.
OnlyOldAccountsReaped ==
  \A a \in DOMAIN up_plan.accounts \ DOMAIN old_accounts :
    LET was == up_plan.accounts[a] IN was.total = 0 /\ ~was.pending /\ was.settled

\* Whatever version an upgrade starts from and however often it is tried, every pallet
\* ends at its current version with the swaps and the safe mode it had, with the channels
\* it had but for the swap channels of version 8 with a boost under way, which are lost
\* (ChannelsStayReadable), and with all accounts but the old ones that are to go.
UpgradesKeepTheState ==
  /\ UpgradeTypeOK /\ UpgradedToCurrent /\ ChannelsStayReadable /\ SwapsSurviveUpgrades
  /\ SafeModeIsKept /\ OnlyOldAccountsReaped
=============================================================================
