----------------------------- MODULE Reputation -----------------------------
(***************************************************************************)
(* What validators are rewarded and punished for: reputation, missed slots *)
(* and suspensions, and the rewards of backup validators.                  *)
(***************************************************************************)
EXTENDS Integers, Sequences, FiniteSets, SequencesExt, TLC, FiniteSetsExt

(***************************************************************************)
(* The reputation pallet: heartbeats and what they earn, penalties and     *)
(* suspensions for offences, the check of the authorities at every         *)
(* heartbeat interval with its slashing, the adapter through which GRANDPA *)
(* reports equivocations, and the authorship slots that were missed.       *)
(***************************************************************************)

CONSTANT RepPlans

VARIABLES
  rep_plan,            \* the scenario, chosen at the start
  rep_block,           \* current block number
  last_seen_slot,      \* LastSeenSlot: slot of the last authored block
  reputations,         \* Reputations: node -> [online_blocks, points]
  last_heartbeat,      \* LastHeartbeat: node -> block, for nodes that sent one
  suspensions,         \* Suspensions: offence -> sequence of <<until, node>>
  penalties,           \* Penalties: offence -> [reputation, suspension]
  accrual_ratio,       \* AccrualRatio: [points, blocks]
  time_slots,          \* OffenceTimeSlotTracker: node -> slot, once reported
  reporting_enabled,   \* the safe mode of the pallet
  rep_calls,           \* governance calls and reports so far (bounded)
  credited,            \* blocks credited to a node since its account exists
  imposed,             \* every suspension imposed and not forgiven
  silence_slashes,     \* slashes for missed heartbeats: node -> count
  slashes              \* balance slashes for equivocation: <<node, slot>> -> count

repVars == <<rep_plan, rep_block, last_seen_slot, reputations, last_heartbeat, suspensions, penalties,
             accrual_ratio, time_slots, reporting_enabled, rep_calls, credited, imposed,
             silence_slashes, slashes>>

Nodes == rep_plan.nodes
Authorities == rep_plan.authorities        \* session validators, a sequence
HeartbeatBlockInterval == rep_plan.interval
Offences == DOMAIN rep_plan.penalties

lesser(a, b) == IF a < b THEN a ELSE b

----------------------------------------------------------------------------
(* The tracker of a node.                                                  *)

clamp(points) ==
  IF points < rep_plan.floor THEN rep_plan.floor
  ELSE IF points > rep_plan.ceiling THEN rep_plan.ceiling ELSE points

\* Each full period of online blocks is turned into points.  Clamping after
\* each reward comes to the same as clamping once.
boost_reputation(rep, blocks) ==
  LET online == rep.online_blocks + blocks
      periods == online \div accrual_ratio.blocks
  IN  [online_blocks |-> online % accrual_ratio.blocks,
       points |-> IF periods = 0 THEN rep.points ELSE clamp(rep.points + periods * accrual_ratio.points)]

deduct_reputation(rep, points) == [rep EXCEPT !.points = clamp(@ - points)]

NewTracker == [online_blocks |-> 0, points |-> 0]

----------------------------------------------------------------------------
(* Suspensions.                                                            *)

Earlier(a, b) == a[1] < b[1]

RECURSIVE skip_while_expired(_, _)
skip_while_expired(list, now_) ==
  IF list # <<>> /\ Head(list)[1] < now_ THEN skip_while_expired(Tail(list), now_) ELSE list

\* faulty variant: appended without sorting
suspend_all_unsorted(list, nodes, until) ==
  skip_while_expired(list \o [i \in 1..Len(nodes) |-> <<until, nodes[i]>>], rep_block)

\* The nodes are appended, the list is sorted by the block the suspension
\* ends at, and what has expired is taken off the front.
suspend_all(list, nodes, until) ==
  skip_while_expired(SortSeq(list \o [i \in 1..Len(nodes) |-> <<until, nodes[i]>>], Earlier), rep_block)

\* the nodes suspended for any of a set of offences
validators_suspended_for(offences) ==
  UNION { {entry[2] : entry \in ToSet(skip_while_expired(suspensions[o], rep_block))} : o \in offences }

----------------------------------------------------------------------------
(* Reports.  A book holds what a report changes: the reputations, the      *)
(* suspensions and, beside them, the record of the suspensions imposed.    *)

Book == [reputations |-> reputations, suspensions |-> suspensions, imposed |-> imposed, slashed |-> silence_slashes]

\* report_many at a given block: points first, then the suspensions
report_many(book, offence, nodes, at) ==
  LET penalty == penalties[offence]
  IN  IF ~reporting_enabled THEN book
      ELSE [slashed |-> book.slashed,
            reputations |-> IF penalty.reputation > 0
                              THEN [v \in DOMAIN book.reputations |->
                                      IF v \in ToSet(nodes) THEN deduct_reputation(book.reputations[v], penalty.reputation)
                                                            ELSE book.reputations[v]]
                              ELSE book.reputations,
            suspensions |-> IF penalty.suspension > 0
                              THEN [book.suspensions EXCEPT ![offence] = suspend_all(@, nodes, at + penalty.suspension)]
                              ELSE book.suspensions,
            imposed |-> IF penalty.suspension > 0
                          THEN book.imposed \union {<<offence, v, at + penalty.suspension>> : v \in ToSet(nodes)}
                          ELSE book.imposed]

Write(book) ==
  /\ reputations' = book.reputations
  /\ suspensions' = book.suspensions
  /\ imposed' = book.imposed
  /\ silence_slashes' = book.slashed

----------------------------------------------------------------------------

\* online, and so qualified, with a heartbeat less than an interval ago
is_online(node, block) ==
  node \in DOMAIN last_heartbeat /\ block - last_heartbeat[node] < HeartbeatBlockInterval

\* the authorities without one, in the order of the authorities
OfflineAt(block) == SelectSeq(Authorities, LAMBDA v : ~is_online(v, block))

\* The points of an offence are deducted and the online blocks restart; a
\* node that is then below zero is slashed.
penalise_offline_authorities(book, offline, at) ==
  LET reported == report_many(book, "MissedHeartbeat", offline, at)
      Hit(v) == v \in ToSet(offline)
  IN  [reported EXCEPT
         !.reputations = [v \in DOMAIN @ |-> IF Hit(v) THEN [@[v] EXCEPT !.online_blocks = 0] ELSE @[v]],
         !.slashed = [v \in DOMAIN @ |-> IF Hit(v) /\ reported.reputations[v].points < 0 THEN @[v] + 1 ELSE @[v]]]

\* the slots between the last one seen and that of the new block
missed_slots(authored) ==
  IF last_seen_slot = {} THEN <<>>
  ELSE LET seen == CHOOSE s \in last_seen_slot : TRUE IN [i \in 1..(authored - seen - 1) |-> seen + i]

\* The authority whose turn each missed slot was is reported, one by one.
AuthorOf(slot) == Authorities[(slot % Len(Authorities)) + 1]
punish_missed_authorship_slots(book, slots, at) ==
  FoldLeft(LAMBDA b, slot : report_many(b, "MissedAuthorshipSlot", <<AuthorOf(slot)>>, at), book, slots)

\* The start of a block: the validator pallet looks at its slot, then the
\* reputation pallet, at every interval, at the heartbeats.
on_initialize ==
  /\ rep_block < rep_plan.max_block
  /\ \E authored \in 0..rep_plan.max_slot :
       /\ \A seen \in last_seen_slot : authored > seen
       /\ LET at == rep_block + 1
              punished == punish_missed_authorship_slots(Book, missed_slots(authored), at)
          IN  Write(IF at % HeartbeatBlockInterval = 0 /\ reporting_enabled
                      THEN penalise_offline_authorities(punished, OfflineAt(at), at)
                      ELSE punished)
       /\ last_seen_slot' = {authored}
  /\ rep_block' = rep_block + 1
  /\ UNCHANGED <<rep_plan, last_heartbeat, penalties, accrual_ratio, time_slots, reporting_enabled, rep_calls,
                 credited, slashes>>

----------------------------------------------------------------------------
(* Calls.                                                                  *)

BeatAt(node) == (node :> rep_block) @@ last_heartbeat

\* Blocks since the last heartbeat, no more than an interval, count as
\* online; without an earlier one they count from the first block.
heartbeat(node) ==
  /\ LET last == IF node \in DOMAIN last_heartbeat THEN last_heartbeat[node] ELSE 0
         blocks == lesser(HeartbeatBlockInterval, rep_block - last)
     IN  /\ reputations' = [reputations EXCEPT ![node] = boost_reputation(@, blocks)]
         /\ credited' = [credited EXCEPT ![node] = @ + blocks]
  /\ last_heartbeat' = BeatAt(node)
  /\ UNCHANGED <<rep_plan, rep_block, last_seen_slot, suspensions, penalties, accrual_ratio, time_slots,
                 reporting_enabled, rep_calls, imposed, slashes, silence_slashes>>

\* an offence reported by another pallet, for one or more nodes
ReportMany(offence, nodes) ==
  /\ Write(report_many(Book, offence, nodes, rep_block))
  /\ UNCHANGED <<rep_plan, rep_block, last_seen_slot, last_heartbeat, penalties, accrual_ratio, time_slots,
                 reporting_enabled, credited, slashes>>

is_time_slot_stale(node, slot) == node \in DOMAIN time_slots /\ slot <= time_slots[node]

\* An equivocation in a slot: the slot is recorded, one FLIP is slashed and
\* the offence is reported, unless this slot or a later one was before.
report_offence(node, slot) ==
  /\ reporting_enabled
  /\ ~is_time_slot_stale(node, slot)
  /\ time_slots' = (node :> slot) @@ time_slots
  /\ slashes' = (<<node, slot>> :> (IF <<node, slot>> \in DOMAIN slashes THEN slashes[<<node, slot>>] + 1 ELSE 1)) @@ slashes
  /\ Write(report_many(Book, "GrandpaEquivocation", <<node>>, rep_block))
  /\ UNCHANGED <<rep_plan, rep_block, last_seen_slot, last_heartbeat, penalties, accrual_ratio, reporting_enabled, credited>>

forgive_all(offence) ==
  /\ suspensions' = [suspensions EXCEPT ![offence] = <<>>]
  /\ imposed' = {s \in imposed : s[1] # offence}
  /\ UNCHANGED <<rep_plan, rep_block, last_seen_slot, reputations, last_heartbeat, penalties, accrual_ratio,
                 time_slots, reporting_enabled, credited, slashes, silence_slashes>>

\* refused for a period of zero blocks, or for more points than may accrue
update_accrual_ratio(points, blocks) ==
  /\ points <= rep_plan.maximum_accruable /\ blocks > 0
  /\ accrual_ratio' = [points |-> points, blocks |-> blocks]
  /\ UNCHANGED <<rep_plan, rep_block, last_seen_slot, reputations, last_heartbeat, suspensions, penalties,
                 time_slots, reporting_enabled, credited, imposed, slashes, silence_slashes>>

set_penalty(offence, penalty) ==
  /\ penalties' = [penalties EXCEPT ![offence] = penalty]
  /\ UNCHANGED <<rep_plan, rep_block, last_seen_slot, reputations, last_heartbeat, suspensions, accrual_ratio,
                 time_slots, reporting_enabled, credited, imposed, slashes, silence_slashes>>

\* a missed heartbeat suspends for an interval
update_missed_heartbeat_penalty(points) ==
  set_penalty("MissedHeartbeat", [reputation |-> points, suspension |-> HeartbeatBlockInterval])

reset_reputation(node) ==
  /\ reputations' = [reputations EXCEPT ![node] = NewTracker]
  /\ UNCHANGED <<rep_plan, rep_block, last_seen_slot, last_heartbeat, suspensions, penalties, accrual_ratio,
                 time_slots, reporting_enabled, credited, imposed, slashes, silence_slashes>>

\* The account is gone: its reputation, heartbeat and reported slot with it,
\* its suspensions not.
on_killed_account(node) ==
  /\ reputations' = [reputations EXCEPT ![node] = NewTracker]
  /\ last_heartbeat' = [v \in DOMAIN last_heartbeat \ {node} |-> last_heartbeat[v]]
  /\ time_slots' = [v \in DOMAIN time_slots \ {node} |-> time_slots[v]]
  /\ credited' = [credited EXCEPT ![node] = 0]
  /\ slashes' = [s \in {t \in DOMAIN slashes : t[1] # node} |-> slashes[s]]
  /\ UNCHANGED <<rep_plan, rep_block, last_seen_slot, suspensions, penalties, accrual_ratio, reporting_enabled, imposed, silence_slashes>>

SwitchReporting ==
  /\ rep_plan.safe_mode
  /\ reporting_enabled' = ~reporting_enabled
  /\ UNCHANGED <<rep_plan, rep_block, last_seen_slot, reputations, last_heartbeat, suspensions, penalties,
                 accrual_ratio, time_slots, credited, imposed, slashes, silence_slashes>>

\* calls other than heartbeats, in any order, up to a bound
RepCall ==
  /\ rep_calls < rep_plan.max_calls
  /\ rep_calls' = rep_calls + 1
  /\ \/ \E offence \in Offences, nodes \in rep_plan.reported : ReportMany(offence, nodes)
     \/ \E node \in Nodes, slot \in rep_plan.equivocations : report_offence(node, slot)
     \/ \E offence \in Offences : forgive_all(offence)
     \/ \E ratio \in rep_plan.ratios : update_accrual_ratio(ratio.points, ratio.blocks)
     \/ \E offence \in Offences, penalty \in rep_plan.new_penalties : set_penalty(offence, penalty)
     \/ \E penalty \in rep_plan.new_penalties : update_missed_heartbeat_penalty(penalty.reputation)
     \/ \E node \in rep_plan.mortal : reset_reputation(node) \/ on_killed_account(node)
     \/ SwitchReporting

Heartbeat == \E node \in Nodes : heartbeat(node)

RepInit ==
  /\ rep_plan \in RepPlans
  /\ rep_block = 0
  /\ last_seen_slot = {}
  /\ reputations = [v \in Nodes |-> NewTracker]
  /\ last_heartbeat = [v \in ToSet(Authorities) |-> 0]
  /\ suspensions = [o \in Offences |-> <<>>]
  /\ penalties = rep_plan.penalties
  /\ accrual_ratio = rep_plan.ratio
  /\ time_slots = [v \in {} |-> 0]
  /\ reporting_enabled = TRUE
  /\ rep_calls = 0
  /\ credited = [v \in Nodes |-> 0]
  /\ imposed = {}
  /\ silence_slashes = [v \in Nodes |-> 0]
  /\ slashes = [s \in {} |-> 0]

RepNext == on_initialize \/ Heartbeat \/ RepCall

----------------------------------------------------------------------------
\* Reputation points stay within the floor and the ceiling of the runtime.
RepTypeOK ==
  /\ rep_block \in 0..rep_plan.max_block
  /\ \A v \in Nodes : reputations[v].points \in rep_plan.floor..rep_plan.ceiling /\ reputations[v].online_blocks \in Nat
  /\ DOMAIN last_heartbeat \subseteq Nodes
  /\ accrual_ratio.blocks > 0

\* A node is excluded for an offence exactly as long as a suspension that was
\* imposed for it, and not forgiven, has not run out, whatever the order in
\* which penalties of different lengths were imposed.
SuspendedAsImposed ==
  \A o \in Offences :
    validators_suspended_for({o}) = {v \in Nodes : \E s \in imposed : s[1] = o /\ s[2] = v /\ s[3] >= rep_block}

\* Heartbeats never earn a node more blocks than there have been, however
\* many it submits.
OnlyElapsedBlocksCount == \A v \in Nodes : credited[v] <= rep_block

\* No slot is slashed twice for one node, in whatever order slots are reported.
SlashedOncePerSlot == \A s \in DOMAIN slashes : slashes[s] = 1

\* Missed heartbeats are punished exactly when due: at an interval a node is
\* suspended for one, and slashed with fewer than zero points, if and only if
\* it is an authority whose last heartbeat lies an interval or more back.
SilenceIsPunished ==
  [][rep_block' # rep_block /\ rep_block' % HeartbeatBlockInterval = 0 /\ reporting_enabled =>
       \A v \in Nodes :
         LET silent == /\ v \in ToSet(Authorities)
                       /\ v \in DOMAIN last_heartbeat => last_heartbeat[v] <= rep_block' - HeartbeatBlockInterval
             suspension == penalties["MissedHeartbeat"].suspension
             entry == <<"MissedHeartbeat", v, rep_block' + suspension>>
         IN  /\ suspension > 0 /\ silent => entry \in imposed'
             /\ entry \in imposed' \ imposed => silent
             /\ (silent /\ reputations'[v].points < 0) = (silence_slashes'[v] > silence_slashes[v])]_repVars

\* Only the authorities of slots without a block are reported for a missed
\* slot: the author of the new block only if it missed an earlier one.
OnlyMissedSlotsPunished ==
  [][rep_block' # rep_block =>
       \A s \in imposed' \ imposed :
         s[1] = "MissedAuthorshipSlot" =>
           \E slot \in 0..rep_plan.max_slot :
             /\ \A seen \in last_seen_slot : slot > seen
             /\ \A new \in last_seen_slot' : slot < new
             /\ s[2] = AuthorOf(slot)]_repVars

(***************************************************************************)
(* Backup nodes: the map of backups the validator pallet keeps between     *)
(* epochs, the conditions a node has to meet to qualify, the choice of the *)
(* backups that are rewarded at each heartbeat interval and the amount     *)
(* each of them is minted, with the emissions of the block authors.        *)
(***************************************************************************)

CONSTANTS
  QUANTISATION_FACTOR,   \* amounts are divided by it before they are multiplied
  BackupPlans

VARIABLES
  bk_plan,        \* the scenario, chosen at the start
  balances,       \* FLIP balance of each account
  authorities,    \* CurrentAuthorities
  epoch_bond,     \* Bond
  backups,        \* Backups: node -> balance when it was last funded
  active_bidders, \* ActiveBidder
  met,            \* for each node the conditions it meets, but the version
  cfe_versions,   \* NodeCFEVersion
  min_version,    \* MinimumReportedCfeVersion
  bk_steps,       \* calls so far (bounded)
  intervals,      \* heartbeat intervals so far (bounded)
  earned,         \* what a node was minted since it was last funded
  paid            \* rewards of the last interval: node -> amount

backupVars == <<bk_plan, balances, authorities, epoch_bond, backups, active_bidders, met, cfe_versions,
                min_version, bk_steps, intervals, earned, paid>>

Accounts == bk_plan.accounts
Conditions == {"online", "not_excluded", "peer_mapping", "session_keys", "validator_role"}

----------------------------------------------------------------------------
(* Qualification.                                                          *)

QualifyByCfeVersion(node) == cfe_versions[node] >= min_version

\* KeygenQualification of the runtime: every one of the conditions
is_qualified(node) == met[node] = Conditions /\ QualifyByCfeVersion(node)

get_qualified_bidders == {v \in active_bidders : is_qualified(v)}

\* the share of the authorities whose engine runs with a version, in percent
compatible(version, node) == cfe_versions[node] = version

percent_authorities_compatible_with_version(version) ==
  (100 * Cardinality({v \in authorities : compatible(version, v)})) \div Cardinality(authorities)

----------------------------------------------------------------------------
(* The backups that are rewarded.                                          *)

backup_reward_nodes_limit == (bk_plan.reward_percentage * Cardinality(authorities)) \div 100

\* so many of the highest funded, ties broken either way
HighestFunded(candidates, limit) ==
  {S \in SUBSET candidates :
     /\ Cardinality(S) = limit
     /\ \A v \in S, w \in candidates \ S : backups[v] >= backups[w]}

\* the choices of the qualified backups, all of them or as many as the limit
highest_funded_qualified_backup_node_bids ==
  LET candidates == {v \in DOMAIN backups : is_qualified(v)}
  IN  IF backup_reward_nodes_limit < Cardinality(candidates)
        THEN HighestFunded(candidates, backup_reward_nodes_limit) ELSE {candidates}

quantised(amount) == amount \div QUANTISATION_FACTOR

capped(reward, cap, total) == IF total > cap THEN (reward * cap) \div total ELSE reward

\* A backup earns 80% of what an authority earns on average, less the
\* further its balance is below the bond (with the square of the ratio),
\* and all of them together no more than the emission set aside for them.
calculate_backup_rewards(chosen) ==
  LET bond == quantised(epoch_bond)
      average == (quantised(bk_plan.authority_emission) * bk_plan.interval) \div Cardinality(authorities)
      share(v) == LET balance == quantised(backups[v])
                  IN  ((average * balance * balance) \div bond) \div bond
      reward == [v \in chosen |-> ((IF share(v) < average THEN share(v) ELSE average) * 8) \div 10]
      total == MapThenSumSet(LAMBDA v : reward[v], chosen)
      cap == quantised(bk_plan.backup_emission) * bk_plan.interval
  IN  [v \in chosen |-> capped(reward[v], cap, total) * QUANTISATION_FACTOR]

----------------------------------------------------------------------------
Called == bk_steps < bk_plan.max_steps /\ bk_steps' = bk_steps + 1

\* Any account that is no authority is recorded with its new balance, and
\* removed with a balance of zero.
on_account_funded(node, amount) ==
  IF node \in authorities THEN backups
  ELSE IF amount = 0 THEN [v \in DOMAIN backups \ {node} |-> backups[v]]
  ELSE (node :> amount) @@ backups

\* An account is funded, redeems, or is given back a redemption.
Funded(node, balance) ==
  /\ Called
  /\ balances' = [balances EXCEPT ![node] = balance]
  /\ backups' = on_account_funded(node, balance)
  /\ earned' = [earned EXCEPT ![node] = 0]
  /\ UNCHANGED <<bk_plan, authorities, epoch_bond, active_bidders, met, cfe_versions, min_version, intervals, paid>>

start_bidding(node) ==
  /\ Called
  /\ node \notin active_bidders /\ "validator_role" \in met[node]
  /\ active_bidders' = active_bidders \union {node}
  /\ UNCHANGED <<bk_plan, balances, authorities, epoch_bond, backups, met, cfe_versions, min_version, intervals, earned, paid>>

\* Backups are not touched: they stay until the next epoch.
stop_bidding(node) ==
  /\ Called
  /\ node \in active_bidders
  /\ active_bidders' = active_bidders \ {node}
  /\ UNCHANGED <<bk_plan, balances, authorities, epoch_bond, backups, met, cfe_versions, min_version, intervals, earned, paid>>

cfe_version(node, version) ==
  /\ Called
  /\ "validator_role" \in met[node]
  /\ cfe_versions' = [cfe_versions EXCEPT ![node] = version]
  /\ UNCHANGED <<bk_plan, balances, authorities, epoch_bond, backups, active_bidders, met, min_version, intervals, earned, paid>>

MinimumReportedCfeVersion(version) ==
  /\ Called
  /\ min_version' = version
  /\ UNCHANGED <<bk_plan, balances, authorities, epoch_bond, backups, active_bidders, met, cfe_versions, intervals, earned, paid>>

\* a heartbeat is missed or sent, a suspension ends, keys or an address are
\* registered
ConditionChanges(node, condition) ==
  /\ Called
  /\ met' = [met EXCEPT ![node] = IF condition \in @ THEN @ \ {condition} ELSE @ \union {condition}]
  /\ UNCHANGED <<bk_plan, balances, authorities, epoch_bond, backups, active_bidders, cfe_versions, min_version, intervals, earned, paid>>

\* the bids of those that are not authorities
backup_map(new_authorities) == [v \in active_bidders \ new_authorities |-> balances[v]]

\* A rotation ends: new authorities, a new bond, and the backups are made
\* anew from the bids.
initialise_new_epoch(new_authorities, bond) ==
  /\ Called
  /\ new_authorities \subseteq get_qualified_bidders /\ new_authorities # {}
  /\ authorities' = new_authorities
  /\ epoch_bond' = bond
  /\ backups' = backup_map(new_authorities)
  /\ earned' = [v \in Accounts |-> 0]
  /\ UNCHANGED <<bk_plan, balances, active_bidders, met, cfe_versions, min_version, intervals, paid>>

\* BackupNodeEmissions::distribute at a heartbeat interval
distribute ==
  /\ intervals < bk_plan.max_intervals
  /\ intervals' = intervals + 1
  /\ \E chosen \in highest_funded_qualified_backup_node_bids :
       LET rewards == calculate_backup_rewards(chosen)
           Reward(v) == IF v \in DOMAIN rewards THEN rewards[v] ELSE 0
       IN  /\ paid' = rewards
           /\ balances' = [v \in Accounts |-> balances[v] + Reward(v)]
           /\ earned' = [v \in Accounts |-> earned[v] + Reward(v)]
  /\ UNCHANGED <<bk_plan, authorities, epoch_bond, backups, active_bidders, met, cfe_versions, min_version, bk_steps>>

BackupInit ==
  /\ bk_plan \in BackupPlans
  /\ balances = bk_plan.balances
  /\ authorities = bk_plan.authorities
  /\ epoch_bond = bk_plan.bond
  /\ backups = [v \in bk_plan.bidders \ bk_plan.authorities |-> bk_plan.balances[v]]
  /\ active_bidders = bk_plan.bidders
  /\ met = [v \in Accounts |-> IF v \in bk_plan.validators THEN Conditions ELSE Conditions \ {"validator_role"}]
  /\ cfe_versions = [v \in Accounts |-> 1]
  /\ min_version = 1
  /\ bk_steps = 0
  /\ intervals = 0
  /\ earned = [v \in Accounts |-> 0]
  /\ paid = [v \in {} |-> 0]

BackupNext ==
  \/ \E v \in Accounts :
       \/ \E balance \in bk_plan.new_balances : Funded(v, balance)
       \/ start_bidding(v) \/ stop_bidding(v)
       \/ \E version \in bk_plan.cfe_versions : cfe_version(v, version)
       \/ \E condition \in bk_plan.conditions : ConditionChanges(v, condition)
  \/ \E version \in bk_plan.cfe_versions : MinimumReportedCfeVersion(version)
  \/ \E new \in SUBSET Accounts, bond \in bk_plan.bonds : initialise_new_epoch(new, bond)
  \/ distribute

----------------------------------------------------------------------------
\* The state has its types, and the share of compatible authorities is one.
BackupTypeOK ==
  /\ authorities \in SUBSET Accounts \ {{}}
  /\ DOMAIN backups \subseteq Accounts
  /\ \A v \in DOMAIN backups : backups[v] \in Nat
  /\ balances \in [Accounts -> Nat]
  /\ percent_authorities_compatible_with_version(min_version) \in 0..100

\* No authority is a backup at the same time, through fundings, redemptions
\* and rotations in any order: it would be rewarded twice.
NoAuthorityIsBackup == DOMAIN backups \intersect authorities = {}

\* What is recorded of a backup is its balance, but for the rewards since:
\* rewards do not compound within an epoch, and a redemption counts at once.
RecordedAsFunded == \A v \in DOMAIN backups : backups[v] = balances[v] - earned[v]

\* The backups together are minted no more than the emission set aside for
\* them, and each at most 80% of what an authority gets on average.
RewardsWithinEmission ==
  [][intervals' # intervals =>
       /\ MapThenSumSet(LAMBDA v : paid'[v], DOMAIN paid') <= bk_plan.backup_emission * bk_plan.interval
       /\ \A v \in DOMAIN paid' :
            10 * paid'[v] * Cardinality(authorities) <= 8 * bk_plan.authority_emission * bk_plan.interval]_backupVars

\* Only nodes that qualify are rewarded, no more of them than the limit, and
\* never one with less funds than a qualified one that is left out.
BestFundedAreRewarded ==
  [][intervals' # intervals =>
       /\ Cardinality(DOMAIN paid') <= backup_reward_nodes_limit
            \/ DOMAIN paid' = {v \in DOMAIN backups : is_qualified(v)}
       /\ \A v \in DOMAIN paid' :
            /\ met[v] = Conditions /\ cfe_versions[v] >= min_version
            /\ \A w \in DOMAIN backups \ DOMAIN paid' : is_qualified(w) => backups[w] <= backups[v]]_backupVars

\* What the pallets hold against or for a node is what it did: suspensions, missed
\* slots and silence are punished once and as imposed, and backups are rewarded for
\* the funds they have, the best funded of them, within the emission.
NodeRecordsAreTrue ==
  /\ [](/\ RepTypeOK /\ BackupTypeOK /\ SuspendedAsImposed /\ OnlyElapsedBlocksCount /\ SlashedOncePerSlot
        /\ NoAuthorityIsBackup /\ RecordedAsFunded)
  /\ SilenceIsPunished /\ OnlyMissedSlotsPunished
  /\ RewardsWithinEmission /\ BestFundedAreRewarded
=============================================================================
