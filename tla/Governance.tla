----------------------------- MODULE Governance -----------------------------
(***************************************************************************)
(* The two ways in which the chain is governed: by the council and by the  *)
(* tokenholders.                                                           *)
(***************************************************************************)
EXTENDS Integers, FiniteSets, SequencesExt, Sequences, FiniteSetsExt

(* The governance pallet: members propose and approve calls, which run with the governance     *)
(* origin in the block after more than half of the members approved them, or when a member     *)
(* dispatches them; and a call whose hash the governance key has committed to is run when      *)
(* anybody submits it. A call is a kind with the argument its effect depends on.               *)

CONSTANTS
    \* Instances: the accounts, the members at genesis, the calls that may be proposed and
    \* submitted, the time a proposal lives, and bounds on time, proposals and whitelistings.
    GovPlans

VARIABLES
    gov_plan,
    now,                    \* the time of the block
    gov,                    \* Members, their reference counts, and the version of the runtime
    gov_proposals,          \* Proposals: id -> call, approved, execution
    active_proposals,       \* ActiveProposals
    execution_pipeline,     \* ExecutionPipeline
    executing,              \* what on_initialize has taken from it and not run yet
    pre_authorised,         \* PreAuthorisedGovCalls
    gov_key,                \* GovKeyWhitelistedCallHash, NextGovKeyCallHashNonce and the commitments left
    outcomes                \* the events: how each proposal ended, and what the governance key ran

govVars == <<gov_plan, now, gov, gov_proposals, active_proposals, execution_pipeline, executing,
             pre_authorised, gov_key, outcomes>>

proposal_id_counter == Len(outcomes.proposals)

----------------------------------------------------------------------------
\* Calls. Each returns the new state, or none when it fails: dispatch_governance_call then
\* rolls back what the call did.

new_membership_set(new_members) ==
    {[gov EXCEPT !.members = new_members,
                 !.sufficients = [a \in gov_plan.accounts |->
                     @[a] - (IF a \in gov.members \ new_members THEN 1 ELSE 0)
                          + (IF a \in new_members \ gov.members THEN 1 ELSE 0)]]}

\* The next block runs the new code. The upgrade is refused while the condition does not hold, or when too few engines run a
\* version compatible with the new one.
chainflip_runtime_upgrade(satisfied, compatible, required) ==
    IF satisfied /\ compatible >= required THEN {[gov EXCEPT !.upgrading = 1]} ELSE {}

\* A call as the root origin: any other call of the runtime, which succeeds or fails.
call_as_sudo(succeeds) == IF succeeds THEN {gov} ELSE {}

\* The states a call may lead to: {} where it fails.
Dispatched(call) ==
    CASE call.kind = "new_membership_set" -> {new_membership_set(call.members)}
      [] call.kind = "chainflip_runtime_upgrade" ->
            {chainflip_runtime_upgrade(satisfied, compatible, call.required) :
                satisfied \in BOOLEAN, compatible \in gov_plan.compatible}
      [] call.kind = "call_as_sudo" -> {call_as_sudo(succeeds) : succeeds \in BOOLEAN}

After(result) == IF result = {} THEN gov ELSE CHOOSE g \in result : TRUE

\* A stored call was encoded by the runtime of its time: a later one may fail to decode it.
Encoded(call) == [call |-> call, version |-> gov.version]

----------------------------------------------------------------------------
\* Proposals.

\* faulty variant: half of the members, rounded down, are enough
Half(approved) == Cardinality(approved) >= Cardinality(gov.members) \div 2

Majority(approved) == Cardinality(approved) > Cardinality(gov.members) \div 2

Without(id) == SelectSeq(active_proposals, LAMBDA p : p.proposal_id # id)

\* inner_approve, of a proposal that may just have been made.
inner_approve(who, id, proposal, active) ==
    LET approved == proposal.approved \cup {who}
    IN  /\ who \notin proposal.approved
        /\ IF Majority(approved)
           THEN /\ gov_proposals' = [i \in DOMAIN gov_proposals \ {id} |-> gov_proposals[i]]
                /\ active_proposals' = active
                /\ IF proposal.execution = "Manual"
                   THEN /\ pre_authorised' = [i \in DOMAIN pre_authorised \cup {id} |->
                               IF i = id THEN proposal.call ELSE pre_authorised[i]]
                        /\ UNCHANGED execution_pipeline
                   ELSE /\ execution_pipeline' = Append(execution_pipeline,
                               [call |-> proposal.call, id |-> id])
                        /\ UNCHANGED pre_authorised
           ELSE /\ gov_proposals' = [i \in DOMAIN gov_proposals \cup {id} |->
                       IF i = id THEN [proposal EXCEPT !.approved = approved] ELSE gov_proposals[i]]
                /\ active_proposals' =
                       IF id \in DOMAIN gov_proposals THEN active_proposals
                       ELSE Append(active_proposals,
                                   [proposal_id |-> id, expiry_time |-> now + gov_plan.expiry])
                /\ UNCHANGED <<execution_pipeline, pre_authorised>>

\* push_proposal and the approval of the member who proposes it.
propose_governance_extrinsic(who, call, execution) ==
    /\ executing = <<>> /\ who \in gov.members /\ proposal_id_counter < gov_plan.max_proposals
    /\ inner_approve(who, proposal_id_counter + 1,
                     [call |-> Encoded(call), approved |-> {}, execution |-> execution],
                     active_proposals)
    /\ outcomes' = [outcomes EXCEPT !.proposals = Append(@, "open")]
    /\ UNCHANGED <<gov_plan, now, gov, executing, gov_key>>

approve(who, id) ==
    /\ executing = <<>> /\ who \in gov.members
    /\ inner_approve(who, id, gov_proposals[id], Without(id))
    /\ UNCHANGED <<gov_plan, now, gov, executing, gov_key, outcomes>>

----------------------------------------------------------------------------
\* Execution.

\* on_initialize at the time of the new block: expired proposals are removed, then the
\* pipeline is taken and its calls run in order.
Expired(time) == {active_proposals[k].proposal_id : k \in
                    {j \in DOMAIN active_proposals : active_proposals[j].expiry_time <= time}}

check_expiry(time) ==
    /\ active_proposals' = SelectSeq(active_proposals, LAMBDA p : p.proposal_id \notin Expired(time))
    /\ gov_proposals' = [i \in DOMAIN gov_proposals \ Expired(time) |-> gov_proposals[i]]
    /\ outcomes' = [outcomes EXCEPT !.proposals =
           [i \in DOMAIN @ |-> IF i \in Expired(time) THEN "expired" ELSE @[i]]]

\* on_initialize of the next block, before its timestamp is set: the proposals that had
\* expired at the time of the last block are removed and the pipeline is taken.
NewGovBlock ==
    /\ now < gov_plan.max_time /\ executing = <<>>
    /\ now' = now + 1
    /\ gov' = [gov EXCEPT !.version = @ + gov.upgrading, !.upgrading = 0]
    /\ check_expiry(now)
    /\ executing' = execution_pipeline /\ execution_pipeline' = <<>>
    /\ UNCHANGED <<gov_plan, pre_authorised, gov_key>>

Ended(result) == IF result = {} THEN "failed" ELSE "executed"

\* execute_pending_proposals: one call after the other, before the transactions of the block.
execute_pending_proposals ==
    LET next == Head(executing)
        end(how) == outcomes' = [outcomes EXCEPT !.proposals[next.id] = how]
    IN  /\ executing # <<>>
        /\ executing' = Tail(executing)
        /\ \/ next.call.version # gov.version /\ end("undecodable") /\ UNCHANGED gov
           \/ \E result \in Dispatched(next.call.call) : gov' = After(result) /\ end(Ended(result))
        /\ UNCHANGED <<gov_plan, now, gov_proposals, active_proposals, execution_pipeline,
                       pre_authorised, gov_key>>

dispatch_whitelisted_call(who, id) ==
    /\ executing = <<>> /\ who \in gov.members
    /\ pre_authorised' = [i \in DOMAIN pre_authorised \ {id} |-> pre_authorised[i]]
    /\ \E result \in Dispatched(pre_authorised[id].call) :
        /\ gov' = After(result)
        /\ outcomes' = [outcomes EXCEPT !.proposals[id] = Ended(result)]
    /\ UNCHANGED <<gov_plan, now, gov_proposals, active_proposals, execution_pipeline, executing,
                   gov_key>>

----------------------------------------------------------------------------
\* The governance key.

compute_gov_key_call_hash(call) ==
    [call |-> call, nonce |-> gov_key.nonce, version |-> gov.version]

\* The witnessed commitment of the key to a call, computed for the state of any earlier time.
set_whitelisted_call_hash(call, nonce, version) ==
    /\ executing = <<>> /\ gov_key.commitments > 0 /\ nonce <= gov_key.nonce /\ version <= gov.version
    /\ gov_key' = [gov_key EXCEPT
           !.whitelisted = {[call |-> call, nonce |-> nonce, version |-> version]},
           !.commitments = @ - 1]
    /\ UNCHANGED <<gov_plan, now, gov, gov_proposals, active_proposals, execution_pipeline, executing,
                   pre_authorised, outcomes>>

submit_govkey_call(call) ==
    /\ executing = <<>> /\ gov_key.whitelisted = {compute_gov_key_call_hash(call)}
    /\ \E result \in Dispatched(call) :
        /\ gov' = After(result)
        /\ outcomes' = [outcomes EXCEPT !.gov_key = Append(@, compute_gov_key_call_hash(call))]
    /\ gov_key' = [gov_key EXCEPT !.whitelisted = {}, !.nonce = @ + 1]
    /\ UNCHANGED <<gov_plan, now, gov_proposals, active_proposals, execution_pipeline, executing,
                   pre_authorised>>

----------------------------------------------------------------------------

GovInit ==
    /\ gov_plan \in GovPlans
    /\ now = 0
    /\ gov = [members |-> gov_plan.members, version |-> 0, upgrading |-> 0,
              sufficients |-> [a \in gov_plan.accounts |-> IF a \in gov_plan.members THEN 1 ELSE 0]]
    /\ gov_proposals = <<>> /\ active_proposals = <<>>
    /\ execution_pipeline = <<>> /\ executing = <<>> /\ pre_authorised = <<>>
    /\ gov_key = [whitelisted |-> {}, nonce |-> 0, commitments |-> gov_plan.commitments]
    /\ outcomes = [proposals |-> <<>>, gov_key |-> <<>>]

GovNext ==
    \/ NewGovBlock
    \/ execute_pending_proposals
    \/ \E who \in gov_plan.accounts :
        \/ \E call \in gov_plan.calls, e \in gov_plan.modes :
                propose_governance_extrinsic(who, call, e)
        \/ \E id \in DOMAIN gov_proposals : approve(who, id)
        \/ \E id \in DOMAIN pre_authorised : dispatch_whitelisted_call(who, id)
    \/ \E call \in gov_plan.calls :
        \/ submit_govkey_call(call)
        \/ \E nonce \in 0 .. gov_key.nonce, v \in 0 .. gov.version :
            set_whitelisted_call_hash(call, nonce, v)

----------------------------------------------------------------------------

\* The state has its types.
GovTypeOK ==
    /\ gov.members \subseteq gov_plan.accounts
    /\ gov.sufficients \in [gov_plan.accounts -> Nat]
    /\ gov.version \in Nat /\ gov.upgrading \in 0 .. 1
    /\ \A id \in DOMAIN gov_proposals :
        /\ gov_proposals[id].approved \subseteq gov_plan.accounts
        /\ gov_proposals[id].execution \in gov_plan.modes
    /\ \A id \in DOMAIN outcomes.proposals :
        outcomes.proposals[id] \in {"open", "expired", "executed", "failed", "undecodable"}

Queued(calls, id) == {k \in DOMAIN calls : calls[k].id = id}

\* Every proposal ever made is in exactly one place: open with its time running, waiting for the
\* next block, being run by this one, waiting to be dispatched, or ended. So no approved call
\* is lost or runs twice, and an expired one never runs.
EachDecisionOnce ==
    /\ \A id \in DOMAIN outcomes.proposals :
        (IF id \in DOMAIN gov_proposals THEN 1 ELSE 0)
            + Cardinality(Queued(execution_pipeline, id)) + Cardinality(Queued(executing, id))
            + (IF id \in DOMAIN pre_authorised THEN 1 ELSE 0)
            + (IF outcomes.proposals[id] # "open" THEN 1 ELSE 0) = 1
    /\ Len(active_proposals) = Cardinality(DOMAIN gov_proposals)
    /\ {active_proposals[k].proposal_id : k \in DOMAIN active_proposals} = DOMAIN gov_proposals

\* An open proposal is never approved after the time it expires at, although on_initialize
\* still reads the time of the block before.
OpenProposalsInTime ==
    executing = <<>> => \A k \in DOMAIN active_proposals : active_proposals[k].expiry_time >= now

\* The governance account of a member is kept alive by exactly one reference, and no other
\* account is, however often the members are replaced.
SufficientsMatchMembers ==
    \A a \in gov_plan.accounts : gov.sufficients[a] = IF a \in gov.members THEN 1 ELSE 0

\* The governance key's commitment to a call lets it run at most once: also when it commits to
\* the same call twice, when the commitment was made for an earlier state, and across upgrades.
GovKeyCallsOnce ==
    /\ gov_key.nonce = Len(outcomes.gov_key)
    /\ \A i, j \in DOMAIN outcomes.gov_key : i # j => outcomes.gov_key[i] # outcomes.gov_key[j]

Waiting == {execution_pipeline[k].id : k \in DOMAIN execution_pipeline} \cup DOMAIN pre_authorised

ApprovalsOf(id) == IF id \in DOMAIN gov_proposals THEN gov_proposals[id].approved ELSE {}

\* A call starts to wait for its execution only when, with the approval just given, the accounts
\* that approved it are more than half as many as the members of that moment. They need not all
\* be members still: an approval counts on after its account has left the council.
OnlyMajorityDecides ==
    [][\A id \in Waiting' \ Waiting :
        2 * (Cardinality(ApprovalsOf(id)) + 1) > Cardinality(gov.members)]_govVars

(* The token holder governance pallet: anyone may pay for a proposal to replace the governance  *)
(* key of a chain or the community key; accounts back it; when the voting period is over it     *)
(* passes if its backers hold more than two thirds of the funds, and is enacted a delay later.  *)
(* A proposal is its kind, chain and key.                                                        *)

CONSTANTS
    VotingPeriod, EnactmentDelay, ProposalFee,
    \* Instances: the proposals that may be made, the funds of the accounts, their bonds and the
    \* transfers between them, bounds on blocks and submissions.
    VotePlans

VARIABLES
    vote_plan,
    block,
    funds,              \* account -> total_balance_of
    votes,              \* Proposals: the block the vote is resolved at -> proposal
    backers,            \* Backers: proposal -> accounts
    awaiting,           \* GovKeyUpdateAwaitingEnactment and CommKeyUpdateAwaitingEnactment
    gov_keys,           \* GovKeys: chain -> at most one key
    dot_vault,          \* whether there is a Polkadot vault account
    submitted,          \* the events: what was submitted, resolved and enacted, and when
    resolved,
    enacted

voteVars == <<vote_plan, block, funds, votes, backers, awaiting, gov_keys, dot_vault, submitted,
              resolved, enacted>>

----------------------------------------------------------------------------

is_govkey_compatible(proposal) == proposal.chain \in {"Ethereum", "Polkadot"} /\ proposal.decodes

\* There is one vote for each block that votes end at: the last one submitted.
WithVote(end, proposal) ==
    [b \in DOMAIN votes \cup {end} |-> IF b = end THEN proposal ELSE votes[b]]

\* The fee is taken from what an account has beyond its bond, and burnt: without as much the
\* call fails.
burn_proposal_fee(who, fee) ==
    /\ funds[who] - vote_plan.bonds[who] >= fee
    /\ funds' = [funds EXCEPT ![who] = @ - fee]

submit_proposal(who, proposal) ==
    /\ Len(submitted) < vote_plan.max_submissions
    /\ proposal.kind = "SetGovernanceKey" => is_govkey_compatible(proposal)
    /\ burn_proposal_fee(who, ProposalFee)
    /\ votes' = WithVote(block + VotingPeriod, proposal)
    /\ backers' = [p \in DOMAIN backers \cup {proposal} |->
                    IF p = proposal THEN {who} ELSE backers[p]]
    /\ submitted' = Append(submitted, [proposal |-> proposal, block |-> block])
    /\ UNCHANGED <<vote_plan, block, awaiting, gov_keys, dot_vault, resolved, enacted>>

back_proposal(who, proposal) ==
    /\ who \notin backers[proposal]
    /\ backers' = [backers EXCEPT ![proposal] = @ \cup {who}]
    /\ UNCHANGED <<vote_plan, block, funds, votes, awaiting, gov_keys, dot_vault, submitted, resolved,
                   enacted>>

\* Funds move between accounts, in and out, while votes run.
Transfer(to) ==
    /\ to.funds # funds /\ funds' = to.funds /\ dot_vault' = to.dot_vault
    /\ UNCHANGED <<vote_plan, block, votes, backers, awaiting, gov_keys, submitted, resolved, enacted>>

----------------------------------------------------------------------------
\* on_initialize.

FundsOf(accounts, balances) == FoldSet(LAMBDA a, t : t + balances[a], 0, accounts)

total_onchain_funds == FundsOf(DOMAIN funds, funds)

Backing(proposal) == IF proposal \in DOMAIN backers THEN backers[proposal] ELSE {}

passes(by) == FundsOf(by, funds) > (total_onchain_funds \div 3) * 2

EnactLater(waiting, proposal, height) ==
    [waiting EXCEPT ![proposal.kind] = {[proposal |-> proposal, block |-> height + EnactmentDelay]}]

\* The vote that ends at this block: what then waits for enactment.
resolve_vote(height) ==
    IF height \notin DOMAIN votes THEN awaiting
    ELSE IF passes(Backing(votes[height])) THEN EnactLater(awaiting, votes[height], height)
    ELSE awaiting

\* Whether the governance key can be broadcast: the key of Polkadot needs the vault account.
broadcast_gov_key(proposal) == proposal.chain = "Polkadot" => dot_vault

Due(updates, height) == {u \in updates : u.block = height}

NewKey(u) == IF broadcast_gov_key(u.proposal) THEN {u.proposal.key} ELSE {}

\* What is due is broadcast once and forgotten; a governance key that was broadcast becomes the
\* current one, whatever becomes of the broadcast.
enact(height, waiting) ==
    LET step(gov_due, comm_due) ==
            /\ awaiting' = [waiting EXCEPT !["SetGovernanceKey"] = @ \ gov_due,
                                            !["SetCommunityKey"] = @ \ comm_due]
            /\ gov_keys' = [c \in DOMAIN gov_keys |->
                   LET new == UNION {NewKey(u) : u \in {v \in gov_due : v.proposal.chain = c}}
                   IN  IF new = {} THEN gov_keys[c] ELSE new]
            /\ enacted' = enacted
                   \cup {[proposal |-> u.proposal, block |-> height, old |-> gov_keys[u.proposal.chain],
                          broadcast |-> broadcast_gov_key(u.proposal)] : u \in gov_due}
                   \cup {[proposal |-> u.proposal, block |-> height, old |-> {}, broadcast |-> TRUE]
                          : u \in comm_due}
    IN  step(Due(waiting["SetGovernanceKey"], height), Due(waiting["SetCommunityKey"], height))

NewVoteBlock ==
    LET step(height) ==
            /\ block' = height
            /\ votes' = [b \in DOMAIN votes \ {height} |-> votes[b]]
            /\ backers' = IF height \in DOMAIN votes 
                          THEN [p \in DOMAIN backers \ {votes[height]} |-> backers[p]] ELSE backers
            /\ resolved' = IF height \in DOMAIN votes
                           THEN resolved \cup {[proposal |-> votes[height], block |-> height,
                                                by |-> Backing(votes[height]), funds |-> funds]}
                           ELSE resolved
            /\ enact(height, resolve_vote(height))
    IN  /\ block < vote_plan.max_block
        /\ step(block + 1)
        /\ UNCHANGED <<vote_plan, funds, dot_vault, submitted>>

----------------------------------------------------------------------------

VoteInit ==
    /\ vote_plan \in VotePlans
    /\ block = 0 /\ funds = vote_plan.funds
    /\ votes = <<>> /\ backers = <<>>
    /\ awaiting = [k \in {"SetGovernanceKey", "SetCommunityKey"} |-> {}]
    /\ gov_keys = [c \in {"Ethereum", "Polkadot"} |-> {}]
    /\ dot_vault = FALSE /\ submitted = <<>> /\ resolved = {} /\ enacted = {}

VoteNext ==
    \/ NewVoteBlock
    \/ \E who \in DOMAIN funds :
        \/ \E proposal \in vote_plan.proposals : submit_proposal(who, proposal)
        \/ \E proposal \in DOMAIN backers : back_proposal(who, proposal)
    \/ \E to \in vote_plan.transfers : Transfer(to)

----------------------------------------------------------------------------

\* The state has its types; open votes and updates that wait lie ahead of the block.
VoteTypeOK ==
    /\ DOMAIN votes \subseteq block + 1 .. block + VotingPeriod
    /\ \A b \in DOMAIN votes : votes[b] \in vote_plan.proposals
    /\ \A p \in DOMAIN backers : p \in vote_plan.proposals /\ backers[p] \subseteq DOMAIN funds
    /\ \A kind \in DOMAIN awaiting :
        /\ Cardinality(awaiting[kind]) <= 1
        /\ \A u \in awaiting[kind] : u.block \in block + 1 .. block + EnactmentDelay
    /\ \A c \in DOMAIN gov_keys : Cardinality(gov_keys[c]) <= 1
    /\ \A a \in DOMAIN funds : funds[a] \in Nat

\* The resolved votes that had more than two thirds of the funds (of the part of the total that
\* three divides) at the time.
Decisions ==
    {r \in resolved : LET total == FundsOf(DOMAIN r.funds, r.funds)
                      IN  3 * FundsOf(r.by, r.funds) > 2 * (total - (total % 3))}

\* A decision is enacted exactly the delay after its vote, unless another one of its kind was
\* made in the meantime, up to the block of the enactment itself: then only the last counts.
LatestDecisionsEnacted ==
    {[proposal |-> e.proposal, block |-> e.block] : e \in enacted}
      = {[proposal |-> d.proposal, block |-> d.block + EnactmentDelay] : d \in
            {x \in Decisions :
                /\ x.block + EnactmentDelay <= block
                /\ ~\E y \in Decisions : /\ y.proposal.kind = x.proposal.kind
                                         /\ x.block < y.block
                                         /\ y.block <= x.block + EnactmentDelay}}

\* A vote is held at the end of its period, on the proposal that was submitted last in the block
\* that the period began with. The others of that block have paid their fee for nothing: the
\* storage has one proposal for each block that votes end at.
VotesAreHeld ==
    \A k \in DOMAIN submitted :
        LET s == submitted[k]
        IN  /\ s.block + VotingPeriod <= block
            /\ \A l \in k + 1 .. Len(submitted) : submitted[l].block # s.block
            => \E r \in resolved : r.proposal = s.proposal /\ r.block = s.block + VotingPeriod

KeysSent(chain) == {e \in enacted : /\ e.proposal.kind = "SetGovernanceKey"
                                    /\ e.proposal.chain = chain /\ e.broadcast}

\* Each broadcast of a governance key names as the old key the one of the broadcast before:
\* the keys of a chain follow each other without a gap, also when a broadcast could not be made.
OldKeyIsTheLast ==
    \A chain \in DOMAIN gov_keys : \A e \in KeysSent(chain) :
        LET before == {x \in KeysSent(chain) : x.block < e.block}
        IN  e.old = {x.proposal.key : x \in {y \in before : \A z \in before : z.block <= y.block}}

\* Neither pallet acts without its backing, late or twice: the calls of the council wait for
\* execution only when enough accounts that are or were members approved them, and run once;
\* the keys that token holders decided on, and no others, are enacted on time (of proposals
\* submitted in one block only the last is voted on).
DecisionsHaveBacking ==
    /\ OnlyMajorityDecides
    /\ [](/\ GovTypeOK /\ VoteTypeOK /\ EachDecisionOnce /\ OpenProposalsInTime /\ SufficientsMatchMembers /\ GovKeyCallsOnce
          /\ LatestDecisionsEnacted /\ VotesAreHeld /\ OldKeyIsTheLast)
=============================================================================
