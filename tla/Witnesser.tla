------------------------------ MODULE Witnesser ------------------------------
(***************************************************************************)
(* The witnesser pallet (state-chain/pallets/cf-witnesser): authorities    *)
(* vote for runtime calls, a call whose votes reach the threshold of its   *)
(* epoch is dispatched (or scheduled while safe mode forbids it), and the  *)
(* records of expired epochs are culled when blocks have weight to spare.  *)
(*                                                                         *)
(* A block runs initialize -> execute -> idle -> finalize.  Vote bit masks *)
(* are sets of authorities, a call is its hash, and the keys of            *)
(* WitnessDeadline are block numbers relative to the current block.        *)
(***************************************************************************)
EXTENDS Integers, Sequences, FiniteSets, Functions, Thresholds

CONSTANTS
  Validators,              \* accounts with the validator role
  Calls,                   \* runtime calls that can be witnessed
  ExtraCalls,              \* the calls extract() takes data out of
  Data,                    \* the values that data can have
  Reports,                 \* the data each validator may report
  NoData,                  \* a call without extracted data
  MaxEpoch,                \* bound: epochs are 1..MaxEpoch
  AuthoritiesAt,           \* the authority set of each epoch
  SafeModes,               \* the sets of calls that safe mode may let through
  Weight,                  \* the dispatch weight of each call
  MaxWeight,               \* bound on the weight left to on_idle
  DeletionWeight,          \* the weight of one storage deletion
  LateWitnessGracePeriod,  \* blocks an authority has to witness after dispatch
  MaxForced                \* bound on the uses of force_witness

Epochs == 1..MaxEpoch
MaybeData == Data \cup {NoData}

ASSUME WitnesserAssumption ==
  /\ MaxEpoch \in Nat \ {0}
  /\ AuthoritiesAt \in [Epochs -> SUBSET Validators]
  /\ \A e \in Epochs : IsFiniteSet(AuthoritiesAt[e])
  /\ IsFiniteSet(Calls)
  /\ ExtraCalls \subseteq Calls
  /\ Data \subseteq Nat /\ NoData \notin Data
  /\ Reports \in [Validators -> SUBSET Data]
  /\ SafeModes \subseteq SUBSET Calls /\ Calls \in SafeModes
  /\ Weight \in [Calls -> Nat]
  /\ MaxWeight \in Nat /\ DeletionWeight \in Nat \ {0}
  /\ LateWitnessGracePeriod \in Nat
  /\ MaxForced \in Nat

VARIABLES
  Votes,                               \* [epoch][call]: who voted; {} is no entry
  ExtraCallData,                       \* [epoch][call]: data in voting order
  CallHashExecuted,                    \* [epoch][call]: the executed flag
  EpochsToCull,                        \* expired epochs, culled last first
  WitnessedCallsScheduledForDispatch,  \* witnessed calls held back by safe mode
  WitnessDeadline,                     \* [blocks from now]: calls to account for
  epoch_index, last_expired_epoch,     \* the validator pallet's epoch info
  safe_mode,                           \* the calls should_dispatch lets through
  phase,                               \* where the block is
  idle,                                \* the locals of on_idle
  dispatches,                          \* history: dispatches after a vote
  forced,                              \* history: dispatches by force_witness
  delivered,                           \* history: the data dispatched last
  missed                               \* history: failures to witness reported

storage == <<Votes, ExtraCallData, CallHashExecuted, EpochsToCull,
             WitnessedCallsScheduledForDispatch, WitnessDeadline>>
epochs == <<epoch_index, last_expired_epoch>>
history == <<dispatches, forced, delivered, missed>>
vars == <<storage, epochs, safe_mode, phase, idle, history>>

PerCall(x) == [e \in Epochs |-> [c \in Calls |-> x]]
ScheduledCall == [epoch : Epochs, call : Calls, data : MaybeData]
NotIdle == [todo |-> <<>>, used |-> 0, limit |-> 0]

Init ==
  /\ Votes = PerCall({})
  /\ ExtraCallData = PerCall(<<>>)
  /\ CallHashExecuted = PerCall(FALSE)
  /\ EpochsToCull = <<>>
  /\ WitnessedCallsScheduledForDispatch = <<>>
  /\ WitnessDeadline = [n \in 0..LateWitnessGracePeriod |-> <<>>]
  /\ epoch_index = 1
  /\ last_expired_epoch = 0
  /\ safe_mode = Calls
  /\ phase = "execute"
  /\ idle = NotIdle
  /\ dispatches = PerCall(0)
  /\ forced = PerCall(0)
  /\ delivered = PerCall(NoData)
  /\ missed = {}

(***************************************************************************)
(* Helpers                                                                 *)
(***************************************************************************)

\* No epoch that may still be witnessed, nor the last expired one, has the
\* call marked as executed.
NotExecutedThisEpoch(c) == ~CallHashExecuted[epoch_index][c]       \* faulty variant
NotExecuted(c) ==
  \A e \in Epochs \cap (last_expired_epoch..epoch_index) : ~CallHashExecuted[e][c]

\* The checks witness_at_epoch makes of the voter and the epoch.
MayVoteTwice(who, c, e) ==                                         \* faulty variant
  last_expired_epoch < e /\ e <= epoch_index /\ who \in AuthoritiesAt[e]
MayWitness(who, c, e) ==
  /\ last_expired_epoch < e
  /\ e <= epoch_index                      \* authority_count_at_epoch is Some
  /\ who \in AuthoritiesAt[e]
  /\ who \notin Votes[e][c]

\* The element of rank (len - 1) / 2 of the data in ascending order.
select_max(s) ==                                                   \* faulty variant
  CHOOSE v \in Range(s) : \A i \in DOMAIN s : s[i] <= v
select_median(s) ==
  LET Below(v) == Cardinality({i \in DOMAIN s : s[i] < v})
      UpTo(v) == Cardinality({i \in DOMAIN s : s[i] <= v})
      median_index == (Len(s) - 1) \div 2
  IN CHOOSE v \in Range(s) :
       Below(v) <= median_index /\ median_index < UpTo(v)

\* The data of all votes is taken to be in one encoding: an upgrade of the runtime that
\* changes it while a call is voted on, and makes the code leave the median out, is not
\* modelled.
combine_and_inject(s) == IF s = <<>> THEN NoData ELSE select_median(s)

\* Executes the call, marks it executed even when it fails, and gives the
\* authorities of the epoch until the deadline to witness it.
dispatch_call_overwriting_deadline(e, c) ==                        \* faulty variant
  /\ CallHashExecuted' = [CallHashExecuted EXCEPT ![e][c] = TRUE]
  /\ WitnessDeadline' = [WitnessDeadline EXCEPT
       ![LateWitnessGracePeriod] = <<<<e, c>>>>]
dispatch_call(e, c) ==
  /\ CallHashExecuted' = [CallHashExecuted EXCEPT ![e][c] = TRUE]
  /\ WitnessDeadline' = [WitnessDeadline EXCEPT
       ![LateWitnessGracePeriod] = Append(@, <<e, c>>)]

\* The history of a dispatch that a vote led to.
RecordDispatch(e, c, d) ==
  /\ dispatches' = [dispatches EXCEPT ![e][c] = @ + 1]
  /\ delivered' = [delivered EXCEPT ![e][c] = d]
  /\ UNCHANGED <<forced, missed>>

(***************************************************************************)
(* The start of a block.  The validator pallet may start a new epoch or    *)
(* expire the oldest one; a rotation takes many blocks, so never both.     *)
(***************************************************************************)

NewEpoch ==
  /\ phase = "initialize" /\ epoch_index < MaxEpoch
  /\ phase' = "execute"
  /\ epoch_index' = epoch_index + 1
  /\ UNCHANGED <<storage, last_expired_epoch, safe_mode, idle, history>>

on_expired_epoch ==
  /\ phase = "initialize" /\ last_expired_epoch + 1 < epoch_index
  /\ phase' = "execute"
  /\ last_expired_epoch' = last_expired_epoch + 1
  /\ EpochsToCull' = Append(EpochsToCull, last_expired_epoch + 1)
  /\ UNCHANGED <<Votes, ExtraCallData, CallHashExecuted,
                 WitnessedCallsScheduledForDispatch, WitnessDeadline,
                 epoch_index, safe_mode, idle, history>>

StartBlock ==
  /\ phase = "initialize"
  /\ phase' = "execute"
  /\ UNCHANGED <<storage, epochs, safe_mode, idle, history>>

(***************************************************************************)
(* Extrinsics                                                              *)
(***************************************************************************)

witness_at_epoch(who, c, d, e) ==
  /\ phase = "execute"
  /\ MayWitness(who, c, e)
  /\ IF c \in ExtraCalls THEN d \in Reports[who] ELSE d = NoData
  /\ Votes' = [Votes EXCEPT ![e][c] = @ \cup {who}]
  /\ ExtraCallData' = IF c \in ExtraCalls
                      THEN [ExtraCallData EXCEPT ![e][c] = Append(@, d)]
                      ELSE ExtraCallData
  /\ LET num_votes == Cardinality(Votes[e][c]) + 1
         num_authorities == Cardinality(AuthoritiesAt[e])
         reached == /\ num_votes = success_threshold_from_share_count(num_authorities)
                    /\ NotExecuted(c)
         data == combine_and_inject(ExtraCallData'[e][c])
     IN \/ /\ reached /\ c \in safe_mode
           /\ dispatch_call(e, c)
           /\ RecordDispatch(e, c, data)
           /\ UNCHANGED WitnessedCallsScheduledForDispatch
        \/ /\ reached /\ c \notin safe_mode
           /\ WitnessedCallsScheduledForDispatch' =
                Append(WitnessedCallsScheduledForDispatch,
                       [epoch |-> e, call |-> c, data |-> data])
           /\ UNCHANGED <<CallHashExecuted, WitnessDeadline, history>>
        \/ /\ ~reached
           /\ UNCHANGED <<CallHashExecuted, WitnessDeadline, history,
                          WitnessedCallsScheduledForDispatch>>
  /\ UNCHANGED <<EpochsToCull, epochs, safe_mode, phase, idle>>

force_witness(c, e) ==
  /\ phase = "execute"
  /\ e > last_expired_epoch
  /\ Votes[e][c] # {}
  /\ \A f \in Epochs, k \in Calls : forced[f][k] < MaxForced
  /\ dispatch_call(e, c)
  /\ forced' = [forced EXCEPT ![e][c] = @ + 1]
  /\ UNCHANGED <<Votes, ExtraCallData, EpochsToCull,
                 WitnessedCallsScheduledForDispatch, epochs, safe_mode, phase,
                 idle, dispatches, delivered, missed>>

\* Governance changes the safe mode.
SetSafeMode(m) ==
  /\ phase = "execute"
  /\ safe_mode' = m
  /\ UNCHANGED <<storage, epochs, phase, idle, history>>

(***************************************************************************)
(* on_idle: each scheduled call in turn, then one epoch to cull            *)
(***************************************************************************)

on_idle(remaining_weight) ==
  /\ phase = "execute"
  /\ phase' = "idle"
  /\ idle' = [todo  |-> WitnessedCallsScheduledForDispatch,
              used  |-> 0,
              limit |-> remaining_weight]
  /\ WitnessedCallsScheduledForDispatch' = <<>>
  /\ UNCHANGED <<Votes, ExtraCallData, CallHashExecuted, EpochsToCull,
                 WitnessDeadline, epochs, safe_mode, history>>

\* A call that extract_if does not extract stays scheduled.
DropUnextracted(s) == UNCHANGED WitnessedCallsScheduledForDispatch \* faulty variant
KeepScheduled(s) ==
  WitnessedCallsScheduledForDispatch' = Append(WitnessedCallsScheduledForDispatch, s)

\* The condition of extract_if.
Extractable(s, next_weight) ==
  next_weight <= idle.limit /\ s.call \in safe_mode

\* One round of extract_if and of the loop over what it extracted.
DispatchScheduled ==
  /\ phase = "idle" /\ idle.todo # <<>>
  /\ LET s == Head(idle.todo)
         next_weight == idle.used + Weight[s.call]
         extracted == Extractable(s, next_weight)
     IN \/ /\ ~extracted
           /\ KeepScheduled(s)
           /\ idle' = [idle EXCEPT !.todo = Tail(@)]
           /\ UNCHANGED <<CallHashExecuted, WitnessDeadline, history>>
        \/ /\ extracted
           /\ idle' = [idle EXCEPT !.todo = Tail(@), !.used = next_weight]
           /\ UNCHANGED WitnessedCallsScheduledForDispatch
           /\ \/ /\ NotExecuted(s.call)
                 /\ dispatch_call(s.epoch, s.call)
                 /\ RecordDispatch(s.epoch, s.call, s.data)
              \/ /\ ~NotExecuted(s.call)
                 /\ UNCHANGED <<CallHashExecuted, WitnessDeadline, history>>
  /\ UNCHANGED <<Votes, ExtraCallData, EpochsToCull, epochs, safe_mode, phase>>

\* clear_prefix: every key, or as many as the limit allows.
ClearPrefix(keys, limit) ==
  IF Cardinality(keys) <= limit
  THEN {keys}
  ELSE {d \in SUBSET keys : Cardinality(d) = limit}

\* Whether all three prefixes were cleared: the last one is only tried when
\* the first two left something of the budget.
Culled(all_votes, all_extra, all_executed, left) ==
  all_votes /\ all_extra /\ all_executed /\ left > 0

CullEpoch ==
  /\ phase = "idle" /\ idle.todo = <<>>
  /\ phase' = "finalize"
  /\ idle' = NotIdle
  /\ LET budget == (idle.limit - idle.used) \div DeletionWeight
         e == EpochsToCull[Len(EpochsToCull)]
         votes == {c \in Calls : Votes[e][c] # {}}
         extra == {c \in Calls : ExtraCallData[e][c] # <<>>}
         executed == {c \in Calls : CallHashExecuted[e][c]}
     IN \/ /\ EpochsToCull = <<>> \/ budget = 0
           /\ UNCHANGED <<Votes, ExtraCallData, CallHashExecuted, EpochsToCull>>
        \/ /\ EpochsToCull # <<>> /\ budget > 0
           /\ \E dv \in ClearPrefix(votes, budget) :
                LET left == budget - Cardinality(dv) IN
                \E dd \in ClearPrefix(extra, left) :
                  LET left2 == left - Cardinality(dd) IN
                  \E de \in ClearPrefix(executed, left2) :
                    /\ Votes' = [Votes EXCEPT ![e] =
                         [c \in Calls |-> IF c \in dv THEN {} ELSE @[c]]]
                    /\ ExtraCallData' = [ExtraCallData EXCEPT ![e] =
                         [c \in Calls |-> IF c \in dd THEN <<>> ELSE @[c]]]
                    /\ CallHashExecuted' = [CallHashExecuted EXCEPT ![e] =
                         [c \in Calls |-> IF c \in de THEN FALSE ELSE @[c]]]
                    /\ EpochsToCull' =
                         IF Culled(dv = votes, dd = extra, de = executed, left2)
                         THEN SubSeq(EpochsToCull, 1, Len(EpochsToCull) - 1)
                         ELSE EpochsToCull
  /\ UNCHANGED <<WitnessedCallsScheduledForDispatch, WitnessDeadline, epochs,
                 safe_mode, history>>

(***************************************************************************)
(* on_finalize: report who has not witnessed by the deadline               *)
(***************************************************************************)

FailedWitnessers(e, c) ==
  IF Votes[e][c] = {} THEN {} ELSE AuthoritiesAt[e] \ Votes[e][c]

on_finalize ==
  /\ phase = "finalize"
  /\ phase' = "initialize"
  /\ missed' = missed \cup
       {x \in Epochs \X Calls \X Validators :
          /\ <<x[1], x[2]>> \in Range(WitnessDeadline[0])
          /\ x[3] \in FailedWitnessers(x[1], x[2])}
  /\ WitnessDeadline' = [n \in 0..LateWitnessGracePeriod |->
       IF n < LateWitnessGracePeriod THEN WitnessDeadline[n + 1] ELSE <<>>]
  /\ UNCHANGED <<Votes, ExtraCallData, CallHashExecuted, EpochsToCull,
                 WitnessedCallsScheduledForDispatch, epochs, safe_mode, idle,
                 dispatches, forced, delivered>>

(***************************************************************************)
(* The specification                                                       *)
(***************************************************************************)

Next ==
  \/ NewEpoch
  \/ on_expired_epoch
  \/ StartBlock
  \/ \E who \in Validators, c \in Calls, d \in MaybeData, e \in Epochs :
       witness_at_epoch(who, c, d, e)
  \/ \E c \in Calls, e \in Epochs : force_witness(c, e)
  \/ \E m \in SafeModes : SetSafeMode(m)
  \/ \E w \in 0..MaxWeight : on_idle(w)
  \/ DispatchScheduled
  \/ CullEpoch
  \/ on_finalize

Spec == Init /\ [][Next]_vars

(***************************************************************************)
(* Properties                                                              *)
(***************************************************************************)

\* Every variable has its type, and the last expired epoch is a past one.
TypeOK ==
  /\ Votes \in [Epochs -> [Calls -> SUBSET Validators]]
  /\ ExtraCallData \in [Epochs -> [Calls -> Seq(Data)]]
  /\ CallHashExecuted \in [Epochs -> [Calls -> BOOLEAN]]
  /\ EpochsToCull \in Seq(Epochs)
  /\ WitnessedCallsScheduledForDispatch \in Seq(ScheduledCall)
  /\ WitnessDeadline \in [0..LateWitnessGracePeriod -> Seq(Epochs \X Calls)]
  /\ epoch_index \in Epochs
  /\ last_expired_epoch \in 0..(epoch_index - 1)
  /\ safe_mode \in SafeModes
  /\ phase \in {"initialize", "execute", "idle", "finalize"}
  /\ idle \in [todo : Seq(ScheduledCall), used : Nat, limit : 0..MaxWeight]
  /\ dispatches \in [Epochs -> [Calls -> Nat]]
  /\ forced \in [Epochs -> [Calls -> Nat]]
  /\ delivered \in [Epochs -> [Calls -> MaybeData]]
  /\ missed \subseteq Epochs \X Calls \X Validators

\* The epochs in which authorities may still witness.
Active(e) == last_expired_epoch < e /\ e <= epoch_index

QuorumOf(e) == success_threshold_from_share_count(Cardinality(AuthoritiesAt[e]))

PendingCalls ==
  Range(WitnessedCallsScheduledForDispatch) \cup Range(idle.todo)

\* While its epoch is active, a call that was dispatched after a vote has the
\* votes of a quorum of that epoch's authorities: neither culling nor the
\* detour through WitnessedCallsScheduledForDispatch dispatches a call that
\* witness_at_epoch would not have let through.
DispatchedWithQuorum ==
  \A e \in Epochs, c \in Calls :
    Active(e) /\ dispatches[e][c] > 0 =>
      /\ Votes[e][c] \subseteq AuthoritiesAt[e]
      /\ Cardinality(Votes[e][c]) >= QuorumOf(e)

\* A call whose votes reached the threshold of an active epoch is not lost: it
\* was dispatched, for this or for another epoch, or it is still scheduled.
WitnessedCallNotLost ==
  \A e \in Epochs, c \in Calls :
    Active(e) /\ Cardinality(Votes[e][c]) >= QuorumOf(e) =>
      \/ \E f \in Epochs : dispatches[f][c] + forced[f][c] > 0
      \/ \E s \in PendingCalls : s.call = c

\* Votes never dispatch a call that was already dispatched, by votes or by
\* force_witness, for an epoch that is still active: the executed flags of
\* all active epochs are consulted, wherever the second quorum was reached.
NoReplayWhileActive ==
  [][\A e \in Epochs, c \in Calls :
       dispatches'[e][c] # dispatches[e][c] =>
         \A f \in Epochs : Active(f) => dispatches[f][c] + forced[f][c] = 0]_vars

\* Once the grace period of a dispatched call is over, every authority of its
\* (still active) epoch has either witnessed the call or was reported.
EveryAuthorityAccountedFor ==
  \A e \in Epochs, c \in Calls :
    /\ Active(e) /\ dispatches[e][c] + forced[e][c] > 0
    /\ \A n \in 0..LateWitnessGracePeriod : <<e, c>> \notin Range(WitnessDeadline[n])
    => \A v \in AuthoritiesAt[e] : v \in Votes[e][c] \/ <<e, c, v>> \in missed

IsCulled(e) == e <= last_expired_epoch /\ e \notin Range(EpochsToCull)

\* When on_idle takes an expired epoch off EpochsToCull, however little weight
\* each block left it, no vote and no extra data of that epoch remains, and
\* none is ever added again.
CulledVotesStayGone ==
  \A e \in Epochs : IsCulled(e) =>
    \A c \in Calls : Votes[e][c] = {} /\ ExtraCallData[e][c] = <<>>

\* Data injected into a dispatched call is resistant to minorities: whichever
\* authorities are disregarded, as long as they are fewer than a third, the
\* value lies between two values the other authorities may have reported.
InjectedWithinHonestReports ==
  \A e \in Epochs, c \in ExtraCalls : dispatches[e][c] > 0 =>
    \A faulty \in SUBSET AuthoritiesAt[e] :
      3 * Cardinality(faulty) < Cardinality(AuthoritiesAt[e]) =>
        LET honest == UNION {Reports[v] : v \in AuthoritiesAt[e] \ faulty}
        IN \E lo, hi \in honest : lo <= delivered[e][c] /\ delivered[e][c] <= hi

\* The inductive invariant.  Only expired epochs are queued for culling, an
\* epoch that has not started has no records, a pending call still has the
\* votes it was scheduled with, on_idle carries calls only while it runs, and
\* while an epoch is active the executed flags are the dispatched calls.
VotesFromAuthorities ==
  \A e \in Epochs, c \in Calls : Votes[e][c] \subseteq AuthoritiesAt[e]
FutureEpochsEmpty ==
  \A e \in Epochs, c \in Calls : e > epoch_index =>
    Votes[e][c] = {} /\ dispatches[e][c] = 0 /\ forced[e][c] = 0
PendingCallsHaveQuorum ==
  \A s \in PendingCalls :
    /\ s.epoch <= epoch_index
    /\ Active(s.epoch) => Cardinality(Votes[s.epoch][s.call]) >= QuorumOf(s.epoch)
ExecutedIsDispatched ==
  \A e \in Epochs, c \in Calls :
    CallHashExecuted[e][c] => dispatches[e][c] + forced[e][c] > 0
DispatchedIsExecuted ==
  \A e \in Epochs, c \in Calls : Active(e) /\ dispatches[e][c] + forced[e][c] > 0 =>
    CallHashExecuted[e][c] /\ Votes[e][c] # {}
CullingExpiredOnly == \A e \in Range(EpochsToCull) : e <= last_expired_epoch
NothingInFlight == phase # "idle" => idle = NotIdle

WitnesserInv ==
  /\ TypeOK
  /\ VotesFromAuthorities
  /\ FutureEpochsEmpty
  /\ PendingCallsHaveQuorum
  /\ ExecutedIsDispatched
  /\ DispatchedIsExecuted
  /\ CullingExpiredOnly
  /\ NothingInFlight
  /\ DispatchedWithQuorum
  /\ WitnessedCallNotLost
  /\ EveryAuthorityAccountedFor
  /\ CulledVotesStayGone

\* No vote gets lost or comes back: whoever voted or was told off for not voting is accounted
\* for, and what is culled stays culled.
VotesAreAccountedFor == TypeOK /\ EveryAuthorityAccountedFor /\ CulledVotesStayGone

=============================================================================
