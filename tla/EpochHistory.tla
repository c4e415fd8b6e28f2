---------------------------- MODULE EpochHistory ----------------------------
(***************************************************************************)
(* Epochs as the validator pallet keeps them: who the authorities of each  *)
(* epoch are, which epochs are still active, the bond that they put on     *)
(* every account, and who may become or cease to be a validator meanwhile. *)
(* How a rotation finds its authorities is ValidatorRotation.              *)
(***************************************************************************)
EXTENDS Integers, FiniteSets, FiniteSetsExt

CONSTANTS
  Accounts,
  Genesis,                     \* the authorities of the first epoch
  Bonds,                       \* the bonds an auction may result in
  Durations,                   \* the values governance may give to BlocksPerEpoch
  RedemptionPeriod,            \* RedemptionPeriodAsPercentage
  LastEpoch,                   \* bound: the last epoch of the model
  MaxDuration                  \* bound on Durations

ASSUME EpochAssumptions ==
  /\ Genesis \subseteq Accounts /\ Genesis # {}
  /\ Bonds \subseteq Nat /\ Bonds # {}
  /\ MaxDuration \in Nat /\ Durations \subseteq 1..MaxDuration /\ Durations # {}
  /\ RedemptionPeriod \in 0..100
  /\ LastEpoch \in Nat \ {0}

EpochIndex == 1..LastEpoch
NoEpoch == 0

VARIABLES
  CurrentEpoch,
  LastExpiredEpoch,
  BlocksPerEpoch,
  epoch_age,                   \* blocks since CurrentEpochStartedAt
  EpochExpiries,               \* the epoch that expires in so many blocks
  HistoricalAuthorities,
  HistoricalBonds,
  HistoricalActiveEpochs,
  ActiveBidder,
  validators,                  \* the accounts with the role of a validator
  bond,                        \* what the bonder locks of each account
  rotation,                    \* the authorities and bond of the next epoch, if rotating
  expired,                     \* history: the epochs that expired
  shortened                    \* history: whether BlocksPerEpoch was ever lowered

epochStorage == <<CurrentEpoch, LastExpiredEpoch, EpochExpiries, HistoricalAuthorities,
            HistoricalBonds, HistoricalActiveEpochs, bond, expired>>
durations == <<BlocksPerEpoch, shortened>>
historyVars == <<epochStorage, durations, epoch_age, ActiveBidder, validators, rotation>>

NotRotating == [authorities |-> {}, bond |-> 0]

EpochInit ==
  /\ CurrentEpoch = 1 /\ LastExpiredEpoch = 0 /\ expired = {} /\ shortened = FALSE
  /\ BlocksPerEpoch \in Durations
  /\ epoch_age = 0
  /\ EpochExpiries = [i \in 1..MaxDuration |-> NoEpoch]
  /\ HistoricalAuthorities = [e \in EpochIndex |-> IF e = 1 THEN Genesis ELSE {}]
  /\ \E b \in Bonds :
       /\ HistoricalBonds = [e \in EpochIndex |-> IF e = 1 THEN b ELSE 0]
       /\ bond = [a \in Accounts |-> IF a \in Genesis THEN b ELSE 0]
  /\ HistoricalActiveEpochs = [a \in Accounts |-> IF a \in Genesis THEN {1} ELSE {}]
  /\ ActiveBidder = Genesis /\ validators = Genesis
  /\ rotation = NotRotating

-----------------------------------------------------------------------------
(* Blocks.                                                                 *)

active_bond(active, bonds) == Max({bonds[e] : e \in active} \cup {0})

SetLastExpired(e) == LastExpiredEpoch' = e

\* An epoch expires: it no longer counts for the bonds of its authorities.
expire_epoch(e) ==
  LET authorities == HistoricalAuthorities[e]
      active == [a \in Accounts |-> IF a \in authorities
                                    THEN HistoricalActiveEpochs[a] \ {e}
                                    ELSE HistoricalActiveEpochs[a]]
  IN /\ SetLastExpired(e)
     /\ expired' = expired \cup {e}
     /\ HistoricalActiveEpochs' = active
     /\ bond' = [a \in Accounts |-> IF a \in authorities
                                    THEN active_bond(active[a], HistoricalBonds)
                                    ELSE bond[a]]

on_initialize ==
  /\ epoch_age' = Min({epoch_age + 1, MaxDuration})
  /\ EpochExpiries' = [i \in 1..MaxDuration |->
                         IF i < MaxDuration THEN EpochExpiries[i + 1] ELSE NoEpoch]
  /\ IF EpochExpiries[1] = NoEpoch
     THEN UNCHANGED <<LastExpiredEpoch, expired, HistoricalActiveEpochs, bond>>
     ELSE expire_epoch(EpochExpiries[1])
  /\ UNCHANGED <<CurrentEpoch, HistoricalAuthorities, HistoricalBonds, durations,
                 ActiveBidder, validators, rotation>>

\* The epoch that ends now expires as many blocks later as an epoch has.
ScheduledExpiries == [EpochExpiries EXCEPT ![BlocksPerEpoch] = CurrentEpoch]

\* The session pallet starts the epoch of the new authorities, at the end of a block's
\* initialization.  A rotation takes several blocks.
transition_to_next_epoch ==
  LET new == CurrentEpoch + 1
      bonds == [HistoricalBonds EXCEPT ![new] = rotation.bond]
      active == [a \in Accounts |-> IF a \in rotation.authorities
                                    THEN HistoricalActiveEpochs[a] \cup {new}
                                    ELSE HistoricalActiveEpochs[a]]
  IN /\ rotation # NotRotating
     /\ epoch_age > 0
     /\ CurrentEpoch' = new
     /\ EpochExpiries' = ScheduledExpiries
     /\ HistoricalAuthorities' = [HistoricalAuthorities EXCEPT ![new] = rotation.authorities]
     /\ HistoricalBonds' = bonds
     /\ HistoricalActiveEpochs' = active
     /\ bond' = [a \in Accounts |-> IF a \in rotation.authorities
                                    THEN active_bond(active[a], bonds) ELSE bond[a]]
     /\ epoch_age' = 0
     /\ rotation' = NotRotating
     /\ UNCHANGED <<LastExpiredEpoch, expired, durations, ActiveBidder, validators>>

-----------------------------------------------------------------------------
(* Rotations and calls.                                                    *)

\* The auction picks authorities among the bidders; they become the authorities unless
\* the rotation is aborted.  (A rotation does not start in the last epoch of the model.)
start_authority_rotation ==
  /\ rotation = NotRotating /\ CurrentEpoch < LastEpoch
  /\ \E authorities \in SUBSET ActiveBidder \ {{}}, b \in Bonds :
       rotation' = [authorities |-> authorities, bond |-> b]
  /\ UNCHANGED <<epochStorage, durations, epoch_age, ActiveBidder, validators>>

abort_rotation ==
  /\ rotation' = NotRotating
  /\ UNCHANGED <<epochStorage, durations, epoch_age, ActiveBidder, validators>>

is_auction_phase ==
  \/ rotation # NotRotating
  \/ epoch_age >= (RedemptionPeriod * BlocksPerEpoch + 49) \div 100

\* Governance sets any duration but zero, longer or shorter than the one before.
update_epoch_duration ==
  /\ \E blocks \in Durations :
       /\ BlocksPerEpoch' = blocks
       /\ shortened' = (shortened \/ blocks < BlocksPerEpoch)
  /\ UNCHANGED <<epochStorage, epoch_age, ActiveBidder, validators, rotation>>

register_as_validator(a) ==
  /\ a \notin validators
  /\ validators' = validators \cup {a}
  /\ UNCHANGED <<epochStorage, durations, epoch_age, ActiveBidder, rotation>>

still_current_key_holder(a) == a \in HistoricalAuthorities[CurrentEpoch] \* faulty variant
still_key_holder(a) ==
  \E e \in LastExpiredEpoch..CurrentEpoch : e # 0 /\ a \in HistoricalAuthorities[e]

deregister_as_validator(a) ==
  /\ a \in validators
  /\ a \notin ActiveBidder
  /\ ~still_key_holder(a)
  /\ validators' = validators \ {a}
  /\ UNCHANGED <<epochStorage, durations, epoch_age, ActiveBidder, rotation>>

start_bidding(a) ==
  /\ a \in validators \ ActiveBidder
  /\ ActiveBidder' = ActiveBidder \cup {a}
  /\ UNCHANGED <<epochStorage, durations, epoch_age, validators, rotation>>

stop_bidding(a) ==
  /\ a \in validators \cap ActiveBidder
  /\ ~is_auction_phase
  /\ ActiveBidder' = ActiveBidder \ {a}
  /\ UNCHANGED <<epochStorage, durations, epoch_age, validators, rotation>>

EpochNext ==
  \/ on_initialize
  \/ transition_to_next_epoch
  \/ start_authority_rotation
  \/ abort_rotation
  \/ update_epoch_duration
  \/ \E a \in Accounts :
       \/ register_as_validator(a) \/ deregister_as_validator(a)
       \/ start_bidding(a) \/ stop_bidding(a)

EpochSpec == EpochInit /\ [][EpochNext]_historyVars

-----------------------------------------------------------------------------
(* Properties.                                                             *)

\* Every storage item holds what its type allows, and the epoch that expires next is
\* one that is over.
EpochTypeOK ==
  /\ CurrentEpoch \in EpochIndex /\ LastExpiredEpoch \in 0..(CurrentEpoch - 1)
  /\ BlocksPerEpoch \in Durations /\ epoch_age \in 0..MaxDuration
  /\ EpochExpiries \in [1..MaxDuration -> 0..(CurrentEpoch - 1)]
  /\ HistoricalAuthorities \in [EpochIndex -> SUBSET Accounts]
  /\ HistoricalBonds \in [EpochIndex -> Bonds \cup {0}]
  /\ HistoricalActiveEpochs \in [Accounts -> SUBSET (1..CurrentEpoch)]
  /\ ActiveBidder \subseteq Accounts /\ validators \subseteq Accounts
  /\ bond \in [Accounts -> Bonds \cup {0}]
  /\ rotation \in [authorities : SUBSET Accounts, bond : Bonds \cup {0}]
  /\ expired \subseteq EpochIndex

Unexpired == 1..CurrentEpoch \ expired

\* Epochs expire one after the other, each of them once, and never the current one, as
\* long as governance has not made epochs shorter.  A shorter epoch may be due before
\* the one that it follows, or in the same block, which replaces the entry of that one.
EpochsExpireInOrder == ~shortened => expired = 1..LastExpiredEpoch

\* An account is bonded by the highest bond of the epochs in which it is an authority
\* and that have not expired, and by nothing when there is none.
BondCoversActiveEpochs ==
  \A a \in Accounts :
    bond[a] = Max({HistoricalBonds[e] : e \in {f \in Unexpired :
                                                 a \in HistoricalAuthorities[f]}} \cup {0})

\* A later epoch has expired already.
Overtaken(e) == \E f \in expired : f > e

\* Whoever holds a share of a key that is still in use, or is about to receive one, is
\* a validator: nobody deregisters between the auction and the expiry of the epoch.
\* What deregister_as_validator looks at begins with the epoch that expired last, so an
\* epoch that a later one overtook, which needs a shorter duration, is left out here.
KeyHoldersAreValidators ==
  /\ \A e \in Unexpired : ~Overtaken(e) => HistoricalAuthorities[e] \subseteq validators
  /\ rotation.authorities \subseteq validators

\* However governance changes the duration of epochs, bonds follow the epochs that have
\* not expired, and key holders stay validators until their epoch, or a later one, has
\* expired; epochs expire in order while no duration is made shorter.
EpochsAreAccountedFor ==
  EpochTypeOK /\ EpochsExpireInOrder /\ BondCoversActiveEpochs /\ KeyHoldersAreValidators

\* "Validators cannot deregister until they are no longer key holders": the authorities
\* of every epoch that has not expired are validators, overtaken or not.  It does
\* not hold: an epoch that a later one overtook has not expired, and its authorities
\* are no longer looked for.
StillKeyHolder == \A e \in Unexpired : HistoricalAuthorities[e] \subseteq validators

=============================================================================
