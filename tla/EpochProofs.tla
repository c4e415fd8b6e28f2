---------------------------- MODULE EpochProofs ----------------------------
(***************************************************************************)
(* Proofs about EpochHistory, for every set of accounts, of bonds and of   *)
(* epoch durations.                                                        *)
(***************************************************************************)
EXTENDS EpochHistory, TLAPS

\* The lesser of two numbers.
LEMMA MinOfTwo ==
  ASSUME NEW a \in Nat, NEW b \in Nat
  PROVE  Min({a, b}) \in Nat /\ Min({a, b}) <= a /\ Min({a, b}) <= b
<1>1. \E m \in {a, b} : \A y \in {a, b} : m <= y
  OBVIOUS
<1>2. Min({a, b}) \in {a, b} /\ \A y \in {a, b} : Min({a, b}) <= y
  BY <1>1 DEF Min
<1> QED BY <1>2

\* The bond that a set of epochs puts on an account is one of their bonds, or zero: a
\* finite set of bonds has a highest one (proved in the last part, ActiveBondType).
BondIsOneOfTheirs ==
  \A n \in Nat : \A active \in SUBSET (1..n), bonds \in [1..n -> Bonds \cup {0}] :
    active_bond(active, bonds) \in Bonds \cup {0}

-----------------------------------------------------------------------------
(* Bonds: whatever governance does to the duration of an epoch.            *)

\* Of every account, the storage map HistoricalActiveEpochs holds the epochs in which
\* it is an authority and that have not expired, and the bond is the highest of theirs.
\* The rest is what on_initialize and the session pallet's calls need: an epoch that
\* expired is over, and a rotation leads to an epoch that is still to come.
BondInv ==
  /\ EpochTypeOK
  /\ expired \subseteq 1..(CurrentEpoch - 1)
  /\ rotation # NotRotating => CurrentEpoch < LastEpoch
  /\ \A a \in Accounts :
       /\ HistoricalActiveEpochs[a] = {e \in Unexpired : a \in HistoricalAuthorities[e]}
       /\ bond[a] = active_bond(HistoricalActiveEpochs[a], HistoricalBonds)

LEMMA BondInit == EpochInit => BondInv
<1> SUFFICES ASSUME EpochInit PROVE BondInv
  OBVIOUS
<1> USE EpochAssumptions DEF EpochInit
<1>0. PICK b \in Bonds :
        /\ HistoricalBonds = [e \in EpochIndex |-> IF e = 1 THEN b ELSE 0]
        /\ bond = [a \in Accounts |-> IF a \in Genesis THEN b ELSE 0]
  OBVIOUS
<1>1. EpochTypeOK
  BY <1>0 DEF EpochTypeOK, EpochIndex, NoEpoch, NotRotating
<1>2. Unexpired = {1}
  BY DEF Unexpired
<1>3. ASSUME NEW a \in Accounts
      PROVE  /\ HistoricalActiveEpochs[a] = {e \in Unexpired : a \in HistoricalAuthorities[e]}
             /\ bond[a] = active_bond(HistoricalActiveEpochs[a], HistoricalBonds)
  <2>1. CASE a \in Genesis
    <3>1. HistoricalActiveEpochs[a] = {1} /\ HistoricalAuthorities[1] = Genesis
      BY <2>1 DEF EpochIndex
    <3>2. {HistoricalBonds[e] : e \in {1}} \cup {0} = {b, 0} /\ bond[a] = b /\ b \in Nat
      BY <1>0, <2>1 DEF EpochIndex
    <3>3. Max({b, 0}) = b
      BY <3>2 DEF Max
    <3> QED BY Zenon, <1>2, <2>1, <3>1, <3>2, <3>3 DEF active_bond
  <2>2. CASE a \notin Genesis
    <3>1. HistoricalActiveEpochs[a] = {} /\ HistoricalAuthorities[1] = Genesis
      BY <2>2 DEF EpochIndex
    <3>2. {HistoricalBonds[e] : e \in {}} \cup {0} = {0} /\ bond[a] = 0
      BY <1>0, <2>2
    <3>3. Max({0}) = 0
      BY DEF Max
    <3> QED BY Zenon, <1>2, <2>2, <3>1, <3>2, <3>3 DEF active_bond
  <2> QED BY Zenon, <2>1, <2>2
<1> QED BY <1>1, <1>3 DEF BondInv

\* The calls that leave the epochs alone keep the invariant.
LEMMA BondCalls ==
  ASSUME BondInv, UNCHANGED epochStorage,
         BlocksPerEpoch' \in Durations, epoch_age' \in 0..MaxDuration,
         ActiveBidder' \subseteq Accounts, validators' \subseteq Accounts,
         rotation' \in [authorities : SUBSET Accounts, bond : Bonds \cup {0}],
         rotation' # NotRotating => CurrentEpoch < LastEpoch
  PROVE  BondInv'
<1>1. EpochTypeOK'
  BY DEF BondInv, EpochTypeOK, epochStorage
<1> QED BY <1>1 DEF BondInv, epochStorage, Unexpired, active_bond, NotRotating

\* on_initialize: an epoch that expires stops counting for its authorities.
LEMMA BondBlock ==
  ASSUME BondIsOneOfTheirs, BondInv, on_initialize
  PROVE  BondInv'
<1> USE EpochAssumptions DEF BondInv
<1> DEFINE e == EpochExpiries[1]
<1>0. /\ UNCHANGED <<CurrentEpoch, HistoricalAuthorities, HistoricalBonds, BlocksPerEpoch,
                     ActiveBidder, validators, rotation>>
      /\ NotRotating' = NotRotating
  BY DEF on_initialize, NotRotating, durations
<1>1. MaxDuration \in Nat \ {0} /\ e \in 0..(CurrentEpoch - 1) /\ CurrentEpoch \in 1..LastEpoch
  BY DEF EpochTypeOK, EpochIndex
<1>2. epoch_age' \in 0..MaxDuration
  <2>1. epoch_age + 1 \in Nat
    BY DEF EpochTypeOK
  <2> QED BY <1>1, <2>1, MinOfTwo DEF on_initialize
<1>3. EpochExpiries' \in [1..MaxDuration -> 0..(CurrentEpoch - 1)]
  BY <1>1 DEF on_initialize, NoEpoch, EpochTypeOK
<1>4. CASE e = NoEpoch
  <2>1. UNCHANGED <<LastExpiredEpoch, expired, HistoricalActiveEpochs, bond>>
    BY <1>4 DEF on_initialize
  <2>2. EpochTypeOK'
    BY Zenon, <1>0, <1>2, <1>3, <2>1 DEF EpochTypeOK
  <2> QED BY <1>0, <2>1, <2>2 DEF Unexpired, active_bond
<1>5. CASE e # NoEpoch
  <2> DEFINE authorities == HistoricalAuthorities[e]
             active == [a \in Accounts |-> IF a \in authorities
                                           THEN HistoricalActiveEpochs[a] \ {e}
                                           ELSE HistoricalActiveEpochs[a]]
  <2>1. expire_epoch(e)
    BY <1>5 DEF on_initialize
  <2>2. /\ LastExpiredEpoch' = e
        /\ expired' = expired \cup {e}
        /\ HistoricalActiveEpochs' = active
        /\ bond' = [a \in Accounts |-> IF a \in authorities
                                       THEN active_bond(active[a], HistoricalBonds)
                                       ELSE bond[a]]
    BY <2>1, Zenon DEF expire_epoch, SetLastExpired
  <2>3. e \in 1..(CurrentEpoch - 1)
    BY <1>1, <1>5 DEF NoEpoch
  <2>4. active \in [Accounts -> SUBSET (1..CurrentEpoch)]
    BY DEF EpochTypeOK
  <2>5. \A a \in Accounts : active_bond(active[a], HistoricalBonds) \in Bonds \cup {0}
    <3> TAKE a \in Accounts
    <3>1. active[a] \in SUBSET (1..LastEpoch) /\ LastEpoch \in Nat
      BY <1>1, <2>4
    <3>2. HistoricalBonds \in [1..LastEpoch -> Bonds \cup {0}]
      BY DEF EpochTypeOK, EpochIndex
    <3> HIDE DEF active
    <3> QED BY <3>1, <3>2 DEF BondIsOneOfTheirs
  <2>6. EpochTypeOK'
    <3> HIDE DEF active, authorities, e
    <3>1. bond' \in [Accounts -> Bonds \cup {0}]
      BY <2>2, <2>5 DEF EpochTypeOK
    <3>2. expired' \subseteq EpochIndex
      <4>1. expired \subseteq 1..LastEpoch /\ e \in 1..LastEpoch
        BY <1>1, <2>3 DEF EpochTypeOK, EpochIndex
      <4> QED BY Zenon, <2>2, <4>1 DEF EpochIndex
    <3>3. CurrentEpoch' \in EpochIndex /\ LastExpiredEpoch' \in 0..(CurrentEpoch' - 1)
      BY <1>0, <2>2, <2>3 DEF EpochTypeOK
    <3>4. HistoricalActiveEpochs' \in [Accounts -> SUBSET (1..CurrentEpoch')]
      BY <1>0, <2>2, <2>4
    <3> QED BY Zenon, <1>0, <1>2, <1>3, <3>1, <3>2, <3>3, <3>4 DEF EpochTypeOK
  <2>7. Unexpired' = Unexpired \ {e}
    BY <1>0, <2>2 DEF Unexpired
  <2>8. ASSUME NEW a \in Accounts
        PROVE  /\ HistoricalActiveEpochs'[a] = {f \in Unexpired' : a \in HistoricalAuthorities'[f]}
               /\ bond'[a] = active_bond(HistoricalActiveEpochs'[a], HistoricalBonds')
    <3>1. HistoricalActiveEpochs[a] = {f \in Unexpired : a \in HistoricalAuthorities[f]}
      OBVIOUS
    <3>2. active[a] = {f \in Unexpired \ {e} : a \in HistoricalAuthorities[f]}
      BY <3>1
    <3>3. bond[a] = active_bond(HistoricalActiveEpochs[a], HistoricalBonds)
      OBVIOUS
    <3>4. bond'[a] = active_bond(active[a], HistoricalBonds)
      BY <2>2, <3>3
    <3> QED BY <1>0, <2>2, <2>7, <3>2, <3>4
  <2> QED BY Zenon, <1>0, <2>2, <2>3, <2>6, <2>8
<1> QED BY <1>4, <1>5

\* transition_to_next_epoch: the new epoch counts for its authorities, at its own bond.
LEMMA BondTransition ==
  ASSUME BondIsOneOfTheirs, BondInv, transition_to_next_epoch
  PROVE  BondInv'
<1> USE EpochAssumptions DEF BondInv
<1> DEFINE new == CurrentEpoch + 1
           bonds == [HistoricalBonds EXCEPT ![new] = rotation.bond]
           active == [a \in Accounts |-> IF a \in rotation.authorities
                                         THEN HistoricalActiveEpochs[a] \cup {new}
                                         ELSE HistoricalActiveEpochs[a]]
<1>1. /\ rotation # NotRotating /\ rotation' = NotRotating
      /\ CurrentEpoch' = new /\ epoch_age' = 0
      /\ EpochExpiries' = [EpochExpiries EXCEPT ![BlocksPerEpoch] = CurrentEpoch]
      /\ HistoricalAuthorities' = [HistoricalAuthorities EXCEPT ![new] = rotation.authorities]
      /\ HistoricalBonds' = bonds /\ HistoricalActiveEpochs' = active
      /\ bond' = [a \in Accounts |-> IF a \in rotation.authorities
                                     THEN active_bond(active[a], bonds) ELSE bond[a]]
      /\ UNCHANGED <<LastExpiredEpoch, expired, BlocksPerEpoch, ActiveBidder, validators>>
  BY Zenon DEF transition_to_next_epoch, ScheduledExpiries, durations
<1>2. /\ CurrentEpoch \in 1..(LastEpoch - 1) /\ LastEpoch \in Nat
      /\ BlocksPerEpoch \in 1..MaxDuration
  BY <1>1 DEF EpochTypeOK, EpochIndex
<1>3. rotation.authorities \in SUBSET Accounts /\ rotation.bond \in Bonds \cup {0}
  BY DEF EpochTypeOK
<1>4. active \in [Accounts -> SUBSET (1..new)] /\ bonds \in [1..LastEpoch -> Bonds \cup {0}]
  BY <1>2, <1>3 DEF EpochTypeOK, EpochIndex
<1>5. \A a \in Accounts : active_bond(active[a], bonds) \in Bonds \cup {0}
  <2> SUFFICES ASSUME NEW a \in Accounts
               PROVE  active_bond(active[a], bonds) \in Bonds \cup {0}
    BY Zenon
  <2>1. active[a] \in SUBSET (1..LastEpoch)
    BY <1>2, <1>4
  <2> HIDE DEF active, bonds
  <2> QED BY <1>2, <1>4, <2>1 DEF BondIsOneOfTheirs
<1>6. EpochTypeOK'
  <2> HIDE DEF active, bonds
  <2>1. bond' \in [Accounts -> Bonds \cup {0}]
    BY <1>1, <1>5 DEF EpochTypeOK
  <2>2. EpochExpiries' \in [1..MaxDuration -> 0..(CurrentEpoch' - 1)]
    BY <1>1, <1>2 DEF EpochTypeOK
  <2>3. HistoricalAuthorities' \in [EpochIndex -> SUBSET Accounts]
    BY <1>1, <1>2, <1>3 DEF EpochTypeOK, EpochIndex
  <2>4. rotation' \in [authorities : SUBSET Accounts, bond : Bonds \cup {0}]
    BY <1>1 DEF NotRotating
  <2>5. LastExpiredEpoch' \in 0..(CurrentEpoch' - 1) /\ CurrentEpoch' \in EpochIndex
    BY <1>1, <1>2 DEF EpochTypeOK, EpochIndex
  <2> QED BY <1>1, <1>4, <2>1, <2>2, <2>3, <2>4, <2>5 DEF EpochTypeOK, EpochIndex
<1>7. new \notin Unexpired /\ Unexpired' = Unexpired \cup {new}
  BY <1>1, <1>2 DEF Unexpired
<1>8. expired' \subseteq 1..(CurrentEpoch' - 1)
  BY <1>1, <1>2
<1>9. ASSUME NEW a \in Accounts
      PROVE  /\ HistoricalActiveEpochs'[a] = {f \in Unexpired' : a \in HistoricalAuthorities'[f]}
             /\ bond'[a] = active_bond(HistoricalActiveEpochs'[a], HistoricalBonds')
  <2>1. Unexpired \subseteq 1..CurrentEpoch /\ new \in EpochIndex
    BY <1>2 DEF Unexpired, EpochIndex
  <2>2. /\ HistoricalAuthorities'[new] = rotation.authorities
        /\ \A f \in Unexpired : HistoricalAuthorities'[f] = HistoricalAuthorities[f]
    BY <1>1, <1>2, <2>1 DEF EpochTypeOK, EpochIndex
  <2>3. active[a] = {f \in Unexpired' : a \in HistoricalAuthorities'[f]}
    BY <1>7, <2>2
  <2>4. a \notin rotation.authorities =>
          active_bond(active[a], bonds) = active_bond(HistoricalActiveEpochs[a], HistoricalBonds)
    <3> SUFFICES ASSUME a \notin rotation.authorities
                 PROVE  active_bond(active[a], bonds)
                          = active_bond(HistoricalActiveEpochs[a], HistoricalBonds)
      OBVIOUS
    <3>1. active[a] = HistoricalActiveEpochs[a]
      OBVIOUS
    <3>2. \A f \in HistoricalActiveEpochs[a] : bonds[f] = HistoricalBonds[f]
      BY <1>2, <2>1 DEF EpochTypeOK, EpochIndex
    <3> HIDE DEF bonds, active
    <3>3. {bonds[f] : f \in HistoricalActiveEpochs[a]}
            = {HistoricalBonds[f] : f \in HistoricalActiveEpochs[a]}
      BY <3>2
    <3> QED BY <3>1, <3>3 DEF active_bond
  <2> HIDE DEF active, bonds
  <2>5. bond'[a] = active_bond(active[a], bonds)
    BY <1>1, <2>4
  <2> QED BY <1>1, <2>3, <2>5
<1> QED BY Zenon, <1>1, <1>6, <1>8, <1>9 DEF NotRotating

LEMMA BondStep ==
  ASSUME BondIsOneOfTheirs, BondInv, [EpochNext]_historyVars
  PROVE  BondInv'
<1>1. CASE on_initialize
  BY <1>1, BondBlock
<1>2. CASE transition_to_next_epoch
  BY <1>2, BondTransition
<1>3. CASE start_authority_rotation
  <2>1. rotation' \in [authorities : SUBSET Accounts, bond : Bonds \cup {0}]
    BY <1>3 DEF start_authority_rotation, BondInv, EpochTypeOK
  <2> QED BY <1>3, <2>1, BondCalls DEF start_authority_rotation, BondInv, EpochTypeOK, durations
<1>4. CASE abort_rotation
  BY <1>4, BondCalls DEF abort_rotation, BondInv, EpochTypeOK, NotRotating, durations
<1>5. CASE update_epoch_duration
  BY <1>5, BondCalls DEF update_epoch_duration, BondInv, EpochTypeOK
<1>6. ASSUME NEW a \in Accounts,
             \/ register_as_validator(a) \/ deregister_as_validator(a)
             \/ start_bidding(a) \/ stop_bidding(a)
      PROVE  BondInv'
  <2>1. /\ ActiveBidder' \subseteq Accounts /\ validators' \subseteq Accounts
        /\ UNCHANGED <<epochStorage, durations, epoch_age, rotation>>
    BY <1>6 DEF BondInv, EpochTypeOK, register_as_validator, deregister_as_validator,
                start_bidding, stop_bidding
  <2> QED BY <2>1, BondCalls DEF BondInv, EpochTypeOK, durations
<1>7. CASE UNCHANGED historyVars
  BY <1>7, BondCalls DEF historyVars, durations, BondInv, EpochTypeOK
<1> QED BY <1>1, <1>2, <1>3, <1>4, <1>5, <1>6, <1>7 DEF EpochNext

-----------------------------------------------------------------------------
(* Expiry: as long as governance has not made epochs shorter.              *)

\* The epochs that are over and did not expire wait in EpochExpiries, the older before
\* the younger.  None waits longer than an epoch takes from the last transition, so
\* that the next one is put behind them all.
ExpiryInv ==
  /\ expired = 1..LastExpiredEpoch
  /\ \A i \in 1..MaxDuration : EpochExpiries[i] # NoEpoch =>
       /\ EpochExpiries[i] > LastExpiredEpoch
       /\ i + epoch_age <= BlocksPerEpoch
  /\ \A i, j \in 1..MaxDuration :
       i < j /\ EpochExpiries[i] # NoEpoch /\ EpochExpiries[j] # NoEpoch
         => EpochExpiries[i] < EpochExpiries[j]
  /\ \A e \in (LastExpiredEpoch + 1)..(CurrentEpoch - 1) :
       \E i \in 1..MaxDuration : EpochExpiries[i] = e

LEMMA ExpiryInit == EpochInit => ExpiryInv
<1> SUFFICES ASSUME EpochInit PROVE ExpiryInv
  OBVIOUS
<1>1. /\ \A i \in 1..MaxDuration : EpochExpiries[i] = NoEpoch
      /\ LastExpiredEpoch = 0 /\ CurrentEpoch = 1 /\ expired = {}
  BY DEF EpochInit
<1>2. 1..LastExpiredEpoch = {} /\ (LastExpiredEpoch + 1)..(CurrentEpoch - 1) = {}
  BY <1>1
<1> QED BY <1>1, <1>2 DEF ExpiryInv

\* on_initialize: the epoch that expires is the one after the last that expired.
LEMMA ExpiryBlock == BondInv /\ ExpiryInv /\ on_initialize => ExpiryInv'
<1> SUFFICES ASSUME BondInv, ExpiryInv, on_initialize PROVE ExpiryInv'
  OBVIOUS
<1> DEFINE E == EpochExpiries
<1>1. /\ MaxDuration \in Nat \ {0} /\ E \in [1..MaxDuration -> Nat]
      /\ CurrentEpoch \in Nat \ {0} /\ LastExpiredEpoch \in Nat /\ epoch_age \in Nat
      /\ BlocksPerEpoch \in 1..MaxDuration
      /\ \A i \in 1..MaxDuration : E[i] <= CurrentEpoch - 1
  BY EpochAssumptions DEF BondInv, EpochTypeOK, EpochIndex
<1>2. /\ UNCHANGED <<CurrentEpoch, BlocksPerEpoch>>
      /\ E' = [i \in 1..MaxDuration |-> IF i < MaxDuration THEN E[i + 1] ELSE NoEpoch]
      /\ NoEpoch = 0
  BY DEF on_initialize, NoEpoch, durations
<1>3. epoch_age' \in Nat /\ epoch_age' <= epoch_age + 1
  <2>1. epoch_age + 1 \in Nat
    BY <1>1
  <2> QED BY <1>1, <2>1, MinOfTwo DEF on_initialize
<1>4. \A i \in 1..MaxDuration : E'[i] # NoEpoch => i + 1 \in 1..MaxDuration /\ E'[i] = E[i + 1]
  BY <1>1, <1>2
<1>5. \A i \in 1..MaxDuration : E'[i] # NoEpoch => i + epoch_age' <= BlocksPerEpoch'
  <2> TAKE i \in 1..MaxDuration
  <2> HAVE E'[i] # NoEpoch
  <2>1. (i + 1) + epoch_age <= BlocksPerEpoch
    BY <1>4 DEF ExpiryInv
  <2>2. BlocksPerEpoch' = BlocksPerEpoch
    BY <1>2
  <2>3. i \in Nat /\ epoch_age \in Nat /\ BlocksPerEpoch \in Nat
    BY <1>1
  <2>4. \A k, m, n, d \in Nat : (k + 1) + m <= d /\ n <= m + 1 => k + n <= d
    OBVIOUS
  <2>5. i + epoch_age' <= BlocksPerEpoch
    BY Zenon, <1>3, <2>1, <2>3, <2>4
  <2> QED BY <2>2, <2>5
<1>6. \A i, j \in 1..MaxDuration :
        i < j /\ E'[i] # NoEpoch /\ E'[j] # NoEpoch => E'[i] < E'[j]
  <2> SUFFICES ASSUME NEW i \in 1..MaxDuration, NEW j \in 1..MaxDuration,
                      i < j, E'[i] # NoEpoch, E'[j] # NoEpoch
               PROVE  E'[i] < E'[j]
    OBVIOUS
  <2>1. i + 1 < j + 1
    OBVIOUS
  <2> QED BY <1>4, <2>1 DEF ExpiryInv
<1>7. CASE E[1] = NoEpoch
  <2>1. UNCHANGED <<LastExpiredEpoch, expired>>
    BY <1>7 DEF on_initialize
  <2>2. \A e \in (LastExpiredEpoch + 1)..(CurrentEpoch - 1) :
          \E i \in 1..MaxDuration : E'[i] = e
    <3> TAKE e \in (LastExpiredEpoch + 1)..(CurrentEpoch - 1)
    <3>1. PICK i \in 1..MaxDuration : E[i] = e
      BY DEF ExpiryInv
    <3>2. i # 1 /\ i - 1 \in 1..MaxDuration /\ i - 1 < MaxDuration /\ (i - 1) + 1 = i
      BY <1>1, <1>2, <1>7, <3>1
    <3> QED BY <1>2, <3>1, <3>2
  <2>3. \A i \in 1..MaxDuration : E'[i] # NoEpoch => E'[i] > LastExpiredEpoch
    BY <1>4 DEF ExpiryInv
  <2> QED BY <1>2, <1>5, <1>6, <2>1, <2>2, <2>3 DEF ExpiryInv
<1>8. CASE E[1] # NoEpoch
  <2>1. LastExpiredEpoch' = E[1] /\ expired' = expired \cup {E[1]}
    BY <1>8 DEF on_initialize, expire_epoch, SetLastExpired
  <2>2. E[1] = LastExpiredEpoch + 1
    <3>1. 1 \in 1..MaxDuration /\ E[1] > LastExpiredEpoch /\ E[1] <= CurrentEpoch - 1
      BY <1>1, <1>8 DEF ExpiryInv
    <3>2. LastExpiredEpoch + 1 \in (LastExpiredEpoch + 1)..(CurrentEpoch - 1)
      BY <1>1, <3>1
    <3>3. PICK j \in 1..MaxDuration : E[j] = LastExpiredEpoch + 1
      BY <3>2 DEF ExpiryInv
    <3>4. CASE j = 1
      BY <3>3, <3>4
    <3>5. CASE j # 1
      <4>1. 1 < j /\ E[j] # NoEpoch
        BY <1>1, <1>2, <3>3, <3>5
      <4>2. E[1] < E[j]
        BY <1>8, <3>1, <4>1 DEF ExpiryInv
      <4> HIDE DEF E
      <4> QED BY <1>1, <3>1, <3>3, <4>2
    <3> QED BY <3>4, <3>5
  <2>3. expired' = 1..LastExpiredEpoch'
    BY <1>1, <2>1, <2>2 DEF ExpiryInv
  <2>4. \A e \in (LastExpiredEpoch' + 1)..(CurrentEpoch - 1) :
          \E i \in 1..MaxDuration : E'[i] = e
    <3> TAKE e \in (LastExpiredEpoch' + 1)..(CurrentEpoch - 1)
    <3>1. e \in (LastExpiredEpoch + 1)..(CurrentEpoch - 1) /\ e # E[1]
      BY <1>1, <2>1, <2>2
    <3>2. PICK i \in 1..MaxDuration : E[i] = e
      BY <3>1 DEF ExpiryInv
    <3>3. i # 1 /\ i - 1 \in 1..MaxDuration /\ i - 1 < MaxDuration /\ (i - 1) + 1 = i
      BY <1>1, <3>1, <3>2
    <3> QED BY <1>2, <3>2, <3>3
  <2>5. \A i \in 1..MaxDuration : E'[i] # NoEpoch => E'[i] > LastExpiredEpoch'
    <3> SUFFICES ASSUME NEW i \in 1..MaxDuration, E'[i] # NoEpoch
                 PROVE  E'[i] > E[1]
      BY <2>1
    <3>1. i + 1 \in 1..MaxDuration /\ E'[i] = E[i + 1] /\ 1 \in 1..MaxDuration /\ 1 < i + 1
      BY <1>1, <1>4
    <3>2. E[1] < E[i + 1]
      BY <1>8, <3>1 DEF ExpiryInv
    <3> HIDE DEF E
    <3> QED BY <1>1, <3>1, <3>2
  <2> QED BY <1>2, <1>5, <1>6, <2>3, <2>4, <2>5 DEF ExpiryInv
<1> QED BY <1>7, <1>8

\* transition_to_next_epoch: the epoch that ends is put behind those that wait.
LEMMA ExpiryTransition == BondInv /\ ExpiryInv /\ transition_to_next_epoch => ExpiryInv'
<1> SUFFICES ASSUME BondInv, ExpiryInv, transition_to_next_epoch PROVE ExpiryInv'
  OBVIOUS
<1> DEFINE E == EpochExpiries
           B == BlocksPerEpoch
           new == CurrentEpoch + 1
<1>1. /\ MaxDuration \in Nat \ {0} /\ E \in [1..MaxDuration -> Nat]
      /\ CurrentEpoch \in 1..(LastEpoch - 1) /\ LastExpiredEpoch \in 0..(CurrentEpoch - 1)
      /\ epoch_age \in Nat \ {0} /\ B \in 1..MaxDuration /\ LastEpoch \in Nat
      /\ \A i \in 1..MaxDuration : E[i] <= CurrentEpoch - 1
  BY EpochAssumptions DEF BondInv, EpochTypeOK, EpochIndex, transition_to_next_epoch
<1>2. /\ CurrentEpoch' = new /\ epoch_age' = 0 /\ NoEpoch = 0
      /\ E' = [E EXCEPT ![B] = CurrentEpoch]
      /\ UNCHANGED <<LastExpiredEpoch, expired, BlocksPerEpoch>>
  BY Zenon DEF transition_to_next_epoch, ScheduledExpiries, NoEpoch, durations
<1>3. \A i \in 1..MaxDuration : E[i] # NoEpoch => i < B
  <2> TAKE i \in 1..MaxDuration
  <2> HAVE E[i] # NoEpoch
  <2>1. i + epoch_age <= B
    BY DEF ExpiryInv
  <2> HIDE DEF E
  <2> QED BY <1>1, <2>1
<1>4. E'[B] = CurrentEpoch /\ \A i \in 1..MaxDuration : i # B => E'[i] = E[i]
  BY <1>1, <1>2
<1>5. \A i \in 1..MaxDuration : E'[i] # NoEpoch =>
        /\ E'[i] > LastExpiredEpoch'
        /\ i + epoch_age' <= BlocksPerEpoch'
  <2> TAKE i \in 1..MaxDuration
  <2> HAVE E'[i] # NoEpoch
  <2>1. CASE i = B
    BY <1>1, <1>2, <1>4, <2>1
  <2>2. CASE i # B
    <3>1. E'[i] = E[i] /\ E[i] > LastExpiredEpoch /\ i < B
      BY <1>3, <1>4, <2>2 DEF ExpiryInv
    <3> QED BY <1>1, <1>2, <3>1
  <2> QED BY <2>1, <2>2
<1>6. \A i, j \in 1..MaxDuration :
        i < j /\ E'[i] # NoEpoch /\ E'[j] # NoEpoch => E'[i] < E'[j]
  <2> SUFFICES ASSUME NEW i \in 1..MaxDuration, NEW j \in 1..MaxDuration,
                      i < j, E'[i] # NoEpoch, E'[j] # NoEpoch
               PROVE  E'[i] < E'[j]
    OBVIOUS
  <2>1. CASE i # B /\ j # B
    BY <1>4, <2>1 DEF ExpiryInv
  <2>2. CASE i # B /\ j = B
    <3>1. E'[i] = E[i] /\ E[i] <= CurrentEpoch - 1 /\ E[i] \in Nat /\ E'[j] = CurrentEpoch
      BY <1>1, <1>4, <2>2
    <3> HIDE DEF E
    <3> QED BY <1>1, <3>1
  <2>3. CASE i = B /\ j # B
    <3>1. j < B
      BY <1>3, <1>4, <2>3
    <3> QED BY <1>1, <2>3, <3>1
  <2>4. CASE i = B /\ j = B
    BY <1>1, <2>4
  <2> QED BY <2>1, <2>2, <2>3, <2>4
<1>7. \A e \in (LastExpiredEpoch' + 1)..(CurrentEpoch' - 1) :
        \E i \in 1..MaxDuration : E'[i] = e
  <2> TAKE e \in (LastExpiredEpoch' + 1)..(CurrentEpoch' - 1)
  <2>1. CASE e = CurrentEpoch
    BY <1>1, <1>4, <2>1
  <2>2. CASE e # CurrentEpoch
    <3>1. e \in (LastExpiredEpoch + 1)..(CurrentEpoch - 1) /\ e # 0
      BY <1>1, <1>2, <2>2
    <3>2. PICK i \in 1..MaxDuration : E[i] = e
      BY <3>1 DEF ExpiryInv
    <3>3. i # B
      BY <1>1, <1>2, <1>3, <3>1, <3>2
    <3> QED BY <1>4, <3>2, <3>3
  <2> QED BY <2>1, <2>2
<1> QED BY <1>2, <1>5, <1>6, <1>7 DEF ExpiryInv

\* A call that leaves the epochs alone keeps their order if it makes epochs no shorter.
LEMMA ExpiryCalls ==
  ASSUME BondInv, ExpiryInv, UNCHANGED epochStorage, UNCHANGED epoch_age,
         BlocksPerEpoch' \in Nat, BlocksPerEpoch' >= BlocksPerEpoch
  PROVE  ExpiryInv'
<1>1. UNCHANGED <<CurrentEpoch, LastExpiredEpoch, EpochExpiries, expired, epoch_age>>
  BY DEF epochStorage
<1>2. \A i \in 1..MaxDuration : EpochExpiries[i] # NoEpoch =>
        i + epoch_age' <= BlocksPerEpoch'
  <2> TAKE i \in 1..MaxDuration
  <2> HAVE EpochExpiries[i] # NoEpoch
  <2>1. i + epoch_age <= BlocksPerEpoch
    BY DEF ExpiryInv
  <2>2. i \in Nat /\ epoch_age \in Nat /\ BlocksPerEpoch \in Nat
    BY EpochAssumptions DEF BondInv, EpochTypeOK
  <2> QED BY <1>1, <2>1, <2>2
<1> QED BY <1>1, <1>2 DEF ExpiryInv

\* Until governance makes epochs shorter, every step keeps their order.
OrderInv == ~shortened => ExpiryInv

LEMMA OrderStep ==
  ASSUME BondInv, OrderInv, [EpochNext]_historyVars
  PROVE  OrderInv'
<1> SUFFICES ASSUME ~shortened' PROVE ExpiryInv'
  BY DEF OrderInv
<1>0. BlocksPerEpoch \in Nat /\ Durations \subseteq Nat /\ BlocksPerEpoch >= BlocksPerEpoch
  BY EpochAssumptions DEF BondInv, EpochTypeOK
<1>1. CASE on_initialize
  BY <1>1, ExpiryBlock DEF OrderInv, on_initialize, durations
<1>2. CASE transition_to_next_epoch
  BY <1>2, ExpiryTransition DEF OrderInv, transition_to_next_epoch, durations
<1>3. CASE update_epoch_duration
  <2>1. PICK blocks \in Durations :
          BlocksPerEpoch' = blocks /\ shortened' = (shortened \/ blocks < BlocksPerEpoch)
    BY <1>3 DEF update_epoch_duration
  <2>2. ~shortened /\ ~(blocks < BlocksPerEpoch)
    BY Zenon, <2>1
  <2>3. BlocksPerEpoch' \in Nat /\ BlocksPerEpoch' >= BlocksPerEpoch
    BY <1>0, <2>1, <2>2
  <2> QED BY <1>3, <2>2, <2>3, ExpiryCalls DEF update_epoch_duration, OrderInv
<1>4. CASE UNCHANGED <<epochStorage, durations, epoch_age>>
  BY <1>0, <1>4, ExpiryCalls DEF OrderInv, durations
<1> QED BY <1>1, <1>2, <1>3, <1>4 DEF EpochNext, historyVars, start_authority_rotation,
      abort_rotation, register_as_validator, deregister_as_validator, start_bidding, stop_bidding

-----------------------------------------------------------------------------
(* Key holders: whatever governance does to the duration of an epoch.      *)

\* The epoch that expired last is one that expired, so deregister_as_validator looks at
\* every epoch that none of those overtook.  Candidates bid, and bidders are validators.
HolderInv ==
  /\ LastExpiredEpoch \in expired \cup {0}
  /\ \A e \in Unexpired : ~Overtaken(e) => HistoricalAuthorities[e] \subseteq validators
  /\ rotation.authorities \subseteq ActiveBidder
  /\ ActiveBidder \subseteq validators

LEMMA HolderInit == EpochInit => HolderInv
<1> SUFFICES ASSUME EpochInit PROVE HolderInv
  OBVIOUS
<1>1. Unexpired = {1} /\ HistoricalAuthorities[1] = Genesis
  BY EpochAssumptions DEF EpochInit, Unexpired, EpochIndex
<1> QED BY <1>1 DEF HolderInv, EpochInit, NotRotating

\* An epoch that expires takes its authorities out of the condition.
LEMMA HolderBlock ==
  ASSUME BondInv, HolderInv, on_initialize
  PROVE  HolderInv'
<1>1. UNCHANGED <<CurrentEpoch, HistoricalAuthorities, ActiveBidder, validators, rotation>>
  BY DEF on_initialize
<1>2. expired \subseteq expired' /\ LastExpiredEpoch' \in expired' \cup {0}
  BY DEF on_initialize, expire_epoch, SetLastExpired, HolderInv
<1>3. \A e \in Unexpired' : e \in Unexpired /\ (~Overtaken(e)' => ~Overtaken(e))
  BY <1>1, <1>2 DEF Unexpired, Overtaken
<1> QED BY <1>1, <1>2, <1>3 DEF HolderInv

\* The authorities of a new epoch have been bidding.
LEMMA HolderTransition ==
  ASSUME BondInv, HolderInv, transition_to_next_epoch
  PROVE  HolderInv'
<1> DEFINE new == CurrentEpoch + 1
<1>1. /\ CurrentEpoch' = new
      /\ HistoricalAuthorities' = [HistoricalAuthorities EXCEPT ![new] = rotation.authorities]
      /\ rotation' = NotRotating
      /\ UNCHANGED <<LastExpiredEpoch, expired, ActiveBidder, validators>>
  BY Zenon DEF transition_to_next_epoch
<1>2. ASSUME NEW e \in Unexpired', ~Overtaken(e)
      PROVE  HistoricalAuthorities'[e] \subseteq validators'
  <2>0. /\ HistoricalAuthorities \in [1..LastEpoch -> SUBSET Accounts] /\ e \in 1..LastEpoch
        /\ CurrentEpoch \in Nat
    BY <1>1, EpochAssumptions DEF BondInv, EpochTypeOK, EpochIndex, Unexpired,
                                  transition_to_next_epoch
  <2>1. CASE e = new
    BY <1>1, <2>0, <2>1 DEF HolderInv
  <2>2. CASE e # new
    <3>1. e \in Unexpired
      BY <1>1, <2>0, <2>2 DEF Unexpired
    <3> QED BY <1>1, <1>2, <2>0, <2>2, <3>1 DEF HolderInv
  <2> QED BY <2>1, <2>2
<1>3. rotation'.authorities \subseteq ActiveBidder'
  BY <1>1 DEF NotRotating
<1> QED BY <1>1, <1>2, <1>3 DEF HolderInv, Overtaken

\* A call that leaves the epochs alone keeps the key holders if it takes none of them off.
LEMMA HolderCalls ==
  ASSUME HolderInv, UNCHANGED epochStorage,
         \A e \in Unexpired : ~Overtaken(e) => HistoricalAuthorities[e] \subseteq validators',
         rotation'.authorities \subseteq ActiveBidder', ActiveBidder' \subseteq validators'
  PROVE  HolderInv'
BY DEF HolderInv, epochStorage, Unexpired, Overtaken

LEMMA HolderStep ==
  ASSUME BondInv, HolderInv, [EpochNext]_historyVars
  PROVE  HolderInv'
<1>1. CASE on_initialize
  BY <1>1, HolderBlock
<1>2. CASE transition_to_next_epoch
  BY <1>2, HolderTransition
<1>3. CASE start_authority_rotation
  <2>1. rotation'.authorities \subseteq ActiveBidder
    BY <1>3 DEF start_authority_rotation
  <2> QED BY <1>3, <2>1, HolderCalls DEF start_authority_rotation, HolderInv
<1>4. CASE abort_rotation
  BY <1>4, HolderCalls DEF abort_rotation, HolderInv, NotRotating
<1>5. CASE update_epoch_duration
  BY <1>5, HolderCalls DEF update_epoch_duration, HolderInv
<1>6. ASSUME NEW a \in Accounts, register_as_validator(a)
      PROVE  HolderInv'
  BY <1>6, HolderCalls DEF register_as_validator, HolderInv
<1>7. ASSUME NEW a \in Accounts, deregister_as_validator(a)
      PROVE  HolderInv'
  <2>1. \A e \in Unexpired : ~Overtaken(e) => a \notin HistoricalAuthorities[e]
    <3> SUFFICES ASSUME NEW e \in Unexpired, ~Overtaken(e)
                 PROVE  a \notin HistoricalAuthorities[e]
      OBVIOUS
    <3>1. e \in Nat /\ LastExpiredEpoch \in Nat /\ CurrentEpoch \in Nat /\ e # 0
      BY DEF Unexpired, BondInv, EpochTypeOK, EpochIndex
    <3>2. ~(LastExpiredEpoch > e)
      BY <3>1 DEF HolderInv, Overtaken
    <3>3. e \in LastExpiredEpoch..CurrentEpoch
      BY <3>1, <3>2 DEF Unexpired
    <3> QED BY <1>7, <3>1, <3>3 DEF deregister_as_validator, still_key_holder
  <2> QED BY <1>7, <2>1, HolderCalls DEF deregister_as_validator, HolderInv
<1>8. ASSUME NEW a \in Accounts, start_bidding(a)
      PROVE  HolderInv'
  BY <1>8, HolderCalls DEF start_bidding, HolderInv
<1>9. ASSUME NEW a \in Accounts, stop_bidding(a)
      PROVE  HolderInv'
  <2>1. rotation.authorities = {}
    BY <1>9 DEF stop_bidding, is_auction_phase, NotRotating
  <2> QED BY <1>9, <2>1, HolderCalls DEF stop_bidding, HolderInv
<1>10. CASE UNCHANGED historyVars
  BY <1>10, HolderCalls DEF historyVars, HolderInv
<1> QED BY <1>1, <1>2, <1>3, <1>4, <1>5, <1>6, <1>7, <1>8, <1>9, <1>10 DEF EpochNext

-----------------------------------------------------------------------------
(* The highest bond, and the theorems.  Facts about finite sets are only   *)
(* needed from here on.                                                    *)
INSTANCE FiniteSetTheorems

\* A non-empty set of naturals has a least element.
LEMMA NatMin ==
  ASSUME NEW T \in SUBSET Nat, T # {}
  PROVE  \E x \in T : \A y \in T : x <= y
<1>1. PICK x \in T : \A y \in T : ~(<<y, x>> \in OpToRel(<, Nat))
  BY Zenon, NatLessThanWellFounded, WFMin
<1>2. \A y \in T : ~(y < x)
  BY Zenon, <1>1 DEF OpToRel
<1>3. \A y \in T : x <= y
  BY <1>2
<1> QED BY <1>3

\* A function into the naturals has a greatest value on a finite set.
LEMMA MaxIndex ==
  ASSUME NEW I, I # {}, IsFiniteSet(I), NEW f \in [I -> Nat]
  PROVE  \E i \in I : \A j \in I : f[j] <= f[i]
<1> DEFINE G(i) == {j \in I : f[j] > f[i]}
           T == {n \in Nat : \E i \in I : n = Cardinality(G(i))}
<1>1. \A i \in I : IsFiniteSet(G(i)) /\ Cardinality(G(i)) \in Nat
  <2> TAKE i \in I
  <2>1. G(i) \in SUBSET I
    OBVIOUS
  <2>2. IsFiniteSet(G(i))
    BY <2>1, FS_Subset
  <2> QED BY <2>2, FS_CardinalityType
<1>2. T # {} /\ T \in SUBSET Nat
  BY Zenon, <1>1
<1>3. PICK n \in T : \A m \in T : n <= m
  BY Zenon, <1>2, NatMin
<1>4. PICK i \in I : n = Cardinality(G(i))
  OBVIOUS
<1>5. \A j \in I : ~(f[j] > f[i])
  <2> SUFFICES ASSUME NEW j \in I, f[j] > f[i] PROVE FALSE
    OBVIOUS
  <2>1. G(j) \in SUBSET G(i) /\ j \in G(i) /\ j \notin G(j)
    OBVIOUS
  <2>2. Cardinality(G(j)) <= Cardinality(G(i)) /\ Cardinality(G(j)) # Cardinality(G(i))
    <3> HIDE DEF G
    <3> QED BY <2>1, <1>1, FS_Subset
  <2>3. Cardinality(G(j)) \in T
    BY Zenon, <1>1
  <2> HIDE DEF G, T
  <2> QED BY <2>2, <2>3, <1>1, <1>3, <1>4
<1> QED BY <1>5

\* The bond that a set of epochs puts on an account is one of their bonds, or zero.
LEMMA ActiveBondType ==
  BondIsOneOfTheirs
<1> SUFFICES ASSUME NEW n \in Nat, NEW active \in SUBSET (1..n),
                    NEW bonds \in [1..n -> Bonds \cup {0}]
             PROVE  active_bond(active, bonds) \in Bonds \cup {0}
  BY Zenon DEF BondIsOneOfTheirs
<1> DEFINE S == {bonds[e] : e \in active} \cup {0}
<1>1. bonds \in [1..n -> Nat]
  <2>1. Bonds \cup {0} \subseteq Nat
    BY EpochAssumptions
  <2> QED BY <2>1
<1>2. \E m \in S : \A y \in S : m >= y
  <2>1. CASE active = {}
    BY <2>1
  <2>2. CASE active # {}
    <3> DEFINE f == [e \in active |-> bonds[e]]
    <3>1. f \in [active -> Nat]
      BY <1>1
    <3>2. IsFiniteSet(active)
      <4>1. IsFiniteSet(1..n)
        BY FS_Interval
      <4> QED BY Zenon, <4>1, FS_Subset
    <3>3. PICK i \in active : \A j \in active : f[j] <= f[i]
      <4> HIDE DEF f
      <4> QED BY Zenon, <2>2, <3>1, <3>2, MaxIndex
    <3>4. bonds[i] \in S /\ \A y \in S : bonds[i] >= y
      BY <1>1, <3>3
    <3> QED BY Zenon, <3>4
  <2> QED BY <2>1, <2>2
<1>3. Max(S) \in S
  <2> HIDE DEF S
  <2> QED BY <1>2 DEF Max
<1> QED BY <1>3 DEF active_bond

\* However governance changes the duration of epochs, an account's bond is that of the
\* epochs that count for it, and whoever holds a share of a key in use is a validator
\* until its epoch, or a later one, has expired.  Epochs expire one after the other as
\* long as governance has not made them shorter (update_pallet_config accepts it).
THEOREM EpochsAreHeld == EpochSpec => []EpochsAreAccountedFor
<1>1. BondInv /\ OrderInv /\ HolderInv => EpochsAreAccountedFor
  <2>1. BondInv => EpochTypeOK /\ BondCoversActiveEpochs
    BY Zenon DEF BondInv, BondCoversActiveEpochs, active_bond
  <2>2. OrderInv => EpochsExpireInOrder
    BY DEF OrderInv, ExpiryInv, EpochsExpireInOrder
  <2>3. HolderInv => KeyHoldersAreValidators
    BY DEF HolderInv, KeyHoldersAreValidators
  <2> QED BY <2>1, <2>2, <2>3 DEF EpochsAreAccountedFor
<1>2. /\ BondInv /\ OrderInv /\ HolderInv /\ [EpochNext]_historyVars
      => (BondInv /\ OrderInv /\ HolderInv)'
  BY Zenon, ActiveBondType, BondStep, OrderStep, HolderStep
<1>3. EpochInit => OrderInv
  BY ExpiryInit DEF OrderInv
<1> QED BY <1>1, <1>2, <1>3, BondInit, HolderInit, PTL DEF EpochSpec
=============================================================================
