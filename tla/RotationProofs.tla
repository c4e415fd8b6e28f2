--------------------------- MODULE RotationProofs ---------------------------
(***************************************************************************)
(* Proofs about KeyRotation, for every set of validators, keys and epochs, *)
(* whatever ceremonies, reports and rotations came before.                 *)
(*                                                                         *)
(* What the stages keep is taken from RotationSteps, what requests and     *)
(* their ceremonies keep from SigningProofs.  Here are the signing part of *)
(* every step of a rotation, the inductive invariant and the theorems.     *)
(***************************************************************************)
EXTENDS RotationSteps, SigningProofs

-----------------------------------------------------------------------------
(* The signing part of a step.                                             *)

LEMMA SigningOkGives == SigningOk => SigningShape
<1> SUFFICES ASSUME SigningOk PROVE SigningShape
  OBVIOUS
<1>1. SigningInv
  BY DEF SigningOk
<1>2. /\ CeremonyIdCounter \in 0..MaxCeremonies
      /\ RequestCallback \in [Requests -> Callbacks \cup {NoCallback}]
      /\ delivered \in [Requests -> Seq(Results)] /\ QueueType
  BY <1>1, SigningTypes
<1>3. /\ \A r \in Requests : RequestCallback[r] # NoCallback => delivered[r] = <<>>
      /\ \A c \in Ceremonies : ~(c <= CeremonyIdCounter) => PendingCeremonies[c] = None
  BY <1>1 DEF SigningInv, CoreInv, CallbackRunsOnce, Carried
<1> QED BY <1>2, <1>3 DEF SigningShape, QueueType

LEMMA SigningOkGivesNext == SigningOk' => SigningShape'
BY SigningOkGives, PTL

\* The requests and ceremonies go on: nothing is answered, or one request is.
LEMMA SigningPart ==
  ASSUME CountingFacts, SigningOk, Callbacks = RotationCallbacks, HandleRetry \/ SigningCall
  PROVE  SigningOk' /\ SigningGoesOn
<1>0. SigningInv /\ BlameInv
  BY DEF SigningOk
<1>1. CASE SigningStep /\ UNCHANGED <<ThresholdSignatureRequestIdCounter, active_key>>
  <2>1. /\ SigningInv'
        /\ \/ KeepsRequests \/ \E r \in Requests : Asks(r)
           \/ \E r \in Requests, result \in Results : Answers(r, result)
    <3>1. Next
      BY <1>1 DEF Next
    <3> QED BY <1>0, <3>1, SigningNextStep
  <2>2. ~\E r \in Requests : Asks(r)
    <3>1. ThresholdSignatureRequestIdCounter \in Nat
      BY <1>0, SigningTypes
    <3> QED BY <1>1, <3>1 DEF Asks
  <2>3. \/ CallbacksStay /\ UNCHANGED delivered
        \/ \E r \in Requests, result \in Results :
             maybe_dispatch_callback(r, result) /\ result.status \in {"Ok", "Err"}
    BY <2>1, <2>2 DEF KeepsRequests, CallbacksStay, Answers, Unanswered
  <2>4. IdsGrow /\ BlameInv'
    BY <1>0, <1>1, BlameKept
  <2> QED BY <1>1, <2>1, <2>3, <2>4 DEF SigningOk, SigningGoesOn, IdsGrow, FreshIds
<1>2. CASE request_signature(OnSignatureReady)
  <2>1. /\ UNCHANGED <<active_key, delivered>>
        /\ \E r : RequestCallback' = [RequestCallback EXCEPT ![r] = OnSignatureReady]
        /\ \E i : inner_request_signature(i, OnSignatureReady)
    BY Zenon, <1>2 DEF request_signature, inner_request_signature
  <2>2. active_key \in EpochKey \cup {NoEpochKey} /\ DOMAIN RequestCallback = Requests
    BY <1>0, SigningTypes DEF QueueType
  <2>3. SigningOk'
    <3>1. OnSignatureReady \in Callbacks
      BY DEF RotationCallbacks, OnSignatureReady
    <3> QED BY <1>2, <2>1, <2>2, <3>1, StandardAsked DEF request_signature
  <2>4. IdsGrow
    BY <1>0, <2>1, BlameKept
  <2>5. CallbacksStay
    BY <2>1, <2>2 DEF CallbacksStay, Verifies
  <2> QED BY <2>1, <2>3, <2>4, <2>5 DEF SigningGoesOn, IdsGrow, FreshIds
<1>3. HandleRetry \/ SigningCall =>
        \/ SigningStep /\ UNCHANGED <<ThresholdSignatureRequestIdCounter, active_key>>
        \/ request_signature(OnSignatureReady)
  BY Zenon DEF HandleRetry, SigningCall, SigningStep, StaleCeremony, RetryCeremony,
       VerificationFailed, RetryRequest, signature_success, report_signature_failed,
       set_threshold_signature_timeout, counters
<1> QED BY <1>1, <1>2, <1>3

\* The stages of the rotation take ids and ask for signatures, and leave the rest alone.
LEMMA RotationSigning ==
  ASSUME CountingFacts, VotesKept, Callbacks = RotationCallbacks, SigningOk, StageInv,
         RotationNext \/ UNCHANGED allVars
  PROVE  SigningOk' /\ SigningGoesOn
<1>0. CASE HandleRetry \/ SigningCall
  BY <1>0, SigningPart
<1>1. SUFFICES ASSUME ~(HandleRetry \/ SigningCall) PROVE SigningOk'
  BY <1>0 DEF SigningGoesOn
<1>2. QueueType /\ active_key \in EpochKey \cup {NoEpochKey}
  BY SigningTypes DEF SigningOk, QueueType
<1>3. CASE UNCHANGED signingVars
  <2>1. /\ UNCHANGED <<queues, ThresholdSignatureResponseTimeout, active_key, retrying,
                       rerequesting>>
        /\ UNCHANGED <<CeremonyIdCounter, ThresholdSignatureRequestIdCounter, PendingCeremonies,
                       PendingRequestInstructions, RequestCallback, Signature, delivered>>
    BY <1>3 DEF signingVars, counters
  <2>2. QueueType'
    BY <1>2, <2>1 DEF QueueType, queues
  <2> QED BY <2>1, <2>2, RequestsSame
<1>4. CASE StartBlock
  <2>1. /\ NextBlock(CeremonyRetryQueues) \in [Delays -> Seq(Ceremonies)]
        /\ NextBlock(RequestRetryQueue) \in [Delays -> Seq(Requests)]
    BY <1>2, NextBlockType DEF QueueType
  <2>2. QueueType'
    BY <1>2, <1>4, <2>1 DEF QueueType, StartBlock
  <2> QED BY <1>4, <2>2, RequestsSame DEF StartBlock, counters
<1>5. CASE StartRetries
  <2>1. QueueType'
    BY Zenon, <1>2, <1>5, TakeQueuesType DEF QueueType, StartRetries
  <2> QED BY <1>5, <2>1, RequestsSame DEF StartRetries, counters
<1>6. CASE \/ \E candidates \in CandidateSets : keygen(candidates)
           \/ \E sharing \in SharingSets, receiving \in CandidateSets :
                key_handover(sharing, receiving)
  <2>1. /\ increment_ceremony_id \/ UNCHANGED CeremonyIdCounter
        /\ UNCHANGED <<queues, ThresholdSignatureResponseTimeout, active_key, retrying,
                       rerequesting>>
        /\ UNCHANGED <<ThresholdSignatureRequestIdCounter, PendingCeremonies,
                       PendingRequestInstructions, RequestCallback, Signature, delivered>>
    BY Zenon, <1>6 DEF keygen, key_handover
  <2>2. QueueType'
    BY <1>2, <2>1 DEF QueueType, queues
  <2> QED BY <2>1, <2>2, RequestsSame
<1>7. CASE ProgressKeygen
  <2>1. CASE KeygenFailed(PendingKeyRotation)
    BY <1>3, <2>1 DEF KeygenFailed
  <2>2. CASE KeygenSucceeded(PendingKeyRotation)
    <3> DEFINE response == PendingKeyRotation.response
               e == PendingKeyRotation.epoch
               callback(key) == [call |-> "on_keygen_verification_result", key |-> key]
    <3>1. PICK key \in UnanimousKeys(response) :
            VerificationRequest(key, response.candidates, e, callback(key))
      BY Zenon, <2>2 DEF KeygenSucceeded
    <3>2. VoterInv(response, KeygenVoters) /\ e \in Epochs
      BY <1>7 DEF ProgressKeygen, StageInv, VotersInv, StatusInv, CeremonyStatuses
    <3> HIDE DEF response, e
    <3>3. key \in Keys /\ response.candidates \in SUBSET Validators
      BY <3>1, <3>2 DEF VotesKept, VoterInv, ResponseStatus
    <3>4. callback(key) \in Callbacks
      BY <3>3 DEF RotationCallbacks
    <3> HIDE DEF callback
    <3> QED BY <3>1, <3>2, <3>3, <3>4, VerificationPart
  <2> QED BY <1>7, <2>1, <2>2 DEF ProgressKeygen
<1>8. CASE ProgressKeyHandover
  <2>1. CASE HandoverSucceeded(PendingKeyRotation)
    <3> DEFINE response == PendingKeyRotation.response
               e == PendingKeyRotation.epoch
               receiving == PendingKeyRotation.receiving
               callback(key) == [call |-> "on_handover_verification_result", key |-> key]
    <3>1. PICK key \in UnanimousKeys(response) :
            VerificationRequest(key, receiving, e, callback(key))
      BY Zenon, <2>1 DEF HandoverSucceeded
    <3>2. /\ VoterInv(response, KeyHandoverVoters) /\ e \in Epochs
          /\ receiving \in SUBSET Validators
      BY <1>8 DEF ProgressKeyHandover, StageInv, VotersInv, StatusInv, CeremonyStatuses
    <3> HIDE DEF response, e, receiving
    <3>3. key \in Keys
      BY <3>1, <3>2 DEF VotesKept
    <3>4. callback(key) \in Callbacks
      BY <3>3 DEF RotationCallbacks
    <3> HIDE DEF callback
    <3> QED BY <3>1, <3>2, <3>3, <3>4, VerificationPart
  <2>2. CASE UNCHANGED signingVars
    BY <1>3, <2>2
  <2> QED BY Zenon, <1>8, <2>1, <2>2 DEF ProgressKeyHandover, HandoverOfWrongKey, HandoverFailed
<1>9. CASE activate_keys
  <2> DEFINE new == [key |-> PendingKeyRotation.key, epoch |-> current_epoch + 1]
  <2>1. new \in EpochKey
    <3>1. PendingKeyRotation.status = "KeyHandoverComplete"
      BY <1>9 DEF activate_keys
    <3>2. PendingKeyRotation.key \in Keys /\ current_epoch \in Epochs
          /\ current_epoch + 1 \in Epochs
      BY <3>1 DEF StageInv, StatusInv, EpochInv, KeyStatuses
    <3>3. current_epoch + 1 \in Epochs \ {0}
      BY <3>2, SigningAssumption
    <3> QED BY <3>2, <3>3 DEF EpochKey
  <2> HIDE DEF new
  <2>2. /\ active_key' = active_key \/ active_key' = new
        /\ UNCHANGED <<ThresholdSignatureResponseTimeout, retrying, rerequesting, delivered>>
    BY Zenon, <1>9 DEF activate_keys, ActivateWithTransaction, ActivateWithoutTransaction,
         ActivateFirstVault, ActivateUninitialized, new
  <2>3. CASE ActivateWithTransaction
    <3>1. OnSignatureReady \in Callbacks
      BY DEF RotationCallbacks, OnSignatureReady
    <3> QED BY <1>2, <2>1, <2>2, <2>3, <3>1, StandardAsked DEF ActivateWithTransaction
  <2>4. CASE ActivateWithoutTransaction \/ ActivateFirstVault \/ ActivateUninitialized
    <3>1. UNCHANGED <<counters, PendingCeremonies, PendingRequestInstructions, RequestCallback,
                      Signature, queues>>
      BY Zenon, <2>4 DEF ActivateWithoutTransaction, ActivateFirstVault, ActivateUninitialized
    <3>2. QueueType'
      BY <1>2, <2>1, <2>2, <3>1 DEF QueueType, queues
    <3> QED BY <2>2, <3>1, <3>2, RequestsSame DEF counters
  <2> QED BY <1>9, <2>3, <2>4 DEF activate_keys
<1>10. CASE \/ WaitForRotation \/ CheckActivation \/ reset_key_rotation \/ StartEpoch \/ Report
            \/ OtherCall \/ UNCHANGED allVars
  <2>1. UNCHANGED signingVars
    BY Zenon, <1>10 DEF WaitForRotation, CheckActivation, reset_key_rotation, StartEpoch, Report,
         report_keygen_outcome, report_key_handover_outcome, OtherCall,
         set_keygen_response_timeout, on_first_key_activated, vault_key_rotated_externally,
         initialize_chain, allVars
  <2> QED BY <1>3, <2>1
<1> QED
  BY <1>1, <1>4, <1>5, <1>6, <1>7, <1>8, <1>9, <1>10 DEF RotationNext, OnInitialize, ValidatorCall

-----------------------------------------------------------------------------
(* The inductive invariant.                                                *)

RotationInv == SigningOk /\ StageInv /\ SettingsInv

LEMMA RotationStep ==
  ASSUME CountingFacts, VoteCounting, Callbacks = RotationCallbacks, RotationInv,
         RotationNext \/ UNCHANGED allVars
  PROVE  RotationInv' /\ StatusStep /\ ActivationOk
<1>1. SigningOk /\ StageInv /\ SettingsInv /\ VotesKept
  BY CountingKeepsVotes DEF RotationInv
<1>2. SigningOk' /\ SigningGoesOn
  BY <1>1, RotationSigning
<1>3. SigningShape
  BY <1>1, SigningOkGives
<1>4. SigningShape'
  BY <1>2, SigningOkGivesNext
<1>5. StageInv' /\ StatusStep /\ ActivationOk
  BY <1>1, <1>2, <1>3, <1>4, StagesStep
<1>6. SettingsInv'
  BY <1>1, SettingsStay
<1> QED BY <1>2, <1>5, <1>6 DEF RotationInv

LEMMA RotationStarts ==
  ASSUME Callbacks = RotationCallbacks, RotationInit
  PROVE  RotationInv
<1>1. active_key \in EpochKey \cup {NoEpochKey} /\ vault_started \in BOOLEAN
  BY RotationAssumption DEF RotationInit
<1>2. SigningInv
  BY <1>1, SigningInit DEF RotationInit
<1>3. BlameInv
  BY DEF RotationInit, InitSigning, BlameInv
<1>4. /\ RequestCallback \in [Requests -> RotationCallbacks \cup {NoCallback}]
      /\ \A r \in Requests : ~Verifies(RequestCallback[r])
  BY DEF RotationInit, InitSigning, Verifies
<1>5. /\ PendingKeyRotation.status = "None" /\ PendingKeyRotation = NoRotation
      /\ KeygenVoters = NoVoters /\ KeyHandoverVoters = NoVoters
  BY DEF RotationInit, NoRotation
<1>6. StatusInv
  BY <1>5 DEF StatusInv, RotationStatuses, CeremonyStatuses, KeyStatuses
<1>7. VotersInv /\ CallbackInv /\ VerifiedInv
  BY <1>4, <1>5 DEF VotersInv, CallbackInv, VerifiedInv
<1>8. EpochInv
  <2>1. current_epoch = 1 /\ rotating = FALSE
    BY DEF RotationInit
  <2>2. current_epoch \in Epochs \ {0}
    BY <2>1, RotationAssumption
  <2> QED BY <1>5, <2>1, <2>2, Zenon DEF EpochInv
<1>9. SettingsInv
  BY <1>1, RotationAssumption DEF RotationInit, SettingsInv
<1> QED BY <1>2, <1>3, <1>6, <1>7, <1>8, <1>9 DEF RotationInv, StageInv, SigningOk

LEMMA RotationInvGives ==
  ASSUME CountingFacts, VoteCounting, RotationInv
  PROVE  RotationTypeOK /\ VotersOfThisCeremony /\ HonestAreSafe
<1>0. SigningInv /\ BlameInv /\ StatusInv /\ VotersInv /\ EpochInv /\ SettingsInv
  BY DEF RotationInv, SigningOk, StageInv
<1>1. TypeOK
  BY <1>0, SigningInvGives
<1>2. VotersOfThisCeremony
  BY Zenon, <1>0 DEF VotersInv, VoterInv, VotersOfThisCeremony
<1>3. KeygenVoters \in Voters /\ KeyHandoverVoters \in Voters
  <2>1. NoVoters \in Voters
    BY DEF NoVoters, Voters
  <2> QED BY <1>0, <2>1 DEF VotersInv, VoterInv
<1>4. PendingKeyRotation.status \in {"AwaitingKeygen", "AwaitingKeyHandover"} =>
        /\ PendingKeyRotation.response \in ResponseStatus
        /\ PendingKeyRotation.ceremony_id \in 1..CeremonyIdCounter
        /\ PendingCeremonies[PendingKeyRotation.ceremony_id] = None
  BY Zenon, <1>0 DEF StatusInv, VotersInv, VoterInv, CeremonyStatuses
<1>5. RotationTypeOK
  BY <1>0, <1>1, <1>3, <1>4 DEF RotationTypeOK, EpochInv, SettingsInv
<1>6. HonestCandidatesAreSafe
  <2> SUFFICES ASSUME PendingKeyRotation.status = "AwaitingKeygen", HonestAgree(KeygenVoters),
                      Cardinality(PendingKeyRotation.response.candidates \cap Faulty)
                        < success_threshold_from_share_count(
                            Cardinality(PendingKeyRotation.response.candidates))
               PROVE  PunishableOffenders(PendingKeyRotation.response, KeygenVoters)
                        \subseteq Faulty \cup PendingKeyRotation.response.remaining_candidates
    BY DEF HonestCandidatesAreSafe
  <2>1. VoterInv(PendingKeyRotation.response, KeygenVoters)
    BY <1>0 DEF VotersInv
  <2> QED BY <2>1, HonestVotersAreSafe
<1>7. HonestRespondersAreSafe
  BY <1>0, BlameInvGives
<1> QED BY <1>2, <1>5, <1>6, <1>7 DEF HonestAreSafe

-----------------------------------------------------------------------------
(* The theorems.                                                           *)

INSTANCE FiniteSetTheorems

LEMMA Counting == CountingFacts /\ VoteCounting
<1>1. \A S \in SUBSET Validators : IsFiniteSet(S) /\ Cardinality(S) \in Nat
  BY FS_Subset, FS_CardinalityType, SigningAssumption
<1>2. \A S, T \in SUBSET Validators :
        T \subseteq S => /\ Cardinality(T) <= Cardinality(S)
                         /\ Cardinality(T) = Cardinality(S) => T = S
  BY <1>1, FS_Subset
<1>3. \A S \in SUBSET Validators, v \in Validators :
        v \notin S => Cardinality(S \cup {v}) = Cardinality(S) + 1
  BY <1>1, FS_AddElement
<1>4. \A K \in SUBSET Keys :
        /\ IsFiniteSet(K) /\ Cardinality(K) \in Nat
        /\ Cardinality(K) = 0 => K = {}
  BY FS_Subset, FS_CardinalityType, FS_EmptySet, RotationAssumption
<1>5. ASSUME NEW K \in SUBSET Keys, NEW k \in K, NEW m \in K, k # m
      PROVE  Cardinality(K) >= 2
  <2>1. IsFiniteSet({k}) /\ Cardinality({k}) = 1
    BY FS_Singleton
  <2>2. Cardinality({k} \cup {m}) = Cardinality({k}) + 1
    BY <1>5, <2>1, FS_AddElement
  <2>3. Cardinality({k} \cup {m}) <= Cardinality(K)
    BY <1>4, FS_Subset
  <2> QED BY <1>4, <2>1, <2>2, <2>3
<1>6. Cardinality({}) = 0
  BY FS_EmptySet
<1>7. CountingFacts
  BY <1>1, <1>2, <1>3, <1>6 DEF CountingFacts
<1>8. VoteCounting
  BY <1>1, <1>2, <1>3, <1>4, <1>5, <1>6 DEF VoteCounting
<1> QED BY <1>7, <1>8

\* The rotation of a key (cf-threshold-signature, KeyRotator): whatever rotations, failures, resets
\* and signing ceremonies came before, the votes that are counted are those of the ceremony in
\* progress, the id of a ceremony is its own, and a key becomes active only after a signature that
\* its holders made in this rotation.
THEOREM VerifiedKeysActivate ==
  ASSUME Callbacks = RotationCallbacks
  PROVE  RotationSpec => KeysAreVerified
<1>1. RotationInit => RotationInv
  BY RotationStarts
<1>2. RotationInv /\ [RotationNext]_allVars => RotationInv' /\ ActivationOk
  BY Counting, RotationStep
<1>3. RotationInv => RotationTypeOK /\ VotersOfThisCeremony
  BY Counting, RotationInvGives
<1>4. RotationInv /\ [RotationNext]_allVars =>
        [active_key' # active_key =>
           /\ active_key'.epoch = current_epoch + 1
           /\ IF HandoverRequired /\ active_key # NoEpochKey
              THEN /\ <<"KeyHandoverComplete", active_key'.key>> \in verified
                   /\ <<active_key.key, active_key'.key>> \in HandoverMatches
              ELSE <<"KeygenVerificationComplete", active_key'.key>> \in verified]_allVars
  BY <1>2 DEF ActivationOk, ActivationIsVerified
<1> QED BY <1>1, <1>2, <1>3, <1>4, PTL DEF RotationSpec, KeysAreVerified, OnlyVerifiedKeysActivate

\* Reports of keygens and signing ceremonies (cf-threshold-signature, KeygenResponseStatus and
\* CeremonyContext::offenders): honest candidates that agree, and honest respondents, are never
\* among the punished while the faulty ones are few enough, in any sequence of ceremonies.
THEOREM HonestAreNotPunished ==
  ASSUME Callbacks = RotationCallbacks
  PROVE  RotationSpec => []HonestAreSafe
<1>1. RotationInit => RotationInv
  BY RotationStarts
<1>2. RotationInv /\ [RotationNext]_allVars => RotationInv'
  BY Counting, RotationStep
<1>3. RotationInv => HonestAreSafe
  BY Counting, RotationInvGives
<1> QED BY <1>1, <1>2, <1>3, PTL DEF RotationSpec

\* The threshold signer implements the rotator that the validator pallet's rotation is built on
\* (traits, KeyRotator; KeyRotator.tla): stages are started by calls only, end in success or with
\* validators to blame, and none is skipped, whatever is signed and reported meanwhile.
THEOREM ImplementsRotator ==
  ASSUME Callbacks = RotationCallbacks
  PROVE  RotationSpec => IsARotator
<1>1. RotationInit => RotationInv
  BY RotationStarts
<1>2. RotationInv /\ [RotationNext]_allVars => RotationInv' /\ StatusStep
  BY Counting, RotationStep
<1>3. RotationInv => StatusInv /\ Seen
  BY OuterStatusIs DEF RotationInv, StageInv
<1>4. RotationInit => Rotator!Init
  <2> SUFFICES ASSUME RotationInit PROVE Rotator!Init
    OBVIOUS
  <2>1. PendingKeyRotation.status = "None" /\ Seen
    BY <1>1, <1>3 DEF RotationInit, NoRotation
  <2> QED BY <2>1 DEF Seen, Rotator!Init, Rotator!Status
<1>5. (RotationInv => StatusInv /\ Seen)'
  BY <1>3, PTL
<1>6. RotationInv /\ [RotationNext]_allVars => [Rotator!Next]_OuterStatus
  <2> SUFFICES ASSUME RotationInv, [RotationNext]_allVars PROVE [Rotator!Next]_OuterStatus
    OBVIOUS
  <2>1. RotationInv' /\ StatusStep
    BY <1>2
  <2> QED BY <1>3, <1>5, <2>1, SeenStep
<1> QED BY <1>1, <1>2, <1>4, <1>6, PTL DEF RotationSpec, IsARotator, Rotator!Spec
=============================================================================
