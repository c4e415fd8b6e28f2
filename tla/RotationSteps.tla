--------------------------- MODULE RotationSteps ----------------------------
(***************************************************************************)
(* The other steps of a key's rotation (KeyRotation): ceremonies end,      *)
(* candidates report, verifications are answered, blocks pass.  With the   *)
(* stages (RotationStages) they show that every step keeps what a stage    *)
(* promises, and is a step of the rotator that the validator pallet sees.  *)
(***************************************************************************)
EXTENDS RotationStages

\* A verification is asked for: the rotation waits for it, and for no other.
LEMMA VerificationAsked ==
  ASSUME SigningShape', StageInv, NotVerifying, Callbacks = RotationCallbacks,
         NEW key, NEW participants, NEW e, NEW callback, Verifies(callback),
         VerificationRequest(key, participants, e, callback),
         PendingKeyRotation' = WaitingFor(callback)
  PROVE  CallbackInv' /\ UNCHANGED active_key
<1>1. PICK r \in Requests : RequestCallback' = [RequestCallback EXCEPT ![r] = callback]
  BY Zenon DEF VerificationRequest, inner_request_signature
<1>2. RequestCallback' \in [Requests -> RotationCallbacks \cup {NoCallback}]
  BY DEF SigningShape
<1>3. \A s \in Requests : s # r => ~Verifies(RequestCallback'[s])
  BY <1>1, NoVerification DEF StageInv, CallbackInv
<1>4. RequestCallback'[r] = callback
  BY <1>1 DEF StageInv, CallbackInv
<1>5. \A s \in Requests : Verifies(RequestCallback'[s]) => s = r
  BY <1>3
<1>6. CallbackInv'
  BY <1>2, <1>4, <1>5 DEF CallbackInv, Verifies, WaitingFor
<1> QED BY <1>6 DEF VerificationRequest

\* ResolvedOffenders are validators.
LEMMA OffendersType ==
  ASSUME NEW response, NEW vs, VoterInv(response, vs)
  PROVE  PunishableOffenders(response, vs) \in SUBSET Validators
<1> DEFINE threshold == super_majority_threshold(response)
           dissenting == Dissenters(vs, threshold)
           found == ResolvedOffenders(response, vs)
           dissenters == UNION {dissenting.success[k] : k \in Keys}
           blamed == {v \in Validators : response.blame_votes[v] >= threshold}
           majority == {k \in Keys : Cardinality(vs.success[k]) >= threshold}
<1>1. found = dissenters \cup dissenting.failure \cup blamed \cup response.remaining_candidates
  BY DEF ResolvedOffenders
<1>2. PunishableOffenders(response, vs) \in {found, {}}
  BY DEF PunishableOffenders
<1>3. vs \in Voters /\ NoVoters \in Voters
  BY DEF VoterInv, NoVoters, Voters
<1>4. dissenting \in Voters
  <2>1. CASE majority # {}
    <3> DEFINE k == CHOOSE m \in majority : TRUE
    <3>1. k \in Keys
      BY <2>1
    <3>2. dissenting = [vs EXCEPT !.success[k] = {}]
      BY <2>1, Zenon DEF Dissenters
    <3> HIDE DEF k, dissenting
    <3> QED BY <1>3, <3>1, <3>2 DEF Voters
  <2>2. CASE majority = {} /\ Cardinality(vs.failure) >= threshold
    <3>1. dissenting = [vs EXCEPT !.failure = {}]
      BY <2>2, Zenon DEF Dissenters
    <3> HIDE DEF dissenting
    <3> QED BY <1>3, <3>1 DEF Voters
  <2>3. CASE majority = {} /\ ~(Cardinality(vs.failure) >= threshold)
    <3>1. dissenting = NoVoters
      BY <2>3, Zenon DEF Dissenters
    <3> QED BY <1>3, <3>1
  <2> QED BY <2>1, <2>2, <2>3
<1> HIDE DEF dissenting
<1>5. dissenting.success \in [Keys -> SUBSET Validators] /\ dissenting.failure \in SUBSET Validators
  BY <1>4 DEF Voters
<1>6. dissenters \subseteq Validators
  BY <1>5, Zenon
<1>7. blamed \subseteq Validators /\ response.remaining_candidates \subseteq Validators
  BY DEF VoterInv, ResponseStatus
<1> HIDE DEF found, dissenters, blamed
<1> QED BY <1>1, <1>2, <1>5, <1>6, <1>7

LEMMA ProgressKeygenStep ==
  ASSUME SigningShape', VotesKept, StageInv, ProgressKeygen, Callbacks = RotationCallbacks
  PROVE  StageInv' /\ StatusStep
<1> DEFINE response == PendingKeyRotation.response
<1>1. /\ PendingKeyRotation.status = "AwaitingKeygen"
      /\ UNCHANGED <<KeyHandoverVoters, current_epoch, rotating, verified>>
  BY DEF ProgressKeygen, epoch
<1>2. /\ NotVerifying /\ VoterInv(response, KeygenVoters) /\ KeyHandoverVoters = NoVoters
      /\ PendingKeyRotation.epoch \in Epochs /\ rotating
      /\ response.candidates \in SUBSET Validators
  BY Zenon, <1>1 DEF NotVerifying, StageInv, StatusInv, VotersInv, EpochInv, CeremonyStatuses, VoterInv,
       ResponseStatus
<1>3. EpochInv'
  BY Zenon, <1>1, <1>2 DEF EpochInv, StageInv
<1>4. ASSUME NEW key \in UnanimousKeys(response),
             VerificationRequest(key, response.candidates, PendingKeyRotation.epoch,
               [call |-> "on_keygen_verification_result", key |-> key]),
             PendingKeyRotation' = WithKey("AwaitingKeygenVerification", key),
             KeygenVoters' = [KeygenVoters EXCEPT !.success = NoVoters.success]
      PROVE  StageInv' /\ StatusStep
  <2> DEFINE callback == [call |-> "on_keygen_verification_result", key |-> key]
  <2>1. key \in Keys /\ KeygenVoters' = NoVoters
    BY <1>2, <1>4 DEF VotesKept
  <2>2. Verifies(callback)
          /\ PendingKeyRotation' = WaitingFor(callback)
    BY <1>4, <2>1, SigningAssumption DEF RotationCallbacks, Verifies, OnSignatureReady, WaitingFor
  <2> HIDE DEF callback
  <2>3. VerificationRequest(key, response.candidates, PendingKeyRotation.epoch, callback)
    BY <1>4 DEF callback
  <2>4. CallbackInv' /\ UNCHANGED active_key
    BY <1>2, <2>1, <2>2, <2>3, VerificationAsked
  <2>5. PendingKeyRotation'.status = "AwaitingKeygenVerification" /\ PendingKeyRotation'.key = key
    BY <1>4 DEF WithKey
  <2>6. StatusInv'
    BY <2>1, <2>5 DEF StatusInv, RotationStatuses, CeremonyStatuses, KeyStatuses
  <2>7. VotersInv' /\ VerifiedInv'
    BY <1>1, <1>2, <2>1, <2>5 DEF VotersInv, VerifiedInv
  <2> QED BY <1>1, <1>3, <2>4, <2>5, <2>6, <2>7 DEF StageInv, StatusStep
<1>5. CASE KeygenFailed(PendingKeyRotation)
  <2> DEFINE o == PunishableOffenders(response, KeygenVoters)
  <2>1. /\ PendingKeyRotation' = Failed(o) /\ KeygenVoters' = NoVoters /\ UNCHANGED signingVars
    BY <1>5 DEF KeygenFailed
  <2>2. o \in SUBSET Validators
    BY <1>2, OffendersType
  <2>3. UNCHANGED RequestCallback
    BY <2>1, SigningUntouched
  <2>4. /\ RequestCallback' \in [Requests -> RotationCallbacks \cup {NoCallback}]
        /\ \A r \in Requests : ~Verifies(RequestCallback'[r])
    BY <1>2, <2>3, NoVerification DEF StageInv, CallbackInv
  <2> HIDE DEF o
  <2>5. Bare(PendingKeyRotation') /\ PendingKeyRotation'.status = "Failed"
    BY <2>1, <2>2 DEF Bare, Failed
  <2>6. StageInv'
    BY <1>1, <1>2, <1>3, <2>1, <2>4, <2>5, BareStage
  <2> QED BY <1>1, <2>3, <2>5, <2>6 DEF StatusStep
<1> QED BY Zenon, <1>4, <1>5 DEF ProgressKeygen, KeygenSucceeded

LEMMA ProgressKeyHandoverStep ==
  ASSUME SigningShape', VotesKept, StageInv, ProgressKeyHandover, Callbacks = RotationCallbacks
  PROVE  StageInv' /\ StatusStep
<1> DEFINE response == PendingKeyRotation.response
           old == PendingKeyRotation.key
<1>1. /\ PendingKeyRotation.status = "AwaitingKeyHandover"
      /\ UNCHANGED <<KeygenVoters, current_epoch, rotating, verified>>
  BY DEF ProgressKeyHandover, epoch
<1>2. /\ NotVerifying /\ VoterInv(response, KeyHandoverVoters) /\ KeygenVoters = NoVoters
      /\ PendingKeyRotation.epoch \in Epochs /\ rotating
      /\ PendingKeyRotation.receiving \in SUBSET Validators
      /\ old \in Keys /\ <<"KeygenVerificationComplete", old>> \in verified
      /\ HandoverRequired /\ active_key # NoEpochKey
  BY <1>1 DEF NotVerifying, StageInv, StatusInv, VotersInv, EpochInv, VerifiedInv,
       CeremonyStatuses, KeyStatuses
<1>3. EpochInv'
  BY <1>1, <1>2 DEF EpochInv, StageInv
<1>4. ASSUME NEW key \in UnanimousKeys(response), <<active_key.key, key>> \in HandoverMatches,
             VerificationRequest(key, PendingKeyRotation.receiving, PendingKeyRotation.epoch,
               [call |-> "on_handover_verification_result", key |-> key]),
             PendingKeyRotation' = WithKey("AwaitingKeyHandoverVerification", key),
             KeyHandoverVoters' = [KeyHandoverVoters EXCEPT !.success = NoVoters.success]
      PROVE  StageInv' /\ StatusStep
  <2> DEFINE callback == [call |-> "on_handover_verification_result", key |-> key]
  <2>1. key \in Keys /\ KeyHandoverVoters' = NoVoters
    BY <1>2, <1>4 DEF VotesKept
  <2>2. Verifies(callback)
          /\ PendingKeyRotation' = WaitingFor(callback)
    BY <1>4, <2>1, SigningAssumption DEF RotationCallbacks, Verifies, OnSignatureReady, WaitingFor
  <2> HIDE DEF callback
  <2>3. VerificationRequest(key, PendingKeyRotation.receiving, PendingKeyRotation.epoch, callback)
    BY <1>4 DEF callback
  <2>4. CallbackInv' /\ UNCHANGED active_key
    BY <1>2, <2>1, <2>2, <2>3, VerificationAsked
  <2>5. /\ PendingKeyRotation'.status = "AwaitingKeyHandoverVerification"
        /\ PendingKeyRotation'.key = key
    BY <1>4 DEF WithKey
  <2>6. StatusInv'
    BY <2>1, <2>5 DEF StatusInv, RotationStatuses, CeremonyStatuses, KeyStatuses
  <2>7. VotersInv' /\ VerifiedInv'
    BY <1>1, <1>2, <1>4, <2>1, <2>4, <2>5 DEF VotersInv, VerifiedInv
  <2> QED BY <1>1, <1>3, <2>4, <2>5, <2>6, <2>7 DEF StageInv, StatusStep
<1>5. ASSUME NEW o \in SUBSET Validators, PendingKeyRotation' = KeyHandoverFailed(old, o),
             KeyHandoverVoters' = NoVoters, UNCHANGED signingVars
      PROVE  StageInv' /\ StatusStep
  <2>1. UNCHANGED <<RequestCallback, active_key>>
    BY <1>5, SigningUntouched
  <2>2. CallbackInv'
    BY <1>2, <2>1, NoneRegistered
  <2> HIDE DEF old
  <2>3. /\ PendingKeyRotation'.status = "KeyHandoverFailed" /\ PendingKeyRotation'.key = old
        /\ PendingKeyRotation'.offenders = o
    BY <1>5 DEF KeyHandoverFailed
  <2>4. StatusInv'
    BY <1>2, <2>3 DEF StatusInv, RotationStatuses, CeremonyStatuses, KeyStatuses
  <2>5. VotersInv' /\ VerifiedInv'
    BY <1>1, <1>2, <1>5, <2>3 DEF VotersInv, VerifiedInv
  <2> QED BY <1>1, <1>3, <2>1, <2>2, <2>3, <2>4, <2>5 DEF StageInv, StatusStep
<1>6. CASE HandoverOfWrongKey(PendingKeyRotation)
  <2>1. KeyHandoverVoters' = NoVoters
    BY <1>2, <1>6 DEF VotesKept, HandoverOfWrongKey
  <2> QED BY <1>5, <1>6, <2>1 DEF HandoverOfWrongKey
<1>7. CASE HandoverFailed(PendingKeyRotation)
  <2>1. PunishableOffenders(response, KeyHandoverVoters) \in SUBSET Validators
    BY <1>2, OffendersType
  <2> QED BY <1>5, <1>7, <2>1 DEF HandoverFailed
<1> QED BY Zenon, <1>4, <1>6, <1>7 DEF ProgressKeyHandover, HandoverSucceeded

\* A candidate reports.
LEMMA ReportsStep ==
  ASSUME VotesKept, StageInv, NEW v \in Validators, NEW outcome \in Outcomes(v),
         report_keygen_outcome(v, outcome) \/ report_key_handover_outcome(v, outcome),
         Callbacks = RotationCallbacks
  PROVE  StageInv' /\ StatusStep
<1> DEFINE response == PendingKeyRotation.response
           id == PendingKeyRotation.ceremony_id
<1>0. /\ UNCHANGED <<signingVars, current_epoch, rotating, verified>>
      /\ PendingKeyRotation.status \in CeremonyStatuses
      /\ v \in response.remaining_candidates
  BY DEF report_keygen_outcome, report_key_handover_outcome, epoch, CeremonyStatuses
<1>1. UNCHANGED <<RequestCallback, active_key, PendingCeremonies, CeremonyIdCounter>>
  BY <1>0, SigningUntouched
<1>2. NotVerifying /\ rotating
  BY Zenon, <1>0 DEF NotVerifying, CeremonyStatuses, StageInv, EpochInv
<1>3. CallbackInv'
  BY <1>1, <1>2, NoneRegistered
<1>4. EpochInv'
  BY <1>0, <1>2 DEF EpochInv, StageInv
<1>5. CASE report_keygen_outcome(v, outcome)
  <2> DEFINE counted == Counted(response, KeygenVoters, v, outcome)
  <2>1. /\ PendingKeyRotation.status = "AwaitingKeygen"
        /\ PendingKeyRotation' = [PendingKeyRotation EXCEPT !.response = counted.response]
        /\ KeygenVoters' = counted.voters /\ UNCHANGED KeyHandoverVoters
    BY <1>5 DEF report_keygen_outcome
  <2>2. VoterInv(response, KeygenVoters) /\ KeyHandoverVoters = NoVoters
    BY <2>1 DEF StageInv, VotersInv
  <2>3. VoterInv(counted.response, counted.voters)
    BY <1>0, <2>2 DEF VotesKept
  <2> HIDE DEF counted
  <2>4. PendingKeyRotation = AwaitingKeygen(id, response, PendingKeyRotation.epoch)
    BY <2>1 DEF StageInv, StatusInv
  <2>5. PendingKeyRotation' = AwaitingKeygen(id, counted.response, PendingKeyRotation.epoch)
    BY <2>1, <2>4 DEF AwaitingKeygen
  <2>6. /\ PendingKeyRotation'.status = "AwaitingKeygen" /\ PendingKeyRotation'.ceremony_id = id
        /\ PendingKeyRotation'.response = counted.response
        /\ PendingKeyRotation'.epoch = PendingKeyRotation.epoch
    BY <2>5 DEF AwaitingKeygen
  <2>7. StatusInv'
    BY <1>1, <2>1, <2>5, <2>6
       DEF StageInv, StatusInv, RotationStatuses, CeremonyStatuses, KeyStatuses
  <2>8. VotersInv' /\ VerifiedInv'
    BY <2>1, <2>2, <2>3, <2>6 DEF VotersInv, VerifiedInv
  <2> QED BY <1>1, <1>3, <1>4, <2>1, <2>6, <2>7, <2>8 DEF StageInv, StatusStep
<1>6. CASE report_key_handover_outcome(v, outcome)
  <2> DEFINE counted == Counted(response, KeyHandoverVoters, v, outcome)
             receiving == PendingKeyRotation.receiving
             key == PendingKeyRotation.key
  <2>1. /\ PendingKeyRotation.status = "AwaitingKeyHandover"
        /\ PendingKeyRotation' = [PendingKeyRotation EXCEPT !.response = counted.response]
        /\ KeyHandoverVoters' = counted.voters /\ UNCHANGED KeygenVoters
    BY <1>6 DEF report_key_handover_outcome
  <2>2. VoterInv(response, KeyHandoverVoters) /\ KeygenVoters = NoVoters
    BY <2>1 DEF StageInv, VotersInv
  <2>3. VoterInv(counted.response, counted.voters)
    BY <1>0, <2>2 DEF VotesKept
  <2> HIDE DEF counted
  <2>4. PendingKeyRotation = AwaitingKeyHandover(id, response, receiving,
                                                 PendingKeyRotation.epoch, key)
    BY <2>1 DEF StageInv, StatusInv
  <2>5. PendingKeyRotation' = AwaitingKeyHandover(id, counted.response, receiving,
                                                  PendingKeyRotation.epoch, key)
    BY <2>1, <2>4 DEF AwaitingKeyHandover
  <2>6. /\ PendingKeyRotation'.status = "AwaitingKeyHandover"
        /\ PendingKeyRotation'.ceremony_id = id
        /\ PendingKeyRotation'.response = counted.response
        /\ PendingKeyRotation'.epoch = PendingKeyRotation.epoch
        /\ PendingKeyRotation'.receiving = receiving /\ PendingKeyRotation'.key = key
    BY <2>5 DEF AwaitingKeyHandover
  <2>7. StatusInv'
    BY <1>1, <2>1, <2>5, <2>6
       DEF StageInv, StatusInv, RotationStatuses, CeremonyStatuses, KeyStatuses
  <2>8. VotersInv' /\ VerifiedInv'
    BY <1>0, <1>1, <2>1, <2>2, <2>3, <2>6 DEF VotersInv, VerifiedInv, StageInv
  <2> QED BY <1>1, <1>3, <1>4, <2>1, <2>6, <2>7, <2>8 DEF StageInv, StatusStep
<1> QED BY <1>5, <1>6

\* The answer of a verification, with no other one registered.
LEMMA VerificationAnswered ==
  ASSUME StageInv, EpochInv', NEW r \in Requests, NEW result \in Results,
         Verifies(RequestCallback[r]), result.status \in {"Ok", "Err"},
         RequestCallback' = [RequestCallback EXCEPT ![r] = NoCallback],
         on_key_verification_result(RequestCallback[r], result),
         UNCHANGED <<KeygenVoters, KeyHandoverVoters, active_key>>
  PROVE  StageInv' /\ StatusStep
<1> DEFINE callback == RequestCallback[r]
<1>1. /\ callback \in [call : {"on_keygen_verification_result",
                               "on_handover_verification_result"}, key : Keys]
      /\ PendingKeyRotation = WaitingFor(callback)
  BY DEF StageInv, CallbackInv, RotationCallbacks, Verifies, OnSignatureReady
<1>2. /\ RequestCallback' \in [Requests -> RotationCallbacks \cup {NoCallback}]
      /\ \A s \in Requests : ~Verifies(RequestCallback'[s])
  BY DEF StageInv, CallbackInv, Verifies
<1> DEFINE from == IF callback.call = "on_keygen_verification_result"
                   THEN "AwaitingKeygenVerification" ELSE "AwaitingKeyHandoverVerification"
           stage == IF callback.call = "on_keygen_verification_result"
                    THEN "KeygenVerificationComplete" ELSE "KeyHandoverComplete"
           key == callback.key
<1>3. PendingKeyRotation.status = from /\ PendingKeyRotation.key = key /\ key \in Keys
  BY <1>1 DEF WaitingFor, WithKey
<1>4. KeygenVoters = NoVoters /\ KeyHandoverVoters = NoVoters
  BY <1>3 DEF StageInv, VotersInv
<1>5. callback.call # "on_signature_ready"
  BY <1>1
<1>6. \/ /\ result.status = "Ok" /\ PendingKeyRotation' = WithKey(stage, key)
         /\ verified' = verified \cup {<<stage, key>>}
      \/ /\ PendingKeyRotation' = Failed(result.offenders)
         /\ UNCHANGED verified
  BY <1>5, Zenon DEF on_key_verification_result
<1> HIDE DEF callback
<1>7. CASE PendingKeyRotation' = WithKey(stage, key) /\ verified' = verified \cup {<<stage, key>>}
  <2>1. PendingKeyRotation'.status = stage /\ PendingKeyRotation'.key = key
    BY <1>7 DEF WithKey
  <2>2. StatusInv'
    BY <1>3, <2>1 DEF StatusInv, RotationStatuses, CeremonyStatuses, KeyStatuses
  <2>3. VotersInv' /\ CallbackInv'
    BY <1>2, <1>4, <2>1 DEF VotersInv, CallbackInv, Verifies
  <2>4. CASE from = "AwaitingKeygenVerification"
    <3>1. stage = "KeygenVerificationComplete"
      BY <2>4
    <3>2. <<"KeygenVerificationComplete", key>> \in verified'
      BY <1>7, <3>1
    <3>3. VerifiedInv'
      BY <2>1, <3>1, <3>2 DEF VerifiedInv
    <3> QED BY Zenon, <1>3, <2>1, <2>2, <2>3, <2>4, <3>1, <3>3 DEF StageInv, StatusStep
  <2>5. CASE from = "AwaitingKeyHandoverVerification"
    <3>1. stage = "KeyHandoverComplete"
      BY <2>5
    <3>2. <<"KeyHandoverComplete", key>> \in verified'
      BY <1>7, <3>1
    <3>3. <<active_key.key, key>> \in HandoverMatches /\ HandoverRequired /\ active_key # NoEpochKey
      BY <1>3, <2>5 DEF StageInv, VerifiedInv
    <3>4. ActivationIsVerified(PendingKeyRotation.key)'
      BY <2>1, <3>2, <3>3 DEF ActivationIsVerified
    <3>5. VerifiedInv'
      BY <2>1, <3>1, <3>4 DEF VerifiedInv
    <3> QED BY <1>3, <2>1, <2>2, <2>3, <2>5, <3>1, <3>5 DEF StageInv, StatusStep
  <2> QED BY <2>4, <2>5
<1>8. CASE PendingKeyRotation' = Failed(result.offenders)
  <2>1. result.offenders \in SUBSET Validators
    BY DEF Results
  <2>2. Bare(PendingKeyRotation') /\ PendingKeyRotation'.status = "Failed"
    BY Zenon, <1>8, <2>1 DEF Bare, Failed
  <2>3. StageInv'
    BY <1>2, <1>4, <2>2, BareStage
  <2> QED BY <1>3, <2>2, <2>3 DEF StatusStep
<1> QED BY <1>6, <1>7, <1>8

\* The requests and ceremonies go on, and the call that they dispatch.
LEMMA SigningCallStep ==
  ASSUME SigningShape, SigningShape', StageInv, HandleRetry \/ SigningCall,
         Callbacks = RotationCallbacks, FreshIds, UNCHANGED active_key,
         \/ CallbacksStay /\ UNCHANGED delivered
         \/ \E r \in Requests, result \in Results :
              maybe_dispatch_callback(r, result) /\ result.status \in {"Ok", "Err"}
  PROVE  StageInv' /\ StatusStep
<1>2. /\ DispatchedCall
      /\ UNCHANGED <<KeygenVoters, KeyHandoverVoters, current_epoch, rotating>>
  BY DEF HandleRetry, SigningCall, DispatchedCall, voters, epoch
<1>3. ASSUME CallbacksStay, UNCHANGED <<PendingKeyRotation, verified>>
      PROVE  StageInv' /\ StatusStep
  <2>1. RotationStays
    BY <1>2, <1>3 DEF RotationStays
  <2> QED BY <1>3, <2>1, StageStays
<1>4. CASE CallbacksStay /\ UNCHANGED delivered
  <2>1. UNCHANGED <<PendingKeyRotation, verified>>
    BY <1>2, <1>4 DEF DispatchedCall
  <2> QED BY <1>3, <1>4, <2>1
<1>5. ASSUME NEW r \in Requests, NEW result \in Results, maybe_dispatch_callback(r, result),
             result.status \in {"Ok", "Err"}
      PROVE  StageInv' /\ StatusStep
  <2>1. /\ r \in Requests /\ RequestCallback' = [RequestCallback EXCEPT ![r] = NoCallback]
        /\ RequestCallback \in [Requests -> RotationCallbacks \cup {NoCallback}]
    BY <1>5 DEF maybe_dispatch_callback, StageInv, CallbackInv
  <2>2. CallbacksStay
    BY <2>1 DEF CallbacksStay, Verifies
  <2>3. CASE RequestCallback[r] = NoCallback
    <3>1. UNCHANGED delivered
      BY <1>5, <2>3 DEF maybe_dispatch_callback
    <3> QED BY <1>4, <2>2, <3>1
  <2>4. CASE RequestCallback[r] # NoCallback
    <3>1. delivered[r] = <<>> /\ delivered \in [Requests -> Seq(Results)]
      BY <2>1, <2>4 DEF SigningShape
    <3>2. delivered' = [delivered EXCEPT ![r] = Append(@, result)]
      BY <1>5, <2>4 DEF maybe_dispatch_callback
    <3>3. delivered'[r] = Append(<<>>, result) /\ \A s \in Requests : s # r => delivered'[s] = delivered[s]
      BY <2>1, <3>1, <3>2
    <3>4. Append(<<>>, result) # <<>> /\ Append(<<>>, result)[1] = result
      OBVIOUS
    <3>5. on_key_verification_result(RequestCallback[r], result)
      <4>1. delivered' # delivered
        BY Zenon, <3>1, <3>3, <3>4
      <4>2. PICK s \in Requests : /\ delivered'[s] # delivered[s]
                                  /\ on_key_verification_result(RequestCallback[s], delivered'[s][1])
        BY <1>2, <4>1 DEF DispatchedCall
      <4>3. s = r /\ delivered'[s][1] = result
        BY <3>3, <3>4, <4>2
      <4> QED BY <4>2, <4>3
    <3>6. CASE RequestCallback[r] = OnSignatureReady
      <4>1. RequestCallback[r].call = "on_signature_ready"
        BY <3>6 DEF OnSignatureReady
      <4>2. UNCHANGED <<PendingKeyRotation, verified>>
        BY <3>5, <4>1 DEF on_key_verification_result
      <4> QED BY <1>3, <2>2, <4>2
    <3>7. CASE RequestCallback[r] # OnSignatureReady
      <4>1. Verifies(RequestCallback[r])
        BY <2>4, <3>7 DEF Verifies
      <4>2. PendingKeyRotation.status \in {"AwaitingKeygenVerification",
                                           "AwaitingKeyHandoverVerification"}
        BY <2>1, <4>1 DEF StageInv, CallbackInv, WaitingFor, WithKey
      <4>3. rotating
        BY <4>2 DEF StageInv, EpochInv
      <4>4. EpochInv'
        BY <1>2, <4>3 DEF StageInv, EpochInv
      <4> QED BY Zenon, <1>2, <1>5, <2>1, <3>5, <4>1, <4>4, VerificationAnswered
    <3> QED BY <3>6, <3>7
  <2> QED BY <2>3, <2>4
<1> QED BY <1>4, <1>5

\* Blocks, settings and vaults.
LEMMA QuietStep ==
  ASSUME SigningShape, SigningShape', StageInv, Callbacks = RotationCallbacks,
         \/ StartBlock \/ StartRetries \/ WaitForRotation \/ OtherCall \/ UNCHANGED allVars
  PROVE  StageInv' /\ StatusStep
<1>1. RotationStays
  BY Zenon DEF StartBlock, StartRetries, WaitForRotation, OtherCall, set_keygen_response_timeout,
       on_first_key_activated, vault_key_rotated_externally, initialize_chain, allVars,
       rotationVars, voters, epoch, signingVars, RotationStays
<1>2. UNCHANGED <<counters, PendingCeremonies, RequestCallback>>
  BY Zenon DEF StartBlock, StartRetries, WaitForRotation, OtherCall, set_keygen_response_timeout,
       on_first_key_activated, vault_key_rotated_externally, initialize_chain, allVars,
       signingVars
<1>3. FreshIds /\ CallbacksStay
  BY <1>2, SigningSame
<1> QED BY <1>1, <1>3, StageStays

LEMMA SettingsStay ==
  ASSUME SettingsInv, RotationNext \/ UNCHANGED allVars
  PROVE  SettingsInv'
<1>1. /\ KeygenPendingFor' \in 0..MaxWait /\ KeyHandoverPendingFor' \in 0..MaxWait
      /\ KeygenResponseTimeout' \in KeygenTimeouts
  <2>0. /\ \A n \in 0..MaxWait : Later(n) \in 0..MaxWait
        /\ MaxWait \in 0..MaxWait /\ 0 \in 0..MaxWait
    BY RotationAssumption DEF Later
  <2>1. CASE OnInitialize
    BY Zenon, <2>0, <2>1 DEF SettingsInv, OnInitialize, StartBlock, ProgressKeygen, ProgressKeyHandover,
         CheckActivation, WaitForRotation, StartRetries, HandleRetry, DispatchedCall, timers
  <2>2. CASE ValidatorCall
    <3>1. CASE \E candidates \in CandidateSets : keygen(candidates)
      BY <2>0, <3>1 DEF SettingsInv, keygen
    <3>2. CASE \E sharing \in SharingSets, receiving \in CandidateSets :
                 key_handover(sharing, receiving)
      BY <2>0, <3>2 DEF SettingsInv, key_handover
    <3>3. CASE activate_keys
      BY <3>3 DEF SettingsInv, activate_keys, timers
    <3>4. CASE reset_key_rotation \/ StartEpoch
      BY <2>0, <3>4 DEF SettingsInv, reset_key_rotation, StartEpoch, timers
    <3> QED BY <2>2, <3>1, <3>2, <3>3, <3>4 DEF ValidatorCall
  <2>3. CASE Report
    BY <2>3 DEF SettingsInv, Report, report_keygen_outcome, report_key_handover_outcome, timers
  <2>4. CASE SigningCall
    BY <2>4 DEF SettingsInv, SigningCall, DispatchedCall, timers
  <2>5. CASE OtherCall
    BY <2>5 DEF SettingsInv, OtherCall, set_keygen_response_timeout, on_first_key_activated,
         vault_key_rotated_externally, initialize_chain, timers
  <2>6. CASE UNCHANGED allVars
    BY <2>6 DEF SettingsInv, allVars, rotationVars, timers
  <2> QED BY <2>1, <2>2, <2>3, <2>4, <2>5, <2>6 DEF RotationNext
<1>2. /\ PendingVaultActivation' \in {"None", "AwaitingActivation", "Complete"}
      /\ vault_started' \in BOOLEAN /\ ChainInitialized' \in BOOLEAN
  <2>1. CASE OnInitialize
    BY Zenon, <2>1 DEF SettingsInv, OnInitialize, StartBlock, ProgressKeygen, ProgressKeyHandover,
         CheckActivation, WaitForRotation, StartRetries, HandleRetry, DispatchedCall, vault
  <2>2. CASE ValidatorCall
    <3>1. CASE \E candidates \in CandidateSets : keygen(candidates)
      BY <3>1 DEF SettingsInv, keygen, vault
    <3>2. CASE \E sharing \in SharingSets, receiving \in CandidateSets :
                 key_handover(sharing, receiving)
      BY <3>2 DEF SettingsInv, key_handover, vault
    <3>3. CASE activate_keys
      BY <3>3 DEF SettingsInv, activate_keys, ActivateWithTransaction,
           ActivateWithoutTransaction, ActivateFirstVault, ActivateUninitialized, vault
    <3>4. CASE reset_key_rotation \/ StartEpoch
      BY <3>4 DEF SettingsInv, reset_key_rotation, StartEpoch, vault
    <3> QED BY <2>2, <3>1, <3>2, <3>3, <3>4 DEF ValidatorCall
  <2>3. CASE Report
    BY <2>3 DEF SettingsInv, Report, report_keygen_outcome, report_key_handover_outcome, vault
  <2>4. CASE SigningCall
    BY <2>4 DEF SettingsInv, SigningCall, DispatchedCall, vault
  <2>5. CASE OtherCall
    BY Zenon, <2>5 DEF SettingsInv, OtherCall, set_keygen_response_timeout, on_first_key_activated,
         vault_key_rotated_externally, initialize_chain, vault
  <2>6. CASE UNCHANGED allVars
    BY <2>6 DEF SettingsInv, allVars, rotationVars, vault
  <2> QED BY <2>1, <2>2, <2>3, <2>4, <2>5, <2>6 DEF RotationNext
<1>3. block_phase' \in {"validator", "rotation", "queues", "call"}
  BY Zenon DEF SettingsInv, RotationNext, OnInitialize, StartBlock, ProgressKeygen, ProgressKeyHandover,
       CheckActivation, WaitForRotation, StartRetries, HandleRetry, DispatchedCall, SignerTurn,
       ValidatorCall, keygen, key_handover, reset_key_rotation, activate_keys, StartEpoch,
       ValidatorTurn, Report, report_keygen_outcome, report_key_handover_outcome, Calling,
       SigningCall, OtherCall, set_keygen_response_timeout, on_first_key_activated,
       vault_key_rotated_externally, initialize_chain, allVars, rotationVars
<1> QED BY <1>1, <1>2, <1>3 DEF SettingsInv


-----------------------------------------------------------------------------
(* The status that the validator pallet sees.                              *)

Seen ==
  LET seen(status) == OuterStatus = [status |-> status, offenders |-> {}]
  IN /\ PendingKeyRotation.status = "None" => seen("Void")
     /\ PendingKeyRotation.status \in {"AwaitingKeygen", "AwaitingKeygenVerification"} =>
          seen("AwaitingKeygen")
     /\ PendingKeyRotation.status = "KeygenVerificationComplete" => seen("KeygenComplete")
     /\ PendingKeyRotation.status \in {"AwaitingKeyHandover", "AwaitingKeyHandoverVerification"} =>
          seen("AwaitingHandover")
     /\ PendingKeyRotation.status = "KeyHandoverComplete" => seen("HandoverComplete")
     /\ PendingKeyRotation.status = "AwaitingActivationSignatures" => seen("AwaitingActivation")
     /\ PendingKeyRotation.status = "Complete" => seen("RotationComplete")
     /\ PendingKeyRotation.status = "Failed" =>
          OuterStatus \in [status : {"Failed"}, offenders : SUBSET Validators]
     /\ PendingKeyRotation.status = "KeyHandoverFailed" =>
          OuterStatus \in [status : {"HandoverFailed"}, offenders : SUBSET Validators]

LEMMA OuterStatusIs == StatusInv => Seen
<1> SUFFICES ASSUME StatusInv PROVE Seen
  OBVIOUS
<1> DEFINE s == PendingKeyRotation.status
           out(status) == [status |-> status, offenders |-> {}]
<1>1. ASSUME s = "None" PROVE OuterStatus = out("Void")
  BY <1>1 DEF OuterStatus
<1>2. ASSUME s \in {"AwaitingKeygen", "AwaitingKeygenVerification"}
      PROVE  OuterStatus = out("AwaitingKeygen")
  BY <1>2 DEF OuterStatus
<1>3. ASSUME s = "KeygenVerificationComplete" PROVE OuterStatus = out("KeygenComplete")
  BY <1>3 DEF OuterStatus
<1>4. ASSUME s \in {"AwaitingKeyHandover", "AwaitingKeyHandoverVerification"}
      PROVE  OuterStatus = out("AwaitingHandover")
  BY <1>4 DEF OuterStatus
<1>5. ASSUME s = "KeyHandoverComplete" PROVE OuterStatus = out("HandoverComplete")
  BY <1>5 DEF OuterStatus
<1>6. ASSUME s = "AwaitingActivationSignatures" PROVE OuterStatus = out("AwaitingActivation")
  BY <1>6 DEF OuterStatus
<1>7. ASSUME s = "Complete" PROVE OuterStatus = out("RotationComplete")
  BY <1>7 DEF OuterStatus
<1>8. ASSUME s = "Failed"
      PROVE  OuterStatus \in [status : {"Failed"}, offenders : SUBSET Validators]
  <2>1. OuterStatus = [status |-> "Failed", offenders |-> PendingKeyRotation.offenders]
    BY <1>8 DEF OuterStatus
  <2>2. PendingKeyRotation.offenders \in SUBSET Validators
    BY <1>8 DEF StatusInv
  <2> QED BY <2>1, <2>2
<1>9. ASSUME s = "KeyHandoverFailed"
      PROVE  OuterStatus \in [status : {"HandoverFailed"}, offenders : SUBSET Validators]
  <2>1. OuterStatus = [status |-> "HandoverFailed", offenders |-> PendingKeyRotation.offenders]
    BY <1>9 DEF OuterStatus
  <2>2. PendingKeyRotation.offenders \in SUBSET Validators
    BY <1>9 DEF StatusInv
  <2> QED BY <2>1, <2>2
<1> HIDE DEF s
<1>10. /\ s = "None" => OuterStatus = out("Void")
       /\ s \in {"AwaitingKeygen", "AwaitingKeygenVerification"} =>
            OuterStatus = out("AwaitingKeygen")
       /\ s = "KeygenVerificationComplete" => OuterStatus = out("KeygenComplete")
       /\ s \in {"AwaitingKeyHandover", "AwaitingKeyHandoverVerification"} =>
            OuterStatus = out("AwaitingHandover")
       /\ s = "KeyHandoverComplete" => OuterStatus = out("HandoverComplete")
       /\ s = "AwaitingActivationSignatures" => OuterStatus = out("AwaitingActivation")
       /\ s = "Complete" => OuterStatus = out("RotationComplete")
  BY <1>1, <1>2, <1>3, <1>4, <1>5, <1>6, <1>7
<1> QED BY <1>8, <1>9, <1>10, Zenon DEF Seen, s

\* A step of the rotation is a step of the rotator, or none, in the eyes of its user.
LEMMA SeenStep ==
  ASSUME StatusInv, StatusInv', Seen, Seen', StatusStep
  PROVE  Rotator!Next \/ UNCHANGED OuterStatus
<1> DEFINE from == PendingKeyRotation.status
           to == PendingKeyRotation'.status
<1> USE DEF Rotator!Status
<1>0. from \in RotationStatuses
  BY DEF StatusInv
<1>1. CASE UNCHANGED PendingKeyRotation
  BY <1>1 DEF OuterStatus
<1>2. CASE ~StatusPending /\ to \in {"None", "AwaitingKeygen"}
  <2>1. ~Rotator!IsPending(OuterStatus)
    BY <1>0, <1>2 DEF Rotator!IsPending, Rotator!PendingStatuses, StatusPending, Seen,
         RotationStatuses, KeyStatuses
  <2>2. OuterStatus' \in {Rotator!keygen_status, Rotator!reset_status}
    BY <1>2 DEF Seen, Rotator!keygen_status, Rotator!reset_status
  <2> QED BY <2>1, <2>2 DEF Rotator!Next, Rotator!Start, Rotator!Reset
<1>3. CASE /\ from \in {"KeygenVerificationComplete", "KeyHandoverFailed"}
           /\ to \in {"AwaitingKeyHandover", "KeyHandoverComplete"}
  <2>1. OuterStatus.status \in {"KeygenComplete", "HandoverFailed"}
    BY <1>3 DEF Seen
  <2>2. \A required \in BOOLEAN :
          Rotator!key_handover_status(OuterStatus, required) =
            [status |-> IF required THEN "AwaitingHandover" ELSE "HandoverComplete",
             offenders |-> {}]
    BY <2>1, Zenon DEF Rotator!key_handover_status
  <2>3. \E required \in BOOLEAN :
          OuterStatus' = [status |-> IF required THEN "AwaitingHandover" ELSE "HandoverComplete",
                          offenders |-> {}]
    BY Zenon, <1>3 DEF Seen
  <2> QED BY <2>2, <2>3 DEF Rotator!Next, Rotator!Handover
<1>4. CASE from = "KeyHandoverComplete" /\ to \in {"AwaitingActivationSignatures", "Complete"}
  <2>1. OuterStatus.status = "HandoverComplete"
    BY <1>4 DEF Seen
  <2>2. OuterStatus' \in Rotator!activate_statuses(OuterStatus)
    BY <1>4, <2>1 DEF Seen, Rotator!activate_statuses
  <2> QED BY <2>2 DEF Rotator!Next, Rotator!Activate
<1>5. CASE from \in {"AwaitingKeygen", "AwaitingKeygenVerification"}
             /\ to \in {"KeygenVerificationComplete", "Failed"}
  <2>1. OuterStatus.status = "AwaitingKeygen"
    BY <1>5 DEF Seen
  <2>2. OuterStatus' \in {[status |-> "KeygenComplete", offenders |-> {}]}
                           \cup [status : {"Failed"}, offenders : SUBSET Validators]
    BY <1>5 DEF Seen
  <2>3. OuterStatus' \in Rotator!Outcomes(OuterStatus, Validators)
    BY <2>1, <2>2 DEF Rotator!Outcomes
  <2> QED BY <2>3 DEF Rotator!Next, Rotator!Resolve
<1>6. CASE from = "AwaitingKeygen" /\ to \in {from, "AwaitingKeygenVerification"}
  BY <1>6 DEF Seen
<1>7. CASE from \in {"AwaitingKeyHandover", "AwaitingKeyHandoverVerification"}
             /\ to \in {"KeyHandoverComplete", "KeyHandoverFailed", "Failed"}
  <2>1. OuterStatus.status = "AwaitingHandover"
    BY <1>7 DEF Seen
  <2>2. OuterStatus' \in {[status |-> "HandoverComplete", offenders |-> {}]}
                           \cup [status : {"HandoverFailed", "Failed"}, offenders : SUBSET Validators]
    BY Zenon, <1>7 DEF Seen
  <2>3. OuterStatus' \in Rotator!Outcomes(OuterStatus, Validators)
    BY <2>1, <2>2 DEF Rotator!Outcomes
  <2> QED BY <2>3 DEF Rotator!Next, Rotator!Resolve
<1>8. CASE from = "AwaitingKeyHandover" /\ to \in {from, "AwaitingKeyHandoverVerification"}
  BY Zenon, <1>8 DEF Seen
<1>9. CASE from = "AwaitingActivationSignatures" /\ to \in {from, "Complete"}
  <2>1. OuterStatus = [status |-> "AwaitingActivation", offenders |-> {}]
    BY <1>9 DEF Seen
  <2>2. CASE to = "Complete"
    <3>1. OuterStatus' = [status |-> "RotationComplete", offenders |-> {}]
      BY <2>2 DEF Seen
    <3>2. OuterStatus' \in Rotator!Outcomes(OuterStatus, Validators)
      BY <2>1, <3>1 DEF Rotator!Outcomes
    <3> QED BY <3>2 DEF Rotator!Next, Rotator!Resolve
  <2>3. CASE to = from
    BY <1>9, <2>1, <2>3 DEF Seen
  <2> QED BY <1>9, <2>2, <2>3
<1> QED
  BY <1>1, <1>2, <1>3, <1>4, <1>5, <1>6, <1>7, <1>8, <1>9 DEF StatusStep

-----------------------------------------------------------------------------
(* All steps.                                                              *)

\* What the requests and ceremonies do in a step that is theirs.
SigningGoesOn ==
  HandleRetry \/ SigningCall =>
    /\ FreshIds /\ UNCHANGED active_key
    /\ \/ CallbacksStay /\ UNCHANGED delivered
       \/ \E r \in Requests, result \in Results :
            maybe_dispatch_callback(r, result) /\ result.status \in {"Ok", "Err"}

LEMMA StagesStep ==
  ASSUME Callbacks = RotationCallbacks, SigningShape, SigningShape', VotesKept, StageInv,
         SigningGoesOn, RotationNext \/ UNCHANGED allVars
  PROVE  StageInv' /\ StatusStep /\ ActivationOk
<1>1. CASE activate_keys
  BY <1>1, ActivateStep
<1>2. ASSUME UNCHANGED active_key PROVE ActivationOk
  BY <1>2 DEF ActivationOk
<1>3. CASE HandleRetry \/ SigningCall
  BY <1>2, <1>3, SigningCallStep DEF SigningGoesOn
<1>4. CASE StartBlock \/ StartRetries \/ WaitForRotation \/ OtherCall \/ UNCHANGED allVars
  <2>1. UNCHANGED active_key
    BY Zenon, <1>4 DEF StartBlock, StartRetries, WaitForRotation, OtherCall, set_keygen_response_timeout,
         on_first_key_activated, vault_key_rotated_externally, initialize_chain, allVars, signingVars
  <2> QED BY <1>2, <1>4, <2>1, QuietStep
<1>5. CASE ProgressKeygen
  <2>1. UNCHANGED active_key
    BY Zenon, <1>5 DEF ProgressKeygen, KeygenSucceeded, KeygenFailed, VerificationRequest, signingVars
  <2> QED BY <1>2, <1>5, <2>1, ProgressKeygenStep
<1>6. CASE ProgressKeyHandover
  <2>1. UNCHANGED active_key
    BY Zenon, <1>6 DEF ProgressKeyHandover, HandoverSucceeded, HandoverOfWrongKey, HandoverFailed,
         VerificationRequest, signingVars
  <2> QED BY <1>2, <1>6, <2>1, ProgressKeyHandoverStep
<1>7. CASE CheckActivation \/ reset_key_rotation \/ StartEpoch
  <2>1. UNCHANGED active_key
    BY Zenon, <1>7 DEF CheckActivation, reset_key_rotation, StartEpoch, signingVars
  <2> QED BY <1>2, <1>7, <2>1, CheckActivationStep, ResetStep, StartEpochStep
<1>8. CASE \E candidates \in CandidateSets : keygen(candidates)
  <2>1. UNCHANGED active_key
    BY <1>8 DEF keygen
  <2> QED BY <1>2, <1>8, <2>1, KeygenStep
<1>9. CASE \E sharing \in SharingSets, receiving \in CandidateSets : key_handover(sharing, receiving)
  <2>1. UNCHANGED active_key
    BY <1>9 DEF key_handover, signingVars
  <2> QED BY <1>2, <1>9, <2>1, KeyHandoverStep
<1>10. CASE Report
  <2>1. UNCHANGED active_key
    BY <1>10 DEF Report, report_keygen_outcome, report_key_handover_outcome, signingVars
  <2> QED BY <1>2, <1>10, <2>1, ReportsStep DEF Report
<1> QED
  BY <1>1, <1>3, <1>4, <1>5, <1>6, <1>7, <1>8, <1>9, <1>10 DEF RotationNext, OnInitialize, ValidatorCall
=============================================================================
