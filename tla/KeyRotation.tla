---------------------------- MODULE KeyRotation -----------------------------
(***************************************************************************)
(* Key rotation in the threshold-signature pallet (lib.rs and              *)
(* key_rotator.rs of cf-threshold-signature): keygen, its verification by  *)
(* a signing ceremony, key handover, its verification, and the activation  *)
(* of the key by the vault of its chain (vault_activator.rs of cf-vaults). *)
(* It runs together with the signature requests of ThresholdSigning.       *)
(*                                                                         *)
(* The caller is the validator pallet, which calls the rotator when its    *)
(* status is not pending.  One chain uses the key.                         *)
(***************************************************************************)
EXTENDS Integers, FiniteSets, Thresholds, ThresholdSigning

(***************************************************************************)
(* How the reports of a keygen or key handover ceremony are counted and    *)
(* resolved (cf-threshold-signature/src/response_status.rs).  The counts   *)
(* live in the rotation status, the names of the voters in storage of      *)
(* their own.                                                              *)
(***************************************************************************)

ResponseStatus ==
  [candidates : SUBSET Validators, remaining_candidates : SUBSET Validators,
   success_votes : [Keys -> Nat], blame_votes : [Validators -> Nat]]

\* KeygenSuccessVoters and KeygenFailureVoters, or those of the handover; the
\* order of a list of voters is never used.
Voters == [success : [Keys -> SUBSET Validators], failure : SUBSET Validators]
NoVoters == [success |-> [k \in Keys |-> {}], failure |-> {}]

NewResponseStatus(candidates) ==
  [candidates |-> candidates, remaining_candidates |-> candidates,
   success_votes |-> [k \in Keys |-> 0], blame_votes |-> [v \in Validators |-> 0]]

\* A vote is counted in the status and its voter remembered.
add_success_vote(response, voter, key) ==
  [response EXCEPT !.remaining_candidates = @ \ {voter},
                   !.success_votes[key] = @ + 1]
SuccessVoter(voters, voter, key) ==
  [voters EXCEPT !.success[key] = @ \cup {voter}]

add_failure_vote(response, voter, blamed) ==
  [response EXCEPT !.remaining_candidates = @ \ {voter},
                   !.blame_votes = [v \in Validators |->
                      IF v \in blamed THEN @[v] + 1 ELSE @[v]]]
FailureVoter(voters, voter) == [voters EXCEPT !.failure = @ \cup {voter}]

\* The keys that all candidates voted for; votes are counted once per
\* candidate, so there is at most one.
UnanimousKeys(response) ==
  {k \in Keys : response.success_votes[k] = Cardinality(response.candidates)}

failure_threshold(response) ==                                     \* faulty variant
  failure_threshold_from_share_count(Cardinality(response.candidates))
super_majority_threshold(response) ==
  success_threshold_from_share_count(Cardinality(response.candidates))

\* The voters left after those of the majority are removed: the rest dissent.
Dissenters(voters, threshold) ==
  LET majority == {k \in Keys : Cardinality(voters.success[k]) >= threshold}
  IN CASE majority # {} ->
            [voters EXCEPT !.success[CHOOSE k \in majority : TRUE] = {}]
       [] majority = {} /\ Cardinality(voters.failure) >= threshold ->
            [voters EXCEPT !.failure = {}]
       [] OTHER -> NoVoters

\* The offenders of a ceremony without a unanimous key: dissenting, blamed by
\* a super majority, or unresponsive.
ResolvedOffenders(response, voters) ==
  LET threshold == super_majority_threshold(response)
      dissenting == Dissenters(voters, threshold)
  IN (UNION {dissenting.success[k] : k \in Keys})
       \cup dissenting.failure
       \cup {v \in Validators : response.blame_votes[v] >= threshold}
       \cup response.remaining_candidates


CONSTANTS
  CandidateSets,       \* the sets of authority candidates a keygen may have
  SharingSets,         \* the sets of current authorities that may share a key
  HandoverRequired,    \* key_handover_is_required(): the chain is UTXO based
  HandoverMatches,     \* pairs <<old, new>> that satisfy handover_key_matches
  GenesisVaults,       \* the active key and the vault a chain may have at genesis
  KeygenTimeouts,      \* KeygenResponseTimeout values governance may set
  MaxWait              \* bound on those

ASSUME RotationAssumption ==
  /\ 1 \in Epochs /\ IsFiniteSet(Keys)
  /\ CandidateSets \subseteq (SUBSET Validators \ {{}})
  /\ SharingSets \subseteq (SUBSET Validators \ {{}})
  /\ HandoverRequired \in BOOLEAN /\ HandoverMatches \subseteq Keys \X Keys
  /\ GenesisVaults \subseteq [key : EpochKey \cup {NoEpochKey}, started : BOOLEAN]
  /\ MaxWait \in Nat /\ KeygenTimeouts \subseteq 0..MaxWait /\ KeygenTimeouts # {}

VARIABLES
  PendingKeyRotation,        \* the status of the rotation
  KeygenVoters,              \* KeygenSuccessVoters and KeygenFailureVoters
  KeyHandoverVoters,         \* the same for the handover
  KeygenPendingFor,          \* blocks since KeygenResolutionPendingSince
  KeyHandoverPendingFor,     \* blocks since KeyHandoverResolutionPendingSince
  KeygenResponseTimeout,
  current_epoch, rotating,   \* the validator pallet's epoch and whether it rotates
  PendingVaultActivation,    \* the vault pallet's activation status
  vault_started,             \* whether VaultStartBlockNumbers has an entry
  ChainInitialized,
  block_phase,               \* whose turn it is in the current block
  verified                   \* history: keys verified by keygen and by handover

timers == <<KeygenPendingFor, KeyHandoverPendingFor>>
voters == <<KeygenVoters, KeyHandoverVoters>>
epoch == <<current_epoch, rotating>>
vault == <<PendingVaultActivation, vault_started, ChainInitialized>>
rotationVars == <<PendingKeyRotation, voters, timers, KeygenResponseTimeout,
                  epoch, vault, block_phase, verified>>
allVars == <<signingVars, rotationVars>>

\* The calls that can be registered: those of the key verifications, with
\* the key they are about, and that of the broadcast pallet.
RotationCallbacks ==
  [call : {"on_keygen_verification_result", "on_handover_verification_result"}, key : Keys]
    \cup {[call |-> "on_signature_ready", key |-> None]}
OnSignatureReady == [call |-> "on_signature_ready", key |-> None]

\* KeyRotationStatus
NoRotation == [status |-> "None"]
AwaitingKeygen(id, response, epoch_) ==
  [status |-> "AwaitingKeygen", ceremony_id |-> id, response |-> response, epoch |-> epoch_]
AwaitingKeyHandover(id, response, receiving, epoch_, key) ==
  [status |-> "AwaitingKeyHandover", ceremony_id |-> id, response |-> response,
   receiving |-> receiving, epoch |-> epoch_, key |-> key]
WithKey(status, key) == [status |-> status, key |-> key]
AwaitingActivationSignatures(ids) ==
  [status |-> "AwaitingActivationSignatures", request_ids |-> ids]
Complete == [status |-> "Complete"]
Failed(offenders_) == [status |-> "Failed", offenders |-> offenders_]
KeyHandoverFailed(key, offenders_) ==
  [status |-> "KeyHandoverFailed", key |-> key, offenders |-> offenders_]

\* The status the validator pallet sees is pending.
StatusPending ==
  PendingKeyRotation.status \in
    {"AwaitingKeygen", "AwaitingKeygenVerification", "AwaitingKeyHandover",
     "AwaitingKeyHandoverVerification", "AwaitingActivationSignatures"}

RotationInit ==
  /\ InitSigning
  /\ \E genesis \in GenesisVaults :
       active_key = genesis.key /\ vault_started = genesis.started
  /\ PendingKeyRotation = NoRotation
  /\ KeygenVoters = NoVoters /\ KeyHandoverVoters = NoVoters
  /\ KeygenPendingFor = MaxWait /\ KeyHandoverPendingFor = MaxWait
  /\ KeygenResponseTimeout \in KeygenTimeouts
  /\ current_epoch = 1 /\ rotating = FALSE
  /\ PendingVaultActivation = "None"
  /\ ChainInitialized \in BOOLEAN
  /\ block_phase = "call"
  /\ verified = {}

(***************************************************************************)
(* Calls of the validator pallet, whose on_initialize runs in the same     *)
(* block before that of the threshold signer                               *)
(***************************************************************************)

ValidatorTurn == block_phase = "validator" /\ block_phase' = "rotation"

keygen(candidates) ==
  /\ ValidatorTurn /\ ~StatusPending
  /\ PendingKeyRotation = Complete => ~rotating
  /\ current_epoch + 1 \in Epochs
  /\ rotating' = TRUE
  /\ increment_ceremony_id
  /\ PendingKeyRotation' =
       AwaitingKeygen(CeremonyIdCounter + 1, NewResponseStatus(candidates), current_epoch + 1)
  /\ KeygenPendingFor' = 0
  /\ verified' = {}
  /\ UNCHANGED <<ThresholdSignatureRequestIdCounter, PendingCeremonies,
                 PendingRequestInstructions, RequestCallback, Signature, queues,
                 ThresholdSignatureResponseTimeout, active_key, retrying, rerequesting,
                 delivered, voters, KeyHandoverPendingFor, KeygenResponseTimeout,
                 current_epoch, vault>>

\* A handover ceremony of the authorities that share the old key and the
\* candidates that receive it, unless the chain needs none.
key_handover(sharing, receiving) ==
  /\ ValidatorTurn
  /\ PendingKeyRotation.status \in {"KeygenVerificationComplete", "KeyHandoverFailed"}
  /\ IF HandoverRequired /\ active_key # NoEpochKey
     THEN /\ increment_ceremony_id
          /\ PendingKeyRotation' =
               AwaitingKeyHandover(CeremonyIdCounter + 1,
                 NewResponseStatus(sharing \cup receiving), receiving,
                 current_epoch + 1, PendingKeyRotation.key)
          /\ KeyHandoverPendingFor' = 0
     ELSE /\ PendingKeyRotation' = WithKey("KeyHandoverComplete", PendingKeyRotation.key)
          /\ UNCHANGED <<CeremonyIdCounter, KeyHandoverPendingFor>>
  /\ UNCHANGED <<ThresholdSignatureRequestIdCounter, PendingCeremonies,
                 PendingRequestInstructions, RequestCallback, Signature, queues,
                 ThresholdSignatureResponseTimeout, active_key, retrying, rerequesting,
                 delivered, voters, KeygenPendingFor, KeygenResponseTimeout,
                 epoch, vault, verified>>

\* The status is dropped with its timers; the names of the voters stay.
reset_key_rotation ==
  /\ ValidatorTurn /\ ~StatusPending /\ rotating /\ PendingKeyRotation # Complete
  /\ PendingKeyRotation' = NoRotation
  /\ KeygenPendingFor' = MaxWait /\ KeyHandoverPendingFor' = MaxWait
  /\ rotating' = FALSE
  /\ UNCHANGED <<signingVars, voters, KeygenResponseTimeout, current_epoch, vault,
                 verified>>

\* The vault needs a transaction signed by the old key; the key of the next
\* epoch becomes active at once.
ActivateWithTransaction ==
  /\ vault_started
  /\ inner_request_signature(
       [request_id |-> 1, type |-> "Standard", key |-> active_key.key,
        epoch |-> active_key.epoch, participants |-> {}], OnSignatureReady)
  /\ PendingVaultActivation' = "AwaitingActivation"
  /\ active_key' = [key |-> PendingKeyRotation.key, epoch |-> current_epoch + 1]
  /\ PendingKeyRotation' =
       AwaitingActivationSignatures({ThresholdSignatureRequestIdCounter + 1})

\* No transaction is needed (or none could be built): the rotation is over.
ActivateWithoutTransaction ==
  /\ vault_started
  /\ PendingVaultActivation' \in {"Complete", PendingVaultActivation}
  /\ active_key' = [key |-> PendingKeyRotation.key, epoch |-> current_epoch + 1]
  /\ PendingKeyRotation' = Complete
  /\ UNCHANGED <<counters, PendingCeremonies, PendingRequestInstructions,
                 RequestCallback, Signature, queues>>

\* The first vault of the chain waits for governance.
ActivateFirstVault ==
  /\ ~vault_started /\ ChainInitialized
  /\ PendingVaultActivation' = "AwaitingActivation"
  /\ active_key' = [key |-> PendingKeyRotation.key, epoch |-> current_epoch + 1]
  /\ PendingKeyRotation' = AwaitingActivationSignatures({})
  /\ UNCHANGED <<counters, PendingCeremonies, PendingRequestInstructions,
                 RequestCallback, Signature, queues>>

\* A chain that is not initialized keeps its key, if it has any.
ActivateUninitialized ==
  /\ ~vault_started /\ ~ChainInitialized
  /\ PendingVaultActivation' = "Complete"
  /\ PendingKeyRotation' = Complete
  /\ UNCHANGED <<counters, PendingCeremonies, PendingRequestInstructions,
                 RequestCallback, Signature, queues, active_key>>

activate_keys ==
  /\ ValidatorTurn
  /\ PendingKeyRotation.status = "KeyHandoverComplete"
  /\ \/ ActivateWithTransaction \/ ActivateWithoutTransaction
     \/ ActivateFirstVault \/ ActivateUninitialized
  /\ UNCHANGED <<ThresholdSignatureResponseTimeout, retrying, rerequesting, delivered,
                 voters, timers, KeygenResponseTimeout, epoch, vault_started,
                 ChainInitialized, verified>>

\* The validator pallet starts the next epoch when all rotations are complete.
StartEpoch ==
  /\ ValidatorTurn /\ rotating /\ PendingKeyRotation = Complete
  /\ current_epoch' = current_epoch + 1 /\ rotating' = FALSE
  /\ UNCHANGED <<signingVars, PendingKeyRotation, voters, timers, KeygenResponseTimeout,
                 vault, verified>>

(***************************************************************************)
(* The start of a block in the threshold signer                            *)
(***************************************************************************)

Later(blocks) == IF blocks < MaxWait THEN blocks + 1 ELSE blocks

StartBlock ==
  /\ block_phase = "call" /\ InBlock
  /\ block_phase' = "validator"
  /\ CeremonyRetryQueues' = NextBlock(CeremonyRetryQueues)
  /\ RequestRetryQueue' = NextBlock(RequestRetryQueue)
  /\ KeygenPendingFor' = Later(KeygenPendingFor)
  /\ KeyHandoverPendingFor' = Later(KeyHandoverPendingFor)
  /\ UNCHANGED <<counters, PendingCeremonies, PendingRequestInstructions,
                 RequestCallback, Signature, ThresholdSignatureResponseTimeout,
                 active_key, retrying, rerequesting, delivered, PendingKeyRotation,
                 voters, KeygenResponseTimeout, epoch, vault, verified>>

\* All candidates have reported or the time for reports is over.
AllReportsAreIn(response, pending_for) ==                          \* faulty variant
  response.remaining_candidates = {}
ReportsAreIn(response, pending_for) ==
  response.remaining_candidates = {} \/ pending_for >= KeygenResponseTimeout

\* Offenders are punished only when they are too few to be a failed network.
PunishableOffenders(response, voters_) ==
  LET found == ResolvedOffenders(response, voters_)
  IN IF Cardinality(found)
          < failure_threshold_from_share_count(Cardinality(response.candidates))
     THEN found ELSE {}

\* A unanimous key is verified by a signature of the parties that made it.
KeygenSucceededKeepingVoters(rotation) ==                          \* faulty variant
  \E key \in UnanimousKeys(rotation.response) :
    /\ VerificationRequest(key, rotation.response.candidates, rotation.epoch,
         [call |-> "on_keygen_verification_result", key |-> key])
    /\ PendingKeyRotation' = WithKey("AwaitingKeygenVerification", key)
    /\ UNCHANGED KeygenVoters
KeygenSucceeded(rotation) ==
  \E key \in UnanimousKeys(rotation.response) :
    /\ VerificationRequest(key, rotation.response.candidates, rotation.epoch,
         [call |-> "on_keygen_verification_result", key |-> key])
    /\ PendingKeyRotation' = WithKey("AwaitingKeygenVerification", key)
    /\ KeygenVoters' = [KeygenVoters EXCEPT !.success = NoVoters.success]

KeygenFailed(rotation) ==
  /\ UnanimousKeys(rotation.response) = {}
  /\ PendingKeyRotation' = Failed(PunishableOffenders(rotation.response, KeygenVoters))
  /\ KeygenVoters' = NoVoters
  /\ UNCHANGED signingVars

SignerTurn == block_phase \in {"validator", "rotation"} /\ block_phase' = "queues"

ProgressKeygen ==
  /\ SignerTurn
  /\ PendingKeyRotation.status = "AwaitingKeygen"
  /\ ReportsAreIn(PendingKeyRotation.response, KeygenPendingFor)
  /\ KeygenSucceeded(PendingKeyRotation) \/ KeygenFailed(PendingKeyRotation)
  /\ KeygenPendingFor' = MaxWait
  /\ UNCHANGED <<KeyHandoverVoters, KeyHandoverPendingFor, KeygenResponseTimeout,
                 epoch, vault, verified>>

\* The handed-over key must belong to the old one; if it does not, the
\* handover failed and nobody is blamed.
HandoverSucceeded(rotation) ==
  \E key \in UnanimousKeys(rotation.response) :
    /\ <<active_key.key, key>> \in HandoverMatches
    /\ VerificationRequest(key, rotation.receiving, rotation.epoch,
         [call |-> "on_handover_verification_result", key |-> key])
    /\ PendingKeyRotation' = WithKey("AwaitingKeyHandoverVerification", key)
    /\ KeyHandoverVoters' = [KeyHandoverVoters EXCEPT !.success = NoVoters.success]

HandoverOfWrongKey(rotation) ==
  \E key \in UnanimousKeys(rotation.response) :
    /\ <<active_key.key, key>> \notin HandoverMatches
    /\ PendingKeyRotation' = KeyHandoverFailed(rotation.key, {})
    /\ KeyHandoverVoters' = [KeyHandoverVoters EXCEPT !.success = NoVoters.success]
    /\ UNCHANGED signingVars

HandoverFailed(rotation) ==
  /\ UnanimousKeys(rotation.response) = {}
  /\ PendingKeyRotation' =
       KeyHandoverFailed(rotation.key,
                         PunishableOffenders(rotation.response, KeyHandoverVoters))
  /\ KeyHandoverVoters' = NoVoters
  /\ UNCHANGED signingVars

ProgressKeyHandover ==
  /\ SignerTurn
  /\ PendingKeyRotation.status = "AwaitingKeyHandover"
  /\ ReportsAreIn(PendingKeyRotation.response, KeyHandoverPendingFor)
  /\ \/ HandoverSucceeded(PendingKeyRotation)
     \/ HandoverOfWrongKey(PendingKeyRotation)
     \/ HandoverFailed(PendingKeyRotation)
  /\ KeyHandoverPendingFor' = MaxWait
  /\ UNCHANGED <<KeygenVoters, KeygenPendingFor, KeygenResponseTimeout,
                 epoch, vault, verified>>

\* status() of a rotation that waits for its activation: the vault is told when
\* the requests are answered, and the rotation is complete when the vault is.
CheckActivation ==
  /\ SignerTurn
  /\ PendingKeyRotation.status = "AwaitingActivationSignatures"
  /\ LET request_ids == {r \in PendingKeyRotation.request_ids : Signature[r] # Void}
         activated == request_ids = {} /\ vault_started
     IN /\ PendingVaultActivation' =
             IF activated THEN "Complete" ELSE PendingVaultActivation
        /\ PendingKeyRotation' =
             IF PendingVaultActivation' = "Complete" THEN Complete
             ELSE AwaitingActivationSignatures(request_ids)
  /\ UNCHANGED <<signingVars, voters, timers, KeygenResponseTimeout, epoch,
                 vault_started, ChainInitialized, verified>>

\* Nothing to do for the rotation in this block.
WaitForRotation ==
  /\ SignerTurn
  /\ PendingKeyRotation.status # "AwaitingActivationSignatures"
  /\ PendingKeyRotation.status = "AwaitingKeygen"
       => ~ReportsAreIn(PendingKeyRotation.response, KeygenPendingFor)
  /\ PendingKeyRotation.status = "AwaitingKeyHandover"
       => ~ReportsAreIn(PendingKeyRotation.response, KeyHandoverPendingFor)
  /\ UNCHANGED <<signingVars, PendingKeyRotation, voters, timers, KeygenResponseTimeout,
                 epoch, vault, verified>>

StartRetries ==
  /\ block_phase = "queues" /\ block_phase' = "call"
  /\ TakeQueues(CeremonyRetryQueues, RequestRetryQueue)
  /\ UNCHANGED <<counters, PendingCeremonies, PendingRequestInstructions,
                 RequestCallback, Signature, ThresholdSignatureResponseTimeout,
                 active_key, delivered, PendingKeyRotation, voters, timers,
                 KeygenResponseTimeout, epoch, vault, verified>>

(***************************************************************************)
(* Reports of the ceremonies, and the calls of their verifications         *)
(***************************************************************************)

Calling == block_phase = "call" /\ InBlock /\ UNCHANGED block_phase

\* A report of a candidate that has not reported yet: a key or the parties it
\* blames.  Those that are not faulty blame only faulty ones.
Counted(response, voters_, reporter, outcome) ==
  IF outcome.key # None
  THEN [response |-> add_success_vote(response, reporter, outcome.key),
        voters |-> SuccessVoter(voters_, reporter, outcome.key)]
  ELSE [response |-> add_failure_vote(response, reporter,
                                      outcome.blamed \cap response.candidates),
        voters |-> FailureVoter(voters_, reporter)]

Outcomes(reporter) ==
  [key : Keys, blamed : {{}}]
    \cup [key : {None}, blamed : SUBSET (IF reporter \in Faulty THEN Validators ELSE Faulty)]

report_keygen_outcome(reporter, outcome) ==
  /\ Calling
  /\ PendingKeyRotation.status = "AwaitingKeygen"
  /\ reporter \in PendingKeyRotation.response.remaining_candidates
  /\ LET counted == Counted(PendingKeyRotation.response, KeygenVoters, reporter, outcome)
     IN /\ PendingKeyRotation' = [PendingKeyRotation EXCEPT !.response = counted.response]
        /\ KeygenVoters' = counted.voters
  /\ UNCHANGED <<signingVars, KeyHandoverVoters, timers, KeygenResponseTimeout, epoch,
                 vault, verified>>

report_key_handover_outcome(reporter, outcome) ==
  /\ Calling
  /\ PendingKeyRotation.status = "AwaitingKeyHandover"
  /\ reporter \in PendingKeyRotation.response.remaining_candidates
  /\ LET counted == Counted(PendingKeyRotation.response, KeyHandoverVoters, reporter, outcome)
     IN /\ PendingKeyRotation' = [PendingKeyRotation EXCEPT !.response = counted.response]
        /\ KeyHandoverVoters' = counted.voters
  /\ UNCHANGED <<signingVars, KeygenVoters, timers, KeygenResponseTimeout, epoch,
                 vault, verified>>

\* What the call of a verification does with the answer of its request.
EitherAnswerEndsHandover(callback, result) ==                      \* faulty variant
  IF callback.call = "on_signature_ready"
  THEN UNCHANGED <<PendingKeyRotation, verified>>
  ELSE /\ PendingKeyRotation' = IF result.status = "Ok"
                                THEN WithKey("KeyHandoverComplete", callback.key)
                                ELSE Failed(result.offenders)
       /\ UNCHANGED verified
on_key_verification_result(callback, result) ==
  IF callback.call = "on_signature_ready"
  THEN UNCHANGED <<PendingKeyRotation, verified>>
  ELSE LET stage == IF callback.call = "on_keygen_verification_result"
                    THEN "KeygenVerificationComplete" ELSE "KeyHandoverComplete"
       IN IF result.status = "Ok"
          THEN /\ PendingKeyRotation' = WithKey(stage, callback.key)
               /\ verified' = verified \cup {<<stage, callback.key>>}
          ELSE /\ PendingKeyRotation' = Failed(result.offenders)
               /\ UNCHANGED verified

\* The call that a step of the signature requests dispatches, if any.
DispatchedCall ==
  /\ IF delivered' = delivered
     THEN UNCHANGED <<PendingKeyRotation, verified>>
     ELSE \E r \in Requests :
            /\ delivered'[r] # delivered[r]
            /\ on_key_verification_result(RequestCallback[r], delivered'[r][1])
  /\ UNCHANGED <<voters, timers, KeygenResponseTimeout, epoch, vault, block_phase>>

HandleRetry ==
  /\ block_phase = "call"
  /\ StaleCeremony \/ RetryCeremony \/ VerificationFailed \/ RetryRequest
  /\ DispatchedCall

SigningCall ==
  /\ block_phase = "call"
  /\ \/ \E c \in Ceremonies : signature_success(c)
     \/ \E v \in Validators, c \in Ceremonies, blamed \in SUBSET Validators :
          report_signature_failed(v, c, blamed)
     \/ \E t \in Timeouts : set_threshold_signature_timeout(t)
     \/ request_signature(OnSignatureReady)
  /\ DispatchedCall

(***************************************************************************)
(* Governance and witnesses                                                *)
(***************************************************************************)

set_keygen_response_timeout(new_timeout) ==
  /\ Calling /\ new_timeout # KeygenResponseTimeout
  /\ KeygenResponseTimeout' = new_timeout
  /\ UNCHANGED <<signingVars, PendingKeyRotation, voters, timers, epoch, vault, verified>>

\* Governance reports the vault that a first key was put in.
on_first_key_activated ==
  /\ Calling /\ PendingVaultActivation = "AwaitingActivation"
  /\ PendingVaultActivation' = "Complete" /\ vault_started' = TRUE
  /\ UNCHANGED <<signingVars, PendingKeyRotation, voters, timers, KeygenResponseTimeout,
                 epoch, ChainInitialized, verified>>

\* The key was changed on the chain by other means.
vault_key_rotated_externally ==
  /\ Calling
  /\ PendingVaultActivation' = "Complete" /\ vault_started' = TRUE
  /\ UNCHANGED <<signingVars, PendingKeyRotation, voters, timers, KeygenResponseTimeout,
                 epoch, ChainInitialized, verified>>

initialize_chain ==
  /\ Calling /\ ~ChainInitialized
  /\ ChainInitialized' = TRUE
  /\ UNCHANGED <<signingVars, PendingKeyRotation, voters, timers, KeygenResponseTimeout,
                 epoch, PendingVaultActivation, vault_started, verified>>

(***************************************************************************)
(* The specification                                                       *)
(***************************************************************************)

\* Ids are kept for the verification of the ceremony in progress, so that the
\* bounds on ids never stop a rotation half way.
Reserve ==
  IF PendingKeyRotation.status \in {"AwaitingKeygen", "AwaitingKeyHandover"} THEN 1 ELSE 0
IdsLeft == /\ CeremonyIdCounter + Reserve <= MaxCeremonies
           /\ ThresholdSignatureRequestIdCounter + Reserve <= MaxRequests

OnInitialize ==
  \/ StartBlock \/ ProgressKeygen \/ ProgressKeyHandover \/ CheckActivation
  \/ WaitForRotation \/ StartRetries \/ HandleRetry
ValidatorCall ==
  \/ \E candidates \in CandidateSets : keygen(candidates)
  \/ \E sharing \in SharingSets, receiving \in CandidateSets :
       key_handover(sharing, receiving)
  \/ reset_key_rotation \/ activate_keys \/ StartEpoch
Report ==
  \E v \in Validators : \E outcome \in Outcomes(v) :
    report_keygen_outcome(v, outcome) \/ report_key_handover_outcome(v, outcome)
OtherCall ==
  \/ \E t \in KeygenTimeouts : set_keygen_response_timeout(t)
  \/ on_first_key_activated \/ vault_key_rotated_externally \/ initialize_chain

RotationNext ==
  /\ OnInitialize \/ ValidatorCall \/ Report \/ SigningCall \/ OtherCall
  /\ IdsLeft'

RotationSpec == RotationInit /\ [][RotationNext]_allVars

\* Blocks are produced, and each is initialized to the end.
RotationFairness == WF_allVars(OnInitialize /\ IdsLeft')
FairRotationSpec == RotationSpec /\ RotationFairness

(***************************************************************************)
(* Properties                                                              *)
(***************************************************************************)

\* The storage items of the rotation keep their types; a ceremony in progress
\* has the id it was given and no signing ceremony has it.
RotationTypeOK ==
  /\ TypeOK
  /\ KeygenVoters \in Voters /\ KeyHandoverVoters \in Voters
  /\ KeygenPendingFor \in 0..MaxWait /\ KeyHandoverPendingFor \in 0..MaxWait
  /\ KeygenResponseTimeout \in KeygenTimeouts
  /\ current_epoch \in Epochs /\ rotating \in BOOLEAN
  /\ PendingVaultActivation \in {"None", "AwaitingActivation", "Complete"}
  /\ vault_started \in BOOLEAN /\ ChainInitialized \in BOOLEAN
  /\ block_phase \in {"validator", "rotation", "queues", "call"}
  /\ PendingKeyRotation.status \in {"AwaitingKeygen", "AwaitingKeyHandover"} =>
       /\ PendingKeyRotation.response \in ResponseStatus
       /\ PendingKeyRotation.ceremony_id \in 1..CeremonyIdCounter
       /\ PendingCeremonies[PendingKeyRotation.ceremony_id] = None

\* The votes that are counted in a rotation status and the voters that are
\* stored apart from it.
VotesCounted(response, voters_) ==
  /\ \A k \in Keys : response.success_votes[k] = Cardinality(voters_.success[k])
  /\ response.candidates \ response.remaining_candidates
       = (UNION {voters_.success[k] : k \in Keys}) \cup voters_.failure

\* The counts of a ceremony agree with the stored voters, and no voter is left
\* in storage when it is over, also when it was the second or third ceremony
\* after a failure or a reset: nobody is blamed for a vote of an earlier one.
VotersOfThisCeremony ==
  /\ IF PendingKeyRotation.status = "AwaitingKeygen"
     THEN VotesCounted(PendingKeyRotation.response, KeygenVoters)
     ELSE KeygenVoters = NoVoters
  /\ IF PendingKeyRotation.status = "AwaitingKeyHandover"
     THEN VotesCounted(PendingKeyRotation.response, KeyHandoverVoters)
     ELSE KeyHandoverVoters = NoVoters

\* Honest candidates that reported agree on the outcome of the ceremony.
HonestAgree(voters_) ==
  LET honest(set) == set \ Faulty
      keys == {k \in Keys : honest(voters_.success[k]) # {}}
  IN  Cardinality(keys) + (IF honest(voters_.failure) = {} THEN 0 ELSE 1) <= 1

\* Candidates that reported the outcome of the other honest ones are not
\* punished, unless a success threshold of the candidates is faulty: not for
\* dissent, nor by blame, nor for a key that faulty ones reported.
HonestCandidatesAreSafe ==
  PendingKeyRotation.status = "AwaitingKeygen" =>
    LET response == PendingKeyRotation.response
    IN  /\ HonestAgree(KeygenVoters)
        /\ Cardinality(response.candidates \cap Faulty)
             < success_threshold_from_share_count(Cardinality(response.candidates))
        => PunishableOffenders(response, KeygenVoters)
             \subseteq Faulty \cup response.remaining_candidates

\* Whatever faulty validators report of a keygen or of a signing ceremony, honest
\* ones that took part in it are not punished.
HonestAreSafe == HonestCandidatesAreSafe /\ HonestRespondersAreSafe

\* A key becomes the active key of the next epoch only after a signature
\* verified it in this rotation: by the new holders of the old key when it had
\* to be handed over, and by the keygen's candidates when not.
OnlyVerifiedKeysActivate ==
  [][active_key' # active_key =>
       /\ active_key'.epoch = current_epoch + 1
       /\ IF HandoverRequired /\ active_key # NoEpochKey
          THEN /\ <<"KeyHandoverComplete", active_key'.key>> \in verified
               /\ <<active_key.key, active_key'.key>> \in HandoverMatches
          ELSE <<"KeygenVerificationComplete", active_key'.key>> \in verified]_allVars

\* A rotation activates the key that its own candidates made and verified, whatever ceremonies
\* and rotations came before it.
KeysAreVerified == [](RotationTypeOK /\ VotersOfThisCeremony) /\ OnlyVerifiedKeysActivate

\* Every ceremony and every verification of a rotation ends, whoever is silent:
\* the response timeout ends a ceremony, the signing timeout a verification.
StagesEnd ==
  \A stage \in {"AwaitingKeygen", "AwaitingKeygenVerification",
                "AwaitingKeyHandover", "AwaitingKeyHandoverVerification"} :
    PendingKeyRotation.status = stage ~> PendingKeyRotation.status # stage

\* The status as the validator pallet sees it.
OuterStatus ==
  LET seen(status) == [status |-> status, offenders |-> {}]
  IN CASE PendingKeyRotation.status = "None" -> seen("Void")
       [] PendingKeyRotation.status \in {"AwaitingKeygen", "AwaitingKeygenVerification"} ->
            seen("AwaitingKeygen")
       [] PendingKeyRotation.status = "KeygenVerificationComplete" -> seen("KeygenComplete")
       [] PendingKeyRotation.status \in
            {"AwaitingKeyHandover", "AwaitingKeyHandoverVerification"} ->
            seen("AwaitingHandover")
       [] PendingKeyRotation.status = "KeyHandoverComplete" -> seen("HandoverComplete")
       [] PendingKeyRotation.status = "AwaitingActivationSignatures" ->
            seen("AwaitingActivation")
       [] PendingKeyRotation.status = "Complete" -> seen("RotationComplete")
       [] PendingKeyRotation.status = "Failed" ->
            [status |-> "Failed", offenders |-> PendingKeyRotation.offenders]
       [] PendingKeyRotation.status = "KeyHandoverFailed" ->
            [status |-> "HandoverFailed", offenders |-> PendingKeyRotation.offenders]

Rotator == INSTANCE KeyRotator WITH rotator <- OuterStatus

\* The rotation is what the validator pallet takes a rotator for (KeyRotator):
\* no stage is skipped or repeated without a call, whatever signing ceremonies
\* and reports do meanwhile.
IsARotator == Rotator!Spec
=============================================================================
