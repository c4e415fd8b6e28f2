--------------------------- MODULE ThresholdSigning ---------------------------
(***************************************************************************)
(* Signature requests of the threshold-signature pallet                    *)
(* (state-chain/pallets/cf-threshold-signature).  A request is attempted   *)
(* by one ceremony after another until one of them signs; a key            *)
(* verification request is attempted once and its failure is the answer.   *)
(*                                                                         *)
(* on_initialize takes the two retry queues of the block and then handles  *)
(* their entries one by one: no call runs before both are handled.         *)
(* Blocks are relative to the current one, which is slot 0 of the queues.  *)
(* Payloads and attempt counts (a seed and a log entry) are left out.      *)
(***************************************************************************)
EXTENDS Integers, Sequences, FiniteSets, Functions, Thresholds

CONSTANTS
  Validators,          \* accounts with the validator role
  Faulty,              \* validators whose failure reports may blame anyone
  Epochs,              \* epochs a key can belong to; 0 is the default, of no authorities
  Keys,                \* aggregate keys
  AuthoritiesAt,       \* the authority set of each epoch
  Callbacks,           \* the calls that can be registered for a request
  NoCallback,          \* no call is registered
  None,                \* no ceremony, no instruction, no key
  Timeouts,            \* ThresholdSignatureResponseTimeout values governance may set
  CeremonyRetryDelay,  \* blocks until a request without signers is tried again
  MaxDelay,            \* bound on timeouts and delays
  MaxRequests,         \* bound: request ids are 1..MaxRequests
  MaxCeremonies        \* bound: ceremony ids are 1..MaxCeremonies

Requests == 1..MaxRequests
Ceremonies == 1..MaxCeremonies
Delays == 0..MaxDelay

\* RequestType: SpecificKey (a standard request) or KeygenVerification.
RequestTypes == {"Standard", "KeygenVerification"}
RequestInstruction ==
  [request_id : Requests, type : RequestTypes, key : Keys \cup {None}, epoch : Epochs,
   participants : SUBSET Validators]
EpochKey == [key : Keys, epoch : Epochs \ {0}]
NoEpochKey == [key |-> None, epoch |-> 0]
CeremonyContext ==
  [instruction : RequestInstruction, candidates : SUBSET Validators,
   remaining_respondents : SUBSET Validators, blame_counts : [Validators -> Nat]]

ASSUME SigningAssumption ==
  /\ IsFiniteSet(Validators) /\ Faulty \subseteq Validators
  /\ Epochs \subseteq Nat /\ 0 \in Epochs /\ AuthoritiesAt[0] = {}
  /\ AuthoritiesAt \in [Epochs -> SUBSET Validators]
  /\ NoCallback \notin Callbacks
  /\ MaxRequests \in Nat /\ MaxCeremonies \in Nat /\ MaxDelay \in Nat \ {0}
  /\ Timeouts \subseteq Delays /\ Timeouts # {}
  /\ None \notin Keys /\ None \notin RequestInstruction /\ None \notin CeremonyContext
  /\ CeremonyRetryDelay \in 1..MaxDelay

VARIABLES
  ThresholdSignatureRequestIdCounter, CeremonyIdCounter,
  PendingCeremonies,           \* [ceremony id]: its context, or None
  PendingRequestInstructions,  \* [request id]: the attempt waiting for signers, or None
  RequestCallback,             \* [request id]: the registered call
  Signature,                   \* [request id]: the result of the request
  CeremonyRetryQueues,         \* [blocks from now]: ceremonies to end
  RequestRetryQueue,           \* [blocks from now]: instructions to retry
  ThresholdSignatureResponseTimeout,
  active_key,                  \* Keys[CurrentKeyEpoch] with its epoch
  retrying, rerequesting,      \* what on_initialize has still to handle
  delivered                    \* history: [request id]: the answers given

counters == <<ThresholdSignatureRequestIdCounter, CeremonyIdCounter>>
queues == <<CeremonyRetryQueues, RequestRetryQueue>>
signingVars == <<counters, PendingCeremonies, PendingRequestInstructions, RequestCallback,
                 Signature, queues, ThresholdSignatureResponseTimeout, active_key,
                 retrying, rerequesting, delivered>>

\* AsyncResult of a Result<Signature, offenders>.
Result(st, offenders) == [status |-> st, offenders |-> offenders]
Void == Result("Void", {})
Pending == Result("Pending", {})
Results == [status : {"Void", "Pending", "Ok", "Err"}, offenders : SUBSET Validators]

InitSigning ==
  /\ ThresholdSignatureRequestIdCounter = 0
  /\ CeremonyIdCounter = 0
  /\ PendingCeremonies = [c \in Ceremonies |-> None]
  /\ PendingRequestInstructions = [r \in Requests |-> None]
  /\ RequestCallback = [r \in Requests |-> NoCallback]
  /\ Signature = [r \in Requests |-> Void]
  /\ CeremonyRetryQueues = [d \in Delays |-> <<>>]
  /\ RequestRetryQueue = [d \in Delays |-> <<>>]
  /\ ThresholdSignatureResponseTimeout \in Timeouts
  /\ retrying = <<>>
  /\ rerequesting = <<>>
  /\ delivered = [r \in Requests |-> <<>>]

(***************************************************************************)
(* Helpers                                                                 *)
(***************************************************************************)

\* Extrinsics run when on_initialize is done.
InBlock == retrying = <<>> /\ rerequesting = <<>>

\* The entries of the next block become those of the current block.
NextBlock(queue) == [d \in Delays |-> IF d = MaxDelay THEN <<>> ELSE queue[d + 1]]

\* threshold_nomination_with_seed: as many authorities of the epoch as a
\* signature needs, none of them suspended.
Nominations(epoch) ==
  {s \in SUBSET AuthoritiesAt[epoch] :
     Cardinality(s) = success_threshold_from_share_count(Cardinality(AuthoritiesAt[epoch]))}

\* The participants a ceremony can be started with.
Participants(instruction) ==
  IF instruction.type = "KeygenVerification"
  THEN {instruction.participants}
  ELSE Nominations(instruction.epoch)

increment_ceremony_id ==
  CeremonyIdCounter < MaxCeremonies /\ CeremonyIdCounter' = CeremonyIdCounter + 1

\* The ceremony is looked at again after the delay.
schedule_ceremony_retry_alone(id, retry_delay) ==                  \* faulty variant
  CeremonyRetryQueues' = [CeremonyRetryQueues EXCEPT ![retry_delay] = <<id>>]
schedule_ceremony_retry(id, retry_delay) ==
  CeremonyRetryQueues' = [CeremonyRetryQueues EXCEPT ![retry_delay] = Append(@, id)]

\* The ceremony gets the next id, its candidates and a block to end in.
CeremonyStarted(instruction, candidates, ceremonies, instructions) ==
  LET ceremony_id == CeremonyIdCounter + 1
  IN /\ increment_ceremony_id
     /\ PendingCeremonies' = [ceremonies EXCEPT ![ceremony_id] =
          [instruction |-> instruction, candidates |-> candidates,
           remaining_respondents |-> candidates,
           blame_counts |-> [v \in Validators |-> 0]]]
     /\ schedule_ceremony_retry(ceremony_id, ThresholdSignatureResponseTimeout)
     /\ PendingRequestInstructions' = instructions
     /\ UNCHANGED RequestRetryQueue

SignersUnavailable(instruction, ceremonies, instructions) ==
  /\ PendingRequestInstructions' =
       [instructions EXCEPT ![instruction.request_id] = instruction]
  /\ RequestRetryQueue' = [RequestRetryQueue EXCEPT
       ![CeremonyRetryDelay] = Append(@, instruction.request_id)]
  /\ PendingCeremonies' = ceremonies
  /\ UNCHANGED <<CeremonyIdCounter, CeremonyRetryQueues>>

\* Starts a ceremony or, when too few authorities can be nominated, keeps the
\* instruction for a later block.  The last two arguments are the storage
\* the attempt starts from.
new_ceremony_attempt_unqueued(instruction, ceremonies, instructions) ==   \* faulty variant
  \/ \E candidates \in Participants(instruction) :
       CeremonyStarted(instruction, candidates, ceremonies, instructions)
  \/ /\ instruction.type = "Standard"
     /\ PendingCeremonies' = ceremonies
     /\ PendingRequestInstructions' = instructions
     /\ UNCHANGED <<CeremonyIdCounter, queues>>
new_ceremony_attempt(instruction, ceremonies, instructions) ==
  \/ \E candidates \in Participants(instruction) :
       CeremonyStarted(instruction, candidates, ceremonies, instructions)
  \/ /\ instruction.type = "Standard"
     /\ SignersUnavailable(instruction, ceremonies, instructions)

\* Counts a request and attempts it; the callback is registered at once, as
\* the request is pending.
inner_request_signature(instruction, callback) ==
  LET request_id == ThresholdSignatureRequestIdCounter + 1
  IN /\ request_id \in Requests
     /\ ThresholdSignatureRequestIdCounter' = request_id
     /\ new_ceremony_attempt([instruction EXCEPT !.request_id = request_id],
                             PendingCeremonies, PendingRequestInstructions)
     /\ Signature' = [Signature EXCEPT ![request_id] = Pending]
     /\ RequestCallback' = [RequestCallback EXCEPT ![request_id] = callback]

\* Stores the result and dispatches the registered call, which takes the
\* result out of storage.
maybe_dispatch_callback(request_id, result) ==
  /\ RequestCallback' = [RequestCallback EXCEPT ![request_id] = NoCallback]
  /\ IF RequestCallback[request_id] = NoCallback
     THEN /\ Signature' = [Signature EXCEPT ![request_id] = result]
          /\ UNCHANGED delivered
     ELSE /\ Signature' = [Signature EXCEPT ![request_id] = Void]
          /\ delivered' = [delivered EXCEPT ![request_id] = Append(@, result)]

\* The candidates reported for a failed ceremony: those blamed by more than
\* two thirds and those that did not respond, if they are at most half.
offenders(context) ==
  LET n == Cardinality(context.candidates)
      to_report == {v \in Validators : context.blame_counts[v] > (2 * n) \div 3}
                     \cup context.remaining_respondents
  IN IF Cardinality(to_report) <= n \div 2 THEN to_report ELSE {}

(***************************************************************************)
(* Requests                                                                *)
(***************************************************************************)

\* A request for a signature by the active key, with or without a callback.
request_signature(callback) ==
  /\ InBlock
  /\ inner_request_signature(
       [request_id |-> 1, type |-> "Standard", key |-> active_key.key,
        epoch |-> active_key.epoch, participants |-> {}], callback)
  /\ UNCHANGED <<ThresholdSignatureResponseTimeout, active_key, retrying,
                 rerequesting, delivered>>

\* The request that verifies a new key: only the parties that made the key
\* can use it, and the callback is always registered.
VerificationRequest(key, participants, epoch, callback) ==
  /\ inner_request_signature(
       [request_id |-> 1, type |-> "KeygenVerification", key |-> key,
        epoch |-> epoch, participants |-> participants], callback)
  /\ UNCHANGED <<ThresholdSignatureResponseTimeout, active_key, retrying,
                 rerequesting, delivered>>

\* Governance changes how long a ceremony may take.
set_threshold_signature_timeout(new_timeout) ==
  /\ InBlock
  /\ new_timeout # ThresholdSignatureResponseTimeout
  /\ ThresholdSignatureResponseTimeout' = new_timeout
  /\ UNCHANGED <<counters, PendingCeremonies, PendingRequestInstructions,
                 RequestCallback, Signature, queues, active_key, retrying,
                 rerequesting, delivered>>

(***************************************************************************)
(* Ceremonies                                                              *)
(***************************************************************************)

\* A signature that validate_unsigned found to be valid for the ceremony.
signature_success(ceremony_id) ==
  /\ InBlock
  /\ PendingCeremonies[ceremony_id] # None
  /\ LET request_id == PendingCeremonies[ceremony_id].instruction.request_id
     IN /\ PendingCeremonies' = [PendingCeremonies EXCEPT ![ceremony_id] = None]
        /\ PendingRequestInstructions' =
             [PendingRequestInstructions EXCEPT ![request_id] = None]
        /\ maybe_dispatch_callback(request_id, Result("Ok", {}))
  /\ UNCHANGED <<counters, queues, ThresholdSignatureResponseTimeout, active_key,
                 retrying, rerequesting>>

\* The blame of a candidate that has not reported yet; the last report ends
\* the ceremony in the next block.
CountBlame(context, reporter, blamed) ==
  [context EXCEPT
    !.remaining_respondents = @ \ {reporter},
    !.blame_counts = [v \in Validators |->
       IF v \in blamed \cap context.candidates THEN @[v] + 1 ELSE @[v]]]

report_signature_failed(reporter, ceremony_id, blamed) ==
  /\ InBlock
  /\ PendingCeremonies[ceremony_id] # None
  /\ reporter \in PendingCeremonies[ceremony_id].remaining_respondents
  /\ reporter \notin Faulty => blamed \subseteq Faulty
  /\ LET context == CountBlame(PendingCeremonies[ceremony_id], reporter, blamed)
     IN /\ PendingCeremonies' = [PendingCeremonies EXCEPT ![ceremony_id] = context]
        /\ IF context.remaining_respondents = {}
           THEN schedule_ceremony_retry(ceremony_id, 1)
           ELSE UNCHANGED CeremonyRetryQueues
  /\ UNCHANGED <<counters, PendingRequestInstructions, RequestCallback, Signature,
                 RequestRetryQueue, ThresholdSignatureResponseTimeout, active_key,
                 retrying, rerequesting, delivered>>

(***************************************************************************)
(* The start of a block                                                    *)
(***************************************************************************)

\* Takes what both queues hold for the current block.
TakeQueues(ceremony_queues, request_queue) ==
  /\ retrying' = ceremony_queues[0]
  /\ rerequesting' = request_queue[0]
  /\ CeremonyRetryQueues' = [ceremony_queues EXCEPT ![0] = <<>>]
  /\ RequestRetryQueue' = [request_queue EXCEPT ![0] = <<>>]

on_initialize ==
  /\ InBlock
  /\ TakeQueues(NextBlock(CeremonyRetryQueues), NextBlock(RequestRetryQueue))
  /\ UNCHANGED <<counters, PendingCeremonies, PendingRequestInstructions,
                 RequestCallback, Signature, ThresholdSignatureResponseTimeout,
                 active_key, delivered>>

\* The ceremony at the head of the queue ended long ago.
StaleCeremony ==
  /\ retrying # <<>>
  /\ PendingCeremonies[Head(retrying)] = None
  /\ retrying' = Tail(retrying)
  /\ UNCHANGED <<counters, PendingCeremonies, PendingRequestInstructions,
                 RequestCallback, Signature, queues,
                 ThresholdSignatureResponseTimeout, active_key, rerequesting, delivered>>

\* A standard request is attempted again with the key it was made for.
RetryInstruction(context) == context.instruction

RetryCeremony ==
  /\ retrying # <<>>
  /\ LET context == PendingCeremonies[Head(retrying)]
     IN /\ context # None
        /\ context.instruction.type = "Standard"
        /\ new_ceremony_attempt(RetryInstruction(context),
             [PendingCeremonies EXCEPT ![Head(retrying)] = None],
             PendingRequestInstructions)
  /\ retrying' = Tail(retrying)
  /\ UNCHANGED <<ThresholdSignatureRequestIdCounter, RequestCallback, Signature,
                 ThresholdSignatureResponseTimeout, active_key, rerequesting, delivered>>

\* A key verification is not retried: its failure is the result.
VerificationDropped ==                                             \* faulty variant
  /\ retrying # <<>>
  /\ PendingCeremonies[Head(retrying)] # None
  /\ PendingCeremonies[Head(retrying)].instruction.type = "KeygenVerification"
  /\ PendingCeremonies' = [PendingCeremonies EXCEPT ![Head(retrying)] = None]
  /\ retrying' = Tail(retrying)
  /\ UNCHANGED <<counters, PendingRequestInstructions, RequestCallback, Signature, queues,
                 ThresholdSignatureResponseTimeout, active_key, rerequesting, delivered>>
VerificationFailed ==
  /\ retrying # <<>>
  /\ LET context == PendingCeremonies[Head(retrying)]
     IN /\ context # None
        /\ context.instruction.type = "KeygenVerification"
        /\ maybe_dispatch_callback(context.instruction.request_id,
                                   Result("Err", offenders(context)))
  /\ PendingCeremonies' = [PendingCeremonies EXCEPT ![Head(retrying)] = None]
  /\ retrying' = Tail(retrying)
  /\ UNCHANGED <<counters, PendingRequestInstructions, queues,
                 ThresholdSignatureResponseTimeout, active_key, rerequesting>>

\* The signers of a request are nominated again.
RetryRequest ==
  /\ retrying = <<>> /\ rerequesting # <<>>
  /\ LET request_id == Head(rerequesting)
         instruction == PendingRequestInstructions[request_id]
     IN IF instruction = None
        THEN UNCHANGED <<CeremonyIdCounter, PendingCeremonies,
                         PendingRequestInstructions, queues>>
        ELSE new_ceremony_attempt(instruction, PendingCeremonies,
               [PendingRequestInstructions EXCEPT ![request_id] = None])
  /\ rerequesting' = Tail(rerequesting)
  /\ UNCHANGED <<ThresholdSignatureRequestIdCounter, RequestCallback, Signature,
                 ThresholdSignatureResponseTimeout, active_key, retrying, delivered>>

SigningStep ==
  \/ on_initialize \/ StaleCeremony \/ RetryCeremony \/ VerificationFailed \/ RetryRequest
  \/ \E c \in Ceremonies : signature_success(c)
  \/ \E v \in Validators, c \in Ceremonies, blamed \in SUBSET Validators :
       report_signature_failed(v, c, blamed)
  \/ \E t \in Timeouts : set_threshold_signature_timeout(t)

(***************************************************************************)
(* The pallet seen by its users: requests arrive, and rotations, which are *)
(* the subject of KeyRotation, verify keys and replace the active key.     *)
(***************************************************************************)

set_key_for_epoch(epoch, key) ==
  /\ InBlock
  /\ epoch = active_key.epoch + 1
  /\ active_key' = [key |-> key, epoch |-> epoch]
  /\ UNCHANGED <<counters, PendingCeremonies, PendingRequestInstructions,
                 RequestCallback, Signature, queues, ThresholdSignatureResponseTimeout,
                 retrying, rerequesting, delivered>>

verify_key(key, epoch, callback) ==
  /\ InBlock
  /\ VerificationRequest(key, AuthoritiesAt[epoch], epoch, callback)

Init == InitSigning /\ active_key \in EpochKey

Next ==
  \/ SigningStep
  \/ \E callback \in Callbacks \cup {NoCallback} : request_signature(callback)
  \/ \E key \in Keys, epoch \in Epochs \ {0}, callback \in Callbacks :
       verify_key(key, epoch, callback)
  \/ \E epoch \in Epochs, key \in Keys : set_key_for_epoch(epoch, key)

Spec == Init /\ [][Next]_signingVars

\* Blocks are produced, and each is initialized to the end.
Fairness ==
  WF_signingVars(on_initialize \/ StaleCeremony \/ RetryCeremony
                 \/ VerificationFailed \/ RetryRequest)

FairSpec == Spec /\ Fairness

(***************************************************************************)
(* Properties                                                              *)
(***************************************************************************)

Attempts(r) ==
  {c \in Ceremonies : PendingCeremonies[c] # None
                      /\ PendingCeremonies[c].instruction.request_id = r}
Waiting(r) == PendingRequestInstructions[r] # None

\* The storage items of the pallet keep their types, and ids are not ahead
\* of their counters.
TypeOK ==
  /\ ThresholdSignatureRequestIdCounter \in 0..MaxRequests
  /\ CeremonyIdCounter \in 0..MaxCeremonies
  /\ PendingCeremonies \in [Ceremonies -> CeremonyContext \cup {None}]
  /\ PendingRequestInstructions \in [Requests -> RequestInstruction \cup {None}]
  /\ RequestCallback \in [Requests -> Callbacks \cup {NoCallback}]
  /\ Signature \in [Requests -> Results]
  /\ CeremonyRetryQueues \in [Delays -> Seq(Ceremonies)]
  /\ RequestRetryQueue \in [Delays -> Seq(Requests)]
  /\ ThresholdSignatureResponseTimeout \in Timeouts
  /\ active_key \in EpochKey \cup {NoEpochKey}
  /\ retrying \in Seq(Ceremonies) /\ rerequesting \in Seq(Requests)
  /\ delivered \in [Requests -> Seq(Results)]
  /\ \A c \in Ceremonies : PendingCeremonies[c] # None => c <= CeremonyIdCounter

\* A request without a result is carried by exactly one ceremony or by one
\* instruction that waits for signers, and one with a result by none: retries,
\* reports and late signatures neither lose a request nor sign it twice.
OneAttemptPerRequest ==
  \A r \in Requests :
    IF Signature[r] = Pending
    THEN IF Waiting(r) THEN Attempts(r) = {} ELSE \E c \in Ceremonies : Attempts(r) = {c}
    ELSE ~Waiting(r) /\ Attempts(r) = {}

\* What carries a request is queued for a later block or for the rest of this
\* on_initialize, so that a request never waits for something that no block
\* will look at.
EveryAttemptIsQueued ==
  /\ \A c \in Ceremonies :
       PendingCeremonies[c] # None =>
         \/ c \in Range(retrying)
         \/ \E d \in Delays \ {0} : c \in Range(CeremonyRetryQueues[d])
  /\ \A r \in Requests :
       Waiting(r) => \/ r \in Range(rerequesting)
                     \/ \E d \in Delays \ {0} : r \in Range(RequestRetryQueue[d])

\* The callback of a request is dispatched exactly once, with its result,
\* and is never left registered for a request that has its result.
CallbackRunsOnce ==
  \A r \in Requests :
    /\ Len(delivered[r]) <= 1
    /\ RequestCallback[r] # NoCallback => Signature[r] = Pending /\ delivered[r] = <<>>
    /\ delivered[r] # <<>> => Signature[r] = Void

\* A candidate that responded is not reported for a ceremony unless more than
\* two thirds of the candidates are faulty, whatever those report: offenders()
\* counts one accusation per respondent.
HonestRespondersAreSafe ==
  \A c \in Ceremonies :
    LET context == PendingCeremonies[c]
    IN  /\ context # None
        /\ 3 * Cardinality(context.candidates \cap Faulty)
             <= 2 * Cardinality(context.candidates)
        => offenders(context) \subseteq Faulty \cup context.remaining_respondents

\* The key an unanswered request is to be signed with.
SigningKey(r) ==
  LET i == IF Waiting(r) THEN PendingRequestInstructions[r]
           ELSE PendingCeremonies[CHOOSE c \in Attempts(r) : TRUE].instruction
  IN <<i.key, i.epoch>>

\* A request is retried with the key that was active when it was made, even
\* when the active key has been replaced since.
RequestKeepsItsKey ==
  [][\A r \in Requests :
       Signature[r] = Pending /\ Signature'[r] = Pending
         => SigningKey(r)' = SigningKey(r)]_signingVars

\* Every unanswered request has one attempt, that attempt is looked at again and keeps the
\* request's key, and whoever asked for a call gets it once.
RequestsAreTracked ==
  /\ [](TypeOK /\ OneAttemptPerRequest /\ EveryAttemptIsQueued /\ CallbackRunsOnce)
  /\ RequestKeepsItsKey

\* No ceremony is pending for ever: on_initialize ends it after its timeout.
CeremoniesEnd ==
  \A c \in Ceremonies : PendingCeremonies[c] # None ~> PendingCeremonies[c] = None

\* Where a request is in the life that SignatureRequests gives it.
RequestState(r) ==
  CASE r > ThresholdSignatureRequestIdCounter -> "unused"
    [] Signature[r] = Pending ->
         IF \E c \in Attempts(r) :
              PendingCeremonies[c].instruction.type = "KeygenVerification"
         THEN "verification" ELSE "standard"
    [] OTHER ->
         LET result == IF delivered[r] = <<>> THEN Signature[r] ELSE delivered[r][1]
         IN IF result.status = "Ok" THEN "signed" ELSE "failed"

Promise == INSTANCE SignatureRequests
             WITH request <- [r \in Requests |-> RequestState(r)]

\* The pallet keeps the promise of the ThresholdSigner trait: standard
\* requests never fail, key verifications are always answered, and answers
\* are final.
KeepsPromise == Promise!Spec
=============================================================================
