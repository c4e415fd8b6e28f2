---------------------------- MODULE SigningProofs ----------------------------
(***************************************************************************)
(* Proofs about ThresholdSigning: an attempt has one request and a request *)
(* one answer; a request keeps its key and its place in a queue until it   *)
(* is answered, and its answer is final.                                   *)
(***************************************************************************)
EXTENDS SigningSteps

-----------------------------------------------------------------------------
(* The pallet.                                                             *)

\* What a request does to the other ones: nothing.
Asks(r) ==
  /\ r = ThresholdSignatureRequestIdCounter + 1 /\ r \in Requests
  /\ ThresholdSignatureRequestIdCounter' = r
  /\ r \notin Unanswered /\ Unanswered' = Unanswered \cup {r}
  /\ Carrier'[r] \in RequestInstruction
  /\ \A s \in Unanswered : Carrier'[s] = Carrier[s]
  /\ Signature' = [Signature EXCEPT ![r] = Pending]
  /\ UNCHANGED delivered

LEMMA SigningInit ==
  ASSUME InitSigning, active_key \in EpochKey \cup {NoEpochKey}
  PROVE  SigningInv
<1> USE SigningAssumption DEF InitSigning
<1>1. Void \in Results /\ Void # Pending
  BY DEF Void, Pending, Result, Results
<1>2. Unanswered = {}
  BY <1>1 DEF Unanswered
<1>3. Carried(PendingCeremonies, PendingRequestInstructions, Unanswered, CeremonyIdCounter,
              Carrier)
  <2>1. \A c \in Ceremonies : PendingCeremonies[c] = None
    OBVIOUS
  <2>2. \A r \in Requests : PendingRequestInstructions[r] = None
    OBVIOUS
  <2> QED BY <1>2, <2>1, <2>2 DEF Carried
<1>4. <<>> \in Seq(Results) /\ <<>> \in Seq(Ceremonies) /\ <<>> \in Seq(Requests)
        /\ Len(<<>>) = 0
  OBVIOUS
<1>5. CallbackRunsOnce
  BY <1>4 DEF CallbackRunsOnce
<1>6. CoreInv
  BY <1>1, <1>3, <1>4, <1>5 DEF CoreInv
<1>7. QueueType
  BY <1>4 DEF QueueType
<1> QED BY <1>6, <1>7 DEF SigningInv

LEMMA SigningNextStep ==
  ASSUME SigningInv, [Next]_signingVars
  PROVE  /\ SigningInv'
         /\ \/ KeepsRequests
            \/ \E r \in Requests : Asks(r)
            \/ \E r \in Requests, result \in Results : Answers(r, result)
<1>1. CASE RetryCeremony
  BY <1>1, RetryCeremonyStep
<1>2. CASE RetryRequest
  BY <1>2, RetryRequestStep
<1>3. CASE \/ on_initialize \/ StaleCeremony
           \/ \E t \in Timeouts : set_threshold_signature_timeout(t)
  BY <1>3, SettingsStep
<1>4. ASSUME NEW v \in Validators, NEW c \in Ceremonies, NEW blamed \in SUBSET Validators,
             report_signature_failed(v, c, blamed)
      PROVE  SigningInv' /\ KeepsRequests
  BY <1>4, ReportStep
<1>5. ASSUME NEW c \in Ceremonies, signature_success(c)
      PROVE  SigningInv' /\ \E r \in Requests, result \in Results : Answers(r, result)
  <2>1. Result("Ok", {}) \in Results
    BY DEF Result, Results
  <2> QED BY <1>5, <2>1, SuccessStep
<1>6. CASE VerificationFailed
  <2>1. \A o \in SUBSET Validators : Result("Err", o) \in Results
    BY DEF Result, Results
  <2> QED BY <1>6, <2>1, FailureStep
<1>7. ASSUME NEW i \in RequestInstruction, NEW callback \in Callbacks \cup {NoCallback},
             inner_request_signature(i, callback),
             UNCHANGED <<ThresholdSignatureResponseTimeout, active_key, retrying,
                         rerequesting, delivered>>
      PROVE  SigningInv' /\ \E r \in Requests : Asks(r)
  <2> DEFINE r == ThresholdSignatureRequestIdCounter + 1
  <2>1. active_key' \in EpochKey \cup {NoEpochKey}
    BY <1>7 DEF SigningInv, QueueType
  <2>2. /\ SigningInv'
        /\ r \in Requests /\ ThresholdSignatureRequestIdCounter' = r
        /\ r \notin Unanswered /\ Unanswered' = Unanswered \cup {r}
        /\ Carrier'[r] = [i EXCEPT !.request_id = r]
        /\ \A s \in Unanswered : Carrier'[s] = Carrier[s]
    BY <1>7, <2>1, AskStep
  <2>3. [i EXCEPT !.request_id = r] \in RequestInstruction
    BY <2>2 DEF RequestInstruction
  <2>4. Signature' = [Signature EXCEPT ![r] = Pending]
    BY <1>7 DEF inner_request_signature
  <2> QED BY <1>7, <2>2, <2>3, <2>4, Zenon DEF Asks
<1>8. ASSUME NEW callback \in Callbacks \cup {NoCallback}, request_signature(callback)
      PROVE  SigningInv' /\ \E r \in Requests : Asks(r)
  <2> DEFINE i == [request_id |-> 1, type |-> "Standard", key |-> active_key.key,
                   epoch |-> active_key.epoch, participants |-> {}]
  <2>1. active_key.key \in Keys \cup {None} /\ active_key.epoch \in Epochs
    <3>1. active_key \in EpochKey \/ active_key = NoEpochKey
      BY DEF SigningInv, QueueType
    <3> QED BY <3>1, SigningAssumption DEF EpochKey, NoEpochKey
  <2>2. inner_request_signature(i, callback)
    BY <1>8 DEF request_signature
  <2>3. 1 \in Requests
    BY <2>2, SigningAssumption DEF inner_request_signature, Requests, SigningInv, CoreInv
  <2>4. i \in RequestInstruction
    BY <2>1, <2>3 DEF RequestInstruction, RequestTypes
  <2> HIDE DEF i
  <2> QED BY <1>7, <1>8, <2>2, <2>4 DEF request_signature
<1>9. ASSUME NEW key \in Keys, NEW epoch \in Epochs \ {0}, NEW callback \in Callbacks,
             verify_key(key, epoch, callback)
      PROVE  SigningInv' /\ \E r \in Requests : Asks(r)
  <2> DEFINE i == [request_id |-> 1, type |-> "KeygenVerification", key |-> key,
                   epoch |-> epoch, participants |-> AuthoritiesAt[epoch]]
  <2>1. inner_request_signature(i, callback)
    BY <1>9 DEF verify_key, VerificationRequest
  <2>2. 1 \in Requests
    BY <2>1, SigningAssumption DEF inner_request_signature, Requests, SigningInv, CoreInv
  <2>3. AuthoritiesAt[epoch] \in SUBSET Validators
    BY SigningAssumption
  <2>4. i \in RequestInstruction
    BY <2>2, <2>3 DEF RequestInstruction, RequestTypes
  <2> HIDE DEF i
  <2> QED BY <1>7, <1>9, <2>1, <2>4 DEF verify_key, VerificationRequest
<1>10. ASSUME NEW epoch \in Epochs, NEW key \in Keys, set_key_for_epoch(epoch, key)
       PROVE  SigningInv' /\ KeepsRequests
  <2>1. epoch # 0
    <3>1. active_key \in EpochKey \/ active_key = NoEpochKey
      BY DEF SigningInv, QueueType
    <3>2. active_key.epoch \in Nat
      <4>1. CASE active_key \in EpochKey
        BY <4>1, SigningAssumption, Zenon DEF EpochKey
      <4>2. CASE active_key = NoEpochKey
        BY <4>2 DEF NoEpochKey
      <4> QED BY <3>1, <4>1, <4>2
    <3> QED BY <1>10, <3>2 DEF set_key_for_epoch
  <2>2. QueueType'
    BY <1>10, <2>1 DEF set_key_for_epoch, SigningInv, QueueType, queues, EpochKey
  <2>3. CeremonyIdCounter' \in CeremonyIdCounter..MaxCeremonies
    BY <1>10, SigningAssumption DEF set_key_for_epoch, SigningInv, CoreInv, counters
  <2> QED BY <1>10, <2>2, <2>3, OtherStep DEF set_key_for_epoch, counters
<1>11. CASE UNCHANGED signingVars
  <2>1. QueueType'
    BY <1>11 DEF signingVars, queues, SigningInv, QueueType
  <2>2. CeremonyIdCounter' \in CeremonyIdCounter..MaxCeremonies
    BY <1>11, SigningAssumption DEF signingVars, SigningInv, CoreInv, counters
  <2> QED BY <1>11, <2>1, <2>2, OtherStep DEF signingVars, counters
<1> QED
  BY <1>1, <1>2, <1>3, <1>4, <1>5, <1>6, <1>8, <1>9, <1>10, <1>11 DEF Next, SigningStep

LEMMA SigningInvGives == SigningInv => TypeOK /\ OneAttemptPerRequest /\ CallbackRunsOnce
<1> SUFFICES ASSUME SigningInv PROVE TypeOK /\ OneAttemptPerRequest /\ CallbackRunsOnce
  OBVIOUS
<1>1. /\ Carried(PendingCeremonies, PendingRequestInstructions, Unanswered, CeremonyIdCounter,
                 Carrier)
      /\ Unanswered \in SUBSET Requests
  BY DEF SigningInv, CoreInv, Unanswered
<1>2. TypeOK
  BY Zenon, <1>1 DEF SigningInv, CoreInv, QueueType, TypeOK, Carried
<1>3. ASSUME NEW r \in Requests, Signature[r] = Pending
      PROVE  IF Waiting(r) THEN Attempts(r) = {} ELSE \E c \in Ceremonies : Attempts(r) = {c}
  <2>1. r \in Unanswered
    BY <1>3 DEF Unanswered
  <2>2. CASE Waiting(r)
    BY <1>1, <2>2 DEF Waiting, Attempts, Carried
  <2>3. CASE ~Waiting(r)
    <3>1. PICK c \in Ceremonies : /\ PendingCeremonies[c] # None
                                  /\ PendingCeremonies[c].instruction.request_id = r
      BY <1>1, <2>1, <2>3 DEF Waiting, Carried
    <3>2. Attempts(r) = {c}
      BY <1>1, <3>1 DEF Attempts, Carried
    <3> QED BY <2>3, <3>2
  <2> QED BY <2>2, <2>3
<1>4. ASSUME NEW r \in Requests, Signature[r] # Pending
      PROVE  ~Waiting(r) /\ Attempts(r) = {}
  <2>1. r \notin Unanswered
    BY <1>4 DEF Unanswered
  <2> QED BY <1>1, <2>1 DEF Waiting, Attempts, Carried
<1>5. OneAttemptPerRequest
  BY <1>3, <1>4 DEF OneAttemptPerRequest
<1> QED BY <1>2, <1>5 DEF SigningInv, CoreInv

\* Whatever governance sets as the timeout, every unanswered request has exactly one
\* attempt, no answered one has any, and the callback of a request runs once.
THEOREM OneAttemptOneAnswer == Spec => [](TypeOK /\ OneAttemptPerRequest /\ CallbackRunsOnce)
<1>1. Init => SigningInv
  BY SigningInit DEF Init
<1>2. SigningInv /\ [Next]_signingVars => SigningInv'
  BY SigningNextStep
<1> QED BY <1>1, <1>2, SigningInvGives, PTL DEF Spec

\* A request is signed with the key it was made for, however often it is retried.
THEOREM KeyIsKept == Spec => RequestKeepsItsKey
<1>1. Init => SigningInv
  BY SigningInit DEF Init
<1>2. SigningInv /\ [Next]_signingVars => SigningInv'
  BY SigningNextStep
<1>3. SigningInv /\ [Next]_signingVars =>
        [\A r \in Requests : Signature[r] = Pending /\ Signature'[r] = Pending
           => SigningKey(r)' = SigningKey(r)]_signingVars
  <2> SUFFICES ASSUME SigningInv, [Next]_signingVars, NEW r \in Requests,
                      Signature[r] = Pending, Signature'[r] = Pending
               PROVE  SigningKey(r)' = SigningKey(r)
    BY DEF Pending, Result
  <2>1. r \in Unanswered /\ r \in Unanswered'
    BY DEF Unanswered, Pending, Result
  <2>2. Carrier'[r] = Carrier[r]
    BY <2>1, SigningNextStep DEF KeepsRequests, Asks, Answers
  <2>3. SigningKey(r) = <<Carrier[r].key, Carrier[r].epoch>>
    BY DEF SigningKey, Carrier, CarrierOf, Waiting, Attempts
  <2>4. SigningKey(r)' = <<Carrier'[r].key, Carrier'[r].epoch>>
    BY DEF SigningKey, Carrier, CarrierOf, Waiting, Attempts
  <2> QED BY <2>2, <2>3, <2>4
<1> QED BY <1>1, <1>2, <1>3, PTL DEF Spec, RequestKeepsItsKey

-----------------------------------------------------------------------------
(* The queues.                                                             *)

\* A retry adds to the queues; the entry it has handled is no longer needed.
LEMMA QueuesGrow ==
  ASSUME EveryAttemptIsQueued, 0 \notin Timeouts, QueueType,
         NEW pc \in [Ceremonies -> CeremonyContext \cup {None}],
         NEW pri \in [Requests -> RequestInstruction \cup {None}],
         NEW i \in RequestInstruction, new_ceremony_attempt(i, pc, pri),
         CeremonyIdCounter \in 0..MaxCeremonies,
         \A c \in Ceremonies : pc[c] # None =>
           /\ PendingCeremonies[c] # None
           /\ c \in Range(retrying) => c \in Range(retrying'),
         \A r \in Requests : pri[r] # None =>
           /\ PendingRequestInstructions[r] # None
           /\ r \in Range(rerequesting) => r \in Range(rerequesting')
  PROVE  EveryAttemptIsQueued'
<1>1. /\ \A d \in Delays : /\ Range(CeremonyRetryQueues[d]) \subseteq Range(CeremonyRetryQueues'[d])
                           /\ Range(RequestRetryQueue[d]) \subseteq Range(RequestRetryQueue'[d])
      /\ \A c \in Ceremonies : PendingCeremonies'[c] # None =>
           \/ pc[c] # None
           \/ c \in Range(CeremonyRetryQueues'[ThresholdSignatureResponseTimeout])
      /\ \A r \in Requests : PendingRequestInstructions'[r] # None =>
           pri[r] # None \/ r \in Range(RequestRetryQueue'[CeremonyRetryDelay])
  BY AttemptQueues, Zenon
<1>2. /\ ThresholdSignatureResponseTimeout \in Delays \ {0}
      /\ CeremonyRetryDelay \in Delays \ {0}
  <2>1. ThresholdSignatureResponseTimeout \in Delays \ {0}
    BY SigningAssumption DEF QueueType
  <2>2. CeremonyRetryDelay \in Delays \ {0}
    BY SigningAssumption DEF Delays
  <2> QED BY <2>1, <2>2
<1>3. \A c \in Ceremonies : PendingCeremonies'[c] # None =>
        \/ c \in Range(retrying')
        \/ \E d \in Delays \ {0} : c \in Range(CeremonyRetryQueues'[d])
  BY <1>1, <1>2 DEF EveryAttemptIsQueued
<1>4. \A r \in Requests : PendingRequestInstructions'[r] # None =>
        \/ r \in Range(rerequesting')
        \/ \E d \in Delays \ {0} : r \in Range(RequestRetryQueue'[d])
  BY <1>1, <1>2 DEF EveryAttemptIsQueued, Waiting
<1> QED BY <1>3, <1>4 DEF EveryAttemptIsQueued, Waiting

\* Steps that create nothing.
LEMMA QueuesStay ==
  ASSUME EveryAttemptIsQueued,
         \A c \in Ceremonies : PendingCeremonies'[c] # None =>
           /\ PendingCeremonies[c] # None
           /\ c \in Range(retrying) => c \in Range(retrying'),
         \A r \in Requests : PendingRequestInstructions'[r] # None =>
           PendingRequestInstructions[r] # None,
         \A d \in Delays : Range(CeremonyRetryQueues[d]) \subseteq Range(CeremonyRetryQueues'[d]),
         UNCHANGED <<RequestRetryQueue, rerequesting>>
  PROVE  EveryAttemptIsQueued'
BY DEF EveryAttemptIsQueued, Waiting

\* The head of a queue is handled; the rest is still there.
LEMMA TailKeeps ==
  ASSUME NEW S, NEW s \in Seq(S), s # <<>>
  PROVE  \A x : x \in Range(s) /\ x # Head(s) => x \in Range(Tail(s))
BY RangeHeadTail

\* A block later each entry is one block nearer, and the nearest are handled.
LEMMA QueuesMove == SigningInv /\ EveryAttemptIsQueued /\ on_initialize => EveryAttemptIsQueued'
<1> SUFFICES ASSUME SigningInv, EveryAttemptIsQueued, on_initialize PROVE EveryAttemptIsQueued'
  OBVIOUS
<1>0. MaxDelay \in Nat \ {0} /\ Delays = 0..MaxDelay /\ 0 \in Delays
  BY SigningAssumption DEF Delays
<1>1. /\ CeremonyRetryQueues \in [Delays -> Seq(Ceremonies)]
      /\ RequestRetryQueue \in [Delays -> Seq(Requests)]
      /\ retrying = <<>> /\ rerequesting = <<>>
      /\ UNCHANGED <<PendingCeremonies, PendingRequestInstructions>>
  BY DEF SigningInv, QueueType, on_initialize, InBlock
<1>2. ASSUME NEW q, NEW x, NEW d \in Delays \ {0}, x \in Range(q[d])
      PROVE  \/ x \in Range(NextBlock(q)[0])
             \/ \E e \in Delays \ {0} : x \in Range([NextBlock(q) EXCEPT ![0] = <<>>][e])
  <2>1. d - 1 \in Delays /\ d - 1 # MaxDelay /\ (d - 1) + 1 = d
    BY <1>0
  <2>2. NextBlock(q)[d - 1] = q[d]
    BY <2>1 DEF NextBlock
  <2>3. CASE d = 1
    BY <1>2, <2>2, <2>3
  <2>4. CASE d # 1
    <3>1. d - 1 \in Delays \ {0}
      BY <2>1, <2>4, <1>0
    <3>2. [NextBlock(q) EXCEPT ![0] = <<>>][d - 1] = NextBlock(q)[d - 1]
      BY <1>0, <3>1 DEF NextBlock
    <3> QED BY <1>2, <2>2, <3>1, <3>2
  <2> QED BY <2>3, <2>4
<1>3. \A x : x \notin Range(<<>>)
  BY DEF Range
<1>4. /\ retrying' = NextBlock(CeremonyRetryQueues)[0]
      /\ rerequesting' = NextBlock(RequestRetryQueue)[0]
      /\ CeremonyRetryQueues' = [NextBlock(CeremonyRetryQueues) EXCEPT ![0] = <<>>]
      /\ RequestRetryQueue' = [NextBlock(RequestRetryQueue) EXCEPT ![0] = <<>>]
  BY DEF on_initialize, TakeQueues
<1>5. \A c \in Ceremonies : PendingCeremonies'[c] # None =>
        \/ c \in Range(retrying')
        \/ \E d \in Delays \ {0} : c \in Range(CeremonyRetryQueues'[d])
  BY <1>1, <1>2, <1>3, <1>4, Zenon DEF EveryAttemptIsQueued
<1>6. \A r \in Requests : PendingRequestInstructions'[r] # None =>
        \/ r \in Range(rerequesting')
        \/ \E d \in Delays \ {0} : r \in Range(RequestRetryQueue'[d])
  BY <1>1, <1>2, <1>3, <1>4, Zenon DEF EveryAttemptIsQueued, Waiting
<1> QED BY <1>5, <1>6 DEF EveryAttemptIsQueued, Waiting

\* Every other step of the pallet.
LEMMA QueuesKept ==
  ASSUME SigningInv, EveryAttemptIsQueued, 0 \notin Timeouts, [Next]_signingVars
  PROVE  EveryAttemptIsQueued'
<1>0. /\ PendingCeremonies \in [Ceremonies -> CeremonyContext \cup {None}]
      /\ PendingRequestInstructions \in [Requests -> RequestInstruction \cup {None}]
      /\ CeremonyIdCounter \in 0..MaxCeremonies
      /\ QueueType
      /\ retrying \in Seq(Ceremonies) /\ rerequesting \in Seq(Requests)
  BY SigningTypes DEF QueueType
<1>1. CASE on_initialize
  BY <1>1, QueuesMove
<1>2. CASE StaleCeremony
  <2>1. \A c \in Ceremonies : PendingCeremonies[c] # None /\ c \in Range(retrying) =>
          c \in Range(retrying')
    BY <1>0, <1>2, TailKeeps DEF StaleCeremony
  <2> QED BY <1>2, <2>1, QueuesStay DEF StaleCeremony, queues
<1>3. CASE RetryCeremony
  <2> DEFINE c == Head(retrying)
             i == PendingCeremonies[c].instruction
             pc == Without(PendingCeremonies, c)
  <2>1. /\ retrying # <<>> /\ PendingCeremonies[c] # None
        /\ new_ceremony_attempt(i, pc, PendingRequestInstructions)
        /\ retrying' = Tail(retrying) /\ UNCHANGED rerequesting
    BY <1>3 DEF RetryCeremony, RetryInstruction, Without
  <2>2. c \in Ceremonies
    BY <1>0, <2>1, RangeHeadTail
  <2>3. pc \in [Ceremonies -> CeremonyContext \cup {None}] /\ i \in RequestInstruction
    BY <1>0, <2>1, <2>2 DEF Without, CeremonyContext
  <2>4. \A b \in Ceremonies : b \in Range(retrying) /\ b # c => b \in Range(retrying')
    BY <1>0, <2>1, TailKeeps
  <2>5. pc[c] = None /\ \A b \in Ceremonies : b # c => pc[b] = PendingCeremonies[b]
    BY <1>0, <2>2 DEF Without
  <2> HIDE DEF c, i, pc
  <2>6. \A b \in Ceremonies : pc[b] # None =>
          PendingCeremonies[b] # None /\ (b \in Range(retrying) => b \in Range(retrying'))
    BY <2>4, <2>5
  <2> QED BY <1>0, <2>1, <2>3, <2>6, QueuesGrow
<1>4. CASE VerificationFailed
  <2>1. \A c \in Ceremonies : PendingCeremonies'[c] # None =>
          /\ PendingCeremonies[c] # None
          /\ c \in Range(retrying) => c \in Range(retrying')
    BY <1>0, <1>4, TailKeeps DEF VerificationFailed
  <2> QED BY <1>4, <2>1, QueuesStay DEF VerificationFailed, queues
<1>5. CASE RetryRequest
  <2> DEFINE r == Head(rerequesting)
             i == PendingRequestInstructions[r]
             pri == Without(PendingRequestInstructions, r)
  <2>1. /\ rerequesting # <<>> /\ rerequesting' = Tail(rerequesting) /\ UNCHANGED retrying
    BY <1>5 DEF RetryRequest
  <2>2. r \in Requests
    BY <1>0, <2>1, RangeHeadTail
  <2>3. \A s \in Requests : s \in Range(rerequesting) /\ s # r => s \in Range(rerequesting')
    BY <1>0, <2>1, TailKeeps
  <2>4. CASE i = None
    <3>1. UNCHANGED <<PendingCeremonies, PendingRequestInstructions, queues>>
      BY <1>5, <2>4 DEF RetryRequest
    <3> HIDE DEF r
    <3> QED BY <2>1, <2>3, <2>4, <3>1 DEF EveryAttemptIsQueued, Waiting, queues
  <2>5. CASE i # None
    <3>1. new_ceremony_attempt(i, PendingCeremonies, pri)
      BY <1>5, <2>5 DEF RetryRequest, Without
    <3>2. pri \in [Requests -> RequestInstruction \cup {None}] /\ i \in RequestInstruction
      BY <1>0, <2>2, <2>5 DEF Without
    <3>3. pri[r] = None /\ \A s \in Requests : s # r => pri[s] = PendingRequestInstructions[s]
      BY <1>0, <2>2 DEF Without
    <3> HIDE DEF r, i, pri
    <3>4. \A s \in Requests : pri[s] # None =>
            /\ PendingRequestInstructions[s] # None
            /\ s \in Range(rerequesting) => s \in Range(rerequesting')
      BY <2>3, <3>3
    <3> QED BY <1>0, <2>1, <3>1, <3>2, <3>4, QueuesGrow, Zenon
  <2> QED BY <2>4, <2>5
<1>6. ASSUME NEW c \in Ceremonies, signature_success(c)
      PROVE  EveryAttemptIsQueued'
  <2>1. PendingCeremonies[c].instruction.request_id \in Requests
    BY <1>0, <1>6 DEF signature_success, CeremonyContext, RequestInstruction
  <2>2. /\ \A b \in Ceremonies : PendingCeremonies'[b] # None => PendingCeremonies[b] # None
        /\ \A r \in Requests : PendingRequestInstructions'[r] # None =>
             PendingRequestInstructions[r] # None
    BY <1>0, <1>6, <2>1 DEF signature_success
  <2> QED BY <1>6, <2>2, QueuesStay DEF signature_success, queues
<1>7. ASSUME NEW v \in Validators, NEW c \in Ceremonies, NEW blamed \in SUBSET Validators,
             report_signature_failed(v, c, blamed)
      PROVE  EveryAttemptIsQueued'
  <2>1. 1 \in Delays
    BY SigningAssumption DEF Delays
  <2>2. \A d \in Delays : Range(CeremonyRetryQueues[d]) \subseteq Range(CeremonyRetryQueues'[d])
    <3> DEFINE more == [CeremonyRetryQueues EXCEPT ![1] = Append(@, c)]
    <3>1. CeremonyRetryQueues' = more \/ UNCHANGED CeremonyRetryQueues
      BY <1>7 DEF report_signature_failed, schedule_ceremony_retry
    <3>2. \A d \in Delays : Range(CeremonyRetryQueues[d]) \subseteq Range(more[d])
      BY <1>0, <2>1, QueueAppend, Zenon DEF QueueType
    <3> HIDE DEF more
    <3> QED BY <3>1, <3>2
  <2>3. \A b \in Ceremonies : PendingCeremonies'[b] # None => PendingCeremonies[b] # None
    BY <1>0, <1>7 DEF report_signature_failed
  <2> QED BY <1>7, <2>2, <2>3, QueuesStay DEF report_signature_failed
<1>8. ASSUME NEW i \in RequestInstruction, NEW callback, inner_request_signature(i, callback),
             UNCHANGED <<retrying, rerequesting>>
      PROVE  EveryAttemptIsQueued'
  <2> DEFINE r == ThresholdSignatureRequestIdCounter + 1
             j == [i EXCEPT !.request_id = r]
  <2>1. j \in RequestInstruction
           /\ new_ceremony_attempt(j, PendingCeremonies, PendingRequestInstructions)
    BY <1>8 DEF inner_request_signature, RequestInstruction
  <2> HIDE DEF j
  <2> QED BY <1>0, <1>8, <2>1, QueuesGrow
<1>9. ASSUME NEW callback \in Callbacks \cup {NoCallback}, request_signature(callback)
      PROVE  EveryAttemptIsQueued'
  <2> DEFINE i == [request_id |-> 1, type |-> "Standard", key |-> active_key.key,
                   epoch |-> active_key.epoch, participants |-> {}]
  <2>1. active_key.key \in Keys \cup {None} /\ active_key.epoch \in Epochs
    <3>1. CASE active_key \in EpochKey
      BY <3>1 DEF EpochKey
    <3>2. CASE active_key = NoEpochKey
      BY <3>2, SigningAssumption DEF NoEpochKey
    <3> QED BY <1>0, <3>1, <3>2 DEF QueueType
  <2>2. 1 \in Requests
    BY <1>9, SigningAssumption DEF request_signature, inner_request_signature, Requests,
         SigningInv, CoreInv
  <2>3. i \in RequestInstruction
    BY <2>1, <2>2 DEF RequestInstruction, RequestTypes
  <2> HIDE DEF i
  <2> QED BY <1>8, <1>9, <2>3 DEF request_signature, i
<1>10. ASSUME NEW key \in Keys, NEW epoch \in Epochs \ {0}, NEW callback \in Callbacks,
              verify_key(key, epoch, callback)
       PROVE  EveryAttemptIsQueued'
  <2> DEFINE i == [request_id |-> 1, type |-> "KeygenVerification", key |-> key,
                   epoch |-> epoch, participants |-> AuthoritiesAt[epoch]]
  <2>1. 1 \in Requests
    BY <1>10, SigningAssumption DEF verify_key, VerificationRequest, inner_request_signature,
         Requests, SigningInv, CoreInv
  <2>2. AuthoritiesAt[epoch] \in SUBSET Validators
    BY SigningAssumption
  <2>3. i \in RequestInstruction
    BY <2>1, <2>2 DEF RequestInstruction, RequestTypes
  <2> HIDE DEF i
  <2> QED BY <1>8, <1>10, <2>3 DEF verify_key, VerificationRequest, i
<1>11. CASE \/ \E t \in Timeouts : set_threshold_signature_timeout(t)
            \/ \E epoch \in Epochs, key \in Keys : set_key_for_epoch(epoch, key)
            \/ UNCHANGED signingVars
  BY <1>11, QueuesStay
     DEF set_threshold_signature_timeout, set_key_for_epoch, signingVars, queues
<1> QED BY <1>1, <1>2, <1>3, <1>4, <1>5, <1>6, <1>7, <1>9, <1>10, <1>11 DEF Next, SigningStep

\* If governance never sets a timeout of zero blocks, every unanswered request has exactly one
\* attempt, that attempt is queued for a later block and keeps the key of the request, and the
\* callback runs once.
THEOREM RequestsAreKept ==
  ASSUME 0 \notin Timeouts
  PROVE  Spec => RequestsAreTracked
<1>1. Init => SigningInv /\ EveryAttemptIsQueued
  <2>1. ASSUME Init PROVE EveryAttemptIsQueued
    BY <2>1 DEF Init, InitSigning, EveryAttemptIsQueued, Waiting
  <2> QED BY <2>1, SigningInit DEF Init
<1>2. SigningInv /\ EveryAttemptIsQueued /\ [Next]_signingVars
        => SigningInv' /\ EveryAttemptIsQueued'
  BY SigningNextStep, QueuesKept
<1> QED BY <1>1, <1>2, SigningInvGives, KeyIsKept, PTL DEF Spec, RequestsAreTracked

-----------------------------------------------------------------------------
(* The promise of SignatureRequests.                                       *)

\* The life of an unanswered request is told by its carrier, that of an answered one by its
\* result.
AnswerOf(r) ==
  LET result == IF delivered[r] = <<>> THEN Signature[r] ELSE delivered[r][1]
  IN IF result.status = "Ok" THEN "signed" ELSE "failed"
LifeOf(r) ==
  IF r > ThresholdSignatureRequestIdCounter THEN "unused"
  ELSE IF r \in Unanswered
       THEN IF Carrier[r].type = "KeygenVerification" THEN "verification" ELSE "standard"
       ELSE AnswerOf(r)

LEMMA StateIsLife ==
  ASSUME SigningInv, NEW r \in Requests
  PROVE  RequestState(r) = LifeOf(r) /\ (r \in Unanswered => r <= ThresholdSignatureRequestIdCounter)
<1>1. r \in Unanswered <=> Signature[r] = Pending
  BY DEF Unanswered
<1>2. r \in Unanswered => ~(r > ThresholdSignatureRequestIdCounter)
  BY UnansweredFacts
<1>3. r <= ThresholdSignatureRequestIdCounter <=> ~(r > ThresholdSignatureRequestIdCounter)
  BY SigningTypes, SigningAssumption DEF Requests
<1>4. ASSUME r \in Unanswered
      PROVE  (\E c \in Attempts(r) :
                PendingCeremonies[c].instruction.type = "KeygenVerification")
             <=> Carrier[r].type = "KeygenVerification"
  <2>1. \A c \in Attempts(r) : PendingCeremonies[c].instruction = Carrier[r]
    BY CeremonyFacts DEF Attempts
  <2>2. CASE PendingRequestInstructions[r] # None
    BY <1>4, <2>2, UnansweredFacts
  <2>3. CASE PendingRequestInstructions[r] = None
    <3>1. Attempts(r) # {}
      BY <1>4, <2>3, UnansweredFacts
    <3> QED BY <2>1, <3>1
  <2> QED BY <2>2, <2>3
<1>5. CASE r > ThresholdSignatureRequestIdCounter
  <2>1. Signature[r] # Pending
    BY <1>1, <1>2, <1>5
  <2>2. RequestState(r) = "unused"
    BY <1>5, <2>1, Zenon DEF RequestState
  <2> QED BY <1>2, <1>5, <2>2 DEF LifeOf
<1>6. CASE ~(r > ThresholdSignatureRequestIdCounter) /\ r \in Unanswered
  <2>1. RequestState(r) = IF \E c \in Attempts(r) :
                               PendingCeremonies[c].instruction.type = "KeygenVerification"
                          THEN "verification" ELSE "standard"
    BY <1>1, <1>6, Zenon DEF RequestState
  <2> QED BY <1>3, <1>4, <1>6, <2>1, Zenon DEF LifeOf
<1>7. CASE ~(r > ThresholdSignatureRequestIdCounter) /\ r \notin Unanswered
  BY <1>1, <1>7 DEF RequestState, LifeOf, AnswerOf
<1> QED BY <1>2, <1>3, <1>5, <1>6, <1>7

\* A step of the pallet is a step of the promise or leaves every request where it is.
LEMMA PromiseStep ==
  ASSUME SigningInv, SigningInv',
         \/ KeepsRequests
         \/ \E r \in Requests : Asks(r)
         \/ \E r \in Requests, result \in Results : Answers(r, result)
  PROVE  \/ \A r \in Requests : LifeOf(r)' = LifeOf(r)
         \/ \E r \in Requests :
              /\ \A s \in Requests \ {r} : LifeOf(s)' = LifeOf(s)
              /\ \/ LifeOf(r) = "unused" /\ LifeOf(r)' \in {"standard", "verification"}
                 \/ LifeOf(r) \in {"standard", "verification"} /\ LifeOf(r)' = "signed"
                 \/ LifeOf(r) = "verification" /\ LifeOf(r)' = "failed"
<1>0. /\ ThresholdSignatureRequestIdCounter \in Nat /\ Requests \subseteq Nat
      /\ \A r \in Unanswered : r \in Requests /\ ~(r > ThresholdSignatureRequestIdCounter)
  <2>1. /\ ThresholdSignatureRequestIdCounter \in Nat /\ Requests \subseteq Nat
    BY SigningTypes, SigningAssumption DEF Requests
  <2>2. \A r \in Unanswered : r \in Requests /\ ~(r > ThresholdSignatureRequestIdCounter)
    BY UnansweredFacts
  <2> QED BY <2>1, <2>2
<1>1. CASE KeepsRequests
  <2>1. \A r \in Requests : AnswerOf(r)' = AnswerOf(r)
    BY <1>1 DEF KeepsRequests, AnswerOf
  <2>2. \A r \in Requests : LifeOf(r)' = LifeOf(r)
    BY <1>1, <2>1 DEF KeepsRequests, LifeOf
  <2> QED BY <2>2
<1>2. ASSUME NEW r \in Requests, Asks(r)
      PROVE  /\ \A s \in Requests \ {r} : LifeOf(s)' = LifeOf(s)
             /\ LifeOf(r) = "unused" /\ LifeOf(r)' \in {"standard", "verification"}
  <2>1. /\ r = ThresholdSignatureRequestIdCounter + 1
        /\ ThresholdSignatureRequestIdCounter' = r
        /\ Unanswered' = Unanswered \cup {r}
        /\ \A s \in Unanswered : Carrier'[s] = Carrier[s]
        /\ Signature' = [Signature EXCEPT ![r] = Pending] /\ UNCHANGED delivered
    BY <1>2 DEF Asks
  <2>2. \A s \in Requests \ {r} : AnswerOf(s)' = AnswerOf(s)
    BY <2>1, SigningTypes DEF AnswerOf
  <2>3. \A s \in Requests \ {r} :
          (s > ThresholdSignatureRequestIdCounter') <=> (s > ThresholdSignatureRequestIdCounter)
    BY <1>0, <2>1
  <2>4. \A s \in Requests \ {r} : LifeOf(s)' = LifeOf(s)
    BY <2>1, <2>2, <2>3 DEF LifeOf
  <2>5. r > ThresholdSignatureRequestIdCounter /\ ~(r > ThresholdSignatureRequestIdCounter')
    BY <1>0, <2>1
  <2> QED BY <2>1, <2>4, <2>5 DEF LifeOf
<1>3. ASSUME NEW r \in Requests, NEW result \in Results, Answers(r, result)
      PROVE  /\ \A s \in Requests \ {r} : LifeOf(s)' = LifeOf(s)
             /\ \/ LifeOf(r) \in {"standard", "verification"} /\ LifeOf(r)' = "signed"
                \/ LifeOf(r) = "verification" /\ LifeOf(r)' = "failed"
  <2>1. /\ r \in Unanswered /\ Unanswered' = Unanswered \ {r}
        /\ UNCHANGED ThresholdSignatureRequestIdCounter
        /\ \A s \in Unanswered' : Carrier'[s] = Carrier[s]
        /\ maybe_dispatch_callback(r, result)
        /\ \/ result.status = "Ok"
           \/ result.status = "Err" /\ Carrier[r].type = "KeygenVerification"
    BY <1>3 DEF Answers
  <2>2. \A s \in Requests \ {r} : AnswerOf(s)' = AnswerOf(s)
    <3>1. \A s \in Requests \ {r} : Signature'[s] = Signature[s] /\ delivered'[s] = delivered[s]
      BY <2>1, SigningTypes DEF maybe_dispatch_callback
    <3> QED BY <3>1 DEF AnswerOf
  <2>3. \A s \in Requests \ {r} : LifeOf(s)' = LifeOf(s)
    BY <2>1, <2>2 DEF LifeOf
  <2>4. delivered[r] = <<>> /\ delivered[r] \in Seq(Results)
    BY Zenon, <2>1, SigningTypes, UnansweredFacts
  <2>5. AnswerOf(r)' = IF result.status = "Ok" THEN "signed" ELSE "failed"
    <3>1. CASE RequestCallback[r] = NoCallback
      <4>1. delivered'[r] = <<>> /\ Signature'[r] = result
        BY <2>1, <2>4, <3>1, SigningTypes DEF maybe_dispatch_callback
      <4> QED BY <4>1 DEF AnswerOf
    <3>2. CASE RequestCallback[r] # NoCallback
      <4>1. delivered'[r] = Append(<<>>, result)
        BY <2>1, <2>4, <3>2, SigningTypes DEF maybe_dispatch_callback
      <4>2. Append(<<>>, result) # <<>> /\ Append(<<>>, result)[1] = result
        OBVIOUS
      <4> QED BY <4>1, <4>2 DEF AnswerOf
    <3> QED BY <3>1, <3>2
  <2>6. LifeOf(r)' = AnswerOf(r)'
    BY <1>0, <2>1 DEF LifeOf
  <2>7. LifeOf(r) = IF Carrier[r].type = "KeygenVerification" THEN "verification" ELSE "standard"
    BY <1>0, <2>1 DEF LifeOf
  <2> QED BY <2>1, <2>3, <2>5, <2>6, <2>7
<1> QED BY <1>1, <1>2, <1>3

\* The pallet implements the safety part of SignatureRequests: requests are asked for once,
\* a standard request is only ever signed, only a key verification can fail, and an answer is
\* final, whatever is retried, reported or late.
THEOREM AnswersAreFinal == Spec => Promise!Safety
<1>1. Init => SigningInv
  BY SigningInit DEF Init
<1>2. SigningInv /\ [Next]_signingVars => SigningInv'
  BY SigningNextStep
<1>3. Init => Promise!Init
  <2> SUFFICES ASSUME Init, NEW r \in Requests PROVE RequestState(r) = "unused"
    BY DEF Promise!Init
  <2>1. r > 0
    BY SigningAssumption DEF Requests
  <2>2. ThresholdSignatureRequestIdCounter = 0
    BY DEF Init, InitSigning
  <2>3. LifeOf(r) = "unused"
    BY <2>1, <2>2 DEF LifeOf
  <2> QED BY <1>1, <2>3, StateIsLife
<1>4. SigningInv => \A r \in Requests : RequestState(r) = LifeOf(r)
  BY StateIsLife
<1>5. (SigningInv => \A r \in Requests : RequestState(r) = LifeOf(r))'
  BY <1>4, PTL
<1>6. SigningInv /\ SigningInv' /\ [Next]_signingVars
        => [Promise!Next]_([r \in Requests |-> RequestState(r)])
  <2> SUFFICES ASSUME SigningInv, SigningInv', [Next]_signingVars
               PROVE  [Promise!Next]_([r \in Requests |-> RequestState(r)])
    OBVIOUS
  <2> DEFINE now == [r \in Requests |-> RequestState(r)]
             then == [r \in Requests |-> RequestState(r)']
  <2>1. \A r \in Requests : now[r] = LifeOf(r) /\ then[r] = LifeOf(r)'
    <3>1. \A r \in Requests : RequestState(r) = LifeOf(r)
      BY StateIsLife
    <3> QED BY <1>5, <3>1
  <2>2. \/ KeepsRequests
        \/ \E r \in Requests : Asks(r)
        \/ \E r \in Requests, result \in Results : Answers(r, result)
    BY SigningNextStep
  <2>3. CASE \A r \in Requests : LifeOf(r)' = LifeOf(r)
    <3>1. then = now
      BY <2>1, <2>3
    <3> QED BY <3>1
  <2>4. ASSUME NEW r \in Requests,
               \A s \in Requests \ {r} : LifeOf(s)' = LifeOf(s),
               \/ LifeOf(r) = "unused" /\ LifeOf(r)' \in {"standard", "verification"}
               \/ LifeOf(r) \in {"standard", "verification"} /\ LifeOf(r)' = "signed"
               \/ LifeOf(r) = "verification" /\ LifeOf(r)' = "failed"
        PROVE  Promise!Next
    <3>1. then = [now EXCEPT ![r] = LifeOf(r)']
      BY <2>1, <2>4, Zenon
    <3>2. now[r] = LifeOf(r)
      BY <2>1
    <3> QED BY <2>4, <3>1, <3>2, Zenon DEF Promise!Next, Promise!Ask, Promise!Sign, Promise!Fail
  <2> QED BY <2>2, <2>3, <2>4, PromiseStep
<1> QED BY <1>1, <1>2, <1>3, <1>6, PTL DEF Spec, Promise!Safety

-----------------------------------------------------------------------------
(* Ceremonies: their ids, and whom their candidates have blamed.           *)

\* The number of validators in a set; proved in RotationProofs.
CountingFacts ==
  /\ Cardinality({}) = 0
  /\ \A S \in SUBSET Validators : Cardinality(S) \in Nat
  /\ \A S, T \in SUBSET Validators : T \subseteq S => Cardinality(T) <= Cardinality(S)
  /\ \A S \in SUBSET Validators, v \in Validators :
       v \notin S => Cardinality(S \cup {v}) = Cardinality(S) + 1

\* Each candidate that has reported blamed a candidate at most once, and honest ones blamed
\* faulty ones only.
FairlyBlamed(context) ==
  /\ context.remaining_respondents \subseteq context.candidates
  /\ \A v \in Validators \ Faulty :
       context.blame_counts[v]
         <= Cardinality((context.candidates \ context.remaining_respondents) \cap Faulty)
BlameInv ==
  \A c \in Ceremonies : PendingCeremonies[c] # None => FairlyBlamed(PendingCeremonies[c])

\* Ids only grow, and no ceremony comes back under its id.
IdsGrow ==
  /\ CeremonyIdCounter' \in CeremonyIdCounter..MaxCeremonies
  /\ \A c \in Ceremonies : c <= CeremonyIdCounter /\ PendingCeremonies[c] = None =>
                             PendingCeremonies'[c] = None

LEMMA SameCeremonies ==
  ASSUME SigningInv, BlameInv, UNCHANGED CeremonyIdCounter,
         \A c \in Ceremonies : PendingCeremonies'[c] \in {PendingCeremonies[c], None}
  PROVE  IdsGrow /\ BlameInv'
<1>1. CeremonyIdCounter \in 0..MaxCeremonies /\ MaxCeremonies \in Nat
  BY SigningTypes, SigningAssumption
<1>2. IdsGrow
  BY <1>1 DEF IdsGrow
<1>3. BlameInv'
  BY DEF BlameInv
<1> QED BY <1>2, <1>3

LEMMA FreshAttempt ==
  ASSUME CountingFacts, SigningInv, BlameInv, NEW i, NEW pri, NEW pc,
         DOMAIN pc = Ceremonies, new_ceremony_attempt(i, pc, pri),
         \A c \in Ceremonies : pc[c] \in {PendingCeremonies[c], None}
  PROVE  IdsGrow /\ BlameInv'
<1>0. CeremonyIdCounter \in 0..MaxCeremonies /\ MaxCeremonies \in Nat
  BY SigningTypes, SigningAssumption
<1>1. CASE SignersUnavailable(i, pc, pri)
  BY <1>1, SameCeremonies DEF SignersUnavailable
<1>2. ASSUME NEW candidates, CeremonyStarted(i, candidates, pc, pri)
      PROVE  IdsGrow /\ BlameInv'
  <2> DEFINE id == CeremonyIdCounter + 1
             new == [instruction |-> i, candidates |-> candidates,
                     remaining_respondents |-> candidates,
                     blame_counts |-> [v \in Validators |-> 0]]
  <2>1. /\ id \in Ceremonies /\ CeremonyIdCounter' = id
        /\ PendingCeremonies' = [pc EXCEPT ![id] = new]
    BY <1>0, <1>2 DEF CeremonyStarted, increment_ceremony_id, Ceremonies
  <2>2. FairlyBlamed(new)
    <3>1. (candidates \ candidates) \cap Faulty = {} /\ Cardinality({}) = 0
      BY DEF CountingFacts
    <3> QED BY <3>1 DEF FairlyBlamed
  <2>3. \A c \in Ceremonies : c <= CeremonyIdCounter => c # id
    BY <1>0 DEF Ceremonies
  <2>4. id \in CeremonyIdCounter..MaxCeremonies
    BY <1>0, <2>1 DEF Ceremonies
  <2> HIDE DEF id, new
  <2>5. PendingCeremonies'[id] = new /\ \A c \in Ceremonies : c # id => PendingCeremonies'[c] = pc[c]
    BY <2>1
  <2>6. IdsGrow
    BY <2>1, <2>3, <2>4, <2>5 DEF IdsGrow
  <2>7. BlameInv'
    BY <2>2, <2>5 DEF BlameInv
  <2> QED BY <2>6, <2>7
<1> QED BY <1>1, <1>2 DEF new_ceremony_attempt

\* A report of a failure counts once, for candidates that the reporter may blame.
LEMMA BlameReport ==
  ASSUME CountingFacts, SigningInv, BlameInv, NEW v \in Validators, NEW c \in Ceremonies,
         NEW blamed \in SUBSET Validators, report_signature_failed(v, c, blamed)
  PROVE  IdsGrow /\ BlameInv'
<1> DEFINE old == PendingCeremonies[c]
           new == CountBlame(old, v, blamed)
           S == (old.candidates \ old.remaining_respondents) \cap Faulty
           T == (new.candidates \ new.remaining_respondents) \cap Faulty
<1>1. /\ old # None /\ v \in old.remaining_respondents
      /\ v \notin Faulty => blamed \subseteq Faulty
      /\ PendingCeremonies' = [PendingCeremonies EXCEPT ![c] = new]
      /\ UNCHANGED CeremonyIdCounter
  BY DEF report_signature_failed, counters
<1>2. /\ old \in CeremonyContext /\ FairlyBlamed(old)
      /\ PendingCeremonies \in [Ceremonies -> CeremonyContext \cup {None}]
      /\ CeremonyIdCounter \in 0..MaxCeremonies /\ MaxCeremonies \in Nat
  BY Zenon, <1>1, SigningTypes, SigningAssumption DEF BlameInv
<1>3. /\ new.candidates = old.candidates
      /\ new.remaining_respondents = old.remaining_respondents \ {v}
      /\ \A w \in Validators : new.blame_counts[w] =
           IF w \in blamed \cap old.candidates THEN old.blame_counts[w] + 1
           ELSE old.blame_counts[w]
      /\ old.candidates \in SUBSET Validators /\ old.blame_counts \in [Validators -> Nat]
  BY <1>2 DEF CountBlame, CeremonyContext
<1> HIDE DEF new
<1>4. S \in SUBSET Validators /\ Cardinality(S) \in Nat /\ v \notin S
  BY <1>1, <1>3 DEF CountingFacts
<1>5. \A w \in Validators \ Faulty : new.blame_counts[w] <= Cardinality(T)
  <2>1. \A w \in Validators \ Faulty : old.blame_counts[w] <= Cardinality(S)
    BY <1>2 DEF FairlyBlamed
  <2>2. CASE v \in Faulty
    <3>1. T = S \cup {v}
      BY <1>1, <1>2, <1>3, <2>2 DEF FairlyBlamed
    <3> HIDE DEF S, T
    <3>2. Cardinality(T) = Cardinality(S) + 1
      BY <1>4, <3>1 DEF CountingFacts
    <3> QED BY <1>3, <1>4, <2>1, <3>2
  <2>3. CASE v \notin Faulty
    <3>1. T = S
      BY <1>3, <2>3
    <3>2. \A w \in Validators \ Faulty : new.blame_counts[w] = old.blame_counts[w]
      BY <1>1, <1>3, <2>3
    <3> QED BY <2>1, <3>1, <3>2
  <2> QED BY <2>2, <2>3
<1>6. FairlyBlamed(new)
  BY Zenon, <1>2, <1>3, <1>5 DEF FairlyBlamed
<1>7. PendingCeremonies'[c] = new
        /\ \A b \in Ceremonies : b # c => PendingCeremonies'[b] = PendingCeremonies[b]
  BY <1>1, <1>2
<1>8. IdsGrow
  BY <1>1, <1>2, <1>7 DEF IdsGrow
<1>9. BlameInv'
  BY <1>6, <1>7 DEF BlameInv
<1> QED BY <1>8, <1>9

\* Every step of the pallet blames fairly.
LEMMA BlameKept ==
  ASSUME CountingFacts, SigningInv, BlameInv,
         SigningStep \/ \E i, callback : inner_request_signature(i, callback)
  PROVE  IdsGrow /\ BlameInv'
<1>0. /\ DOMAIN PendingCeremonies = Ceremonies
      /\ PendingCeremonies \in [Ceremonies -> CeremonyContext \cup {None}]
  BY SigningTypes
<1>1. CASE on_initialize \/ StaleCeremony \/ \E t \in Timeouts : set_threshold_signature_timeout(t)
  <2>1. UNCHANGED <<CeremonyIdCounter, PendingCeremonies>>
    BY Zenon, <1>1 DEF on_initialize, StaleCeremony, set_threshold_signature_timeout, counters
  <2> QED BY <2>1, SameCeremonies
<1>2. CASE RetryCeremony
  <2> DEFINE pc == Without(PendingCeremonies, Head(retrying))
  <2>1. new_ceremony_attempt(PendingCeremonies[Head(retrying)].instruction, pc,
                             PendingRequestInstructions)
    BY <1>2 DEF RetryCeremony, RetryInstruction, Without
  <2>2. DOMAIN pc = Ceremonies /\ \A c \in Ceremonies : pc[c] \in {PendingCeremonies[c], None}
    BY <1>0 DEF Without
  <2> HIDE DEF pc
  <2> QED BY <2>1, <2>2, FreshAttempt
<1>3. CASE RetryRequest
  <2> DEFINE i == PendingRequestInstructions[Head(rerequesting)]
             pri == [PendingRequestInstructions EXCEPT ![Head(rerequesting)] = None]
  <2>1. \/ UNCHANGED <<CeremonyIdCounter, PendingCeremonies>>
        \/ new_ceremony_attempt(i, PendingCeremonies, pri)
    BY Zenon, <1>3 DEF RetryRequest
  <2> HIDE DEF i, pri
  <2> QED BY <1>0, <2>1, SameCeremonies, FreshAttempt
<1>4. CASE VerificationFailed \/ \E c \in Ceremonies : signature_success(c)
  <2>1. /\ UNCHANGED CeremonyIdCounter
        /\ \A b \in Ceremonies : PendingCeremonies'[b] \in {PendingCeremonies[b], None}
    BY <1>0, <1>4 DEF VerificationFailed, signature_success, counters
  <2> QED BY <2>1, SameCeremonies
<1>5. CASE \E v \in Validators, c \in Ceremonies, blamed \in SUBSET Validators :
             report_signature_failed(v, c, blamed)
  BY <1>5, BlameReport
<1>6. CASE \E i, callback : inner_request_signature(i, callback)
  BY <1>0, <1>6, FreshAttempt DEF inner_request_signature
<1> QED BY <1>1, <1>2, <1>3, <1>4, <1>5, <1>6 DEF SigningStep

\* offenders() of a fairly blamed ceremony.
LEMMA BlameInvGives ==
  ASSUME CountingFacts, SigningInv, BlameInv
  PROVE  HonestRespondersAreSafe
<1> SUFFICES ASSUME NEW c \in Ceremonies, PendingCeremonies[c] # None,
                    3 * Cardinality(PendingCeremonies[c].candidates \cap Faulty)
                      <= 2 * Cardinality(PendingCeremonies[c].candidates)
             PROVE  offenders(PendingCeremonies[c])
                      \subseteq Faulty \cup PendingCeremonies[c].remaining_respondents
  BY DEF HonestRespondersAreSafe
<1> DEFINE context == PendingCeremonies[c]
           n == Cardinality(context.candidates)
           b == Cardinality(context.candidates \cap Faulty)
           S == (context.candidates \ context.remaining_respondents) \cap Faulty
           to_report == {v \in Validators : context.blame_counts[v] > (2 * n) \div 3}
                          \cup context.remaining_respondents
<1>1. context \in CeremonyContext /\ FairlyBlamed(context)
  BY SigningTypes DEF BlameInv
<1>2. /\ context.candidates \in SUBSET Validators
      /\ context.blame_counts \in [Validators -> Nat]
  BY <1>1 DEF CeremonyContext
<1>3. n \in Nat /\ b \in Nat /\ Cardinality(S) \in Nat /\ Cardinality(S) <= b
  <2>1. /\ S \in SUBSET (context.candidates \cap Faulty)
        /\ context.candidates \cap Faulty \in SUBSET Validators /\ S \in SUBSET Validators
    BY <1>2
  <2> HIDE DEF S
  <2> QED BY <1>2, <2>1 DEF CountingFacts
<1>4. offenders(context) \in {to_report, {}}
  BY DEF offenders
<1>5. 3 * b <= 2 * n
  OBVIOUS
<1>6. \A v \in Validators \ Faulty : context.blame_counts[v] <= Cardinality(S)
  BY <1>1 DEF FairlyBlamed
<1> HIDE DEF n, b, S, context
<1>7. \A m \in Nat : m <= Cardinality(S) => ~(m > (2 * n) \div 3)
  BY <1>3, <1>5
<1>8. \A v \in Validators : context.blame_counts[v] \in Nat
  BY <1>2
<1>9. to_report \subseteq Faulty \cup context.remaining_respondents
  BY <1>6, <1>7, <1>8
<1> QED BY <1>4, <1>9 DEF context

-----------------------------------------------------------------------------
(* Requests and blame together, as rotations use them.                     *)

SigningOk == SigningInv /\ BlameInv

\* A request is made.
LEMMA AskPart ==
  ASSUME CountingFacts, SigningOk, NEW i \in RequestInstruction, NEW callback \in Callbacks,
         inner_request_signature(i, callback),
         UNCHANGED <<ThresholdSignatureResponseTimeout, retrying, rerequesting, delivered>>,
         active_key' \in EpochKey \cup {NoEpochKey}
  PROVE  SigningOk'
<1>1. SigningInv /\ BlameInv
  BY DEF SigningOk
<1>2. SigningInv'
  BY Zenon, <1>1, AskStep
<1>3. BlameInv'
  BY <1>1, BlameKept
<1> QED BY <1>2, <1>3 DEF SigningOk

\* A signature with the active key is asked for.
LEMMA StandardAsked ==
  ASSUME CountingFacts, SigningOk, NEW callback \in Callbacks,
         inner_request_signature([request_id |-> 1, type |-> "Standard", key |-> active_key.key,
                                  epoch |-> active_key.epoch, participants |-> {}],
                                 callback),
         UNCHANGED <<ThresholdSignatureResponseTimeout, retrying, rerequesting, delivered>>,
         active_key' \in EpochKey \cup {NoEpochKey}
  PROVE  SigningOk'
<1> DEFINE i == [request_id |-> 1, type |-> "Standard", key |-> active_key.key,
                 epoch |-> active_key.epoch, participants |-> {}]
<1>0. SigningInv
  BY DEF SigningOk
<1>1. /\ active_key \in EpochKey \/ active_key = NoEpochKey
      /\ ThresholdSignatureRequestIdCounter \in 0..MaxRequests
  BY <1>0, SigningTypes DEF QueueType
<1>2. active_key.key \in Keys \cup {None} /\ active_key.epoch \in Epochs
  <2>1. CASE active_key \in EpochKey
    BY <2>1 DEF EpochKey
  <2>2. CASE active_key = NoEpochKey
    BY <2>2, SigningAssumption DEF NoEpochKey
  <2> QED BY <1>1, <2>1, <2>2
<1>3. 1 \in Requests
  BY <1>1, SigningAssumption DEF inner_request_signature, Requests
<1>4. i \in RequestInstruction
  BY Zenon, <1>2, <1>3 DEF RequestInstruction, RequestTypes
<1> HIDE DEF i
<1>5. inner_request_signature(i, callback)
  BY DEF i
<1> QED BY <1>4, <1>5, AskPart

\* A key's holders are asked for a signature with it.
LEMMA VerificationPart ==
  ASSUME CountingFacts, SigningOk,
         NEW key \in Keys, NEW participants \in SUBSET Validators, NEW e \in Epochs,
         NEW callback \in Callbacks, VerificationRequest(key, participants, e, callback)
  PROVE  SigningOk'
<1> DEFINE i == [request_id |-> 1, type |-> "KeygenVerification", key |-> key,
                 epoch |-> e, participants |-> participants]
<1>0. SigningInv
  BY DEF SigningOk
<1>1. /\ active_key \in EpochKey \cup {NoEpochKey}
      /\ ThresholdSignatureRequestIdCounter \in 0..MaxRequests
  BY <1>0, SigningTypes DEF QueueType
<1>2. 1 \in Requests
  BY <1>1, SigningAssumption DEF VerificationRequest, inner_request_signature, Requests
<1>3. i \in RequestInstruction
  BY <1>2 DEF RequestInstruction, RequestTypes
<1> HIDE DEF i
<1>4. /\ inner_request_signature(i, callback)
      /\ UNCHANGED <<ThresholdSignatureResponseTimeout, active_key, retrying, rerequesting,
                     delivered>>
  BY DEF VerificationRequest, i
<1> QED BY <1>1, <1>3, <1>4, AskPart

\* Ceremonies and requests stay as they are, an id apart.
LEMMA RequestsSame ==
  ASSUME SigningOk, QueueType', increment_ceremony_id \/ CeremonyIdCounter' = CeremonyIdCounter,
         UNCHANGED <<ThresholdSignatureRequestIdCounter, PendingCeremonies,
                     PendingRequestInstructions, RequestCallback, Signature, delivered>>
  PROVE  SigningOk'
<1>1. SigningInv /\ BlameInv
  BY DEF SigningOk
<1>2. CeremonyIdCounter \in 0..MaxCeremonies /\ MaxCeremonies \in Nat
  BY <1>1, SigningAssumption, SigningTypes
<1>3. CeremonyIdCounter' \in CeremonyIdCounter..MaxCeremonies
  BY <1>2 DEF increment_ceremony_id
<1>4. SigningInv'
  BY <1>1, <1>3, OtherStep
<1>5. BlameInv'
  BY <1>1 DEF BlameInv
<1> QED BY <1>4, <1>5 DEF SigningOk
==============================================================================
