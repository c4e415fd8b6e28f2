----------------------------- MODULE Broadcast -----------------------------
(***************************************************************************)
(* The broadcast pallet of one chain: it has an api call signed, nominates *)
(* an authority to send the transaction, tries another one when that fails *)
(* or times out, and gives up when as many failed as there are authorities.*)
(* A rotation transaction is a barrier to the broadcasts after it.         *)
(*                                                                         *)
(* Threshold signing is the set `signing' of requests in flight; fees and  *)
(* their refund are left out.  A transaction out id is the pair of a       *)
(* broadcast and the number of the signature, since each signature of a    *)
(* call gives it another out id.                                           *)
(***************************************************************************)
EXTENDS Integers, FiniteSets, FiniteSetsExt

CONSTANTS
  Validators,
  None, Nobody,       \* no broadcast data, broadcast data without a nominee
  AuthoritySets,      \* the authorities of the first epoch, of the second, ...
  Chains,             \* the chains whose barriers and signatures are considered
  BroadcastTimeout, SafeModeBlockMargin,
  RetryDelay,         \* next_attempt_delay, of the number of failed broadcasters
  OutOfTurn,          \* whether transactions are sent, and failures reported,
                      \* by others than the nominees
  MaxDelay,           \* bound on timeouts and delays
  MaxBroadcasts,      \* bound: broadcast ids are 1..MaxBroadcasts
  MaxSignatures,      \* bound on the signatures of one broadcast
  MaxSuspensions,     \* bound: how often no authority may be nominated
  MaxSafeModes        \* bound: how often retries may be disabled

Broadcasts == 1..MaxBroadcasts
OutIds == Broadcasts \X (1..MaxSignatures)
Delays == 1..MaxDelay

ASSUME BroadcastAssumptions ==
  /\ IsFiniteSet(Validators)
  /\ \A e \in DOMAIN AuthoritySets :
       AuthoritySets[e] \subseteq Validators /\ AuthoritySets[e] # {}
  /\ Chains \subseteq {"Ethereum", "Polkadot", "Bitcoin"} /\ Chains # {}
  /\ BroadcastTimeout \in Delays /\ SafeModeBlockMargin \in Delays
  /\ RetryDelay \in [0..Cardinality(Validators) -> Delays]
  /\ OutOfTurn \in BOOLEAN
  /\ {MaxSuspensions, MaxSafeModes} \subseteq Nat

VARIABLES
  chain,
  BroadcastIdCounter, PendingBroadcasts, AbortedBroadcasts, BroadcastBarriers,
  RequestSuccessCallbacks, RequestFailureCallbacks, FailedBroadcasters,
  AwaitingBroadcast,             \* the nominee, or nobody yet, of each signed broadcast
  ThresholdSignatureData,        \* the number of the last signature, 0 if there is none
  TransactionOutIdToBroadcastId, \* the out ids that the engine witnesses
  Timeouts, DelayedBroadcastRetryQueue, \* by the number of blocks from now
  expiries, delayed_retries,     \* what on_initialize has yet to process
  retry_enabled, safe_modes,
  epoch, suspensions,
  FailedForeignChainCalls,       \* the calls ingress-egress keeps for their users
  signing, signatures,           \* requests in flight, signatures requested so far
  sent,                          \* history: the out ids some nominee was asked to send
  placed, callbacks_run          \* history: barriers placed, callbacks dispatched

requests == <<BroadcastIdCounter, AbortedBroadcasts, RequestSuccessCallbacks,
              RequestFailureCallbacks, FailedForeignChainCalls, callbacks_run>>
pending == <<PendingBroadcasts, BroadcastBarriers>>
signed == <<ThresholdSignatureData, TransactionOutIdToBroadcastId>>
attempts == <<AwaitingBroadcast, Timeouts, sent, suspensions>>
signers == <<signing, signatures>>
block == <<expiries, delayed_retries>>
environment == <<chain, retry_enabled, safe_modes, epoch, placed>>
vars == <<requests, pending, FailedBroadcasters, signed, attempts,
          DelayedBroadcastRetryQueue, signers, block, environment>>

Signing == [out_id : OutIds, should_broadcast : BOOLEAN]
authorities == AuthoritySets[epoch]
InBlock == expiries = {} /\ delayed_retries = {}

TypeOK ==
  /\ chain \in Chains
  /\ BroadcastIdCounter \in 0..MaxBroadcasts
  /\ PendingBroadcasts \subseteq 1..BroadcastIdCounter
  /\ AbortedBroadcasts \subseteq (1..BroadcastIdCounter) \ PendingBroadcasts
  /\ BroadcastBarriers \subseteq placed /\ placed \subseteq 1..BroadcastIdCounter
  /\ RequestSuccessCallbacks \subseteq 1..BroadcastIdCounter
  /\ RequestFailureCallbacks \subseteq 1..BroadcastIdCounter
  /\ FailedBroadcasters \in [Broadcasts -> SUBSET Validators]
  /\ AwaitingBroadcast \in [Broadcasts -> {None} \cup Validators \cup {Nobody}]
  /\ ThresholdSignatureData \in [Broadcasts -> 0..MaxSignatures]
  /\ TransactionOutIdToBroadcastId \subseteq OutIds
  /\ Timeouts \in [Delays -> SUBSET (Broadcasts \X Validators)]
  /\ DelayedBroadcastRetryQueue \in [Delays -> SUBSET Broadcasts]
  /\ expiries \subseteq Broadcasts \X Validators /\ delayed_retries \subseteq Broadcasts
  /\ retry_enabled \in BOOLEAN /\ safe_modes \in 0..MaxSafeModes
  /\ epoch \in DOMAIN AuthoritySets /\ suspensions \in 0..MaxSuspensions
  /\ FailedForeignChainCalls \subseteq 1..BroadcastIdCounter
  /\ signing \subseteq Signing /\ signatures \in [Broadcasts -> 0..MaxSignatures]
  /\ sent \subseteq OutIds
  /\ callbacks_run \in [Broadcasts -> 0..2]

Init ==
  /\ chain \in Chains
  /\ BroadcastIdCounter = 0
  /\ PendingBroadcasts = {} /\ AbortedBroadcasts = {} /\ BroadcastBarriers = {}
  /\ RequestSuccessCallbacks = {} /\ RequestFailureCallbacks = {}
  /\ FailedBroadcasters = [b \in Broadcasts |-> {}]
  /\ AwaitingBroadcast = [b \in Broadcasts |-> None]
  /\ ThresholdSignatureData = [b \in Broadcasts |-> 0]
  /\ TransactionOutIdToBroadcastId = {}
  /\ Timeouts = [d \in Delays |-> {}]
  /\ DelayedBroadcastRetryQueue = [d \in Delays |-> {}]
  /\ expiries = {} /\ delayed_retries = {}
  /\ retry_enabled = TRUE /\ safe_modes = 0
  /\ epoch = 1 /\ suspensions = 0
  /\ FailedForeignChainCalls = {}
  /\ signing = {} /\ signatures = [b \in Broadcasts |-> 0]
  /\ sent = {} /\ placed = {} /\ callbacks_run = [b \in Broadcasts |-> 0]

(***************************************************************************)
(* Signatures, barriers and retries                                        *)
(***************************************************************************)

\* threshold_sign, and what ThresholdSigner::request_signature_with_callback
\* does for this pallet: on_signature_ready is called later.
threshold_sign(b, should_broadcast) ==
  /\ signatures[b] < MaxSignatures
  /\ signatures' = [signatures EXCEPT ![b] = @ + 1]
  /\ signing' = signing \cup {[out_id |-> <<b, signatures[b] + 1>>,
                               should_broadcast |-> should_broadcast]}

maybe_broadcast_barriers_on_rotation(b) ==
  CASE chain = "Ethereum" -> {b - 1, b} \ {0}
    [] chain = "Polkadot" -> {b}
    [] chain = "Bitcoin" -> {}

\* Only the payload of a Polkadot transaction changes, with its runtime version.
requires_signature_refresh == IF chain = "Polkadot" THEN BOOLEAN ELSE {FALSE}

\* id_limit: the broadcasts up to the first barrier may be attempted.
AllowedByBarrier(b) == \A barrier \in BroadcastBarriers : b <= barrier

schedule_for_retry(b, attempt_count) ==
  DelayedBroadcastRetryQueue' =
    [DelayedBroadcastRetryQueue EXCEPT ![RetryDelay[attempt_count]] = @ \cup {b}]

remove_pending_broadcast(b) ==
  /\ PendingBroadcasts' = PendingBroadcasts \ {b}
  /\ LET Passed == {barrier \in BroadcastBarriers :
                      /\ barrier = Min(BroadcastBarriers)
                      /\ \A p \in PendingBroadcasts' : p > barrier}
     IN BroadcastBarriers' = BroadcastBarriers \ Passed

\* Either an authority that has not failed is nominated and asked to send the
\* transaction, or, all of these being suspended, nobody is.
start_broadcast_attempt(b, signature, broadcast_data) ==
  \/ \E nominee \in authorities \ FailedBroadcasters[b] :
       /\ AwaitingBroadcast' = [AwaitingBroadcast EXCEPT ![b] = nominee]
       /\ Timeouts' = [Timeouts EXCEPT ![BroadcastTimeout] = @ \cup {<<b, nominee>>}]
       /\ sent' = sent \cup {<<b, signature>>}
       /\ UNCHANGED <<DelayedBroadcastRetryQueue, suspensions>>
  \/ /\ \/ authorities \subseteq FailedBroadcasters[b] /\ UNCHANGED suspensions
        \/ suspensions < MaxSuspensions /\ suspensions' = suspensions + 1
     /\ AwaitingBroadcast' = [AwaitingBroadcast EXCEPT ![b] = broadcast_data]
     /\ schedule_for_retry(b, Cardinality(FailedBroadcasters[b]))
     /\ UNCHANGED <<Timeouts, sent>>

\* A retry of a broadcast that is pending and signed asks for another
\* signature, or for another nominee; any other retry is ignored.
start_next_broadcast_attempt(b) ==
  \/ /\ b \in PendingBroadcasts /\ AwaitingBroadcast[b] # None
     /\ ThresholdSignatureData[b] # 0
     /\ \E refresh \in requires_signature_refresh :
          \/ /\ refresh
             /\ threshold_sign(b, TRUE)
             /\ UNCHANGED <<attempts, DelayedBroadcastRetryQueue>>
          \/ /\ ~refresh
             /\ start_broadcast_attempt(b, ThresholdSignatureData[b], AwaitingBroadcast[b])
             /\ UNCHANGED signers
  \/ /\ \/ b \notin PendingBroadcasts
        \/ AwaitingBroadcast[b] = None
        \/ ThresholdSignatureData[b] = 0
     /\ UNCHANGED <<attempts, DelayedBroadcastRetryQueue, signers>>

DropSuccessCallback(b) == RequestSuccessCallbacks \ {b}

\* The failure callback is ccm_broadcast_failed.
abort_broadcast(b) ==
  /\ FailedBroadcasters' = [FailedBroadcasters EXCEPT ![b] = {}]
  /\ IF b \in RequestFailureCallbacks
     THEN /\ callbacks_run' = [callbacks_run EXCEPT ![b] = @ + 1]
          /\ FailedForeignChainCalls' = FailedForeignChainCalls \cup {b}
     ELSE UNCHANGED <<callbacks_run, FailedForeignChainCalls>>
  /\ RequestFailureCallbacks' = RequestFailureCallbacks \ {b}
  /\ RequestSuccessCallbacks' = DropSuccessCallback(b)
  /\ remove_pending_broadcast(b)
  /\ AbortedBroadcasts' = AbortedBroadcasts \cup {b}
  /\ UNCHANGED <<BroadcastIdCounter, DelayedBroadcastRetryQueue>>

handle_broadcast_failure(b, failed_broadcaster) ==
  LET failed == FailedBroadcasters[b] \cup {failed_broadcaster}
  IN \/ /\ b \in PendingBroadcasts
        /\ failed_broadcaster \notin FailedBroadcasters[b]
        /\ IF Cardinality(failed) >= Cardinality(authorities)
           THEN abort_broadcast(b)
           ELSE /\ FailedBroadcasters' = [FailedBroadcasters EXCEPT ![b] = failed]
                /\ schedule_for_retry(b, Cardinality(failed))
                /\ UNCHANGED <<requests, pending>>
     \/ /\ b \notin PendingBroadcasts \/ failed_broadcaster \in FailedBroadcasters[b]
        /\ UNCHANGED <<FailedBroadcasters, requests, pending, DelayedBroadcastRetryQueue>>

(***************************************************************************)
(* Blocks                                                                  *)
(***************************************************************************)

\* The entries of a queue after a block whose entries are put off by `delay'.
Advance(queue) == [d \in Delays |-> IF d = MaxDelay THEN {} ELSE queue[d + 1]]

PostponeOver(queue, postponed) ==                                  \* faulty variant
  [Advance(queue) EXCEPT ![SafeModeBlockMargin] = postponed]
Postpone(queue, postponed) ==
  [Advance(queue) EXCEPT ![SafeModeBlockMargin] = @ \cup postponed]

\* With retries enabled a block handles the timeouts of its number, then the
\* retries; otherwise both are put off by SafeModeBlockMargin blocks.
on_initialize ==
  /\ InBlock
  /\ IF retry_enabled
     THEN /\ expiries' = {e \in Timeouts[1] : e[1] \in PendingBroadcasts}
          /\ delayed_retries' = DelayedBroadcastRetryQueue[1]
          /\ Timeouts' = Advance(Timeouts)
          /\ DelayedBroadcastRetryQueue' = Advance(DelayedBroadcastRetryQueue)
     ELSE /\ Timeouts' = Postpone(Timeouts, Timeouts[1])
          /\ DelayedBroadcastRetryQueue' =
               Postpone(DelayedBroadcastRetryQueue, DelayedBroadcastRetryQueue[1])
          /\ UNCHANGED block
  /\ UNCHANGED <<requests, pending, FailedBroadcasters, signed, AwaitingBroadcast, sent,
                 suspensions, signers, environment>>

HandleExpiry ==
  /\ \E e \in expiries :
       /\ \A f \in expiries : e[1] <= f[1]
       /\ handle_broadcast_failure(e[1], e[2])
       /\ expiries' = expiries \ {e}
  /\ UNCHANGED <<signed, attempts, signers, delayed_retries, environment>>

BlockedRetryLost(b) ==                                             \* faulty variant
  /\ ~AllowedByBarrier(b)
  /\ UNCHANGED <<DelayedBroadcastRetryQueue, attempts, signers>>
RequeueBlockedRetry(b) ==
  /\ ~AllowedByBarrier(b)
  /\ DelayedBroadcastRetryQueue' = [DelayedBroadcastRetryQueue EXCEPT ![1] = @ \cup {b}]
  /\ UNCHANGED <<attempts, signers>>

HandleRetry ==
  /\ expiries = {} /\ delayed_retries # {}
  /\ LET b == Min(delayed_retries)
     IN /\ \/ AllowedByBarrier(b) /\ start_next_broadcast_attempt(b)
           \/ RequeueBlockedRetry(b)
        /\ delayed_retries' = delayed_retries \ {b}
  /\ UNCHANGED <<requests, pending, FailedBroadcasters, signed, expiries, environment>>

(***************************************************************************)
(* Calls                                                                   *)
(***************************************************************************)

NewBroadcast ==
  /\ InBlock
  /\ BroadcastIdCounter < MaxBroadcasts
  /\ BroadcastIdCounter' = BroadcastIdCounter + 1

\* The calls of other pallets: egress, with the callbacks of a cross-chain message or none,
threshold_sign_and_broadcast(with_callbacks) ==
  /\ NewBroadcast
  /\ LET b == BroadcastIdCounter'
         callbacks == IF with_callbacks THEN {b} ELSE {}
     IN /\ PendingBroadcasts' = PendingBroadcasts \cup {b}
        /\ RequestSuccessCallbacks' = RequestSuccessCallbacks \cup callbacks
        /\ RequestFailureCallbacks' = RequestFailureCallbacks \cup callbacks
        /\ threshold_sign(b, TRUE)
  /\ UNCHANGED <<AbortedBroadcasts, FailedForeignChainCalls, callbacks_run, BroadcastBarriers,
                 FailedBroadcasters, signed, attempts, DelayedBroadcastRetryQueue, block,
                 environment>>

\* a rotation, whose barriers are placed if something up to them is pending,
BarriersOnRotation(b, earliest) ==
  {barrier \in maybe_broadcast_barriers_on_rotation(b) : barrier >= earliest}

threshold_sign_and_broadcast_rotation_tx ==
  /\ NewBroadcast
  /\ LET b == BroadcastIdCounter'
         barriers == BarriersOnRotation(b, Min(PendingBroadcasts \cup {b}))
     IN /\ PendingBroadcasts' = PendingBroadcasts \cup {b}
        /\ BroadcastBarriers' = BroadcastBarriers \cup barriers
        /\ placed' = placed \cup barriers
        /\ threshold_sign(b, TRUE)
  /\ UNCHANGED <<AbortedBroadcasts, RequestSuccessCallbacks, RequestFailureCallbacks,
                 FailedForeignChainCalls, callbacks_run, FailedBroadcasters, signed,
                 attempts, DelayedBroadcastRetryQueue, block, chain, retry_enabled,
                 safe_modes, epoch>>

\* a failed transfer, which is signed for its user and not broadcast,
vault_transfer_failed ==
  /\ NewBroadcast
  /\ threshold_sign(BroadcastIdCounter', FALSE)
  /\ FailedForeignChainCalls' = FailedForeignChainCalls \cup {BroadcastIdCounter'}
  /\ UNCHANGED <<AbortedBroadcasts, RequestSuccessCallbacks, RequestFailureCallbacks,
                 callbacks_run, pending, FailedBroadcasters, signed, attempts,
                 DelayedBroadcastRetryQueue, block, environment>>

\* which is signed again in the next epoch,
threshold_resign(b) ==
  /\ InBlock
  /\ b \in FailedForeignChainCalls
  /\ IF ThresholdSignatureData[b] # 0
     THEN threshold_sign(b, FALSE) /\ UNCHANGED FailedForeignChainCalls
     ELSE FailedForeignChainCalls' = FailedForeignChainCalls \ {b} /\ UNCHANGED signers
  /\ UNCHANGED <<BroadcastIdCounter, AbortedBroadcasts, RequestSuccessCallbacks,
                 RequestFailureCallbacks, callbacks_run, pending, FailedBroadcasters, signed,
                 attempts, DelayedBroadcastRetryQueue, block, environment>>

clean_up_broadcast_storage(b) ==
  /\ AwaitingBroadcast' = [AwaitingBroadcast EXCEPT ![b] = None]
  /\ RequestSuccessCallbacks' = RequestSuccessCallbacks \ {b}
  /\ RequestFailureCallbacks' = RequestFailureCallbacks \ {b}
  /\ ThresholdSignatureData' = [ThresholdSignatureData EXCEPT ![b] = 0]

\* and forgotten in the one after that.
ExpireForeignChainCall(b) ==
  /\ InBlock
  /\ b \in FailedForeignChainCalls
  /\ FailedForeignChainCalls' = FailedForeignChainCalls \ {b}
  /\ clean_up_broadcast_storage(b)
  /\ TransactionOutIdToBroadcastId' =
       TransactionOutIdToBroadcastId \ {<<b, ThresholdSignatureData[b]>>}
  /\ UNCHANGED <<BroadcastIdCounter, AbortedBroadcasts, callbacks_run, pending,
                 FailedBroadcasters, Timeouts, sent, suspensions,
                 DelayedBroadcastRetryQueue, signers, block, environment>>

\* The signature is stored; unless the call is only signed for its user, the
\* first attempt starts, or waits for the barrier.
IgnoreBarrier(b) == TRUE                                           \* faulty variant
StartsAtOnce(b) == AllowedByBarrier(b)

on_signature_ready(request) ==
  LET b == request.out_id[1]
      signature == request.out_id[2]
  IN /\ InBlock
     /\ request \in signing
     /\ signing' = signing \ {request}
     /\ ThresholdSignatureData' = [ThresholdSignatureData EXCEPT ![b] = signature]
     /\ \/ /\ request.should_broadcast
           /\ TransactionOutIdToBroadcastId' =
                TransactionOutIdToBroadcastId \cup {request.out_id}
           /\ \/ /\ StartsAtOnce(b)
                 /\ start_broadcast_attempt(b, signature, Nobody)
              \/ /\ ~StartsAtOnce(b)
                 /\ AwaitingBroadcast' = [AwaitingBroadcast EXCEPT ![b] = Nobody]
                 /\ schedule_for_retry(b, Cardinality(FailedBroadcasters[b]))
                 /\ UNCHANGED <<Timeouts, sent, suspensions>>
        \/ /\ ~request.should_broadcast
           /\ UNCHANGED <<TransactionOutIdToBroadcastId, attempts, DelayedBroadcastRetryQueue>>
     /\ UNCHANGED <<requests, pending, FailedBroadcasters, signatures, block, environment>>

\* A transaction is witnessed on the chain, possibly long after its broadcast
\* has timed out, was signed again or has been aborted.
transaction_succeeded(out_id) ==
  LET b == out_id[1]
  IN /\ InBlock
     /\ out_id \in TransactionOutIdToBroadcastId
     /\ OutOfTurn \/ out_id \in sent
     /\ remove_pending_broadcast(b)
     /\ callbacks_run' = IF b \in RequestSuccessCallbacks
                         THEN [callbacks_run EXCEPT ![b] = @ + 1] ELSE callbacks_run
     /\ FailedBroadcasters' = [FailedBroadcasters EXCEPT ![b] = {}]
     /\ clean_up_broadcast_storage(b)
     /\ TransactionOutIdToBroadcastId' =
          TransactionOutIdToBroadcastId \ {out_id, <<b, ThresholdSignatureData[b]>>}
     /\ UNCHANGED <<BroadcastIdCounter, AbortedBroadcasts, FailedForeignChainCalls, Timeouts,
                    sent, suspensions, DelayedBroadcastRetryQueue, signers, block, environment>>

\* Any validator may report; the engine does so for what it was asked to send.
transaction_failed(b, reporter) ==
  /\ InBlock
  /\ b \in PendingBroadcasts
  /\ OutOfTurn \/ \E d \in Delays : <<b, reporter>> \in Timeouts[d]
  /\ handle_broadcast_failure(b, reporter)
  /\ UNCHANGED <<signed, attempts, signers, block, environment>>

(***************************************************************************)
(* The environment, and the specification                                  *)
(***************************************************************************)

SetSafeMode ==
  /\ InBlock
  /\ retry_enabled' = ~retry_enabled
  /\ IF retry_enabled
     THEN safe_modes < MaxSafeModes /\ safe_modes' = safe_modes + 1
     ELSE UNCHANGED safe_modes
  /\ UNCHANGED <<requests, pending, FailedBroadcasters, signed, attempts,
                 DelayedBroadcastRetryQueue, signers, block, chain, epoch, placed>>

NewEpoch ==
  /\ InBlock
  /\ epoch + 1 \in DOMAIN AuthoritySets
  /\ epoch' = epoch + 1
  /\ UNCHANGED <<requests, pending, FailedBroadcasters, signed, attempts,
                 DelayedBroadcastRetryQueue, signers, block, chain, retry_enabled,
                 safe_modes, placed>>

ProcessBlock == on_initialize \/ HandleExpiry \/ HandleRetry

Next ==
  \/ on_initialize
  \/ HandleExpiry
  \/ HandleRetry
  \/ \E with_callbacks \in BOOLEAN : threshold_sign_and_broadcast(with_callbacks)
  \/ threshold_sign_and_broadcast_rotation_tx
  \/ vault_transfer_failed
  \/ \E b \in FailedForeignChainCalls : threshold_resign(b)
  \/ \E b \in FailedForeignChainCalls : ExpireForeignChainCall(b)
  \/ \E request \in signing : on_signature_ready(request)
  \/ \E out_id \in TransactionOutIdToBroadcastId : transaction_succeeded(out_id)
  \/ \E b \in PendingBroadcasts, v \in Validators : transaction_failed(b, v)
  \/ SetSafeMode
  \/ NewEpoch

Spec == Init /\ [][Next]_vars

\* Blocks are produced, signatures arrive (ThresholdSigning retries a ceremony
\* until it succeeds) and a safe mode ends; strongly fair, since a call waits
\* for the initialization of its block.
Fairness ==
  /\ WF_vars(ProcessBlock)
  /\ \A b \in Broadcasts :
       SF_vars(\E request \in signing : request.out_id[1] = b /\ on_signature_ready(request))
  /\ SF_vars(SetSafeMode /\ ~retry_enabled)

FairSpec == Spec /\ Fairness

(***************************************************************************)
(* Properties                                                              *)
(***************************************************************************)

Scheduled(b) ==
  b \in delayed_retries \/ \E d \in Delays : b \in DelayedBroadcastRetryQueue[d]
OnTimeout(b) ==
  \E v \in Validators \ FailedBroadcasters[b] :
    <<b, v>> \in expiries \/ \E d \in Delays : <<b, v>> \in Timeouts[d]
BeingSigned(b) ==
  \E request \in signing : request.out_id[1] = b /\ request.should_broadcast

\* No pending broadcast is forgotten: its signature is on the way, a retry is
\* queued, or the timeout of a nominee that has not failed yet is, whatever
\* reports, safe modes, barriers and new signatures happen to it.
PendingIsDriven ==
  \A b \in PendingBroadcasts : BeingSigned(b) \/ Scheduled(b) \/ OnTimeout(b)

\* Once a rotation transaction is requested, nobody is asked to send a
\* broadcast behind its barrier while one up to the barrier is pending.
RotationIsABarrier ==
  \A barrier \in placed, p \in PendingBroadcasts, b \in Broadcasts :
    p <= barrier /\ barrier < b => AwaitingBroadcast[b] \in {None, Nobody}

\* Of the two callbacks of a broadcast at most one is dispatched, and once,
\* also when a transaction succeeds after its broadcast was aborted.
OneCallback == \A b \in Broadcasts : callbacks_run[b] <= 1

\* No pending broadcast is forgotten, and its caller hears of it once.
BroadcastsAreTracked == TypeOK /\ PendingIsDriven /\ OneCallback

\* Every broadcast succeeds or is aborted: the pallet aborts one that all authorities
\* have failed "to prevent infinite retries" (lib.rs:882-883).  That holds while the
\* authorities do not get fewer.  When they do, all that are left may be among those that
\* failed earlier: nobody can be nominated, the failures are counted only when another one
\* is reported, and the broadcast is retried for ever.
EveryBroadcastEnds == \A b \in Broadcasts : b \in PendingBroadcasts ~> b \notin PendingBroadcasts
=============================================================================
