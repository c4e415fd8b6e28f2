----------------------------- MODULE ScObserver -----------------------------
(***************************************************************************)
(* The State Chain observer of an engine.  The chain leaves the requests   *)
(* of a block for the engines in CfeEvents, which the next block clears;   *)
(* the observer reads them block by block, starts the ceremonies it takes  *)
(* part in, broadcasts the transactions it is nominated for, reports how   *)
(* they ended, and sends heartbeats.  The ceremony ids of a chain reach    *)
(* its multisig client one by one, whoever takes part.                     *)
(***************************************************************************)
EXTENDS Integers, Sequences, FiniteSets, SequencesExt

CONSTANTS
    Scenarios,      \* [blocks, start, errors, lost]: what the chain requests
    heartbeat_block_interval, HEARTBEAT_SAFETY_MARGIN,
    MAX_BTC_SIGNING_PAYLOADS

ASSUME HeartbeatAssumption == heartbeat_block_interval > HEARTBEAT_SAFETY_MARGIN

VARIABLES
    scenario,       \* errors: storage reads that may still fail
    sc_storage,     \* the chain's storage after each block
    observer,       \* the observer's loop and the multisig clients' latest ids
    task,           \* the futures the observer spawned
    requested,      \* ceremonies the multisig clients were asked for, in order
    sent,           \* broadcasts handed to a chain's node, in order, and by whose task
    submitted       \* extrinsics the observer submitted, in order

observerVars == <<scenario, sc_storage, observer, task, requested, sent, submitted>>

Chains == {"Evm", "Btc"}
Ids == [c \in Chains |-> 0]

\* What the chain does, as the scenario writes it.  ours: this node takes part
\* or is the nominee; n: the payloads of a signing request, or the broadcast
\* that is signed or has succeeded (the chain gives ceremonies their ids).
Request(kind, chain, ours, n) == [kind |-> kind, chain |-> chain, ours |-> ours, n |-> n]

Ceremonies == {"ThresholdSignatureRequest", "KeygenRequest", "KeyHandoverRequest"}

(***************************************************************************)
(* The chain.                                                              *)
(***************************************************************************)
FirstStorage ==
    [events |-> <<>>, ceremony_id_counter |-> Ids, broadcast_id_counter |-> Ids,
     pending |-> {}, awaiting |-> {}]

\* cfe-interface: on_initialize drops the events of the block before.
drop_events(s) == [s EXCEPT !.events = <<>>]

\* increment_ceremony_id and keygen_request, signature_request or
\* key_handover_request.  A broadcast is pending from the time its signature is
\* asked for, has a transaction once that is there, and may be sent from then on:
\* threshold_sign_and_broadcast, on_signature_ready with tx_broadcast_request,
\* and a broadcast that succeeded.
Emit(s, r) ==
    CASE r.kind \in Ceremonies ->
            [s EXCEPT !.ceremony_id_counter[r.chain] = @ + 1,
                      !.events = Append(@, [r |-> r, id |-> s.ceremony_id_counter[r.chain] + 1])]
      [] r.kind = "threshold_sign_and_broadcast" ->
            [s EXCEPT !.broadcast_id_counter[r.chain] = @ + 1,
                      !.pending = @ \cup {<<r.chain, s.broadcast_id_counter[r.chain] + 1>>}]
      [] r.kind = "TxBroadcastRequest" ->
            [s EXCEPT !.awaiting = @ \cup {<<r.chain, r.n>>},
                      !.events = Append(@, [r |-> r, id |-> r.n])]
      [] r.kind = "TransactionSucceeded" ->
            [s EXCEPT !.pending = @ \ {<<r.chain, r.n>>}, !.awaiting = @ \ {<<r.chain, r.n>>}]

\* Block n is sc_storage[n + 1]: its requests follow on_initialize.
NewBlock ==
    /\ Len(sc_storage) <= Len(scenario.blocks)
    /\ sc_storage' = Append(sc_storage,
            FoldLeft(Emit, drop_events(Last(sc_storage)), scenario.blocks[Len(sc_storage)]))
    /\ UNCHANGED <<scenario, observer, task, requested, sent, submitted>>

(***************************************************************************)
(* The start: the ids from before the first block, so that its own events  *)
(* can be processed.                                                       *)
(***************************************************************************)

get_ceremony_id_counters_before_block(s) ==
    [c \in Chains |->
        LET ids == SelectSeq(s.events, LAMBDA e : e.r.kind \in Ceremonies /\ e.r.chain = c)
        IN IF ids = <<>> THEN s.ceremony_id_counter[c] ELSE Head(ids).id - 1]

\* The engine works until its multisig client panics or one of its tasks fails.
Running == observer.started /\ ~observer.panicked /\ ~observer.failed

\* A read of the storage fails, which ends the engine.
Fail ==
    /\ scenario.errors > 0
    /\ scenario' = [scenario EXCEPT !.errors = @ - 1]
    /\ observer' = [observer EXCEPT !.failed = TRUE]
    /\ UNCHANGED <<sc_storage, task, requested, sent, submitted>>

StartObserver ==
    /\ ~observer.started /\ ~observer.failed /\ Len(sc_storage) > scenario.start
    /\ \/ /\ observer' = [observer EXCEPT !.started = TRUE, !.current = scenario.start - 1,
                !.latest = get_ceremony_id_counters_before_block(sc_storage[scenario.start + 1])]
          /\ UNCHANGED <<scenario, sc_storage, task, requested, sent, submitted>>
       \/ Fail

(***************************************************************************)
(* One event.  s holds the observer, the spawned tasks and the requests.   *)
(***************************************************************************)
Spawn(s, t) == [s EXCEPT !.task = @ \cup {t}]

\* The multisig client insists on consecutive ids.
update_latest_ceremony_id(s, c, id) ==
    [s EXCEPT !.observer.latest[c] = id,
              !.observer.panicked = @ \/ s.observer.latest[c] + 1 # id]

CeremonyTask(e) == [kind |-> e.r.kind, chain |-> e.r.chain, id |-> e.id, todo |-> <<>>]

\* faulty variant
handle_any_request(s, e) ==
    [Spawn(update_latest_ceremony_id(s, e.r.chain, e.id), CeremonyTask(e))
        EXCEPT !.requested = Append(@, <<e.r.chain, e.id>>)]

\* handle_signing_request, handle_keygen_request, handle_key_handover_request.
handle_ceremony_request(s, e) ==
    LET u == update_latest_ceremony_id(s, e.r.chain, e.id) IN
    IF e.r.ours /\ e.r.n <= MAX_BTC_SIGNING_PAYLOADS
    THEN [Spawn(u, CeremonyTask(e)) EXCEPT !.requested = Append(@, <<e.r.chain, e.id>>)]
    ELSE u



Sorted(S) == SetToSortSeq(S, <)

\* A nominee's broadcast; a Bitcoin transaction may spend the change of an
\* earlier one, so the pending ones before it that have a transaction are sent
\* first.  The task reads them from the storage of the request's block.
handle_broadcast_request(s, e, storage) ==
    LET earlier == {b \in 1 .. e.id - 1 : <<e.r.chain, b>> \in storage.pending \cap storage.awaiting}
    IN IF ~e.r.ours THEN s
       ELSE Spawn(s, [kind |-> e.r.kind, chain |-> e.r.chain, id |-> e.id,
                      todo |-> IF e.r.chain = "Btc" THEN Append(Sorted(earlier), e.id)
                               ELSE <<e.id>>])

handle_event(s, e, storage) ==
    IF e.r.kind \in Ceremonies THEN handle_ceremony_request(s, e)
    ELSE handle_broadcast_request(s, e, storage)

blocks_per_heartbeat == heartbeat_block_interval - HEARTBEAT_SAFETY_MARGIN

Heartbeat(s, n) ==
    IF n - s.observer.last_heartbeat >= blocks_per_heartbeat /\ s.observer.has_submitted_init
    THEN [s EXCEPT !.observer.last_heartbeat = n, !.submitted = Append(@, <<"heartbeat", n>>)]
    ELSE s

Commit(s) ==
    /\ observer' = s.observer /\ task' = s.task
    /\ requested' = s.requested /\ submitted' = s.submitted
    /\ UNCHANGED <<sc_storage, sent>>

\* One pass of the loop: the events of the next block in their order; when
\* they cannot be read the block is passed over.
start ==
    /\ Running /\ observer.current + 2 <= Len(sc_storage)
    /\ \E n \in {observer.current + 1} :
       \E s \in {[observer |-> [observer EXCEPT !.current = n], task |-> task,
                  requested |-> requested, submitted |-> submitted]} :
          \/ /\ Commit(Heartbeat(FoldLeft(LAMBDA t, e : handle_event(t, e, sc_storage[n + 1]),
                                          s, sc_storage[n + 1].events), n))
             /\ UNCHANGED scenario
          \/ /\ scenario.errors > 0
             /\ scenario' = [scenario EXCEPT !.errors = @ - 1]
             /\ Commit(Heartbeat([s EXCEPT !.observer.skipped = @ \cup {n}], n))

\* The first heartbeat, a minute after the start.
SubmitInitHeartbeat ==
    /\ Running /\ ~observer.has_submitted_init
    /\ observer' = [observer EXCEPT !.has_submitted_init = TRUE]
    /\ submitted' = Append(submitted, <<"heartbeat", observer.current>>)
    /\ UNCHANGED <<scenario, sc_storage, task, requested, sent>>

(***************************************************************************)
(* The spawned futures.                                                    *)
(***************************************************************************)
CallsAfter(t, ok) ==
    CASE t.kind = "ThresholdSignatureRequest" ->
            IF ok THEN "signature_success" ELSE "report_signature_failed"
      [] t.kind = "KeygenRequest" -> "report_keygen_outcome"
      [] OTHER -> "report_key_handover_outcome"

Submit(t, call) ==
    /\ task' = task \ {t}
    /\ submitted' = Append(submitted, <<call, t.chain, t.id>>)

CeremonyEnds(t) ==
    /\ t.kind \in Ceremonies /\ Running
    /\ \E ok \in BOOLEAN : Submit(t, CallsAfter(t, ok))
    /\ UNCHANGED <<scenario, sc_storage, observer, requested, sent>>

\* A transaction is handed to the node.  A failure of an earlier pending one
\* is only logged; a failure of ours is reported.
SendTransaction(t) ==
    /\ t.kind = "TxBroadcastRequest" /\ Running
    /\ sent' = Append(sent, <<t.chain, Head(t.todo), t.id>>)
    /\ \E ok \in BOOLEAN :
        /\ ~ok => scenario.lost > 0
        /\ scenario' = IF ok THEN scenario ELSE [scenario EXCEPT !.lost = @ - 1]
        /\ IF Len(t.todo) > 1
           THEN task' = (task \ {t}) \cup {[t EXCEPT !.todo = Tail(@)]} /\ UNCHANGED submitted
           ELSE IF ok THEN task' = task \ {t} /\ UNCHANGED submitted
           ELSE Submit(t, "transaction_failed")
    /\ UNCHANGED <<sc_storage, observer, requested>>

\* A Bitcoin broadcast cannot read the pending ones or the transaction of one of
\* them: the task returns the error.
ReadFails(t) ==
    /\ t.kind = "TxBroadcastRequest" /\ t.chain = "Btc" /\ Running
    /\ Fail

ObserverInit ==
    /\ scenario \in Scenarios
    /\ sc_storage = <<FirstStorage>>
    /\ observer = [started |-> FALSE, current |-> 0, latest |-> Ids, panicked |-> FALSE,
                   failed |-> FALSE,
                   skipped |-> {}, has_submitted_init |-> FALSE, last_heartbeat |-> 0]
    /\ task = {}
    /\ requested = <<>> /\ sent = <<>> /\ submitted = <<>>

ObserverNext ==
    \/ NewBlock \/ StartObserver \/ start \/ SubmitInitHeartbeat
    \/ \E t \in task : CeremonyEnds(t) \/ SendTransaction(t) \/ ReadFails(t)

\* The ceremonies, the nodes and the timer answer in the end.
ObserverFairness ==
    /\ WF_observerVars(NewBlock) /\ WF_observerVars(StartObserver)
    /\ WF_observerVars(start) /\ WF_observerVars(SubmitInitHeartbeat)
    /\ WF_observerVars(\E t \in task : CeremonyEnds(t))
    /\ WF_observerVars(\E t \in task : SendTransaction(t))

(***************************************************************************)
(* Properties                                                              *)
(***************************************************************************)
\* The events of the blocks the observer has taken, its first one included.
Seen == {<<n, e>> \in UNION {{n} \X ToSet(sc_storage[n + 1].events) :
                        n \in scenario.start .. observer.current} : TRUE}

OursToRequest(e) == e.r.kind \in Ceremonies /\ e.r.ours /\ e.r.n <= MAX_BTC_SIGNING_PAYLOADS

\* Type invariant of the observer: it is never ahead of the chain, and a
\* broadcast task has its own transaction last in what it still has to send.
ObserverTypeOK ==
    /\ observer.current <= Len(sc_storage) - 1
    /\ \A t \in task : t.chain \in Chains /\ (t.todo # <<>> => Last(t.todo) = t.id)
    /\ observer.last_heartbeat <= IF observer.current > 0 THEN observer.current ELSE 0

\* The ids the chain gives to ceremonies reach the multisig clients without a
\* gap, from whatever block the engine starts, so their assertion holds unless
\* the events of a block that requested a ceremony could not be read.
CeremonyIdsFollowTheChain ==
    observer.panicked =>
        \E n \in observer.skipped : \E i \in DOMAIN sc_storage[n + 1].events :
            sc_storage[n + 1].events[i].r.kind \in Ceremonies

\* Each ceremony of a block whose events could be read is asked for exactly once,
\* in the chain's order, and no other is.  The requests of a block that could not
\* be read are lost: the loop logs the error and goes on.
RequestedOnceInOrder ==
    /\ \A i, j \in DOMAIN requested :
        i < j /\ requested[i][1] = requested[j][1] => requested[i][2] < requested[j][2]
    /\ observer.started /\ ~observer.panicked =>
        ToSet(requested) = {<<x[2].r.chain, x[2].id>> :
            x \in {y \in Seen : y[1] \notin observer.skipped /\ OursToRequest(y[2])}}

\* When a Bitcoin transaction of ours goes to the node, every earlier broadcast that
\* was pending in the block of the request, and signed by then, was handed over
\* before, in the order of the ids ("as they may depend on each other"), whether or
\* not the node accepted it.  An earlier one that is still waiting for its signature
\* is skipped, although ours may spend its change: it is in PendingBroadcasts from
\* the start, but in AwaitingBroadcast only once it is signed (sc_observer.rs:428).
PendingSentFirst ==
    \A x \in Seen, k \in DOMAIN sent :
        LET e == x[2]
            storage == sc_storage[x[1] + 1]
            earlier == {b \in 1 .. e.id - 1 : <<"Btc", b>> \in storage.pending \cap storage.awaiting}
            sentBefore(b) == \E j \in 1 .. k - 1 : sent[j] = <<"Btc", b, e.id>>
        IN  e.r.kind = "TxBroadcastRequest" /\ e.r.chain = "Btc"
              /\ sent[k][1] = "Btc" /\ sent[k][3] = e.id
              => \A b \in earlier : b < sent[k][2] => sentBefore(b)

\* Only a failure of a transaction this node is nominated for is reported, and
\* only once it was tried.
FailuresAreOurs ==
    \A i \in DOMAIN submitted :
        submitted[i][1] = "transaction_failed" =>
            /\ <<submitted[i][2], submitted[i][3], submitted[i][3]>> \in ToSet(sent)
            /\ \E x \in Seen : /\ x[2].r.kind = "TxBroadcastRequest" /\ x[2].r.ours
                               /\ x[2].r.chain = submitted[i][2] /\ x[2].id = submitted[i][3]

\* Once the first heartbeat is out the observer never lets more blocks pass than
\* the interval less its margin.
HeartbeatsInTime ==
    [][observer'.current # observer.current /\ observer.has_submitted_init
        => observer'.current - observer'.last_heartbeat < blocks_per_heartbeat]_observerVars

\* Every ceremony asked for is reported in the end, unless the engine has ended.
OutcomesAreReported ==
    <>[](observer.panicked \/ observer.failed \/ \A request \in ToSet(requested) :
            \E i \in DOMAIN submitted :
                Len(submitted[i]) = 3 /\ Tail(submitted[i]) = request
                /\ submitted[i][1] # "transaction_failed")

\* Of the requests of the chain in blocks that could be read, exactly those for this node
\* are handed on, once and in order, with the ids the chain counts, and heartbeats are sent
\* on the way, until a panic or a failed read ends the engine.
RequestsAreFollowed ==
    /\ [](ObserverTypeOK /\ CeremonyIdsFollowTheChain /\ RequestedOnceInOrder /\ PendingSentFirst /\ FailuresAreOurs)
    /\ HeartbeatsInTime
    /\ OutcomesAreReported
=============================================================================
