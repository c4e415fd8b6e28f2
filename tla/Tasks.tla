------------------------------- MODULE Tasks --------------------------------
(***************************************************************************)
(* The concurrency of the engine: scopes of tasks, and the retrying client *)
(* through which all calls of external nodes go.                           *)
(***************************************************************************)
EXTENDS Naturals, Sequences, FiniteSets, Integers

(***************************************************************************)
(* Task scopes, in which every task of the engine runs: a top-level task   *)
(* spawns child tasks; when one of them fails the others are cancelled and *)
(* the failure is propagated, and the scope ends only when all its tasks   *)
(* are gone.                                                               *)
(*                                                                         *)
(* The model is of the multi-threaded runtime, where a cancelled task may  *)
(* run on until its next await (on the single-threaded one it is gone at   *)
(* once).  A behaviour runs one scope, whose plan says which tasks are     *)
(* spawned, how each would end, which handles the top-level task awaits    *)
(* (the others are dropped when it ends) and whether the scope's own       *)
(* future is dropped from outside.                                         *)
(***************************************************************************)

CONSTANTS ScopePlans           \* [children, parent, awaits, cancel]

VARIABLES
  scope_plan,
  parent_task,                 \* [state, next]: next is the next child to spawn
  children,                    \* child -> its state, how it ended until it is reaped
  aborted,                     \* children whose ScopedJoinHandle was dropped
  result_stream,               \* ScopeResultStream: [state, can_receive_new_tasks, non_weak_tasks]
  outcome                      \* what task_scope returns

scopeVars == <<scope_plan, parent_task, children, aborted, result_stream, outcome>>

Endings == {"Ok", "Err", "Panic"}
Child == DOMAIN scope_plan.children
Weak(i) == scope_plan.children[i].kind = "weak"
Handle(i) == scope_plan.children[i].kind = "handle"
In(states) == {i \in Child : children[i] \in states}

ScopeInit ==
  /\ scope_plan \in ScopePlans
  /\ parent_task = [state |-> "Running", next |-> 1]
  /\ children = [i \in Child |-> "Unspawned"]
  /\ aborted = {}
  /\ result_stream = [state |-> "Open", can_receive_new_tasks |-> TRUE, non_weak_tasks |-> 0]
  /\ outcome = "None"

\* Everything that ends the scope drops the top-level task and the result stream: requests
\* to spawn are dropped, and the tasks that still run are told to stop.
Close(how) ==
  /\ outcome' = how
  /\ parent_task' = [parent_task EXCEPT !.state = IF @ = "Running" THEN "Dropped" ELSE @]
  /\ result_stream' = [result_stream EXCEPT !.state = "Dropping"]

DropQueue == [i \in Child |-> IF children[i] = "Queued" THEN "Discarded" ELSE children[i]]

\* Scope::spawn, spawn_weak and spawn_with_handle.
inner_spawn ==
  /\ parent_task.state = "Running" /\ parent_task.next \in Child
  /\ children' = [children EXCEPT ![parent_task.next] = "Queued"]
  /\ parent_task' = [parent_task EXCEPT !.next = @ + 1]
  /\ UNCHANGED <<scope_plan, aborted, result_stream, outcome>>

\* The top-level task awaits the outputs of some handles and drops the others.  The scope
\* is dropped with it, and with an error or a panic everything else is too.
ParentEnds ==
  /\ parent_task.state = "Running" /\ parent_task.next \notin Child
  /\ \A i \in scope_plan.awaits : children[i] \in {"Ok", "Reaped"}
  /\ aborted' = {i \in Child : Handle(i) /\ i \notin scope_plan.awaits}
  /\ \/ /\ scope_plan.parent = "Ok"
        /\ parent_task' = [parent_task EXCEPT !.state = "Ended"]
        /\ UNCHANGED <<children, result_stream, outcome>>
     \/ /\ scope_plan.parent \in {"Err", "Panic"}
        /\ Close(scope_plan.parent)
        /\ children' = DropQueue
  /\ UNCHANGED scope_plan

\* How a running task ends that is not cancelled; the future of an aborted handle ends with Ok.
EndOf(i) == IF i \in aborted THEN "Ok" ELSE scope_plan.children[i].ends

MayEndItself(i) == EndOf(i) \in Endings                       \* faulty variant

\* Dropping the result stream aborts the tasks.
MayEnd(i) == EndOf(i) \in Endings \/ result_stream.state = "Dropping"

ChildEnds(i) ==
  /\ children[i] = "Running"
  /\ MayEnd(i)
  /\ children' = [children EXCEPT ![i] = IF EndOf(i) \in Endings THEN EndOf(i) ELSE "Cancelled"]
  /\ UNCHANGED <<scope_plan, parent_task, aborted, result_stream, outcome>>

\* The requests to spawn are started, before the stream looks whether it has ended.
StartTasks(s, queued) ==
  [s EXCEPT !.non_weak_tasks = @ + Cardinality({i \in queued : ~Weak(i)}),
            !.can_receive_new_tasks = parent_task.state = "Running"]

StreamEnds(s) == ~s.can_receive_new_tasks /\ s.non_weak_tasks = 0

\* The tasks whose result the stream can yield.
EndedTasks(s) == In(Endings)

\* poll_next of the result stream, and what task_scope does with the result.
poll_next ==
  /\ result_stream.state = "Open"
  /\ LET queued == IF result_stream.can_receive_new_tasks THEN In({"Queued"}) ELSE {}
         s == IF result_stream.can_receive_new_tasks
                THEN StartTasks(result_stream, queued) ELSE result_stream
         started == [i \in Child |-> IF i \in queued THEN "Running" ELSE children[i]]
         reaped(i) == [s EXCEPT !.non_weak_tasks = IF Weak(i) THEN @ ELSE @ - 1]
     IN \/ /\ StreamEnds(s)
           /\ result_stream' = [s EXCEPT !.state = "Dropping"]
           /\ outcome' = "Ok"
           /\ children' = started
           /\ UNCHANGED parent_task
        \/ /\ ~StreamEnds(s)
           /\ \E i \in EndedTasks(s) :
                IF children[i] = "Ok"
                  THEN /\ result_stream' = reaped(i)
                       /\ children' = [started EXCEPT ![i] = "Reaped"]
                       /\ UNCHANGED <<outcome, parent_task>>
                  ELSE /\ Close(children[i])
                       /\ children' = started
        \/ /\ ~StreamEnds(s) /\ EndedTasks(s) = {}
           /\ result_stream' = s
           /\ children' = started
           /\ UNCHANGED <<outcome, parent_task>>
  /\ UNCHANGED <<scope_plan, aborted>>

\* The future of task_scope is itself dropped.
CancelScope ==
  /\ scope_plan.cancel
  /\ result_stream.state = "Open"
  /\ Close("Cancelled")
  /\ children' = DropQueue
  /\ UNCHANGED <<scope_plan, aborted>>

TasksAreGone == In({"Running", "Queued"}) = {}

\* Dropping the result stream blocks until the last task is gone.
DropFinishes ==
  /\ result_stream.state = "Dropping"
  /\ TasksAreGone
  /\ result_stream' = [result_stream EXCEPT !.state = "Dropped"]
  /\ UNCHANGED <<scope_plan, parent_task, children, aborted, outcome>>

ScopeNext ==
  \/ inner_spawn \/ ParentEnds \/ poll_next \/ CancelScope \/ DropFinishes
  \/ \E i \in Child : ChildEnds(i)

ScopeFairness ==
  /\ WF_scopeVars(inner_spawn) /\ WF_scopeVars(ParentEnds)
  /\ WF_scopeVars(poll_next) /\ WF_scopeVars(DropFinishes)
  /\ WF_scopeVars(\E i \in Child : ChildEnds(i))

-----------------------------------------------------------------------------
(* Properties. *)

\* The type of the state, and the counter the end of the scope rests on: as long as the
\* scope is open, non_weak_tasks is the number of started strong tasks not yet reaped.
ScopeTypeOK ==
  /\ parent_task.state \in {"Running", "Ended", "Dropped"}
  /\ children \in [Child -> Endings \cup {"Unspawned", "Queued", "Discarded", "Running",
                                          "Cancelled", "Reaped"}]
  /\ result_stream.state \in {"Open", "Dropping", "Dropped"}
  /\ outcome \in Endings \cup {"None", "Cancelled"}
  /\ (result_stream.state = "Open") <=> (outcome = "None")
  /\ result_stream.state = "Open" =>
       result_stream.non_weak_tasks = Cardinality({i \in In(Endings \cup {"Running"}) : ~Weak(i)})

\* No task of the scope runs or can still be started once task_scope has returned, so the
\* references a task borrows from outside of the scope stay valid while it runs.
NothingOutlivesTheScope ==
  result_stream.state = "Dropped" => In({"Running", "Queued"}) = {}

\* task_scope returns Ok only when the top-level task and every strong child have ended
\* well, so that a failed child is never taken for a success.
OkMeansAllEndedWell ==
  outcome = "Ok" =>
    /\ parent_task.state = "Ended" /\ scope_plan.parent = "Ok"
    /\ \A i \in Child : ~Weak(i) => children[i] = "Reaped"

\* A child that fails takes the scope down, even when the top-level task awaits that
\* child's handle and so would wait for ever.  The scope then fails, unless only weak
\* children failed: the error of one is only logged when nothing else is left to wait for.
FailuresPropagate ==
  (In({"Err", "Panic"}) # {})
    ~> /\ result_stream.state = "Dropped"
       /\ outcome = "Ok" => \A i \in In({"Err", "Panic"}) : Weak(i)

\* A scope whose top-level task and strong tasks all come to an end itself ends, however long its weak tasks
\* would run.
ScopeEndsWithItsTasks ==
  (/\ scope_plan.parent \in Endings
   /\ \A i \in Child : ~Weak(i) => scope_plan.children[i].ends \in Endings)
    ~> result_stream.state = "Dropped"

(***************************************************************************)
(* The retrying client through which the engine talks to the nodes of a    *)
(* chain: requests of any number of tasks are submitted to a primary or a  *)
(* secondary node, at most maximum_submissions at a time, and submitted    *)
(* again after a delay until one succeeds, the caller has gone or the      *)
(* request has used up its attempts.  What a request asks and how long the *)
(* delays are is left out: any submission may fail or time out.            *)
(***************************************************************************)

CONSTANTS Loads,              \* the scenarios, see RetrierTypeOK
          NoLimit,            \* RetryLimit::NoLimit
          MaxRequests,        \* a bound on the requests of a scenario
          MaximumSubmissions, \* maximum_submissions
          AttemptMax          \* the largest Attempt, u32::MAX in the code

VARIABLES load,               \* who requests what from which nodes
          ready,              \* the clients that have signalled they are connected
          caller,             \* where the caller of each request is
          channel,            \* the channel of capacity one to the retrier
          last_request_id,
          stored_requests,    \* the caller of each request the holder keeps
          submissions,        \* running_submissions and submissions_buffer
          retry_delays

retrierVars == <<load, ready, caller, channel, last_request_id, stored_requests,
                 submissions, retry_delays>>

Other(client) == IF client = "Primary" THEN "Secondary" ELSE "Primary"

-----------------------------------------------------------------------------
(* What is asked of the nodes: every method of the retrying clients is one *)
(* request; only broadcasts, and the events of blocks that may be no       *)
(* longer on the chain, have a limit.                                      *)

MAX_BROADCAST_RETRIES == 2

EvmRetryRpcApi == {"get_logs_range", "get_logs", "chain_id", "transaction_receipt",
    "block", "block_with_txs", "fee_history", "get_transaction"}

EvmRetrySigningRpcApi == {"broadcast_transaction"}

BtcRetryRpcApi == {"block", "block_hash", "next_block_fee_rate",
    "average_block_fee_rate", "best_block_header"}

send_raw_transaction == "send_raw_transaction"

\* events is asked with the limit of its caller: none for finalized blocks, two attempts
\* for the others.
DotRetryRpcApi == {"block_hash", "extrinsics", "events", "best_events", "runtime_version"}
DotUnfinalisedSource == "best_events"
MAX_EVENTS_RETRIES == 2

submit_raw_encoded_extrinsic == "submit_raw_encoded_extrinsic"

RetrySubscribeApi == {"subscribe_blocks", "subscribe_best_heads",
                      "subscribe_finalized_heads"}

Broadcasts == EvmRetrySigningRpcApi
              \cup {send_raw_transaction, submit_raw_encoded_extrinsic}
Methods == EvmRetryRpcApi \cup BtcRetryRpcApi \cup DotRetryRpcApi
           \cup RetrySubscribeApi \cup Broadcasts

into_retry_limit(method) ==
    CASE method \in Broadcasts -> MAX_BROADCAST_RETRIES
      [] method = DotUnfinalisedSource -> MAX_EVENTS_RETRIES
      [] OTHER -> NoLimit

-----------------------------------------------------------------------------
Callers == DOMAIN load.requests
limit_of(x) == into_retry_limit(load.requests[x])

\* The requested client if it is connected, else the one that is.
select_client(wanted) ==
    IF wanted \in ready THEN wanted ELSE Other(wanted)

submission_future(id, limit, attempt, client) ==
    [id |-> id, limit |-> limit, attempt |-> attempt, client |-> client]

push(holder, submission) ==
    IF Cardinality(holder.running) < MaximumSubmissions
    THEN [holder EXCEPT !.running = @ \cup {submission}]
    ELSE [holder EXCEPT !.buffer = Append(@, submission)]

\* faulty variant
next_losing_first(holder, submission) ==
    [running |-> holder.running \ {submission},
     buffer |-> IF holder.buffer = <<>> THEN <<>> ELSE Tail(holder.buffer)]

\* A submission has ended: the first of the buffer takes its slot.
next_or_pending(holder, submission) ==
    IF holder.buffer = <<>>
    THEN [holder EXCEPT !.running = @ \ {submission}]
    ELSE [running |-> (holder.running \ {submission}) \cup {Head(holder.buffer)},
          buffer |-> Tail(holder.buffer)]

WithoutRequest(id) ==
    [i \in DOMAIN stored_requests \ {id} |-> stored_requests[i]]

-----------------------------------------------------------------------------
RetrierInit ==
    /\ load \in Loads
    /\ ready = {}
    /\ caller = [x \in DOMAIN load.requests |-> "idle"]
    /\ channel = <<>>
    /\ last_request_id = 0
    /\ stored_requests = [id \in {} |-> 0]
    /\ submissions = [running |-> {}, buffer |-> <<>>]
    /\ retry_delays = {}

\* A client is connected: its node answers and is on the expected chain.
ClientReady(client) ==
    /\ client \in load.nodes \ ready
    /\ ready' = ready \cup {client}
    /\ UNCHANGED <<load, caller, channel, last_request_id, stored_requests,
                   submissions, retry_delays>>

\* A task makes its request: it waits for room in the channel.
request_with_limit(x) ==
    /\ caller[x] = "idle"
    /\ channel = <<>>
    /\ channel' = <<x>>
    /\ caller' = [caller EXCEPT ![x] = "waiting"]
    /\ UNCHANGED <<load, ready, last_request_id, stored_requests, submissions,
                   retry_delays>>

\* A task that waits is cancelled.
DropRequest(x) ==
    /\ caller[x] = "waiting"
    /\ x \in load.fickle
    /\ caller' = [caller EXCEPT ![x] = "gone"]
    /\ UNCHANGED <<load, ready, channel, last_request_id, stored_requests,
                   submissions, retry_delays>>

\* The retrier takes a request, once some client is connected.
OnRequest ==
    /\ channel # <<>>
    /\ ready # {}
    /\ last_request_id' = last_request_id + 1
    /\ stored_requests' = [id \in DOMAIN stored_requests \cup {last_request_id'} |->
            IF id = last_request_id' THEN Head(channel) ELSE stored_requests[id]]
    /\ submissions' = push(submissions,
            submission_future(last_request_id', limit_of(Head(channel)), 0,
                              select_client("Primary")))
    /\ channel' = <<>>
    /\ UNCHANGED <<load, ready, caller, retry_delays>>

\* The first answer ends the request.
OnSuccess(submission) ==
    /\ submission \in submissions.running
    /\ submissions' = next_or_pending(submissions, submission)
    /\ caller' = [caller EXCEPT ![stored_requests[submission.id]] =
                        IF @ = "waiting" THEN "answered" ELSE @]
    /\ stored_requests' = WithoutRequest(submission.id)
    /\ UNCHANGED <<load, ready, channel, last_request_id, retry_delays>>

\* The node answers with an error, or not in time.
OnFailure(submission) ==
    /\ submission \in submissions.running
    /\ submissions' = next_or_pending(submissions, submission)
    /\ retry_delays' = retry_delays \cup {submission}
    /\ UNCHANGED <<load, ready, caller, channel, last_request_id, stored_requests>>

saturating_add(attempt) == IF attempt = AttemptMax THEN attempt ELSE attempt + 1

\* A limited request has had its attempts.
ReachedLimit(delayed) ==
    /\ delayed.limit # NoLimit
    /\ saturating_add(delayed.attempt) >= delayed.limit

\* The request is submitted again, to the other node if it is connected.
Retry(delayed) ==
    submissions' = push(submissions, submission_future(delayed.id, delayed.limit,
                        saturating_add(delayed.attempt), select_client(Other(delayed.client))))

\* The delay of a failed submission is over.
OnRetryDelay(delayed) ==
    /\ delayed \in retry_delays
    /\ retry_delays' = retry_delays \ {delayed}
    /\ LET x == stored_requests[delayed.id]
       IN \/ /\ caller[x] = "gone" \/ ReachedLimit(delayed)
             /\ stored_requests' = WithoutRequest(delayed.id)
             /\ caller' = [caller EXCEPT ![x] = IF @ = "waiting" THEN "error" ELSE @]
             /\ UNCHANGED submissions
          \/ /\ caller[x] # "gone" /\ ~ReachedLimit(delayed)
             /\ Retry(delayed)
             /\ UNCHANGED <<stored_requests, caller>>
    /\ UNCHANGED <<load, ready, channel, last_request_id>>

RetrierNext ==
    \/ \E client \in {"Primary", "Secondary"} : ClientReady(client)
    \/ \E x \in Callers : request_with_limit(x) \/ DropRequest(x)
    \/ OnRequest
    \/ \E s \in submissions.running : OnSuccess(s) \/ OnFailure(s)
    \/ \E d \in retry_delays : OnRetryDelay(d)

\* Connected clients, tasks and delays do not stall, every submission ends or
\* times out, and the healthy node answers a request it gets again and again.
RetrierFairness ==
    /\ \A c \in {"Primary", "Secondary"} : WF_retrierVars(ClientReady(c))
    /\ \A x \in 1..MaxRequests : SF_retrierVars(x \in Callers /\ request_with_limit(x))
    /\ WF_retrierVars(OnRequest)
    /\ \A id \in 1..MaxRequests :
        /\ WF_retrierVars(\E s \in submissions.running :
                s.id = id /\ (OnSuccess(s) \/ OnFailure(s)))
        /\ SF_retrierVars(\E s \in submissions.running :
                s.id = id /\ s.client = load.healthy /\ OnSuccess(s))
        /\ WF_retrierVars(\E d \in retry_delays : d.id = id /\ OnRetryDelay(d))

-----------------------------------------------------------------------------
(* Properties *)

Submitted == submissions.running \cup {submissions.buffer[i] : i \in 1..Len(submissions.buffer)}
             \cup retry_delays

\* Type of the retrier's state.
RetrierTypeOK ==
    /\ load \in [requests : UNION {[1..n -> Methods] : n \in 0..MaxRequests},
                 nodes : SUBSET {"Primary", "Secondary"}, fickle : SUBSET (1..MaxRequests),
                 healthy : {"Primary", "Secondary"}]
    /\ ready \subseteq load.nodes
    /\ caller \in [Callers -> {"idle", "waiting", "gone", "answered", "error"}]
    /\ channel \in {<<>>} \cup {<<x>> : x \in Callers}
    /\ stored_requests \in [DOMAIN stored_requests -> Callers]
    /\ DOMAIN stored_requests \subseteq 1..last_request_id
    /\ \A s \in Submitted : s.attempt \in 0..AttemptMax /\ s.client \in load.nodes

\* Every request the holder keeps is in exactly one place: running, buffered or
\* delayed; so a delay that ends finds its request, as the `expect` in the loop
\* says, and no slot or delay is left over for a request that is done.
RequestsAreSomewhere ==
    /\ {s.id : s \in Submitted} = DOMAIN stored_requests
    /\ Cardinality(DOMAIN stored_requests)
         = Cardinality(submissions.running) + Len(submissions.buffer)
           + Cardinality(retry_delays)
    /\ \A x \in Callers : caller[x] = "waiting" =>
         channel = <<x>> \/ \E id \in DOMAIN stored_requests : stored_requests[id] = x

\* No more than maximum_submissions run at a time, and a submission waits in the
\* buffer only while all slots are taken.
SlotsAreUsed ==
    /\ Cardinality(submissions.running) <= MaximumSubmissions
    /\ submissions.buffer # <<>> => Cardinality(submissions.running) = MaximumSubmissions

\* Every request whose caller waits is answered as long as one of the two nodes
\* is healthy; only one with a limit may instead be given up, after its attempts.
CallersAreAnswered ==
    <>[](\A x \in Callers : /\ caller[x] # "waiting"
                             /\ caller[x] = "error" => limit_of(x) # NoLimit)

\* A scope ends when its tasks have ended, with their errors, and never before them.
ScopesHoldTheirTasks ==
    /\ [](ScopeTypeOK /\ NothingOutlivesTheScope /\ OkMeansAllEndedWell)
    /\ FailuresPropagate /\ ScopeEndsWithItsTasks

\* A request is never lost between queue, slots and retries, no slot is idle while one waits,
\* and a caller that stays is answered.
RequestsAreServed == [](RetrierTypeOK /\ RequestsAreSomewhere /\ SlotsAreUsed) /\ CallersAreAnswered
=============================================================================
