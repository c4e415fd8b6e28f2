--------------------------- MODULE CeremonyRunner ---------------------------
(***************************************************************************)
(* The ceremony manager of one engine and the runner tasks it spawns: how  *)
(* messages of peers find their ceremony, are put off to the next stage or *)
(* ignored, when a stage ends, and how the result gets back.  The peers    *)
(* are modelled by the stage they are in.  All stages are handled alike,   *)
(* so that a few stand for the nine of a key generation.                   *)
(***************************************************************************)
EXTENDS Integers, Sequences, FiniteSets

CONSTANTS Scripts,            \* what the State Chain requests, see RunnerTypeOK
          MaxStageDuration,   \* MAX_STAGE_DURATION, in ticks
          CeremonyIdWindow,   \* CEREMONY_ID_WINDOW
          LastStage           \* the last stage of each kind of ceremony

VARIABLES script,     \* the requests to come, the peers and the stray messages
          latest,     \* latest_ceremony_id
          handle,     \* the ceremony handles, with the state of their runners
          peer,       \* the stage each peer has reached in each ceremony
          handed,     \* the messages of peers handed to the runner of a ceremony
          reached,    \* the last stage we have entered in each ceremony
          disturbed,  \* the ceremonies in which a stage failed or timed out
          results     \* what has been sent as the result of each request

runnerVars == <<script, latest, handle, peer, handed, reached, disturbed, results>>

Me == 0
Ids == 1..Len(script.requests)
Peers == 1..script.peers
Everyone == Peers \cup {Me}
NotStarted == -1

Kind(id) == script.requests[id].kind
FirstStage(kind) == IF kind = "Handover" THEN 0 ELSE 1
\* The messages of a handover are those of a key generation.
StateOf(kind) == IF kind = "Handover" THEN "Keygen" ELSE kind

-----------------------------------------------------------------------------
(* The runner of one ceremony *)

new_unauthorised ==
    [authorised |-> FALSE, stage |-> NotStarted, last |-> 0, got |-> {}, delayed |-> {},
     todo |-> <<>>, ready |-> FALSE, left |-> 0, age |-> 0, outcome |-> {}]

Message(from, stage, sized) == [from |-> from, stage |-> stage, sized |-> sized]

\* A second message of a party is not put off.
add_delayed(r, m) ==
    IF \E d \in r.delayed : d.from = m.from THEN r
    ELSE [r EXCEPT !.delayed = @ \cup {m}]

\* The stage keeps the first message of each participant.
process_message(r, m) ==
    IF m.stage # r.stage \/ m.from \in r.got THEN r
    ELSE [r EXCEPT !.got = @ \cup {m.from}, !.ready = (@ \/ r.got \cup {m.from} = Everyone)]

\* A message is put off when it is for the initial stage of a ceremony that was
\* not requested yet, or for the next stage.
process_or_delay_message(kind, r, m) ==
    IF r.stage = NotStarted
    THEN IF m.sized /\ m.stage \in (IF kind = "Keygen" THEN {0, 1} ELSE {1})
         THEN add_delayed(r, m) ELSE r
    ELSE IF m.from \notin Everyone \/ ~m.sized THEN r
    ELSE IF m.stage = r.stage + 1 /\ r.stage < r.last THEN add_delayed(r, m)
    ELSE process_message(r, m)

\* The delayed messages in the order of their senders.
InOrder(messages) ==
    CHOOSE s \in [1..Cardinality(messages) -> messages] :
        \A i, j \in DOMAIN s : i < j => s[i].from < s[j].from

\* Entering a stage sends our own message and then takes the delayed ones.
EnterStage(r, stage, left) ==
    [r EXCEPT !.stage = stage, !.got = {Me}, !.ready = Everyone = {Me}, !.left = left,
              !.delayed = IF Everyone = {Me} THEN @ ELSE {},
              !.todo = IF Everyone = {Me} THEN @ ELSE InOrder(r.delayed) \o @]

\* Time left in a stage carries over to the next one.
extended_deadline(r) == r.left + MaxStageDuration

\* The results of finalizing the current stage.
finalize_current_stage(r) ==
    LET q == [r EXCEPT !.ready = FALSE]
        over(outcome) == [q EXCEPT !.outcome = {outcome}, !.todo = <<>>]
    IN  {over("Err")} \cup
        {IF r.stage = r.last THEN over("Ok")
         ELSE EnterStage(q, r.stage + 1, extended_deadline(q))}

\* A runner goes on until it waits for a message or a timeout, or is over.
RECURSIVE Settle(_, _)
Settle(kind, r) ==
    IF r.ready THEN UNION {Settle(kind, q) : q \in finalize_current_stage(r)}
    ELSE IF r.todo # <<>>
    THEN Settle(kind, process_or_delay_message(kind, [r EXCEPT !.todo = Tail(@)],
                                               Head(r.todo)))
    ELSE {r}

\* The request of the State Chain reaches the runner: it enters the initial
\* stage with the time of one stage.
on_ceremony_request(r, first, last) ==
    EnterStage([r EXCEPT !.authorised = TRUE, !.last = last], first, MaxStageDuration)

\* On timeout the stage is finalized with the messages it has.
on_timeout(r) == [r EXCEPT !.ready = TRUE]

Running(r) == r.stage # NotStarted /\ r.outcome = {}

-----------------------------------------------------------------------------
(* The manager *)

Key(kind, id) == [kind |-> StateOf(kind), id |-> id]
With(key, r) == [k \in DOMAIN handle \cup {key} |-> IF k = key THEN r ELSE handle[k]]
Without(key) == [k \in DOMAIN handle \ {key} |-> handle[k]]
HandleOf(key) == IF key \in DOMAIN handle THEN handle[key] ELSE new_unauthorised

\* A runner has settled in state r: our peers see the stages it entered.
Settled(key, r) ==
    /\ handle' = With(key, r)
    /\ reached' = IF key.kind = StateOf(Kind(key.id)) /\ r.stage > reached[key.id]
                  THEN [reached EXCEPT ![key.id] = r.stage] ELSE reached
    /\ disturbed' = IF "Err" \in r.outcome THEN disturbed \cup {key.id} ELSE disturbed

\* Dropping a handle aborts the runner.
cleanup_unauthorised_ceremony(id) ==
    [k \in DOMAIN handle \ {[kind |-> kind, id |-> id] : kind \in {"Keygen", "Sign"}}
        |-> handle[k]]

\* A key generation, handover or signing is requested: we cannot take part for
\* the participants or keys it names, or the runner of its handle gets it.
on_keygen_request(id) ==
    \/ /\ ~script.requests[id].valid
       /\ handle' = Without(Key(Kind(id), id))
       /\ results' = [results EXCEPT ![id] = Append(@, "Invalid")]
       /\ UNCHANGED <<reached, disturbed>>
    \/ /\ script.requests[id].valid
       /\ \E r \in Settle(StateOf(Kind(id)),
                          on_ceremony_request(HandleOf(Key(Kind(id), id)),
                                              FirstStage(Kind(id)), LastStage[Kind(id)])) :
             Settled(Key(Kind(id), id), r)
       /\ UNCHANGED results

\* The next request: a ceremony of ours, or one that others take part in.
OnRequest ==
    /\ latest < Len(script.requests)
    /\ latest' = latest + 1
    /\ \/ /\ Kind(latest + 1) = "None"
          /\ handle' = cleanup_unauthorised_ceremony(latest + 1)
          /\ UNCHANGED <<reached, disturbed, results>>
       \/ /\ Kind(latest + 1) # "None"
          /\ on_keygen_request(latest + 1)
    /\ UNCHANGED <<script, peer, handed>>

\* A message for a ceremony without handle creates an unauthorised one when its
\* id is one of the next ones.  A runner that is over reads no messages.
process_data(key, m) ==
    /\ IF key \in DOMAIN handle THEN handle[key].outcome = {}
       ELSE key.id > latest /\ key.id <= latest + CeremonyIdWindow
    /\ \E r \in Settle(key.kind, process_or_delay_message(key.kind, HandleOf(key), m)) :
          Settled(key, r)

\* A message that a peer has sent arrives, perhaps once more.
ReceiveFromPeer ==
    \E id \in Ids : \E p \in Peers, stage \in FirstStage(Kind(id))..LastStage[Kind(id)] :
        /\ stage <= peer[id][p]
        /\ process_data(Key(Kind(id), id), Message(p, stage, TRUE))
        /\ handed' = [handed EXCEPT ![id] = @ \cup {<<p, stage>>}]
        /\ UNCHANGED <<script, latest, peer, results>>

\* A message from outside the ceremony: of any kind, stage and size.
ReceiveStray ==
    \E id \in Ids, kind \in {"Keygen", "Sign"}, stage \in 0..3, sized \in BOOLEAN :
        /\ script.strays > 0
        /\ script' = [script EXCEPT !.strays = @ - 1]
        /\ process_data([kind |-> kind, id |-> id],
                        Message(script.peers + 1, stage, sized))
        /\ UNCHANGED <<latest, peer, handed, results>>

\* faulty variant
never_on_timeout == FALSE /\ UNCHANGED runnerVars

\* The timeout of a stage; ceremonies that were not requested have none.
OnTimeout ==
    \E key \in DOMAIN handle :
        /\ Running(handle[key]) /\ handle[key].left = 0
        /\ \E r \in Settle(key.kind, on_timeout(handle[key])) :
              /\ handle' = With(key, r)
              /\ reached' = [reached EXCEPT ![key.id] = r.stage]
        /\ disturbed' = disturbed \cup {key.id}
        /\ UNCHANGED <<script, latest, peer, handed, results>>

\* The manager takes the outcome of a runner, sends it as the result of the
\* request and removes the handle.
finalize_authorised_ceremony ==
    \E key \in DOMAIN handle :
        /\ handle[key].outcome # {}
        /\ handle' = Without(key)
        /\ results' = [results EXCEPT ![key.id] =
                           Append(@, CHOOSE x \in handle[key].outcome : TRUE)]
        /\ UNCHANGED <<script, latest, peer, handed, reached, disturbed>>

-----------------------------------------------------------------------------
(* The peers and the clock *)

\* A peer learns of the request before or after we do, and moves on when it has
\* the messages of everyone; with a peer that times out it need not wait.
PeerMovesOn ==
    \E id \in Ids, p \in Peers :
        /\ Kind(id) # "None"
        /\ \/ /\ peer[id][p] = NotStarted
              /\ peer' = [peer EXCEPT ![id][p] = FirstStage(Kind(id))]
              /\ UNCHANGED disturbed
           \/ /\ peer[id][p] \in 0..(LastStage[Kind(id)] - 1)
              /\ peer' = [peer EXCEPT ![id][p] = @ + 1]
              /\ \/ /\ reached[id] >= peer[id][p]
                    /\ \A q \in Peers : peer[id][q] >= peer[id][p]
                    /\ UNCHANGED disturbed
                 \/ /\ script.timeouts
                    /\ disturbed' = disturbed \cup {id}
        /\ UNCHANGED <<script, latest, handle, handed, reached, results>>

\* Time passes; a timeout that is due is taken first.
Tick ==
    /\ \E key \in DOMAIN handle : Running(handle[key])
    /\ \A key \in DOMAIN handle : Running(handle[key]) => handle[key].left > 0
    /\ handle' = [key \in DOMAIN handle |->
                    IF Running(handle[key])
                    THEN [handle[key] EXCEPT !.left = @ - 1, !.age = @ + 1]
                    ELSE handle[key]]
    /\ UNCHANGED <<script, latest, peer, handed, reached, disturbed, results>>

RunnerInit ==
    /\ script \in Scripts
    /\ latest = 0
    /\ handle = <<>>
    /\ peer = [id \in Ids |-> [p \in Peers |-> NotStarted]]
    /\ handed = [id \in Ids |-> {}]
    /\ reached = [id \in Ids |-> NotStarted]
    /\ disturbed = {}
    /\ results = [id \in Ids |-> <<>>]

RunnerNext ==
    \/ OnRequest
    \/ ReceiveFromPeer
    \/ ReceiveStray
    \/ OnTimeout
    \/ finalize_authorised_ceremony
    \/ PeerMovesOn
    \/ Tick

\* The tasks of the engine are scheduled fairly and time passes; nothing is
\* assumed of the State Chain, the peers and the network.
RunnerFairness ==
    /\ WF_runnerVars(OnTimeout)
    /\ WF_runnerVars(finalize_authorised_ceremony)
    /\ WF_runnerVars(Tick)

RunnerSpec == RunnerInit /\ [][RunnerNext]_runnerVars /\ RunnerFairness

-----------------------------------------------------------------------------
(* Properties *)

\* Type invariant of the manager and its runners.
RunnerTypeOK ==
    /\ latest \in 0..Len(script.requests)
    /\ \A key \in DOMAIN handle :
          /\ key.kind \in {"Keygen", "Sign"} /\ key.id \in Ids
          /\ handle[key].stage \in {NotStarted} \cup 0..handle[key].last
          /\ handle[key].got \subseteq Everyone
          /\ handle[key].left \in Nat
          /\ handle[key].outcome \subseteq {"Ok", "Err"}
          /\ handle[key].authorised = (handle[key].stage # NotStarted)

\* No message of a peer that arrives early is lost: in a ceremony without
\* failures and timeouts it is held for its stage, also when it came before the
\* request, and no peer gets further ahead than messages are put off for.
EarlyMessagesKept ==
    \A key \in DOMAIN handle :
        LET r == handle[key]
            held(m) == \E d \in r.delayed : d.from = m[1] /\ d.stage = m[2]
        IN  /\ key.id \notin disturbed /\ key.kind = StateOf(Kind(key.id))
            /\ r.outcome = {}
            => \A m \in handed[key.id] :
                  IF r.stage = NotStarted THEN held(m)
                  ELSE /\ m[2] <= r.stage + 1
                       /\ m[2] = r.stage => m[1] \in r.got
                       /\ m[2] = r.stage + 1 => held(m)

\* A stage ends at a time that only the request and the number of the stage
\* determine: others cannot move it by sending messages early or late.
DeadlinesFixed ==
    \A key \in DOMAIN handle :
        LET r == handle[key] IN
        Running(r) => r.age + r.left = (r.stage - FirstStage(Kind(key.id)) + 1)
                                          * MaxStageDuration

\* A ceremony that was not requested is one of the next ones, or its id was used
\* for a ceremony of the other kind: they neither pile up nor stay behind.
UnauthorisedAhead ==
    \A key \in DOMAIN handle :
        ~handle[key].authorised =>
            /\ key.id <= latest + CeremonyIdWindow
            /\ \/ key.id > latest
               \/ Kind(key.id) # "None" /\ StateOf(Kind(key.id)) # key.kind

\* A request is answered once, and only a ceremony that was requested of us is.
AnsweredOnce ==
    \A id \in Ids :
        /\ Len(results[id]) <= 1
        /\ results[id] # <<>> => id <= latest /\ Kind(id) # "None"

\* Every request for a ceremony is answered in the end, whether or not any peer
\* or message ever turns up.
EveryRequestAnswered ==
    \A id \in 1..3 :
        (id \in Ids /\ id <= latest /\ Kind(id) # "None")
            ~> (id \in Ids /\ results[id] # <<>>)

\* A ceremony that was asked for is answered, once and within its deadlines; messages that
\* come before the request are kept for it, and those nobody asks for are dropped.
RequestsAreAnswered ==
    /\ [](RunnerTypeOK /\ EarlyMessagesKept /\ DeadlinesFixed /\ UnauthorisedAhead /\ AnsweredOnce)
    /\ EveryRequestAnswered
=============================================================================
