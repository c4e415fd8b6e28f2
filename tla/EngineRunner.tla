---------------------------- MODULE EngineRunner ----------------------------
(***************************************************************************)
(* The start of an engine and the upgrade from one version to the next.   *)
(* The runner starts the new version, falls back to the old one while the  *)
(* runtime still requires it, and starts the new one again from the block  *)
(* at which the old one stopped.  An engine follows the finalized blocks   *)
(* of its node: it fills the gaps between the headers the subscription     *)
(* sends, moves to the block it shall start from, waits for the role of    *)
(* its account, records its version, and then passes every compatible      *)
(* block to the receivers of a bounded channel.                            *)
(***************************************************************************)
EXTENDS Integers, Sequences, FiniteSets, SequencesExt

CONSTANTS
    Histories,      \* what the chain does: [height, required, role, lag, slack]
    OldVersion, NewVersion,     \* versions <<major, minor, patch>>
    BLOCK_CAPACITY

ASSUME CapacityAssumption == BLOCK_CAPACITY \in Nat \ {0}

VARIABLES
    chain_history,  \* required[n] and role[n]: the storage after block n
    node,           \* the node's best and finalized blocks
    recorded,       \* NodeCFEVersion of the account
    runner,         \* what main waits for, and with what it started it
    engine,         \* the engine that runs
    receiver,       \* receivers of the finalized blocks: their cache and queue
    processed       \* the blocks the observer took, with the version it runs in

runnerVars == <<chain_history, node, recorded, runner, engine, receiver, processed>>

NO_START_FROM == 0
Blocks == 1 .. chain_history.height
Versions == {OldVersion, NewVersion}

Less(a, b) ==
    \E i \in 1 .. 3 : a[i] < b[i] /\ \A j \in 1 .. i - 1 : a[j] = b[j]

is_more_recent_than(v, w) == Less(w, v)

compatibility_with_runtime(v, required) ==
    CASE v[1] = required[1] /\ v[2] = required[2] -> "Compatible"
      [] Less(v, required) -> "NoLongerCompatible"
      [] OTHER -> "NotYetCompatible"

check_block_compatibility(v, n) ==
    compatibility_with_runtime(v, chain_history.required[n])

(***************************************************************************)
(* The node.  Best and finalized blocks advance; the first header of a     *)
(* subscription may lag behind the block that is finalized.                *)
(***************************************************************************)
Author ==
    /\ node.best < chain_history.height
    /\ node' = [node EXCEPT !.best = @ + 1]
    /\ UNCHANGED <<chain_history, recorded, runner, engine, receiver, processed>>

Finalize ==
    /\ node.finalized < node.best
    /\ node' = [node EXCEPT !.finalized = @ + 1]
    /\ UNCHANGED <<chain_history, recorded, runner, engine, receiver, processed>>

(***************************************************************************)
(* Exit statuses and the runner's main.                                    *)
(***************************************************************************)
ExitStatus(code, n) == [status_code |-> code, at_block |-> n]

Starting(v, from) ==
    [state |-> "Connecting", version |-> v, start_from |-> from, cache |-> 0,
     latest |-> 0, ahead |-> <<>>, skip_to |-> 0, sending |-> {}, latest_block |-> 0]

Stopped == [Starting(NewVersion, NO_START_FROM) EXCEPT !.state = "Stopped"]

settings_and_run_main(code, n) ==
    ExitStatus(code, IF code = "NO_LONGER_COMPATIBLE" THEN n ELSE NO_START_FROM)

\* main after the engine it waits for has exited with the given status.
main(status) ==
    CASE runner.stage = "new_first" /\ status.status_code = "NOT_YET_COMPATIBLE" ->
            [stage |-> "old", started |-> Starting(OldVersion, NO_START_FROM)]
      [] runner.stage = "old" /\ status.status_code = "NO_LONGER_COMPATIBLE" ->
            [stage |-> "new", started |-> Starting(NewVersion, status.at_block)]
      [] OTHER -> [stage |-> "done", started |-> Stopped]

\* The error ends the engine's scope: every task is cancelled, and what the
\* receivers have not taken from their queues is gone.
Exit(code, n) ==
    \E s \in {settings_and_run_main(code, n)} :
      \E next \in {main(s)} :
        /\ runner' = [stage |-> next.stage, status |-> s]
        /\ engine' = next.started
        /\ receiver' = <<>>
        /\ UNCHANGED <<chain_history, node, recorded, processed>>

ExitIncompatible(n) ==
    Exit(IF check_block_compatibility(engine.version, n) = "NoLongerCompatible"
         THEN "NO_LONGER_COMPATIBLE" ELSE "NOT_YET_COMPATIBLE", n)

(***************************************************************************)
(* The stream of finalized blocks.  ahead are the blocks that are ready    *)
(* and latest is the last header the subscription sent.                    *)
(***************************************************************************)
Numbers(a, b) == [i \in 1 .. (IF b < a THEN 0 ELSE b - a + 1) |-> a + i - 1]

\* The blocks between two headers of the subscription, then the later one.
inject_intervening_headers(prev, next) == Numbers(prev + 1, next - 1) \o <<next>>

\* The streams the engine can be in when its next block has been taken: the
\* block becomes its cache.
NextBlock ==
    IF engine.ahead # <<>>
    THEN {[engine EXCEPT !.cache = Head(engine.ahead), !.ahead = Tail(@)]}
    ELSE {[engine EXCEPT !.cache = Head(blocks), !.ahead = Tail(blocks),
                         !.latest = Last(blocks)] :
            blocks \in {inject_intervening_headers(engine.latest, h) :
                            h \in engine.latest + 1 .. node.finalized}}

SetEngine(e) ==
    /\ engine' = e
    /\ UNCHANGED <<chain_history, node, recorded, runner, receiver, processed>>

Connect ==
    /\ engine.state = "Connecting"
    /\ \E h \in (node.finalized - chain_history.lag) .. node.finalized :
        /\ h >= 1
        /\ SetEngine([engine EXCEPT !.state = "Subscribed", !.cache = h, !.latest = h])

\* The block to start from: earlier blocks are fetched, or later ones skipped.
FindStart ==
    /\ engine.state = "Subscribed"
    /\ SetEngine(
        IF engine.start_from # NO_START_FROM /\ engine.start_from < engine.cache
        THEN [engine EXCEPT !.state = "Skipping", !.cache = engine.start_from,
                            !.ahead = Numbers(engine.start_from + 1, engine.cache)]
        ELSE [engine EXCEPT !.state = "Skipping",
                !.skip_to = IF engine.start_from = NO_START_FROM
                            THEN node.finalized ELSE engine.start_from])

Skip ==
    /\ engine.state = "Skipping"
    /\ IF engine.cache + 1 < engine.skip_to
       THEN \E e \in NextBlock : SetEngine(e)
       ELSE SetEngine([engine EXCEPT !.state = "WaitingForRole"])

\* pre_compatibility: the account must be a validator's; until it is funded
\* and has a role the engine moves on with the blocks.
WaitForRole ==
    /\ engine.state = "WaitingForRole"
    /\ CASE chain_history.role[engine.cache] = "Validator" ->
                SetEngine([engine EXCEPT !.state = "RecordingVersion"])
         [] chain_history.role[engine.cache] \in {"NotFunded", "Unregistered"} ->
                \E e \in NextBlock : SetEngine(e)
         [] OTHER -> Exit("UNKNOWN_ERROR", 0)

\* The version is recorded unless a later one is; the submission may time out.
RecordVersion ==
    /\ engine.state = "RecordingVersion"
    /\ \/ /\ recorded' = IF is_more_recent_than(engine.version, recorded)
                         THEN engine.version ELSE recorded
          /\ engine' = [engine EXCEPT !.state = "CheckingFinalized"]
          /\ UNCHANGED <<chain_history, node, runner, receiver, processed>>
       \/ /\ is_more_recent_than(engine.version, recorded)
          /\ Exit("UNKNOWN_ERROR", 0)

(***************************************************************************)
(* The channel of finalized blocks.  The first receiver is the observer's. *)
(***************************************************************************)
Observer == 1

\* create_block_stream for the finalized blocks.
StartFinalized ==
    /\ engine.state = "CheckingFinalized"
    /\ IF check_block_compatibility(engine.version, engine.cache) = "Compatible"
       THEN /\ engine' = [engine EXCEPT !.state = "CheckingUnfinalized",
                                        !.latest_block = engine.cache]
            /\ receiver' = <<[cache |-> engine.cache, queue |-> <<>>]>>
            /\ UNCHANGED <<chain_history, node, recorded, runner, processed>>
       ELSE ExitIncompatible(engine.cache)

\* create_block_stream for the unfinalized blocks, whose first block is the
\* best one; the observer then starts with the block in its cache.
StartUnfinalized ==
    /\ engine.state = "CheckingUnfinalized"
    /\ IF check_block_compatibility(engine.version, node.best) = "Compatible"
       THEN /\ engine' = [engine EXCEPT !.state = "Running"]
            /\ processed' = Append(processed, <<engine.version, receiver[Observer].cache>>)
            /\ UNCHANGED <<chain_history, node, recorded, runner, receiver>>
       ELSE ExitIncompatible(node.best)

\* A receiver that falls behind by the whole capacity holds the sender up.
Full == \E i \in DOMAIN receiver : Len(receiver[i].queue) >= BLOCK_CAPACITY

Push(n) == [i \in DOMAIN receiver |-> [receiver[i] EXCEPT !.queue = Append(@, n)]]

\* faulty variant
SendIfSpace ==
    /\ engine.state \in {"CheckingUnfinalized", "Running"} /\ engine.sending = {}
    /\ \E e \in NextBlock :
        IF check_block_compatibility(e.version, e.cache) = "Compatible"
        THEN /\ engine' = [e EXCEPT !.latest_block = e.cache]
             /\ receiver' = IF Full THEN receiver ELSE Push(e.cache)
             /\ UNCHANGED <<chain_history, node, recorded, runner, processed>>
        ELSE ExitIncompatible(e.cache)

\* The loop's next block.
SendBlock ==
    /\ engine.state \in {"CheckingUnfinalized", "Running"} /\ engine.sending = {}
    /\ \E e \in NextBlock :
        IF check_block_compatibility(e.version, e.cache) = "Compatible"
        THEN /\ engine' = [e EXCEPT !.latest_block = e.cache,
                                    !.sending = IF Full THEN {e.cache} ELSE {}]
             /\ receiver' = IF Full THEN receiver ELSE Push(e.cache)
             /\ UNCHANGED <<chain_history, node, recorded, runner, processed>>
        ELSE ExitIncompatible(e.cache)

\* The sender waits for space.
SendWaiting ==
    /\ ~Full
    /\ \E n \in engine.sending : receiver' = Push(n)
    /\ engine' = [engine EXCEPT !.sending = {}]
    /\ UNCHANGED <<chain_history, node, recorded, runner, processed>>

\* A task of the engine asks for a stream of its own.
finalized_block_stream ==
    /\ engine.state = "Running" /\ engine.sending = {} /\ Len(receiver) = 1
    /\ receiver' = Append(receiver, [cache |-> engine.latest_block, queue |-> <<>>])
    /\ UNCHANGED <<chain_history, node, recorded, runner, engine, processed>>

Receive(i) ==
    /\ engine.state = "Running" /\ i \in DOMAIN receiver /\ receiver[i].queue # <<>>
    /\ receiver' = [receiver EXCEPT ![i] = [cache |-> Head(@.queue), queue |-> Tail(@.queue)]]
    /\ processed' = IF i = Observer
                    THEN Append(processed, <<engine.version, Head(receiver[i].queue)>>)
                    ELSE processed
    /\ UNCHANGED <<chain_history, node, recorded, runner, engine>>

\* The connection to the node ends.
ConnectionLost ==
    /\ engine.state \in {"CheckingUnfinalized", "Running"}
    /\ node.finalized = chain_history.height
    /\ Exit("UNKNOWN_ERROR", 0)

RunnerInit ==
    /\ chain_history \in Histories
    /\ node = [best |-> 1 + chain_history.slack, finalized |-> 1]
    /\ recorded = OldVersion
    /\ runner = [stage |-> "new_first", status |-> ExitStatus("SUCCESS", NO_START_FROM)]
    /\ engine = IF chain_history.height = 1 THEN Stopped ELSE Starting(NewVersion, NO_START_FROM)
    /\ receiver = <<>> /\ processed = <<>>

RunnerNext ==
    \/ Author \/ Finalize
    \/ Connect \/ FindStart \/ Skip \/ WaitForRole \/ RecordVersion
    \/ StartFinalized \/ StartUnfinalized \/ SendBlock \/ SendWaiting
    \/ finalized_block_stream
    \/ \E i \in 1 .. 2 : Receive(i)
    \/ ConnectionLost

(***************************************************************************)
(* Properties                                                              *)
(***************************************************************************)
\* Type invariant of the runner: the blocks an engine still has to deliver
\* are the ones that follow its cache, one by one.
EngineTypeOK ==
    /\ node.finalized \in Blocks /\ node.best \in node.finalized .. chain_history.height
    /\ recorded \in Versions /\ engine.version \in Versions
    /\ engine.cache \in 0 .. chain_history.height
    /\ \A i \in DOMAIN engine.ahead : engine.ahead[i] = engine.cache + i
    /\ engine.ahead # <<>> => Last(engine.ahead) <= node.finalized
    /\ \A i \in DOMAIN receiver : Len(receiver[i].queue) <= BLOCK_CAPACITY

\* The observer of one engine takes consecutive blocks: sparse headers, a slow
\* receiver and a full channel neither drop a block nor deliver one twice.
BlocksAreConsecutive ==
    \A i \in 2 .. Len(processed) :
        processed[i][1] = processed[i - 1][1] => processed[i][2] = processed[i - 1][2] + 1

\* Every receiver of the finalized blocks, whenever it asked for its stream,
\* has in its cache and its queue all blocks up to the latest one sent.
ReceiversAreComplete ==
    \A i \in DOMAIN receiver :
        /\ Len(receiver[i].queue) + receiver[i].cache + Cardinality(engine.sending)
                = engine.latest_block
        /\ \A k \in DOMAIN receiver[i].queue : receiver[i].queue[k] = receiver[i].cache + k

\* No block is processed by both versions, and each only by a version that is
\* compatible with the runtime of that block.
OneVersionPerBlock ==
    /\ \A i \in 2 .. Len(processed) : processed[i][2] > processed[i - 1][2]
    /\ \A i \in DOMAIN processed :
        check_block_compatibility(processed[i][1], processed[i][2]) = "Compatible"

\* The old version, which runs again while the upgrade is pending, never takes
\* back the version recorded for the node.
VersionNeverTakenBack == [][~Less(recorded', recorded)]_runnerVars

\* The version that follows goes on with the block after the last one the other version
\* handled: it starts from the block at which the other one stopped, "ensuring we don't miss
\* any blocks" (engine/src/lib.rs:88-89). The code breaks this: the old version is stopped when
\* its sender meets the first block it is not compatible with, whatever its observer has still
\* to take from the channel, and no one handles those blocks.
NoBlockMissed ==
    \A i \in 2 .. Len(processed) : processed[i][2] = processed[i - 1][2] + 1

\* A gap is at most what the channel can hold: the new version starts at the first block that
\* the old one cannot handle, so the blocks that are missed are the ones that were queued, or
\* held by the waiting sender, when the old version stopped.
GapIsWhatWasQueued ==
    \A i \in 2 .. Len(processed) :
        processed[i][1] # processed[i - 1][1] =>
            /\ check_block_compatibility(processed[i - 1][1], processed[i][2]) = "NoLongerCompatible"
            /\ \A n \in processed[i - 1][2] + 1 .. processed[i][2] - 1 :
                  check_block_compatibility(processed[i - 1][1], n) = "Compatible"
            /\ processed[i][2] - processed[i - 1][2] - 1 <= BLOCK_CAPACITY + 1

\* Each of the two versions of the engine handles the finalized blocks from its first one on,
\* in order and once, and only blocks it is compatible with. Between the two, at the block at
\* which the chain changes version, the blocks that the old version had queued are missed (see
\* NoBlockMissed), and no others.
EveryBlockIsHandled ==
    /\ [](EngineTypeOK /\ BlocksAreConsecutive /\ ReceiversAreComplete /\ OneVersionPerBlock
          /\ GapIsWhatWasQueued)
    /\ VersionNeverTakenBack
=============================================================================
