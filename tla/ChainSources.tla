---------------------------- MODULE ChainSources ----------------------------
(***************************************************************************)
(* How an engine follows an external chain: the source of headers          *)
(* (witness/evm/source.rs, btc/source.rs, dot/dot_source.rs), the filter    *)
(* that makes their indices increase (strictly_monotonic.rs), the channel   *)
(* that shares one source between its users (shared.rs), the source of safe *)
(* headers that lags behind it (lag_safety.rs), and chain tracking, which   *)
(* reports the newest header it can (latest_then.rs).                       *)
(*                                                                          *)
(* A block of the external chain is its index and the fork it was made on;  *)
(* a reorganisation replaces at most depth blocks and makes the chain       *)
(* longer. Requests may be answered by a second endpoint that has not seen  *)
(* the last reorganisation. A header of the engine stands for the WITNESS_PERIOD blocks of    *)
(* its witness range, and its hash is the one of the last of them.          *)
(***************************************************************************)
EXTENDS Integers, Sequences, SequencesExt

CONSTANTS Chains,        \* the chains followed: kind, period, margin and what may happen
          MaxHeight      \* no external chain gets higher than this block

VARIABLES
    external,   \* the plan of this behaviour and what of it is left
    blocks,     \* blocks[i + 1]: the fork the i-th block of the best chain was made on
    announced,  \* the heads the node has announced and the source has not read
    sequence,   \* State::evm_header_sequence, or the last block hash yielded
    last_output,\* of StrictlyMonotonicStream: {} or {index}
    shared,     \* per user of the shared source: the headers it has not taken (at most one)
    unsafe_cache,
    asked,      \* the header_at_index of LagSafety that is under way: {} or {request}
    safe,       \* the headers LagSafety has produced
    trackers,   \* of latest_then_stream: the futures under way, oldest first
    tracked     \* the heights reported to the state chain

sourceVars == <<external, blocks, announced, sequence, last_output, shared, unsafe_cache, asked,
                safe, trackers, tracked>>

----------------------------------------------------------------------------
\* The witness range of a block.

block_witness_root(n) == n - (n % external.period)
range_end(n) == block_witness_root(n) + external.period - 1

----------------------------------------------------------------------------
\* The external chain and the node.

\* The blocks of a chain; the first one has no parent.
Block(chain, i) == [index |-> i, fork |-> IF i < 0 THEN 0 ELSE chain[i + 1]]
RawHeader(chain, i) ==
    [index |-> i, hash |-> Block(chain, i), parent_hash |-> Block(chain, i - 1)]
head == Len(blocks) - 1

\* The best chain changes from some block on, and the node announces its new heads; the
\* Bitcoin client polls instead.
Extend(chain, from) ==
    /\ blocks' = chain
    /\ announced' = IF external.kind = "btc" THEN announced
                    ELSE announced \o [k \in 1 .. Len(chain) - from |-> RawHeader(chain, from + k - 1)]

NewBlock ==
    /\ head < external.height
    /\ Extend(Append(blocks, external.fork), head + 1)
    /\ UNCHANGED <<external, sequence, last_output, shared, unsafe_cache, asked, safe, trackers,
                   tracked>>

\* The last depth blocks are replaced and one is added.
Reorganise ==
    /\ external.reorgs > 0 /\ head < external.height
    /\ \E depth \in 1 .. external.depth :
        /\ depth <= head
        /\ Extend(SubSeq(blocks, 1, Len(blocks) - depth)
                      \o [k \in 1 .. depth + 1 |-> external.fork + 1],
                  Len(blocks) - depth)
    /\ external' = [external EXCEPT !.reorgs = @ - 1, !.fork = @ + 1,
                                     !.before = IF external.endpoints = 2 THEN blocks ELSE <<>>]
    /\ UNCHANGED <<sequence, last_output, shared, unsafe_cache, asked, safe, trackers, tracked>>

\* A header cannot be read, or, for the best heads of Polkadot, the events of its block are
\* gone after two attempts: it is skipped. Or the node says nothing until the timeout: the
\* source subscribes again and hears of the heads announced from then on.
SkipHeader ==
    /\ external.losses > 0 /\ announced # <<>>
    /\ announced' \in {Tail(announced), <<>>}
    /\ external' = [external EXCEPT !.losses = @ - 1]
    /\ UNCHANGED <<blocks, sequence, last_output, shared, unsafe_cache, asked, safe, trackers,
                   tracked>>

----------------------------------------------------------------------------
\* The sources. Each yields a header to the strictly monotonic filter and the shared channel.

\* The channel has room once every user has taken the last header.
Users == {"lag_safety", "chain_tracking"}
Room == \A u \in Users : shared[u] = <<>>

\* StrictlyMonotonicStream, then sender.send of the shared source.
IsNewer(header) == \A last \in last_output : header.index > last
Deliver(header) ==
    IF IsNewer(header)
    THEN /\ last_output' = {header.index}
         /\ shared' = [u \in Users |-> <<header>>]
    ELSE UNCHANGED <<last_output, shared>>

\* EvmSource: the raw headers of a witness range are collected until its last one; a header
\* that does not follow the last one starts again.
EvmExtended(raw) ==
    IF sequence # <<>> /\ Last(sequence).hash # raw.parent_hash THEN <<raw>>
    ELSE Append(sequence, raw)

ReadEvm ==
    LET step(raw, extended) ==
            LET first == SelectSeq(extended, LAMBDA h : h.index = block_witness_root(raw.index))
            IN  IF range_end(raw.index) = raw.index /\ first # <<>>
                THEN /\ sequence' = <<>>
                     /\ Deliver([index |-> block_witness_root(raw.index), hash |-> raw.hash,
                                 parent_hash |-> first[1].parent_hash])
                ELSE sequence' = extended /\ UNCHANGED <<last_output, shared>>
    IN  /\ external.kind = "evm" /\ announced # <<>> /\ Room
        /\ announced' = Tail(announced)
        /\ step(Head(announced), EvmExtended(Head(announced)))
        /\ UNCHANGED <<external, blocks, unsafe_cache, asked, safe, trackers, tracked>>

\* BtcSource: the best block, unless its hash is the one yielded last.
PollBtc ==
    /\ external.kind = "btc" /\ Room
    /\ sequence # <<RawHeader(blocks, head)>>
    /\ sequence' = <<RawHeader(blocks, head)>>
    /\ Deliver(RawHeader(blocks, head))
    /\ UNCHANGED <<external, blocks, announced, unsafe_cache, asked, safe, trackers, tracked>>

\* DotUnfinalisedSource and DotFinalisedSource: every header whose events can be had.
ReadDot ==
    /\ external.kind = "dot" /\ announced # <<>> /\ Room
    /\ announced' = Tail(announced)
    /\ Deliver(Head(announced))
    /\ UNCHANGED <<external, blocks, sequence, unsafe_cache, asked, safe, trackers, tracked>>

----------------------------------------------------------------------------
\* LagSafety.

\* faulty variant: one block less
IsAlmostSafe(cache) ==
    cache # <<>> /\ range_end(Last(cache).index) - range_end(Head(cache).index) + 1 >= external.margin

\* pop_safe_from_cache: the first header of the cache is margin blocks behind the last.
IsSafe(cache) ==
    cache # <<>> /\ range_end(Last(cache).index) - range_end(Head(cache).index) >= external.margin

\* A header whose parent is not the last one of the cache starts a new cache.
Cached(header) ==
    IF unsafe_cache # <<>> /\ Last(unsafe_cache).hash # header.parent_hash THEN <<header>>
    ELSE Append(unsafe_cache, header)

\* The root of the last witness range that ends margin blocks before the end of the range of
\* root: {} when there is none.
safe_root(root) ==
    LET associated == range_end(root) - external.margin
    IN  IF associated < 0 THEN {}
        ELSE IF range_end(associated) = associated THEN {block_witness_root(associated)}
        ELSE {r \in {block_witness_root(associated) - external.period} : r >= 0}

\* A safe header, with whether an endpoint that was behind had a part in it.
Produced(header, behind) == [header |-> header, behind |-> behind]

\* A new header: the safe one that belongs to it comes from the cache or is asked for. (The
\* look at the cache before a header is awaited never finds one: see CacheIsAChain.)
LagSafetyHeader ==
    LET step(header, cache) ==
            IF IsSafe(cache)
            THEN safe' = Append(safe, Produced(Head(cache), FALSE))
                 /\ unsafe_cache' = Tail(cache) /\ UNCHANGED asked
            ELSE /\ unsafe_cache' = cache
                 /\ asked' = {[root |-> r, end |-> {}, behind |-> FALSE] :
                                 r \in safe_root(header.index)}
                 /\ UNCHANGED safe
    IN  /\ asked = {} /\ shared["lag_safety"] # <<>>
        /\ shared' = [shared EXCEPT !["lag_safety"] = <<>>]
        /\ step(Head(shared["lag_safety"]), Cached(Head(shared["lag_safety"])))
        /\ UNCHANGED <<external, blocks, announced, sequence, last_output, trackers, tracked>>

\* The best chains of the endpoints: a request that failed is tried with the other endpoint,
\* which may not have seen the last reorganisation yet.
Views == {blocks} \cup {v \in {external.before} : v # <<>>}

\* header_at_index: an endpoint is asked for the last block of the range, and one for the first
\* (by the hash of the block for Bitcoin and Polkadot, whose ranges are one block).
AskRangeEnd ==
    \E r \in asked, view \in Views :
        /\ r.end = {} /\ range_end(r.root) < Len(view)
        /\ asked' = {[r EXCEPT !.end = {Block(view, range_end(r.root))}, !.behind = view # blocks]}
        /\ UNCHANGED <<external, blocks, announced, sequence, last_output, shared, unsafe_cache,
                       safe, trackers, tracked>>

AskRangeStart ==
    \E r \in asked, view \in Views : \E end \in r.end :
        /\ r.root < Len(view)
        /\ asked' = {}
        /\ safe' = Append(safe, Produced(
               [index |-> r.root, hash |-> end, parent_hash |-> Block(view, r.root - 1)],
               r.behind \/ view # blocks))
        /\ UNCHANGED <<external, blocks, announced, sequence, last_output, shared, unsafe_cache,
                       trackers, tracked>>

----------------------------------------------------------------------------
\* Chain tracking: latest_then_stream with the future that reads the fees and reports the
\* height. At most two futures are under way: the first header seen and the newest one.

FirstAndLatest(header) == IF trackers = <<>> THEN <<header>> ELSE <<Head(trackers), header>>

TrackHeader ==
    /\ shared["chain_tracking"] # <<>>
    /\ shared' = [shared EXCEPT !["chain_tracking"] = <<>>]
    /\ trackers' = FirstAndLatest(Head(shared["chain_tracking"]))
    /\ UNCHANGED <<external, blocks, announced, sequence, last_output, unsafe_cache, asked, safe,
                   tracked>>

\* A future that completes drops the older ones.
Outdated(k) == SubSeq(trackers, k + 1, Len(trackers))

Tracked ==
    \E k \in DOMAIN trackers :
        /\ tracked' = Append(tracked, trackers[k].index)
        /\ trackers' = Outdated(k)
        /\ UNCHANGED <<external, blocks, announced, sequence, last_output, shared, unsafe_cache,
                       asked, safe>>

----------------------------------------------------------------------------

SourcesInit ==
    /\ external \in Chains
    /\ blocks = <<0>> /\ announced = <<>> /\ sequence = <<>> /\ last_output = {}
    /\ shared = [u \in Users |-> <<>>]
    /\ unsafe_cache = <<>> /\ asked = {} /\ safe = <<>> /\ trackers = <<>> /\ tracked = <<>>

SourcesNext ==
    \/ NewBlock
    \/ Reorganise
    \/ SkipHeader
    \/ ReadEvm
    \/ PollBtc
    \/ ReadDot
    \/ LagSafetyHeader
    \/ AskRangeEnd
    \/ AskRangeStart
    \/ TrackHeader
    \/ Tracked

SourcesSpec == SourcesInit /\ [][SourcesNext]_sourceVars

----------------------------------------------------------------------------

SourceHeader ==
    [index : 0 .. MaxHeight,
     hash : [index : 0 .. MaxHeight, fork : 0 .. 3],
     parent_hash : [index : -1 .. MaxHeight, fork : 0 .. 3]]

\* The state has its types: headers are of blocks, the channel holds one of them for each user
\* and two futures report heights.
SourcesTypeOK ==
    /\ blocks \in Seq(0 .. 3) /\ Len(blocks) - 1 \in 0 .. MaxHeight
    /\ \A s \in {announced, sequence, unsafe_cache, trackers} :
        \A k \in DOMAIN s : s[k] \in SourceHeader
    /\ safe \in Seq([header : SourceHeader, behind : BOOLEAN])
    /\ \A u \in Users : Len(shared[u]) <= 1
    /\ Len(trackers) <= 2
    /\ last_output \subseteq 0 .. MaxHeight

\* The headers the source of safe headers produces have increasing indices, and the last one
\* ends at least margin blocks, and less than margin and a witness range, before the header it
\* was produced for: no height is produced twice, and none too early or too late, whether it
\* comes from the cache or from an endpoint. They need not be consecutive: a header that the
\* source lost or overtook leaves a gap here, which the engine's continuous adapter fills.
SafeHeadersFollow ==
    /\ \A i, j \in DOMAIN safe : i < j => safe[i].header.index < safe[j].header.index
    /\ safe # <<>> /\ asked = {} /\ unsafe_cache # <<>> =>
        LET lag == range_end(Last(unsafe_cache).index) - range_end(Last(safe).header.index)
        IN  external.margin <= lag /\ lag < external.margin + external.period

\* When no reorganisation is deeper than the margin, a header that was produced as safe is of
\* blocks that stay on the best chain, from the first block of its range to the last one: also
\* when it was asked for in several calls, with the chain moving in between. This needs the
\* calls to be answered by an endpoint that has seen the chain the unsafe header is of. When a
\* retry goes to an endpoint that is behind (retrier.rs:438), the header may be of a replaced
\* block: LagSafety does not compare hashes and assumes "it will be safe (even though this is
\* not true)" (lag_safety.rs:90). Such headers are left out here.
SafeHeadersAreFinal ==
    \A k \in DOMAIN safe : ~safe[k].behind =>
        LET h == safe[k].header
        IN  h.hash = Block(blocks, range_end(h.index)) /\ h.parent_hash = Block(blocks, h.index - 1)

\* The cache of headers that are not safe yet is a piece of one chain: each one is the parent
\* of the next; and a header makes at most one of the cache safe, so that none is left there
\* that was safe before ("this check is unneeded as the witness_period is constant").
CacheIsAChain ==
    /\ ~IsSafe(unsafe_cache)
    /\ \A k \in 1 .. Len(unsafe_cache) - 1 : unsafe_cache[k].hash = unsafe_cache[k + 1].parent_hash

\* The heights an engine reports increase, although two reports are under way at a time and
\* may end in either order.
TrackedHeightsIncrease == \A i, j \in DOMAIN tracked : i < j => tracked[i] < tracked[j]

\* Headers that leave the lag safety have increasing heights, lag by the margin and, unless an
\* endpoint that is behind answered, are of the final chain, although the source sees forks,
\* gaps and new subscriptions; and chain tracking reports increasing heights.
HeadersAreSafe ==
    /\ SourcesTypeOK /\ SafeHeadersFollow /\ SafeHeadersAreFinal
    /\ CacheIsAChain /\ TrackedHeightsIncrease
=============================================================================
