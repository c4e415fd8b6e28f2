-------------------------- MODULE VaultWitnessing ---------------------------
(***************************************************************************)
(* Which epochs and vaults the engine witnesses, and how it witnesses one. *)
(***************************************************************************)
EXTENDS Integers, Sequences, FiniteSets, SequencesExt

(***************************************************************************)
(* How an engine learns of the epochs it witnesses for                      *)
(* (witness/common/epoch_source.rs): a task compares the storage of every   *)
(* finalized block with the block before and sends what has changed; two    *)
(* more tasks keep the epochs the node takes part in, and of those the ones *)
(* that have a vault on the chain (participating, vaults: both filter_map); *)
(* the two streams of epochs, one for the witnessing that goes by time and  *)
(* one for the witnessing of vaults, start the work of an epoch and signal  *)
(* when it becomes historic. The tasks are joined by broadcast channels     *)
(* (utilities spmc) whose sender waits for the slowest receiver.            *)
(*                                                                          *)
(* The state chain is what the blocks say of the epochs: the current one,   *)
(* those in EpochExpiries, those of the node in HistoricalActiveEpochs and   *)
(* those with a vault (VaultStartBlockNumbers and Keys, set together).       *)
(***************************************************************************)

CONSTANTS EpochPlans,      \* what may happen: first epoch with a vault, our epochs, blocks
          CHANNEL_BUFFER   \* how many updates a channel holds

ASSUME BufferAssumption == CHANNEL_BUFFER \in Nat \ {0}

VARIABLES
    epoch_plan,
    sc_blocks,     \* the finalized blocks
    source,        \* the task of the builder: blocks read, epochs known, updates to send
    updates,       \* per receiver: the updates it has not taken
    epochs_in,     \* per filter_map: the epochs that passed it
    streams        \* per stream: the epochs started |-> whether they were signalled historic

epochSourceVars == <<epoch_plan, sc_blocks, source, updates, epochs_in, streams>>

Filters == {"participating", "vaults"}
Streams == {"by_time", "by_vault"}

----------------------------------------------------------------------------
\* The state chain. A new vault is activated before its epoch starts; in a block an epoch
\* may expire (EpochExpiries::take of the hook) and a new one may start.

Latest == sc_blocks[Len(sc_blocks)]

ActivateVault(b) == [b EXCEPT !.vaults = @ \cup {b.current + 1}]

StartEpoch(b) ==
    [b EXCEPT !.current = @ + 1, !.historic = @ \cup {b.current},
              !.active = @ \cup ({b.current + 1} \cap epoch_plan.ours)]

ExpireEpoch(b, epoch) == [b EXCEPT !.historic = @ \ {epoch}, !.active = @ \ {epoch}]

Oldest(S) == {e \in S : \A f \in S : e <= f}

NewScBlock ==
    LET vaulted == Latest.current + 1 \in Latest.vaults
        next ==
            {ActivateVault(Latest)}
            \cup (IF vaulted /\ Latest.current < epoch_plan.last THEN {StartEpoch(Latest)} ELSE {})
            \cup {ExpireEpoch(Latest, e) : e \in Oldest(Latest.historic)}
            \cup {StartEpoch(ExpireEpoch(Latest, e)) : e \in
                    {x \in Oldest(Latest.historic) : vaulted /\ Latest.current < epoch_plan.last}}
    IN  /\ Len(sc_blocks) < epoch_plan.blocks
        /\ \E b \in next \ {Latest} : sc_blocks' = Append(sc_blocks, b)
        /\ UNCHANGED <<epoch_plan, source, updates, epochs_in, streams>>

----------------------------------------------------------------------------
\* EpochSource::builder.

\* The epochs active at a block, and whether each of them is historic.
ActiveEpochs(b) == [e \in b.historic \cup {b.current} |-> e \in b.historic]

\* filter_map of participating and of vaults, at a block.
filter_map(filter, epoch, b) ==
    IF filter = "participating" THEN epoch \in b.active ELSE epoch \in b.vaults

\* The epochs the filters leave, of those that are active when the engine starts.
FilteredActive(filter, b) ==
    {e \in DOMAIN ActiveEpochs(b) :
        filter_map("participating", e, b) /\ (filter = "vaults" => filter_map("vaults", e, b))}

StartSource ==
    LET begin(b) ==
            /\ source' = [read |-> Len(sc_blocks), current |-> b.current, historic |-> b.historic,
                          send |-> <<>>]
            /\ epochs_in' = [f \in Filters |-> FilteredActive(f, b)]
            /\ streams' = [s \in Streams |->
                  [e \in FilteredActive(IF s = "by_time" THEN "participating" ELSE "vaults", b) |->
                      ActiveEpochs(b)[e]]]
    IN  /\ source.read = 0 /\ epoch_plan.blocks > 0
        /\ begin(Latest)
        /\ UNCHANGED <<epoch_plan, sc_blocks, updates>>

Update(kind, epoch, at) == [kind |-> kind, epoch |-> epoch, at |-> at]

\* What a block changes: the updates the task sends for it.
ExpiredUpdates(S, at) == SetToSeq({Update("Expired", e, at) : e \in S})

ChangesAt(at) ==
    LET b == sc_blocks[at]
        moved == source.current # b.current
        known == source.historic \cup (IF moved THEN {source.current} ELSE {})
    IN  (IF moved
         THEN <<Update("Historic", source.current, at), Update("NewCurrent", b.current, at)>>
         ELSE <<>>)
        \o ExpiredUpdates(known \ b.historic, at)

ReadScBlock ==
    /\ source.read > 0 /\ source.send = <<>> /\ source.read < Len(sc_blocks)
    /\ source' = [read |-> source.read + 1, current |-> sc_blocks[source.read + 1].current,
                  historic |-> sc_blocks[source.read + 1].historic,
                  send |-> ChangesAt(source.read + 1)]
    /\ UNCHANGED <<epoch_plan, sc_blocks, updates, epochs_in, streams>>

----------------------------------------------------------------------------
\* The channels.

\* The receivers of the updates a task sends. The clones of the epoch source share a channel.
ReceiversOf(sender) ==
    CASE sender = "builder" -> {"participating"}
      [] sender = "participating" -> {"vaults", "by_time"}
      [] sender = "vaults" -> {"by_vault"}

HasRoom(sender) == \A r \in ReceiversOf(sender) : Len(updates[r]) < CHANNEL_BUFFER

Sent(sender, queues, update) ==
    [r \in DOMAIN queues |->
        IF r \in ReceiversOf(sender) THEN Append(queues[r], update) ELSE queues[r]]

BuilderSends ==
    /\ source.send # <<>> /\ HasRoom("builder")
    /\ updates' = Sent("builder", updates, Head(source.send))
    /\ source' = [source EXCEPT !.send = Tail(@)]
    /\ UNCHANGED <<epoch_plan, sc_blocks, epochs_in, streams>>

\* The task of filter_map. A new epoch that passes is sent on, and so is the end of an epoch
\* that has passed; that an epoch has expired is not.
Passes(filter, update) ==
    \/ update.kind = "NewCurrent" /\ filter_map(filter, update.epoch, sc_blocks[update.at])
    \/ update.kind = "Historic" /\ update.epoch \in epochs_in[filter]

KnownAfter(filter, update) ==
    CASE update.kind = "Expired" -> epochs_in[filter] \ {update.epoch}
      [] update.kind = "NewCurrent" /\ Passes(filter, update) -> epochs_in[filter] \cup {update.epoch}
      [] OTHER -> epochs_in[filter]

FilterMap(filter) ==
    LET step(update, passes) ==
            /\ passes => HasRoom(filter)
            /\ updates' = [(IF passes THEN Sent(filter, updates, update) ELSE updates)
                              EXCEPT ![filter] = Tail(@)]
            /\ epochs_in' = [epochs_in EXCEPT ![filter] = KnownAfter(filter, update)]
    IN  /\ updates[filter] # <<>>
        /\ step(Head(updates[filter]), Passes(filter, Head(updates[filter])))
        /\ UNCHANGED <<epoch_plan, sc_blocks, source, streams>>

\* into_stream: a new epoch is yielded with its signals, and the end of one is signalled.
IntoStream(s) ==
    LET step(update) ==
            streams' = [streams EXCEPT ![s] =
                [e \in DOMAIN @ \cup {update.epoch} |->
                    IF e = update.epoch THEN update.kind = "Historic" ELSE @[e]]]
    IN  /\ updates[s] # <<>>
        /\ step(Head(updates[s]))
        /\ updates' = [updates EXCEPT ![s] = Tail(@)]
        /\ UNCHANGED <<epoch_plan, sc_blocks, source, epochs_in>>

----------------------------------------------------------------------------

EpochSourceInit ==
    /\ epoch_plan \in EpochPlans
    /\ sc_blocks = <<[current |-> 1, historic |-> {}, active |-> {1} \cap epoch_plan.ours,
                      vaults |-> {1} \cap epoch_plan.vaults]>>
    /\ source = [read |-> 0, current |-> 0, historic |-> {}, send |-> <<>>]
    /\ updates = [r \in Filters \cup Streams |-> <<>>]
    /\ epochs_in = [f \in Filters |-> {}]
    /\ streams = [s \in Streams |-> <<>>]

EpochSourceNext ==
    \/ NewScBlock
    \/ StartSource
    \/ ReadScBlock
    \/ BuilderSends
    \/ \E f \in Filters : FilterMap(f)
    \/ \E s \in Streams : IntoStream(s)

\* The tasks run, and blocks that are finalized are read.
EpochSourceFairness ==
    /\ WF_epochSourceVars(StartSource)
    /\ WF_epochSourceVars(ReadScBlock)
    /\ WF_epochSourceVars(BuilderSends)
    /\ \A f \in Filters : WF_epochSourceVars(FilterMap(f))
    /\ \A s \in Streams : WF_epochSourceVars(IntoStream(s))

EpochSourceSpec ==
    EpochSourceInit /\ [][EpochSourceNext]_epochSourceVars /\ EpochSourceFairness

----------------------------------------------------------------------------

EpochIndices == 1 .. epoch_plan.last + 1
StartedIn(s) == DOMAIN streams[s]

\* The state has its types: the channels are not overfull, and epochs are those of the chain.
EpochSourceTypeOK ==
    /\ source.read \in 0 .. Len(sc_blocks) /\ source.historic \subseteq EpochIndices
    /\ \A r \in DOMAIN updates : Len(updates[r]) <= CHANNEL_BUFFER
    /\ \A f \in Filters : epochs_in[f] \subseteq EpochIndices
    /\ \A s \in Streams : StartedIn(s) \subseteq EpochIndices /\ streams[s] \in [StartedIn(s) -> BOOLEAN]

\* What the tasks expect and assert holds wherever the engine starts and however far the tasks
\* are apart: the current epoch is not historic; when vaults looks up the vault that follows a
\* historic one it is there; and a stream that is told that an epoch is historic has started
\* that epoch and was not told before.
EpochLookupsSucceed ==
    /\ source.read > 0 => source.current \notin source.historic
    /\ \A k \in DOMAIN updates["vaults"] :
        LET u == updates["vaults"][k]
        IN  u.kind = "Historic" /\ u.epoch \in epochs_in["vaults"]
                => u.epoch + 1 \in sc_blocks[u.at].vaults
    /\ \A s \in Streams : updates[s] # <<>> =>
        LET u == Head(updates[s])
        IN  IF u.kind = "Historic" THEN u.epoch \in StartedIn(s) /\ ~streams[s][u.epoch]
            ELSE u.kind = "NewCurrent" /\ u.epoch \notin StartedIn(s)

\* An epoch is witnessed for only if the node takes part in it and, for the witnessing of
\* vaults, only if it has a vault; and of the epochs started at most one, the latest, is not
\* historic once the updates sent so far are taken.
StreamsFollowTheChain ==
    /\ StartedIn("by_vault") \subseteq StartedIn("by_time") \cup {u.epoch : u \in
            {updates["by_time"][k] : k \in DOMAIN updates["by_time"]}}
    /\ \A s \in Streams : StartedIn(s) \subseteq epoch_plan.ours
    /\ \A s \in Streams : Cardinality({e \in StartedIn(s) : ~streams[s][e]}) <= 1

\* In the end every epoch that is active for the node and has a vault is witnessed for, current
\* or historic, and of every epoch that is over the streams that started it have been told.
EpochsAreWitnessed ==
    <>[](\A s \in Streams :
            /\ epoch_plan.blocks > 0 => Latest.active \cap Latest.vaults \subseteq StartedIn(s)
            /\ \A e \in StartedIn(s) : e < Latest.current => streams[s][e])

\* Wherever the engine starts among the epochs, and however far its tasks are apart, nothing it
\* expects to find is missing, and it witnesses exactly for the epochs that are its own.
EpochsAreFollowed == [](EpochSourceTypeOK /\ EpochLookupsSucceed /\ StreamsFollowTheChain) /\ EpochsAreWitnessed

(***************************************************************************)
(* How an engine witnesses the blocks of an external chain for one vault:   *)
(* the safe headers are cut to the blocks of the vault                      *)
(* (witness/common/chunked_chain_source/chunked_by_vault.rs), held back      *)
(* until the state chain has tracked their block and joined with the items   *)
(* to look for (monitored_items.rs, with deposit_addresses.rs), witnessed,   *)
(* and recorded by the adapter that fills the gaps (continuous.rs) in the    *)
(* engine's database (db/persistent.rs). The engine may stop and start       *)
(* again at any point.                                                       *)
(*                                                                           *)
(* A block stands for one witness range of the chain, so that ranges need no *)
(* rounding; a bitmap of blocks is the set of the blocks it holds (the       *)
(* run-length encoding is in RleBitmap). A witness counts once it is handed  *)
(* to the task that submits extrinsics.                                      *)
(***************************************************************************)

CONSTANTS Vaults   \* the vaults that may be witnessed and what may happen meanwhile

VARIABLES
    vault,        \* the vault, and what of its plan is left
    sc,           \* the state chain: tracked height, channels, blocks of the next vault
    monitored,    \* the value of the watch channel: height and channels last read
    safe_head,    \* the highest safe header of the external chain so far
    chain_stream, \* the last index that came out of it in this run of the engine
    pending_headers, ready_headers,
    yielded,      \* the header that has been witnessed and goes to the continuous adapter
    inprogress_indices, \* index |-> whether the header has been read and witnessed
    unprocessed_indices,
    processed_indices,
    stored,       \* what the database holds
    witnessed,    \* every witness handed over, with the items it was made for
    vault_ended

vaultVars == <<vault, sc, monitored, safe_head, chain_stream, pending_headers, ready_headers,
               yielded, inprogress_indices, unprocessed_indices, processed_indices, stored,
               witnessed, vault_ended>>

scVars == <<sc, safe_head>>
monitorVars == <<monitored, chain_stream, pending_headers, ready_headers>>
continuousVars == <<inprogress_indices, unprocessed_indices, processed_indices, stored>>

Blocks == 0 .. vault.height
LowestOf(S) == CHOOSE x \in S : \A y \in S : x <= y

----------------------------------------------------------------------------
\* The state chain, as the engine sees it.

\* update_chain_state of chain tracking: the height increases.
TrackHeight ==
    /\ \E h \in sc.height + 1 .. vault.height + 1 : h <= safe_head + 1 /\ sc' = [sc EXCEPT !.height = h]
    /\ UNCHANGED <<vault, safe_head, monitorVars, yielded, continuousVars, witnessed, vault_ended>>

\* A deposit channel is opened at the tracked height (expiry_and_recycle_block_height).
expiry_height == sc.height + vault.lifetime + 1
OpenChannel ==
    /\ vault.channels > 0
    /\ sc' = [sc EXCEPT !.channels = @ \cup
                  {[id |-> vault.channels, opened_at |-> sc.height, expires_at |-> expiry_height]}]
    /\ vault' = [vault EXCEPT !.channels = @ - 1]
    /\ UNCHANGED <<safe_head, monitorVars, yielded, continuousVars, witnessed, vault_ended>>

\* Once its recycle height is tracked, the channel is taken out of DepositChannelLookup.
recycle_height(c) == c.expires_at + vault.lifetime + 1
RecycleChannel ==
    /\ \E c \in sc.channels :
        /\ recycle_height(c) <= sc.height
        /\ sc' = [sc EXCEPT !.channels = @ \ {c}, !.recycled = @ \cup {c}]
    /\ UNCHANGED <<vault, safe_head, monitorVars, yielded, continuousVars, witnessed, vault_ended>>

\* The next vault starts at its start block: this one is historic.
BecomeHistoric ==
    /\ sc.historic = {}
    /\ sc' = [sc EXCEPT !.historic = {vault.end}]
    /\ UNCHANGED <<vault, safe_head, monitorVars, yielded, continuousVars, witnessed, vault_ended>>

\* The task of MonitoredSCItems: at every block of the state chain the height and the items are
\* read at that block.
get_chain_state_and_items == [height |-> sc.height, items |-> sc.channels]

\* The items are filtered for the block when the header becomes ready.
ItemsAt(index) ==
    {c \in monitored.items : c.opened_at <= index /\ index <= c.expires_at}

is_header_ready(index, height) == index < height

\* add_headers: those that are ready are joined with their items, the others wait.
add_headers(headers, height) ==
    LET now_ready == SelectSeq(headers, LAMBDA i : is_header_ready(i, height))
    IN  /\ ready_headers' = ready_headers
                \o [k \in 1 .. Len(now_ready) |-> [index |-> now_ready[k], items |-> ItemsAt(now_ready[k])]]
        /\ pending_headers' = SelectSeq(headers, LAMBDA i : ~is_header_ready(i, height))

\* The watch channel changes; the waiting headers are looked at again.
SeeStateChain ==
    /\ ~vault_ended /\ monitored # get_chain_state_and_items
    /\ monitored' = get_chain_state_and_items
    /\ UNCHANGED <<vault, scVars, chain_stream, pending_headers, ready_headers, yielded,
                   continuousVars, witnessed, vault_ended>>

ReviewPending ==
    /\ ~vault_ended /\ yielded = {}
    /\ \E k \in DOMAIN pending_headers : is_header_ready(pending_headers[k], monitored.height)
    /\ add_headers(pending_headers, monitored.height)
    /\ UNCHANGED <<vault, scVars, monitored, chain_stream, yielded, continuousVars, witnessed,
                   vault_ended>>

----------------------------------------------------------------------------
\* The stream of safe headers, cut to the vault. Some headers are missed. (The expired_signal
\* that would end the stream is never given: filter_map does not pass on that an epoch has
\* expired, see Passes.)

InVault(index) == index >= vault.start /\ \A end \in sc.historic : index < end

SafeHeader ==
    /\ ~vault_ended /\ yielded = {}
    /\ \E i \in Blocks :
        /\ i >= safe_head /\ i > chain_stream
        /\ i - chain_stream <= vault.gap + 1 \/ chain_stream = -1
        /\ safe_head' = i /\ chain_stream' = i
        /\ IF ~InVault(i) THEN UNCHANGED <<pending_headers, ready_headers>>
           ELSE IF is_header_ready(i, monitored.height)
           THEN /\ ready_headers' = Append(ready_headers, [index |-> i, items |-> ItemsAt(i)])
                /\ UNCHANGED pending_headers
           ELSE /\ pending_headers' = Append(pending_headers, i)
                /\ UNCHANGED ready_headers
    /\ UNCHANGED <<vault, sc, monitored, yielded, continuousVars, witnessed, vault_ended>>

\* ready_headers.pop(): the last one. The header is witnessed and goes to the adapter.
ReadyHeader == Last(ready_headers)
Witness ==
    /\ ~vault_ended /\ yielded = {} /\ ready_headers # <<>>
    /\ witnessed' = witnessed \cup {ReadyHeader}
    /\ yielded' = {ReadyHeader.index}
    /\ ready_headers' = Front(ready_headers)
    /\ UNCHANGED <<vault, scVars, monitored, chain_stream, pending_headers, continuousVars,
                   vault_ended>>

----------------------------------------------------------------------------
\* Continuous.

\* store.store: its result is ignored.
Store(processed) ==
    \/ stored' = processed /\ UNCHANGED vault
    \/ /\ vault.store_failures > 0
       /\ vault' = [vault EXCEPT !.store_failures = @ - 1]
       /\ UNCHANGED stored

\* faulty variant: the block after the highest processed one is left out
GapAfterNext(index) ==
    {i \in Blocks : i >= vault.start /\ i < index /\ \A p \in processed_indices : p + 1 < i}

\* The blocks between the highest processed one and the header that has just come.
GapBefore(index) ==
    {i \in Blocks : i >= vault.start /\ i < index /\ \A p \in processed_indices : p < i}

\* As many of them as there is room for are asked for, the lowest first; the others wait.
MAXIMUM_CONCURRENT_INPROGRESS == vault.limit

Started(gap) ==
    {i \in gap : Cardinality({j \in gap : j < i}) + Cardinality(DOMAIN inprogress_indices)
                     < MAXIMUM_CONCURRENT_INPROGRESS}

ContinuousHeader ==
    LET step(index, gap, started) ==
            /\ inprogress_indices' =
                   [i \in (DOMAIN inprogress_indices \cup started) \ {index} |->
                       i \in DOMAIN inprogress_indices /\ inprogress_indices[i]]
            /\ unprocessed_indices' = (unprocessed_indices \cup (gap \ started)) \ {index}
            /\ processed_indices' = processed_indices \cup {index}
            /\ Store(processed_indices \cup {index})
    IN  /\ ~vault_ended /\ yielded # {}
        /\ \E index \in yielded : step(index, GapBefore(index), Started(GapBefore(index)))
        /\ yielded' = {}
        /\ UNCHANGED <<scVars, monitorVars, witnessed, vault_ended>>

\* header_at_index of the client: waits until the block is tracked, takes the items of that
\* moment, reads the header and witnesses it.
ReadAndWitness ==
    /\ ~vault_ended
    /\ \E i \in DOMAIN inprogress_indices :
        /\ ~inprogress_indices[i] /\ is_header_ready(i, monitored.height)
        /\ inprogress_indices' = [inprogress_indices EXCEPT ![i] = TRUE]
        /\ witnessed' = witnessed \cup {[index |-> i, items |-> ItemsAt(i)]}
    /\ UNCHANGED <<vault, scVars, monitorVars, yielded, unprocessed_indices, processed_indices,
                   stored, vault_ended>>

NextUnprocessed == IF unprocessed_indices = {} THEN {} ELSE {LowestOf(unprocessed_indices)}

CompleteRequest ==
    LET step(index, next) ==
            /\ inprogress_indices' =
                   [i \in (DOMAIN inprogress_indices \ {index}) \cup next |->
                       i \notin next /\ inprogress_indices[i]]
            /\ unprocessed_indices' = unprocessed_indices \ next
            /\ processed_indices' = processed_indices \cup {index}
            /\ Store(processed_indices \cup {index})
    IN  /\ ~vault_ended
        /\ \E index \in DOMAIN inprogress_indices :
            inprogress_indices[index] /\ step(index, NextUnprocessed)
        /\ UNCHANGED <<scVars, monitorVars, yielded, witnessed, vault_ended>>

\* The stream ends once the vault is historic and all of its blocks are processed.
is_epoch_complete(end) == \A i \in vault.start .. end - 1 : i \in processed_indices

EndVault ==
    /\ ~vault_ended
    /\ \E end \in sc.historic : is_epoch_complete(end)
    /\ vault_ended' = TRUE
    /\ UNCHANGED <<vault, scVars, monitorVars, yielded, continuousVars, witnessed>>

----------------------------------------------------------------------------
\* The engine stops and starts: what is in memory is lost, the bitmap of the database is read.

\* The holes below the highest processed block.
HolesOf(processed) ==
    {i \in Blocks : i >= vault.start /\ i \notin processed /\ \E p \in processed : i < p}

\* load_processed_blocks: an error counts as an empty bitmap.
Restart ==
    /\ vault.crashes > 0
    /\ \E loaded \in {stored} \cup (IF vault.load_failures THEN {{}} ELSE {}) :
        /\ processed_indices' = loaded
        /\ unprocessed_indices' = HolesOf(loaded)
    /\ vault' = [vault EXCEPT !.crashes = @ - 1]
    /\ inprogress_indices' = <<>> /\ yielded' = {}
    /\ monitored' = get_chain_state_and_items
    /\ chain_stream' = -1 /\ pending_headers' = <<>> /\ ready_headers' = <<>>
    /\ vault_ended' = FALSE
    /\ UNCHANGED <<scVars, stored, witnessed>>

----------------------------------------------------------------------------

VaultInit ==
    /\ vault \in Vaults
    /\ sc = [height |-> 1, channels |-> {}, recycled |-> {}, historic |-> {}]
    /\ monitored = get_chain_state_and_items
    /\ safe_head = 0 /\ chain_stream = -1 /\ pending_headers = <<>> /\ ready_headers = <<>>
    /\ yielded = {} /\ inprogress_indices = <<>> /\ unprocessed_indices = {}
    /\ processed_indices = {} /\ stored = {} /\ witnessed = {} /\ vault_ended = FALSE

VaultNext ==
    \/ TrackHeight
    \/ OpenChannel
    \/ RecycleChannel
    \/ BecomeHistoric
    \/ SeeStateChain
    \/ ReviewPending
    \/ SafeHeader
    \/ Witness
    \/ ContinuousHeader
    \/ ReadAndWitness
    \/ CompleteRequest
    \/ EndVault
    \/ Restart

\* Chain tracking goes on and the engine's tasks run.
VaultFairness ==
    /\ WF_vaultVars(TrackHeight)
    /\ WF_vaultVars(SeeStateChain)
    /\ WF_vaultVars(ReviewPending)
    /\ WF_vaultVars(Witness)
    /\ WF_vaultVars(ContinuousHeader)
    /\ WF_vaultVars(ReadAndWitness)
    /\ WF_vaultVars(CompleteRequest)
    /\ WF_vaultVars(EndVault)

VaultSpec == VaultInit /\ [][VaultNext]_vaultVars /\ VaultFairness

----------------------------------------------------------------------------

\* The state has its types: bitmaps hold blocks of the vault, and no more requests are under
\* way than are allowed.
VaultTypeOK ==
    /\ \A S \in {processed_indices, unprocessed_indices, stored, DOMAIN inprogress_indices} :
        \A i \in S : i \in Blocks /\ i >= vault.start
    /\ Cardinality(DOMAIN inprogress_indices) <= MAXIMUM_CONCURRENT_INPROGRESS
    /\ \A i \in DOMAIN inprogress_indices : inprogress_indices[i] \in BOOLEAN
    /\ yielded \subseteq Blocks /\ Cardinality(yielded) <= 1

\* What the engine has recorded as processed it has witnessed, in this run or in an earlier
\* one: whatever step the engine stops at, a block is witnessed again rather than left out,
\* and when the adapter ends the stream of a historic vault all of the vault's blocks have
\* been witnessed.
ProcessedWasWitnessed ==
    LET blocks == {w.index : w \in witnessed}
    IN  /\ processed_indices \cup stored \subseteq blocks
        /\ vault_ended => \A end \in sc.historic : \A i \in vault.start .. end - 1 : i \in blocks

\* No block below the highest processed one is forgotten: it is processed, asked for or waits;
\* and a block that waits is not asked for at the same time.
NothingForgotten ==
    /\ HolesOf(processed_indices) \subseteq unprocessed_indices \cup DOMAIN inprogress_indices
    /\ unprocessed_indices \cap DOMAIN inprogress_indices = {}
    /\ unprocessed_indices \cap processed_indices = {}

\* Two engines that witness the same block look for the same items: a witness is made for every
\* channel that was open at its block, unless the channel has been recycled meanwhile (which
\* the comment in MonitoredSCItems::new admits). In particular no channel is opened for a
\* block that an engine already considered ready.
WitnessesAreComplete ==
    \A w \in witnessed : \A c \in sc.channels :
        c.opened_at <= w.index /\ w.index <= c.expires_at => c \in w.items

\* The engine looks no further for the blocks that wait: none is being asked for, and only a
\* request that completes makes it ask for the next one (continuous.rs:164-174). The holes that
\* are loaded from the database wait like this from the start (continuous.rs:77-84).
HolesWait == unprocessed_indices # {} /\ inprogress_indices = <<>>

\* Once the last block of a historic vault has come out of the stream, the engine witnesses all
\* that it missed and ends the stream, as long as it is not stopped. Two cases of the code are
\* not covered. When holes wait with no request under way they may wait for ever. And when the
\* engine starts again after the safe headers have passed the end of the vault, the filter of
\* chunked_by_vault.rs lets no header through, so the blocks that had not been processed are
\* never asked for.
VaultIsFinished ==
    (\E end \in sc.historic : chain_stream = end - 1)
        ~> (vault_ended \/ HolesWait \/ ~\E end \in sc.historic : chain_stream = end - 1)

\* A block that is recorded as processed was witnessed with all that had to be looked for in it,
\* whenever the engine stops and starts again, and no block below it is forgotten; and an engine
\* that sees the last block of the vault ends the vault with every block witnessed. It is not
\* the case that every block of a vault is witnessed by every engine that starts again: see
\* VaultIsFinished for the holes that stay.
VaultIsWitnessed ==
    /\ [](VaultTypeOK /\ ProcessedWasWitnessed /\ NothingForgotten /\ WitnessesAreComplete)
    /\ VaultIsFinished


\* Together: the engine takes part in the witnessing of all its epochs, and what it records of
\* their vaults it has witnessed.
WitnessingIsComplete == EpochsAreFollowed /\ VaultIsWitnessed
=============================================================================
