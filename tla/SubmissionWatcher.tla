------------------------- MODULE SubmissionWatcher --------------------------
(***************************************************************************)
(* How the engine submits transactions and tracks their nonces: extrinsics *)
(* on the state chain and transactions on EVM chains.                      *)
(***************************************************************************)
EXTENDS Integers, Sequences, FiniteSets, SequencesExt, FiniteSetsExt

(***************************************************************************)
(* The task of the engine that gets signed extrinsics into the State       *)
(* Chain: it submits each requested call with a nonce and a lifetime,      *)
(* follows the finalized chain, submits a call again once its submissions  *)
(* can no longer get in, and tells the requester how it ended.  The chain, *)
(* the transaction pool of our node and others that use the account are    *)
(* modelled as far as the task sees them.  An extrinsic stands for its     *)
(* hash and for its SubmissionID: both are unique here.                    *)
(***************************************************************************)

CONSTANTS Plans,              \* the scenarios, see WatcherTypeOK
          ExtrinsicLifetime,  \* SIGNED_EXTRINSIC_LIFETIME
          RequestLifetime,    \* REQUEST_LIFETIME
          MaxFork,            \* bound on the blocks that are not finalized
          MaxLag              \* bound on the finalized blocks not yet handled

VARIABLES plan,      \* the requests to come and what the environment may still do
          chain,     \* the blocks of the best chain: the account's extrinsics in each
          final,     \* how many of them are finalized
          spec_version,
          known,     \* the extrinsics the network has been given
          pool,      \* those that our node's transaction pool has not dropped
          watcher,   \* the state of the submission watcher
          answers    \* what each requester has been told

watcherVars == <<plan, chain, final, spec_version, known, pool, watcher, answers>>
chainVars == <<chain, final, spec_version>>

RequestIds == DOMAIN answers

-----------------------------------------------------------------------------
(* The State Chain, as far as the account goes *)

NonceAt(n) == Cardinality(UNION {chain[i] : i \in 1..n})

\* The era of an extrinsic: the blocks it may be in.
MayBeIn(x, n) == x.birth < n /\ n < x.birth + ExtrinsicLifetime

Valid(x, nonce) ==
    /\ x.nonce = nonce
    /\ MayBeIn(x, Len(chain) + 1)
    /\ x.version = spec_version

\* Others that hold the key of the account use its nonces too.
Foreign(nonce) ==
    [request |-> 0, nonce |-> nonce, birth |-> Len(chain), version |-> spec_version]

Candidates(nonce) ==
    {x \in known : Valid(x, nonce)} \cup IF plan.foreign > 0 THEN {Foreign(nonce)} ELSE {}

ChainBlocks ==
    LET first == Candidates(NonceAt(Len(chain)))
        second == Candidates(NonceAt(Len(chain)) + 1)
    IN {{}} \cup {{x} : x \in first} \cup {{x, y} : x \in first, y \in second}

ForeignIn(block) == Cardinality({x \in block : x.request = 0})

AuthorBlock ==
    /\ Len(chain) < plan.height
    /\ Len(chain) < final + MaxFork
    /\ \E block \in ChainBlocks :
         /\ ForeignIn(block) <= plan.foreign
         /\ chain' = Append(chain, block)
         /\ plan' = [plan EXCEPT !.foreign = @ - ForeignIn(block)]
         /\ watcher' = [watcher EXCEPT !.in_block = @ \cup (block \cap watcher.futures)]
    /\ UNCHANGED <<final, spec_version, known, pool, answers>>

\* The best block is replaced: its extrinsics are candidates again.
RetractBlock ==
    /\ plan.retracts > 0
    /\ Len(chain) > final
    /\ plan' = [plan EXCEPT !.retracts = @ - 1, !.forked = TRUE]
    /\ chain' = Front(chain)
    /\ UNCHANGED <<final, spec_version, known, pool, watcher, answers>>

FinalizeBlock ==
    /\ Len(chain) > final
    /\ final < watcher.finalized_block_number + MaxLag
    /\ final' = final + 1
    /\ UNCHANGED <<plan, chain, spec_version, known, pool, watcher, answers>>

\* Extrinsics signed for another version are not valid.
UpgradeRuntime ==
    /\ plan.upgrades > 0
    /\ Len(chain) = final
    /\ plan' = [plan EXCEPT !.upgrades = @ - 1]
    /\ spec_version' = spec_version + 1
    /\ UNCHANGED <<chain, final, known, pool, watcher, answers>>

\* Our node forgets an extrinsic; other nodes may still include it.
DropFromPool ==
    /\ plan.drops > 0
    /\ \E x \in pool : pool' = pool \ {x}
    /\ plan' = [plan EXCEPT !.drops = @ - 1]
    /\ UNCHANGED <<chain, final, spec_version, known, watcher, answers>>

\* The next nonce after the best block and the extrinsics that are ready.
next_account_nonce(p) ==
    LET taken == {x.nonce : x \in {y \in p : Valid(y, y.nonce)}}
    IN Min({n \in NonceAt(Len(chain)) .. NonceAt(Len(chain)) + Cardinality(p) : n \notin taken})

-----------------------------------------------------------------------------
(* The watcher.  A step of it works on [w, p]: its state and the pool.      *)

WatcherInit ==
    /\ plan \in Plans
    /\ chain = <<>>
    /\ final = 0
    /\ spec_version = 0
    /\ known = {}
    /\ pool = {}
    /\ watcher = [finalized_block_number |-> 0, finalized_nonce |-> 0,
                  runtime_version |-> 0, panicked |-> FALSE,
                  requests |-> [r \in {} |-> 0], submissions |-> {},
                  futures |-> {}, in_block |-> {}]
    /\ answers = [r \in 1..Len(plan.requests) |-> [in_block |-> "", finalized |-> ""]]

new_signed_extrinsic(r, version, birth, nonce) ==
    [request |-> r, nonce |-> nonce, birth |-> birth, version |-> version]

\* The extrinsic is submitted with the next nonce that is free: a nonce that was
\* taken in the meantime is asked for again, and so is the version after a bad proof.
submit_extrinsic(s, r) ==
    LET x == new_signed_extrinsic(r, spec_version, s.w.finalized_block_number,
                                  next_account_nonce(s.p))
    IN [w |-> [s.w EXCEPT !.runtime_version = spec_version,
                          !.requests[r].pending_submissions = @ \cup {x},
                          !.submissions = @ \cup {x},
                          !.futures = @ \cup {x}],
        p |-> s.p \cup {x}]

SetWatcher(s) ==
    /\ watcher' = s.w
    /\ pool' = s.p
    /\ known' = known \cup s.p

\* What may be asked: submit_signed_extrinsic, finalize_signed_extrinsic (any number of
\* submissions) and submit_signed_extrinsic_with_dry_run.
SignedExtrinsicApi == {"StrictlyOne", "Many", "DryRun"}
NextRequest == plan.asked + 1

\* A dry run refuses a call before anything is submitted.
dry_run_extrinsic ==
    /\ NextRequest \in RequestIds
    /\ plan.requests[NextRequest] = "DryRun"
    /\ ~watcher.panicked
    /\ \/ plan' = [plan EXCEPT !.asked = @ + 1]
       \/ plan' = [plan EXCEPT !.requests[NextRequest] = "StrictlyOne"]
    /\ UNCHANGED <<chainVars, known, pool, watcher, answers>>

new_request ==
    /\ NextRequest \in RequestIds
    /\ plan.requests[NextRequest] # "DryRun"
    /\ ~watcher.panicked
    /\ plan' = [plan EXCEPT !.asked = @ + 1]
    /\ LET r == NextRequest
           request == [pending_submissions |-> {},
                       strictly_one_submission |-> plan.requests[r] = "StrictlyOne",
                       resubmit_window |->
                            watcher.finalized_block_number + 1 + RequestLifetime,
                       until_in_block_sender |-> TRUE]
       IN SetWatcher(submit_extrinsic(
            [w |-> [watcher EXCEPT !.requests = [q \in DOMAIN @ \cup {r} |->
                        IF q = r THEN request ELSE @[q]]],
             p |-> pool], r))
    /\ UNCHANGED <<chainVars, answers>>

\* The node has reported the block of a submission.  The block may be gone, or
\* be of a version that we cannot decode.
on_submission_in_block(x) ==
    /\ x \in watcher.in_block
    /\ ~watcher.panicked
    /\ LET w == [watcher EXCEPT !.futures = @ \ {x}, !.in_block = @ \ {x}]
           r == x.request
       IN \/ /\ x \notin UNION Range(chain)
             /\ watcher' = w
             /\ UNCHANGED answers
          \/ /\ r \notin DOMAIN w.requests
             /\ watcher' = w
             /\ UNCHANGED answers
          \/ /\ r \in DOMAIN w.requests
             /\ w.requests[r].until_in_block_sender
             /\ watcher' = [w EXCEPT !.requests[r].until_in_block_sender = FALSE]
             /\ answers' = [answers EXCEPT ![r].in_block = "InBlock"]
          \/ /\ r \in DOMAIN w.requests
             /\ ~w.requests[r].until_in_block_sender
             /\ watcher' = [w EXCEPT !.panicked = TRUE]
             /\ UNCHANGED answers
    /\ UNCHANGED <<plan, chainVars, known, pool>>

\* Submissions that are over: their requests no longer wait for them.
DropSubmissions(w, over) ==
    [w EXCEPT !.submissions = @ \ over, !.futures = @ \ over, !.in_block = @ \ over,
              !.requests = [r \in DOMAIN @ |->
                    [@[r] EXCEPT !.pending_submissions = @ \ over]]]

WithoutRequests(w, done) ==
    [w EXCEPT !.requests = [r \in DOMAIN @ \ done |-> @[r]]]

\* The lifetime of a submission ends before the next block.
Expired(w) ==
    {x \in w.submissions : ~(w.finalized_block_number + 1 < x.birth + ExtrinsicLifetime)}

\* faulty variant
TimedOutAny(w) ==
    {r \in DOMAIN w.requests :
        \/ w.finalized_block_number + 1 > w.requests[r].resubmit_window
        \/ w.requests[r].pending_submissions = {} /\ w.requests[r].strictly_one_submission}

\* The requests that wait for nothing and may not be submitted again.
TimedOut(w) ==
    {r \in DOMAIN w.requests :
        /\ w.requests[r].pending_submissions = {}
        /\ \/ w.finalized_block_number + 1 > w.requests[r].resubmit_window
           \/ w.requests[r].strictly_one_submission}

Resubmitted(w) ==
    LET idle == SetToSortSeq({r \in DOMAIN w.requests :
                                w.requests[r].pending_submissions = {}}, <)
    IN FoldLeft(submit_extrinsic, [w |-> w, p |-> pool], idle)

Answer(r, in_block, finalized) ==
    [in_block |-> IF watcher.requests[r].until_in_block_sender THEN in_block
                  ELSE answers[r].in_block,
     finalized |-> finalized]

\* The next finalized block: its extrinsics end the submissions with their nonces,
\* then submissions expire, requests time out, and others are submitted again.
on_block_finalized ==
    /\ watcher.finalized_block_number < final
    /\ ~watcher.panicked
    /\ LET number == watcher.finalized_block_number + 1
           block == chain[number]
           ended == {x \in watcher.submissions : x.nonce \in {y.nonce : y \in block}}
           found == {x.request : x \in ended \cap block} \cap DOMAIN watcher.requests
           handled == WithoutRequests(
                DropSubmissions([watcher EXCEPT !.finalized_block_number = number,
                                       !.finalized_nonce = NonceAt(number)], ended), found)
           step(w) ==
             LET out == TimedOut(w)
             IN /\ SetWatcher(Resubmitted(WithoutRequests(w, out)))
                /\ answers' = [r \in RequestIds |->
                        IF r \in found THEN Answer(r, "InBlock", "Finalized")
                        ELSE IF r \in out THEN Answer(r, "NotInBlock", "NotFinalized")
                        ELSE answers[r]]
       IN step(DropSubmissions(handled, Expired(handled)))
    /\ UNCHANGED <<plan, chainVars>>

WatcherNext ==
    \/ AuthorBlock
    \/ RetractBlock
    \/ FinalizeBlock
    \/ UpgradeRuntime
    \/ DropFromPool
    \/ dry_run_extrinsic
    \/ new_request
    \/ \E x \in watcher.in_block : on_submission_in_block(x)
    \/ on_block_finalized

-----------------------------------------------------------------------------
(* Properties *)

ExtrinsicsOf(r) == {x \in UNION Range(chain) : x.request = r}

\* The type of the watcher's state, and what its unwraps and assertions rely on:
\* a submission is kept under its nonce exactly as long as its request waits for
\* it, and only for nonces that are not finalized.
WatcherTypeOK ==
    /\ plan.asked \in 0..Len(plan.requests) /\ Range(plan.requests) \subseteq SignedExtrinsicApi
    /\ Len(chain) \in final..plan.height
    /\ DOMAIN watcher.requests \subseteq 1..plan.asked
    /\ watcher.in_block \subseteq watcher.futures
    /\ watcher.futures \subseteq watcher.submissions
    /\ \A r \in DOMAIN watcher.requests :
         watcher.requests[r].pending_submissions = {x \in watcher.submissions : x.request = r}
    /\ \A x \in watcher.submissions :
         x.request \in DOMAIN watcher.requests /\ x.nonce >= watcher.finalized_nonce

\* What requesters are told is true for good: a call said to be finalized is in a
\* finalized block, and one said not to be finalized is in no block and gets into
\* none later ("was not and will not be included in a finalized block").
AnswersAreTrue ==
    \A r \in RequestIds :
        /\ answers[r].finalized = "Finalized" =>
             \E i \in 1..final : chain[i] \cap ExtrinsicsOf(r) # {}
        /\ answers[r].finalized = "NotFinalized" => ExtrinsicsOf(r) = {}

\* However often a call is submitted, it gets into the chain at most once, and a
\* call to be submitted strictly once is known to the network once at most.
CallsRunOnce ==
    \A r \in RequestIds :
        /\ Cardinality(ExtrinsicsOf(r)) <= 1
        /\ plan.requests[r] = "StrictlyOne" =>
             Cardinality({x \in known : x.request = r}) <= 1

\* A request is answered before the lifetime of a submission made in the last
\* block of its window is over: the finalized chain cannot outrun it.
RequestsEndInTime ==
    \A r \in DOMAIN watcher.requests :
        watcher.finalized_block_number + 2
            < watcher.requests[r].resubmit_window + ExtrinsicLifetime

\* The watcher panics only on a fork. It does there: a request whose block was
\* reported, retracted and not included again is submitted once more, and when
\* that is reported until_in_block_sender has been taken (take().unwrap()).
PanicsNeedAFork == watcher.panicked => plan.forked

(***************************************************************************)
(* Broadcasting of transactions to an EVM chain: each attempt estimates    *)
(* the gas, takes a nonce from the counter its client keeps and sends the  *)
(* transaction.  The attempts of several broadcasts share the counter, and *)
(* the retrier cancels an attempt wherever it waits when it takes too      *)
(* long, then tries the other client.  Both clients sign with one account. *)
(***************************************************************************)

CONSTANTS SignerLoads,       \* the scenarios: broadcasts, cancellations, lost answers
          MaxBroadcastRetries, \* MAX_BROADCAST_RETRIES
          NonceMax           \* bound on the nonces of a scenario

VARIABLES signer_load,
          nonce_info,        \* per client, at most one counter
          nonce_lock,        \* the attempt that holds each client's counter
          attempt,           \* the attempt of each broadcast under way
          on_chain           \* the broadcast the network holds under each nonce

signerVars == <<signer_load, nonce_info, nonce_lock, attempt, on_chain>>

Clients == {"Primary", "Secondary"}
BroadcastIds == 1..signer_load.broadcasts
OtherClient(c) == IF c = "Primary" THEN "Secondary" ELSE "Primary"

NoAttempt(c, n) == [at |-> "Start", client |-> c, number |-> n, nonce |-> 0]

-----------------------------------------------------------------------------
(* The network, as the client sees it *)

\* The account's transaction count including pending ones.
get_transaction_count == Min({n \in 0..NonceMax : n \notin DOMAIN on_chain})

\* A node takes a transaction whose nonce is not in use.
Delivered(nonce, b) ==
    IF nonce \in DOMAIN on_chain THEN on_chain
    ELSE [n \in DOMAIN on_chain \cup {nonce} |-> IF n = nonce THEN b ELSE on_chain[n]]

-----------------------------------------------------------------------------
SignerInit ==
    /\ signer_load \in SignerLoads
    /\ nonce_info = [c \in Clients |-> {}]
    /\ nonce_lock = [c \in Clients |-> {}]
    /\ attempt = [b \in 1..signer_load.broadcasts |-> NoAttempt("Primary", 0)]
    /\ on_chain = [n \in {} |-> 0]

\* An attempt has failed: the retrier starts another one with the other client.
AttemptFailed(b) ==
    [attempt EXCEPT ![b] =
        IF @.number + 1 < MaxBroadcastRetries
        THEN NoAttempt(OtherClient(@.client), @.number + 1)
        ELSE [@ EXCEPT !.at = "Failed"]]

Goes(b, at) == [attempt EXCEPT ![b].at = at]

\* The gas is estimated and within the limit of the transaction, or not.
EstimateGas(b) ==
    /\ attempt[b].at = "Start"
    /\ attempt' \in {Goes(b, "Nonce")}
          \cup IF signer_load.failures THEN {AttemptFailed(b)} ELSE {}
    /\ UNCHANGED <<signer_load, nonce_info, nonce_lock, on_chain>>

\* The counter of a client hands out its nonce.
TakeNonce(b, c, info) ==
    /\ info.next_nonce < NonceMax
    /\ nonce_info' = [nonce_info EXCEPT ![c] =
                         {[info EXCEPT !.next_nonce = @ + 1]}]
    /\ attempt' = [attempt EXCEPT ![b].at = "Send", ![b].nonce = info.next_nonce]

\* get_next_nonce up to its wait for the transaction count.
get_next_nonce(b) ==
    LET c == attempt[b].client
        fresh == {i \in nonce_info[c] : ~i.old}
    IN /\ attempt[b].at = "Nonce"
       /\ nonce_lock[c] = {}
       /\ \/ /\ fresh # {}
             /\ \E info \in fresh : TakeNonce(b, c, info)
             /\ UNCHANGED nonce_lock
          \/ /\ fresh = {}
             /\ nonce_info' = [nonce_info EXCEPT ![c] = {}]
             /\ nonce_lock' = [nonce_lock EXCEPT ![c] = {b}]
             /\ attempt' = Goes(b, "Count")
       /\ UNCHANGED <<signer_load, on_chain>>

\* The transaction count has been requested: the counter starts from it.
OnTransactionCount(b) ==
    LET c == attempt[b].client
    IN /\ attempt[b].at = "Count"
       /\ nonce_lock' = [nonce_lock EXCEPT ![c] = {}]
       /\ \/ TakeNonce(b, c, [next_nonce |-> get_transaction_count, old |-> FALSE,
                              cancelled |-> FALSE])
          \/ /\ signer_load.failures
             /\ attempt' = AttemptFailed(b)
             /\ UNCHANGED nonce_info
       /\ UNCHANGED <<signer_load, on_chain>>

\* The node answers: with an error when the nonce is in use; the answer may
\* also be an error when the transaction did not arrive, or get lost when it did.
SendWithNonce(b) ==
    /\ attempt[b].at = "Send"
    /\ \/ /\ attempt[b].nonce \notin DOMAIN on_chain
          /\ on_chain' = Delivered(attempt[b].nonce, b)
          /\ attempt' \in {Goes(b, "Sent")}
                \cup IF signer_load.failures THEN {Goes(b, "Reset")} ELSE {}
       \/ /\ signer_load.failures \/ attempt[b].nonce \in DOMAIN on_chain
          /\ attempt' = Goes(b, "Reset")
          /\ UNCHANGED on_chain
    /\ UNCHANGED <<signer_load, nonce_info, nonce_lock>>

\* After an error the counter is dropped: it is requested again.
ResetNonce(b) ==
    /\ attempt[b].at = "Reset"
    /\ nonce_lock[attempt[b].client] = {}
    /\ nonce_info' = [nonce_info EXCEPT ![attempt[b].client] = {}]
    /\ attempt' = AttemptFailed(b)
    /\ UNCHANGED <<signer_load, nonce_lock, on_chain>>

\* The timeout of the retrier cancels the attempt where it waits; what it was
\* sending may still arrive.
Timeout(b) ==
    LET c == attempt[b].client
        taken == attempt[b].at \in {"Send", "Reset"}
    IN /\ attempt[b].at \in {"Start", "Nonce", "Count", "Send", "Reset"}
       /\ signer_load.timeouts > 0
       /\ signer_load' = [signer_load EXCEPT !.timeouts = @ - 1]
       /\ nonce_lock' = [nonce_lock EXCEPT ![c] = @ \ {b}]
       /\ nonce_info' = [nonce_info EXCEPT ![c] =
                {[i EXCEPT !.cancelled = @ \/ taken] : i \in nonce_info[c]}]
       /\ on_chain' \in {on_chain}
              \cup IF attempt[b].at = "Send" THEN {Delivered(attempt[b].nonce, b)} ELSE {}
       /\ attempt' = AttemptFailed(b)

\* NONCE_LIFETIME has passed since the counter was requested.
NonceGetsOld(c) ==
    /\ \E i \in nonce_info[c] : ~i.old
    /\ signer_load.timeouts > 0
    /\ nonce_info' = [nonce_info EXCEPT ![c] = {[i EXCEPT !.old = TRUE] : i \in @}]
    /\ UNCHANGED <<signer_load, nonce_lock, attempt, on_chain>>

SignerNext ==
    \/ \E b \in BroadcastIds :
          \/ EstimateGas(b) \/ get_next_nonce(b) \/ OnTransactionCount(b)
          \/ SendWithNonce(b) \/ ResetNonce(b) \/ Timeout(b)
    \/ \E c \in Clients : NonceGetsOld(c)

-----------------------------------------------------------------------------
(* Properties *)

\* The type of the state: the attempt that requests the transaction count of a client is
\* the one that holds the lock of its counter.
SignerTypeOK ==
    /\ \A c \in Clients : Cardinality(nonce_info[c]) <= 1 /\ Cardinality(nonce_lock[c]) <= 1
    /\ \A b \in BroadcastIds :
         /\ attempt[b].at \in {"Start", "Nonce", "Count", "Send", "Reset", "Sent", "Failed"}
         /\ attempt[b].at = "Count" <=> nonce_lock[attempt[b].client] = {b}
         /\ attempt[b].number < MaxBroadcastRetries

\* A counter is ahead of the account only while a transaction with the missing
\* nonce is under way, unless an attempt was cancelled after it took its nonce:
\* the error path of send_transaction is what keeps a failure from leaving a gap
\* that every later broadcast of the client would be stuck behind; after a
\* cancellation only the lifetime of the counter does.
GapsComeFromTimeouts ==
    \A c \in Clients : \A i \in nonce_info[c] :
        i.next_nonce > get_transaction_count /\ ~i.cancelled =>
            \E b \in BroadcastIds : /\ attempt[b].client = c
                                   /\ attempt[b].at \in {"Send", "Reset"}
                                   /\ attempt[b].nonce <= get_transaction_count

\* What a caller is told of its extrinsic is true, it is told in time as long as the watcher
\* runs, and an extrinsic that may run once does so, whatever forks, upgrades and lost
\* submissions do to nonces. After a fork the watcher may panic, and then its callers are told
\* nothing (PanicsNeedAFork); without one it does not.
SubmissionsAreTracked ==
    /\ WatcherTypeOK /\ SignerTypeOK /\ AnswersAreTrue /\ CallsRunOnce
    /\ RequestsEndInTime /\ PanicsNeedAFork /\ GapsComeFromTimeouts
=============================================================================
