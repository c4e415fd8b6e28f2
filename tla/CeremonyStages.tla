--------------------------- MODULE CeremonyStages ---------------------------
(***************************************************************************)
(* The key generation, key handover and signing ceremonies, stage by       *)
(* stage.  All correct parties of one ceremony are modelled; a stage of a  *)
(* party ends with the messages that reached it before its timeout, and    *)
(* what it sends next depends on them alone.  Messages between correct     *)
(* parties arrive, up to a number of losses; a faulty party may send each  *)
(* party something else, or nothing.  CeremonyRunner models how one party  *)
(* collects the messages of a stage.                                       *)
(*                                                                         *)
(* Cryptography is abstract.  <<p, k>> is the k-th sharing polynomial (or  *)
(* nonce pair) of party p and also its public commitment and its hash; a   *)
(* correct party uses <<p, 0>>.  A share is a polynomial and the index it  *)
(* is evaluated at.  An optional value is a set of at most one element.    *)
(***************************************************************************)
EXTENDS Integers, FiniteSets

(***************************************************************************)
(* The agreement step of the multisig ceremonies: what a party makes of    *)
(* the reports that all parties send about the previous broadcast.         *)
(*                                                                         *)
(* An optional value is a set of at most one element.  The messages of a   *)
(* verification stage are a function from the parties of the ceremony to   *)
(* the optional report of each; a report is a function from party indexes  *)
(* to the optional value its sender received from that party.              *)
(***************************************************************************)

\* The number of parties that must be exceeded to agree on a broadcast.
threshold_for_broadcast_verification(total_parties) == total_parties \div 2

\* The values that occur more than `threshold' times among those of f.  The
\* code returns the first one; FrequentElementUnique (in the proofs) shows that
\* with the threshold it is called with there is at most one.
find_frequent_element(f, threshold) ==
    {v \in {f[i] : i \in DOMAIN f} :
        Cardinality({i \in DOMAIN f : f[i] = v}) > threshold}

\* A report counts when it names all parties of the ceremony and no others.
check_verification_message_indexes(message, expected) == DOMAIN message = expected

\* The parties whose report was received and counts.
Reporters(messages) ==
    {s \in DOMAIN messages :
        \E m \in messages[s] :
            check_verification_message_indexes(m, DOMAIN messages)}

\* What the counted reports say that party idx had broadcast.
Heard(messages, idx) ==
    [s \in Reporters(messages) |-> (CHOOSE m \in messages[s] : TRUE)[idx]]

\* faulty variant
agreed_with_last_report(messages, idx) ==
    LET h == Heard(messages, idx)
        some == {s \in DOMAIN h : h[s] # {}}
    IN  UNION {h[s] : s \in {s \in some : \A t \in some : t <= s}}

\* The value of idx all agree on: nothing when no value has a majority, and
\* also when the majority heard nothing.
Agreed(messages, idx) ==
    UNION find_frequent_element(
        Heard(messages, idx),
        threshold_for_broadcast_verification(Cardinality(DOMAIN messages)))

\* The outcome of a verification stage: the agreed values of all parties, or
\* the parties to report.
verify_broadcasts(messages) ==
    LET unagreed == {i \in DOMAIN messages : Agreed(messages, i) = {}}
    IN  IF Cardinality(Reporters(messages)) <=
           threshold_for_broadcast_verification(Cardinality(DOMAIN messages))
        THEN [ok |-> FALSE, reported |-> {}, values |-> <<>>]
        ELSE [ok |-> unagreed = {}, reported |-> unagreed,
              values |-> [i \in DOMAIN messages \ unagreed |->
                             CHOOSE v \in Agreed(messages, i) : TRUE]]

CONSTANT CeremonyPlans    \* the ceremonies to choose from, see StagesTypeOK

VARIABLES ceremony,    \* the ceremony that takes place
          node,        \* the state of each correct party
          mail,        \* the stage of each correct party, and what it sends in it to whom
          pending,     \* the correct parties whose stage has not ended
          lost         \* number of messages lost between correct parties

stagesVars == <<ceremony, node, mail, pending, lost>>

Parties == ceremony.parties
Correct == ceremony.parties \ ceremony.faulty
IsHandover == ceremony.kind = "Handover"
The(option) == CHOOSE x \in option : TRUE

Ended == {"Done", "Failed", "Panicked"}

\* The stage a verification stage follows.
Verifies ==
    [VerifyHashCommitmentsBroadcast2     |-> "HashCommitments1",
     VerifyCommitmentsBroadcast4         |-> "CoefficientCommitments3",
     VerifyComplaintsBroadcastStage7     |-> "ComplaintsStage6",
     VerifyBlameResponsesBroadcastStage9 |-> "BlameResponsesStage8",
     VerifyCommitmentsBroadcast2         |-> "AwaitCommitments1",
     VerifyLocalSigsBroadcastStage4      |-> "LocalSigStage3"]

\* The index at which the sharing polynomials are evaluated for party q: its
\* index among the holders of the new key.
future_index(q) == IF IsHandover
                   THEN Cardinality({r \in ceremony.receiving : r <= q})
                   ELSE q

\* The share of party p for party q; parties that receive none get a dummy.
OutgoingShare(p, q) ==
    IF q \in ceremony.receiving THEN [poly |-> <<p, 0>>, at |-> future_index(q)]
                                ELSE [poly |-> <<0, 0>>, at |-> 0]

verify_share(share, poly, index) == share.poly = poly /\ share.at = index

Broadcast(value) == [q \in Parties |-> {value}]
Silence == [q \in Parties |-> {}]

Fail(n, parties) == [n EXCEPT !.stage = "Failed", !.reported = parties, !.out = Silence]

\* A stage that only collects: its messages are what the next stage reports.
Collected(n, next, msgs) == [n EXCEPT !.stage = next, !.out = Broadcast(msgs)]

-----------------------------------------------------------------------------
(* Key generation and handover *)

PubkeyShares == [i \in ceremony.sharing |-> <<i, 0>>]

StartHashCommitments1(p, n) ==
    [n EXCEPT !.stage = "HashCommitments1", !.out = Broadcast(<<p, 0>>)]

\* A handover starts with the public key shares of the key handed over; the
\* parties that do not hold it take those that most sharing parties sent.
PubkeySharesStage0(p, n, msgs) ==
    LET step(got, threshold) ==
            LET frequent == find_frequent_element(got, threshold)
            IN  IF \/ Cardinality(DOMAIN got) <= threshold
                   \/ frequent = {}
                   \/ DOMAIN The(frequent) # ceremony.sharing
                THEN Fail(n, {})
                ELSE StartHashCommitments1(p,
                         [n EXCEPT !.keys = IF n.keys = {} THEN frequent ELSE @])
    IN  step([i \in {i \in ceremony.sharing : msgs[i] # {}} |-> The(msgs[i])],
             threshold_for_broadcast_verification(Cardinality(ceremony.sharing)))

VerifyHashCommitmentsBroadcast2(p, n, msgs) ==
    LET step(v) ==
            IF ~v.ok THEN Fail(n, v.reported)
            ELSE [n EXCEPT !.stage = "CoefficientCommitments3", !.hashes = v.values,
                           !.out = Broadcast([poly |-> <<p, 0>>, zkp |-> TRUE,
                                              decodes |-> TRUE])]
    IN  step(verify_broadcasts(msgs))

\* The parties whose commitments do not belong to the key share they must hand
\* over, have no valid proof, or are not the ones they had hashed.
validate_commitments(n, comms) ==
    {i \in DOMAIN comms :
        \/ IsHandover /\ comms[i].poly # The(n.keys)[i]
        \/ ~comms[i].zkp
        \/ comms[i].poly # n.hashes[i]}

VerifyCommitmentsBroadcast4(p, n, msgs) ==
    LET check(comms) ==
            LET undecoded == {i \in DOMAIN comms : ~comms[i].decodes}
                invalid   == validate_commitments(n, comms)
            IN  IF undecoded # {} THEN Fail(n, undecoded)
                ELSE IF invalid # {} THEN Fail(n, invalid)
                ELSE [n EXCEPT !.stage = "SecretSharesStage5",
                               !.commitments = [i \in DOMAIN comms |-> comms[i].poly],
                               !.out = [q \in Parties |-> {OutgoingShare(p, q)}]]
        step(v) == IF ~v.ok THEN Fail(n, v.reported)
                   ELSE check([i \in ceremony.sharing |-> v.values[i]])
    IN  step(verify_broadcasts(msgs))

\* The shares are private: a party that got no valid one can only complain.
SecretSharesStage5(p, n, msgs) ==
    LET good == {i \in ceremony.sharing : \E s \in msgs[i] :
                    verify_share(s, n.commitments[i], future_index(p))}
        mine == IF p \in ceremony.receiving THEN good ELSE {}
        bad  == IF p \in ceremony.receiving THEN ceremony.sharing \ good ELSE {}
    IN  [n EXCEPT !.stage = "ComplaintsStage6",
                  !.shares = [i \in mine |-> The(msgs[i])],
                  !.out = Broadcast(bad)]

\* The parties that complained about party i.
Blamers(complaints, i) == {b \in DOMAIN complaints : i \in complaints[b]}

finalize_keygen(n) == [n EXCEPT !.stage = "Done", !.out = Silence]

VerifyComplaintsBroadcastStage7(p, n, msgs) ==
    LET respond(complaints, invalid) ==
            IF \A i \in Parties : complaints[i] = {} THEN finalize_keygen(n)
            ELSE IF invalid # {} THEN Fail(n, invalid)
            ELSE [n EXCEPT !.stage = "BlameResponsesStage8", !.complaints = complaints,
                           !.out = Broadcast([b \in Blamers(complaints, p) |->
                                                 OutgoingShare(p, b)])]
        step(v) == IF ~v.ok THEN Fail(n, v.reported)
                   ELSE respond(v.values,
                                {i \in Parties : ~(v.values[i] \subseteq Parties)})
    IN  step(verify_broadcasts(msgs))

is_blame_response_complete(i, response, complaints) ==
    DOMAIN response = Blamers(complaints, i)

\* The parties whose response is incomplete or holds an invalid share.  The
\* index of a share is the index of the blaming party in this ceremony.
check_blame_responses(n, responses) ==
    {i \in Parties :
        \/ ~is_blame_response_complete(i, responses[i], n.complaints)
        \/ \E b \in DOMAIN responses[i] :
               ~verify_share(responses[i][b], n.commitments[i], b)}

\* Looking up the commitments of a party that shares nothing panics.
BlamePanics(n, responses) ==
    \E i \in Parties \ ceremony.sharing :
        /\ is_blame_response_complete(i, responses[i], n.complaints)
        /\ DOMAIN responses[i] # {}

VerifyBlameResponsesBroadcastStage9(p, n, msgs) ==
    LET for_us(responses) == {i \in Parties : p \in DOMAIN responses[i]}
        take(responses) ==
            [n EXCEPT !.shares =
                [i \in DOMAIN n.shares \cup for_us(responses) |->
                    IF i \in for_us(responses) THEN responses[i][p] ELSE n.shares[i]]]
        check(responses) ==
            IF BlamePanics(n, responses)
            THEN [n EXCEPT !.stage = "Panicked", !.out = Silence]
            ELSE IF check_blame_responses(n, responses) # {}
            THEN Fail(n, check_blame_responses(n, responses))
            ELSE finalize_keygen(take(responses))
        step(v) == IF ~v.ok THEN Fail(n, v.reported) ELSE check(v.values)
    IN  step(verify_broadcasts(msgs))

-----------------------------------------------------------------------------
(* Signing *)

StartSigning(p, n) ==
    [n EXCEPT !.stage = "AwaitCommitments1",
              !.out = Broadcast([nonce |-> <<p, 0>>, decodes |-> TRUE, counted |-> TRUE])]

\* The parties whose message does not decode; else those that sent a wrong
\* number of items (one per payload is expected).
Malformed(values) ==
    LET undecoded == {i \in DOMAIN values : ~values[i].decodes}
    IN  IF undecoded # {} THEN undecoded
        ELSE {i \in DOMAIN values : ~values[i].counted}

\* A response share signs over the commitments of all parties.
VerifyCommitmentsBroadcast2(p, n, msgs) ==
    LET sign(nonces) ==
            [n EXCEPT !.stage = "LocalSigStage3", !.commitments = nonces,
                      !.out = Broadcast([by |-> p, over |-> nonces,
                                         decodes |-> TRUE, counted |-> TRUE])]
        step(v) == IF ~v.ok THEN Fail(n, v.reported)
                   ELSE IF Malformed(v.values) # {} THEN Fail(n, Malformed(v.values))
                   ELSE sign([i \in Parties |-> v.values[i].nonce])
    IN  step(verify_broadcasts(msgs))

\* The parties whose response share is not valid for the agreed commitments.
aggregate_signature(n, sigs) ==
    {i \in Parties : sigs[i].by # i \/ sigs[i].over # n.commitments}

VerifyLocalSigsBroadcastStage4(p, n, msgs) ==
    LET aggregate(invalid) == IF invalid # {} THEN Fail(n, invalid)
                              ELSE [n EXCEPT !.stage = "Done", !.out = Silence]
        step(v) == IF ~v.ok THEN Fail(n, v.reported)
                   ELSE IF Malformed(v.values) # {} THEN Fail(n, Malformed(v.values))
                   ELSE aggregate(aggregate_signature(n, v.values))
    IN  step(verify_broadcasts(msgs))

-----------------------------------------------------------------------------
(* One ceremony *)

\* The end of a stage of party p with the messages it received.
process(p, n, msgs) ==
    CASE n.stage = "PubkeyShares0" -> PubkeySharesStage0(p, n, msgs)
      [] n.stage = "HashCommitments1" ->
            Collected(n, "VerifyHashCommitmentsBroadcast2", msgs)
      [] n.stage = "VerifyHashCommitmentsBroadcast2" ->
            VerifyHashCommitmentsBroadcast2(p, n, msgs)
      [] n.stage = "CoefficientCommitments3" ->
            Collected(n, "VerifyCommitmentsBroadcast4", msgs)
      [] n.stage = "VerifyCommitmentsBroadcast4" ->
            VerifyCommitmentsBroadcast4(p, n, msgs)
      [] n.stage = "SecretSharesStage5" -> SecretSharesStage5(p, n, msgs)
      [] n.stage = "ComplaintsStage6" ->
            Collected(n, "VerifyComplaintsBroadcastStage7", msgs)
      [] n.stage = "VerifyComplaintsBroadcastStage7" ->
            VerifyComplaintsBroadcastStage7(p, n, msgs)
      [] n.stage = "BlameResponsesStage8" ->
            Collected(n, "VerifyBlameResponsesBroadcastStage9", msgs)
      [] n.stage = "VerifyBlameResponsesBroadcastStage9" ->
            VerifyBlameResponsesBroadcastStage9(p, n, msgs)
      [] n.stage = "AwaitCommitments1" ->
            Collected(n, "VerifyCommitmentsBroadcast2", msgs)
      [] n.stage = "VerifyCommitmentsBroadcast2" ->
            VerifyCommitmentsBroadcast2(p, n, msgs)
      [] n.stage = "LocalSigStage3" ->
            Collected(n, "VerifyLocalSigsBroadcastStage4", msgs)
      [] n.stage = "VerifyLocalSigsBroadcastStage4" ->
            VerifyLocalSigsBroadcastStage4(p, n, msgs)

\* What a faulty party f may send to party q in a stage that is not a
\* verification stage; the first value is the one a correct party would send.
Claims(f, q, stage) ==
    LET n == node[q]
        somebody == CHOOSE i \in Correct : \A j \in Correct : i <= j
        reveal(k) == [b \in Blamers(n.complaints, f) |->
                         [poly |-> <<f, k>>, at |-> future_index(b)]]
    IN  CASE stage = "PubkeyShares0" ->
               IF f \in ceremony.sharing
               THEN <<PubkeyShares, [i \in ceremony.sharing |-> <<i, 1>>], <<>> >>
               ELSE << <<>> >>
          [] stage = "HashCommitments1" -> << <<f, 0>>, <<f, 1>> >>
          [] stage = "CoefficientCommitments3" ->
               <<[poly |-> <<f, 0>>, zkp |-> TRUE, decodes |-> TRUE],
                 [poly |-> <<f, 1>>, zkp |-> TRUE, decodes |-> TRUE],
                 [poly |-> <<f, 0>>, zkp |-> FALSE, decodes |-> TRUE],
                 [poly |-> <<f, 0>>, zkp |-> TRUE, decodes |-> FALSE]>>
          [] stage = "SecretSharesStage5" ->
               <<OutgoingShare(f, q), [poly |-> <<f, 1>>, at |-> future_index(q)]>>
          [] stage = "ComplaintsStage6" -> << {}, {somebody}, {0} >>
          [] stage = "BlameResponsesStage8" -> <<reveal(0), reveal(1), <<>> >>
          [] stage = "AwaitCommitments1" ->
               <<[nonce |-> <<f, 0>>, decodes |-> TRUE, counted |-> TRUE],
                 [nonce |-> <<f, 1>>, decodes |-> TRUE, counted |-> TRUE],
                 [nonce |-> <<f, 0>>, decodes |-> FALSE, counted |-> TRUE],
                 [nonce |-> <<f, 0>>, decodes |-> TRUE, counted |-> FALSE]>>
          [] stage = "LocalSigStage3" ->
               <<[by |-> f, over |-> n.commitments, decodes |-> TRUE, counted |-> TRUE],
                 [by |-> f, over |-> <<>>, decodes |-> TRUE, counted |-> TRUE],
                 [by |-> f, over |-> <<>>, decodes |-> FALSE, counted |-> TRUE]>>

\* The messages of a faulty party: it may report what it likes of its own
\* broadcast, what q reports of the others' or nothing at all, or stay silent.
FaultyMessages(f, q) ==
    LET stage   == node[q].stage
        claims(s) == LET c == Claims(f, q, s) IN {c[k] : k \in DOMAIN c}
        options(s) == IF s \in ceremony.deviates THEN {{c} : c \in claims(s)} \cup {{}}
                      ELSE {{Claims(f, q, s)[1]}}
        mine(own) == {[The(mail[q].out[q]) EXCEPT ![f] = own]}
    IN  IF stage \notin DOMAIN Verifies THEN options(stage)
        ELSE {mine(own) : own \in options(Verifies[stage])}
             \cup (IF stage \in ceremony.deviates THEN {{}, {Silence}} ELSE {})

Started(p) ==
    LET n == [stage |-> "", out |-> Silence, hashes |-> <<>>, commitments |-> <<>>,
              keys |-> IF IsHandover /\ p \in ceremony.sharing THEN {PubkeyShares} ELSE {},
              shares |-> <<>>, complaints |-> <<>>, reported |-> {}]
    IN  CASE ceremony.kind = "Keygen"   -> StartHashCommitments1(p, n)
          [] ceremony.kind = "Handover" ->
               [n EXCEPT !.stage = "PubkeyShares0",
                         !.out = Broadcast(IF p \in ceremony.sharing THEN PubkeyShares
                                           ELSE <<>>)]
          [] ceremony.kind = "Signing"  -> StartSigning(p, n)

Mail(n) == [stage |-> n.stage, out |-> n.out]

StagesInit ==
    /\ ceremony \in CeremonyPlans
    /\ node = [p \in Correct |-> Started(p)]
    /\ mail = [p \in Correct |-> Mail(node[p])]
    /\ pending = Correct
    /\ lost = 0

\* Party p ends its stage: all messages have arrived, or the timeout came first
\* and the missing ones count as not sent.  It then enters its next stage,
\* which sends messages at once.
FinalizeStage(p) ==
    /\ p \in pending
    /\ \E sent \in {s \in [ceremony.faulty -> UNION {FaultyMessages(f, p) :
                                                       f \in ceremony.faulty}] :
                       \A f \in ceremony.faulty : s[f] \in FaultyMessages(f, p)},
          missed \in SUBSET {q \in Correct \ {p} : mail[q].out[p] # {}} :
         /\ lost + Cardinality(missed) <= ceremony.losses
         /\ lost' = lost + Cardinality(missed)
         /\ node' = [node EXCEPT ![p] =
                        process(p, @, [i \in Parties |->
                            IF i \in ceremony.faulty THEN sent[i]
                            ELSE IF i \in missed THEN {} ELSE mail[i].out[p]])]
    /\ IF pending = {p}
       THEN /\ mail' = [q \in Correct |-> Mail(node'[q])]
            /\ pending' = {q \in Correct : node'[q].stage \notin Ended}
       ELSE /\ pending' = pending \ {p}
            /\ UNCHANGED mail
    /\ UNCHANGED ceremony

StagesNext == \E p \in Correct : FinalizeStage(p)

StagesSpec == StagesInit /\ [][StagesNext]_stagesVars

-----------------------------------------------------------------------------
(* Properties *)

\* Type invariant: the stages are those of the ceremony, and the parties that
\* are reported take part in it.
StagesTypeOK ==
    /\ ceremony \in CeremonyPlans
    /\ pending \subseteq Correct
    /\ lost \in 0..ceremony.losses
    /\ \A p \in Correct :
          /\ node[p].reported \subseteq Parties
          /\ node[p].reported # {} => node[p].stage = "Failed"
          /\ DOMAIN node[p].out = Parties

\* All correct parties that get past the verification of the commitments hold
\* the same ones of all parties, hence the same aggregate key (or signature),
\* although a faulty party may have sent them different ones.
KeysAgree ==
    \A p, q \in Correct :
        node[p].commitments # <<>> /\ node[q].commitments # <<>>
            => node[p].commitments = node[q].commitments

\* A correct party that completes a key generation or handover and is to hold
\* the new key has the valid share of every sharing party, also when some share
\* only came with a blame response.
SharesComplete ==
    ceremony.kind # "Signing" =>
        \A p \in Correct \cap ceremony.receiving :
            node[p].stage = "Done" =>
                node[p].shares =
                    [i \in ceremony.sharing |->
                        [poly |-> node[p].commitments[i], at |-> future_index(p)]]

\* Without losses a correct party reports another correct one only in a
\* ceremony in which some correct party reports a faulty one as well: a faulty
\* party that tells the others different things can make them disagree on
\* what a correct one sent.
ReportsAreGrounded ==
    (lost = 0 /\ \E p \in Correct : node[p].reported \cap Correct # {})
        => \E p \in Correct : node[p].reported \cap ceremony.faulty # {}

\* All parties have the same index among the holders of the new key.
IndexesStay == \A q \in ceremony.receiving : future_index(q) = q

\* One lost message between correct parties is recovered from: a lost broadcast
\* by the verification stage, a lost share by a complaint and a blame response.
\* A handover in which a party gets another index recovers from no lost share
\* and is left out: see OnlyInvalidResponsesReported.
OneLossIsRecovered ==
    ceremony.faulty = {} /\ ceremony.losses <= 1 /\ IndexesStay
        => \A p \in Correct : node[p].stage \notin {"Failed", "Panicked"}

\* Parties panic only in a handover, when a party that shares nothing answers
\* a complaint, and only when some party is faulty: correct parties complain
\* of sharing parties only.
PanicsNeedAFault ==
    (\E p \in Correct : node[p].stage = "Panicked") => IsHandover /\ ceremony.faulty # {}

\* Correct parties that get past the commitments have the same ones, those that finish
\* have all their shares, correct ones are reported only along with a faulty one, and the
\* loss of one message is made good where the indexes of the parties stay.
CeremoniesAgree ==
    /\ StagesTypeOK /\ KeysAgree /\ SharesComplete
    /\ ReportsAreGrounded /\ OneLossIsRecovered /\ PanicsNeedAFault

\* check_blame_responses "returns a list of party indexes who provided invalid
\* responses": where all parties are correct and at most one message is lost,
\* nobody is reported.  It does not hold: in a handover that gives the parties other
\* indexes, the old index of a correct party may be reported (keygen_stages.rs:906-909).
OnlyInvalidResponsesReported ==
    ceremony.faulty = {} /\ ceremony.losses <= 1
        => \A p \in Correct : node[p].reported = {}
=============================================================================
