--------------------------- MODULE RotationStages ---------------------------
(***************************************************************************)
(* The stages of a key's rotation (KeyRotation), for every set of          *)
(* validators, keys and epochs: each step of the rotation keeps what a     *)
(* stage promises.                                                         *)
(*                                                                         *)
(* Two things are taken as assumptions of the lemmas and proved in         *)
(* RotationProofs, which combines them: what signing requests and their    *)
(* ceremonies keep (SigningShape), and facts about the cardinality of      *)
(* finite sets (VoteCounting).  At most one verification is under way and  *)
(* it is the one the status waits for (CallbackInv), and what the status   *)
(* says of a key has been verified in this rotation (VerifiedInv).         *)
(***************************************************************************)
EXTENDS KeyRotation, TLAPS

-----------------------------------------------------------------------------
(* The votes of a keygen or of a key handover.                             *)

\* Every voter is stored once and counted once, and honest voters have blamed faulty
\* candidates only.
VoterInv(response, vs) ==
  /\ response \in ResponseStatus /\ vs \in Voters
  /\ response.remaining_candidates \subseteq response.candidates
  /\ VotesCounted(response, vs)
  /\ \A k \in Keys : vs.success[k] \cap vs.failure = {}
  /\ \A k, m \in Keys : k # m => vs.success[k] \cap vs.success[m] = {}
  /\ \A v \in Validators \ Faulty :
       response.blame_votes[v] <= Cardinality(vs.failure \cap Faulty)

\* Counting starts with nobody, counts a candidate's report, and ends with nobody else's.
VotesKept ==
  /\ \A candidates \in SUBSET Validators : VoterInv(NewResponseStatus(candidates), NoVoters)
  /\ \A response, vs, voter, outcome :
       VoterInv(response, vs) /\ voter \in response.remaining_candidates
         /\ outcome \in Outcomes(voter) =>
       VoterInv(Counted(response, vs, voter, outcome).response,
                Counted(response, vs, voter, outcome).voters)
  /\ \A response, vs, key :
       VoterInv(response, vs) /\ key \in UnanimousKeys(response) =>
       key \in Keys /\ [vs EXCEPT !.success = NoVoters.success] = NoVoters

\* What is used of numbers of validators and of keys; proved in RotationProofs.
VoteCounting ==
  /\ Cardinality({}) = 0
  /\ \A S \in SUBSET Validators : Cardinality(S) \in Nat
  /\ \A S, T \in SUBSET Validators : T \subseteq S => Cardinality(T) <= Cardinality(S)
  /\ \A S, T \in SUBSET Validators : T \subseteq S /\ Cardinality(T) = Cardinality(S) => T = S
  /\ \A S \in SUBSET Validators, v \in Validators :
       v \notin S => Cardinality(S \cup {v}) = Cardinality(S) + 1
  /\ \A K \in SUBSET Keys : Cardinality(K) \in Nat /\ (Cardinality(K) = 0 => K = {})
  /\ \A K \in SUBSET Keys : \A k, m \in K : k # m => Cardinality(K) >= 2

\* The two halves of VotesCounted, voter by voter.
LEMMA VotesCountedIs ==
  ASSUME NEW response, NEW vs
  PROVE  VotesCounted(response, vs) <=>
           /\ \A k \in Keys : response.success_votes[k] = Cardinality(vs.success[k])
           /\ \A v : v \in response.candidates /\ v \notin response.remaining_candidates <=>
                       v \in vs.failure \/ \E k \in Keys : v \in vs.success[k]
<1>1. \A v : v \in UNION {vs.success[k] : k \in Keys} <=> \E k \in Keys : v \in vs.success[k]
  BY Zenon
<1> DEFINE U == UNION {vs.success[k] : k \in Keys}
<1> HIDE DEF U
<1> DEFINE A == response.candidates
           B == response.remaining_candidates
           F == vs.failure
<1> HIDE DEF A, B, F
<1>2. A \ B = U \cup F <=> \A v : v \in A /\ v \notin B <=> v \in F \/ v \in U
  OBVIOUS
<1>3. \A v : v \in U <=> \E k \in Keys : v \in vs.success[k]
  BY <1>1 DEF U
<1>4. VotesCounted(response, vs) <=>
        /\ \A k \in Keys : response.success_votes[k] = Cardinality(vs.success[k])
        /\ A \ B = U \cup F
  BY DEF VotesCounted, U, A, B, F
<1> QED BY <1>2, <1>3, <1>4, Zenon DEF A, B, F

LEMMA NewVoters ==
  ASSUME VoteCounting, NEW candidates \in SUBSET Validators
  PROVE  VoterInv(NewResponseStatus(candidates), NoVoters)
<1> DEFINE response == NewResponseStatus(candidates)
<1>1. /\ response \in ResponseStatus
      /\ response.remaining_candidates = candidates /\ response.candidates = candidates
      /\ \A k \in Keys : response.success_votes[k] = 0
      /\ \A v \in Validators : response.blame_votes[v] = 0
  BY DEF NewResponseStatus, ResponseStatus
<1>2. /\ NoVoters \in Voters /\ NoVoters.failure = {}
      /\ \A k \in Keys : NoVoters.success[k] = {}
  BY DEF NoVoters, Voters
<1>3. Cardinality({}) = 0
  BY DEF VoteCounting
<1>4. VotesCounted(response, NoVoters)
  BY Zenon, <1>1, <1>2, <1>3 DEF VotesCounted
<1>5. NoVoters.failure \cap Faulty = {}
  BY <1>2
<1> HIDE DEF response
<1>6. \A v \in Validators : response.blame_votes[v] <= Cardinality(NoVoters.failure \cap Faulty)
  BY <1>1, <1>3, <1>5
<1>7. /\ \A k \in Keys : NoVoters.success[k] \cap NoVoters.failure = {}
      /\ \A k, m \in Keys : k # m => NoVoters.success[k] \cap NoVoters.success[m] = {}
  BY <1>2
<1> QED BY <1>1, <1>2, <1>4, <1>6, <1>7 DEF VoterInv, response

\* A success report.
LEMMA SuccessVote ==
  ASSUME VoteCounting, NEW response, NEW vs, VoterInv(response, vs),
         NEW voter \in response.remaining_candidates, NEW key \in Keys
  PROVE  VoterInv(add_success_vote(response, voter, key), SuccessVoter(vs, voter, key))
<1> DEFINE new == add_success_vote(response, voter, key)
           ws == SuccessVoter(vs, voter, key)
<1>1. /\ response \in ResponseStatus /\ vs \in Voters
      /\ response.remaining_candidates \subseteq response.candidates
      /\ response.candidates \in SUBSET Validators /\ voter \in Validators
      /\ response.success_votes \in [Keys -> Nat]
      /\ vs.success \in [Keys -> SUBSET Validators] /\ vs.failure \in SUBSET Validators
  BY DEF VoterInv, ResponseStatus, Voters
<1>0. /\ \A k \in Keys : response.success_votes[k] = Cardinality(vs.success[k])
      /\ \A v : v \in response.candidates /\ v \notin response.remaining_candidates <=>
                  v \in vs.failure \/ \E k \in Keys : v \in vs.success[k]
  BY VotesCountedIs DEF VoterInv
<1>2. /\ new \in ResponseStatus
      /\ new.candidates = response.candidates /\ new.blame_votes = response.blame_votes
      /\ new.remaining_candidates = response.remaining_candidates \ {voter}
      /\ new.success_votes[key] = response.success_votes[key] + 1
      /\ \A k \in Keys : k # key => new.success_votes[k] = response.success_votes[k]
  <2> DEFINE votes == [response.success_votes EXCEPT ![key] = @ + 1]
             left == response.remaining_candidates \ {voter}
  <2>1. /\ votes \in [Keys -> Nat] /\ votes[key] = response.success_votes[key] + 1
        /\ \A k \in Keys : k # key => votes[k] = response.success_votes[k]
    BY <1>1
  <2>2. left \in SUBSET Validators
    BY <1>1
  <2>3. new = [response EXCEPT !.remaining_candidates = left, !.success_votes = votes]
    BY <1>1 DEF add_success_vote, ResponseStatus
  <2> HIDE DEF votes, left, new
  <2>4. /\ new \in ResponseStatus
        /\ new.candidates = response.candidates /\ new.blame_votes = response.blame_votes
        /\ new.remaining_candidates = left /\ new.success_votes = votes
    BY Zenon, <1>1, <2>1, <2>2, <2>3 DEF ResponseStatus
  <2> QED BY <2>1, <2>4 DEF left
<1>3. /\ ws \in Voters /\ ws.failure = vs.failure
      /\ ws.success[key] = vs.success[key] \cup {voter}
      /\ \A k \in Keys : k # key => ws.success[k] = vs.success[k]
  BY <1>1 DEF SuccessVoter, Voters
<1> HIDE DEF new, ws
<1>4. voter \notin vs.failure /\ \A k \in Keys : voter \notin vs.success[k]
  BY <1>0
<1>5. \A k \in Keys : new.success_votes[k] = Cardinality(ws.success[k])
  <2>1. /\ vs.success[key] \in SUBSET Validators /\ voter \in Validators
        /\ voter \notin vs.success[key]
    BY <1>1, <1>4
  <2>2. Cardinality(vs.success[key] \cup {voter}) = Cardinality(vs.success[key]) + 1
    BY <2>1 DEF VoteCounting
  <2> QED BY Zenon, <1>0, <1>2, <1>3, <2>2
<1>6. \A v : v \in new.candidates /\ v \notin new.remaining_candidates <=>
               v \in ws.failure \/ \E k \in Keys : v \in ws.success[k]
  BY <1>0, <1>1, <1>2, <1>3
<1>7. VotesCounted(new, ws)
  BY <1>5, <1>6, VotesCountedIs
<1>8. /\ \A k \in Keys : ws.success[k] \cap ws.failure = {}
      /\ \A k, m \in Keys : k # m => ws.success[k] \cap ws.success[m] = {}
  BY <1>3, <1>4 DEF VoterInv
<1> QED BY Zenon, <1>1, <1>2, <1>3, <1>7, <1>8 DEF VoterInv, new, ws

\* A failure report; blamed is what the reporter may blame.
LEMMA FailureVote ==
  ASSUME VoteCounting, NEW response, NEW vs, VoterInv(response, vs),
         NEW voter \in response.remaining_candidates, NEW blamed \in SUBSET Validators,
         voter \notin Faulty => blamed \subseteq Faulty
  PROVE  VoterInv(add_failure_vote(response, voter, blamed), FailureVoter(vs, voter))
<1> DEFINE new == add_failure_vote(response, voter, blamed)
           ws == FailureVoter(vs, voter)
<1>1. /\ response \in ResponseStatus /\ vs \in Voters
      /\ response.remaining_candidates \subseteq response.candidates
      /\ response.candidates \in SUBSET Validators /\ voter \in Validators
      /\ response.blame_votes \in [Validators -> Nat]
      /\ vs.success \in [Keys -> SUBSET Validators] /\ vs.failure \in SUBSET Validators
  BY DEF VoterInv, ResponseStatus, Voters
<1>0. /\ \A k \in Keys : response.success_votes[k] = Cardinality(vs.success[k])
      /\ \A v : v \in response.candidates /\ v \notin response.remaining_candidates <=>
                  v \in vs.failure \/ \E k \in Keys : v \in vs.success[k]
  BY VotesCountedIs DEF VoterInv
<1>2. /\ new \in ResponseStatus
      /\ new.candidates = response.candidates /\ new.success_votes = response.success_votes
      /\ new.remaining_candidates = response.remaining_candidates \ {voter}
      /\ \A v \in Validators : new.blame_votes[v] =
           IF v \in blamed THEN response.blame_votes[v] + 1 ELSE response.blame_votes[v]
  <2> DEFINE votes == [v \in Validators |-> IF v \in blamed THEN response.blame_votes[v] + 1
                                            ELSE response.blame_votes[v]]
             left == response.remaining_candidates \ {voter}
  <2>1. /\ votes \in [Validators -> Nat]
        /\ \A v \in Validators : votes[v] =
             IF v \in blamed THEN response.blame_votes[v] + 1 ELSE response.blame_votes[v]
    BY <1>1
  <2>2. left \in SUBSET Validators
    BY <1>1
  <2>3. new = [response EXCEPT !.remaining_candidates = left, !.blame_votes = votes]
    BY <1>1 DEF add_failure_vote, ResponseStatus
  <2> HIDE DEF votes, left, new
  <2>4. /\ new \in ResponseStatus
        /\ new.candidates = response.candidates /\ new.success_votes = response.success_votes
        /\ new.remaining_candidates = left /\ new.blame_votes = votes
    BY Zenon, <1>1, <2>1, <2>2, <2>3 DEF ResponseStatus
  <2> QED BY <2>1, <2>4 DEF left
<1>3. /\ ws \in Voters /\ ws.success = vs.success
      /\ ws.failure = vs.failure \cup {voter}
  BY <1>1 DEF FailureVoter, Voters
<1> HIDE DEF new, ws
<1>4. voter \notin vs.failure /\ \A k \in Keys : voter \notin vs.success[k]
  BY <1>0
<1>5. VotesCounted(new, ws)
  <2>1. \A v : v \in new.candidates /\ v \notin new.remaining_candidates <=>
                 v \in ws.failure \/ \E k \in Keys : v \in ws.success[k]
    BY <1>0, <1>1, <1>2, <1>3
  <2> QED BY <1>0, <1>2, <1>3, <2>1, VotesCountedIs
<1>6. /\ \A k \in Keys : ws.success[k] \cap ws.failure = {}
      /\ \A k, m \in Keys : k # m => ws.success[k] \cap ws.success[m] = {}
  BY <1>3, <1>4 DEF VoterInv
<1>7. \A v \in Validators \ Faulty : new.blame_votes[v] <= Cardinality(ws.failure \cap Faulty)
  <2> DEFINE F == vs.failure \cap Faulty
             G == ws.failure \cap Faulty
  <2>1. \A v \in Validators \ Faulty : response.blame_votes[v] <= Cardinality(F)
    BY Zenon DEF VoterInv
  <2>2. F \in SUBSET Validators /\ Cardinality(F) \in Nat
    BY <1>1 DEF VoteCounting
  <2>3. CASE voter \in Faulty
    <3>1. G = F \cup {voter} /\ voter \notin F
      BY <1>3, <1>4, <2>3
    <3> HIDE DEF F, G
    <3>2. Cardinality(G) = Cardinality(F) + 1
      BY <1>1, <2>2, <3>1 DEF VoteCounting
    <3>3. \A v \in Validators : new.blame_votes[v] <= response.blame_votes[v] + 1
      BY <1>1, <1>2
    <3> QED BY <1>1, <1>2, <2>1, <2>2, <3>2, <3>3 DEF G, ResponseStatus
  <2>4. CASE voter \notin Faulty
    <3>1. G = F
      BY <1>3, <2>4
    <3>2. \A v \in Validators \ Faulty : new.blame_votes[v] = response.blame_votes[v]
      BY <1>2, <2>4
    <3> QED BY Zenon, <2>1, <3>1, <3>2
  <2> QED BY <2>3, <2>4
<1> QED BY Zenon, <1>1, <1>2, <1>3, <1>5, <1>6, <1>7 DEF VoterInv, new, ws

LEMMA CountedVote ==
  ASSUME VoteCounting, NEW response, NEW vs, VoterInv(response, vs),
         NEW voter \in response.remaining_candidates, NEW outcome \in Outcomes(voter)
  PROVE  LET counted == Counted(response, vs, voter, outcome)
         IN VoterInv(counted.response, counted.voters)
<1>0. None \notin Keys /\ Faulty \subseteq Validators
  BY SigningAssumption
<1>1. CASE outcome.key # None
  <2>1. outcome.key \in Keys
    BY <1>1 DEF Outcomes
  <2> QED BY <1>1, <2>1, SuccessVote DEF Counted
<1>2. CASE outcome.key = None
  <2> DEFINE blamed == outcome.blamed \cap response.candidates
  <2>1. outcome.blamed \in SUBSET (IF voter \in Faulty THEN Validators ELSE Faulty)
    BY <1>0, <1>2 DEF Outcomes
  <2>2. blamed \in SUBSET Validators /\ (voter \notin Faulty => blamed \subseteq Faulty)
    BY <1>0, <2>1
  <2> HIDE DEF blamed
  <2>3. VoterInv(add_failure_vote(response, voter, blamed), FailureVoter(vs, voter))
    BY <2>2, FailureVote
  <2> QED BY <1>2, <2>3 DEF Counted, blamed
<1> QED BY <1>1, <1>2

\* When all candidates reported the same key, nobody is stored for another outcome.
LEMMA UnanimousVoters ==
  ASSUME VoteCounting, NEW response, NEW vs, VoterInv(response, vs), NEW key \in UnanimousKeys(response)
  PROVE  key \in Keys /\ [vs EXCEPT !.success = NoVoters.success] = NoVoters
<1>0. /\ \A k \in Keys : response.success_votes[k] = Cardinality(vs.success[k])
      /\ \A v : v \in response.candidates /\ v \notin response.remaining_candidates <=>
                  v \in vs.failure \/ \E k \in Keys : v \in vs.success[k]
  BY VotesCountedIs DEF VoterInv
<1>1. /\ key \in Keys /\ vs \in Voters
      /\ response.success_votes[key] = Cardinality(response.candidates)
      /\ response.success_votes[key] = Cardinality(vs.success[key])
      /\ response.candidates \in SUBSET Validators
      /\ vs.success[key] \subseteq response.candidates
      /\ vs.failure \subseteq response.candidates
      /\ vs.success[key] \cap vs.failure = {}
  BY <1>0 DEF UnanimousKeys, VoterInv, ResponseStatus
<1>2. vs.success[key] = response.candidates
  <2>1. vs.success[key] \in SUBSET Validators
    BY <1>1 DEF Voters
  <2>2. Cardinality(vs.success[key]) = Cardinality(response.candidates)
    BY <1>1
  <2> DEFINE S == response.candidates
             T == vs.success[key]
  <2>3. S \in SUBSET Validators /\ T \in SUBSET Validators /\ T \subseteq S
    BY <1>1, <2>1
  <2>4. Cardinality(T) = Cardinality(S)
    BY <2>2
  <2> HIDE DEF S, T
  <2>5. T = S
    BY <2>3, <2>4 DEF VoteCounting
  <2> QED BY <2>5 DEF S, T
<1>3. vs.failure = {}
  BY <1>1, <1>2
<1> DEFINE none == [k \in Keys |-> {}]
<1>4. NoVoters.success = none
  BY DEF NoVoters
<1> HIDE DEF none
<1>5. [vs EXCEPT !.success = none] = [success |-> none, failure |-> {}]
  BY <1>1, <1>3 DEF Voters
<1> QED BY <1>1, <1>4, <1>5 DEF NoVoters, none

\* At most one outcome has honest voters.
LEMMA AgreedOutcome ==
  ASSUME VoteCounting, NEW vs \in Voters, HonestAgree(vs)
  PROVE  /\ \A k, m \in Keys : vs.success[k] \ Faulty # {} /\ vs.success[m] \ Faulty # {} => k = m
         /\ vs.failure \ Faulty # {} => \A k \in Keys : vs.success[k] \ Faulty = {}
<1> DEFINE K == {k \in Keys : vs.success[k] \ Faulty # {}}
           f == IF vs.failure \ Faulty = {} THEN 0 ELSE 1
<1>1. Cardinality(K) + f <= 1
  BY DEF HonestAgree
<1>2. K \in SUBSET Keys /\ Cardinality(K) \in Nat
  BY DEF VoteCounting
<1>3. f \in {0, 1} /\ (vs.failure \ Faulty # {} => f = 1)
  OBVIOUS
<1> HIDE DEF f
<1>4. ASSUME NEW k \in K, NEW m \in K, k # m PROVE FALSE
  <2> HIDE DEF K
  <2>1. Cardinality(K) >= 2
    BY <1>2, <1>4 DEF VoteCounting
  <2> QED BY <1>1, <1>2, <1>3, <2>1
<1>5. ASSUME vs.failure \ Faulty # {} PROVE K = {}
  <2> HIDE DEF K
  <2>1. Cardinality(K) = 0
    BY <1>1, <1>2, <1>3, <1>5
  <2> QED BY <1>2, <2>1 DEF VoteCounting
<1> QED BY <1>4, <1>5

\* Only faulty voters dissent from an outcome that a success threshold reported.
LEMMA DissentersAreFaulty ==
  ASSUME VoteCounting, NEW vs \in Voters, HonestAgree(vs), NEW threshold,
         \A k \in Keys : Cardinality(vs.success[k]) >= threshold => vs.success[k] \ Faulty # {},
         Cardinality(vs.failure) >= threshold => vs.failure \ Faulty # {}
  PROVE  LET dissenting == Dissenters(vs, threshold)
         IN dissenting.failure \subseteq Faulty
              /\ \A k \in Keys : dissenting.success[k] \subseteq Faulty
<1> DEFINE majority == {k \in Keys : Cardinality(vs.success[k]) >= threshold}
           dissenting == Dissenters(vs, threshold)
           key == CHOOSE k \in majority : TRUE
<1>0. vs.success \in [Keys -> SUBSET Validators] /\ vs.failure \in SUBSET Validators
  BY DEF Voters
<1>1. CASE majority # {}
  <2>1. key \in Keys /\ vs.success[key] \ Faulty # {}
    BY Zenon, <1>1
  <2>2. dissenting = [vs EXCEPT !.success[key] = {}]
    BY <1>1, Zenon DEF Dissenters
  <2> HIDE DEF key, dissenting
  <2>3. /\ dissenting.failure = vs.failure /\ dissenting.success[key] = {}
        /\ \A k \in Keys : k # key => dissenting.success[k] = vs.success[k]
    BY <1>0, <2>1, <2>2 DEF Voters
  <2>4. vs.failure \subseteq Faulty /\ \A k \in Keys : k # key => vs.success[k] \subseteq Faulty
    BY <2>1, AgreedOutcome
  <2> QED BY <2>3, <2>4 DEF dissenting
<1>2. CASE majority = {} /\ Cardinality(vs.failure) >= threshold
  <2>1. \A k \in Keys : vs.success[k] \subseteq Faulty
    BY <1>2, AgreedOutcome
  <2>2. dissenting = [vs EXCEPT !.failure = {}]
    BY <1>2, Zenon DEF Dissenters
  <2> HIDE DEF dissenting
  <2>3. dissenting.failure = {} /\ dissenting.success = vs.success
    BY <2>2 DEF Voters
  <2> QED BY <2>1, <2>3 DEF dissenting
<1>3. CASE majority = {} /\ ~(Cardinality(vs.failure) >= threshold)
  <2>1. dissenting = NoVoters
    BY <1>3, Zenon DEF Dissenters
  <2> HIDE DEF dissenting
  <2> QED BY <2>1 DEF NoVoters, dissenting
<1> QED BY <1>1, <1>2, <1>3

\* Honest candidates that reported what the honest ones reported are not punished.
LEMMA HonestVotersAreSafe ==
  ASSUME VoteCounting, NEW response, NEW vs, VoterInv(response, vs), HonestAgree(vs),
         Cardinality(response.candidates \cap Faulty)
           < success_threshold_from_share_count(Cardinality(response.candidates))
  PROVE  PunishableOffenders(response, vs) \subseteq Faulty \cup response.remaining_candidates
<1> DEFINE threshold == super_majority_threshold(response)
           bad == response.candidates \cap Faulty
           dissenting == Dissenters(vs, threshold)
<1>0. /\ vs \in Voters /\ vs.success \in [Keys -> SUBSET Validators]
      /\ vs.failure \in SUBSET Validators
      /\ response.candidates \in SUBSET Validators
      /\ response.blame_votes \in [Validators -> Nat]
  BY DEF VoterInv, Voters, ResponseStatus
<1>1. threshold \in Nat /\ Cardinality(bad) \in Nat /\ Cardinality(bad) < threshold
  <2> DEFINE n == Cardinality(response.candidates)
  <2>1. n \in Nat /\ Cardinality(bad) \in Nat
    BY <1>0 DEF VoteCounting
  <2>2. /\ threshold = success_threshold_from_share_count(n)
        /\ Cardinality(bad) < success_threshold_from_share_count(n)
    BY DEF super_majority_threshold
  <2> HIDE DEF n, threshold, bad
  <2>3. success_threshold_from_share_count(n) \in Nat
    BY <2>1 DEF threshold_from_share_count, success_threshold_from_share_count
  <2> QED BY <2>1, <2>2, <2>3
<1>2. vs.failure \subseteq response.candidates
        /\ \A k \in Keys : vs.success[k] \subseteq response.candidates
  BY VotesCountedIs DEF VoterInv
<1>3. ASSUME NEW S \in SUBSET response.candidates, Cardinality(S) >= threshold
      PROVE  S \ Faulty # {}
  <2> SUFFICES ASSUME S \ Faulty = {} PROVE FALSE
    OBVIOUS
  <2>1. S \in SUBSET Validators /\ bad \in SUBSET Validators /\ S \subseteq bad
    BY <1>0
  <2>2. Cardinality(S) <= Cardinality(bad) /\ Cardinality(S) \in Nat
    BY <2>1 DEF VoteCounting
  <2> HIDE DEF bad, threshold
  <2> QED BY <1>1, <1>3, <2>2
<1>4. dissenting.failure \subseteq Faulty /\ \A k \in Keys : dissenting.success[k] \subseteq Faulty
  <2> HIDE DEF threshold
  <2> QED BY <1>0, <1>2, <1>3, DissentersAreFaulty
<1>5. \A v \in Validators : response.blame_votes[v] >= threshold => v \in Faulty
  <2>1. /\ vs.failure \cap Faulty \in SUBSET Validators /\ bad \in SUBSET Validators
        /\ vs.failure \cap Faulty \subseteq bad
    BY <1>0, <1>2
  <2>2. Cardinality(vs.failure \cap Faulty) <= Cardinality(bad)
          /\ Cardinality(vs.failure \cap Faulty) \in Nat
    BY <2>1 DEF VoteCounting
  <2>3. \A v \in Validators \ Faulty :
          response.blame_votes[v] <= Cardinality(vs.failure \cap Faulty)
    BY Zenon DEF VoterInv
  <2> DEFINE c == Cardinality(vs.failure \cap Faulty)
             b == Cardinality(bad)
  <2>4. c \in Nat /\ b \in Nat /\ c <= b /\ b < threshold /\ threshold \in Nat
    BY <1>1, <2>2
  <2> HIDE DEF b, c, threshold
  <2>5. \A v \in Validators \ Faulty : response.blame_votes[v] <= c
    BY <2>3 DEF c
  <2>6. \A n \in Nat : n <= c => ~(n >= threshold)
    BY <2>4
  <2>7. \A v \in Validators : response.blame_votes[v] \in Nat
    BY <1>0
  <2> QED BY <2>5, <2>6, <2>7
<1> DEFINE found == ResolvedOffenders(response, vs)
           dissenters == UNION {dissenting.success[k] : k \in Keys}
           blamed == {v \in Validators : response.blame_votes[v] >= threshold}
<1>6. found = dissenters \cup dissenting.failure \cup blamed \cup response.remaining_candidates
  BY DEF ResolvedOffenders
<1>7. dissenters \subseteq Faulty
  BY <1>4, Zenon
<1>8. blamed \subseteq Faulty
  BY <1>5
<1>9. PunishableOffenders(response, vs) \in {found, {}}
  BY DEF PunishableOffenders
<1> HIDE DEF found, dissenters, blamed, dissenting
<1> QED BY <1>4, <1>6, <1>7, <1>8, <1>9

\* Counting keeps the votes apart.
LEMMA CountingKeepsVotes == ASSUME VoteCounting PROVE VotesKept
BY NewVoters, CountedVote, UnanimousVoters DEF VotesKept

-----------------------------------------------------------------------------
(* Signing requests, as far as the rotation sees them.                     *)

\* The requests, and the ceremonies that carry them, in the eyes of the rotation.
SigningShape ==
  /\ CeremonyIdCounter \in 0..MaxCeremonies
  /\ RequestCallback \in [Requests -> Callbacks \cup {NoCallback}]
  /\ active_key \in EpochKey \cup {NoEpochKey}
  /\ delivered \in [Requests -> Seq(Results)]
  /\ \A r \in Requests : RequestCallback[r] # NoCallback => delivered[r] = <<>>
  /\ \A c \in Ceremonies : ~(c <= CeremonyIdCounter) => PendingCeremonies[c] = None

\* Ids only grow, and no ceremony comes back under its id.
FreshIds ==
  /\ CeremonyIdCounter' \in CeremonyIdCounter..MaxCeremonies
  /\ \A c \in Ceremonies : c <= CeremonyIdCounter /\ PendingCeremonies[c] = None =>
                             PendingCeremonies'[c] = None

\* The call of a registered callback changes the rotation.
Verifies(callback) == callback # NoCallback /\ callback # OnSignatureReady

\* No verification is registered, and those that are stay.
CallbacksStay ==
  \A s \in Requests : Verifies(RequestCallback'[s]) => RequestCallback'[s] = RequestCallback[s]

-----------------------------------------------------------------------------
(* The rotation.                                                           *)

CeremonyStatuses == {"AwaitingKeygen", "AwaitingKeyHandover"}
KeyStatuses ==
  {"AwaitingKeygenVerification", "KeygenVerificationComplete", "AwaitingKeyHandover",
   "AwaitingKeyHandoverVerification", "KeyHandoverComplete", "KeyHandoverFailed"}
RotationStatuses ==
  {"None", "AwaitingKeygen", "AwaitingActivationSignatures", "Complete", "Failed"} \cup KeyStatuses

\* What a status carries with it; a ceremony in progress has an id that no signing ceremony has.
StatusInv ==
  /\ PendingKeyRotation.status \in RotationStatuses
  /\ PendingKeyRotation.status = "None" => PendingKeyRotation = NoRotation
  /\ PendingKeyRotation.status = "Complete" => PendingKeyRotation = Complete
  /\ PendingKeyRotation.status = "AwaitingKeygen" =>
       PendingKeyRotation = AwaitingKeygen(PendingKeyRotation.ceremony_id,
         PendingKeyRotation.response, PendingKeyRotation.epoch)
  /\ PendingKeyRotation.status = "AwaitingKeyHandover" =>
       /\ PendingKeyRotation = AwaitingKeyHandover(PendingKeyRotation.ceremony_id,
            PendingKeyRotation.response, PendingKeyRotation.receiving,
            PendingKeyRotation.epoch, PendingKeyRotation.key)
       /\ PendingKeyRotation.receiving \in SUBSET Validators
  /\ PendingKeyRotation.status \in CeremonyStatuses =>
       /\ PendingKeyRotation.epoch \in Epochs
       /\ PendingKeyRotation.ceremony_id \in 1..CeremonyIdCounter
       /\ PendingCeremonies[PendingKeyRotation.ceremony_id] = None
  /\ PendingKeyRotation.status \in KeyStatuses => PendingKeyRotation.key \in Keys
  /\ PendingKeyRotation.status \in {"Failed", "KeyHandoverFailed"} =>
       PendingKeyRotation.offenders \in SUBSET Validators

\* The voters of the ceremony in progress, and no others, are stored.
VotersInv ==
  /\ IF PendingKeyRotation.status = "AwaitingKeygen"
     THEN VoterInv(PendingKeyRotation.response, KeygenVoters) ELSE KeygenVoters = NoVoters
  /\ IF PendingKeyRotation.status = "AwaitingKeyHandover"
     THEN VoterInv(PendingKeyRotation.response, KeyHandoverVoters)
     ELSE KeyHandoverVoters = NoVoters

\* At most one verification is registered, and the rotation waits for it.
WaitingFor(callback) ==
  WithKey(IF callback.call = "on_keygen_verification_result"
          THEN "AwaitingKeygenVerification" ELSE "AwaitingKeyHandoverVerification", callback.key)
CallbackInv ==
  /\ RequestCallback \in [Requests -> RotationCallbacks \cup {NoCallback}]
  /\ \A r \in Requests :
       Verifies(RequestCallback[r]) => PendingKeyRotation = WaitingFor(RequestCallback[r])
  /\ \A r, s \in Requests : Verifies(RequestCallback[r]) /\ Verifies(RequestCallback[s]) => r = s

\* What has been verified of the key that the status names.
ActivationIsVerified(key) ==
  IF HandoverRequired /\ active_key # NoEpochKey
  THEN /\ <<"KeyHandoverComplete", key>> \in verified
       /\ <<active_key.key, key>> \in HandoverMatches
  ELSE <<"KeygenVerificationComplete", key>> \in verified
VerifiedInv ==
  /\ PendingKeyRotation.status \in
       {"KeygenVerificationComplete", "AwaitingKeyHandover", "KeyHandoverFailed"} =>
       <<"KeygenVerificationComplete", PendingKeyRotation.key>> \in verified
  /\ PendingKeyRotation.status \in {"AwaitingKeyHandover", "AwaitingKeyHandoverVerification"} =>
       HandoverRequired /\ active_key # NoEpochKey
  /\ PendingKeyRotation.status = "AwaitingKeyHandoverVerification" =>
       <<active_key.key, PendingKeyRotation.key>> \in HandoverMatches
  /\ PendingKeyRotation.status = "KeyHandoverComplete" =>
       ActivationIsVerified(PendingKeyRotation.key)

\* A rotation is for the next epoch.
EpochInv ==
  /\ current_epoch \in Epochs \ {0} /\ rotating \in BOOLEAN
  /\ rotating => current_epoch + 1 \in Epochs
  /\ PendingKeyRotation.status \notin {"None", "Complete"} => rotating

SettingsInv ==
  /\ KeygenPendingFor \in 0..MaxWait /\ KeyHandoverPendingFor \in 0..MaxWait
  /\ KeygenResponseTimeout \in KeygenTimeouts
  /\ PendingVaultActivation \in {"None", "AwaitingActivation", "Complete"}
  /\ vault_started \in BOOLEAN /\ ChainInitialized \in BOOLEAN
  /\ block_phase \in {"validator", "rotation", "queues", "call"}

StageInv == StatusInv /\ VotersInv /\ CallbackInv /\ VerifiedInv /\ EpochInv

\* How the status may change.
StatusStep ==
  LET from == PendingKeyRotation.status
      to == PendingKeyRotation'.status
  IN \/ UNCHANGED PendingKeyRotation
     \/ ~StatusPending /\ to \in {"None", "AwaitingKeygen"}
     \/ /\ from \in {"KeygenVerificationComplete", "KeyHandoverFailed"}
        /\ to \in {"AwaitingKeyHandover", "KeyHandoverComplete"}
     \/ from = "KeyHandoverComplete" /\ to \in {"AwaitingActivationSignatures", "Complete"}
     \/ from = "AwaitingKeygen" /\ to \in {from, "AwaitingKeygenVerification", "Failed"}
     \/ from = "AwaitingKeygenVerification" /\ to \in {"KeygenVerificationComplete", "Failed"}
     \/ /\ from = "AwaitingKeyHandover"
        /\ to \in {from, "AwaitingKeyHandoverVerification", "KeyHandoverFailed"}
     \/ from = "AwaitingKeyHandoverVerification" /\ to \in {"KeyHandoverComplete", "Failed"}
     \/ from = "AwaitingActivationSignatures" /\ to \in {from, "Complete"}

\* Steps that do not concern the rotation.
RotationStays ==
  UNCHANGED <<PendingKeyRotation, KeygenVoters, KeyHandoverVoters, verified, active_key,
              current_epoch, rotating>>

LEMMA StageStays ==
  ASSUME StageInv, SigningShape, SigningShape', FreshIds, CallbacksStay, Callbacks = RotationCallbacks,
         RotationStays
  PROVE  StageInv' /\ StatusStep
<1>0. UNCHANGED <<PendingKeyRotation, KeygenVoters, KeyHandoverVoters, verified, active_key,
                  current_epoch, rotating>>
  BY DEF RotationStays
<1>1. StatusInv'
  <2>1. /\ CeremonyIdCounter \in 0..MaxCeremonies /\ MaxCeremonies \in Nat
        /\ CeremonyIdCounter' \in CeremonyIdCounter..MaxCeremonies
    BY SigningAssumption DEF SigningShape, FreshIds
  <2>2. ASSUME PendingKeyRotation.status \in CeremonyStatuses
        PROVE  /\ PendingKeyRotation.ceremony_id \in 1..CeremonyIdCounter'
               /\ PendingCeremonies'[PendingKeyRotation.ceremony_id] = None
    <3> DEFINE id == PendingKeyRotation.ceremony_id
    <3>1. id \in 1..CeremonyIdCounter /\ PendingCeremonies[id] = None
      BY <2>2 DEF StageInv, StatusInv
    <3> HIDE DEF id
    <3>2. id \in Ceremonies /\ id <= CeremonyIdCounter /\ id \in 1..CeremonyIdCounter'
      BY <2>1, <3>1 DEF Ceremonies
    <3> QED BY <3>1, <3>2 DEF FreshIds, id
  <2> QED BY <1>0, <2>2 DEF StageInv, StatusInv
<1>2. VotersInv'
  BY <1>0 DEF StageInv, VotersInv
<1>3. CallbackInv'
  <2>1. RequestCallback' \in [Requests -> RotationCallbacks \cup {NoCallback}]
    BY DEF SigningShape
  <2>2. \A r \in Requests : Verifies(RequestCallback'[r]) =>
          Verifies(RequestCallback[r]) /\ RequestCallback'[r] = RequestCallback[r]
    BY DEF CallbacksStay, Verifies
  <2> QED BY <1>0, <2>1, <2>2 DEF StageInv, CallbackInv, Verifies, WaitingFor
<1>4. VerifiedInv'
  BY <1>0 DEF StageInv, VerifiedInv, ActivationIsVerified
<1>5. EpochInv'
  BY <1>0 DEF StageInv, EpochInv
<1> QED BY <1>0, <1>1, <1>2, <1>3, <1>4, <1>5 DEF StageInv, StatusStep

\* A rotation that waits for no verification has none registered.
NotVerifying ==
  PendingKeyRotation.status \notin {"AwaitingKeygenVerification", "AwaitingKeyHandoverVerification"}

LEMMA NoVerification ==
  ASSUME StageInv, NotVerifying
  PROVE  \A r \in Requests : ~Verifies(RequestCallback[r])
BY DEF StageInv, CallbackInv, WaitingFor, WithKey, NotVerifying

LEMMA NoneRegistered ==
  ASSUME StageInv, NotVerifying, UNCHANGED RequestCallback
  PROVE  CallbackInv'
BY NoVerification DEF StageInv, CallbackInv, Verifies

\* A keygen or handover ceremony takes the next id.
LEMMA NextId ==
  ASSUME SigningShape, increment_ceremony_id, UNCHANGED PendingCeremonies
  PROVE  /\ CeremonyIdCounter + 1 \in 1..CeremonyIdCounter'
         /\ PendingCeremonies'[CeremonyIdCounter + 1] = None
<1>1. /\ CeremonyIdCounter \in 0..MaxCeremonies /\ MaxCeremonies \in Nat
      /\ CeremonyIdCounter < MaxCeremonies /\ CeremonyIdCounter' = CeremonyIdCounter + 1
  BY SigningAssumption DEF SigningShape, increment_ceremony_id
<1>2. CeremonyIdCounter + 1 \in Ceremonies /\ ~(CeremonyIdCounter + 1 <= CeremonyIdCounter)
  BY <1>1 DEF Ceremonies
<1>3. PendingCeremonies[CeremonyIdCounter + 1] = None
  BY <1>2 DEF SigningShape
<1> QED BY <1>1, <1>3

LEMMA KeygenStep ==
  ASSUME SigningShape, VotesKept, StageInv, NEW candidates \in CandidateSets, keygen(candidates)
  PROVE  StageInv' /\ StatusStep
<1> DEFINE id == CeremonyIdCounter + 1
           response == NewResponseStatus(candidates)
<1>0. candidates \in SUBSET Validators
  BY RotationAssumption
<1>1. /\ ~StatusPending
      /\ PendingKeyRotation' = AwaitingKeygen(id, response, current_epoch + 1)
      /\ current_epoch + 1 \in Epochs /\ rotating' = TRUE /\ UNCHANGED current_epoch
      /\ UNCHANGED <<RequestCallback, KeygenVoters, KeyHandoverVoters>>
  BY DEF keygen, voters
<1>2. id \in 1..CeremonyIdCounter' /\ PendingCeremonies'[id] = None
  BY NextId DEF keygen
<1>3. VoterInv(response, NoVoters)
  BY <1>0 DEF VotesKept
<1> HIDE DEF id, response
<1>4. /\ PendingKeyRotation'.status = "AwaitingKeygen" /\ PendingKeyRotation'.ceremony_id = id
      /\ PendingKeyRotation'.response = response /\ PendingKeyRotation'.epoch = current_epoch + 1
  BY <1>1 DEF AwaitingKeygen
<1>5. NotVerifying /\ KeygenVoters = NoVoters /\ KeyHandoverVoters = NoVoters
  BY <1>1 DEF StatusPending, NotVerifying, StageInv, VotersInv
<1>6. StatusInv'
  BY <1>1, <1>2, <1>4 DEF StatusInv, RotationStatuses, CeremonyStatuses, KeyStatuses
<1>7. VotersInv'
  BY <1>1, <1>3, <1>4, <1>5 DEF VotersInv
<1>8. CallbackInv'
  BY <1>1, <1>5, NoneRegistered
<1>9. VerifiedInv'
  BY <1>4 DEF VerifiedInv
<1>10. EpochInv'
  BY <1>1, <1>4 DEF EpochInv, StageInv
<1> QED BY <1>1, <1>2, <1>4, <1>6, <1>7, <1>8, <1>9, <1>10 DEF StageInv, StatusStep

LEMMA KeyHandoverStep ==
  ASSUME SigningShape, VotesKept, StageInv, NEW sharing \in SharingSets, NEW receiving \in CandidateSets,
         key_handover(sharing, receiving)
  PROVE  StageInv' /\ StatusStep
<1> DEFINE id == CeremonyIdCounter + 1
           response == NewResponseStatus(sharing \cup receiving)
           key == PendingKeyRotation.key
<1>0. receiving \in SUBSET Validators /\ sharing \cup receiving \in SUBSET Validators
  BY RotationAssumption
<1>1. /\ PendingKeyRotation.status \in {"KeygenVerificationComplete", "KeyHandoverFailed"}
      /\ UNCHANGED <<RequestCallback, KeygenVoters, KeyHandoverVoters, active_key, verified,
                     current_epoch, rotating>>
  BY DEF key_handover, voters, epoch
<1>2. /\ NotVerifying /\ KeygenVoters = NoVoters /\ KeyHandoverVoters = NoVoters
      /\ key \in Keys /\ <<"KeygenVerificationComplete", key>> \in verified
      /\ rotating /\ current_epoch + 1 \in Epochs
  BY <1>1 DEF NotVerifying, StageInv, StatusInv, VotersInv, VerifiedInv, EpochInv, KeyStatuses
<1>3. CallbackInv'
  BY <1>1, <1>2, NoneRegistered
<1>4. CASE HandoverRequired /\ active_key # NoEpochKey
  <2>1. PendingKeyRotation' = AwaitingKeyHandover(id, response, receiving, current_epoch + 1, key)
    BY <1>4 DEF key_handover
  <2>2. id \in 1..CeremonyIdCounter' /\ PendingCeremonies'[id] = None
    BY <1>4, NextId DEF key_handover
  <2>3. VoterInv(response, NoVoters)
    BY <1>0 DEF VotesKept
  <2> HIDE DEF id, response, key
  <2>4. /\ PendingKeyRotation'.status = "AwaitingKeyHandover"
        /\ PendingKeyRotation'.ceremony_id = id /\ PendingKeyRotation'.response = response
        /\ PendingKeyRotation'.epoch = current_epoch + 1 /\ PendingKeyRotation'.key = key
        /\ PendingKeyRotation'.receiving = receiving
    BY <2>1 DEF AwaitingKeyHandover
  <2>5. StatusInv'
    BY <1>0, <1>2, <2>1, <2>2, <2>4
       DEF StatusInv, RotationStatuses, CeremonyStatuses, KeyStatuses
  <2>6. VotersInv'
    BY <1>1, <1>2, <2>3, <2>4 DEF VotersInv
  <2>7. VerifiedInv' /\ EpochInv'
    BY <1>1, <1>2, <1>4, <2>4 DEF VerifiedInv, EpochInv, StageInv
  <2> QED BY <1>1, <1>3, <2>2, <2>4, <2>5, <2>6, <2>7 DEF StageInv, StatusStep
<1>5. CASE ~(HandoverRequired /\ active_key # NoEpochKey)
  <2>1. PendingKeyRotation' = WithKey("KeyHandoverComplete", key)
    BY <1>5 DEF key_handover
  <2> HIDE DEF key
  <2>3. PendingKeyRotation'.status = "KeyHandoverComplete" /\ PendingKeyRotation'.key = key
    BY <2>1 DEF WithKey
  <2>4. StatusInv'
    BY <1>2, <2>3 DEF StatusInv, RotationStatuses, CeremonyStatuses, KeyStatuses
  <2>5. VotersInv'
    BY <1>1, <1>2, <2>3 DEF VotersInv
  <2>6. VerifiedInv' /\ EpochInv'
    BY <1>1, <1>2, <1>5, <2>3 DEF VerifiedInv, ActivationIsVerified, EpochInv, StageInv
  <2> QED BY <1>1, <1>3, <2>3, <2>4, <2>5, <2>6 DEF StageInv, StatusStep
<1> QED BY <1>4, <1>5

\* Requests and ceremonies stay as they are.
LEMMA SigningSame ==
  ASSUME SigningShape, UNCHANGED <<counters, PendingCeremonies, RequestCallback>>
  PROVE  FreshIds /\ CallbacksStay
<1>1. CeremonyIdCounter \in 0..MaxCeremonies /\ MaxCeremonies \in Nat
  BY SigningAssumption DEF SigningShape
<1>2. CeremonyIdCounter' \in CeremonyIdCounter..MaxCeremonies
  BY <1>1 DEF counters
<1> QED BY <1>2 DEF FreshIds, CallbacksStay

LEMMA SigningUntouched ==
  ASSUME UNCHANGED signingVars
  PROVE  UNCHANGED <<RequestCallback, active_key, PendingCeremonies, CeremonyIdCounter>>
BY DEF signingVars, counters

\* A stage that carries nothing: no rotation, the activation, the end, or a failure.
Bare(status) ==
  \/ status \in {NoRotation, Complete}
  \/ \E ids : status = AwaitingActivationSignatures(ids)
  \/ \E o \in SUBSET Validators : status = Failed(o)

LEMMA BareStage ==
  ASSUME Bare(PendingKeyRotation'), KeygenVoters' = NoVoters, KeyHandoverVoters' = NoVoters,
         RequestCallback' \in [Requests -> RotationCallbacks \cup {NoCallback}],
         \A r \in Requests : ~Verifies(RequestCallback'[r]), EpochInv'
  PROVE  StageInv'
<1>1. /\ PendingKeyRotation'.status \in {"None", "Complete", "AwaitingActivationSignatures",
                                         "Failed"}
      /\ PendingKeyRotation'.status = "None" => PendingKeyRotation' = NoRotation
      /\ PendingKeyRotation'.status = "Complete" => PendingKeyRotation' = Complete
      /\ PendingKeyRotation'.status = "Failed" => PendingKeyRotation'.offenders \in SUBSET Validators
  BY DEF Bare, NoRotation, Complete, AwaitingActivationSignatures, Failed
<1>2. StatusInv'
  BY <1>1 DEF StatusInv, RotationStatuses, CeremonyStatuses, KeyStatuses
<1>3. VotersInv' /\ VerifiedInv'
  BY <1>1 DEF VotersInv, VerifiedInv
<1>4. CallbackInv'
  BY DEF CallbackInv, Verifies
<1> QED BY <1>2, <1>3, <1>4 DEF StageInv

LEMMA ResetStep ==
  ASSUME StageInv, reset_key_rotation
  PROVE  StageInv' /\ StatusStep
<1>1. /\ ~StatusPending /\ PendingKeyRotation' = NoRotation
      /\ UNCHANGED <<signingVars, KeygenVoters, KeyHandoverVoters, current_epoch>>
      /\ rotating' = FALSE
  BY DEF reset_key_rotation, voters
<1>2. UNCHANGED RequestCallback
  BY <1>1, SigningUntouched
<1>3. NotVerifying /\ KeygenVoters = NoVoters /\ KeyHandoverVoters = NoVoters
  BY <1>1 DEF StatusPending, NotVerifying, StageInv, VotersInv
<1>4. EpochInv'
  BY Zenon, <1>1 DEF EpochInv, StageInv, NoRotation
<1>5. /\ RequestCallback' \in [Requests -> RotationCallbacks \cup {NoCallback}]
      /\ \A r \in Requests : ~Verifies(RequestCallback'[r])
  BY <1>2, <1>3, NoVerification DEF StageInv, CallbackInv
<1>6. StageInv'
  BY <1>1, <1>3, <1>4, <1>5, BareStage DEF Bare
<1> QED BY <1>1, <1>2, <1>6 DEF StatusStep, NoRotation

LEMMA StartEpochStep ==
  ASSUME StageInv, StartEpoch
  PROVE  StageInv' /\ StatusStep
<1>1. /\ rotating /\ PendingKeyRotation = Complete
      /\ current_epoch' = current_epoch + 1 /\ rotating' = FALSE
      /\ UNCHANGED <<signingVars, PendingKeyRotation, KeygenVoters, KeyHandoverVoters>>
  BY DEF StartEpoch, voters
<1>2. UNCHANGED RequestCallback
  BY <1>1, SigningUntouched
<1>3. NotVerifying /\ KeygenVoters = NoVoters /\ KeyHandoverVoters = NoVoters
  BY <1>1 DEF NotVerifying, StageInv, VotersInv, Complete
<1>4. EpochInv'
  <2>1. current_epoch \in Nat /\ current_epoch + 1 \in Epochs
    BY <1>1, SigningAssumption DEF StageInv, EpochInv
  <2>2. current_epoch' \in Epochs \ {0}
    BY <1>1, <2>1
  <2> QED BY Zenon, <1>1, <2>2 DEF EpochInv, Complete
<1>5. /\ RequestCallback' \in [Requests -> RotationCallbacks \cup {NoCallback}]
      /\ \A r \in Requests : ~Verifies(RequestCallback'[r])
  BY <1>2, <1>3, NoVerification DEF StageInv, CallbackInv
<1>6. StageInv'
  BY <1>1, <1>3, <1>4, <1>5, BareStage DEF Bare
<1> QED BY <1>1, <1>2, <1>6 DEF StatusStep

LEMMA CheckActivationStep ==
  ASSUME StageInv, CheckActivation
  PROVE  StageInv' /\ StatusStep
<1>1. /\ PendingKeyRotation.status = "AwaitingActivationSignatures"
      /\ UNCHANGED <<signingVars, KeygenVoters, KeyHandoverVoters, current_epoch, rotating>>
  BY DEF CheckActivation, voters, epoch
<1>2. PendingKeyRotation' = Complete \/ \E ids : PendingKeyRotation' = AwaitingActivationSignatures(ids)
  BY DEF CheckActivation
<1>3. UNCHANGED RequestCallback
  BY <1>1, SigningUntouched
<1>4. NotVerifying /\ KeygenVoters = NoVoters /\ KeyHandoverVoters = NoVoters
  BY <1>1 DEF NotVerifying, StageInv, VotersInv
<1>5. EpochInv'
  BY <1>1 DEF EpochInv, StageInv
<1>6. /\ RequestCallback' \in [Requests -> RotationCallbacks \cup {NoCallback}]
      /\ \A r \in Requests : ~Verifies(RequestCallback'[r])
  BY <1>3, <1>4, NoVerification DEF StageInv, CallbackInv
<1>7. StageInv'
  BY <1>1, <1>2, <1>4, <1>5, <1>6, BareStage DEF Bare
<1> QED BY <1>1, <1>2, <1>3, <1>7 DEF StatusStep, Complete, AwaitingActivationSignatures

\* A key becomes active when it is verified, for the next epoch.
ActivationOk ==
  active_key' # active_key =>
    active_key'.epoch = current_epoch + 1 /\ ActivationIsVerified(active_key'.key)

LEMMA ActivateStep ==
  ASSUME SigningShape, SigningShape', StageInv, activate_keys, Callbacks = RotationCallbacks
  PROVE  StageInv' /\ StatusStep /\ ActivationOk
<1> DEFINE key == PendingKeyRotation.key
           new == [key |-> key, epoch |-> current_epoch + 1]
<1>1. /\ PendingKeyRotation.status = "KeyHandoverComplete"
      /\ UNCHANGED <<ThresholdSignatureResponseTimeout, retrying, rerequesting, delivered,
                     KeygenVoters, KeyHandoverVoters, current_epoch, rotating, verified>>
  BY DEF activate_keys, voters, epoch
<1>2. /\ NotVerifying /\ KeygenVoters = NoVoters /\ KeyHandoverVoters = NoVoters
      /\ key \in Keys /\ ActivationIsVerified(key)
      /\ rotating /\ current_epoch \in Epochs /\ current_epoch + 1 \in Epochs
  BY Zenon, <1>1 DEF NotVerifying, StageInv, StatusInv, VotersInv, VerifiedInv, EpochInv, KeyStatuses
<1>3. new \in EpochKey /\ new.key = key /\ new.epoch = current_epoch + 1
  <2>1. current_epoch \in Nat
    BY <1>2, SigningAssumption
  <2>2. current_epoch + 1 \in Epochs \ {0}
    BY <1>2, <2>1
  <2> QED BY <1>2, <2>2 DEF EpochKey
<1> HIDE DEF new
<1>5. EpochInv'
  BY <1>1, <1>2 DEF EpochInv, StageInv
<1>6. ASSUME UNCHANGED RequestCallback \/ \E r \in Requests :
               RequestCallback' = [RequestCallback EXCEPT ![r] = OnSignatureReady],
             active_key' = active_key \/ active_key' = new,
             \/ PendingKeyRotation' = Complete
             \/ \E ids : PendingKeyRotation' = AwaitingActivationSignatures(ids)
      PROVE  StageInv' /\ StatusStep /\ ActivationOk
  <2>1. RequestCallback' \in [Requests -> RotationCallbacks \cup {NoCallback}]
    BY <1>6 DEF SigningShape
  <2>2. \A r \in Requests : ~Verifies(RequestCallback'[r])
    <3>1. \A r \in Requests : ~Verifies(RequestCallback[r])
      BY <1>2, NoVerification
    <3> QED BY <1>6, <3>1 DEF Verifies, StageInv, CallbackInv
  <2>3. StageInv'
    BY <1>1, <1>2, <1>5, <1>6, <2>1, <2>2, BareStage DEF Bare
  <2>4. StatusStep
    BY <1>1, <1>6 DEF StatusStep, Complete, AwaitingActivationSignatures
  <2>5. ActivationOk
    BY <1>2, <1>3, <1>6 DEF ActivationOk
  <2> QED BY <1>6, <2>3, <2>4, <2>5
<1>7. CASE ActivateWithTransaction
  <2>1. /\ \E i : inner_request_signature(i, OnSignatureReady)
        /\ active_key' = new
        /\ \E ids : PendingKeyRotation' = AwaitingActivationSignatures(ids)
    BY <1>7 DEF ActivateWithTransaction, new
  <2>2. \E r \in Requests : RequestCallback' = [RequestCallback EXCEPT ![r] = OnSignatureReady]
    BY Zenon, <2>1 DEF inner_request_signature
  <2> QED BY Zenon, <1>6, <2>1, <2>2
<1>8. CASE ActivateWithoutTransaction \/ ActivateFirstVault \/ ActivateUninitialized
  <2>1. /\ active_key' = active_key \/ active_key' = new
        /\ \/ PendingKeyRotation' = Complete
           \/ \E ids : PendingKeyRotation' = AwaitingActivationSignatures(ids)
        /\ UNCHANGED RequestCallback
    BY <1>8 DEF ActivateWithoutTransaction, ActivateFirstVault, ActivateUninitialized, new
  <2> QED BY <1>6, <2>1
<1> QED BY <1>7, <1>8 DEF activate_keys
=============================================================================
