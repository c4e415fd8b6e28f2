------------------------- MODULE ValidatorRotation --------------------------
(***************************************************************************)
(* How the validator pallet (cf-validator) replaces the authorities: an    *)
(* auction, keygen and handover of every key with the candidates that      *)
(* remain, the activation of the keys and two session rotations.  The keys *)
(* belong to several rotators (ConsKeyRotator) that move on their own.     *)
(***************************************************************************)
EXTENDS Integers, Sequences, FiniteSets, SequencesExt, Thresholds

(***************************************************************************)
(* The auction for authorship (cf-validator/src/auction_resolver.rs) and   *)
(* the candidates that remain of its outcome as validators are banned      *)
(* (rotation_state.rs).                                                    *)
(***************************************************************************)

\* Percent * n rounds to the nearest integer, and down when halfway.
PercentOf(percent, n) == (percent * n + 49) \div 100

\* The bidders in order of falling bids.  Equal bids are in any order: the sort
\* is not stable.
ByFallingBid(bidders, bid) ==
  {s \in SetToSeqs(bidders) : \A i, j \in DOMAIN s : i < j => bid[s[i]] >= bid[s[j]]}

ValidParameters(current_size, parameters) ==
  /\ parameters.min_size > 0
  /\ parameters.min_size <= parameters.max_size
  /\ current_size + parameters.max_expansion >= parameters.min_size

\* The losers are kept as long as they bid enough of the bond.
CutOff(losers, bid, cutoff_bid) ==
  SelectSeq(losers, LAMBDA v : bid[v] >= cutoff_bid)

\* The outcomes an auction may have: none when the auction fails.
resolve_auction(bidders, bid, current_size, parameters, cutoff) ==
  IF ~ValidParameters(current_size, parameters)
     \/ Cardinality(bidders) < parameters.min_size
  THEN {}
  ELSE LET target == Min({parameters.max_size, current_size + parameters.max_expansion,
                          Cardinality(bidders)})
           outcome(s) ==
             LET bond == bid[s[target]]
             IN [winners |-> SubSeq(s, 1, target), bond |-> bond,
                 losers |-> CutOff(SubSeq(s, target + 1, Len(s)), bid,
                                   PercentOf(cutoff, bond))]
       IN {outcome(s) : s \in ByFallingBid(bidders, bid)}

from_auction_outcome(outcome) ==
  [primary |-> outcome.winners, secondary |-> outcome.losers, banned |-> {},
   bond |-> outcome.bond]

\* As many candidates as there were winners, the banned ones replaced by losers.
authority_candidates(state) ==
  LET unbanned == SelectSeq(state.primary \o state.secondary,
                            LAMBDA v : v \notin state.banned)
  IN ToSet(SubSeq(unbanned, 1, Min({Len(state.primary), Len(unbanned)})))

ban_last(state, offenders) == [state EXCEPT !.banned = offenders]  \* faulty variant
ban(state, offenders) == [state EXCEPT !.banned = @ \cup offenders]

CONSTANTS
  Bidders,                     \* the validators
  Rotators,                    \* the chains whose keys rotate
  HandoverRotators,            \* those that hand the old key over
  Bid,                         \* what each validator bids
  Genesis,                     \* the first authorities
  Parameters,                  \* the auction parameters governance may set
  Cutoff,                      \* AuctionBidCutoffPercentage
  Contraction,                 \* MaxAuthoritySetContractionPercentage
  OffenderSets                 \* whom a failed ceremony may name

ASSUME RotationAssumptions ==
  /\ HandoverRotators \subseteq Rotators
  /\ Genesis \subseteq Bidders
  /\ Bid \in [Bidders -> Nat]
  /\ OffenderSets \subseteq SUBSET Bidders

VARIABLES
  CurrentRotationPhase,
  rotation_state,              \* what the phase carries
  CurrentAuthorities,
  AuctionParameters,
  authority_rotation_enabled,  \* safe mode
  rotator,                     \* the status of each rotator
  participants,                \* the parties of its last ceremony
  holders                      \* who holds shares of its new key

\* Each rotator is one as KeyRotator describes it.
RotatorAt(r) == INSTANCE KeyRotator WITH Validators <- Bidders, rotator <- rotator[r]
KeyStatuses == UNION {RotatorAt(r)!Statuses : r \in Rotators}

config == <<AuctionParameters, authority_rotation_enabled>>
ceremonies == <<rotator, participants, holders>>
validatorVars == <<CurrentRotationPhase, rotation_state, CurrentAuthorities, config, ceremonies>>

NoState == [primary |-> <<>>, secondary |-> <<>>, banned |-> {}, bond |-> 0]

ValidatorInit ==
  /\ CurrentRotationPhase = "Idle"
  /\ rotation_state = NoState
  /\ CurrentAuthorities = Genesis
  /\ AuctionParameters \in {p \in Parameters : ValidParameters(Cardinality(Genesis), p)}
  /\ authority_rotation_enabled = TRUE
  /\ rotator = [r \in Rotators |-> RotatorAt(r)!reset_status]
  /\ participants = [r \in Rotators |-> {}]
  /\ holders = [r \in Rotators |-> {}]

-----------------------------------------------------------------------------
(* The rotators together: ConsKeyRotator.                                  *)

\* A rotator without a rotation hides the others; a pending one is waited for even
\* when another failed; statuses that differ are a failure.
Together(status, offenders) == [status |-> status, offenders |-> offenders]
cons_status(rotators) ==
  IF \E r \in Rotators : rotators[r].status = "Void" THEN Together("Void", {})
  ELSE IF \E r \in Rotators : RotatorAt(r)!IsPending(rotators[r]) THEN Together("Pending", {})
  ELSE IF \E s \in {"KeygenComplete", "HandoverComplete", "RotationComplete"} :
            \A r \in Rotators : rotators[r].status = s
  THEN rotators[CHOOSE r \in Rotators : TRUE]
  ELSE Together("Failed", UNION {rotators[r].offenders : r \in Rotators})

-----------------------------------------------------------------------------
(* Starting a stage.                                                       *)

abort_rotation ==
  /\ CurrentRotationPhase' = "Idle"
  /\ rotation_state' = NoState
  /\ rotator' = [r \in Rotators |-> RotatorAt(r)!reset_status]
  /\ UNCHANGED <<participants, holders>>

minimum_size ==
  Max({AuctionParameters.min_size,
       PercentOf(100 - Contraction, Cardinality(CurrentAuthorities))})

try_start_keygen(state) ==
  LET candidates == authority_candidates(state)
  IN IF Cardinality(candidates) < minimum_size
     THEN abort_rotation
     ELSE /\ CurrentRotationPhase' = "KeygensInProgress"
          /\ rotation_state' = state
          /\ rotator' = [r \in Rotators |-> RotatorAt(r)!keygen_status]
          /\ participants' = [r \in Rotators |-> candidates]
          /\ holders' = [r \in Rotators |-> candidates]

\* Enough of the old authorities, those that stay first.
select_sharing_participants(old, new) ==
  LET threshold == success_threshold_from_share_count(Cardinality(CurrentAuthorities))
      preferred == Min({threshold, Cardinality(old \cap new)})
  IN IF Cardinality(old) < threshold \/ new = {} THEN {}
     ELSE {s \in SUBSET old : /\ Cardinality(s) = threshold
                              /\ Cardinality(s \cap new) = preferred}

start_key_handovers(sharing, receiving) ==
  LET started(r) == /\ rotator[r].status \in {"KeygenComplete", "HandoverFailed"}
                    /\ r \in HandoverRotators
  IN /\ rotator' = [r \in Rotators |->
            RotatorAt(r)!key_handover_status(rotator[r], r \in HandoverRotators)]
     /\ participants' = [r \in Rotators |-> IF started(r) THEN sharing \cup receiving
                                            ELSE participants[r]]
     /\ holders' = [r \in Rotators |-> IF started(r) THEN receiving ELSE holders[r]]

try_start_key_handover(state) ==
  LET sharing == select_sharing_participants(CurrentAuthorities \ state.banned,
                                             authority_candidates(state))
  IN IF ~authority_rotation_enabled \/ sharing = {}
     THEN abort_rotation
     ELSE /\ \E s \in sharing : start_key_handovers(s, authority_candidates(state))
          /\ CurrentRotationPhase' = "KeyHandoversInProgress"
          /\ rotation_state' = state

-----------------------------------------------------------------------------
(* One action per phase and status of on_initialize, and the calls.        *)

\* At the end of an epoch, or when governance forces it.
start_authority_rotation ==
  /\ CurrentRotationPhase = "Idle"
  /\ authority_rotation_enabled
  /\ \E qualified \in SUBSET Bidders :
       LET outcomes == resolve_auction(qualified, Bid, Cardinality(CurrentAuthorities),
                                       AuctionParameters, Cutoff)
       IN IF outcomes = {} THEN abort_rotation
          ELSE \E outcome \in outcomes : try_start_keygen(from_auction_outcome(outcome))
  /\ UNCHANGED <<CurrentAuthorities, config>>

\* A phase looks at the status once it is no longer pending.
InPhase(phase) ==
  /\ CurrentRotationPhase = phase
  /\ cons_status(rotator).status # "Pending"
  /\ UNCHANGED <<CurrentAuthorities, config>>

KeygensInProgress ==
  /\ InPhase("KeygensInProgress")
  /\ LET seen == cons_status(rotator)
     IN CASE seen.status = "KeygenComplete" -> try_start_key_handover(rotation_state)
          [] seen.status = "Failed" ->
               try_start_keygen(ban(rotation_state, seen.offenders))
          [] OTHER -> abort_rotation

RepeatHandover(offenders) ==                                       \* faulty variant
  try_start_key_handover(ban(rotation_state, offenders))
HandoversFailed(offenders) ==
  LET banned == ban(rotation_state, offenders)
  IN IF offenders \cap authority_candidates(rotation_state) # {}
     THEN try_start_keygen(banned)
     ELSE try_start_key_handover(banned)

KeyHandoversInProgress ==
  /\ InPhase("KeyHandoversInProgress")
  /\ LET seen == cons_status(rotator)
     IN CASE seen.status = "HandoverComplete" ->
               /\ \E activated \in [Rotators -> KeyStatuses] :
                    /\ \A r \in Rotators :
                         activated[r] \in RotatorAt(r)!activate_statuses(rotator[r])
                    /\ rotator' = activated
               /\ CurrentRotationPhase' = "ActivatingKeys"
               /\ UNCHANGED <<rotation_state, participants, holders>>
          [] seen.status = "Failed" -> HandoversFailed(seen.offenders)
          [] OTHER -> abort_rotation

ActivatingKeys ==
  /\ InPhase("ActivatingKeys")
  /\ IF cons_status(rotator).status = "RotationComplete"
     THEN /\ CurrentRotationPhase' = "NewKeysActivated"
          /\ UNCHANGED <<rotation_state, ceremonies>>
     ELSE abort_rotation

\* The session pallet rotates twice; the second time the new authorities take over.
QueueAuthorities ==
  /\ CurrentRotationPhase = "NewKeysActivated"
  /\ CurrentRotationPhase' = "SessionRotating"
  /\ UNCHANGED <<rotation_state, CurrentAuthorities, config, ceremonies>>

transition_to_next_epoch ==
  /\ CurrentRotationPhase = "SessionRotating"
  /\ CurrentRotationPhase' = "Idle"
  /\ CurrentAuthorities' = authority_candidates(rotation_state)
  /\ rotation_state' = NoState
  /\ UNCHANGED <<config, ceremonies>>

validator_on_initialize ==
  \/ KeygensInProgress
  \/ KeyHandoversInProgress
  \/ ActivatingKeys
  \/ QueueAuthorities
  \/ transition_to_next_epoch

update_pallet_config ==
  /\ \E p \in Parameters : /\ ValidParameters(Cardinality(CurrentAuthorities), p)
                           /\ AuctionParameters' = p
  /\ UNCHANGED <<CurrentRotationPhase, rotation_state, CurrentAuthorities,
                 authority_rotation_enabled, ceremonies>>

set_safe_mode ==
  /\ authority_rotation_enabled' = ~authority_rotation_enabled
  /\ UNCHANGED <<CurrentRotationPhase, rotation_state, CurrentAuthorities,
                 AuctionParameters, ceremonies>>

\* A rotator ends the stage it is in.  The new holders alone sign the verification
\* of a key that was handed over.
Resolve(r) ==
  /\ \E outcome \in RotatorAt(r)!Outcomes(rotator[r], participants[r]) :
       /\ outcome.status \in {"Failed", "HandoverFailed"} =>
            outcome.offenders \in OffenderSets
       /\ outcome.status = "Failed" => outcome.offenders \subseteq holders[r]
       /\ rotator' = [rotator EXCEPT ![r] = outcome]
  /\ UNCHANGED <<CurrentRotationPhase, rotation_state, CurrentAuthorities, config,
                 participants, holders>>

ValidatorNext ==
  \/ start_authority_rotation
  \/ validator_on_initialize
  \/ update_pallet_config
  \/ set_safe_mode
  \/ \E r \in Rotators : Resolve(r)

ValidatorSpec == ValidatorInit /\ [][ValidatorNext]_validatorVars

\* Blocks are produced, and no ceremony lasts for ever (StagesEnd of KeyRotation);
\* an activation may wait for a transaction on another chain as long as it likes.
ValidatorFairness ==
  /\ WF_validatorVars(validator_on_initialize)
  /\ \A r \in Rotators : WF_validatorVars(rotator[r].status # "AwaitingActivation" /\ Resolve(r))
FairValidatorSpec == ValidatorSpec /\ ValidatorFairness

-----------------------------------------------------------------------------
(* Properties.                                                             *)

Phases == {"Idle", "KeygensInProgress", "KeyHandoversInProgress", "ActivatingKeys",
           "NewKeysActivated", "SessionRotating"}

\* The phases carry a state, the rotators a status, and the parties are validators.
ValidatorTypeOK ==
  /\ CurrentRotationPhase \in Phases
  /\ ToSet(rotation_state.primary) \cup ToSet(rotation_state.secondary)
       \cup rotation_state.banned \subseteq Bidders
  /\ CurrentAuthorities \subseteq Bidders
  /\ rotator \in [Rotators -> KeyStatuses]
  /\ participants \in [Rotators -> SUBSET Bidders]
  /\ holders \in [Rotators -> SUBSET Bidders]

\* on_initialize never sees a status that its debug_asserts rule out, and when no
\* rotation is in progress no rotator is busy: keygen would panic on it.
StatusFitsPhase ==
  LET status == cons_status(rotator).status
  IN CASE CurrentRotationPhase = "Idle" -> \A r \in Rotators : ~RotatorAt(r)!IsPending(rotator[r])
       [] CurrentRotationPhase = "KeygensInProgress" ->
            status \in {"Pending", "KeygenComplete", "Failed"}
       [] CurrentRotationPhase = "KeyHandoversInProgress" ->
            status \in {"Pending", "HandoverComplete", "Failed"}
       [] CurrentRotationPhase = "ActivatingKeys" ->
            status \in {"Pending", "RotationComplete"}
       [] OTHER -> status = "RotationComplete"

\* From the moment the keys are activated, every new key is shared by exactly the
\* validators that are about to become the authorities, however often keygen and
\* handover were repeated and whoever was banned on the way.
AuthoritiesHoldTheKeys ==
  CurrentRotationPhase \in {"ActivatingKeys", "NewKeysActivated", "SessionRotating"} =>
    \A r \in Rotators : holders[r] = authority_candidates(rotation_state)

\* A validator becomes an authority before another one that bid less, unless it
\* was banned during the rotation.
HighestBidsWin ==
  LET ranked == ToSet(rotation_state.primary) \cup ToSet(rotation_state.secondary)
      chosen == authority_candidates(rotation_state)
  IN CurrentRotationPhase = "SessionRotating" =>
       \A loser \in (ranked \ rotation_state.banned) \ chosen, winner \in chosen :
         Bid[loser] <= Bid[winner]

\* From one epoch to the next the set of authorities grows by at most max_expansion
\* and shrinks by at most the contraction percentage, also when candidates are banned
\* (for parameters that stay as they are).
SetSizeChangesSlowly ==
  [][CurrentAuthorities' # CurrentAuthorities =>
       LET before == Cardinality(CurrentAuthorities)
           after == Cardinality(CurrentAuthorities')
       IN /\ after <= before + Max({p.max_expansion : p \in Parameters})
          /\ after >= PercentOf(100 - Contraction, before)]_validatorVars

\* A rotator is only asked for what its status allows: keygen and reset when it is not
\* busy, the next stage when the one before it is complete.
RotatorsAreObeyed ==
  [][\A r \in Rotators : RotatorAt(r)!Next \/ UNCHANGED rotator[r]]_validatorVars

\* However often a rotation is repeated, the rotators are used as they allow, their
\* status is one that the phase expects, the right validators become authorities, not too many of them
\* change at once, and they hold the new keys.
RotationIsSound ==
  /\ [](ValidatorTypeOK /\ StatusFitsPhase /\ AuthoritiesHoldTheKeys /\ HighestBidsWin)
  /\ SetSizeChangesSlowly /\ RotatorsAreObeyed

\* When every failure names at least one offender, keygen and handover are not
\* repeated for ever: the rotation is activated or aborted.
RotationIsDecided ==
  CurrentRotationPhase \in {"KeygensInProgress", "KeyHandoversInProgress"}
    ~> CurrentRotationPhase \in {"ActivatingKeys", "Idle"}

\* A key that fails its verification is given up: its rotator does not stay failed.
FailureIsRepeated ==
  \A r \in Rotators : rotator[r].status = "Failed" ~> rotator[r].status # "Failed"
=============================================================================
