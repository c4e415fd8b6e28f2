------------------------------- MODULE MCKeys -------------------------------
(***************************************************************************)
(* Instances of ThresholdSigning, KeyRotation and ValidatorRotation for    *)
(* TLC.  A behaviour is one of the signing alone, one of the rotation of a *)
(* key, or one of the rotation of the authorities; the variables of what   *)
(* it is not about keep their first values.                                *)
(***************************************************************************)
EXTENDS KeyRotation, ValidatorRotation

CONSTANTS b1, b2, b3, b4,
          Parts   \* the parts that are explored

VARIABLE part

\* The default epoch has no authorities; the others have all validators.
MCAuthoritiesAt == [e \in Epochs |-> IF e = 0 THEN {} ELSE Validators]
MCCandidateSets == {Validators}

\* A key that is handed over is the old one, with another key tweaked into it:
\* here it is only like itself.
WithVault == [key |-> [key |-> CHOOSE k \in Keys : TRUE, epoch |-> 1], started |-> TRUE]
WithoutVault == [key |-> NoEpochKey, started |-> FALSE]
ChainWithVault == {WithVault}
AllChains == {WithVault, WithoutVault}
AnyActiveKey == {[key |-> k, started |-> TRUE] : k \in EpochKey}
MCHandoverMatches == {<<k, k>> : k \in Keys}

\* Two of the bidders bid the same; b4 bids less than half of the others.
MCBid == [v \in Bidders |-> CASE v = b1 -> 9 [] v = b4 -> 3 [] OTHER -> 7]
\* Governance may lower the minimum and let everybody in.
TwoSizes == {[min_size |-> 2, max_size |-> 3, max_expansion |-> 1],
             [min_size |-> 1, max_size |-> 4, max_expansion |-> 1]}
MCGenesis == {b1, b2}
AnyOffender == {{v} : v \in Bidders}
NobodyNamed == {{}}

MCInit ==
  /\ part \in Parts /\ RotationInit /\ ValidatorInit
  /\ part = "signing" => ChainInitialized
  /\ part = "authorities" => ~ChainInitialized
  /\ part # "authorities" => AuctionParameters = CHOOSE p \in Parameters : TRUE

\* Signing alone: any key is active, and the rotations that replace it do so at
\* any time.
MCNext ==
  /\ UNCHANGED part
  /\ \/ part = "signing" /\ Next /\ UNCHANGED <<rotationVars, validatorVars>>
     \/ part = "key" /\ RotationNext /\ UNCHANGED validatorVars
     \/ part = "authorities" /\ ValidatorNext /\ UNCHANGED allVars

MCSpec == MCInit /\ [][MCNext]_<<part, allVars, validatorVars>>
SigningSpec == MCSpec /\ Fairness
KeySpec == MCSpec /\ RotationFairness
\* ValidatorFairness, for the behaviours it is about.
AuthoritiesSpec ==
  /\ MCSpec
  /\ WF_validatorVars(part = "authorities" /\ validator_on_initialize)
  /\ \A r \in Rotators : WF_validatorVars(
       part = "authorities" /\ rotator[r].status # "AwaitingActivation" /\ Resolve(r))
=============================================================================
