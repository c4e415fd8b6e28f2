---------------------------- MODULE MCWitnesser ----------------------------
(***************************************************************************)
(* Instances of Witnesser and of EpochHistory for TLC.  The two keep       *)
(* epochs of their own here: a behaviour is one of the part it starts      *)
(* with, and the variables of the other part keep their first values.      *)
(***************************************************************************)
EXTENDS Witnesser, EpochHistory

CONSTANTS v1, v2, v3, v4, Parts

VARIABLE part

\* The authority set shrinks and grows from epoch to epoch.
MCAuthoritiesAt ==
  [e \in Epochs |-> IF e = 2 THEN {v1, v2} ELSE Validators]
MCWeight == [c \in Calls |-> 1]
MCSafeModes == {{}, Calls}
\* The fourth authority may report outliers on either side.
MCReports ==
  [v \in Validators |-> IF v = v4 THEN Data ELSE Data \ {0, 5}]

MCInit ==
  /\ part \in Parts /\ Init /\ EpochInit
  /\ part # "epochs" => BlocksPerEpoch = Min(Durations) /\ HistoricalBonds[1] = Min(Bonds)

MCNext ==
  /\ UNCHANGED part
  /\ \/ part = "witnesser" /\ Next /\ UNCHANGED historyVars
     \/ part = "epochs" /\ EpochNext /\ UNCHANGED vars

MCSpec == MCInit /\ [][MCNext]_<<part, vars, historyVars>>
=============================================================================
