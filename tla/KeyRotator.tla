----------------------------- MODULE KeyRotator -----------------------------
(***************************************************************************)
(* The life of one key rotator as its user, the validator pallet, sees it  *)
(* and may rely on it: the statuses that KeyRotator::status reports        *)
(* (traits/src/lib.rs) and how the calls of the trait change them.  Only a *)
(* call starts or repeats a stage, a stage ends in success or with         *)
(* offenders, and nothing is skipped.  KeyRotation is the rotator in       *)
(* detail, ValidatorRotation its user.                                     *)
(***************************************************************************)
CONSTANT Validators

Status(status, offenders) == [status |-> status, offenders |-> offenders]
PendingStatuses == {"AwaitingKeygen", "AwaitingHandover", "AwaitingActivation"}
Statuses ==
  [status : {"Void", "KeygenComplete", "HandoverComplete", "RotationComplete"}
              \cup PendingStatuses, offenders : {{}}]
    \cup [status : {"Failed", "HandoverFailed"}, offenders : SUBSET Validators]

IsPending(s) == s.status \in PendingStatuses

\* The calls.
keygen_status == Status("AwaitingKeygen", {})
reset_status == Status("Void", {})

\* A handover starts after keygen and after a failed handover; when the chain
\* needs none it is complete at once.  In any other status nothing happens.
key_handover_status(s, required) ==
  CASE s.status \in {"KeygenComplete", "HandoverFailed"} ->
         Status(IF required THEN "AwaitingHandover" ELSE "HandoverComplete", {})
    [] OTHER -> s

activate_statuses(s) ==
  IF s.status = "HandoverComplete"
  THEN {Status("AwaitingActivation", {}), Status("RotationComplete", {})}
  ELSE {s}

\* How a pending status ends.  A failed handover can be repeated; a failed
\* verification of the key that was handed over cannot.
Outcomes(s, participants) ==
  CASE s.status = "AwaitingKeygen" ->
         {Status("KeygenComplete", {})} \cup [status : {"Failed"}, offenders : SUBSET participants]
    [] s.status = "AwaitingHandover" ->
         {Status("HandoverComplete", {})}
           \cup [status : {"HandoverFailed", "Failed"}, offenders : SUBSET participants]
    [] s.status = "AwaitingActivation" -> {Status("RotationComplete", {})}
    [] OTHER -> {}

VARIABLE rotator

Init == rotator = Status("Void", {})

Start == ~IsPending(rotator) /\ rotator' = keygen_status
Reset == ~IsPending(rotator) /\ rotator' = reset_status
Handover == \E required \in BOOLEAN : rotator' = key_handover_status(rotator, required)
Activate == rotator' \in activate_statuses(rotator)
Resolve == rotator' \in Outcomes(rotator, Validators)

Next == Start \/ Reset \/ Handover \/ Activate \/ Resolve

Spec == Init /\ [][Next]_rotator
=============================================================================
