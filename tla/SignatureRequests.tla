-------------------------- MODULE SignatureRequests --------------------------
(***************************************************************************)
(* What the threshold signer promises to the pallets that use it           *)
(* (the ThresholdSigner trait): a standard request is never answered with  *)
(* a failure, a key verification is answered one way or the other, and no  *)
(* answer changes.                                                         *)
(***************************************************************************)
CONSTANT Requests
VARIABLE request   \* [request id]: where the request is in its life

Init == request = [r \in Requests |-> "unused"]

Ask(r, kind) ==
  /\ request[r] = "unused"
  /\ request' = [request EXCEPT ![r] = kind]

Sign(r) ==
  /\ request[r] \in {"standard", "verification"}
  /\ request' = [request EXCEPT ![r] = "signed"]

Fail(r) ==
  /\ request[r] = "verification"
  /\ request' = [request EXCEPT ![r] = "failed"]

Next ==
  \E r \in Requests :
    \/ \E kind \in {"standard", "verification"} : Ask(r, kind)
    \/ Sign(r)
    \/ Fail(r)

\* Every key verification is answered.
Fairness ==
  \A r \in Requests :
    WF_request(request[r] = "verification" /\ (Sign(r) \/ Fail(r)))

Safety == Init /\ [][Next]_request
Spec == Safety /\ Fairness
=============================================================================
