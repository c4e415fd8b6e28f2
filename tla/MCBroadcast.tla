---------------------------- MODULE MCBroadcast -----------------------------
(***************************************************************************)
(* Instances of Broadcast for TLC.                                         *)
(***************************************************************************)
EXTENDS Broadcast, TLC

CONSTANTS v1, v2, v3

\* Broadcasts in two epochs, and one in which the authorities become fewer.
TwoEpochs == <<{v1, v2}, {v2, v3}>>
FewerAuthorities == <<{v1, v2}, {v1}>>

\* A broadcast nobody has failed is retried in the next block, others after two.
MCRetryDelay == [n \in 0..Cardinality(Validators) |-> IF n = 0 THEN 1 ELSE MaxDelay]

\* At most one of: a broadcast that is signed again, a time without signers, a
\* safe mode.  None of them is what a fair action waits for.
Disturbances ==
  suspensions + safe_modes + Cardinality({b \in Broadcasts : signatures[b] > 1})

BroadcastNext == Next /\ Disturbances' <= 1
BroadcastSpec == Init /\ [][BroadcastNext]_vars /\ Fairness
=============================================================================
