----------------------------- MODULE MCMultisig -----------------------------
(***************************************************************************)
(* Instances of the multisig ceremonies: a behaviour is either one of the  *)
(* stages of all parties, or one of the manager and runners of one engine. *)
(***************************************************************************)
EXTENDS CeremonyStages, CeremonyRunner

Everywhere == {"HashCommitments1", "VerifyHashCommitmentsBroadcast2",
    "CoefficientCommitments3", "VerifyCommitmentsBroadcast4", "SecretSharesStage5",
    "ComplaintsStage6", "VerifyComplaintsBroadcastStage7", "BlameResponsesStage8",
    "VerifyBlameResponsesBroadcastStage9", "AwaitCommitments1",
    "VerifyCommitmentsBroadcast2", "LocalSigStage3", "VerifyLocalSigsBroadcastStage4"}

All(kind, n, faulty, deviates, losses) ==
    [kind |-> kind, parties |-> 1..n, faulty |-> faulty, deviates |-> deviates,
     sharing |-> 1..n, receiving |-> 1..n, losses |-> losses]

NoCeremony == All("Keygen", 0, {}, {}, 0)

Handover(sharing, receiving, faulty, deviates, losses) ==
    [All("Handover", 4, faulty, deviates, losses) EXCEPT !.sharing = sharing,
                                                         !.receiving = receiving]

\* One faulty party among four, one or two losses among three or four, and
\* handovers in which the new indexes equal the old ones, and others.
MCCeremonies ==
    {NoCeremony,
     All("Keygen", 4, {4}, Everywhere, 0), All("Signing", 4, {4}, Everywhere, 0),
     All("Keygen", 3, {}, {}, 1), All("Keygen", 4, {}, {}, 2),
     All("Signing", 4, {}, {}, 1),
     Handover({2, 3, 4}, {1, 2, 3}, {}, {}, 1),
     Handover({1, 2, 3}, {2, 3, 4}, {}, {}, 1),
     Handover({2, 3, 4}, {1, 2, 3}, {4}, Everywhere \cup {"PubkeyShares0"}, 0)}

Request(kind, valid) == [kind |-> kind, valid |-> valid]
Run(requests, peers, strays, timeouts) ==
    [requests |-> requests, peers |-> peers, strays |-> strays, timeouts |-> timeouts]

NoScript == Run(<<>>, 0, 0, FALSE)

\* One ceremony with two peers, with and without peers that time out; one whose
\* only party we are; and three ceremonies with messages from outside.
MCScripts ==
    {NoScript,
     Run(<<Request("Keygen", TRUE)>>, 2, 0, FALSE),
     Run(<<Request("Handover", TRUE)>>, 2, 0, FALSE),
     Run(<<Request("Handover", TRUE)>>, 1, 0, TRUE),
     Run(<<Request("Keygen", TRUE), Request("Sign", TRUE)>>, 0, 1, FALSE),
     Run(<<Request("Sign", TRUE), Request("None", TRUE), Request("Sign", FALSE)>>,
         1, 1, TRUE)}
MCLastStage == [Keygen |-> 3, Handover |-> 3, Sign |-> 2, None |-> 0]

Init == StagesInit /\ RunnerInit /\ (ceremony = NoCeremony \/ script = NoScript)

Next == \/ StagesNext /\ UNCHANGED runnerVars
        \/ RunnerNext /\ UNCHANGED stagesVars

vars == <<stagesVars, runnerVars>>

Spec == Init /\ [][Next]_vars /\ RunnerFairness
=============================================================================
