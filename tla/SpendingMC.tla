----------------------------- MODULE SpendingMC -----------------------------
(* What is spent, in one of two scenes chosen at the start: the allowance of *)
(* a user (UsageLedger), and calls of the AI router under a budget, which    *)
(* may calculate it and fail to (AiRouting, with its fairness).              *)
EXTENDS UsageLedger, TLC

CONSTANTS w1, v1, v2, c1, c2, q1, q2, l1,
  AiProviders, Capabilities, ProviderLimit, CapabilityLimit, Keys, Requests, BudgetEnabled,
  Failures, Models, Probed, ConserveAt, CriticalAt, ExhaustedAt, InitialSpend, MaxFaults

VARIABLES scene, req, gate, pools, circuit, probe, spent, snapshot, faults

routerVars == <<req, gate, pools, circuit, probe, spent, snapshot, faults>>

Router == INSTANCE AiRouting

OneWindow == {w1}
TwoVerifications == {v1, v2}
TwoCallers == {c1, c2}
\* Of the allowance only: the router, whose liveness is checked, has values of its own.
Symmetry == Permutations(TwoVerifications) \cup Permutations(TwoCallers)
FirstAttempt == {0}
OneAndTwo == {1, 2}

BothProviders == {"VERTEX", "GEMINI"}
OneCapability == {"EVIDENCE_SYNTHESIS"}
\* Two calls for one place.
OneAtATime == [key \in BothProviders \X {"TEXT", "MEDIA"} |-> IF key = <<"GEMINI", "TEXT">> THEN 2 ELSE 1]
NarrowLimit == [c \in OneCapability |-> 1]

MCInit == scene \in {"allowance", "router"} /\ Init /\ Router!Init
MCNext ==
  /\ UNCHANGED scene
  /\ \/ scene = "allowance" /\ Next /\ UNCHANGED routerVars
     \/ scene = "router" /\ Router!Next /\ UNCHANGED vars
MCSpec == MCInit /\ [][MCNext]_<<scene, vars, routerVars>> /\ Router!Fairness

\* execute() always returns or throws: AiRouting's Answers (ai-budget.service.ts:82).
Answers == Router!Answers
=============================================================================
