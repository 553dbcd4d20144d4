---------------------------- MODULE RewardLedger ----------------------------
(***************************************************************************)
(* What the achievements promise a user (docs/challenges-and-gamification, *)
(* "Reward integrity"): an append-only ledger in which every reference     *)
(* stands once and stands for something that was earned, and a profile     *)
(* that is a cache of the ledger: it shows nothing the ledger does not     *)
(* hold and never less than it once showed.                                *)
(***************************************************************************)
CONSTANTS References, Activities  \* ledger references; those of an activity

VARIABLES earned, ledger, shown

vars == <<earned, ledger, shown>>

Init ==
  /\ earned = {}
  /\ ledger = {}
  /\ shown = {}

Earn(a) ==
  /\ a \in Activities \ earned
  /\ earned' = earned \cup {a}
  /\ UNCHANGED <<ledger, shown>>

Post(r) ==
  /\ r \in References \ ledger
  /\ r \in Activities => r \in earned
  /\ ledger' = ledger \cup {r}
  /\ UNCHANGED <<earned, shown>>

Show ==
  /\ shown \subseteq shown'
  /\ shown' \subseteq ledger
  /\ UNCHANGED <<earned, ledger>>

Next ==
  \/ \E r \in References : Earn(r) \/ Post(r)
  \/ Show

Spec == Init /\ [][Next]_vars
=============================================================================
