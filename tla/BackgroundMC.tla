---------------------------- MODULE BackgroundMC ----------------------------
(* What scheduler processes do day by day, in one scene chosen at the       *)
(* start: the broadcast of the challenge of the day (Daily), and the        *)
(* erasure of accounts that leave with the exports beside it (Erasure),     *)
(* each with its fairness.                                                  *)
EXTENDS Daily, Erasure

VARIABLE scene

\* A failed deletion; media and a dying process; two accounts due at once, listed one by one
\* or together with a death; an owner who cancels and an administrator in between; exports
\* that die or fail; an export of an account that leaves.
TwoAccounts == {"a", "b"}
NoTrouble == [leavers |-> {"a"}, media |-> {"f"}, holds |-> {"verifications", "reports"}, exports |-> 0,
              limit |-> 1, cancel |-> 0, admin |-> 0, database |-> 0, provider |-> 0, deaths |-> 0]
Troubles ==
  {[NoTrouble EXCEPT !.database = 1],
   [NoTrouble EXCEPT !.media = {"f", "g"}, !.provider = 1, !.deaths = 1],
   [NoTrouble EXCEPT !.leavers = {"a", "b"}, !.holds = {"sessions"}, !.provider = 1],
   [NoTrouble EXCEPT !.leavers = {"a", "b"}, !.holds = {}, !.limit = 2, !.deaths = 1],
   [NoTrouble EXCEPT !.admin = 1, !.cancel = 1],
   [NoTrouble EXCEPT !.leavers = {}, !.exports = 2, !.deaths = 1],
   [NoTrouble EXCEPT !.leavers = {}, !.exports = 1, !.database = 1],
   [NoTrouble EXCEPT !.exports = 1]}

Scenes == {"daily", "erasure"}

\* Where the erasure is not played, its choice is made for it.
MCInit ==
  /\ scene \in Scenes
  /\ DailyInit /\ ErasureInit
  /\ scene # "erasure" => trouble = [NoTrouble EXCEPT !.exports = 1]

MCNext ==
  /\ UNCHANGED scene
  /\ \/ scene = "daily" /\ DailyNext /\ UNCHANGED erasureVars
     \/ scene = "erasure" /\ ErasureNext /\ UNCHANGED dailyVars

\* DailyFairness and ErasureFairness, each of its own scene: the other one stands still.
MCFairness ==
  /\ \A s \in Replicas : WF_dailyVars(scene = "daily" /\ Work(s))
  /\ WF_erasureVars(scene = "erasure" /\ LockExpires)
  /\ SF_erasureVars(scene = "erasure" /\ \E s \in Retainers : TakeLock(s))
  /\ \A s \in Retainers : WF_erasureVars(scene = "erasure" /\ Scheduler(s))

MCSpec == MCInit /\ [][MCNext]_<<scene, dailyVars, erasureVars>> /\ MCFairness

\* What is due is done in the end, whatever runs die before: a published challenge is
\* announced on its day and an account whose grace period ended is erased.
WhatIsDueIsDone == BroadcastCompletes /\ DueIsErased
=============================================================================
