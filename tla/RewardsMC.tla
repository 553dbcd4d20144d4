----------------------------- MODULE RewardsMC -----------------------------
(* Instances of Rewards for TLC. *)
EXTENDS Rewards

CONSTANTS p1, p2, a1, a2, b1, s1

TwoRequests == {p1, p2}
TwoActivities == {a1, a2}
CountAndStreak == {b1, s1}
TheStreak == {s1}
Two == [b \in CountAndStreak |-> 2]
OneXp == [a \in TwoActivities |-> 1]
BothPay == [b \in CountAndStreak |-> 1]
ThreeRanks == <<0, 1, 4>>
Symmetry == Permutations({p1, p2}) \cup Permutations({a1, a2})
=============================================================================
