---------------------------- MODULE SubmissionMC ----------------------------
(* Values of the constants of Submission for TLC. *)
EXTENDS Submission, TLC

CONSTANTS a1, r1, r2, r3, s1, s2, c1, c2, k1, k2

OneAsset == {a1}
ThreeResources == {r1, r2, r3}
TwoSubmitters == {s1, s2}
TwoCalls == {c1, c2}
TwoTypes == {"AVATAR", "VERIFICATION"}
TwoKeys == {k1, k2}
Symmetry == Permutations(TwoSubmitters) \cup Permutations(TwoCalls) \cup
            Permutations(TwoKeys)

\* A bound: the last submission meets the upload calls under way, and no later ones.
MCNext ==
  /\ Next
  /\ submissions = MaxSubmissions =>
       \A c \in Calls : CallAt(c, "idle") => call'[c].at = "idle"

MCSpec == Init /\ [][MCNext]_vars
=============================================================================
