----------------------------- MODULE PracticeMC -----------------------------
(* Instances of Practice for TLC. *)
EXTENDS Practice

CONSTANTS p1, p2, s1, s2

TwoRequests == {p1, p2}
TwoScenarios == {s1, s2}
\* Lessons and quizzes, challenges, and the mission with what it asks for.
EachPart ==
  {[of |-> {"quiz", "half", "finish", "repair", "editor"}, requests |-> 4],
   [of |-> {"challenge", "repair", "editor"}, requests |-> 4],
   [of |-> {"join", "baseline", "scenario", "growth"}, requests |-> 4],
   [of |-> {"join", "baseline", "followup", "scenario", "challenge", "finish"},
    requests |-> 7]}
Symmetry == Permutations({p1, p2}) \cup Permutations({s1, s2})
=============================================================================
