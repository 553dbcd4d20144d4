---------------------------- MODULE PracticeProofs ---------------------------
(***************************************************************************)
(* Proofs about what a user practises: for any number of requests, any     *)
(* scenarios, limits and workloads, any changes by editors and any crashes.*)
(***************************************************************************)
EXTENDS Practice, FiniteSetTheorems, SequenceTheorems, TLAPS

-----------------------------------------------------------------------------
(* The scripts.                                                            *)

Nothing == <<>>
\* What is left to do, by what the request is for: before a test's attempt is stored...
Quiz3 == << <<"findQuiz", "quiz">>, <<"count", "quiz">>, <<"submitQuiz", "quiz">> >>
Quiz2 == << <<"count", "quiz">>, <<"submitQuiz", "quiz">> >>
Quiz1 == << <<"submitQuiz", "quiz">> >>
Challenge4 == << <<"refresh", "challenge">>, <<"findChallenge", "challenge">>,
                 <<"count", "challenge">>, <<"submitChallenge", "challenge">> >>
Challenge3 == << <<"findChallenge", "challenge">>, <<"count", "challenge">>,
                 <<"submitChallenge", "challenge">> >>
Challenge2 == << <<"count", "challenge">>, <<"submitChallenge", "challenge">> >>
Challenge1 == << <<"submitChallenge", "challenge">> >>
Baseline3 == << <<"load", "baseline">>, <<"count", "baseline">>, <<"submitAssessment", "baseline">> >>
Followup4 == << <<"load", "followup">>, <<"ready", "followup">>, <<"count", "followup">>,
                <<"submitAssessment", "followup">> >>
Followup3 == << <<"ready", "followup">>, <<"count", "followup">>,
                <<"submitAssessment", "followup">> >>
Assess2(t) == << <<"count", t>>, <<"submitAssessment", t>> >>
Assess1(t) == << <<"submitAssessment", t>> >>

\* ... and after it.
QuizPassed5 == << <<"award", "quiz">>, <<"lesson", "quiz">>, <<"read", "quiz">>,
                  <<"write", 100>>, <<"mark", "quiz">> >>
QuizPassed4 == << <<"lesson", "quiz">>, <<"read", "quiz">>, <<"write", 100>>, <<"mark", "quiz">> >>
QuizPassed3 == << <<"read", "quiz">>, <<"write", 100>>, <<"mark", "quiz">> >>
QuizPassed2 == << <<"write", 100>>, <<"mark", "quiz">> >>
QuizLearned == << <<"award", "lesson">>, <<"mark", "quiz">> >>
QuizPassed1 == << <<"mark", "quiz">> >>
ChallengePassed2 == << <<"award", "challenge">>, <<"mark", "challenge">> >>
ChallengePassed1 == << <<"mark", "challenge">> >>
Baseline5 == << <<"score", "baseline">>, <<"record", "baseline">>, <<"rows", "baseline">>,
                <<"rebuild", "baseline">> >>
Baseline6 == << <<"record", "baseline">>, <<"rows", "baseline">>, <<"rebuild", "baseline">> >>
Baseline7 == << <<"rows", "baseline">>, <<"rebuild", "baseline">> >>
Baseline8 == << <<"rebuild", "baseline">> >>
Followup5 == << <<"score", "followup">>, <<"record", "followup">>, <<"rows", "followup">>,
                <<"rebuild", "followup">>, <<"award", "mission">> >>
Followup6 == << <<"record", "followup">>, <<"rows", "followup">>, <<"rebuild", "followup">>,
                <<"award", "mission">> >>
Followup7 == << <<"rows", "followup">>, <<"rebuild", "followup">>, <<"award", "mission">> >>
Followup8 == << <<"rebuild", "followup">>, <<"award", "mission">> >>
Followup9 == << <<"award", "mission">> >>

Lesson3(op) == << <<"lesson", op>>, <<"read", op>>, <<"write", IF op = "half" THEN 50 ELSE 100>> >>
Lesson2(op) == << <<"read", op>>, <<"write", IF op = "half" THEN 50 ELSE 100>> >>
Lesson1(op) == << <<"write", IF op = "half" THEN 50 ELSE 100>> >>
Learned == << <<"award", "lesson">> >>
Growth2 == << <<"rows", "growth">>, <<"rebuild", "growth">> >>
Growth1 == << <<"rebuild", "growth">> >>
Scenario2 == << <<"load", "scenario">>, <<"respond", "scenario">> >>
Scenario1 == << <<"respond", "scenario">> >>
Join1 == << <<"enter", "join">> >>
Repair1 == << <<"reconcile", "repair">> >>
Publish2(x) == << <<"check", x>>, <<"publish", x>> >>
Publish1(x) == << <<"publish", x>> >>
Archive2(x) == << <<"archive", x>>, <<"audit", x>> >>
Archive1(x) == << <<"audit", x>> >>
Write2 == << <<"createLesson", "lesson2">>, <<"attach", "lesson2">> >>
Write1 == << <<"attach", "lesson2">> >>

Left(op) ==
  {<<>>} \cup
  CASE op = "idle"      -> {}
    [] op = "quiz"      -> {Quiz3, Quiz2, Quiz1, QuizPassed5, QuizPassed4, QuizPassed3, QuizPassed2,
                            QuizLearned, QuizPassed1}
    [] op = "challenge" -> {Challenge4, Challenge3, Challenge2, Challenge1, ChallengePassed2,
                            ChallengePassed1}
    [] op = "baseline"  -> {Baseline3, Assess2(op), Assess1(op), Baseline5, Baseline6, Baseline7,
                            Baseline8}
    [] op = "followup"  -> {Followup4, Followup3, Assess2(op), Assess1(op), Followup5, Followup6,
                            Followup7, Followup8, Followup9}
    [] op \in {"half", "finish"} -> {Lesson3(op), Lesson2(op), Lesson1(op), Learned}
    [] op = "scenario"  -> {Scenario2, Scenario1}
    [] op = "growth"    -> {Growth2, Growth1}
    [] op = "join"      -> {Join1}
    [] op = "repair"    -> {Repair1}
    [] op = "editor"    ->
         {Write2, Write1}
           \cup UNION {{Publish2(x), Publish1(x), Archive2(x), Archive1(x)} : x \in Content}

\* What a request still awards, and the attempt it still marks or stores.
AwardsAt(op, s, r) ==
  \/ r = "quiz" /\ op = "quiz" /\ s = QuizPassed5
  \/ r = "challenge" /\ op = "challenge" /\ s = ChallengePassed2
  \/ r = "lesson" /\ op = "quiz" /\ s = QuizLearned
  \/ r = "lesson" /\ op \in {"half", "finish"} /\ s = Learned
  \/ r = "mission" /\ op = "followup" /\
       s \in {Followup5, Followup6, Followup7, Followup8, Followup9}
MarksAt(op, s, t) ==
  \/ t = "quiz" /\ op = t /\ s \in {QuizPassed5, QuizPassed4, QuizPassed3, QuizPassed2, QuizLearned,
                                  QuizPassed1}
  \/ t = "challenge" /\ op = t /\ s \in {ChallengePassed2, ChallengePassed1}
SubmitsAt(op, s, t) ==
  \/ t = "quiz" /\ op = t /\ s = Quiz1
  \/ t = "challenge" /\ op = t /\ s = Challenge1
  \/ t \in Assessments /\ op = t /\ s = Assess1(t)
Awards(f, r) == AwardsAt(f.op, f.todo, r)
Marks(f, t) == MarksAt(f.op, f.todo, t)
Submits(f, t) == SubmitsAt(f.op, f.todo, t)

-----------------------------------------------------------------------------
(* The invariant.                                                          *)

Rewarded == {"quiz", "challenge"}
Attempt == [passed : BOOLEAN, reward : {"none", "pending", "awarded", "already"}]
Member == [status : {"none", "joined", "progressing", "completed"}, scores : SUBSET Assessments,
           done : SUBSET Scenarios, version : Nat]
Fields == {"op", "todo", "limit", "number", "seen", "copy", "was", "rows", "new", "owed"}

FrameHolds(f) ==
  /\ DOMAIN f = Fields
  /\ f.op \in Operations \cup {"idle"}
  /\ f.todo \in Left(f.op)
  /\ f.limit \in 0..MaxAttempts /\ f.number \in 0..MaxAttempts
  /\ f.seen \in {0, 50, 100} /\ f.copy \in Member /\ f.new \in BOOLEAN
  /\ f.new => f.todo = Nothing \/ Marks(f, f.op)

StoresHold ==
  /\ workload \in Workloads
  /\ attempts \in [Tests -> Seq(Attempt)]
  /\ limit \in [Tests -> 1..MaxAttempts]
  /\ progress \in {0, 50, 100}
  /\ member \in Member
  /\ uncertain \in BOOLEAN /\ withdrawn \in BOOLEAN /\ overlapped \in BOOLEAN /\ reopened \in BOOLEAN
  /\ earned \subseteq Resources

\* Attempts are numbered without gaps up to the limit.
NumbersHold ==
  /\ \A t \in Tests : Len(attempts[t]) <= MaxAttempts
  /\ \A p \in Processes, t \in Tests :
       Submits(frame[p], t) => frame[p].number <= Len(attempts[t]) + 1

\* An attempt that passed is pending until the one request that stored it marks it.
MarksHold(t) ==
  /\ \A p \in Processes : Marks(frame[p], t) =>
       /\ frame[p].number \in DOMAIN attempts[t]
       /\ attempts[t][frame[p].number].reward = "pending"
       /\ Awards(frame[p], t) \/ t \in ledger
       /\ frame[p].new =>
            /\ t \in ledger
            /\ \A i \in DOMAIN attempts[t] : attempts[t][i].reward # "awarded"
  /\ \A p, q \in Processes : Marks(frame[p], t) /\ Marks(frame[q], t) /\ p # q =>
       /\ frame[p].number # frame[q].number
       /\ ~(frame[p].new /\ frame[q].new)
  /\ \A i \in DOMAIN attempts[t] :
       /\ attempts[t][i].reward \in {"awarded", "already"} => t \in ledger
       /\ attempts[t][i].reward = "pending" =>
            \/ uncertain \/ withdrawn
            \/ \E p \in Processes : Marks(frame[p], t) /\ frame[p].number = i
  /\ \A i, j \in DOMAIN attempts[t] :
       attempts[t][i].reward = "awarded" /\ attempts[t][j].reward = "awarded" => i = j

\* What was completed is booked, or a request is on its way to do so, or one died; and the
\* stores show it, but for what is written over.
EarningsHold ==
  /\ \A r \in earned : r \in ledger \/ uncertain \/ \E p \in Processes : Awards(frame[p], r)
  /\ \A t \in Rewarded : t \in earned => Passed(t)
  /\ "lesson" \in earned => progress = 100 \/ overlapped
  /\ "mission" \in earned => member.status = "completed" \/ reopened
  /\ progress = 100 => "lesson" \in earned
  /\ member.status = "completed" => "mission" \in earned
  /\ \A p \in Processes : frame[p].seen = 100 => "lesson" \in earned

\* A copy of the participant that has the stored version has the finished scenarios stored.
CopyHolds(f) ==
  /\ f.copy.version <= member.version
  /\ f.copy.version = member.version => f.copy.done = member.done
CopiesHold ==
  /\ member.version = 0 => member.done = {}
  /\ \A p \in Processes : CopyHolds(frame[p])

GrowthHolds(f) ==
  f.op = "growth" => f.owed \subseteq evidence /\ (f.todo # Growth2 => f.owed \subseteq f.rows)

PracticeInv ==
  /\ StoresHold
  /\ DOMAIN frame = Processes
  /\ \A p \in Processes : FrameHolds(frame[p]) /\ GrowthHolds(frame[p])
  /\ NumbersHold
  /\ \A t \in Rewarded : MarksHold(t)
  /\ EarningsHold /\ CopiesHold

-----------------------------------------------------------------------------
(* Scripts, call by call.                                                  *)

\* The script s calls this, about this, and then has this left.
CallOf(s) == Head(s)[1]
ArgOf(s) == Head(s)[2]
Rest(s) == <<>> \o Tail(s)
Goes(s, c, a, r) == s # Nothing /\ CallOf(s) = c /\ ArgOf(s) = a /\ Rest(s) = r

LEMMA QuizCalls ==
  /\ Goes(Quiz3, "findQuiz", "quiz", Quiz2)
  /\ Goes(Quiz2, "count", "quiz", Quiz1)
  /\ Goes(Quiz1, "submitQuiz", "quiz", Nothing)
  /\ Goes(QuizPassed5, "award", "quiz", QuizPassed4)
  /\ Goes(QuizPassed4, "lesson", "quiz", QuizPassed3)
  /\ Goes(QuizPassed3, "read", "quiz", QuizPassed2)
  /\ Goes(QuizPassed2, "write", 100, QuizPassed1)
  /\ Goes(QuizLearned, "award", "lesson", QuizPassed1)
  /\ Goes(QuizPassed1, "mark", "quiz", Nothing)
<1>1. Goes(Quiz3, "findQuiz", "quiz", Quiz2)
  <2>1. Len(Quiz3) > 0
    BY DEF Quiz3
  <2> QED
    BY <2>1 DEF Goes, CallOf, ArgOf, Rest, Nothing, Quiz3, Quiz2
<1>2. Goes(Quiz2, "count", "quiz", Quiz1)
  <2>1. Len(Quiz2) > 0
    BY DEF Quiz2
  <2> QED
    BY <2>1 DEF Goes, CallOf, ArgOf, Rest, Nothing, Quiz2, Quiz1
<1>3. Goes(Quiz1, "submitQuiz", "quiz", Nothing)
  <2>1. Len(Quiz1) > 0
    BY DEF Quiz1
  <2> QED
    BY <2>1 DEF Goes, CallOf, ArgOf, Rest, Nothing, Quiz1
<1>4. Goes(QuizPassed5, "award", "quiz", QuizPassed4)
  <2>1. Len(QuizPassed5) > 0
    BY DEF QuizPassed5
  <2> QED
    BY <2>1 DEF Goes, CallOf, ArgOf, Rest, Nothing, QuizPassed5, QuizPassed4
<1>5. Goes(QuizPassed4, "lesson", "quiz", QuizPassed3)
  <2>1. Len(QuizPassed4) > 0
    BY DEF QuizPassed4
  <2> QED
    BY <2>1 DEF Goes, CallOf, ArgOf, Rest, Nothing, QuizPassed4, QuizPassed3
<1>6. Goes(QuizPassed3, "read", "quiz", QuizPassed2)
  <2>1. Len(QuizPassed3) > 0
    BY DEF QuizPassed3
  <2> QED
    BY <2>1 DEF Goes, CallOf, ArgOf, Rest, Nothing, QuizPassed3, QuizPassed2
<1>7. Goes(QuizPassed2, "write", 100, QuizPassed1)
  <2>1. Len(QuizPassed2) > 0
    BY DEF QuizPassed2
  <2> QED
    BY <2>1 DEF Goes, CallOf, ArgOf, Rest, Nothing, QuizPassed2, QuizPassed1
<1>8. Goes(QuizLearned, "award", "lesson", QuizPassed1)
  <2>1. Len(QuizLearned) > 0
    BY DEF QuizLearned
  <2> QED
    BY <2>1 DEF Goes, CallOf, ArgOf, Rest, Nothing, QuizLearned, QuizPassed1
<1>9. Goes(QuizPassed1, "mark", "quiz", Nothing)
  <2>1. Len(QuizPassed1) > 0
    BY DEF QuizPassed1
  <2> QED
    BY <2>1 DEF Goes, CallOf, ArgOf, Rest, Nothing, QuizPassed1
<1> QED
  BY <1>1, <1>2, <1>3, <1>4, <1>5, <1>6, <1>7, <1>8, <1>9

LEMMA ChallengeCalls ==
  /\ Goes(Challenge4, "refresh", "challenge", Challenge3)
  /\ Goes(Challenge3, "findChallenge", "challenge", Challenge2)
  /\ Goes(Challenge2, "count", "challenge", Challenge1)
  /\ Goes(Challenge1, "submitChallenge", "challenge", Nothing)
  /\ Goes(ChallengePassed2, "award", "challenge", ChallengePassed1)
  /\ Goes(ChallengePassed1, "mark", "challenge", Nothing)
<1>1. Goes(Challenge4, "refresh", "challenge", Challenge3)
  <2>1. Len(Challenge4) > 0
    BY DEF Challenge4
  <2> QED
    BY <2>1 DEF Goes, CallOf, ArgOf, Rest, Nothing, Challenge4, Challenge3
<1>2. Goes(Challenge3, "findChallenge", "challenge", Challenge2)
  <2>1. Len(Challenge3) > 0
    BY DEF Challenge3
  <2> QED
    BY <2>1 DEF Goes, CallOf, ArgOf, Rest, Nothing, Challenge3, Challenge2
<1>3. Goes(Challenge2, "count", "challenge", Challenge1)
  <2>1. Len(Challenge2) > 0
    BY DEF Challenge2
  <2> QED
    BY <2>1 DEF Goes, CallOf, ArgOf, Rest, Nothing, Challenge2, Challenge1
<1>4. Goes(Challenge1, "submitChallenge", "challenge", Nothing)
  <2>1. Len(Challenge1) > 0
    BY DEF Challenge1
  <2> QED
    BY <2>1 DEF Goes, CallOf, ArgOf, Rest, Nothing, Challenge1
<1>5. Goes(ChallengePassed2, "award", "challenge", ChallengePassed1)
  <2>1. Len(ChallengePassed2) > 0
    BY DEF ChallengePassed2
  <2> QED
    BY <2>1 DEF Goes, CallOf, ArgOf, Rest, Nothing, ChallengePassed2, ChallengePassed1
<1>6. Goes(ChallengePassed1, "mark", "challenge", Nothing)
  <2>1. Len(ChallengePassed1) > 0
    BY DEF ChallengePassed1
  <2> QED
    BY <2>1 DEF Goes, CallOf, ArgOf, Rest, Nothing, ChallengePassed1
<1> QED
  BY <1>1, <1>2, <1>3, <1>4, <1>5, <1>6

LEMMA AssessmentCalls ==
  ASSUME NEW t
  PROVE  /\ Goes(Assess2(t), "count", t, Assess1(t))
         /\ Goes(Assess1(t), "submitAssessment", t, Nothing)
<1>1. Goes(Assess2(t), "count", t, Assess1(t))
  <2>1. Len(Assess2(t)) > 0
    BY DEF Assess2
  <2> QED
    BY <2>1 DEF Goes, CallOf, ArgOf, Rest, Nothing, Assess2, Assess1
<1>2. Goes(Assess1(t), "submitAssessment", t, Nothing)
  <2>1. Len(Assess1(t)) > 0
    BY DEF Assess1
  <2> QED
    BY <2>1 DEF Goes, CallOf, ArgOf, Rest, Nothing, Assess1
<1> QED
  BY <1>1, <1>2

LEMMA BaselineCalls ==
  /\ Goes(Baseline3, "load", "baseline", Assess2("baseline"))
  /\ Goes(Baseline5, "score", "baseline", Baseline6)
  /\ Goes(Baseline6, "record", "baseline", Baseline7)
  /\ Goes(Baseline7, "rows", "baseline", Baseline8)
  /\ Goes(Baseline8, "rebuild", "baseline", Nothing)
<1>1. Goes(Baseline3, "load", "baseline", Assess2("baseline"))
  <2>1. Len(Baseline3) > 0
    BY DEF Baseline3
  <2> QED
    BY <2>1 DEF Goes, CallOf, ArgOf, Rest, Nothing, Baseline3, Assess2
<1>2. Goes(Baseline5, "score", "baseline", Baseline6)
  <2>1. Len(Baseline5) > 0
    BY DEF Baseline5
  <2> QED
    BY <2>1 DEF Goes, CallOf, ArgOf, Rest, Nothing, Baseline5, Baseline6
<1>3. Goes(Baseline6, "record", "baseline", Baseline7)
  <2>1. Len(Baseline6) > 0
    BY DEF Baseline6
  <2> QED
    BY <2>1 DEF Goes, CallOf, ArgOf, Rest, Nothing, Baseline6, Baseline7
<1>4. Goes(Baseline7, "rows", "baseline", Baseline8)
  <2>1. Len(Baseline7) > 0
    BY DEF Baseline7
  <2> QED
    BY <2>1 DEF Goes, CallOf, ArgOf, Rest, Nothing, Baseline7, Baseline8
<1>5. Goes(Baseline8, "rebuild", "baseline", Nothing)
  <2>1. Len(Baseline8) > 0
    BY DEF Baseline8
  <2> QED
    BY <2>1 DEF Goes, CallOf, ArgOf, Rest, Nothing, Baseline8
<1> QED
  BY <1>1, <1>2, <1>3, <1>4, <1>5

LEMMA FollowupCalls ==
  /\ Goes(Followup4, "load", "followup", Followup3)
  /\ Goes(Followup3, "ready", "followup", Assess2("followup"))
  /\ Goes(Followup5, "score", "followup", Followup6)
  /\ Goes(Followup6, "record", "followup", Followup7)
  /\ Goes(Followup7, "rows", "followup", Followup8)
  /\ Goes(Followup8, "rebuild", "followup", Followup9)
  /\ Goes(Followup9, "award", "mission", Nothing)
<1>1. Goes(Followup4, "load", "followup", Followup3)
  <2>1. Len(Followup4) > 0
    BY DEF Followup4
  <2> QED
    BY <2>1 DEF Goes, CallOf, ArgOf, Rest, Nothing, Followup4, Followup3
<1>2. Goes(Followup3, "ready", "followup", Assess2("followup"))
  <2>1. Len(Followup3) > 0
    BY DEF Followup3
  <2> QED
    BY <2>1 DEF Goes, CallOf, ArgOf, Rest, Nothing, Followup3, Assess2
<1>3. Goes(Followup5, "score", "followup", Followup6)
  <2>1. Len(Followup5) > 0
    BY DEF Followup5
  <2> QED
    BY <2>1 DEF Goes, CallOf, ArgOf, Rest, Nothing, Followup5, Followup6
<1>4. Goes(Followup6, "record", "followup", Followup7)
  <2>1. Len(Followup6) > 0
    BY DEF Followup6
  <2> QED
    BY <2>1 DEF Goes, CallOf, ArgOf, Rest, Nothing, Followup6, Followup7
<1>5. Goes(Followup7, "rows", "followup", Followup8)
  <2>1. Len(Followup7) > 0
    BY DEF Followup7
  <2> QED
    BY <2>1 DEF Goes, CallOf, ArgOf, Rest, Nothing, Followup7, Followup8
<1>6. Goes(Followup8, "rebuild", "followup", Followup9)
  <2>1. Len(Followup8) > 0
    BY DEF Followup8
  <2> QED
    BY <2>1 DEF Goes, CallOf, ArgOf, Rest, Nothing, Followup8, Followup9
<1>7. Goes(Followup9, "award", "mission", Nothing)
  <2>1. Len(Followup9) > 0
    BY DEF Followup9
  <2> QED
    BY <2>1 DEF Goes, CallOf, ArgOf, Rest, Nothing, Followup9
<1> QED
  BY <1>1, <1>2, <1>3, <1>4, <1>5, <1>6, <1>7

LEMMA LessonCalls ==
  ASSUME NEW op
  PROVE  /\ Goes(Lesson3(op), "lesson", op, Lesson2(op))
         /\ Goes(Lesson2(op), "read", op, Lesson1(op))
         /\ Goes(Lesson1(op), "write", IF op = "half" THEN 50 ELSE 100, Nothing)
         /\ Goes(Learned, "award", "lesson", Nothing)
<1>1. Goes(Lesson3(op), "lesson", op, Lesson2(op))
  <2>1. Len(Lesson3(op)) > 0
    BY DEF Lesson3
  <2> QED
    BY <2>1 DEF Goes, CallOf, ArgOf, Rest, Nothing, Lesson3, Lesson2
<1>2. Goes(Lesson2(op), "read", op, Lesson1(op))
  <2>1. Len(Lesson2(op)) > 0
    BY DEF Lesson2
  <2> QED
    BY <2>1 DEF Goes, CallOf, ArgOf, Rest, Nothing, Lesson2, Lesson1
<1>3. Goes(Lesson1(op), "write", IF op = "half" THEN 50 ELSE 100, Nothing)
  <2>1. Len(Lesson1(op)) > 0
    BY DEF Lesson1
  <2> QED
    BY <2>1 DEF Goes, CallOf, ArgOf, Rest, Nothing, Lesson1
<1>4. Goes(Learned, "award", "lesson", Nothing)
  <2>1. Len(Learned) > 0
    BY DEF Learned
  <2> QED
    BY <2>1 DEF Goes, CallOf, ArgOf, Rest, Nothing, Learned
<1> QED
  BY <1>1, <1>2, <1>3, <1>4

LEMMA OtherCalls ==
  /\ Goes(Growth2, "rows", "growth", Growth1)
  /\ Goes(Growth1, "rebuild", "growth", Nothing)
  /\ Goes(Scenario2, "load", "scenario", Scenario1)
  /\ Goes(Scenario1, "respond", "scenario", Nothing)
  /\ Goes(Join1, "enter", "join", Nothing)
  /\ Goes(Repair1, "reconcile", "repair", Nothing)
<1>1. Goes(Growth2, "rows", "growth", Growth1)
  <2>1. Len(Growth2) > 0
    BY DEF Growth2
  <2> QED
    BY <2>1 DEF Goes, CallOf, ArgOf, Rest, Nothing, Growth2, Growth1
<1>2. Goes(Growth1, "rebuild", "growth", Nothing)
  <2>1. Len(Growth1) > 0
    BY DEF Growth1
  <2> QED
    BY <2>1 DEF Goes, CallOf, ArgOf, Rest, Nothing, Growth1
<1>3. Goes(Scenario2, "load", "scenario", Scenario1)
  <2>1. Len(Scenario2) > 0
    BY DEF Scenario2
  <2> QED
    BY <2>1 DEF Goes, CallOf, ArgOf, Rest, Nothing, Scenario2, Scenario1
<1>4. Goes(Scenario1, "respond", "scenario", Nothing)
  <2>1. Len(Scenario1) > 0
    BY DEF Scenario1
  <2> QED
    BY <2>1 DEF Goes, CallOf, ArgOf, Rest, Nothing, Scenario1
<1>5. Goes(Join1, "enter", "join", Nothing)
  <2>1. Len(Join1) > 0
    BY DEF Join1
  <2> QED
    BY <2>1 DEF Goes, CallOf, ArgOf, Rest, Nothing, Join1
<1>6. Goes(Repair1, "reconcile", "repair", Nothing)
  <2>1. Len(Repair1) > 0
    BY DEF Repair1
  <2> QED
    BY <2>1 DEF Goes, CallOf, ArgOf, Rest, Nothing, Repair1
<1> QED
  BY <1>1, <1>2, <1>3, <1>4, <1>5, <1>6

LEMMA EditorCalls ==
  ASSUME NEW x
  PROVE  /\ Goes(Publish2(x), "check", x, Publish1(x))
         /\ Goes(Publish1(x), "publish", x, Nothing)
         /\ Goes(Archive2(x), "archive", x, Archive1(x))
         /\ Goes(Archive1(x), "audit", x, Nothing)
         /\ Goes(Write2, "createLesson", "lesson2", Write1)
         /\ Goes(Write1, "attach", "lesson2", Nothing)
<1>1. Goes(Publish2(x), "check", x, Publish1(x))
  <2>1. Len(Publish2(x)) > 0
    BY DEF Publish2
  <2> QED
    BY <2>1 DEF Goes, CallOf, ArgOf, Rest, Nothing, Publish2, Publish1
<1>2. Goes(Publish1(x), "publish", x, Nothing)
  <2>1. Len(Publish1(x)) > 0
    BY DEF Publish1
  <2> QED
    BY <2>1 DEF Goes, CallOf, ArgOf, Rest, Nothing, Publish1
<1>3. Goes(Archive2(x), "archive", x, Archive1(x))
  <2>1. Len(Archive2(x)) > 0
    BY DEF Archive2
  <2> QED
    BY <2>1 DEF Goes, CallOf, ArgOf, Rest, Nothing, Archive2, Archive1
<1>4. Goes(Archive1(x), "audit", x, Nothing)
  <2>1. Len(Archive1(x)) > 0
    BY DEF Archive1
  <2> QED
    BY <2>1 DEF Goes, CallOf, ArgOf, Rest, Nothing, Archive1
<1>5. Goes(Write2, "createLesson", "lesson2", Write1)
  <2>1. Len(Write2) > 0
    BY DEF Write2
  <2> QED
    BY <2>1 DEF Goes, CallOf, ArgOf, Rest, Nothing, Write2, Write1
<1>6. Goes(Write1, "attach", "lesson2", Nothing)
  <2>1. Len(Write1) > 0
    BY DEF Write1
  <2> QED
    BY <2>1 DEF Goes, CallOf, ArgOf, Rest, Nothing, Write1
<1> QED
  BY <1>1, <1>2, <1>3, <1>4, <1>5, <1>6

\* What a request knows of its script from the call it makes.
Onward(op, s) ==
  /\ Rest(s) \in Left(op)
  /\ \A t : CallOf(s) # "mark" => (MarksAt(op, Rest(s), t) <=> MarksAt(op, s, t))
  /\ \A t : MarksAt(op, s, t) => CallOf(s) \in {"award", "lesson", "read", "write", "mark"}
  /\ \A r : AwardsAt(op, s, r) =>
       /\ CallOf(s) \in {"award", "score", "record", "rows", "rebuild"}
       /\ AwardsAt(op, Rest(s), r) \/ (CallOf(s) = "award" /\ ArgOf(s) = r)
  /\ \A t : SubmitsAt(op, Rest(s), t) => CallOf(s) = "count" /\ ArgOf(s) = t
  /\ Rest(s) # Growth2
  /\ op = "growth" => s \in {Growth2, Growth1}
Calls(op, s) ==
  LET call == CallOf(s)  arg == ArgOf(s) IN
  /\ call = "count" => op \in Tests /\ arg = op
  /\ call = "submitQuiz" => op = "quiz" /\ s = Quiz1
  /\ call = "submitChallenge" => op = "challenge" /\ s = Challenge1
  /\ call = "submitAssessment" => op \in Assessments /\ arg = op /\ s = Assess1(op)
  /\ call = "award" => arg \in Resources /\ 
       (arg \in Tests => arg \in Rewarded /\ op = arg /\ MarksAt(op, s, arg))
  /\ call = "mark" => op \in Rewarded /\ arg = op /\ MarksAt(op, s, op) /\ Rest(s) = Nothing
  /\ call = "write" =>
       \/ op = "quiz" /\ s = QuizPassed2 /\ arg = 100
       \/ op \in {"half", "finish"} /\ s = Lesson1(op) /\ arg \in {50, 100}
  /\ call = "score" =>
       \/ op = "baseline" /\ s = Baseline5 /\ arg = "baseline"
       \/ op = "followup" /\ s = Followup5 /\ arg = "followup"
  /\ call = "rows" /\ op = "growth" => s = Growth2
  /\ call = "rebuild" /\ op = "growth" => s = Growth1
  /\ s = Growth2 => call = "rows"

LEMMA LeftOf ==
  /\ Left("idle") = {Nothing}
  /\ Left("quiz") = {Nothing, Quiz3, Quiz2, Quiz1, QuizPassed5, QuizPassed4, QuizPassed3, QuizPassed2,
                     QuizLearned, QuizPassed1}
  /\ Left("challenge") = {Nothing, Challenge4, Challenge3, Challenge2, Challenge1, ChallengePassed2,
                          ChallengePassed1}
  /\ Left("baseline") = {Nothing, Baseline3, Assess2("baseline"), Assess1("baseline"), Baseline5,
                         Baseline6, Baseline7, Baseline8}
  /\ Left("followup") = {Nothing, Followup4, Followup3, Assess2("followup"), Assess1("followup"),
                         Followup5, Followup6, Followup7, Followup8, Followup9}
  /\ Left("half") = {Nothing, Lesson3("half"), Lesson2("half"), Lesson1("half"), Learned}
  /\ Left("finish") = {Nothing, Lesson3("finish"), Lesson2("finish"), Lesson1("finish"), Learned}
  /\ Left("scenario") = {Nothing, Scenario2, Scenario1}
  /\ Left("growth") = {Nothing, Growth2, Growth1}
  /\ Left("join") = {Nothing, Join1}
  /\ Left("repair") = {Nothing, Repair1}
  /\ Left("editor") = {Nothing, Write2, Write1}
       \cup UNION {{Publish2(x), Publish1(x), Archive2(x), Archive1(x)} : x \in Content}
  BY DEF Left, Nothing

LEMMA QuizScripts ==
  ASSUME NEW s \in Left("quiz"), s # Nothing
  PROVE  Onward("quiz", s) /\ Calls("quiz", s)
<1>1. s \in {Quiz3, Quiz2, Quiz1, QuizPassed5, QuizPassed4, QuizPassed3, QuizPassed2, QuizLearned,
             QuizPassed1}
  BY LeftOf
<1>2. Rest(s) \in Left("quiz")
  BY <1>1, QuizCalls, LeftOf DEF Goes
<1>3. Rest(s) # Growth2
  BY <1>1, QuizCalls, OtherCalls DEF Goes
<1>4. Onward("quiz", s)
  BY <1>1, <1>2, <1>3, QuizCalls DEF Onward, Goes, MarksAt, AwardsAt, SubmitsAt, Assessments
<1>5. Calls("quiz", s)
  BY <1>1, QuizCalls, OtherCalls DEF Calls, Goes, Tests, Assessments, Rewarded, Resources, MarksAt
<1> QED
  BY <1>4, <1>5

LEMMA ChallengeScripts ==
  ASSUME NEW s \in Left("challenge"), s # Nothing
  PROVE  Onward("challenge", s) /\ Calls("challenge", s)
<1>1. s \in {Challenge4, Challenge3, Challenge2, Challenge1, ChallengePassed2, ChallengePassed1}
  BY LeftOf
<1>2. Rest(s) \in Left("challenge")
  BY <1>1, ChallengeCalls, LeftOf DEF Goes
<1>3. Rest(s) # Growth2
  BY <1>1, ChallengeCalls, OtherCalls DEF Goes
<1>4. Onward("challenge", s)
  BY <1>1, <1>2, <1>3, ChallengeCalls DEF Onward, Goes, MarksAt, AwardsAt, SubmitsAt, Assessments
<1>5. Calls("challenge", s)
  BY <1>1, ChallengeCalls, OtherCalls DEF Calls, Goes, Tests, Assessments, Rewarded, Resources, MarksAt
<1> QED
  BY <1>4, <1>5

LEMMA BaselineScripts ==
  ASSUME NEW s \in Left("baseline"), s # Nothing
  PROVE  Onward("baseline", s) /\ Calls("baseline", s)
<1>1. s \in {Baseline3, Assess2("baseline"), Assess1("baseline"), Baseline5, Baseline6, Baseline7,
             Baseline8}
  BY LeftOf
<1>2. Rest(s) \in Left("baseline")
  BY <1>1, BaselineCalls, AssessmentCalls, LeftOf DEF Goes
<1>3. Rest(s) # Growth2
  BY <1>1, BaselineCalls, AssessmentCalls, OtherCalls DEF Goes
<1>4. Onward("baseline", s)
  BY <1>1, <1>2, <1>3, BaselineCalls, AssessmentCalls
     DEF Onward, Goes, MarksAt, AwardsAt, SubmitsAt, Assessments
<1>5. Calls("baseline", s)
  BY <1>1, BaselineCalls, AssessmentCalls, OtherCalls
     DEF Calls, Goes, Tests, Assessments, Rewarded, Resources, MarksAt
<1> QED
  BY <1>4, <1>5

LEMMA FollowupScripts ==
  ASSUME NEW s \in Left("followup"), s # Nothing
  PROVE  Onward("followup", s) /\ Calls("followup", s)
<1>1. s \in {Followup4, Followup3, Assess2("followup"), Assess1("followup"), Followup5, Followup6,
             Followup7, Followup8, Followup9}
  BY LeftOf
<1>2. Rest(s) \in Left("followup")
  BY <1>1, FollowupCalls, AssessmentCalls, LeftOf DEF Goes
<1>3. Rest(s) # Growth2
  BY <1>1, FollowupCalls, AssessmentCalls, OtherCalls DEF Goes
<1>4. Onward("followup", s)
  BY <1>1, <1>2, <1>3, FollowupCalls, AssessmentCalls
     DEF Onward, Goes, MarksAt, AwardsAt, SubmitsAt, Assessments
<1>5. Calls("followup", s)
  BY <1>1, FollowupCalls, AssessmentCalls, OtherCalls
     DEF Calls, Goes, Tests, Assessments, Rewarded, Resources, MarksAt
<1> QED
  BY <1>4, <1>5

LEMMA HalfScripts ==
  ASSUME NEW s \in Left("half"), s # Nothing
  PROVE  Onward("half", s) /\ Calls("half", s)
<1>1. s \in {Lesson3("half"), Lesson2("half"), Lesson1("half"), Learned}
  BY LeftOf
<1>2. Rest(s) \in Left("half")
  BY <1>1, LessonCalls, LeftOf DEF Goes
<1>3. Rest(s) # Growth2
  BY <1>1, LessonCalls, OtherCalls DEF Goes
<1>4. Onward("half", s)
  BY <1>1, <1>2, <1>3, LessonCalls DEF Onward, Goes, MarksAt, AwardsAt, SubmitsAt, Assessments
<1>5. Calls("half", s)
  BY <1>1, LessonCalls, OtherCalls DEF Calls, Goes, Tests, Assessments, Rewarded, Resources, MarksAt
<1> QED
  BY <1>4, <1>5

LEMMA FinishScripts ==
  ASSUME NEW s \in Left("finish"), s # Nothing
  PROVE  Onward("finish", s) /\ Calls("finish", s)
<1>1. s \in {Lesson3("finish"), Lesson2("finish"), Lesson1("finish"), Learned}
  BY LeftOf
<1>2. Rest(s) \in Left("finish")
  BY <1>1, LessonCalls, LeftOf DEF Goes
<1>3. Rest(s) # Growth2
  BY <1>1, LessonCalls, OtherCalls DEF Goes
<1>4. Onward("finish", s)
  BY <1>1, <1>2, <1>3, LessonCalls DEF Onward, Goes, MarksAt, AwardsAt, SubmitsAt, Assessments
<1>5. Calls("finish", s)
  BY <1>1, LessonCalls, OtherCalls DEF Calls, Goes, Tests, Assessments, Rewarded, Resources, MarksAt
<1> QED
  BY <1>4, <1>5

LEMMA ScenarioScripts ==
  ASSUME NEW s \in Left("scenario"), s # Nothing
  PROVE  Onward("scenario", s) /\ Calls("scenario", s)
<1>1. s \in {Scenario2, Scenario1}
  BY LeftOf
<1>2. Rest(s) \in Left("scenario")
  BY <1>1, OtherCalls, LeftOf DEF Goes
<1>3. Rest(s) # Growth2
  BY <1>1, OtherCalls DEF Goes
<1>4. Onward("scenario", s)
  BY <1>1, <1>2, <1>3, OtherCalls DEF Onward, Goes, MarksAt, AwardsAt, SubmitsAt, Assessments
<1>5. Calls("scenario", s)
  BY <1>1, OtherCalls DEF Calls, Goes, Tests, Assessments, Rewarded, Resources, MarksAt
<1> QED
  BY <1>4, <1>5

LEMMA GrowthScripts ==
  ASSUME NEW s \in Left("growth"), s # Nothing
  PROVE  Onward("growth", s) /\ Calls("growth", s)
<1>1. s \in {Growth2, Growth1}
  BY LeftOf
<1>2. Rest(s) \in Left("growth")
  BY <1>1, OtherCalls, LeftOf DEF Goes
<1>3. Rest(s) # Growth2
  BY <1>1, OtherCalls DEF Goes
<1>4. Onward("growth", s)
  BY <1>1, <1>2, <1>3, OtherCalls DEF Onward, Goes, MarksAt, AwardsAt, SubmitsAt, Assessments
<1>5. Calls("growth", s)
  BY <1>1, OtherCalls DEF Calls, Goes, Tests, Assessments, Rewarded, Resources, MarksAt
<1> QED
  BY <1>4, <1>5

LEMMA JoinScripts ==
  ASSUME NEW s \in Left("join"), s # Nothing
  PROVE  Onward("join", s) /\ Calls("join", s)
<1>1. s \in {Join1}
  BY LeftOf
<1>2. Rest(s) \in Left("join")
  BY <1>1, OtherCalls, LeftOf DEF Goes
<1>3. Rest(s) # Growth2
  BY <1>1, OtherCalls DEF Goes
<1>4. Onward("join", s)
  BY <1>1, <1>2, <1>3, OtherCalls DEF Onward, Goes, MarksAt, AwardsAt, SubmitsAt, Assessments
<1>5. Calls("join", s)
  BY <1>1, OtherCalls DEF Calls, Goes, Tests, Assessments, Rewarded, Resources, MarksAt
<1> QED
  BY <1>4, <1>5

LEMMA RepairScripts ==
  ASSUME NEW s \in Left("repair"), s # Nothing
  PROVE  Onward("repair", s) /\ Calls("repair", s)
<1>1. s \in {Repair1}
  BY LeftOf
<1>2. Rest(s) \in Left("repair")
  BY <1>1, OtherCalls, LeftOf DEF Goes
<1>3. Rest(s) # Growth2
  BY <1>1, OtherCalls DEF Goes
<1>4. Onward("repair", s)
  BY <1>1, <1>2, <1>3, OtherCalls DEF Onward, Goes, MarksAt, AwardsAt, SubmitsAt, Assessments
<1>5. Calls("repair", s)
  BY <1>1, OtherCalls DEF Calls, Goes, Tests, Assessments, Rewarded, Resources, MarksAt
<1> QED
  BY <1>4, <1>5

LEMMA EditorScripts ==
  ASSUME NEW s \in Left("editor"), s # Nothing
  PROVE  Onward("editor", s) /\ Calls("editor", s)
<1>1. PICK x \in Content : s \in {Write2, Write1, Publish2(x), Publish1(x), Archive2(x), Archive1(x)}
  BY LeftOf DEF Content
<1>2. Rest(s) \in {Nothing, Write1, Publish1(x), Archive1(x)}
  BY <1>1, EditorCalls DEF Goes
<1>3. Rest(s) \in Left("editor")
  BY <1>2, LeftOf
<1>4. Rest(s) # Growth2
  BY <1>2, EditorCalls, OtherCalls DEF Goes
<1>5. CallOf(s) \in {"createLesson", "attach", "check", "publish", "archive", "audit"}
  BY <1>1, EditorCalls DEF Goes
<1>6. Onward("editor", s)
  BY <1>3, <1>4, <1>5 DEF Onward, MarksAt, AwardsAt, SubmitsAt, Assessments
<1>7. Calls("editor", s)
  BY <1>5, OtherCalls DEF Calls, Goes
<1> QED
  BY <1>6, <1>7

LEMMA Scripts ==
  ASSUME NEW op \in Operations \cup {"idle"}, NEW s \in Left(op), s # Nothing
  PROVE  Onward(op, s) /\ Calls(op, s)
<1>1. op \in {"quiz", "challenge", "baseline", "followup", "half", "finish", "join", "scenario",
              "growth", "repair", "editor", "idle"}
  BY DEF Operations, Tests
<1>2. op # "idle"
  BY LeftOf
<1> QED
  BY <1>1, <1>2, QuizScripts, ChallengeScripts, BaselineScripts, FollowupScripts, HalfScripts,
     FinishScripts, JoinScripts, ScenarioScripts, GrowthScripts, RepairScripts, EditorScripts

LEMMA Ended ==
  ASSUME NEW op
  PROVE  /\ Nothing \in Left(op)
         /\ \A t : ~MarksAt(op, Nothing, t) /\ ~SubmitsAt(op, Nothing, t)
         /\ \A r : ~AwardsAt(op, Nothing, r)
         /\ Nothing # Growth2
<1>1. Nothing \in Left(op)
  BY DEF Left, Nothing
<1> QED
  BY <1>1, QuizCalls, ChallengeCalls, AssessmentCalls, FollowupCalls, LessonCalls, OtherCalls
     DEF Goes, MarksAt, SubmitsAt, AwardsAt

-----------------------------------------------------------------------------
(* Steps of one request: its frame f becomes g.                            *)

Becomes(p, g) == frame' = [frame EXCEPT ![p] = g]
\* The call returned: what was left after it is left now.
Forward(f, g) ==
  /\ DOMAIN g = Fields /\ g.op = f.op /\ g.todo = Rest(f.todo) /\ g.owed = f.owed
  /\ g.limit \in 0..MaxAttempts /\ g.number \in 0..MaxAttempts
  /\ g.seen \in {0, 50, 100} /\ g.copy \in Member /\ g.new \in BOOLEAN
  /\ g.new => f.new \/ Marks(f, f.op)

KeepsNumber(g) == \A t \in Tests : Submits(g, t) => g.number <= Len(attempts[t]) + 1
KeepsMark(f, g, t) ==
  /\ Marks(g, t) =>
       /\ Marks(f, t) /\ g.number = f.number
       /\ Awards(f, t) => Awards(g, t) \/ t \in ledger'
       /\ g.new => f.new \/ (t \in ledger' /\ t \notin ledger)
  /\ Marks(f, t) => Marks(g, t) \/ uncertain' \/ withdrawn'
KeepsAwards(f, g) == \A r \in Resources : Awards(f, r) => Awards(g, r) \/ r \in ledger' \/ uncertain'

LEMMA IdleHolds ==
  /\ FrameHolds(Idle) /\ Idle.op = "idle" /\ Idle.todo = Nothing /\ Idle.seen = 0 /\ Idle.copy = Absent
  /\ \A t : ~Marks(Idle, t) /\ ~Submits(Idle, t)
  /\ \A r : ~Awards(Idle, r)
  /\ GrowthHolds(Idle)
<1>1. /\ Idle.op = "idle" /\ Idle.todo = Nothing /\ Idle.seen = 0 /\ Idle.copy = Absent
      /\ Idle.limit = 0 /\ Idle.number = 0 /\ Idle.new = FALSE /\ DOMAIN Idle = Fields
  BY DEF Idle, Nothing, Fields
<1>2. Absent \in Member
  BY DEF Absent, Member
<1>3. 0 \in 0..MaxAttempts
  BY PracticeAssumption
<1>4. FrameHolds(Idle)
  BY <1>1, <1>2, <1>3, Ended DEF FrameHolds
<1> QED
  BY <1>1, <1>4, Ended DEF Marks, Submits, Awards, GrowthHolds

LEMMA Calling ==
  ASSUME NEW f, FrameHolds(f), f.todo # <<>>
  PROVE  Onward(f.op, f.todo) /\ Calls(f.op, f.todo)
  BY Scripts DEF FrameHolds, Nothing

LEMMA Forwards ==
  ASSUME NEW f, NEW g, FrameHolds(f), f.todo # <<>>, Forward(f, g)
  PROVE  /\ FrameHolds(g)
         /\ \A t : Submits(g, t) => CallOf(f.todo) = "count" /\ ArgOf(f.todo) = t
         /\ CallOf(f.todo) # "mark" => \A t : Marks(g, t) <=> Marks(f, t)
         /\ \A r : Awards(f, r) => Awards(g, r) \/ (CallOf(f.todo) = "award" /\ ArgOf(f.todo) = r)
         /\ g.todo # Growth2
<1>1. Onward(f.op, f.todo) /\ g.todo = Rest(f.todo) /\ g.op = f.op
  BY Calling DEF Forward
<1>2. FrameHolds(g)
  <2>1. g.new => g.todo = Nothing \/ Marks(g, g.op)
    BY <1>1, Calling DEF FrameHolds, Forward, Onward, Calls, Marks, Nothing
  <2>2. g.todo \in Left(g.op)
    BY <1>1 DEF Onward
  <2> QED
    BY <1>1, <2>1, <2>2 DEF FrameHolds, Forward
<1>3. \A t : Submits(g, t) => CallOf(f.todo) = "count" /\ ArgOf(f.todo) = t
  BY <1>1 DEF Onward, Submits
<1>4. CallOf(f.todo) # "mark" => \A t : Marks(g, t) <=> Marks(f, t)
  BY <1>1 DEF Onward, Marks
<1>5. \A r : Awards(f, r) => Awards(g, r) \/ (CallOf(f.todo) = "award" /\ ArgOf(f.todo) = r)
  BY <1>1 DEF Onward, Awards
<1>6. g.todo # Growth2
  BY <1>1 DEF Onward
<1> QED
  BY <1>2, <1>3, <1>4, <1>5, <1>6

LEMMA MarksKept ==
  ASSUME NEW t \in Rewarded, NEW p \in Processes, NEW g, DOMAIN frame = Processes, MarksHold(t),
         Becomes(p, g), KeepsMark(frame[p], g, t), attempts'[t] = attempts[t], ledger \subseteq ledger',
         uncertain => uncertain', withdrawn => withdrawn'
  PROVE  MarksHold(t)'
<1>1. frame'[p] = g /\ \A q \in Processes : q # p => frame'[q] = frame[q]
  BY DEF Becomes
<1>2. \A q \in Processes : 
        Marks(frame[q], t)' = Marks(frame'[q], t) /\ Awards(frame[q], t)' = Awards(frame'[q], t)
  BY DEF Marks, Awards
<1>3. ASSUME NEW q \in Processes, Marks(frame'[q], t)
      PROVE  /\ Marks(frame[q], t) /\ frame'[q].number = frame[q].number
             /\ Awards(frame'[q], t) \/ t \in ledger'
             /\ frame'[q].new => frame[q].new \/ (q = p /\ t \in ledger' /\ t \notin ledger)
  BY <1>1, <1>3 DEF KeepsMark, MarksHold
<1>4. ASSUME NEW q \in Processes, Marks(frame[q], t)
      PROVE  (Marks(frame'[q], t) /\ frame'[q].number = frame[q].number) \/ uncertain' \/ withdrawn'
  BY <1>1, <1>4 DEF KeepsMark
<1>5. \A q \in Processes : Marks(frame'[q], t) =>
        /\ frame'[q].number \in DOMAIN attempts'[t]
        /\ attempts'[t][frame'[q].number].reward = "pending"
        /\ Awards(frame'[q], t) \/ t \in ledger'
        /\ frame'[q].new =>
             /\ t \in ledger'
             /\ \A i \in DOMAIN attempts'[t] : attempts'[t][i].reward # "awarded"
  BY <1>3 DEF MarksHold
<1>6. \A q, r \in Processes : Marks(frame'[q], t) /\ Marks(frame'[r], t) /\ q # r =>
        /\ frame'[q].number # frame'[r].number
        /\ ~(frame'[q].new /\ frame'[r].new)
  BY <1>3 DEF MarksHold
<1>7. \A i \in DOMAIN attempts'[t] :
        /\ attempts'[t][i].reward \in {"awarded", "already"} => t \in ledger'
        /\ attempts'[t][i].reward = "pending" =>
             \/ uncertain' \/ withdrawn'
             \/ \E q \in Processes : Marks(frame'[q], t) /\ frame'[q].number = i
  <2> TAKE i \in DOMAIN attempts'[t]
  <2>1. attempts'[t][i].reward \in {"awarded", "already"} => t \in ledger'
    BY DEF MarksHold
  <2>2. attempts'[t][i].reward = "pending" =>
             \/ uncertain' \/ withdrawn'
             \/ \E q \in Processes : Marks(frame'[q], t) /\ frame'[q].number = i
    BY <1>4 DEF MarksHold
  <2> QED
    BY <2>1, <2>2
<1>8. \A i, j \in DOMAIN attempts'[t] :
        attempts'[t][i].reward = "awarded" /\ attempts'[t][j].reward = "awarded" => i = j
  BY DEF MarksHold
<1> QED
  BY <1>2, <1>5, <1>6, <1>7, <1>8 DEF MarksHold

LEMMA NumbersKept ==
  ASSUME NEW p \in Processes, NEW g, DOMAIN frame = Processes, NumbersHold, Becomes(p, g), KeepsNumber(g),
         attempts' = attempts
  PROVE  NumbersHold'
<1>1. \A q \in Processes : frame'[q] = IF q = p THEN g ELSE frame[q]
  BY DEF Becomes
<1>2. \A q \in Processes, t \in Tests : Submits(frame[q], t)' = Submits(frame'[q], t)
  BY DEF Submits
<1> QED
  BY <1>1, <1>2 DEF NumbersHold, KeepsNumber

LEMMA FramesKept ==
  ASSUME NEW p \in Processes, NEW g, DOMAIN frame = Processes,
         \A q \in Processes : FrameHolds(frame[q]) /\ GrowthHolds(frame[q]),
         Becomes(p, g), FrameHolds(g), GrowthHolds(g), evidence \subseteq evidence'
  PROVE  /\ DOMAIN frame' = Processes
         /\ \A q \in Processes : FrameHolds(frame[q])' /\ GrowthHolds(frame[q])'
<1>1. DOMAIN frame' = Processes /\ \A q \in Processes : frame'[q] = IF q = p THEN g ELSE frame[q]
  BY DEF Becomes
<1>2. \A q \in Processes : FrameHolds(frame'[q]) /\ GrowthHolds(frame'[q])
  BY <1>1
<1>3. \A q \in Processes : FrameHolds(frame[q])' = FrameHolds(frame'[q])
  BY DEF FrameHolds
<1>4. \A q \in Processes : GrowthHolds(frame[q])'
  BY <1>2 DEF GrowthHolds
<1> QED
  BY <1>1, <1>2, <1>3, <1>4

LEMMA BookingsKept ==
  ASSUME NEW p \in Processes, NEW g, DOMAIN frame = Processes, EarningsHold, earned \subseteq Resources,
         Becomes(p, g), KeepsAwards(frame[p], g), ledger \subseteq ledger', uncertain => uncertain'
  PROVE  \A r \in earned : r \in ledger' \/ uncertain' \/ \E q \in Processes : Awards(frame'[q], r)
<1>1. \A q \in Processes : frame'[q] = IF q = p THEN g ELSE frame[q]
  BY DEF Becomes
<1> QED
  BY <1>1 DEF EarningsHold, KeepsAwards

LEMMA EarningsKept ==
  ASSUME NEW p \in Processes, NEW g, DOMAIN frame = Processes, EarningsHold, earned \subseteq Resources,
         Becomes(p, g), KeepsAwards(frame[p], g), ledger \subseteq ledger', uncertain => uncertain',
         g.seen = 100 => "lesson" \in earned,
         UNCHANGED <<attempts, progress, member, earned, overlapped, reopened>>
  PROVE  EarningsHold'
<1>1. \A r \in earned : r \in ledger' \/ uncertain' \/ \E q \in Processes : Awards(frame'[q], r)
  BY BookingsKept
<1>2. \A q \in Processes : frame'[q] = IF q = p THEN g ELSE frame[q]
  BY DEF Becomes
<1>3. \A q \in Processes : \A r : Awards(frame[q], r)' = Awards(frame'[q], r)
  BY DEF Awards
<1>4. \A q \in Processes : frame'[q].seen = 100 => "lesson" \in earned
  BY <1>2 DEF EarningsHold
<1>5. \A t \in Rewarded : Passed(t)' = Passed(t)
  BY DEF Passed
<1> QED
  BY <1>1, <1>3, <1>4, <1>5 DEF EarningsHold

LEMMA CopiesKept ==
  ASSUME NEW p \in Processes, NEW g, DOMAIN frame = Processes, CopiesHold, Becomes(p, g), CopyHolds(g),
         member' = member
  PROVE  CopiesHold'
<1>1. \A q \in Processes : frame'[q] = IF q = p THEN g ELSE frame[q]
  BY DEF Becomes
<1>2. \A q \in Processes : CopyHolds(frame[q])' = CopyHolds(frame'[q])
  BY DEF CopyHolds
<1> QED
  BY <1>1, <1>2 DEF CopiesHold

\* A step of a request that stores neither an attempt, nor progress, nor the participant.
LEMMA QuietStep ==
  ASSUME PracticeInv, NEW p \in Processes, NEW g, Becomes(p, g), FrameHolds(g), GrowthHolds(g),
         KeepsNumber(g), \A t \in Rewarded : KeepsMark(frame[p], g, t), KeepsAwards(frame[p], g),
         g.seen = 100 => "lesson" \in earned, CopyHolds(g),
         ledger \subseteq ledger', evidence \subseteq evidence',
         uncertain => uncertain', withdrawn => withdrawn', uncertain' \in BOOLEAN, withdrawn' \in BOOLEAN,
         UNCHANGED <<workload, limit, attempts, progress, member, earned, overlapped, reopened>>
  PROVE  PracticeInv'
<1>1. StoresHold'
  BY DEF PracticeInv, StoresHold
<1>2. /\ DOMAIN frame' = Processes
      /\ \A q \in Processes : FrameHolds(frame[q])' /\ GrowthHolds(frame[q])'
  BY FramesKept DEF PracticeInv
<1>3. NumbersHold'
  BY NumbersKept DEF PracticeInv
<1>4. \A t \in Rewarded : MarksHold(t)'
  BY MarksKept DEF PracticeInv
<1>5. EarningsHold'
  BY EarningsKept DEF PracticeInv, StoresHold
<1>6. CopiesHold'
  BY CopiesKept DEF PracticeInv
<1> QED
  BY <1>1, <1>2, <1>3, <1>4, <1>5, <1>6 DEF PracticeInv

\* What the calls without stores of their own leave.
LeavesStores == UNCHANGED <<workload, limit, attempts, progress, member, earned, overlapped, reopened>>
Advances ==
  /\ ledger \subseteq ledger' /\ evidence \subseteq evidence'
  /\ (uncertain => uncertain') /\ (withdrawn => withdrawn')
  /\ uncertain' \in BOOLEAN /\ withdrawn' \in BOOLEAN

LEMMA Called ==
  ASSUME PracticeInv, NEW p \in Processes, NEW c, At(p, c)
  PROVE  LET f == frame[p] IN
         /\ f.todo # <<>> /\ CallOf(f.todo) = c /\ Arg(p) = ArgOf(f.todo)
         /\ FrameHolds(f) /\ GrowthHolds(f) /\ CopyHolds(f)
         /\ Onward(f.op, f.todo) /\ Calls(f.op, f.todo)
<1>1. FrameHolds(frame[p]) /\ GrowthHolds(frame[p]) /\ CopyHolds(frame[p])
  BY DEF PracticeInv, CopiesHold
<1>2. frame[p].todo # <<>> /\ CallOf(frame[p].todo) = c /\ Arg(p) = ArgOf(frame[p].todo)
  BY DEF At, Arg, CallOf, ArgOf
<1> QED
  BY <1>1, <1>2, Calling

LEMMA IdleCopy ==
  ASSUME PracticeInv
  PROVE  CopyHolds(Idle)
<1>1. member.version \in Nat /\ (member.version = 0 => member.done = {})
  BY DEF PracticeInv, StoresHold, Member, CopiesHold
<1> QED
  BY <1>1, IdleHolds DEF CopyHolds, Absent

\* The request ends.
LEMMA EndStep ==
  ASSUME PracticeInv, NEW p \in Processes, Raise(p), LeavesStores, Advances,
         \A t \in Rewarded : Marks(frame[p], t) => uncertain' \/ withdrawn',
         \A r \in Resources : Awards(frame[p], r) => uncertain'
  PROVE  PracticeInv'
<1>1. Becomes(p, Idle)
  BY DEF Raise, Becomes
<1>2. FrameHolds(Idle) /\ GrowthHolds(Idle) /\ CopyHolds(Idle) /\ Idle.seen # 100
  BY IdleHolds, IdleCopy
<1>3. KeepsNumber(Idle) /\ KeepsAwards(frame[p], Idle)
  BY IdleHolds DEF KeepsNumber, KeepsAwards
<1>4. \A t \in Rewarded : KeepsMark(frame[p], Idle, t)
  BY IdleHolds DEF KeepsMark
<1> QED
  BY <1>1, <1>2, <1>3, <1>4, QuietStep DEF LeavesStores, Advances

\* The call raises before there is anything to mark or to award.
LEMMA RaiseStep ==
  ASSUME PracticeInv, NEW p \in Processes, NEW c, At(p, c), Raise(p), LeavesStores, Advances,
         c \notin {"award", "read", "write", "mark", "score", "record", "rows", "rebuild"},
         c = "lesson" => withdrawn'
  PROVE  PracticeInv'
<1>1. CallOf(frame[p].todo) = c /\ Onward(frame[p].op, frame[p].todo)
  BY Called
<1>2. \A t \in Rewarded : Marks(frame[p], t) => withdrawn'
  BY <1>1 DEF Onward, Marks
<1>3. \A r \in Resources : ~Awards(frame[p], r)
  BY <1>1 DEF Onward, Awards
<1> QED
  BY <1>2, <1>3, EndStep

\* The call returned, and what is left to do is known.
LEMMA ForwardStep ==
  ASSUME PracticeInv, NEW p \in Processes, NEW c, At(p, c), NEW g, Becomes(p, g), Forward(frame[p], g),
         LeavesStores, Advances,
         c \notin {"mark", "count", "submitQuiz", "submitChallenge", "submitAssessment"},
         c = "award" => Arg(p) \in ledger',
         g.number = frame[p].number,
         g.new => frame[p].new \/ (c = "award" /\ Arg(p) \in Rewarded /\ Arg(p) \notin ledger),
         frame[p].op = "growth" => (c # "rows" /\ g.rows = frame[p].rows) \/ g.rows = evidence,
         g.seen = 100 => frame[p].seen = 100 \/ "lesson" \in earned,
         CopyHolds(g)
  PROVE  PracticeInv'
<1>1. /\ frame[p].todo # <<>> /\ CallOf(frame[p].todo) = c /\ Arg(p) = ArgOf(frame[p].todo)
      /\ FrameHolds(frame[p]) /\ GrowthHolds(frame[p])
      /\ Onward(frame[p].op, frame[p].todo) /\ Calls(frame[p].op, frame[p].todo)
  BY Called
<1>2. /\ FrameHolds(g) /\ g.todo # Growth2
      /\ \A t : ~Submits(g, t)
      /\ \A t : Marks(g, t) <=> Marks(frame[p], t)
      /\ \A r : Awards(frame[p], r) => Awards(g, r) \/ (c = "award" /\ Arg(p) = r)
  BY <1>1, Forwards
<1>3. GrowthHolds(g)
  BY <1>1, <1>2 DEF GrowthHolds, Forward, Calls
<1>4. KeepsNumber(g)
  BY <1>2 DEF KeepsNumber
<1>5. KeepsAwards(frame[p], g)
  BY <1>2 DEF KeepsAwards
<1>6. ASSUME NEW t \in Rewarded
      PROVE  KeepsMark(frame[p], g, t)
  <2>1. Marks(frame[p], t) => t = frame[p].op
    BY DEF Marks, MarksAt
  <2>2. c = "award" /\ Arg(p) \in Rewarded => Arg(p) = frame[p].op
    BY <1>1 DEF Calls, Rewarded, Tests
  <2> QED
    BY <1>2, <2>1, <2>2 DEF KeepsMark
<1>7. g.seen = 100 => "lesson" \in earned
  BY DEF PracticeInv, EarningsHold
<1> QED
  BY <1>2, <1>3, <1>4, <1>5, <1>6, <1>7, QuietStep DEF LeavesStores, Advances

LEMMA ReturnStep ==
  ASSUME PracticeInv, NEW p \in Processes, NEW c, At(p, c), Return(p), LeavesStores, Advances,
         c \notin {"award", "mark", "count", "submitQuiz", "submitChallenge", "submitAssessment", "rows"}
  PROVE  PracticeInv'
<1>1. PICK g : g = [frame[p] EXCEPT !.todo = <<>> \o Tail(@)]
  OBVIOUS
<1>2. Becomes(p, g)
  BY <1>1 DEF Becomes, Return, Then
<1>3. FrameHolds(frame[p]) /\ CopyHolds(frame[p])
  BY Called
<1>4. /\ Forward(frame[p], g) /\ g.number = frame[p].number /\ g.new = frame[p].new
      /\ g.rows = frame[p].rows /\ g.seen = frame[p].seen /\ g.copy = frame[p].copy
  BY <1>1, <1>3 DEF FrameHolds, Forward, Fields, Rest
<1>5. CopyHolds(g)
  BY <1>3, <1>4 DEF CopyHolds
<1> QED
  BY <1>2, <1>4, <1>5, ForwardStep

-----------------------------------------------------------------------------
(* The operations that store neither an attempt, nor progress, nor the     *)
(* participant.                                                            *)

LEMMA Stored ==
  ASSUME PracticeInv
  PROVE  /\ {limit["quiz"], limit["challenge"], MaxAttempts} \subseteq 0..MaxAttempts
         /\ progress \in {0, 50, 100} /\ member \in Member
  BY PracticeAssumption DEF PracticeInv, StoresHold, Tests

LEMMA RefreshStatusesKeeps ==
  ASSUME PracticeInv, NEW p \in Processes, RefreshStatuses(p)
  PROVE  PracticeInv'
<1>1. LeavesStores /\ Advances
  BY DEF RefreshStatuses, LeavesStores, Advances, catalog, mission, bounds, history, PracticeInv,
         StoresHold
<1>2. At(p, "refresh") /\ Return(p)
  BY DEF RefreshStatuses
<1> QED
  BY <1>1, <1>2, ReturnStep

LEMMA RecordEvidenceKeeps ==
  ASSUME PracticeInv, NEW p \in Processes, RecordEvidence(p)
  PROVE  PracticeInv'
<1>1. LeavesStores /\ Advances
  BY DEF RecordEvidence, LeavesStores, Advances, catalog, mission, bounds, history, PracticeInv,
         StoresHold
<1>2. At(p, "record") /\ Return(p)
  BY DEF RecordEvidence
<1> QED
  BY <1>1, <1>2, ReturnStep

LEMMA ReconcileKeeps ==
  ASSUME PracticeInv, NEW p \in Processes, Reconcile(p)
  PROVE  PracticeInv'
<1>1. LeavesStores /\ Advances
  BY DEF Reconcile, LeavesStores, Advances, catalog, mission, bounds, history, PracticeInv,
         StoresHold
<1>2. At(p, "reconcile") /\ Return(p)
  BY DEF Reconcile
<1> QED
  BY <1>1, <1>2, ReturnStep

LEMMA SavePublishedKeeps ==
  ASSUME PracticeInv, NEW p \in Processes, SavePublished(p)
  PROVE  PracticeInv'
<1>1. LeavesStores /\ Advances
  BY DEF SavePublished, LeavesStores, Advances, catalog, mission, bounds, history, PracticeInv,
         StoresHold
<1>2. At(p, "publish") /\ Return(p)
  BY DEF SavePublished
<1> QED
  BY <1>1, <1>2, ReturnStep

LEMMA SaveArchivedKeeps ==
  ASSUME PracticeInv, NEW p \in Processes, SaveArchived(p)
  PROVE  PracticeInv'
<1>1. LeavesStores /\ Advances
  BY DEF SaveArchived, LeavesStores, Advances, catalog, mission, bounds, history, PracticeInv,
         StoresHold
<1>2. At(p, "archive") /\ Return(p)
  BY DEF SaveArchived
<1> QED
  BY <1>1, <1>2, ReturnStep

LEMMA AuditKeeps ==
  ASSUME PracticeInv, NEW p \in Processes, Audit(p)
  PROVE  PracticeInv'
<1>1. LeavesStores /\ Advances
  BY DEF Audit, LeavesStores, Advances, catalog, mission, bounds, history, PracticeInv,
         StoresHold
<1>2. At(p, "audit") /\ Return(p)
  BY DEF Audit
<1> QED
  BY <1>1, <1>2, ReturnStep

LEMMA AttachLessonKeeps ==
  ASSUME PracticeInv, NEW p \in Processes, AttachLesson(p)
  PROVE  PracticeInv'
<1>1. LeavesStores /\ Advances
  BY DEF AttachLesson, LeavesStores, Advances, catalog, mission, bounds, history, PracticeInv,
         StoresHold
<1>2. At(p, "attach") /\ Return(p)
  BY DEF AttachLesson
<1> QED
  BY <1>1, <1>2, ReturnStep

LEMMA FollowUpReadyKeeps ==
  ASSUME PracticeInv, NEW p \in Processes, FollowUpReady(p)
  PROVE  PracticeInv'
<1>1. LeavesStores /\ Advances
  BY DEF FollowUpReady, LeavesStores, Advances, catalog, mission, bounds, history, PracticeInv,
         StoresHold
<1>2. At(p, "ready") /\ (Return(p) \/ Raise(p))
  BY DEF FollowUpReady
<1> QED
  BY <1>1, <1>2, ReturnStep, RaiseStep

LEMMA CreateLessonKeeps ==
  ASSUME PracticeInv, NEW p \in Processes, CreateLesson(p)
  PROVE  PracticeInv'
<1>1. LeavesStores /\ Advances
  BY DEF CreateLesson, LeavesStores, Advances, catalog, mission, bounds, history, PracticeInv,
         StoresHold
<1>2. At(p, "createLesson") /\ (Return(p) \/ Raise(p))
  BY DEF CreateLesson
<1> QED
  BY <1>1, <1>2, ReturnStep, RaiseStep

LEMMA FindLessonKeeps ==
  ASSUME PracticeInv, NEW p \in Processes, FindLesson(p)
  PROVE  PracticeInv'
<1>1. LeavesStores /\ Advances
  BY DEF FindLesson, LeavesStores, Advances, catalog, mission, bounds, history, PracticeInv,
         StoresHold
<1>2. At(p, "lesson") /\ (Return(p) \/ Raise(p))
  BY DEF FindLesson
<1>3. Return(p) \/ (Raise(p) /\ withdrawn')
  BY DEF FindLesson
<1> QED
  BY <1>1, <1>2, <1>3, ReturnStep, RaiseStep

LEMMA FindQuizKeeps ==
  ASSUME PracticeInv, NEW p \in Processes, FindQuiz(p)
  PROVE  PracticeInv'
<1>1. LeavesStores /\ Advances
  BY DEF FindQuiz, LeavesStores, Advances, catalog, mission, bounds, history, PracticeInv,
         StoresHold
<1>2. PICK h : h = [frame[p] EXCEPT !.limit = limit["quiz"]]
  OBVIOUS
<1>3. PICK g : g = [h EXCEPT !.todo = <<>> \o Tail(@)]
  OBVIOUS
<1>4. At(p, "findQuiz") /\ (Becomes(p, g) \/ Raise(p))
  BY <1>2, <1>3 DEF FindQuiz, Becomes, Then
<1>5. /\ FrameHolds(frame[p]) /\ CopyHolds(frame[p]) /\ Calls(frame[p].op, frame[p].todo)
      /\ CallOf(frame[p].todo) = "findQuiz" /\ Arg(p) = ArgOf(frame[p].todo)
  BY <1>4, Called
<1>6. /\ {limit["quiz"], limit["challenge"], MaxAttempts} \subseteq 0..MaxAttempts
      /\ progress \in {0, 50, 100} /\ member \in Member
  BY Stored
<1>7. /\ Forward(frame[p], g) /\ g.number = frame[p].number /\ g.seen = frame[p].seen
      /\ g.new = frame[p].new
      /\ g.rows = frame[p].rows
      /\ g.copy = frame[p].copy
  BY <1>2, <1>3, <1>5, <1>6 DEF FrameHolds, Forward, Fields, Rest
<1>8. CopyHolds(g)
  BY <1>5, <1>6, <1>7 DEF CopyHolds, Member
<1> QED
  BY <1>1, <1>4, <1>7, <1>8, ForwardStep, RaiseStep

LEMMA FindChallengeKeeps ==
  ASSUME PracticeInv, NEW p \in Processes, FindChallenge(p)
  PROVE  PracticeInv'
<1>1. LeavesStores /\ Advances
  BY DEF FindChallenge, LeavesStores, Advances, catalog, mission, bounds, history, PracticeInv,
         StoresHold
<1>2. PICK h : h = [frame[p] EXCEPT !.limit = limit["challenge"]]
  OBVIOUS
<1>3. PICK g : g = [h EXCEPT !.todo = <<>> \o Tail(@)]
  OBVIOUS
<1>4. At(p, "findChallenge") /\ (Becomes(p, g) \/ Raise(p))
  BY <1>2, <1>3 DEF FindChallenge, Becomes, Then
<1>5. /\ FrameHolds(frame[p]) /\ CopyHolds(frame[p]) /\ Calls(frame[p].op, frame[p].todo)
      /\ CallOf(frame[p].todo) = "findChallenge" /\ Arg(p) = ArgOf(frame[p].todo)
  BY <1>4, Called
<1>6. /\ {limit["quiz"], limit["challenge"], MaxAttempts} \subseteq 0..MaxAttempts
      /\ progress \in {0, 50, 100} /\ member \in Member
  BY Stored
<1>7. /\ Forward(frame[p], g) /\ g.number = frame[p].number /\ g.seen = frame[p].seen
      /\ g.new = frame[p].new
      /\ g.rows = frame[p].rows
      /\ g.copy = frame[p].copy
  BY <1>2, <1>3, <1>5, <1>6 DEF FrameHolds, Forward, Fields, Rest
<1>8. CopyHolds(g)
  BY <1>5, <1>6, <1>7 DEF CopyHolds, Member
<1> QED
  BY <1>1, <1>4, <1>7, <1>8, ForwardStep, RaiseStep

LEMMA ReadProgressKeeps ==
  ASSUME PracticeInv, NEW p \in Processes, ReadProgress(p)
  PROVE  PracticeInv'
<1>1. LeavesStores /\ Advances
  BY DEF ReadProgress, LeavesStores, Advances, catalog, mission, bounds, history, PracticeInv,
         StoresHold
<1>2. PICK h : h = [frame[p] EXCEPT !.seen = progress]
  OBVIOUS
<1>3. PICK g : g = [h EXCEPT !.todo = <<>> \o Tail(@)]
  OBVIOUS
<1>4. At(p, "read") /\ Becomes(p, g)
  BY <1>2, <1>3 DEF ReadProgress, Becomes, Then
<1>5. /\ FrameHolds(frame[p]) /\ CopyHolds(frame[p]) /\ Calls(frame[p].op, frame[p].todo)
      /\ CallOf(frame[p].todo) = "read" /\ Arg(p) = ArgOf(frame[p].todo)
  BY <1>4, Called
<1>6. /\ {limit["quiz"], limit["challenge"], MaxAttempts} \subseteq 0..MaxAttempts
      /\ progress \in {0, 50, 100} /\ member \in Member
  BY Stored
<1>7. /\ Forward(frame[p], g) /\ g.number = frame[p].number /\ g.seen = progress
      /\ g.new = frame[p].new
      /\ g.rows = frame[p].rows
      /\ g.copy = frame[p].copy
  BY <1>2, <1>3, <1>5, <1>6 DEF FrameHolds, Forward, Fields, Rest
<1>8. CopyHolds(g)
  BY <1>5, <1>6, <1>7 DEF CopyHolds, Member
<1>9. g.seen = 100 => "lesson" \in earned
  BY <1>7 DEF PracticeInv, EarningsHold
<1> QED
  BY <1>1, <1>4, <1>7, <1>8, ForwardStep, <1>9

LEMMA LoadMemberKeeps ==
  ASSUME PracticeInv, NEW p \in Processes, LoadMember(p)
  PROVE  PracticeInv'
<1>1. LeavesStores /\ Advances
  BY DEF LoadMember, LeavesStores, Advances, catalog, mission, bounds, history, PracticeInv,
         StoresHold
<1>2. PICK h : h = [frame[p] EXCEPT !.copy = member, !.limit = MaxAttempts]
  OBVIOUS
<1>3. PICK g : g = [h EXCEPT !.todo = <<>> \o Tail(@)]
  OBVIOUS
<1>4. At(p, "load") /\ (Becomes(p, g) \/ Raise(p))
  BY <1>2, <1>3 DEF LoadMember, Becomes, Then
<1>5. /\ FrameHolds(frame[p]) /\ CopyHolds(frame[p]) /\ Calls(frame[p].op, frame[p].todo)
      /\ CallOf(frame[p].todo) = "load" /\ Arg(p) = ArgOf(frame[p].todo)
  BY <1>4, Called
<1>6. /\ {limit["quiz"], limit["challenge"], MaxAttempts} \subseteq 0..MaxAttempts
      /\ progress \in {0, 50, 100} /\ member \in Member
  BY Stored
<1>7. /\ Forward(frame[p], g) /\ g.number = frame[p].number /\ g.seen = frame[p].seen
      /\ g.new = frame[p].new
      /\ g.rows = frame[p].rows
      /\ g.copy = member
  BY <1>2, <1>3, <1>5, <1>6 DEF FrameHolds, Forward, Fields, Rest
<1>8. CopyHolds(g)
  BY <1>5, <1>6, <1>7 DEF CopyHolds, Member
<1> QED
  BY <1>1, <1>4, <1>7, <1>8, ForwardStep, RaiseStep

LEMMA ReadEvidenceKeeps ==
  ASSUME PracticeInv, NEW p \in Processes, ReadEvidence(p)
  PROVE  PracticeInv'
<1>1. LeavesStores /\ Advances
  BY DEF ReadEvidence, LeavesStores, Advances, catalog, mission, bounds, history, PracticeInv,
         StoresHold
<1>2. PICK h : h = [frame[p] EXCEPT !.rows = evidence]
  OBVIOUS
<1>3. PICK g : g = [h EXCEPT !.todo = <<>> \o Tail(@)]
  OBVIOUS
<1>4. At(p, "rows") /\ Becomes(p, g)
  BY <1>2, <1>3 DEF ReadEvidence, Becomes, Then
<1>5. /\ FrameHolds(frame[p]) /\ CopyHolds(frame[p]) /\ Calls(frame[p].op, frame[p].todo)
      /\ CallOf(frame[p].todo) = "rows" /\ Arg(p) = ArgOf(frame[p].todo)
  BY <1>4, Called
<1>6. /\ {limit["quiz"], limit["challenge"], MaxAttempts} \subseteq 0..MaxAttempts
      /\ progress \in {0, 50, 100} /\ member \in Member
  BY Stored
<1>7. /\ Forward(frame[p], g) /\ g.number = frame[p].number /\ g.seen = frame[p].seen
      /\ g.new = frame[p].new
      /\ g.rows = evidence
      /\ g.copy = frame[p].copy
  BY <1>2, <1>3, <1>5, <1>6 DEF FrameHolds, Forward, Fields, Rest
<1>8. CopyHolds(g)
  BY <1>5, <1>6, <1>7 DEF CopyHolds, Member
<1> QED
  BY <1>1, <1>4, <1>7, <1>8, ForwardStep

LEMMA WriteGrowthKeeps ==
  ASSUME PracticeInv, NEW p \in Processes, WriteGrowth(p)
  PROVE  PracticeInv'
<1>1. LeavesStores /\ Advances
  BY DEF WriteGrowth, LeavesStores, Advances, catalog, mission, bounds, history, PracticeInv,
         StoresHold
<1>2. PICK h : h = IF frame[p].op = "growth" THEN frame[p] ELSE [frame[p] EXCEPT !.rows = {}]
  OBVIOUS
<1>3. PICK g : g = [h EXCEPT !.todo = <<>> \o Tail(@)]
  OBVIOUS
<1>4. At(p, "rebuild") /\ Becomes(p, g)
  BY <1>2, <1>3 DEF WriteGrowth, Becomes, Then
<1>5. /\ FrameHolds(frame[p]) /\ CopyHolds(frame[p]) /\ Calls(frame[p].op, frame[p].todo)
      /\ CallOf(frame[p].todo) = "rebuild" /\ Arg(p) = ArgOf(frame[p].todo)
  BY <1>4, Called
<1>6. /\ {limit["quiz"], limit["challenge"], MaxAttempts} \subseteq 0..MaxAttempts
      /\ progress \in {0, 50, 100} /\ member \in Member
  BY Stored
<1>7. /\ Forward(frame[p], g) /\ g.number = frame[p].number /\ g.seen = frame[p].seen
      /\ g.new = frame[p].new
      /\ (frame[p].op = "growth" => g.rows = frame[p].rows)
      /\ g.copy = frame[p].copy
  BY <1>2, <1>3, <1>5, <1>6 DEF FrameHolds, Forward, Fields, Rest
<1>8. CopyHolds(g)
  BY <1>5, <1>6, <1>7 DEF CopyHolds, Member
<1> QED
  BY <1>1, <1>4, <1>7, <1>8, ForwardStep

LEMMA CheckPublishableKeeps ==
  ASSUME PracticeInv, NEW p \in Processes, CheckPublishable(p)
  PROVE  PracticeInv'
<1>1. LeavesStores /\ Advances
  BY DEF CheckPublishable, LeavesStores, Advances, catalog, mission, bounds, history, PracticeInv,
         StoresHold
<1>2. PICK h : h = [frame[p] EXCEPT !.was = status[Arg(p)]]
  OBVIOUS
<1>3. PICK g : g = [h EXCEPT !.todo = <<>> \o Tail(@)]
  OBVIOUS
<1>4. At(p, "check") /\ (Becomes(p, g) \/ Raise(p))
  BY <1>2, <1>3 DEF CheckPublishable, Becomes, Then
<1>5. /\ FrameHolds(frame[p]) /\ CopyHolds(frame[p]) /\ Calls(frame[p].op, frame[p].todo)
      /\ CallOf(frame[p].todo) = "check" /\ Arg(p) = ArgOf(frame[p].todo)
  BY <1>4, Called
<1>6. /\ {limit["quiz"], limit["challenge"], MaxAttempts} \subseteq 0..MaxAttempts
      /\ progress \in {0, 50, 100} /\ member \in Member
  BY Stored
<1>7. /\ Forward(frame[p], g) /\ g.number = frame[p].number /\ g.seen = frame[p].seen
      /\ g.new = frame[p].new
      /\ g.rows = frame[p].rows
      /\ g.copy = frame[p].copy
  BY <1>2, <1>3, <1>5, <1>6 DEF FrameHolds, Forward, Fields, Rest
<1>8. CopyHolds(g)
  BY <1>5, <1>6, <1>7 DEF CopyHolds, Member
<1> QED
  BY <1>1, <1>4, <1>7, <1>8, ForwardStep, RaiseStep

LEMMA AwardKeeps ==
  ASSUME PracticeInv, NEW p \in Processes, Award(p)
  PROVE  PracticeInv'
<1>1. LeavesStores /\ Advances
  BY DEF Award, LeavesStores, Advances, catalog, mission, bounds, history, PracticeInv,
         StoresHold
<1>2. PICK h : h = [frame[p] EXCEPT !.new = IF Arg(p) \in Tests THEN Arg(p) \notin ledger ELSE @]
  OBVIOUS
<1>3. PICK g : g = [h EXCEPT !.todo = <<>> \o Tail(@)]
  OBVIOUS
<1>4. At(p, "award") /\ Becomes(p, g)
  BY <1>2, <1>3 DEF Award, Becomes, Then
<1>5. /\ FrameHolds(frame[p]) /\ CopyHolds(frame[p]) /\ Calls(frame[p].op, frame[p].todo)
      /\ CallOf(frame[p].todo) = "award" /\ Arg(p) = ArgOf(frame[p].todo)
  BY <1>4, Called
<1>6. /\ {limit["quiz"], limit["challenge"], MaxAttempts} \subseteq 0..MaxAttempts
      /\ progress \in {0, 50, 100} /\ member \in Member
  BY Stored
<1>11. Arg(p) \in Tests => Marks(frame[p], frame[p].op)
  BY <1>5 DEF Calls, Marks
<1>7. /\ Forward(frame[p], g) /\ g.number = frame[p].number /\ g.seen = frame[p].seen
      /\ g.new = (IF Arg(p) \in Tests THEN Arg(p) \notin ledger ELSE frame[p].new)
      /\ g.rows = frame[p].rows
      /\ g.copy = frame[p].copy
  BY <1>2, <1>3, <1>5, <1>6, <1>11 DEF FrameHolds, Forward, Fields, Rest
<1>8. CopyHolds(g)
  BY <1>5, <1>6, <1>7 DEF CopyHolds, Member
<1>9. Arg(p) \in ledger' /\ (Arg(p) \in Tests => Arg(p) \in Rewarded)
  BY <1>5 DEF Award, Calls
<1>10. g.new => frame[p].new \/ (Arg(p) \in Rewarded /\ Arg(p) \notin ledger)
  BY <1>7, <1>9
<1> QED
  BY <1>1, <1>4, <1>7, <1>8, ForwardStep, <1>9, <1>10

-----------------------------------------------------------------------------
(* Requests and changes begin and end.                                     *)

LEMMA CountAttemptsKeeps ==
  ASSUME PracticeInv, NEW p \in Processes, CountAttempts(p)
  PROVE  PracticeInv'
<1>1. LeavesStores /\ Advances
  BY DEF CountAttempts, LeavesStores, Advances, catalog, mission, bounds, history, PracticeInv, StoresHold
<1>2. At(p, "count")
  BY DEF CountAttempts
<1>3. CASE Raise(p)
  BY <1>1, <1>2, <1>3, RaiseStep
<1>4. CASE ~Raise(p)
  <2>1. PICK t : t = Arg(p)
    OBVIOUS
  <2>2. /\ frame[p].todo # <<>> /\ CallOf(frame[p].todo) = "count" /\ t = ArgOf(frame[p].todo)
        /\ FrameHolds(frame[p]) /\ GrowthHolds(frame[p]) /\ CopyHolds(frame[p])
        /\ Onward(frame[p].op, frame[p].todo) /\ Calls(frame[p].op, frame[p].todo)
    BY <1>2, <2>1, Called
  <2>3. t \in Tests /\ Len(attempts[t]) \in Nat /\ frame[p].op # "growth"
    BY <2>2 DEF Calls, PracticeInv, StoresHold, Tests
  <2>4. PICK h : h = [frame[p] EXCEPT !.limit = 0, !.number = Len(attempts[t]) + 1]
    OBVIOUS
  <2>5. PICK g : g = [h EXCEPT !.todo = <<>> \o Tail(@)]
    OBVIOUS
  <2>6. Len(attempts[t]) < frame[p].limit /\ Becomes(p, g)
    BY <1>4, <2>1, <2>4, <2>5 DEF CountAttempts, Becomes, Then
  <2>7. Len(attempts[t]) + 1 \in 0..MaxAttempts /\ 0 \in 0..MaxAttempts
    BY <2>2, <2>3, <2>6, PracticeAssumption DEF FrameHolds
  <2>8. /\ Forward(frame[p], g) /\ g.number = Len(attempts[t]) + 1 /\ g.seen = frame[p].seen
        /\ g.copy = frame[p].copy
    BY <2>2, <2>4, <2>5, <2>7 DEF FrameHolds, Forward, Fields, Rest
  <2>9. /\ FrameHolds(g) /\ \A u : Submits(g, u) => u = t
        /\ \A u : Marks(g, u) <=> Marks(frame[p], u)
    BY <2>2, <2>8, Forwards
  <2>10. /\ \A u : ~Marks(frame[p], u)
         /\ \A r : ~Awards(frame[p], r)
    BY <2>2 DEF Onward, Marks, Awards
  <2>11. KeepsNumber(g)
    BY <2>3, <2>8, <2>9 DEF KeepsNumber
  <2>12. /\ \A u \in Rewarded : KeepsMark(frame[p], g, u)
         /\ KeepsAwards(frame[p], g)
    BY <2>9, <2>10 DEF KeepsMark, KeepsAwards
  <2>13. CopyHolds(g) /\ GrowthHolds(g) /\ (g.seen = 100 => "lesson" \in earned)
    BY <2>2, <2>3, <2>8 DEF CopyHolds, GrowthHolds, Forward, PracticeInv, EarningsHold
  <2> QED
    BY <1>1, <2>6, <2>9, <2>11, <2>12, <2>13, QuietStep DEF LeavesStores, Advances
<1> QED
  BY <1>3, <1>4

LEMMA ReplyKeeps ==
  ASSUME PracticeInv, NEW p \in Processes, Reply(p)
  PROVE  PracticeInv'
<1>1. LeavesStores /\ Advances
  BY DEF Reply, LeavesStores, Advances, catalog, mission, bounds, history, PracticeInv, StoresHold
<1>2. Raise(p) /\ frame[p].todo = Nothing
  BY DEF Reply, Nothing
<1>3. /\ \A t : ~Marks(frame[p], t)
      /\ \A r : ~Awards(frame[p], r)
  BY <1>2, Ended DEF Marks, Awards
<1> QED
  BY <1>1, <1>2, <1>3, EndStep

LEMMA CrashKeeps ==
  ASSUME PracticeInv, NEW p \in Processes, Crash(p)
  PROVE  PracticeInv'
<1>1. LeavesStores /\ Advances /\ uncertain'
  BY DEF Crash, LeavesStores, Advances, catalog, mission, bounds, history, PracticeInv, StoresHold
<1> QED
  BY <1>1, EndStep DEF Crash

\* A process that is idle takes something to do.
LEMMA BeginStep ==
  ASSUME PracticeInv, NEW p \in Processes, frame[p].op = "idle", NEW op \in Operations, NEW script \in Left(op),
         NEW owed, owed \subseteq evidence, op = "growth" => script = Growth2,
         \A t : ~MarksAt(op, script, t) /\ ~SubmitsAt(op, script, t),
         Becomes(p, [Idle EXCEPT !.op = op, !.todo = script, !.owed = owed]), LeavesStores, Advances
  PROVE  PracticeInv'
<1>1. PICK g : g = [Idle EXCEPT !.op = op, !.todo = script, !.owed = owed]
  OBVIOUS
<1>2. DOMAIN Idle = Fields /\ FrameHolds(Idle) /\ Idle.seen = 0 /\ Idle.new = FALSE
  BY IdleHolds DEF Idle, Fields
<1>3. /\ DOMAIN g = Fields /\ g.op = op /\ g.todo = script /\ g.owed = owed /\ g.limit = Idle.limit
      /\ g.number = Idle.number /\ g.seen = Idle.seen /\ g.copy = Idle.copy /\ g.new = Idle.new
  BY <1>1, <1>2 DEF Fields
<1>4. FrameHolds(g) /\ GrowthHolds(g)
  BY <1>2, <1>3 DEF FrameHolds, GrowthHolds
<1>5. CopyHolds(g)
  BY <1>3, IdleCopy DEF CopyHolds
<1>6. /\ \A t : ~Marks(g, t) /\ ~Submits(g, t) /\ ~Marks(frame[p], t)
      /\ \A r : ~Awards(frame[p], r)
  BY <1>3 DEF Marks, Submits, Awards, MarksAt, AwardsAt
<1>7. /\ KeepsNumber(g) /\ KeepsAwards(frame[p], g)
      /\ \A t \in Rewarded : KeepsMark(frame[p], g, t)
  BY <1>6 DEF KeepsNumber, KeepsAwards, KeepsMark
<1>8. Becomes(p, g) /\ g.seen # 100
  BY <1>1, <1>2, <1>3
<1> QED
  BY <1>4, <1>5, <1>7, <1>8, QuietStep DEF LeavesStores, Advances

LEMMA ScriptOf ==
  /\ Script("quiz") = Quiz3 /\ Script("challenge") = Challenge4
  /\ Script("baseline") = Baseline3 /\ Script("followup") = Followup4
  /\ Script("scenario") = Scenario2 /\ Script("growth") = Growth2
  /\ Script("half") = Lesson3("half") /\ Script("finish") = Lesson3("finish")
  /\ Script("join") = Join1 /\ Script("repair") = Repair1
<1>1. Script("quiz") = Quiz3
  BY DEF Script, Quiz3
<1>2. Script("challenge") = Challenge4
  BY DEF Script, Challenge4
<1>3. Script("baseline") = Baseline3
  BY DEF Script, Baseline3
<1>4. Script("followup") = Followup4
  BY DEF Script, Followup4
<1>5. Script("scenario") = Scenario2
  BY DEF Script, Scenario2
<1>6. Script("growth") = Growth2
  BY DEF Script, Growth2
<1>7. Script("half") = Lesson3("half")
  BY DEF Script, Lesson3
<1>8. Script("finish") = Lesson3("finish")
  BY DEF Script, Lesson3
<1>9. Script("join") = Join1
  BY DEF Script, Join1
<1>10. Script("repair") = Repair1
  BY DEF Script, Repair1
<1> QED
  BY <1>1, <1>2, <1>3, <1>4, <1>5, <1>6, <1>7, <1>8, <1>9, <1>10

LEMMA ScriptBegins ==
  ASSUME NEW op \in Operations \ {"editor"}
  PROVE  /\ Script(op) \in Left(op)
         /\ op = "growth" => Script(op) = Growth2
         /\ \A t : ~MarksAt(op, Script(op), t) /\ ~SubmitsAt(op, Script(op), t)
<1>1. op \in {"quiz", "challenge", "baseline", "followup", "half", "finish", "join", "scenario",
              "growth", "repair"}
  BY DEF Operations, Tests
<1>2. CallOf(Script(op)) \notin {"award", "lesson", "read", "write", "mark"} \/ op \in {"half", "finish"}
  BY <1>1, ScriptOf, QuizCalls, ChallengeCalls, BaselineCalls, FollowupCalls, OtherCalls DEF Goes
<1>3. op \in Tests => CallOf(Script(op)) \in {"findQuiz", "refresh", "load"}
  BY <1>1, ScriptOf, QuizCalls, ChallengeCalls, BaselineCalls, FollowupCalls DEF Goes, Tests
<1>4. Script(op) \in Left(op)
  BY <1>1, ScriptOf, LeftOf
<1>5. \A t : ~MarksAt(op, Script(op), t)
  BY <1>2, QuizCalls, ChallengeCalls DEF MarksAt, Goes
<1>6. \A t : ~SubmitsAt(op, Script(op), t)
  BY <1>3, QuizCalls, ChallengeCalls, AssessmentCalls DEF SubmitsAt, Goes, Tests, Assessments
<1> QED
  BY <1>4, <1>5, <1>6, ScriptOf

LEMMA RequestKeeps ==
  ASSUME PracticeInv, NEW p \in Processes, Request(p)
  PROVE  PracticeInv'
<1>1. PICK op \in workload.of \ {"editor"} : Start(p, op, Script(op))
  BY DEF Request
<1>2. LeavesStores /\ Advances
  BY <1>1 DEF Start, LeavesStores, Advances, catalog, mission, bounds, history, PracticeInv, StoresHold
<1>3. op \in Operations
  BY <1>1, PracticeAssumption DEF PracticeInv, StoresHold
<1>4. PICK owed : owed = IF op = "growth" THEN evidence ELSE {}
  OBVIOUS
<1>5. frame[p].op = "idle" /\ Becomes(p, [Idle EXCEPT !.op = op, !.todo = Script(op), !.owed = owed])
  BY <1>1, <1>4 DEF Start, Becomes
<1>6. owed \subseteq evidence
  BY <1>4
<1> QED
  BY <1>1, <1>2, <1>3, <1>5, <1>6, ScriptBegins, BeginStep

LEMMA ChangeKeeps ==
  ASSUME PracticeInv, NEW p \in Processes, NEW script \in Left("editor"), Change(p, script)
  PROVE  PracticeInv'
<1>1. LeavesStores /\ Advances
  BY DEF Change, LeavesStores, Advances, catalog, mission, bounds, history, PracticeInv, StoresHold
<1>2. Idle.owed = {} /\ DOMAIN Idle = Fields
  BY DEF Idle, Fields
<1>3. [Idle EXCEPT !.op = "editor", !.todo = script]
        = [Idle EXCEPT !.op = "editor", !.todo = script, !.owed = {}]
  BY <1>2 DEF Idle
<1>4. frame[p].op = "idle" /\ Becomes(p, [Idle EXCEPT !.op = "editor", !.todo = script, !.owed = {}])
  BY <1>3 DEF Change, Becomes
<1>5. \A t : ~MarksAt("editor", script, t) /\ ~SubmitsAt("editor", script, t)
  BY DEF MarksAt, SubmitsAt, Assessments
<1>6. "editor" \in Operations /\ {} \subseteq evidence
  BY DEF Operations
<1> QED
  BY <1>1, <1>4, <1>5, <1>6, BeginStep

LEMMA ChangesKeep ==
  ASSUME PracticeInv, NEW p \in Processes,
         Publish(p) \/ ArchiveLearning(p) \/ ArchiveQuiz(p) \/ ArchiveChallenge(p) \/ WriteLesson(p)
  PROVE  PracticeInv'
<1>1. \A x \in Content : Publish2(x) \in Left("editor") /\ Archive2(x) \in Left("editor")
  BY LeftOf
<1>2. Write2 \in Left("editor")
  BY LeftOf
<1>3. ASSUME Publish(p) PROVE PracticeInv'
  <2>1. PICK x \in Content : Change(p, Publish2(x))
    BY <1>3 DEF Publish, Publish2
  <2> QED
    BY <1>1, <2>1, ChangeKeeps
<1>4. ASSUME ArchiveLearning(p) \/ ArchiveQuiz(p) \/ ArchiveChallenge(p) PROVE PracticeInv'
  <2>1. PICK x \in Content : Change(p, Archive2(x))
    BY <1>4 DEF ArchiveLearning, ArchiveQuiz, ArchiveChallenge, Archive2, Content
  <2> QED
    BY <1>1, <2>1, ChangeKeeps
<1>5. ASSUME WriteLesson(p) PROVE PracticeInv'
  <2>1. Change(p, Write2)
    BY <1>5 DEF WriteLesson, Write2
  <2> QED
    BY <1>2, <2>1, ChangeKeeps
<1> QED
  BY <1>3, <1>4, <1>5

-----------------------------------------------------------------------------
(* The next attempt.                                                       *)

LEMMA SubmitsAlone ==
  ASSUME NEW f, FrameHolds(f), NEW t \in Tests, Submits(f, t)
  PROVE  /\ f.todo # <<>>
         /\ \A u : ~Marks(f, u)
         /\ \A r : ~Awards(f, r)
<1>1. f.todo # Nothing /\ CallOf(f.todo) \in {"submitQuiz", "submitChallenge", "submitAssessment"}
  BY QuizCalls, ChallengeCalls, AssessmentCalls DEF Submits, SubmitsAt, Goes
<1>2. Onward(f.op, f.todo)
  BY <1>1, Calling DEF Nothing
<1> QED
  BY <1>1, <1>2 DEF Onward, Marks, Awards, Nothing

\* An attempt is stored under a number that was free, and what is left to do is g's.
LEMMA AppendStep ==
  ASSUME PracticeInv, NEW p \in Processes, NEW t \in Tests, Submits(frame[p], t),
         ~Taken(t, frame[p].number), NEW passed \in BOOLEAN, NEW a \in Attempt,
         a.passed = passed, passed => t \in Rewarded /\ a.reward = "pending", ~passed => a.reward = "none",
         attempts' = [attempts EXCEPT ![t] = Append(@, a)],
         NEW g, Becomes(p, g), FrameHolds(g), g.op = t, g.number = frame[p].number, g.copy = frame[p].copy,
         g.seen = frame[p].seen, ~g.new,
         \A u : ~Submits(g, u), t \in Rewarded => (Marks(g, t) <=> passed), passed => Awards(g, t),
         earned' = IF passed THEN earned \cup {t} ELSE earned,
         UNCHANGED <<workload, limit, progress, member, ledger, evidence, uncertain, withdrawn, overlapped,
                     reopened>>
  PROVE  PracticeInv'
<1>. DEFINE s == attempts[t]
            n == Len(s) + 1
<1>1. /\ s \in Seq(Attempt) /\ Len(s) \in Nat /\ DOMAIN attempts = Tests
      /\ attempts' \in [Tests -> Seq(Attempt)]
  <2>1. attempts \in [Tests -> Seq(Attempt)]
    BY DEF PracticeInv, StoresHold
  <2>2. Append(s, a) \in Seq(Attempt)
    BY <2>1
  <2> QED
    BY <2>1, <2>2
<1>2. /\ attempts'[t] = Append(s, a) /\ \A u \in Tests : u # t => attempts'[u] = attempts[u]
  BY <1>1
<1>3. /\ DOMAIN s = 1..Len(s) /\ DOMAIN attempts'[t] = 1..n /\ Len(attempts'[t]) = n
      /\ attempts'[t][n] = a /\ \A i \in DOMAIN s : attempts'[t][i] = s[i]
  BY <1>1, <1>2
<1>4. frame[p].number = n /\ n \in 1..MaxAttempts
  <2>1. frame[p].number \in 0..MaxAttempts /\ frame[p].number <= n
    BY DEF PracticeInv, NumbersHold, FrameHolds
  <2> QED
    BY <2>1, <1>1, PracticeAssumption DEF Taken
<1>5. DOMAIN frame = Processes /\ \A q \in Processes : frame'[q] = IF q = p THEN g ELSE frame[q]
  BY DEF Becomes, PracticeInv
<1>6. GrowthHolds(g)
  BY DEF GrowthHolds, Tests
<1>7. /\ DOMAIN frame' = Processes
      /\ \A q \in Processes : FrameHolds(frame[q])' /\ GrowthHolds(frame[q])'
  BY <1>6, FramesKept DEF PracticeInv
<1>8. /\ \A u : ~Marks(frame[p], u)
      /\ \A r : ~Awards(frame[p], r)
  BY SubmitsAlone DEF PracticeInv
<1>9. StoresHold'
  <2>1. earned' \subseteq Resources
    BY DEF PracticeInv, StoresHold, Rewarded, Resources
  <2> QED
    BY <1>1, <2>1 DEF PracticeInv, StoresHold
<1>10. NumbersHold'
  <2>1. \A u \in Tests :
          /\ Len(attempts[u]) \in Nat /\ Len(attempts'[u]) \in Nat
          /\ Len(attempts[u]) <= Len(attempts'[u]) /\ Len(attempts'[u]) <= MaxAttempts
    BY <1>1, <1>2, <1>3, <1>4, PracticeAssumption DEF PracticeInv, NumbersHold, StoresHold
  <2>2. ASSUME NEW q \in Processes, NEW u \in Tests, Submits(frame'[q], u)
        PROVE  frame'[q].number <= Len(attempts'[u]) + 1
    <3>1. q # p /\ frame'[q] = frame[q]
      BY <1>5, <2>2
    <3>2. frame[q].number <= Len(attempts[u]) + 1 /\ frame[q].number \in 0..MaxAttempts
      BY <2>2, <3>1 DEF PracticeInv, NumbersHold, FrameHolds
    <3> QED
      BY <2>1, <3>1, <3>2, PracticeAssumption
  <2>3. \A q \in Processes, u \in Tests : Submits(frame[q], u)' = Submits(frame'[q], u)
    BY DEF Submits
  <2> QED
    BY <2>1, <2>2, <2>3 DEF NumbersHold
<1>11. ASSUME NEW u \in Rewarded
       PROVE  MarksHold(u)'
  <2>1. MarksHold(u) /\ u \in Tests
    BY DEF PracticeInv, Rewarded, Tests
  <2>2. CASE u # t
    <3>1. ~Marks(g, u)
      BY <2>2 DEF Marks, MarksAt
    <3>2. KeepsMark(frame[p], g, u)
      BY <1>8, <3>1 DEF KeepsMark
    <3> QED
      BY <1>2, <1>5, <2>1, <2>2, <3>2, MarksKept
  <2>3. CASE u = t
    <3>1. /\ \A q \in Processes : Marks(frame[q], t)' = Marks(frame'[q], t)
          /\ \A q \in Processes : Awards(frame[q], t)' = Awards(frame'[q], t)
      BY DEF Marks, Awards
    <3>2. ASSUME NEW q \in Processes, Marks(frame'[q], t)
          PROVE  \/ q = p /\ passed /\ frame'[q] = g
                 \/ /\ q # p /\ Marks(frame[q], t) /\ frame'[q] = frame[q]
                    /\ frame[q].number \in DOMAIN s /\ frame[q].number # n
      BY <1>1, <1>3, <1>5, <2>1, <2>3, <3>2 DEF MarksHold
    <3>3. \A q \in Processes : Marks(frame[q], t) => q # p /\ Marks(frame'[q], t) /\ frame'[q] = frame[q]
      BY <1>5, <1>8
    <3>4. n \in DOMAIN attempts'[t] /\ \A i \in DOMAIN s : i \in DOMAIN attempts'[t]
      BY <1>1, <1>3
    <3>5. \A i \in DOMAIN attempts'[t] : i = n \/ (i \in DOMAIN s /\ attempts'[t][i] = s[i])
      BY <1>1, <1>3
    <3>6. a.reward \in {"none", "pending"} /\ (a.reward = "pending" => passed)
      OBVIOUS
    <3>7. \A q \in Processes : Marks(frame'[q], t) =>
            /\ frame'[q].number \in DOMAIN attempts'[t]
            /\ attempts'[t][frame'[q].number].reward = "pending"
            /\ Awards(frame'[q], t) \/ t \in ledger'
            /\ frame'[q].new =>
                 /\ t \in ledger'
                 /\ \A i \in DOMAIN attempts'[t] : attempts'[t][i].reward # "awarded"
      <4> SUFFICES ASSUME NEW q \in Processes, Marks(frame'[q], t)
                   PROVE  /\ frame'[q].number \in DOMAIN attempts'[t]
                          /\ attempts'[t][frame'[q].number].reward = "pending"
                          /\ Awards(frame'[q], t) \/ t \in ledger'
                          /\ frame'[q].new =>
                               /\ t \in ledger'
                               /\ \A i \in DOMAIN attempts'[t] : attempts'[t][i].reward # "awarded"
        OBVIOUS
      <4>1. CASE q = p
        BY <1>3, <1>4, <3>2, <3>4, <4>1
      <4>2. CASE q # p
        BY <1>3, <2>1, <2>3, <3>2, <3>4, <3>5, <3>6, <4>2 DEF MarksHold
      <4> QED
        BY <4>1, <4>2
    <3>8. \A q, r \in Processes : Marks(frame'[q], t) /\ Marks(frame'[r], t) /\ q # r =>
            /\ frame'[q].number # frame'[r].number
            /\ ~(frame'[q].new /\ frame'[r].new)
      BY <1>4, <2>1, <2>3, <3>2 DEF MarksHold
    <3>9. \A i \in DOMAIN attempts'[t] :
            /\ attempts'[t][i].reward \in {"awarded", "already"} => t \in ledger'
            /\ attempts'[t][i].reward = "pending" =>
                 \/ uncertain' \/ withdrawn'
                 \/ \E q \in Processes : Marks(frame'[q], t) /\ frame'[q].number = i
      <4> TAKE i \in DOMAIN attempts'[t]
      <4>1. CASE i = n
        <5>1. a.reward = "pending" => Marks(frame'[p], t) /\ frame'[p].number = n
          BY <1>4, <1>5, <3>6, <2>3
        <5> QED
          BY <1>3, <3>6, <4>1, <5>1
      <4>2. CASE i # n
        BY <2>1, <2>3, <3>3, <3>5, <4>2 DEF MarksHold
      <4> QED
        BY <4>1, <4>2
    <3>10. \A i, j \in DOMAIN attempts'[t] :
             attempts'[t][i].reward = "awarded" /\ attempts'[t][j].reward = "awarded" => i = j
      BY <1>3, <2>1, <2>3, <3>5, <3>6 DEF MarksHold
    <3> QED
      BY <2>3, <3>1, <3>7, <3>8, <3>9, <3>10 DEF MarksHold
  <2> QED
    BY <2>2, <2>3
<1>12. EarningsHold'
  <2>1. KeepsAwards(frame[p], g)
    BY <1>8 DEF KeepsAwards
  <2>2. \A r \in earned : r \in ledger' \/ uncertain' \/ \E q \in Processes : Awards(frame'[q], r)
    BY <2>1, BookingsKept DEF PracticeInv, StoresHold
  <2>3. passed => Awards(frame'[p], t)
    BY <1>5
  <2>4. \A r \in earned' : r \in ledger' \/ uncertain' \/ \E q \in Processes : Awards(frame'[q], r)
    BY <2>2, <2>3
  <2>5. \A q \in Processes : \A r : Awards(frame[q], r)' = Awards(frame'[q], r)
    BY DEF Awards
  <2>6. \A q \in Processes : frame'[q].seen = 100 => "lesson" \in earned
    BY <1>5 DEF PracticeInv, EarningsHold
  <2>7. \A u \in Rewarded : u \in earned' => Passed(u)'
    <3> TAKE u \in Rewarded
    <3>1. u \in Tests
      BY DEF Rewarded, Tests
    <3>2. u \in earned => Passed(u)
      BY DEF PracticeInv, EarningsHold
    <3>3. CASE u # t
      BY <1>2, <3>1, <3>2, <3>3 DEF Passed
    <3>4. CASE u = t /\ passed
      <4>1. n \in DOMAIN attempts'[t]
        BY <1>1, <1>3
      <4>2. attempts'[t][n].passed
        BY <1>3, <3>4
      <4> QED
        BY <3>4, <4>1, <4>2 DEF Passed
    <3>5. CASE u = t /\ ~passed
      BY <1>1, <1>3, <3>2, <3>5 DEF Passed
    <3> QED
      BY <3>3, <3>4, <3>5
  <2>8. \A r \in {"lesson", "mission"} : r \in earned' <=> r \in earned
    BY DEF Rewarded
  <2> QED
    BY <2>4, <2>5, <2>6, <2>7, <2>8 DEF EarningsHold, PracticeInv
<1>13. CopiesHold'
  <2>1. CopyHolds(g)
    BY DEF PracticeInv, CopiesHold, CopyHolds
  <2> QED
    BY <2>1, CopiesKept DEF PracticeInv
<1> QED
  BY <1>7, <1>9, <1>10, <1>11, <1>12, <1>13 DEF PracticeInv

\* The request whose attempt number is taken ends with a conflict.
LEMMA ConflictStep ==
  ASSUME PracticeInv, NEW p \in Processes, NEW t \in Tests, Submits(frame[p], t), Raise(p), LeavesStores,
         Advances
  PROVE  PracticeInv'
<1>1. /\ \A u : ~Marks(frame[p], u)
      /\ \A r : ~Awards(frame[p], r)
  BY SubmitsAlone DEF PracticeInv
<1> QED
  BY <1>1, EndStep

\* What create stores, and what the request knows then.
LEMMA CreateStep ==
  ASSUME PracticeInv, NEW p \in Processes, NEW t \in Tests, Submits(frame[p], t), Rest(frame[p].todo) = Nothing,
         NEW passed \in BOOLEAN, NEW reward, passed => t \in Rewarded /\ reward = "pending",
         ~passed => reward = "none", NEW script, script \in Left(t),
         \A u : ~SubmitsAt(t, script, u), t \in Rewarded => (MarksAt(t, script, t) <=> passed),
         script \o Tail(frame[p].todo) = script,
         passed => AwardsAt(t, script, t),
         Create(p, t, passed, reward, script), Completes(p, t, passed)
  PROVE  PracticeInv'
<1>1. CASE Taken(t, frame[p].number)
  <2>1. Raise(p) /\ LeavesStores /\ Advances
    BY <1>1 DEF Create, Completes, LeavesStores, Advances, catalog, mission, bounds, PracticeInv, StoresHold
  <2> QED
    BY <2>1, ConflictStep
<1>2. CASE ~Taken(t, frame[p].number)
  <2>1. PICK a : a = [passed |-> passed, reward |-> reward]
    OBVIOUS
  <2>2. a \in Attempt /\ a.passed = passed /\ a.reward = reward
    BY <2>1 DEF Attempt
  <2>3. PICK g : g = [frame[p] EXCEPT !.todo = script \o Tail(@)]
    OBVIOUS
  <2>4. /\ attempts' = [attempts EXCEPT ![t] = Append(@, a)] /\ Becomes(p, g)
        /\ earned' = IF passed THEN earned \cup {t} ELSE earned
        /\ UNCHANGED <<workload, limit, progress, member, ledger, evidence, uncertain, withdrawn, overlapped,
                       reopened>>
    BY <1>2, <2>1, <2>3 DEF Create, Completes, Then, Becomes, Earn, catalog, mission, bounds
  <2>5. FrameHolds(frame[p]) /\ frame[p].op = t
    BY DEF PracticeInv, Submits, SubmitsAt
  <2>6. frame[p].todo # Nothing /\ ~frame[p].new
    BY <2>5, SubmitsAlone DEF FrameHolds, Nothing
  <2>7. /\ DOMAIN g = Fields /\ g.op = t /\ g.todo = script /\ g.limit = frame[p].limit
        /\ g.number = frame[p].number /\ g.seen = frame[p].seen /\ g.copy = frame[p].copy
        /\ g.new = frame[p].new
    BY <2>3, <2>5 DEF FrameHolds, Fields
  <2>8. FrameHolds(g)
    BY <2>5, <2>6, <2>7 DEF FrameHolds
  <2>9. /\ \A u : ~Submits(g, u)
        /\ t \in Rewarded => (Marks(g, t) <=> passed)
        /\ passed => Awards(g, t)
    BY <2>7 DEF Submits, Marks, Awards
  <2> QED
    BY <1>2, <2>2, <2>4, <2>6, <2>7, <2>8, <2>9, AppendStep
<1> QED
  BY <1>1, <1>2

LEMMA SubmitQuizKeeps ==
  ASSUME PracticeInv, NEW p \in Processes, SubmitQuiz(p)
  PROVE  PracticeInv'
<1>1. At(p, "submitQuiz")
  BY DEF SubmitQuiz
<1>2. frame[p].op = "quiz" /\ frame[p].todo = Quiz1
  BY <1>1, Called DEF Calls
<1>3. Submits(frame[p], "quiz") /\ Rest(frame[p].todo) = Nothing /\ "quiz" \in Tests /\ "quiz" \in Rewarded
  BY <1>2, QuizCalls DEF Submits, SubmitsAt, Goes, Tests, Rewarded
<1>a. PICK passed \in BOOLEAN :
        /\ Create(p, "quiz", passed, Due(passed), IF passed THEN QuizPassed5 ELSE Nothing)
        /\ Completes(p, "quiz", passed)
  BY DEF SubmitQuiz, QuizPassed5, Nothing
<1>b. PICK script : script = IF passed THEN QuizPassed5 ELSE Nothing
  OBVIOUS
<1>4. /\ script = IF passed THEN QuizPassed5 ELSE Nothing
      /\ Create(p, "quiz", passed, Due(passed), script) /\ Completes(p, "quiz", passed)
  BY <1>a, <1>b
<1>5. script \o Tail(frame[p].todo) = script
  <2>1. Tail(Quiz1) = <<>>
    BY DEF Quiz1
  <2>2. QuizPassed5 \o <<>> = QuizPassed5 /\ Nothing \o <<>> = Nothing
    BY DEF QuizPassed5, Nothing
  <2> QED
    BY <1>2, <1>4, <2>1, <2>2
<1>6. script \in Left("quiz")
  BY <1>4, LeftOf
<1>7. \A u : ~SubmitsAt("quiz", script, u)
  BY <1>4, QuizCalls DEF SubmitsAt, Goes, Assessments
<1>8. MarksAt("quiz", script, "quiz") <=> passed
  BY <1>4, Ended DEF MarksAt
<1>9. passed => AwardsAt("quiz", script, "quiz")
  BY <1>4 DEF AwardsAt
<1>10. Due(passed) = IF passed THEN "pending" ELSE "none"
  BY DEF Due
<1> QED
  BY <1>3, <1>4, <1>5, <1>6, <1>7, <1>8, <1>9, <1>10, CreateStep

LEMMA SubmitChallengeKeeps ==
  ASSUME PracticeInv, NEW p \in Processes, SubmitChallenge(p)
  PROVE  PracticeInv'
<1>1. At(p, "submitChallenge")
  BY DEF SubmitChallenge
<1>2. frame[p].op = "challenge" /\ frame[p].todo = Challenge1
  BY <1>1, Called DEF Calls
<1>3. /\ Submits(frame[p], "challenge") /\ Rest(frame[p].todo) = Nothing
      /\ "challenge" \in Tests /\ "challenge" \in Rewarded
  BY <1>2, ChallengeCalls DEF Submits, SubmitsAt, Goes, Tests, Rewarded
<1>a. PICK passed \in BOOLEAN :
        /\ Create(p, "challenge", passed, Due(passed), IF passed THEN ChallengePassed2 ELSE Nothing)
        /\ Completes(p, "challenge", passed)
  BY DEF SubmitChallenge, ChallengePassed2, Nothing
<1>b. PICK script : script = IF passed THEN ChallengePassed2 ELSE Nothing
  OBVIOUS
<1>4. /\ script = IF passed THEN ChallengePassed2 ELSE Nothing
      /\ Create(p, "challenge", passed, Due(passed), script) /\ Completes(p, "challenge", passed)
  BY <1>a, <1>b
<1>5. script \o Tail(frame[p].todo) = script
  <2>1. Tail(Challenge1) = <<>>
    BY DEF Challenge1
  <2>2. ChallengePassed2 \o <<>> = ChallengePassed2 /\ Nothing \o <<>> = Nothing
    BY DEF ChallengePassed2, Nothing
  <2> QED
    BY <1>2, <1>4, <2>1, <2>2
<1>6. script \in Left("challenge")
  BY <1>4, LeftOf
<1>7. \A u : ~SubmitsAt("challenge", script, u)
  BY <1>4, ChallengeCalls DEF SubmitsAt, Goes, Assessments
<1>8. MarksAt("challenge", script, "challenge") <=> passed
  BY <1>4, Ended DEF MarksAt
<1>9. passed => AwardsAt("challenge", script, "challenge")
  BY <1>4 DEF AwardsAt
<1>10. Due(passed) = IF passed THEN "pending" ELSE "none"
  BY DEF Due
<1> QED
  BY <1>3, <1>4, <1>5, <1>6, <1>7, <1>8, <1>9, <1>10, CreateStep

LEMMA FourAndOne ==
  ASSUME NEW a, NEW b, NEW c, NEW d, NEW e
  PROVE  <<a, b, c, d>> \o <<e>> = <<a, b, c, d, e>>
<1>. DEFINE S == {a, b, c, d, e}
            s == <<a, b, c, d>>
            u == <<e>>
            w == <<a, b, c, d, e>>
<1>1. /\ s \in Seq(S) /\ Len(s) = 4 /\ s[1] = a /\ s[2] = b /\ s[3] = c /\ s[4] = d
      /\ u \in Seq(S) /\ Len(u) = 1 /\ u[1] = e
  OBVIOUS
<1>2. w \in Seq(S) /\ Len(w) = 5 /\ w[1] = a /\ w[2] = b /\ w[3] = c /\ w[4] = d /\ w[5] = e
  OBVIOUS
<1>. HIDE DEF S, s, u, w
<1>3. /\ s \o u \in Seq(S) /\ Len(s \o u) = 5
      /\ \A i \in 1..5 : (s \o u)[i] = IF i <= 4 THEN s[i] ELSE u[i - 4]
  <2>1. /\ s \o u \in Seq(S) /\ Len(s \o u) = Len(s) + Len(u)
        /\ \A i \in 1 .. Len(s) + Len(u) :
             (s \o u)[i] = IF i <= Len(s) THEN s[i] ELSE u[i - Len(s)]
    BY <1>1, ConcatProperties
  <2>2. Len(s) + Len(u) = 5
    BY <1>1
  <2>3. \A i \in 1..5 : (s \o u)[i] = IF i <= Len(s) THEN s[i] ELSE u[i - Len(s)]
    BY <2>1, <2>2, Zenon
  <2> QED
    BY <1>1, <2>1, <2>2, <2>3
<1>4. \A i \in 1..5 : (s \o u)[i] = w[i]
  BY <1>1, <1>2, <1>3
<1>5. s \o u = w
  BY <1>2, <1>3, <1>4, SeqEqual
<1> QED
  BY <1>5 DEF s, u, w

LEMMA SubmitAssessmentKeeps ==
  ASSUME PracticeInv, NEW p \in Processes, SubmitAssessment(p)
  PROVE  PracticeInv'
<1>1. At(p, "submitAssessment")
  BY DEF SubmitAssessment
<1>2. PICK t \in Assessments : Arg(p) = t /\ frame[p].op = t /\ frame[p].todo = Assess1(t)
  BY <1>1, Called DEF Calls
<1>3. /\ Submits(frame[p], t) /\ Rest(frame[p].todo) = Nothing /\ t \in Tests /\ t \notin Rewarded
  BY <1>2, AssessmentCalls DEF Submits, SubmitsAt, Goes, Tests, Assessments, Rewarded
<1>4. PICK script : script = IF t = "followup" THEN Followup5 ELSE Baseline5
  OBVIOUS
<1>5. Create(p, t, FALSE, "none", script)
  <2>1. /\ << <<"score", "followup">>, <<"record", "followup">>, <<"rows", "followup">>,
              <<"rebuild", "followup">> >> \o << <<"award", "mission">> >> = Followup5
    BY FourAndOne, Zenon DEF Followup5
  <2>2. /\ << <<"score", "baseline">>, <<"record", "baseline">>, <<"rows", "baseline">>,
              <<"rebuild", "baseline">> >> \o <<>> = Baseline5
    BY DEF Baseline5
  <2>3. CASE t = "followup"
    BY <1>2, <1>4, <2>1, <2>3 DEF SubmitAssessment
  <2>4. CASE t = "baseline"
    BY <1>2, <1>4, <2>2, <2>4 DEF SubmitAssessment
  <2> QED
    BY <2>3, <2>4 DEF Assessments
<1>6. Completes(p, t, FALSE)
  BY DEF SubmitAssessment, Completes
<1>7. script \o Tail(frame[p].todo) = script
  <2>1. Tail(Assess1(t)) = <<>>
    BY DEF Assess1
  <2>2. Followup5 \o <<>> = Followup5 /\ Baseline5 \o <<>> = Baseline5
    BY DEF Followup5, Baseline5
  <2> QED
    BY <1>2, <1>4, <2>1, <2>2
<1>8. script \in Left(t)
  BY <1>4, LeftOf DEF Assessments
<1>9. \A u : ~SubmitsAt(t, script, u)
  BY <1>4, FollowupCalls, BaselineCalls, AssessmentCalls, QuizCalls, ChallengeCalls DEF SubmitsAt, Goes
<1> QED
  BY <1>3, <1>5, <1>6, <1>7, <1>8, <1>9, CreateStep

\* The attempt that passed says whether it was awarded.
LEMMA MarkAttemptKeeps ==
  ASSUME PracticeInv, NEW p \in Processes, MarkAttempt(p)
  PROVE  PracticeInv'
<1>1. At(p, "mark")
  BY DEF MarkAttempt
<1>2. PICK t : t = frame[p].op
  OBVIOUS
<1>3. /\ frame[p].todo # <<>> /\ Arg(p) = t /\ t \in Rewarded /\ t \in Tests
      /\ FrameHolds(frame[p]) /\ GrowthHolds(frame[p]) /\ CopyHolds(frame[p])
      /\ Onward(frame[p].op, frame[p].todo) /\ CallOf(frame[p].todo) = "mark"
      /\ Marks(frame[p], t) /\ Rest(frame[p].todo) = Nothing
  BY <1>1, <1>2, Called DEF Calls, Marks, Rewarded, Tests
<1>4. PICK g : g = [frame[p] EXCEPT !.todo = <<>> \o Tail(@)]
  OBVIOUS
<1>5. Becomes(p, g)
  BY <1>4 DEF MarkAttempt, Return, Then, Becomes
<1>6. /\ Forward(frame[p], g) /\ g.op = t /\ g.todo = Nothing /\ g.number = frame[p].number
      /\ g.seen = frame[p].seen /\ g.copy = frame[p].copy
  BY <1>2, <1>3, <1>4 DEF FrameHolds, Forward, Fields, Rest
<1>7. /\ FrameHolds(g) /\ GrowthHolds(g) /\ CopyHolds(g)
      /\ \A u : ~Marks(g, u) /\ ~Submits(g, u)
  <2>1. FrameHolds(g)
    BY <1>3, <1>6, Forwards
  <2>2. \A u : ~Marks(g, u) /\ ~Submits(g, u)
    BY <1>6, Ended DEF Marks, Submits
  <2>3. GrowthHolds(g) /\ CopyHolds(g)
    BY <1>3, <1>6 DEF GrowthHolds, CopyHolds, Rewarded
  <2> QED
    BY <2>1, <2>2, <2>3
<1>8. \A r : ~Awards(frame[p], r)
  BY <1>3 DEF Onward, Awards
<1>. DEFINE s == attempts[t]
            n == frame[p].number
            state == RewardState(frame[p])
            after == [s EXCEPT ![n].reward = state]
<1>9. /\ n \in DOMAIN s /\ s[n].reward = "pending" /\ t \in ledger
      /\ frame[p].new => \A i \in DOMAIN s : s[i].reward # "awarded"
  BY <1>3, <1>8 DEF PracticeInv, MarksHold
<1>10. s \in Seq(Attempt) /\ DOMAIN s = 1..Len(s) /\ Len(s) \in Nat /\ DOMAIN attempts = Tests
  BY <1>3 DEF PracticeInv, StoresHold
<1>11. /\ state \in {"awarded", "already"} /\ (state = "awarded" <=> frame[p].new)
       /\ UNCHANGED <<workload, limit, progress, member, ledger, evidence, earned, uncertain, withdrawn,
                      overlapped, reopened>>
  BY DEF MarkAttempt, RewardState, catalog, mission, bounds, history
<1>12. attempts' = [attempts EXCEPT ![t] = after]
  BY <1>3 DEF MarkAttempt
<1>13. s[n] \in Attempt
  BY <1>9, <1>10
<1>14. /\ after \in Seq(Attempt) /\ DOMAIN after = DOMAIN s /\ Len(after) = Len(s)
       /\ after[n].reward = state /\ after[n].passed = s[n].passed
       /\ \A i \in DOMAIN s : i # n => after[i] = s[i]
  <2>1. [s[n] EXCEPT !.reward = state] \in Attempt
    BY <1>11, <1>13 DEF Attempt
  <2>2. after = [s EXCEPT ![n] = [s[n] EXCEPT !.reward = state]]
    BY <1>9
  <2>3. after \in Seq(Attempt) /\ DOMAIN after = DOMAIN s /\ Len(after) = Len(s)
    BY <1>9, <1>10, <2>1, <2>2
  <2>4. after[n] = [s[n] EXCEPT !.reward = state] /\ \A i \in DOMAIN s : i # n => after[i] = s[i]
    BY <1>9, <2>2
  <2>5. after[n].reward = state /\ after[n].passed = s[n].passed
    BY <1>13, <2>4 DEF Attempt
  <2> QED
    BY <2>3, <2>4, <2>5
<1>. HIDE DEF s, n, state, after
<1>15. attempts'[t] = after /\ \A u \in Tests : u # t => attempts'[u] = attempts[u]
  BY <1>3, <1>10, <1>12
<1>16. StoresHold'
  <2>1. attempts \in [Tests -> Seq(Attempt)]
    BY DEF PracticeInv, StoresHold
  <2>2. attempts' \in [Tests -> Seq(Attempt)]
    BY <1>3, <1>12, <1>14, <2>1
  <2> QED
    BY <1>11, <2>2 DEF PracticeInv, StoresHold
<1>17. DOMAIN frame = Processes /\ \A q \in Processes : frame'[q] = IF q = p THEN g ELSE frame[q]
  BY <1>5 DEF Becomes, PracticeInv
<1>18. /\ DOMAIN frame' = Processes
       /\ \A q \in Processes : FrameHolds(frame[q])' /\ GrowthHolds(frame[q])'
  BY <1>5, <1>7, <1>11, FramesKept DEF PracticeInv
<1>19. NumbersHold'
  <2>1. \A u \in Tests : Len(attempts'[u]) = Len(attempts[u])
    BY <1>14, <1>15 DEF s
  <2>2. \A q \in Processes, u \in Tests : Submits(frame[q], u)' = Submits(frame'[q], u)
    BY DEF Submits
  <2> QED
    BY <1>7, <1>17, <2>1, <2>2 DEF PracticeInv, NumbersHold
<1>20. ASSUME NEW u \in Rewarded
       PROVE  MarksHold(u)'
  <2>1. MarksHold(u) /\ u \in Tests
    BY DEF PracticeInv, Rewarded, Tests
  <2>2. CASE u # t
    <3>1. ~Marks(frame[p], u)
      BY <1>2, <2>2 DEF Marks, MarksAt
    <3>2. KeepsMark(frame[p], g, u)
      BY <1>7, <3>1 DEF KeepsMark
    <3> QED
      BY <1>5, <1>11, <1>15, <1>17, <2>1, <2>2, <3>2, MarksKept
  <2>3. CASE u = t
    <3>1. /\ \A q \in Processes : Marks(frame[q], t)' = Marks(frame'[q], t)
          /\ \A q \in Processes : Awards(frame[q], t)' = Awards(frame'[q], t)
      BY DEF Marks, Awards
    <3>2. ASSUME NEW q \in Processes, Marks(frame'[q], t)
          PROVE  /\ q # p /\ Marks(frame[q], t) /\ frame'[q] = frame[q]
                 /\ frame[q].number \in DOMAIN s /\ frame[q].number # n
                 /\ ~(frame[p].new /\ frame[q].new)
      BY <1>3, <1>7, <1>17, <2>1, <2>3, <3>2 DEF MarksHold, s, n
    <3>3. \A q \in Processes : Marks(frame[q], t) /\ q # p => Marks(frame'[q], t) /\ frame'[q] = frame[q]
      BY <1>17
    <3>4. /\ t \in ledger' /\ (uncertain => uncertain') /\ (withdrawn => withdrawn')
      BY <1>9, <1>11
    <3>5. ASSUME NEW q \in Processes, Marks(frame'[q], t)
          PROVE  /\ frame'[q].number \in DOMAIN after
                 /\ after[frame'[q].number].reward = "pending"
                 /\ frame'[q].new => \A i \in DOMAIN after : after[i].reward # "awarded"
      <4>1. /\ Marks(frame[q], t) /\ frame'[q] = frame[q] /\ frame[q].number \in DOMAIN s
            /\ frame[q].number # n /\ ~(frame[p].new /\ frame[q].new)
        BY <3>2, <3>5
      <4>2. /\ s[frame[q].number].reward = "pending"
            /\ frame[q].new => \A i \in DOMAIN s : s[i].reward # "awarded"
        BY <2>1, <2>3, <4>1 DEF MarksHold, s
      <4>3. frame[q].new => after[n].reward # "awarded"
        BY <1>11, <1>14, <4>1
      <4> QED
        BY <1>14, <4>1, <4>2, <4>3
    <3>6. \A q, r \in Processes : Marks(frame'[q], t) /\ Marks(frame'[r], t) /\ q # r =>
            /\ frame'[q].number # frame'[r].number
            /\ ~(frame'[q].new /\ frame'[r].new)
      BY <2>1, <2>3, <3>2 DEF MarksHold
    <3>7. \A i \in DOMAIN after : after[i].reward = "pending" =>
            \/ uncertain' \/ withdrawn'
            \/ \E q \in Processes : Marks(frame'[q], t) /\ frame'[q].number = i
      <4> TAKE i \in DOMAIN after
      <4> HAVE after[i].reward = "pending"
      <4>1. i # n /\ i \in DOMAIN s /\ s[i].reward = "pending"
        BY <1>11, <1>14
      <4>2. \/ uncertain \/ withdrawn
            \/ \E q \in Processes : Marks(frame[q], t) /\ frame[q].number = i
        BY <2>1, <2>3, <4>1 DEF MarksHold, s
      <4> QED
        BY <3>3, <3>4, <4>1, <4>2 DEF n
    <3>8. \A i, j \in DOMAIN after :
            after[i].reward = "awarded" /\ after[j].reward = "awarded" => i = j
      <4> SUFFICES ASSUME NEW i \in DOMAIN after, NEW j \in DOMAIN after,
                          after[i].reward = "awarded", after[j].reward = "awarded", i # j
                   PROVE  FALSE
        OBVIOUS
      <4>1. i \in DOMAIN s /\ j \in DOMAIN s
        BY <1>14
      <4>2. CASE i # n /\ j # n
        <5>1. s[i].reward = "awarded" /\ s[j].reward = "awarded"
          BY <1>14, <4>1, <4>2
        <5> QED
          BY <2>1, <2>3, <4>1, <5>1 DEF MarksHold, s
      <4>3. CASE i = n
        BY <1>9, <1>11, <1>14, <4>1, <4>3
      <4>4. CASE j = n
        BY <1>9, <1>11, <1>14, <4>1, <4>4
      <4> QED
        BY <4>2, <4>3, <4>4
    <3> QED
      BY <1>15, <2>3, <3>1, <3>4, <3>5, <3>6, <3>7, <3>8 DEF MarksHold
  <2> QED
    BY <2>2, <2>3
<1>21. EarningsHold'
  <2>1. KeepsAwards(frame[p], g)
    BY <1>8 DEF KeepsAwards
  <2>2. \A r \in earned : r \in ledger' \/ uncertain' \/ \E q \in Processes : Awards(frame'[q], r)
    BY <1>5, <1>11, <2>1, BookingsKept DEF PracticeInv, StoresHold
  <2>3. \A q \in Processes : \A r : Awards(frame[q], r)' = Awards(frame'[q], r)
    BY DEF Awards
  <2>4. \A q \in Processes : frame'[q].seen = 100 => "lesson" \in earned
    BY <1>6, <1>17 DEF PracticeInv, EarningsHold
  <2>5. \A u \in Rewarded : Passed(u) => Passed(u)'
    <3> TAKE u \in Rewarded
    <3> HAVE Passed(u)
    <3>1. u \in Tests
      BY DEF Rewarded, Tests
    <3>2. PICK i \in DOMAIN attempts[u] : attempts[u][i].passed
      BY DEF Passed
    <3>3. i \in DOMAIN attempts'[u] /\ attempts'[u][i].passed
      BY <1>14, <1>15, <3>1, <3>2 DEF s
    <3> QED
      BY <3>3 DEF Passed
  <2> QED
    BY <1>11, <2>2, <2>3, <2>4, <2>5 DEF PracticeInv, EarningsHold
<1>22. CopiesHold'
  BY <1>5, <1>7, <1>11, CopiesKept DEF PracticeInv
<1> QED
  BY <1>16, <1>18, <1>19, <1>20, <1>21, <1>22 DEF PracticeInv

-----------------------------------------------------------------------------
(* Progress, and the participant of the mission.                           *)

\* What EarningsHold asks of the stores.
StoresShow ==
  /\ "lesson" \in earned => progress = 100 \/ overlapped
  /\ "mission" \in earned => member.status = "completed" \/ reopened
  /\ progress = 100 => "lesson" \in earned
  /\ member.status = "completed" => "mission" \in earned

\* A step that stores progress or the participant, and no attempt.
LEMMA SaveStep ==
  ASSUME PracticeInv, NEW p \in Processes, NEW g, Becomes(p, g), FrameHolds(g), GrowthHolds(g),
         KeepsNumber(g), \A t \in Rewarded : KeepsMark(frame[p], g, t), KeepsAwards(frame[p], g),
         g.seen = 100 => "lesson" \in earned, StoresHold', CopiesHold', StoresShow',
         \A r \in earned' \ earned : r \notin Rewarded /\ (r \in ledger \/ Awards(g, r)),
         earned \subseteq earned', UNCHANGED <<attempts, ledger, evidence, uncertain, withdrawn>>
  PROVE  PracticeInv'
<1>1. /\ DOMAIN frame' = Processes
      /\ \A q \in Processes : FrameHolds(frame[q])' /\ GrowthHolds(frame[q])'
  BY FramesKept DEF PracticeInv
<1>2. NumbersHold'
  BY NumbersKept DEF PracticeInv
<1>3. \A t \in Rewarded : MarksHold(t)'
  BY MarksKept DEF PracticeInv
<1>4. EarningsHold'
  <2>1. \A r \in earned : r \in ledger' \/ uncertain' \/ \E q \in Processes : Awards(frame'[q], r)
    BY BookingsKept DEF PracticeInv, StoresHold
  <2>2. frame'[p] = g /\ \A q \in Processes : q # p => frame'[q] = frame[q]
    BY DEF PracticeInv, Becomes
  <2>3. \A r \in earned' : r \in ledger' \/ uncertain' \/ \E q \in Processes : Awards(frame'[q], r)
    BY <2>1, <2>2
  <2>4. \A q \in Processes : \A r : Awards(frame[q], r)' = Awards(frame'[q], r)
    BY DEF Awards
  <2>5. \A q \in Processes : frame'[q].seen = 100 => "lesson" \in earned'
    BY <2>2 DEF PracticeInv, EarningsHold
  <2>6. \A t \in Rewarded : t \in earned' => Passed(t)'
    BY DEF PracticeInv, EarningsHold, Passed
  <2> QED
    BY <2>3, <2>4, <2>5, <2>6 DEF EarningsHold, StoresShow
<1> QED
  BY <1>1, <1>2, <1>3, <1>4 DEF PracticeInv

LEMMA NextProgressIs ==
  ASSUME NEW seen \in {0, 50, 100}, NEW asked \in {50, 100}
  PROVE  NextProgress(seen, asked) = IF seen >= asked THEN seen ELSE asked
<1>1. PICK m : m = IF seen >= asked THEN seen ELSE asked
  OBVIOUS
<1>2. m \in {seen, asked} /\ \A y \in {seen, asked} : m >= y
  BY <1>1
<1>3. \A x \in {seen, asked} : (\A y \in {seen, asked} : x >= y) => x = m
  BY <1>1
<1> QED
  BY <1>1, <1>2, <1>3 DEF NextProgress, Max

LEMMA OneAndOne ==
  ASSUME NEW a, NEW b
  PROVE  <<a>> \o <<b>> = <<a, b>>
<1>. DEFINE S == {a, b}
            s == <<a>>
            u == <<b>>
            w == <<a, b>>
<1>1. s \in Seq(S) /\ Len(s) = 1 /\ s[1] = a /\ u \in Seq(S) /\ Len(u) = 1 /\ u[1] = b
  OBVIOUS
<1>2. w \in Seq(S) /\ Len(w) = 2 /\ w[1] = a /\ w[2] = b
  OBVIOUS
<1>. HIDE DEF S, s, u, w
<1>3. /\ s \o u \in Seq(S) /\ Len(s \o u) = 2
      /\ \A i \in 1..2 : (s \o u)[i] = IF i <= 1 THEN s[i] ELSE u[i - 1]
  <2>1. /\ s \o u \in Seq(S) /\ Len(s \o u) = Len(s) + Len(u)
        /\ \A i \in 1 .. Len(s) + Len(u) :
             (s \o u)[i] = IF i <= Len(s) THEN s[i] ELSE u[i - Len(s)]
    BY <1>1, ConcatProperties
  <2>2. Len(s) + Len(u) = 2
    BY <1>1
  <2>3. \A i \in 1..2 : (s \o u)[i] = IF i <= Len(s) THEN s[i] ELSE u[i - Len(s)]
    BY <2>1, <2>2, Zenon
  <2> QED
    BY <1>1, <2>1, <2>2, <2>3
<1>4. \A i \in 1..2 : (s \o u)[i] = w[i]
  BY <1>1, <1>2, <1>3
<1>5. s \o u = w
  BY <1>2, <1>3, <1>4, SeqEqual
<1> QED
  BY <1>5 DEF s, u, w

LEMMA WriteProgressKeeps ==
  ASSUME PracticeInv, NEW p \in Processes, WriteProgress(p)
  PROVE  PracticeInv'
<1>1. At(p, "write")
  BY DEF WriteProgress
<1>2. /\ frame[p].todo # <<>> /\ Arg(p) = ArgOf(frame[p].todo) /\ CallOf(frame[p].todo) = "write"
      /\ FrameHolds(frame[p]) /\ GrowthHolds(frame[p]) /\ CopyHolds(frame[p])
      /\ Onward(frame[p].op, frame[p].todo)
      /\ \/ frame[p].op = "quiz" /\ frame[p].todo = QuizPassed2 /\ Arg(p) = 100
         \/ frame[p].op \in {"half", "finish"} /\ frame[p].todo = Lesson1(frame[p].op) /\ Arg(p) \in {50, 100}
  BY <1>1, Called DEF Calls
<1>3. PICK next, asked, seen : next = NextProgress(seen, asked) /\ asked = Arg(p) /\ seen = frame[p].seen
  OBVIOUS
<1>4. /\ asked \in {50, 100} /\ seen \in {0, 50, 100} /\ progress \in {0, 50, 100}
      /\ seen = 100 => "lesson" \in earned
  BY <1>2, <1>3 DEF FrameHolds, PracticeInv, StoresHold, EarningsHold
<1>5. next \in {50, 100} /\ next >= seen /\ next >= asked /\ (seen = 100 => next = 100)
  BY <1>3, <1>4, NextProgressIs
<1>6. PICK script : script = IF next = 100 /\ seen # 100 THEN << <<"award", "lesson">> >> ELSE <<>>
  OBVIOUS
<1>7. PICK h : h = [frame[p] EXCEPT !.seen = 0]
  OBVIOUS
<1>8. PICK g : g = [h EXCEPT !.todo = script \o Tail(@)]
  OBVIOUS
<1>9. /\ Becomes(p, g) /\ progress' = next
      /\ earned' = IF next = 100 THEN earned \cup {"lesson"} ELSE earned
      /\ overlapped' = (overlapped \/ (next < progress /\ next >= seen))
      /\ UNCHANGED <<workload, limit, attempts, member, ledger, evidence, uncertain, withdrawn, reopened>>
  BY <1>3, <1>6, <1>7, <1>8 DEF WriteProgress, Then, Becomes, Earn, catalog, mission, bounds
<1>10. /\ DOMAIN g = Fields /\ g.op = frame[p].op /\ g.todo = script \o Tail(frame[p].todo)
       /\ g.limit = frame[p].limit /\ g.number = frame[p].number /\ g.seen = 0 /\ g.copy = frame[p].copy
       /\ g.new = frame[p].new
  BY <1>2, <1>7, <1>8 DEF FrameHolds, Fields
<1>11. /\ g.todo \in Left(g.op)
       /\ \A u : Marks(g, u) <=> Marks(frame[p], u)
       /\ \A u : ~Submits(g, u)
       /\ next = 100 /\ seen # 100 => Awards(g, "lesson")
  <2>1. CASE frame[p].op = "quiz"
    <3>1. frame[p].todo = QuizPassed2
      BY <1>2, <2>1
    <3>2. g.todo \in {QuizLearned, QuizPassed1} /\ (next = 100 /\ seen # 100 => g.todo = QuizLearned)
      <4>1. Tail(QuizPassed2) = QuizPassed1 /\ << <<"award", "lesson">> >> \o QuizPassed1 = QuizLearned
        <5>1. Tail(QuizPassed2) = QuizPassed1
          BY DEF QuizPassed2, QuizPassed1
        <5>2. << <<"award", "lesson">> >> \o << <<"mark", "quiz">> >>
                = << <<"award", "lesson">>, <<"mark", "quiz">> >>
          BY OneAndOne
        <5> QED
          BY <5>1, <5>2, Zenon DEF QuizPassed1, QuizLearned
      <4>2. <<>> \o QuizPassed1 = QuizPassed1
        BY DEF QuizPassed1
      <4> QED
        BY <1>6, <1>10, <3>1, <4>1, <4>2
    <3>3. g.todo \in Left("quiz")
      BY <3>2, LeftOf
    <3>4. \A u : Marks(g, u) <=> Marks(frame[p], u)
      BY <1>10, <2>1, <3>1, <3>2 DEF Marks, MarksAt
    <3>5. \A u : ~Submits(g, u)
      BY ZenonT(60), <1>10, <2>1, <3>2, QuizCalls DEF Submits, SubmitsAt, Goes, Assessments
    <3>6. next = 100 /\ seen # 100 => Awards(g, "lesson")
      BY <1>10, <2>1, <3>2 DEF Awards, AwardsAt
    <3> QED
      BY <1>10, <2>1, <3>3, <3>4, <3>5, <3>6
  <2>2. CASE frame[p].op \in {"half", "finish"}
    <3>1. frame[p].todo = Lesson1(frame[p].op)
      BY <1>2, <2>2
    <3>2. g.todo \in {Learned, Nothing} /\ (next = 100 /\ seen # 100 => g.todo = Learned)
      <4>1. /\ Tail(Lesson1(frame[p].op)) = <<>> /\ << <<"award", "lesson">> >> \o <<>> = Learned
            /\ <<>> \o <<>> = Nothing
        BY DEF Lesson1, Learned, Nothing
      <4> QED
        BY ZenonT(60), <1>6, <1>10, <3>1, <4>1
    <3>3. g.todo \in Left(g.op)
      BY <1>10, <2>2, <3>2, LeftOf
    <3>4. \A u : ~Marks(g, u) /\ ~Marks(frame[p], u) /\ ~Submits(g, u)
      BY <1>10, <2>2 DEF Marks, MarksAt, Submits, SubmitsAt, Assessments
    <3>5. next = 100 /\ seen # 100 => Awards(g, "lesson")
      BY <1>10, <2>2, <3>2 DEF Awards, AwardsAt
    <3> QED
      BY <3>3, <3>4, <3>5
  <2> QED
    BY <1>2, <2>1, <2>2
<1>12. FrameHolds(g)
  <2>1. g.new => Marks(g, g.op)
    BY <1>2, <1>10, <1>11 DEF FrameHolds, Nothing
  <2> QED
    BY <1>2, <1>10, <1>11, <2>1 DEF FrameHolds
<1>13. \A r : ~Awards(frame[p], r)
  BY <1>2 DEF Onward, Awards
<1>14. GrowthHolds(g) /\ CopyHolds(g)
  BY <1>2, <1>10 DEF GrowthHolds, CopyHolds
<1>15. KeepsNumber(g) /\ KeepsAwards(frame[p], g)
  BY <1>11, <1>13 DEF KeepsNumber, KeepsAwards
<1>16. \A t \in Rewarded : KeepsMark(frame[p], g, t)
  BY <1>9, <1>10, <1>11, <1>13 DEF KeepsMark
<1>17. StoresHold'
  <2>1. earned' \subseteq Resources /\ progress' \in {0, 50, 100}
    BY <1>5, <1>9 DEF PracticeInv, StoresHold, Resources
  <2>2. overlapped' \in BOOLEAN
    BY <1>9
  <2> QED
    BY <1>9, <2>1, <2>2 DEF PracticeInv, StoresHold
<1>18. CopiesHold'
  BY <1>9, <1>14, CopiesKept DEF PracticeInv
<1>19. StoresShow'
  <2>1. "lesson" \in earned' => next = 100 \/ overlapped'
    <3>1. CASE next = 100
      BY <3>1
    <3>2. CASE next # 100
      <4>1. next = 50 /\ earned' = earned
        BY <1>5, <1>9, <3>2
      <4>2. "lesson" \in earned => progress = 100 \/ overlapped
        BY DEF PracticeInv, EarningsHold
      <4>3. progress = 100 => next < progress
        BY <4>1
      <4> QED
        BY <1>5, <1>9, <4>1, <4>2, <4>3
    <3> QED
      BY <3>1, <3>2
  <2>2. next = 100 => "lesson" \in earned'
    BY <1>9
  <2>3. "mission" \in earned' <=> "mission" \in earned
    BY <1>9
  <2> QED
    BY <1>9, <2>1, <2>2, <2>3 DEF StoresShow, PracticeInv, EarningsHold
<1>20. \A r \in earned' \ earned : r \notin Rewarded /\ (r \in ledger \/ Awards(g, r))
  BY <1>4, <1>9, <1>11 DEF Rewarded
<1>21. earned \subseteq earned' /\ g.seen # 100
  BY <1>9, <1>10
<1> QED
  BY <1>9, <1>12, <1>14, <1>15, <1>16, <1>17, <1>18, <1>19, <1>20, <1>21, SaveStep

LEMMA JoinKeeps ==
  ASSUME PracticeInv, NEW p \in Processes, Join(p)
  PROVE  PracticeInv'
<1>1. At(p, "enter") /\ Return(p)
  BY DEF Join
<1>2. PICK g : g = [frame[p] EXCEPT !.todo = <<>> \o Tail(@)]
  OBVIOUS
<1>3. /\ frame[p].todo # <<>> /\ CallOf(frame[p].todo) = "enter"
      /\ FrameHolds(frame[p]) /\ GrowthHolds(frame[p]) /\ CopyHolds(frame[p])
      /\ Onward(frame[p].op, frame[p].todo) /\ Calls(frame[p].op, frame[p].todo)
  BY <1>1, Called
<1>4. /\ Becomes(p, g)
      /\ UNCHANGED <<workload, limit, attempts, progress, evidence, ledger, earned, uncertain, withdrawn,
                     overlapped, reopened>>
  BY <1>1, <1>2 DEF Join, Return, Then, Becomes, catalog, bounds, history
<1>5. /\ Forward(frame[p], g) /\ g.number = frame[p].number /\ g.new = frame[p].new
      /\ g.rows = frame[p].rows /\ g.seen = frame[p].seen /\ g.copy = frame[p].copy
  BY <1>2, <1>3 DEF FrameHolds, Forward, Fields, Rest
<1>6. /\ FrameHolds(g) /\ g.todo # Growth2
      /\ \A t : ~Submits(g, t)
      /\ \A t : Marks(g, t) <=> Marks(frame[p], t)
      /\ \A r : Awards(frame[p], r) => Awards(g, r)
  BY <1>3, <1>5, Forwards
<1>7. /\ \A t : ~Marks(frame[p], t)
      /\ \A r : ~Awards(frame[p], r)
  BY <1>3 DEF Onward, Marks, Awards
<1>8. GrowthHolds(g) /\ (g.seen = 100 => "lesson" \in earned)
  BY <1>3, <1>5 DEF GrowthHolds, Forward, Calls, PracticeInv, EarningsHold
<1>9. /\ member \in Member /\ member' \in Member /\ member'.version = member.version /\ member'.done = member.done
      /\ member'.status = member.status \/ (member.status = "none" /\ member'.status = "joined")
  <2>1. member \in Member
    BY DEF PracticeInv, StoresHold
  <2>2. CASE member = Absent
    <3>1. member' = [Absent EXCEPT !.status = "joined"]
      BY <2>2 DEF Join
    <3> QED
      BY <2>2, <3>1 DEF Absent, Member
  <2>3. CASE member # Absent
    BY <2>1, <2>3 DEF Join
  <2> QED
    BY <2>1, <2>2, <2>3
<1>10. StoresHold' /\ StoresShow'
  BY <1>4, <1>9 DEF PracticeInv, StoresHold, StoresShow, EarningsHold
<1>11. CopiesHold'
  <2>1. \A q \in Processes : frame'[q].copy = frame[q].copy
    BY <1>4, <1>5 DEF Becomes, PracticeInv
  <2>2. \A q \in Processes : CopyHolds(frame[q])'
    BY <1>9, <2>1 DEF CopyHolds, PracticeInv, CopiesHold
  <2>3. member'.version = 0 => member'.done = {}
    BY <1>9 DEF PracticeInv, CopiesHold
  <2> QED
    BY <2>2, <2>3 DEF CopiesHold
<1>12. KeepsNumber(g) /\ KeepsAwards(frame[p], g) /\ \A t \in Rewarded : KeepsMark(frame[p], g, t)
  BY <1>6, <1>7 DEF KeepsNumber, KeepsAwards, KeepsMark
<1> QED
  BY <1>4, <1>6, <1>8, <1>10, <1>11, <1>12, SaveStep

\* A copy that is saved is dropped, and what the participant is for others' copies stays.
LEMMA CopySaved ==
  ASSUME PracticeInv, NEW p \in Processes, NEW g, Becomes(p, g), g.copy = Absent, member' \in Member,
         \/ member'.version = member.version /\ member'.done = member.done
         \/ member'.version = member.version + 1
  PROVE  CopiesHold'
<1>1. member \in Member /\ member.version \in Nat /\ (member.version = 0 => member.done = {})
  BY DEF PracticeInv, StoresHold, CopiesHold, Member
<1>2. \A q \in Processes : CopyHolds(frame[q]) /\ frame[q].copy.version \in Nat
  BY DEF PracticeInv, CopiesHold, FrameHolds, Member
<1>3. frame'[p] = g /\ \A q \in Processes : q # p => frame'[q] = frame[q]
  BY DEF PracticeInv, Becomes
<1>4. Absent.version = 0 /\ Absent.done = {}
  BY DEF Absent
<1>5. member'.version = 0 => member'.done = {}
  BY <1>1
<1>6. ASSUME NEW q \in Processes
      PROVE  CopyHolds(frame[q])'
  <2>1. CASE q = p
    <3>1. frame'[q].copy = Absent
      BY <1>3, <2>1
    <3>2. 0 <= member'.version /\ (0 = member'.version => {} = member'.done)
      BY <1>1, <1>5
    <3> QED
      BY <1>4, <3>1, <3>2 DEF CopyHolds
  <2>2. CASE q # p
    BY <1>1, <1>2, <1>3, <2>2 DEF CopyHolds
  <2> QED
    BY <2>1, <2>2
<1> QED
  BY <1>5, <1>6 DEF CopiesHold

LEMMA SaveScoreKeeps ==
  ASSUME PracticeInv, NEW p \in Processes, SaveScore(p)
  PROVE  PracticeInv'
<1>1. At(p, "score")
  BY DEF SaveScore
<1>2. /\ frame[p].todo # <<>> /\ CallOf(frame[p].todo) = "score" /\ Arg(p) = ArgOf(frame[p].todo)
      /\ FrameHolds(frame[p]) /\ GrowthHolds(frame[p]) /\ CopyHolds(frame[p])
      /\ Onward(frame[p].op, frame[p].todo) /\ Calls(frame[p].op, frame[p].todo)
  BY <1>1, Called
<1>3. PICK t : t = Arg(p)
  OBVIOUS
<1>4. t \in Assessments /\ frame[p].op = t /\ (t = "followup" => frame[p].todo = Followup5)
  BY <1>2, <1>3 DEF Calls, Assessments
<1>5. PICK new : new = SaveStatus(p, IF t = "followup" THEN "completed" ELSE "progressing")
  OBVIOUS
<1>6. PICK h : h = [frame[p] EXCEPT !.copy = Absent]
  OBVIOUS
<1>7. PICK g : g = [h EXCEPT !.todo = <<>> \o Tail(@)]
  OBVIOUS
<1>8. /\ Becomes(p, g) /\ member' = [member EXCEPT !.scores = @ \cup {t}, !.status = new]
      /\ earned' = IF new = "completed" THEN earned \cup {"mission"} ELSE earned
      /\ reopened' = (reopened \/ (member.status = "completed" /\ new # "completed"))
      /\ UNCHANGED <<workload, limit, attempts, progress, evidence, ledger, uncertain, withdrawn, overlapped>>
  BY <1>3, <1>5, <1>6, <1>7 DEF SaveScore, Then, Becomes, Earn, Reopens, catalog, bounds
<1>9. member \in Member /\ Absent \in Member
  BY IdleHolds DEF PracticeInv, StoresHold, FrameHolds
<1>10. /\ new \in {"none", "joined", "progressing", "completed"}
       /\ new = "completed" => t = "followup" \/ member.status = "completed"
  BY <1>5, <1>9 DEF SaveStatus, Member
<1>11. /\ member' \in Member /\ member'.version = member.version /\ member'.done = member.done
       /\ member'.status = new
  BY <1>4, <1>8, <1>9, <1>10 DEF Member
<1>12. /\ Forward(frame[p], g) /\ g.number = frame[p].number /\ g.new = frame[p].new
       /\ g.seen = frame[p].seen /\ g.copy = Absent
  BY <1>2, <1>6, <1>7, <1>9 DEF FrameHolds, Forward, Fields, Rest
<1>13. /\ FrameHolds(g)
       /\ \A u : ~Submits(g, u)
       /\ \A u : Marks(g, u) <=> Marks(frame[p], u)
       /\ \A r : Awards(frame[p], r) => Awards(g, r)
  BY <1>2, <1>12, Forwards
<1>14. \A u : ~Marks(frame[p], u)
  BY <1>2 DEF Onward, Marks
<1>15. GrowthHolds(g) /\ (g.seen = 100 => "lesson" \in earned)
  BY <1>4, <1>12 DEF GrowthHolds, Forward, Assessments, PracticeInv, EarningsHold
<1>16. KeepsNumber(g) /\ KeepsAwards(frame[p], g) /\ \A u \in Rewarded : KeepsMark(frame[p], g, u)
  BY <1>13, <1>14 DEF KeepsNumber, KeepsAwards, KeepsMark
<1>17. StoresHold'
  BY <1>8, <1>11 DEF PracticeInv, StoresHold, Resources
<1>18. StoresShow'
  <2>1. "lesson" \in earned' <=> "lesson" \in earned
    BY <1>8
  <2>2. new = "completed" => "mission" \in earned'
    BY <1>8
  <2>3. "mission" \in earned' => new = "completed" \/ reopened'
    BY <1>8 DEF PracticeInv, EarningsHold
  <2> QED
    BY <1>8, <1>11, <2>1, <2>2, <2>3 DEF PracticeInv, EarningsHold, StoresShow
<1>19. CopiesHold'
  BY <1>8, <1>11, <1>12, CopySaved
<1>20. \A r \in earned' \ earned : r \notin Rewarded /\ (r \in ledger \/ Awards(g, r))
  <2>1. t = "followup" => Awards(g, "mission")
    BY <1>4, <1>13 DEF Awards, AwardsAt
  <2>2. member.status = "completed" => "mission" \in earned
    BY DEF PracticeInv, EarningsHold
  <2> QED
    BY <1>8, <1>10, <2>1, <2>2 DEF Rewarded
<1>21. earned \subseteq earned'
  BY <1>8
<1> QED
  BY <1>8, <1>13, <1>15, <1>16, <1>17, <1>18, <1>19, <1>20, <1>21, SaveStep

LEMMA CompleteScenarioKeeps ==
  ASSUME PracticeInv, NEW p \in Processes, CompleteScenario(p)
  PROVE  PracticeInv'
<1>1. At(p, "respond")
  BY DEF CompleteScenario
<1>2. /\ frame[p].todo # <<>> /\ CallOf(frame[p].todo) = "respond"
      /\ FrameHolds(frame[p]) /\ GrowthHolds(frame[p]) /\ CopyHolds(frame[p])
      /\ Onward(frame[p].op, frame[p].todo) /\ Calls(frame[p].op, frame[p].todo)
  BY <1>1, Called
<1>3. CASE ~SameVersion(p)
  <2>1. Raise(p) /\ LeavesStores /\ Advances
    BY <1>3 DEF CompleteScenario, LeavesStores, Advances, catalog, bounds, PracticeInv, StoresHold
  <2> QED
    BY <1>1, <2>1, RaiseStep
<1>4. CASE SameVersion(p)
  <2>1. PICK new : new = SaveStatus(p, "progressing")
    OBVIOUS
  <2>2. PICK h : h = [frame[p] EXCEPT !.copy = Absent]
    OBVIOUS
  <2>3. PICK g : g = [h EXCEPT !.todo = <<>> \o Tail(@)]
    OBVIOUS
  <2>4. PICK s \in Scenarios :
          /\ Becomes(p, g)
          /\ member' = [member EXCEPT !.done = frame[p].copy.done \cup {s}, !.status = new, !.version = @ + 1]
          /\ reopened' = (reopened \/ (member.status = "completed" /\ new # "completed"))
          /\ UNCHANGED <<workload, limit, attempts, progress, evidence, ledger, earned, uncertain, withdrawn,
                         overlapped>>
    BY <1>4, <2>1, <2>2, <2>3 DEF CompleteScenario, Then, Becomes, Reopens, catalog, bounds
  <2>5. member \in Member /\ Absent \in Member /\ frame[p].copy \in Member
    BY <1>2, IdleHolds DEF PracticeInv, StoresHold, FrameHolds
  <2>6. /\ new \in {"none", "joined", "progressing", "completed"}
        /\ new = "completed" => member.status = "completed"
    BY <2>1, <2>5 DEF SaveStatus, Member
  <2>7. member' \in Member /\ member'.version = member.version + 1 /\ member'.status = new
    <3>1. /\ DOMAIN member = {"status", "scores", "done", "version"} /\ member.version \in Nat
          /\ member.scores \in SUBSET Assessments /\ frame[p].copy.done \in SUBSET Scenarios
      BY <2>5 DEF Member
    <3>2. frame[p].copy.done \cup {s} \in SUBSET Scenarios /\ member.version + 1 \in Nat
      BY <2>4, <3>1
    <3>3. /\ member'.status = new /\ member'.version = member.version + 1 /\ member'.scores = member.scores
          /\ member'.done = frame[p].copy.done \cup {s}
      BY <2>4, <3>1
    <3>4. member' = [status |-> member'.status, scores |-> member'.scores, done |-> member'.done,
                     version |-> member'.version]
      BY <2>4, <2>5 DEF Member
    <3> QED
      BY <2>6, <3>1, <3>2, <3>3, <3>4 DEF Member
  <2>8. /\ Forward(frame[p], g) /\ g.number = frame[p].number /\ g.new = frame[p].new
        /\ g.rows = frame[p].rows /\ g.seen = frame[p].seen /\ g.copy = Absent
    BY <1>2, <2>2, <2>3, <2>5 DEF FrameHolds, Forward, Fields, Rest
  <2>9. /\ FrameHolds(g) /\ g.todo # Growth2
        /\ \A u : ~Submits(g, u)
        /\ \A u : Marks(g, u) <=> Marks(frame[p], u)
        /\ \A r : Awards(frame[p], r) => Awards(g, r)
    BY <1>2, <2>8, Forwards
  <2>10. \A u : ~Marks(frame[p], u)
    BY <1>2 DEF Onward, Marks
  <2>11. GrowthHolds(g) /\ (g.seen = 100 => "lesson" \in earned)
    BY <1>2, <2>8 DEF GrowthHolds, Forward, Calls, PracticeInv, EarningsHold
  <2>12. KeepsNumber(g) /\ KeepsAwards(frame[p], g) /\ \A u \in Rewarded : KeepsMark(frame[p], g, u)
    BY <2>9, <2>10 DEF KeepsNumber, KeepsAwards, KeepsMark
  <2>13. StoresHold'
    BY <2>4, <2>7 DEF PracticeInv, StoresHold
  <2>14. StoresShow'
    BY <2>4, <2>6, <2>7 DEF PracticeInv, EarningsHold, StoresShow
  <2>15. CopiesHold'
    BY <2>4, <2>7, <2>8, CopySaved
  <2>16. earned' = earned
    BY <2>4
  <2> QED
    BY <2>4, <2>9, <2>11, <2>12, <2>13, <2>14, <2>15, <2>16, SaveStep
<1> QED
  BY <1>3, <1>4

-----------------------------------------------------------------------------
(* The invariant holds.                                                    *)

LEMMA StepKeeps ==
  ASSUME PracticeInv, NEW p \in Processes, Step(p)
  PROVE  PracticeInv'
<1>1. ASSUME FindQuiz(p) \/ RefreshStatuses(p) \/ FindChallenge(p) \/ CountAttempts(p)
      PROVE  PracticeInv'
  BY <1>1, FindQuizKeeps, RefreshStatusesKeeps, FindChallengeKeeps, CountAttemptsKeeps
<1>2. ASSUME SubmitQuiz(p) \/ SubmitChallenge(p) \/ SubmitAssessment(p) \/ Award(p) \/ MarkAttempt(p)
      PROVE  PracticeInv'
  BY <1>2, SubmitQuizKeeps, SubmitChallengeKeeps, SubmitAssessmentKeeps, AwardKeeps, MarkAttemptKeeps
<1>3. ASSUME FindLesson(p) \/ ReadProgress(p) \/ WriteProgress(p)
      PROVE  PracticeInv'
  BY <1>3, FindLessonKeeps, ReadProgressKeeps, WriteProgressKeeps
<1>4. ASSUME Join(p) \/ LoadMember(p) \/ FollowUpReady(p) \/ SaveScore(p) \/ CompleteScenario(p)
      PROVE  PracticeInv'
  BY <1>4, JoinKeeps, LoadMemberKeeps, FollowUpReadyKeeps, SaveScoreKeeps, CompleteScenarioKeeps
<1>5. ASSUME RecordEvidence(p) \/ ReadEvidence(p) \/ WriteGrowth(p) \/ Reconcile(p)
      PROVE  PracticeInv'
  BY <1>5, RecordEvidenceKeeps, ReadEvidenceKeeps, WriteGrowthKeeps, ReconcileKeeps
<1>6. ASSUME CheckPublishable(p) \/ SavePublished(p) \/ SaveArchived(p) \/ Audit(p) \/ CreateLesson(p)
               \/ AttachLesson(p) \/ Reply(p)
      PROVE  PracticeInv'
  BY <1>6, CheckPublishableKeeps, SavePublishedKeeps, SaveArchivedKeeps, AuditKeeps, CreateLessonKeeps,
     AttachLessonKeeps, ReplyKeeps
<1> QED
  BY <1>1, <1>2, <1>3, <1>4, <1>5, <1>6 DEF Step

\* Nothing but the catalog changes.
LEMMA CatalogStep ==
  ASSUME PracticeInv, limit' \in [Tests -> 1..MaxAttempts],
         UNCHANGED <<workload, attempts, progress, mission, ledger, frame, history>>
  PROVE  PracticeInv'
<1>1. UNCHANGED <<member, evidence, growth, earned, uncertain, withdrawn, overlapped, reopened>>
  BY DEF mission, history
<1>2. StoresHold'
  BY <1>1 DEF PracticeInv, StoresHold
<1>3. NumbersHold'
  BY DEF PracticeInv, NumbersHold, Submits
<1>4. \A t \in Rewarded : MarksHold(t)'
  BY <1>1 DEF PracticeInv, MarksHold, Marks, Awards
<1>5. EarningsHold'
  BY <1>1 DEF PracticeInv, EarningsHold, Awards, Passed
<1>6. CopiesHold'
  BY <1>1 DEF PracticeInv, CopiesHold, CopyHolds
<1>7. DOMAIN frame' = Processes /\ \A p \in Processes : FrameHolds(frame[p])' /\ GrowthHolds(frame[p])'
  <2>1. \A p \in Processes : FrameHolds(frame[p])'
    <3>1. \A p \in Processes : FrameHolds(frame[p]) /\ frame'[p] = frame[p]
      BY DEF PracticeInv
    <3>2. \A p \in Processes : FrameHolds(frame[p])' = FrameHolds(frame'[p])
      BY DEF FrameHolds, Marks
    <3> QED
      BY <3>1, <3>2
  <2>2. \A p \in Processes : GrowthHolds(frame[p])'
    BY <1>1 DEF PracticeInv, GrowthHolds
  <2> QED
    BY <2>1, <2>2 DEF PracticeInv
<1> QED
  BY <1>2, <1>3, <1>4, <1>5, <1>6, <1>7 DEF PracticeInv

LEMMA NextKeeps ==
  ASSUME PracticeInv, [Next]_vars
  PROVE  PracticeInv'
<1>1. limit \in [Tests -> 1..MaxAttempts]
  BY DEF PracticeInv, StoresHold
<1>2. ASSUME UNCHANGED vars
      PROVE  PracticeInv'
  BY <1>1, <1>2, CatalogStep DEF vars, catalog, bounds
<1>3. ASSUME MoveWindow \/ UpdateLimit
      PROVE  PracticeInv'
  <2>1. UNCHANGED <<workload, attempts, progress, mission, ledger, frame, history>>
    BY <1>3 DEF MoveWindow, UpdateLimit, EditorsAct
  <2>2. limit' \in [Tests -> 1..MaxAttempts]
    BY <1>1, <1>3 DEF MoveWindow, UpdateLimit
  <2> QED
    BY <2>1, <2>2, CatalogStep
<1>4. ASSUME NEW p \in Processes,
             \/ Request(p) \/ Step(p) \/ Crash(p)
             \/ Publish(p) \/ ArchiveLearning(p) \/ ArchiveQuiz(p) \/ ArchiveChallenge(p) \/ WriteLesson(p)
      PROVE  PracticeInv'
  BY <1>4, RequestKeeps, StepKeeps, CrashKeeps, ChangesKeep
<1> QED
  BY <1>2, <1>3, <1>4 DEF Next

LEMMA InitHolds ==
  ASSUME Init
  PROVE  PracticeInv
<1>1. frame = [p \in Processes |-> Idle] /\ attempts = [t \in Tests |-> <<>>] /\ member = Absent
      /\ limit = [t \in Tests |-> MaxAttempts] /\ ledger = {} /\ earned = {} /\ progress = 0
      /\ uncertain = FALSE /\ withdrawn = FALSE /\ overlapped = FALSE /\ reopened = FALSE
      /\ workload \in Workloads
  BY DEF Init
<1>2. \A p \in Processes : frame[p] = Idle
  BY <1>1
<1>3. member \in Member /\ member.version = 0 /\ member.done = {} /\ member.status = "none"
  BY <1>1 DEF Absent, Member
<1>4. /\ \A t \in Tests : attempts[t] = <<>> /\ Len(attempts[t]) = 0 /\ DOMAIN attempts[t] = {}
      /\ attempts \in [Tests -> Seq(Attempt)]
  BY <1>1
<1>5. StoresHold
  <2>1. limit \in [Tests -> 1..MaxAttempts]
    BY <1>1, PracticeAssumption
  <2> QED
    BY <1>1, <1>3, <1>4, <2>1 DEF StoresHold
<1>6. NumbersHold
  BY <1>2, <1>4, IdleHolds, PracticeAssumption DEF NumbersHold
<1>7. \A t \in Rewarded : MarksHold(t)
  BY <1>2, <1>4, IdleHolds DEF MarksHold, Rewarded, Tests
<1>8. EarningsHold
  BY <1>1, <1>2, <1>3, IdleHolds DEF EarningsHold
<1>9. CopiesHold
  BY <1>1, <1>2, <1>3, IdleHolds DEF CopiesHold, CopyHolds
<1>10. DOMAIN frame = Processes /\ \A p \in Processes : FrameHolds(frame[p]) /\ GrowthHolds(frame[p])
  BY <1>1, <1>2, IdleHolds
<1> QED
  BY <1>5, <1>6, <1>7, <1>8, <1>9, <1>10 DEF PracticeInv

\* The inductive invariant: what every request has left to do, what it knows, and what the
\* stores hold meanwhile, fit together.
THEOREM PracticeHolds == Spec => []PracticeInv
<1>1. Init => PracticeInv
  BY InitHolds
<1>2. PracticeInv /\ [Next]_vars => PracticeInv'
  BY NextKeeps
<1> QED
  BY <1>1, <1>2, PTL DEF Spec

-----------------------------------------------------------------------------
(* What is earned.                                                         *)

LEMMA AtMostOne ==
  ASSUME NEW S, \A i, j \in S : i = j
  PROVE  Cardinality(S) <= 1
<1>1. CASE S = {}
  BY <1>1, FS_EmptySet
<1>2. CASE S # {}
  <2>1. PICK i \in S : TRUE
    BY <1>2
  <2>2. S = {i}
    BY <2>1
  <2>3. Cardinality({i}) = 1
    BY FS_Singleton, Zenon
  <2> QED
    BY <2>2, <2>3
<1> QED
  BY <1>1, <1>2

LEMMA CompletionsFollow ==
  ASSUME PracticeInv
  PROVE  CompletionsHold
<1>1. AttemptsWithinLimit
  BY DEF PracticeInv, NumbersHold, AttemptsWithinLimit
<1>2. AtRest => \A p \in Processes : \A r : ~Marks(frame[p], r) /\ ~Awards(frame[p], r)
  BY DEF AtRest, Marks, MarksAt, Awards, AwardsAt
<1>3. RewardStates
  <2> SUFFICES ASSUME NEW t \in {"quiz", "challenge"}
               PROVE  LET with(s) == {i \in DOMAIN attempts[t] : attempts[t][i].reward = s} IN
                      /\ Cardinality(with("awarded")) <= 1
                      /\ with("awarded") \cup with("already") # {} => t \in ledger
                      /\ AtRest /\ ~uncertain /\ ~withdrawn => with("pending") = {}
    BY DEF RewardStates
  <2>. DEFINE with(s) == {i \in DOMAIN attempts[t] : attempts[t][i].reward = s}
  <2>1. MarksHold(t)
    BY DEF PracticeInv, Rewarded
  <2>2. Cardinality(with("awarded")) <= 1
    <3>1. \A i, j \in with("awarded") : i = j
      BY <2>1 DEF MarksHold
    <3> QED
      BY <3>1, AtMostOne
  <2>3. with("awarded") \cup with("already") # {} => t \in ledger
    BY <2>1 DEF MarksHold
  <2>4. AtRest /\ ~uncertain /\ ~withdrawn => with("pending") = {}
    BY <1>2, <2>1 DEF MarksHold
  <2> QED
    BY <2>2, <2>3, <2>4
<1>4. NothingEarnedIsLost
  <2> SUFFICES ASSUME AtRest, NEW r \in earned, r \notin ledger
               PROVE  \/ uncertain /\ r \in Facts
                      \/ uncertain /\ r = "lesson" /\ overlapped
                      \/ uncertain /\ r = "mission" /\ reopened
    BY DEF NothingEarnedIsLost
  <2>1. uncertain
    BY <1>2 DEF PracticeInv, EarningsHold
  <2>2. r \in {"quiz", "challenge", "lesson", "mission"}
    BY DEF PracticeInv, StoresHold, Resources
  <2>3. CASE r \in {"quiz", "challenge"}
    BY <2>1, <2>3 DEF PracticeInv, EarningsHold, Rewarded, Facts
  <2>4. CASE r = "lesson"
    BY <2>1, <2>4 DEF PracticeInv, EarningsHold, Facts
  <2>5. CASE r = "mission"
    BY <2>1, <2>5 DEF PracticeInv, EarningsHold, Facts
  <2> QED
    BY <2>2, <2>3, <2>4, <2>5
<1> QED
  BY <1>1, <1>3, <1>4 DEF CompletionsHold

\* No attempt beyond the limit, one reward for one completion and none lost ("retries and
\* later passing attempts cannot award the same completion twice",
\* docs/challenges-and-gamification.md:58), for any number of requests, attempts, changes
\* and crashes.
THEOREM CompletionsAreKept == Spec => []CompletionsHold
<1>1. PracticeInv => CompletionsHold
  BY CompletionsFollow
<1> QED
  BY <1>1, PracticeHolds, PTL

-----------------------------------------------------------------------------
(* What is kept.                                                           *)

KeepsWork == member.scores \subseteq member'.scores /\ member.done \subseteq member'.done

LEMMA StepKeepsWork ==
  ASSUME PracticeInv, NEW p \in Processes, Step(p)
  PROVE  KeepsWork \/ member' = member
<1>1. ASSUME FindQuiz(p) \/ RefreshStatuses(p) \/ FindChallenge(p) \/ CountAttempts(p)
      PROVE  member' = member
  BY <1>1 DEF FindQuiz, RefreshStatuses, FindChallenge, CountAttempts, mission
<1>2. ASSUME SubmitQuiz(p) \/ SubmitChallenge(p) \/ SubmitAssessment(p) \/ Award(p) \/ MarkAttempt(p)
      PROVE  member' = member
  BY <1>2 DEF SubmitQuiz, SubmitChallenge, SubmitAssessment, Create, Award, MarkAttempt, mission
<1>3. ASSUME FindLesson(p) \/ ReadProgress(p) \/ WriteProgress(p) \/ LoadMember(p) \/ FollowUpReady(p)
      PROVE  member' = member
  BY <1>3 DEF FindLesson, ReadProgress, WriteProgress, LoadMember, FollowUpReady, mission
<1>4. ASSUME RecordEvidence(p) \/ ReadEvidence(p) \/ WriteGrowth(p) \/ Reconcile(p)
      PROVE  member' = member
  BY <1>4 DEF RecordEvidence, ReadEvidence, WriteGrowth, Reconcile, mission
<1>5. ASSUME CheckPublishable(p) \/ SavePublished(p) \/ SaveArchived(p) \/ Audit(p) \/ CreateLesson(p)
               \/ AttachLesson(p) \/ Reply(p)
      PROVE  member' = member
  BY <1>5 DEF CheckPublishable, SavePublished, SaveArchived, Audit, CreateLesson, AttachLesson, Reply, mission
<1>6. member \in Member
  BY DEF PracticeInv, StoresHold
<1>7. ASSUME Join(p)
      PROVE  KeepsWork
  BY <1>6, <1>7 DEF Join, Absent, KeepsWork
<1>8. ASSUME SaveScore(p)
      PROVE  KeepsWork
  BY <1>6, <1>8 DEF SaveScore, Member, KeepsWork
<1>9. ASSUME CompleteScenario(p)
      PROVE  KeepsWork
  <2>1. CASE ~SameVersion(p)
    BY <1>9, <2>1 DEF CompleteScenario, KeepsWork
  <2>2. CASE SameVersion(p)
    <3>1. frame[p].copy.done = member.done
      BY <2>2 DEF SameVersion, PracticeInv, CopiesHold, CopyHolds
    <3>2. \E s \in Scenarios : \E new :
            member' = [member EXCEPT !.done = frame[p].copy.done \cup {s}, !.status = new, !.version = @ + 1]
      BY <1>9, <2>2 DEF CompleteScenario
    <3>3. member'.scores = member.scores /\ frame[p].copy.done \subseteq member'.done
      BY <1>6, <3>2 DEF Member
    <3> QED
      BY <3>1, <3>3 DEF KeepsWork
  <2> QED
    BY <2>1, <2>2
<1> QED
  BY <1>1, <1>2, <1>3, <1>4, <1>5, <1>7, <1>8, <1>9 DEF Step

LEMMA NextKeepsWork ==
  ASSUME PracticeInv, [Next]_vars
  PROVE  [KeepsWork]_member
<1>1. ASSUME UNCHANGED vars \/ MoveWindow \/ UpdateLimit
      PROVE  member' = member
  BY <1>1 DEF vars, mission, MoveWindow, UpdateLimit, EditorsAct
<1>2. ASSUME NEW p \in Processes, Request(p) \/ Crash(p)
      PROVE  member' = member
  BY <1>2 DEF Request, Start, Crash, mission
<1>3. ASSUME NEW p \in Processes,
             Publish(p) \/ ArchiveLearning(p) \/ ArchiveQuiz(p) \/ ArchiveChallenge(p) \/ WriteLesson(p)
      PROVE  member' = member
  BY <1>3 DEF Publish, ArchiveLearning, ArchiveQuiz, ArchiveChallenge, WriteLesson, Change, mission
<1> QED
  BY <1>1, <1>2, <1>3, StepKeepsWork DEF Next

LEMMA GrowthFollows ==
  ASSUME PracticeInv
  PROVE  GrowthAnswersWhole
<1> SUFFICES ASSUME NEW p \in Processes, frame[p].op = "growth", frame[p].todo = <<>>
             PROVE  frame[p].owed \subseteq frame[p].rows
  BY DEF GrowthAnswersWhole
<1>1. frame[p].todo # Growth2
  BY Ended DEF Nothing
<1> QED
  BY <1>1 DEF PracticeInv, GrowthHolds

\* No score and no finished scenario of a mission is lost again, and the growth profile
\* that is answered counts all evidence there was when it was asked for
\* (competency.service.ts:68), for any number of requests, changes and crashes.
THEOREM WorkStays == Spec => WorkIsKept
<1>1. PracticeInv /\ [Next]_vars => [KeepsWork]_member
  BY NextKeepsWork
<1>2. PracticeInv => GrowthAnswersWhole
  BY GrowthFollows
<1>3. Spec => [][KeepsWork]_member
  BY <1>1, PracticeHolds, PTL DEF Spec
<1>4. Spec => []GrowthAnswersWhole
  BY <1>2, PracticeHolds, PTL
<1> QED
  BY <1>3, <1>4 DEF WorkIsKept, MissionKeepsWork, KeepsWork

=============================================================================
