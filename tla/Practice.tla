------------------------------ MODULE Practice ------------------------------
(***************************************************************************)
(* What one user practises: lesson progress, quiz, challenge and mission   *)
(* attempts, and the growth profile (learning, quizzes, challenges,        *)
(* missions and competency services), while editors change the catalog.    *)
(*                                                                         *)
(* Requests interleave at every database call. A request is a script, the  *)
(* calls it has yet to make. The catalog has one course with two lessons,  *)
(* the second one being written, a quiz of the first, a challenge and a     *)
(* mission whose follow-up asks for that lesson and challenge. What an     *)
(* attempt scores is chosen by the user: it passes or fails. An award is   *)
(* one step here (Rewards models it).                                      *)
(***************************************************************************)
EXTENDS Integers, Sequences, FiniteSetsExt, SequencesExt

CONSTANTS
  Processes,          \* requests served at once
  Scenarios,          \* of the mission
  RequiredScenarios,  \* before the follow-up: completionCriteria
  Workloads,          \* what requests of a behaviour are for, and how many there are: a bound
  MaxAttempts,        \* the largest attempt limit
  MaxChanges, MaxCrashes \* bounds

Tests == {"quiz", "challenge", "baseline", "followup"}
Assessments == {"baseline", "followup"}
Operations == Tests \cup {"half", "finish", "join", "scenario", "growth", "repair", "editor"}

Content == {"course", "lesson", "lesson2", "quiz", "challenge"}

ASSUME PracticeAssumption ==
  /\ \A w \in Workloads : w.of \subseteq Operations /\ w.requests \in Nat
  /\ RequiredScenarios \in Nat
  /\ MaxAttempts \in Nat \ {0}
  /\ {MaxChanges, MaxCrashes} \subseteq Nat

VARIABLES
  workload,
  status,     \* of the course, the lessons, the quiz and the challenge
  listed,     \* the lessons of the course
  window,     \* of the challenge: "before" its publication, "open", "over"
  limit,      \* maxAttempts of each test; editors change those of quiz and challenge
  audit,      \* what was archived, in the audit log
  attempts,   \* of each test: attempt number |-> passed, reward
  progress,   \* of the lesson: 0, 50 or 100 percent
  member,     \* the mission participant
  evidence,   \* competency evidence: <<assessment, attempt number>>
  growth,     \* the evidence that the growth profile was computed from
  ledger,     \* the resources whose completion was rewarded
  frame, requests, changes, crashes,
  earned,     \* history: what was completed
  uncertain,  \* history: a request died
  withdrawn,  \* history: the lesson was not published any more
  overlapped, \* history: progress was written over a later value
  reopened    \* history: a completed mission went back to in progress

history == <<earned, uncertain, withdrawn, overlapped, reopened>>
catalog == <<status, listed, window, limit, audit>>
mission == <<member, evidence, growth>>
bounds == <<workload, requests, changes, crashes>>
vars == <<catalog, attempts, progress, mission, ledger, frame, bounds, history>>

Resources == {"quiz", "challenge", "lesson", "mission"}
Absent == [status |-> "none", scores |-> {}, done |-> {}, version |-> 0]
Idle == [op |-> "idle", todo |-> <<>>, limit |-> 0, number |-> 0, seen |-> 0, copy |-> Absent,
         was |-> "none", rows |-> {}, new |-> FALSE, owed |-> {}]

Init ==
  /\ workload \in Workloads
  /\ \E due \in BOOLEAN :
       /\ window = IF due THEN "open" ELSE "before"
       /\ status = [x \in Content |-> IF x = "lesson2" THEN "draft"
                                     ELSE IF x = "challenge" /\ ~due THEN "scheduled"
                                     ELSE "published"]
  /\ listed = {"lesson"}
  /\ limit = [t \in Tests |-> MaxAttempts]
  /\ audit = {}
  /\ attempts = [t \in Tests |-> <<>>]
  /\ progress = 0
  /\ member = Absent
  /\ evidence = {}
  /\ growth = {}
  /\ ledger = {}
  /\ frame = [p \in Processes |-> Idle]
  /\ requests = 0
  /\ changes = 0
  /\ crashes = 0
  /\ earned = {}
  /\ uncertain = FALSE
  /\ withdrawn = FALSE
  /\ overlapped = FALSE
  /\ reopened = FALSE

-----------------------------------------------------------------------------
(* Scripts.                                                                *)

Script(op) ==
  CASE op = "quiz"      -> << <<"findQuiz", op>>, <<"count", op>>, <<"submitQuiz", op>> >>
    [] op = "challenge" -> << <<"refresh", op>>, <<"findChallenge", op>>, <<"count", op>>,
                              <<"submitChallenge", op>> >>
    [] op = "baseline"  -> << <<"load", op>>, <<"count", op>>, <<"submitAssessment", op>> >>
    [] op = "followup"  -> << <<"load", op>>, <<"ready", op>>, <<"count", op>>,
                              <<"submitAssessment", op>> >>
    [] op = "scenario"  -> << <<"load", op>>, <<"respond", op>> >>
    [] op = "growth"    -> << <<"rows", op>>, <<"rebuild", op>> >>
    [] op = "half"      -> << <<"lesson", op>>, <<"read", op>>, <<"write", 50>> >>
    [] op = "finish"    -> << <<"lesson", op>>, <<"read", op>>, <<"write", 100>> >>
    [] op = "join"      -> << <<"enter", op>> >>
    [] op = "repair"    -> << <<"reconcile", op>> >>

At(p, call) == frame[p].todo # <<>> /\ Head(frame[p].todo)[1] = call
Arg(p) == Head(frame[p].todo)[2]
\* The call returned: f is what the request knows now, script what it does first.
Then(p, f, script) == frame' = [frame EXCEPT ![p] = [f EXCEPT !.todo = script \o Tail(@)]]
Return(p) == Then(p, frame[p], <<>>)
\* The call raised: the request ends with an error.
Raise(p) == frame' = [frame EXCEPT ![p] = Idle]

Start(p, op, script) ==
  /\ frame[p].op = "idle"
  /\ requests < workload.requests
  /\ requests' = requests + 1
  /\ frame' = [frame EXCEPT ![p] = [Idle EXCEPT !.op = op, !.todo = script,
                                            !.owed = IF op = "growth" THEN evidence ELSE {}]]
  /\ UNCHANGED <<workload, changes, crashes, catalog, attempts, progress, mission, ledger,
                 history>>

Request(p) == \E op \in workload.of \ {"editor"} : Start(p, op, Script(op))

Reply(p) ==
  /\ frame[p].op # "idle" /\ frame[p].todo = <<>>
  /\ Raise(p)
  /\ UNCHANGED <<catalog, attempts, progress, mission, ledger, bounds, history>>

Crash(p) ==
  /\ frame[p].op # "idle"
  /\ crashes < MaxCrashes
  /\ crashes' = crashes + 1
  /\ Raise(p)
  /\ uncertain' = TRUE
  /\ UNCHANGED <<workload, requests, changes, catalog, attempts, progress, mission, ledger,
                 earned, withdrawn, overlapped, reopened>>

-----------------------------------------------------------------------------
(* Attempts: count what there is, then create the next number.             *)

FindQuiz(p) ==
  /\ At(p, "findQuiz")
  /\ IF status["quiz"] = "published"
     THEN Then(p, [frame[p] EXCEPT !.limit = limit["quiz"]], <<>>)
     ELSE Raise(p)
  /\ UNCHANGED <<catalog, attempts, progress, mission, ledger, bounds, history>>

\* refreshStatuses: what is due is published, what is over expires.
RefreshStatuses(p) ==
  /\ At(p, "refresh")
  /\ status' = [status EXCEPT !["challenge"] =
       IF @ = "scheduled" /\ window = "open" THEN "published"
       ELSE IF @ \in {"scheduled", "published"} /\ window = "over" THEN "expired" ELSE @]
  /\ Return(p)
  /\ UNCHANGED <<listed, window, limit, audit, attempts, progress, mission, ledger, bounds,
                 history>>

FindChallenge(p) ==
  /\ At(p, "findChallenge")
  /\ IF status["challenge"] = "published" /\ window = "open"
     THEN Then(p, [frame[p] EXCEPT !.limit = limit["challenge"]], <<>>)
     ELSE Raise(p)
  /\ UNCHANGED <<catalog, attempts, progress, mission, ledger, bounds, history>>

CountAttempts(p) ==
  LET prior == Len(attempts[Arg(p)]) IN
  /\ At(p, "count")
  /\ IF prior < frame[p].limit
     THEN Then(p, [frame[p] EXCEPT !.limit = 0, !.number = prior + 1], <<>>)
     ELSE Raise(p)
  /\ UNCHANGED <<catalog, attempts, progress, mission, ledger, bounds, history>>

Taken(t, n) == n <= Len(attempts[t])

Earn(r) == earned' = earned \cup {r}

\* The next attempt: its number is free, or the request ends with a conflict.
Create(p, t, passed, reward, script) ==
  /\ IF Taken(t, frame[p].number)
     THEN Raise(p) /\ UNCHANGED attempts
     ELSE /\ attempts' = [attempts EXCEPT ![t] = Append(@, [passed |-> passed, reward |-> reward])]
          /\ Then(p, frame[p], script)
  /\ UNCHANGED <<catalog, progress, mission, ledger, bounds, uncertain, withdrawn, overlapped,
                 reopened>>

Due(passed) == IF passed THEN "pending" ELSE "none"
\* The resource was completed when the attempt is stored.
Completes(p, t, passed) ==
  IF passed /\ ~Taken(t, frame[p].number) THEN Earn(t) ELSE UNCHANGED earned

SubmitQuiz(p) ==
  /\ At(p, "submitQuiz")
  /\ \E passed \in BOOLEAN :
       /\ Create(p, "quiz", passed, Due(passed),
            IF passed
            THEN << <<"award", "quiz">>, <<"lesson", "quiz">>, <<"read", "quiz">>,
                    <<"write", 100>>, <<"mark", "quiz">> >>
            ELSE <<>>)
       /\ Completes(p, "quiz", passed)

SubmitChallenge(p) ==
  /\ At(p, "submitChallenge")
  /\ \E passed \in BOOLEAN :
       /\ Create(p, "challenge", passed, Due(passed),
            IF passed THEN << <<"award", "challenge">>, <<"mark", "challenge">> >> ELSE <<>>)
       /\ Completes(p, "challenge", passed)

\* Whatever it scored: an assessment has no reward state of its own.
SubmitAssessment(p) ==
  /\ At(p, "submitAssessment")
  /\ Create(p, Arg(p), FALSE, "none",
       << <<"score", Arg(p)>>, <<"record", Arg(p)>>, <<"rows", Arg(p)>>, <<"rebuild", Arg(p)>> >>
         \o (IF Arg(p) = "followup" THEN << <<"award", "mission">> >> ELSE <<>>))
  /\ UNCHANGED earned

\* gamification.award: the reference of the resource is awarded once.
Award(p) ==
  /\ At(p, "award")
  /\ ledger' = ledger \cup {Arg(p)}
  /\ Then(p, [frame[p] EXCEPT !.new = IF Arg(p) \in Tests THEN Arg(p) \notin ledger ELSE @], <<>>)
  /\ UNCHANGED <<catalog, attempts, progress, mission, bounds, history>>

\* Mutant: every completion says that it was awarded.
AlwaysAwarded(f) == "awarded"
RewardState(f) == IF f.new THEN "awarded" ELSE "already"

MarkAttempt(p) ==
  /\ At(p, "mark")
  /\ attempts' = [attempts EXCEPT ![Arg(p)][frame[p].number].reward = RewardState(frame[p])]
  /\ Return(p)
  /\ UNCHANGED <<catalog, progress, mission, ledger, bounds, history>>

-----------------------------------------------------------------------------
(* learning.updateProgress.                                                *)

FindLesson(p) ==
  /\ At(p, "lesson")
  /\ IF status["lesson"] = "published"
     THEN Return(p) /\ UNCHANGED withdrawn
     ELSE Raise(p) /\ withdrawn' = TRUE
  /\ UNCHANGED <<catalog, attempts, progress, mission, ledger, bounds, earned, uncertain,
                 overlapped, reopened>>

ReadProgress(p) ==
  /\ At(p, "read")
  /\ Then(p, [frame[p] EXCEPT !.seen = progress], <<>>)
  /\ UNCHANGED <<catalog, attempts, progress, mission, ledger, bounds, history>>

NextProgress(seen, asked) == Max({seen, asked})

WriteProgress(p) ==
  LET next == NextProgress(frame[p].seen, Arg(p)) IN
  /\ At(p, "write")
  /\ progress' = next
  /\ Then(p, [frame[p] EXCEPT !.seen = 0],
          IF next = 100 /\ frame[p].seen # 100 THEN << <<"award", "lesson">> >> ELSE <<>>)
  /\ IF next = 100 THEN Earn("lesson") ELSE UNCHANGED earned
  /\ overlapped' = (overlapped \/ (next < progress /\ next >= frame[p].seen))
  /\ UNCHANGED <<catalog, attempts, mission, ledger, bounds, uncertain, withdrawn, reopened>>

-----------------------------------------------------------------------------
(* The mission: a participant is loaded, changed and saved.                *)

Join(p) ==
  /\ At(p, "enter")
  /\ member' = IF member = Absent THEN [Absent EXCEPT !.status = "joined"] ELSE member
  /\ Return(p)
  /\ UNCHANGED <<catalog, attempts, progress, evidence, growth, ledger, bounds, history>>

LoadMember(p) ==
  /\ At(p, "load")
  /\ IF member = Absent \/ (Arg(p) = "followup" /\ "baseline" \notin member.scores)
     THEN Raise(p)
     ELSE Then(p, [frame[p] EXCEPT !.copy = member, !.limit = MaxAttempts], <<>>)
  /\ UNCHANGED <<catalog, attempts, progress, mission, ledger, bounds, history>>

PassedChallenge == \E i \in DOMAIN attempts["challenge"] : attempts["challenge"][i].passed
\* assertFollowUpReady, of the loaded participant and what is linked.
FollowUpReady(p) ==
  /\ At(p, "ready")
  /\ IF Cardinality(frame[p].copy.done) >= RequiredScenarios /\ progress = 100 /\ PassedChallenge
     THEN Return(p) ELSE Raise(p)
  /\ UNCHANGED <<catalog, attempts, progress, mission, ledger, bounds, history>>

\* save() writes the fields that differ from the loaded document.
SaveStatus(p, new) == IF frame[p].copy.status = new THEN member.status ELSE new
Reopens(new) == reopened' = (reopened \/ (member.status = "completed" /\ new # "completed"))

SaveScore(p) ==
  LET t == Arg(p)
      new == SaveStatus(p, IF t = "followup" THEN "completed" ELSE "progressing")
  IN
  /\ At(p, "score")
  /\ member' = [member EXCEPT !.scores = @ \cup {t}, !.status = new]
  /\ IF new = "completed" THEN Earn("mission") ELSE UNCHANGED earned
  /\ Reopens(new)
  /\ Then(p, [frame[p] EXCEPT !.copy = Absent], <<>>)
  /\ UNCHANGED <<catalog, attempts, progress, evidence, growth, ledger, bounds, uncertain,
                 withdrawn, overlapped>>

\* Mutant: an array is written over whatever the document holds now.
AnyVersion(p) == TRUE
\* save() of an array asks for the version that was loaded.
SameVersion(p) == member.version = frame[p].copy.version

CompleteScenario(p) ==
  LET new == SaveStatus(p, "progressing") IN
  /\ At(p, "respond")
  /\ \E s \in Scenarios :
       IF SameVersion(p)
       THEN /\ member' = [member EXCEPT !.done = frame[p].copy.done \cup {s}, !.status = new,
                                       !.version = @ + 1]
            /\ Reopens(new)
            /\ Then(p, [frame[p] EXCEPT !.copy = Absent], <<>>)
       ELSE Raise(p) /\ UNCHANGED <<member, reopened>>
  /\ UNCHANGED <<catalog, attempts, progress, evidence, growth, ledger, bounds, earned,
                 uncertain, withdrawn, overlapped>>

-----------------------------------------------------------------------------
(* competencies: recordBatch, and the rebuild of the growth profile.       *)

RecordEvidence(p) ==
  /\ At(p, "record")
  /\ evidence' = evidence \cup {<<Arg(p), frame[p].number>>}
  /\ Return(p)
  /\ UNCHANGED <<catalog, attempts, progress, member, growth, ledger, bounds, history>>

ReadEvidence(p) ==
  /\ At(p, "rows")
  /\ Then(p, [frame[p] EXCEPT !.rows = evidence], <<>>)
  /\ UNCHANGED <<catalog, attempts, progress, mission, ledger, bounds, history>>

\* The rebuild is written whatever was rebuilt meanwhile.
WriteGrowth(p) ==
  /\ At(p, "rebuild")
  /\ growth' = frame[p].rows
  /\ Then(p, IF frame[p].op = "growth" THEN frame[p] ELSE [frame[p] EXCEPT !.rows = {}], <<>>)
  /\ UNCHANGED <<catalog, attempts, progress, member, evidence, ledger, bounds, history>>

Passed(t) == \E i \in DOMAIN attempts[t] : attempts[t][i].passed
\* The completions that the stores still show.
Facts ==
  {t \in {"quiz", "challenge"} : Passed(t)}
    \cup (IF progress = 100 THEN {"lesson"} ELSE {})
    \cup (IF member.status = "completed" THEN {"mission"} ELSE {})

\* A read of the achievements books what the stores show and no award has.
Reconcile(p) ==
  /\ At(p, "reconcile")
  /\ ledger' = ledger \cup Facts
  /\ Return(p)
  /\ UNCHANGED <<catalog, attempts, progress, mission, bounds, history>>

-----------------------------------------------------------------------------
(* Editors and the clock.                                                  *)

Change(p, script) ==
  /\ "editor" \in workload.of
  /\ frame[p].op = "idle"
  /\ changes < MaxChanges
  /\ changes' = changes + 1
  /\ frame' = [frame EXCEPT ![p] = [Idle EXCEPT !.op = "editor", !.todo = script]]
  /\ UNCHANGED <<workload, requests, crashes, catalog, attempts, progress, mission, ledger,
                 history>>

\* setStatus, setCourseStatus, setLessonStatus: loaded, checked, saved.
Publish(p) == \E x \in Content : Change(p, << <<"check", x>>, <<"publish", x>> >>)
ArchiveLearning(p) ==
  \E x \in {"course", "lesson", "lesson2"} : Change(p, << <<"archive", x>>, <<"audit", x>> >>)
ArchiveQuiz(p)      == Change(p, << <<"archive", "quiz">>, <<"audit", "quiz">> >>)
ArchiveChallenge(p) == Change(p, << <<"archive", "challenge">>, <<"audit", "challenge">> >>)
WriteLesson(p) == Change(p, << <<"createLesson", "lesson2">>, <<"attach", "lesson2">> >>)

CourseComplete == listed # {} /\ \A l \in listed : status[l] = "published"
QuizReady == status["lesson"] = "published"
Publishable(x) ==
  /\ x = "course" => CourseComplete
  /\ x = "quiz" => QuizReady
  /\ x = "challenge" => window = "open"

CheckPublishable(p) ==
  /\ At(p, "check")
  /\ IF Publishable(Arg(p))
     THEN Then(p, [frame[p] EXCEPT !.was = status[Arg(p)]], <<>>)
     ELSE Raise(p)
  /\ UNCHANGED <<catalog, attempts, progress, mission, ledger, bounds, history>>

SavePublished(p) ==
  /\ At(p, "publish")
  /\ status' = [status EXCEPT ![Arg(p)] = IF frame[p].was = "published" THEN @ ELSE "published"]
  /\ Return(p)
  /\ UNCHANGED <<listed, window, limit, audit, attempts, progress, mission, ledger, bounds,
                 history>>

SaveArchived(p) ==
  /\ At(p, "archive")
  /\ status' = [status EXCEPT ![Arg(p)] = "archived"]
  /\ Return(p)
  /\ UNCHANGED <<listed, window, limit, audit, attempts, progress, mission, ledger, bounds,
                 history>>

\* audit.record, after the status was saved.
Audit(p) ==
  /\ At(p, "audit")
  /\ audit' = audit \cup {Arg(p)}
  /\ Return(p)
  /\ UNCHANGED <<status, listed, window, limit, attempts, progress, mission, ledger, bounds,
                 history>>

\* createLesson: a draft, attached to its course whatever the course's status is.
CreateLesson(p) ==
  /\ At(p, "createLesson")
  /\ IF "lesson2" \in listed THEN Raise(p) ELSE Return(p)
  /\ UNCHANGED <<catalog, attempts, progress, mission, ledger, bounds, history>>

AttachLesson(p) ==
  /\ At(p, "attach")
  /\ listed' = listed \cup {Arg(p)}
  /\ Return(p)
  /\ UNCHANGED <<status, window, limit, audit, attempts, progress, mission, ledger, bounds,
                 history>>

EditorsAct ==
  /\ "editor" \in workload.of
  /\ changes < MaxChanges
  /\ changes' = changes + 1
  /\ UNCHANGED <<workload, requests, crashes, status, listed, audit, attempts, progress, mission,
                 ledger, frame, history>>

\* The clock passes publishAt or expiresAt, or update moves them: the status stays.
MoveWindow == EditorsAct /\ window' \in {"before", "open", "over"} \ {window} /\ UNCHANGED limit

\* update of a quiz or a challenge: content and limit change, the status and the attempts
\* there are stay.
UpdateLimit ==
  /\ EditorsAct
  /\ \E t \in {"quiz", "challenge"}, n \in 1..MaxAttempts : limit' = [limit EXCEPT ![t] = n]
  /\ UNCHANGED window

-----------------------------------------------------------------------------
Step(p) ==
  \/ FindQuiz(p) \/ RefreshStatuses(p) \/ FindChallenge(p) \/ CountAttempts(p)
  \/ SubmitQuiz(p) \/ SubmitChallenge(p) \/ SubmitAssessment(p) \/ Award(p) \/ MarkAttempt(p)
  \/ FindLesson(p) \/ ReadProgress(p) \/ WriteProgress(p)
  \/ Join(p) \/ LoadMember(p) \/ FollowUpReady(p) \/ SaveScore(p) \/ CompleteScenario(p)
  \/ RecordEvidence(p) \/ ReadEvidence(p) \/ WriteGrowth(p) \/ Reconcile(p)
  \/ CheckPublishable(p) \/ SavePublished(p) \/ SaveArchived(p) \/ Audit(p) \/ CreateLesson(p)
  \/ AttachLesson(p) \/ Reply(p)

Next ==
  \/ MoveWindow \/ UpdateLimit
  \/ \E p \in Processes :
       \/ Request(p) \/ Step(p) \/ Crash(p)
       \/ Publish(p) \/ ArchiveLearning(p) \/ ArchiveQuiz(p) \/ ArchiveChallenge(p) \/ WriteLesson(p)

Spec == Init /\ [][Next]_vars

-----------------------------------------------------------------------------
(* Properties.                                                             *)

AtRest == \A p \in Processes : frame[p].op = "idle"

\* "Concurrent attempts use a unique user/quiz/attempt-number index. A collision returns
\* an explicit conflict rather than double-counting" (docs/learning-and-quizzes.md:40):
\* no interleaving leads past the limit, or to two attempts for one try.
AttemptsWithinLimit == \A t \in Tests : Len(attempts[t]) <= MaxAttempts

\* "retries and later passing attempts cannot award the same completion twice"
\* (docs/challenges-and-gamification.md:58): one attempt at most says AWARDED, those that
\* say it or ALREADY_AWARDED are in the ledger, and none that passed stays PENDING unless
\* its request died or the lesson of the quiz was withdrawn before its progress was saved.
RewardStates ==
  \A t \in {"quiz", "challenge"} :
    LET with(s) == {i \in DOMAIN attempts[t] : attempts[t][i].reward = s} IN
    /\ Cardinality(with("awarded")) <= 1
    /\ with("awarded") \cup with("already") # {} => t \in ledger
    /\ AtRest /\ ~uncertain /\ ~withdrawn => with("pending") = {}

\* "if a producer committed and its synchronous reward write failed, the next achievement
\* read reconstructs only the missing ledger facts" (gamification.service.ts:932-937):
\* what was completed is in the ledger or still on record, unless a late write of progress
\* or a reopened mission took the record away.
NothingEarnedIsLost ==
  AtRest =>
    \A r \in earned :
      \/ r \in ledger
      \/ uncertain /\ r \in Facts
      \/ uncertain /\ r = "lesson" /\ overlapped
      \/ uncertain /\ r = "mission" /\ reopened

\* However assessments and scenarios of one participant interleave, no score and no
\* finished scenario is lost again.
MissionKeepsWork ==
  [][member.scores \subseteq member'.scores /\ member.done \subseteq member'.done]_member

\* The growth profile a user reads counts all evidence recorded before, whatever an
\* older rebuild left in the store (competency.service.ts:68).
GrowthAnswersWhole ==
  \A p \in Processes :
    frame[p].op = "growth" /\ frame[p].todo = <<>> => frame[p].owed \subseteq frame[p].rows

\* What is earned by practising: no attempt beyond the limit, one reward for one
\* completion, and none lost, however requests overlap or end.
CompletionsHold == AttemptsWithinLimit /\ RewardStates /\ NothingEarnedIsLost

\* What is kept of the practice: the work of a mission, and the evidence that the growth
\* profile is computed from.
WorkIsKept == MissionKeepsWork /\ []GrowthAnswersWhole
=============================================================================
