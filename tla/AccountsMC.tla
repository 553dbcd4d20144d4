----------------------------- MODULE AccountsMC -----------------------------
(* What a user's account meets, in one scene chosen at the start: requests  *)
(* that open, refresh and end its sessions (Sessions), and the event of a   *)
(* finished verification or a security alert that becomes notifications and *)
(* mails (Notifications).                                                   *)
EXTENDS Sessions, Notifications, TLC

CONSTANTS r1, r2, s1, s2

VARIABLE scene

TwoRequests == {r1, r2}
TwoPasswords == {"old", "new"}
OneAddress == {"home"}
OneAgent == {"browser"}

TwoSchedulers == {s1, s2}
CompletionOrAlert == {<<"notification", "recommendation">>, <<"alert">>}
MailAndCategory == {"mail", "recommendation", "account"}
AllFaults == {"schedulerCrash", "workerCrash", "queue", "queueAnswer", "mail", "mailAnswer",
              "database"}
Symmetry == Permutations(TwoRequests) \cup Permutations(TwoSchedulers)

MCInit ==
  /\ scene \in {"sessions", "notices"}
  /\ Init /\ NoticeInit
  /\ scene = "notices" => account = NoUser
  /\ scene = "sessions" => plan = <<"alert">> /\ ~configured.scheduler

\* An alert meets up to MaxFaults faults, the longer plan one.
MCNext ==
  /\ UNCHANGED scene
  /\ \/ scene = "sessions" /\ Next /\ UNCHANGED noticeVars
     \/ /\ scene = "notices" /\ NoticeNext /\ UNCHANGED vars
        /\ Len(plan) = 2 => faults' <= 1

MCSpec == MCInit /\ [][MCNext]_<<scene, vars, noticeVars>>
=============================================================================
