---------------------------- MODULE Notifications ----------------------------
(***************************************************************************)
(* What one domain event of one user becomes: the handler that dispatches  *)
(* its notifications in a scheduler process (domain-notification.handler), *)
(* the stored notifications, and the e-mail job that a worker process runs *)
(* (notifications.service, maintenance.worker).                            *)
(*                                                                         *)
(* The outbox hands the event over again until a handler has returned      *)
(* (module AtLeastOnce); several schedulers may run the handler at once.   *)
(***************************************************************************)
EXTENDS Integers, Sequences

CONSTANTS
  Schedulers,     \* processes that relay the outbox
  Plans,          \* what the handlers dispatch: sequences of references
  Switches,       \* what the user may turn off: "mail", categories, the "account"
  Faults,         \* the faults that may happen
  MaxFaults,      \* bound: faults in a behaviour
  SuppressErrors  \* the event bus logs a handler's error and takes it for done

\* The plans: a completion, with or without a course that fits; a failure, which is
\* like the latter; a security alert.
ASSUME NotificationsAssumption ==
  /\ Faults \subseteq {"schedulerCrash", "workerCrash", "queue", "queueAnswer", "mail",
                       "mailAnswer", "database"}
  /\ Plans \subseteq {<<"notification", "recommendation">>, <<"notification">>, <<"alert">>}
  /\ Switches \subseteq {"mail", "account", "notification", "recommendation"}
  /\ MaxFaults \in Nat
  /\ SuppressErrors \in BOOLEAN

References  == {"notification", "recommendation", "alert"}
Essential   == {"alert"}
JobAttempts == 2
MaxStalls   == 1

VARIABLES
  event,        \* the outbox record: "open" or "done"
  plan,         \* the references its handler dispatches
  email,        \* emailStatus of the notification of each reference, or "none"
  gone, wants,  \* the user: deleted; wants mail; wants each category
  configured,   \* mail is configured, in the schedulers and in the worker
  pc, at, want, \* a handler: where it is, in which reference, the status to create
  job, failures, stalls,
  wpc, copy,    \* the worker of a job: where it is, the emailStatus it loaded
  outcome,      \* what the mail provider answered
  sent, lost,   \* history: mails accepted; of those, how many are not on record
  declined, orphaned, \* history: unwanted at dispatch; left before its job was added
  unsure, swallowed,  \* history: its job was added although the queue reported an
                      \* error; the bus took a handler's error for success
  faults

user    == <<gone, wants>>
handler == <<pc, at, want>>
queue   == <<job, failures, stalls>>
worker  == <<wpc, copy, outcome>>
noticeHistory == <<sent, lost, declined, orphaned, unsure, swallowed>>
noticeVars    == <<event, plan, email, user, configured, handler, queue, worker, noticeHistory, faults>>

Planned == {plan[i] : i \in 1..Len(plan)}

All(v) == [r \in References |-> v]

NoticeInit ==
  /\ event = "open"
  /\ plan \in Plans
  /\ email = All("none")
  /\ gone = FALSE
  /\ wants = [mail |-> TRUE, category |-> All(TRUE)]
  /\ configured \in [scheduler : BOOLEAN, worker : BOOLEAN]
  /\ configured.worker => configured.scheduler \* else it has no job to run
  /\ pc = [s \in Schedulers |-> "idle"]
  /\ at = [s \in Schedulers |-> 1]
  /\ want = [s \in Schedulers |-> "PENDING"]
  /\ job = All("absent")
  /\ failures = All(0)
  /\ stalls = All(0)
  /\ wpc = All("idle")
  /\ copy = All("none")
  /\ outcome = All("none")
  /\ sent = All(0)
  /\ lost = All(0)
  /\ declined = All(FALSE)
  /\ orphaned = All(FALSE)
  /\ unsure = All(FALSE)
  /\ swallowed = FALSE
  /\ faults = 0

Fault(kind) ==
  /\ kind \in Faults
  /\ faults < MaxFaults
  /\ faults' = faults + 1

-----------------------------------------------------------------------------
(* The user: preferences and deletion.                                     *)

\* One change in a behaviour, from on to off: the direction the code must notice.
Unchanged == ~gone /\ wants = [mail |-> TRUE, category |-> All(TRUE)]

TurnOff ==
  /\ Unchanged
  /\ \/ "mail" \in Switches /\ wants' = [wants EXCEPT !.mail = FALSE]
     \/ \E r \in Switches \cap References : wants' = [wants EXCEPT !.category[r] = FALSE]
  /\ UNCHANGED <<event, plan, email, gone, configured, handler, queue, worker, noticeHistory, faults>>

DeleteUser ==
  /\ "account" \in Switches
  /\ Unchanged
  /\ gone' = TRUE
  /\ UNCHANGED <<event, plan, email, wants, configured, handler, queue, worker, noticeHistory, faults>>

-----------------------------------------------------------------------------
(* The handler: one dispatch() per reference of the plan.                  *)

Ref(s) == plan[at[s]]
HandlerGoes(s, p) == pc' = [pc EXCEPT ![s] = p] /\ UNCHANGED at

\* Mutant: the handler returns after its first dispatch.
OnlyFirst(s) == HandlerGoes(s, "return")
\* A dispatch returned: the next one, or the end of the handler.
Onward(s) ==
  IF at[s] < Len(plan)
  THEN /\ pc' = [pc EXCEPT ![s] = "user"]
       /\ at' = [at EXCEPT ![s] = @ + 1]
  ELSE HandlerGoes(s, "return")

Leave(s) ==
  /\ pc' = [pc EXCEPT ![s] = "idle"]
  /\ at' = [at EXCEPT ![s] = 1]
  /\ want' = [want EXCEPT ![s] = "PENDING"]

Deliver(s) ==
  /\ event = "open"
  /\ pc[s] = "idle"
  /\ pc' = [pc EXCEPT ![s] = "user"]
  /\ at' = [at EXCEPT ![s] = 1]
  /\ UNCHANGED <<event, plan, email, user, configured, want, queue, worker, noticeHistory, faults>>

\* The user and the preferences as they are now.
Unwanted(r) == gone \/ (r \notin Essential /\ ~wants.category[r])
FirstStatus(r) ==
  IF r \notin Essential /\ ~wants.mail THEN "SKIPPED_PREFERENCE"
  ELSE IF configured.scheduler THEN "PENDING"
  ELSE "NOT_CONFIGURED"

LoadUser(s) ==
  /\ pc[s] = "user"
  /\ IF Unwanted(Ref(s))
     THEN /\ declined' = [declined EXCEPT ![Ref(s)] = TRUE]
          /\ Onward(s)
          /\ UNCHANGED want
     ELSE /\ want' = [want EXCEPT ![s] = FirstStatus(Ref(s))]
          /\ HandlerGoes(s, "lookup")
          /\ UNCHANGED declined
  /\ UNCHANGED <<event, plan, email, user, configured, queue, worker, sent, lost, orphaned,
                 unsure, swallowed, faults>>

Lookup(s) ==
  /\ pc[s] = "lookup"
  /\ IF email[Ref(s)] # "none" THEN Onward(s) ELSE HandlerGoes(s, "create")
  /\ UNCHANGED <<event, plan, email, user, configured, want, queue, worker, noticeHistory, faults>>

\* The unique index on user and reference decides between two schedulers.
Create(s) ==
  LET r == Ref(s) IN
  /\ pc[s] = "create"
  /\ IF email[r] = "none"
     THEN /\ email' = [email EXCEPT ![r] = want[s]]
          /\ IF want[s] = "PENDING" THEN HandlerGoes(s, "add") ELSE Onward(s)
     ELSE Onward(s) /\ UNCHANGED email
  /\ UNCHANGED <<event, plan, user, configured, want, queue, worker, noticeHistory, faults>>

AddJob(r) == job' = [job EXCEPT ![r] = IF @ = "absent" THEN "waiting" ELSE @]

Add(s) ==
  /\ pc[s] = "add"
  /\ AddJob(Ref(s))
  /\ Onward(s)
  /\ UNCHANGED <<event, plan, email, user, configured, want, failures, stalls, worker, noticeHistory, faults>>

\* queue.add is rejected, before or after the queue took the job.
AddFails(s) ==
  /\ pc[s] = "add"
  /\ \/ Fault("queue") /\ UNCHANGED <<job, unsure>>
     \/ /\ Fault("queueAnswer")
        /\ AddJob(Ref(s))
        /\ unsure' = [unsure EXCEPT ![Ref(s)] = TRUE]
  /\ HandlerGoes(s, "addFailed")
  /\ UNCHANGED <<event, plan, email, user, configured, want, failures, stalls, worker, sent, lost,
                 declined, orphaned, swallowed>>

\* Mutant: the catch clause leaves the status as it is.
LeftPending(r) == UNCHANGED email
\* EMAIL_QUEUE_UNAVAILABLE: the copy it created is saved with FAILED.
RecordFailure(r) == email' = [email EXCEPT ![r] = "FAILED"]

SaveAddFailed(s) ==
  /\ pc[s] = "addFailed"
  /\ RecordFailure(Ref(s))
  /\ Onward(s)
  /\ UNCHANGED <<event, plan, user, configured, want, queue, worker, noticeHistory, faults>>

\* The dispatcher records the event as handled.
Acknowledge(s) ==
  /\ pc[s] = "return"
  /\ event' = "done"
  /\ Leave(s)
  /\ UNCHANGED <<plan, email, user, configured, queue, worker, noticeHistory, faults>>

Orphan(s) == orphaned' = [orphaned EXCEPT ![Ref(s)] = @ \/ pc[s] \in {"add", "addFailed"}]

\* A database call raises: the outbox retries, unless the bus suppresses the error.
HandlerFails(s) ==
  /\ pc[s] \notin {"idle", "add", "return"}
  /\ Fault("database")
  /\ event' = IF SuppressErrors THEN "done" ELSE event
  /\ swallowed' = (swallowed \/ SuppressErrors)
  /\ Orphan(s)
  /\ Leave(s)
  /\ UNCHANGED <<plan, email, user, configured, queue, worker, sent, lost, declined, unsure>>

SchedulerCrash(s) ==
  /\ pc[s] # "idle"
  /\ Fault("schedulerCrash")
  /\ Orphan(s)
  /\ Leave(s)
  /\ UNCHANGED <<event, plan, email, user, configured, queue, worker, sent, lost, declined, unsure,
                 swallowed>>

-----------------------------------------------------------------------------
(* The worker of the e-mail job.                                           *)

WorkerGoes(r, p) == wpc' = [wpc EXCEPT ![r] = p]

TakeJob(r) ==
  /\ job[r] = "waiting"
  /\ job' = [job EXCEPT ![r] = "active"]
  /\ WorkerGoes(r, "load")
  /\ UNCHANGED <<event, plan, email, user, configured, handler, failures, stalls, copy, outcome,
                 noticeHistory, faults>>

Settled(s) == s \in {"SENT", "SKIPPED_PREFERENCE"}

LoadNotification(r) ==
  /\ wpc[r] = "load"
  /\ copy' = [copy EXCEPT ![r] = email[r]]
  /\ WorkerGoes(r, IF Settled(email[r]) THEN "end" ELSE "user")
  /\ UNCHANGED <<event, plan, email, user, configured, handler, queue, outcome, noticeHistory, faults>>

CheckUser(r) ==
  /\ wpc[r] = "user"
  /\ WorkerGoes(r, IF gone THEN "end"
            ELSE IF r \notin Essential /\ ~(wants.mail /\ wants.category[r]) THEN "skip"
            ELSE "send")
  /\ UNCHANGED <<event, plan, email, user, configured, handler, queue, copy, outcome, noticeHistory, faults>>

SaveSkip(r) ==
  /\ wpc[r] = "skip"
  /\ email' = [email EXCEPT ![r] = "SKIPPED_PREFERENCE"]
  /\ WorkerGoes(r, "end")
  /\ UNCHANGED <<event, plan, user, configured, handler, queue, copy, outcome, noticeHistory, faults>>

\* Mutant: without a provider the mail counts as delivered.
TakenAsSent == "SENT"
Unconfigured == "NOT_CONFIGURED"

\* The provider takes the mail, refuses it, or takes it while its answer is lost.
Send(r) ==
  /\ wpc[r] = "send"
  /\ \/ /\ configured.worker
        /\ outcome' = [outcome EXCEPT ![r] = "SENT"]
        /\ sent' = [sent EXCEPT ![r] = @ + 1]
        /\ UNCHANGED <<lost, faults>>
     \/ /\ ~configured.worker
        /\ outcome' = [outcome EXCEPT ![r] = Unconfigured]
        /\ UNCHANGED <<sent, lost, faults>>
     \/ /\ configured.worker
        /\ Fault("mail")
        /\ outcome' = [outcome EXCEPT ![r] = "FAILED"]
        /\ UNCHANGED <<sent, lost>>
     \/ /\ configured.worker
        /\ Fault("mailAnswer")
        /\ outcome' = [outcome EXCEPT ![r] = "FAILED"]
        /\ sent' = [sent EXCEPT ![r] = @ + 1]
        /\ lost' = [lost EXCEPT ![r] = @ + 1]
  /\ WorkerGoes(r, "save")
  /\ UNCHANGED <<event, plan, email, user, configured, handler, queue, copy, declined, orphaned,
                 unsure, swallowed>>

\* save() writes the status only if it differs from the one that was loaded.
SaveOutcome(r) ==
  /\ wpc[r] = "save"
  /\ email' = [email EXCEPT ![r] = IF outcome[r] # copy[r] THEN outcome[r] ELSE @]
  /\ WorkerGoes(r, IF outcome[r] = "FAILED" THEN "raise" ELSE "end")
  /\ UNCHANGED <<event, plan, user, configured, handler, queue, copy, outcome, noticeHistory, faults>>

Finish(r, s) ==
  /\ job' = [job EXCEPT ![r] = s]
  /\ wpc' = [wpc EXCEPT ![r] = "idle"]
  /\ copy' = [copy EXCEPT ![r] = "none"]
  /\ outcome' = [outcome EXCEPT ![r] = "none"]

CompleteJob(r) ==
  /\ wpc[r] = "end"
  /\ Finish(r, "completed")
  /\ UNCHANGED <<event, plan, email, user, configured, handler, failures, stalls, noticeHistory, faults>>

FailJob(r) ==
  /\ failures' = [failures EXCEPT ![r] = @ + 1]
  /\ Finish(r, IF failures[r] + 1 < JobAttempts THEN "waiting" ELSE "failed")
  /\ UNCHANGED <<event, plan, email, user, configured, handler, stalls>>

\* "Notification email provider unavailable".
RaiseUnavailable(r) ==
  /\ wpc[r] = "raise"
  /\ FailJob(r)
  /\ UNCHANGED <<noticeHistory, faults>>

\* The mail that was just sent will not be on record.
LoseSent(r) ==
  lost' = [lost EXCEPT ![r] = IF wpc[r] = "save" /\ outcome[r] = "SENT" THEN @ + 1 ELSE @]

WorkerFails(r) ==
  /\ wpc[r] \in {"load", "user", "skip", "save"}
  /\ Fault("database")
  /\ FailJob(r)
  /\ LoseSent(r)
  /\ UNCHANGED <<sent, declined, orphaned, unsure, swallowed>>

WorkerCrash(r) ==
  /\ wpc[r] # "idle"
  /\ Fault("workerCrash")
  /\ stalls' = [stalls EXCEPT ![r] = IF @ < MaxStalls THEN @ + 1 ELSE @]
  /\ Finish(r, IF stalls[r] < MaxStalls THEN "waiting" ELSE "failed")
  /\ LoseSent(r)
  /\ UNCHANGED <<event, plan, email, user, configured, handler, failures, sent, declined,
                 orphaned, unsure, swallowed>>

-----------------------------------------------------------------------------
HandlerStep(s) ==
  \/ Deliver(s) \/ LoadUser(s) \/ Lookup(s) \/ Create(s) \/ Add(s) \/ SaveAddFailed(s)
  \/ Acknowledge(s)
WorkerStep(r) ==
  \/ TakeJob(r) \/ LoadNotification(r) \/ CheckUser(r) \/ SaveSkip(r) \/ Send(r)
  \/ SaveOutcome(r) \/ CompleteJob(r) \/ RaiseUnavailable(r)

NoticeNext ==
  \/ TurnOff \/ DeleteUser
  \/ \E s \in Schedulers : HandlerStep(s) \/ AddFails(s) \/ HandlerFails(s) \/ SchedulerCrash(s)
  \/ \E r \in References : WorkerStep(r) \/ WorkerFails(r) \/ WorkerCrash(r)

-----------------------------------------------------------------------------
(* Properties.                                                             *)

\* "Verification completion and failure events create retry-safe notifications"
\* (docs/notifications.md:25): the event counts as handled only when each notification
\* of its handler is stored or was unwanted, whatever crashed in between. The one way
\* out is an error that the event bus swallows.
DoneMeansNotified ==
  event = "done" /\ ~swallowed => \A r \in Planned : email[r] # "none" \/ declined[r]

\* A second mail of the same notification goes out only if the first could not be
\* put on record, or was by a scheduler that got the queue's answer wrong.
NoNeedlessMail == \A r \in References : sent[r] <= lost[r] + 1 \/ unsure[r]

\* "an unavailable provider is never reported as a successful delivery"
\* (docs/notifications.md:9), and SENT is never taken back, except by a scheduler to
\* which the queue reported an error for a job it had taken.
SentIsTrueAndFinal ==
  [][\A r \in References :
       email[r] = "SENT" => sent[r] > 0 /\ (email'[r] = "SENT" \/ unsure[r])]_noticeVars

AtRest ==
  /\ event = "done"
  /\ \A s \in Schedulers : pc[s] = "idle"
  /\ \A r \in References : wpc[r] = "idle" /\ job[r] # "waiting"

\* A mail does not stay PENDING: once everything came to rest it is settled, unless its
\* job failed for good, the scheduler went away before it could add the job, or the
\* user did.
EmailSettles ==
  AtRest =>
    \A r \in References : email[r] = "PENDING" => job[r] = "failed" \/ orphaned[r] \/ gone

\* docs/notifications.md:9, :25: a mail is sent as often as the record can show, and
\* is settled in the end.
MailSettles == NoNeedlessMail /\ EmailSettles
=============================================================================
