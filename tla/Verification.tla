---------------------------- MODULE Verification ----------------------------
(***************************************************************************)
(* The life of one verification: the requests of its owner and of an       *)
(* administrator (verification.service.ts, admin.service.ts), the BullMQ   *)
(* jobs they enqueue, and the worker that takes a job through the pipeline *)
(* (verification-orchestrator, content-processing and report services).    *)
(*                                                                         *)
(* Requests and workers hold a loaded copy of the document.  save() writes *)
(* the fields the copy changed since it was loaded or last saved, and      *)
(* nothing locks the document in between.                                  *)
(***************************************************************************)
EXTENDS Integers, FiniteSets

CONSTANTS
  Requests,    \* API requests under way at once
  Operations,  \* the operations the clients call
  Faults,      \* the faults that may happen
  MaxRetry,    \* bound: generations of the verification (retryCount)
  MaxFaults    \* bound: faults in a behaviour, each of another kind

ASSUME VerificationAssumption ==
  /\ MaxRetry \in Nat
  /\ MaxFaults \in Nat
  /\ Requests \cap Nat = {} \* copies are kept per request and per generation
  /\ Operations \subseteq {"cancel", "retry", "adminRetry", "reprocess", "remove"}
  /\ Faults \subseteq {"workerCrash", "apiCrash", "queue", "queueAnswer", "database"}

Generations == 0..MaxRetry
JobAttempts == 2      \* coordinationJobOptions.attempts
MaxStalls   == 1      \* BullMQ's maxStalledCount

Statuses == {"NONE", "QUEUED", "PROCESSING", "COMPLETED", "FAILED", "CANCELLED", "DELETED"}
Stages   == {"RECEIVED", "INPUT_VALIDATION", "CONTENT_EXTRACTION", "ANALYSIS",
             "REPORT_SYNTHESIS", "COMPLETED"}
Usage    == [attempt : Generations, status : {"RESERVED", "USED", "RELEASED"}]
Document == [status : Statuses, stage : Stages, retryCount : Generations,
             failureCode : {"none", "VALIDATION_ERROR", "OTHER"}, usage : Usage]
NewDocument == [status |-> "QUEUED", stage |-> "RECEIVED", retryCount |-> 0,
                failureCode |-> "none", usage |-> [attempt |-> 0, status |-> "RESERVED"]]

VARIABLES
  doc,     \* the stored verification
  ledger,  \* its reservation for each attempt in the usage ledger
  report,  \* whether a report of it passed validation
  outbox,  \* the domain events published for it
  job,     \* the BullMQ job of each generation
  failures, stalls, \* failed attempts of the job, and how often it stalled
  rpc, op, \* a request: where it is and what it does
  wpc,     \* the worker that runs a job: where it is
  copy, base, \* per request and job: its copy, and the copy when last in step
  faults   \* the faults that happened

store    == <<doc, ledger, report, outbox>>
queue    == <<job, failures, stalls>>
request  == <<rpc, op>>
vars     == <<store, queue, request, wpc, copy, base, faults>>

RequestPoints == {"idle", "reserve", "save", "unreserve", "enqueue", "release", "final"}
WorkerPoints == {"idle", "load", "begin", "extracting", "extract", "consume", "consumed",
                 "analyse", "synthesize", "complete", "announce", "refund", "failed",
                 "announceFailure"}
Holders == Requests \cup Generations

TypeOK ==
  /\ doc \in Document
  /\ ledger \in [Generations -> {"NONE", "RESERVED", "USED", "RELEASED"}]
  /\ report \in BOOLEAN
  /\ outbox \subseteq {"VERIFICATION_COMPLETED", "VERIFICATION_FAILED"}
  /\ job \in [Generations -> {"absent", "waiting", "active", "completed", "failed"}]
  /\ failures \in [Generations -> 0..JobAttempts]
  /\ stalls \in [Generations -> 0..MaxStalls]
  /\ rpc \in [Requests -> RequestPoints]
  /\ op \in [Requests -> Operations \cup {"create", "none"}]
  /\ wpc \in [Generations -> WorkerPoints]
  /\ copy \in [Holders -> Document]
  /\ base \in [Holders -> Document]
  /\ faults \subseteq Faults

Absent == [NewDocument EXCEPT !.status = "NONE"]

Init ==
  /\ doc = Absent
  /\ ledger = [g \in Generations |-> "NONE"]
  /\ report = FALSE
  /\ outbox = {}
  /\ job = [g \in Generations |-> "absent"]
  /\ failures = [g \in Generations |-> 0]
  /\ stalls = [g \in Generations |-> 0]
  /\ rpc = [r \in Requests |-> "idle"]
  /\ op = [r \in Requests |-> "none"]
  /\ wpc = [g \in Generations |-> "idle"]
  /\ copy = [h \in Holders |-> Absent]
  /\ base = [h \in Holders |-> Absent]
  /\ faults = {}

Fault(kind) ==
  /\ kind \in Faults \ faults
  /\ Cardinality(faults) < MaxFaults
  /\ faults' = faults \cup {kind}

-----------------------------------------------------------------------------
(* The document and its copies.                                            *)

\* usageReservation is replaced as a whole by a retry; the ledger's transitions
\* write usageReservation.status alone.
MergeUsage(new, old, stored) ==
  IF new.attempt # old.attempt THEN new
  ELSE IF new.status # old.status THEN [stored EXCEPT !.status = new.status]
  ELSE stored

Merge(new, old, stored) ==
  [f \in DOMAIN stored |->
     IF f = "usage" THEN MergeUsage(new.usage, old.usage, stored.usage)
     ELSE IF new[f] # old[f] THEN new[f] ELSE stored[f]]

\* findOne: the holder's copy is in step with the document it changes to c.
LoadAs(h, c) ==
  /\ copy' = [copy EXCEPT ![h] = c]
  /\ base' = [base EXCEPT ![h] = doc]

\* save() of the copy, which goes on as c.
SaveAs(h, c) ==
  /\ doc' = Merge(copy[h], base[h], doc)
  /\ base' = [base EXCEPT ![h] = copy[h]]
  /\ copy' = [copy EXCEPT ![h] = c]

Save(h) == SaveAs(h, copy[h])

Change(h, c) == copy' = [copy EXCEPT ![h] = c] /\ UNCHANGED <<doc, base>>

Forget(h) ==
  /\ copy' = [copy EXCEPT ![h] = Absent]
  /\ base' = [base EXCEPT ![h] = Absent]

\* The copy gets the status that release() finds or leaves in the ledger; a copy
\* that says RELEASED already stops it before the ledger is touched.
ReleaseUsage(h) ==
  LET u == copy[h].usage IN
  IF u.status = "RELEASED" \/ ledger[u.attempt] = "NONE"
  THEN UNCHANGED <<doc, ledger, copy, base>>
  ELSE /\ ledger' = [ledger EXCEPT ![u.attempt] = "RELEASED"]
       /\ Change(h, [copy[h] EXCEPT !.usage.status = "RELEASED"])

\* Mutant: consume() takes a reservation whatever its status.
TakenAnyway(s) == "USED"
\* What consume() makes of the reservation: only RESERVED becomes USED.
Taken(s) == IF s = "RESERVED" THEN "USED" ELSE s

ConsumeUsage(h) ==
  LET u == copy[h].usage IN
  IF u.status # "RESERVED" \/ ledger[u.attempt] = "NONE"
  THEN UNCHANGED <<doc, ledger, copy, base>>
  ELSE /\ ledger' = [ledger EXCEPT ![u.attempt] = Taken(@)]
       /\ Change(h, [copy[h] EXCEPT !.usage.status = ledger'[u.attempt]])

-----------------------------------------------------------------------------
(* Requests.                                                               *)

Respond(r) ==
  /\ rpc' = [rpc EXCEPT ![r] = "idle"]
  /\ op' = [op EXCEPT ![r] = "none"]
  /\ Forget(r)

Go(r, p) == rpc' = [rpc EXCEPT ![r] = p] /\ UNCHANGED op

Accept(r, o, p, c) ==
  /\ rpc[r] = "idle"
  /\ rpc' = [rpc EXCEPT ![r] = p]
  /\ op' = [op EXCEPT ![r] = o]
  /\ LoadAs(r, c)
  /\ UNCHANGED <<store, queue, wpc, faults>>

\* create(): reservation and document, then the job.
Create(r) ==
  /\ doc.status = "NONE"
  /\ rpc[r] = "idle"
  /\ doc' = NewDocument
  /\ ledger' = [ledger EXCEPT ![0] = "RESERVED"]
  /\ rpc' = [rpc EXCEPT ![r] = "enqueue"]
  /\ op' = [op EXCEPT ![r] = "create"]
  /\ copy' = [copy EXCEPT ![r] = NewDocument]
  /\ base' = [base EXCEPT ![r] = NewDocument]
  /\ UNCHANGED <<report, outbox, queue, wpc, faults>>

Cancellable(s) == s \notin {"COMPLETED", "CANCELLED"}

Cancel(r) ==
  /\ "cancel" \in Operations
  /\ doc.status \notin {"NONE", "DELETED"}
  /\ Cancellable(doc.status)
  /\ Accept(r, "cancel", "release", [doc EXCEPT !.status = "CANCELLED"])

\* Mutant: a verification that is being processed can be retried as well.
RetryableEarly(s) == s \in {"FAILED", "PROCESSING"}
Retryable(s) == s = "FAILED"

\* A retry of a report that failed its own validation is not charged.
Retry(r) ==
  /\ "retry" \in Operations
  /\ Retryable(doc.status)
  /\ doc.retryCount < MaxRetry
  /\ IF doc.stage = "REPORT_SYNTHESIS" /\ doc.failureCode = "VALIDATION_ERROR"
     THEN Accept(r, "retry", "save",
                 [doc EXCEPT !.status = "QUEUED", !.stage = "RECEIVED", !.retryCount = @ + 1,
                             !.failureCode = "none"])
     ELSE Accept(r, "retry", "reserve", doc)

\* reserve(): a reservation the attempt has already is returned as it is.
Reserve(r) ==
  LET a == copy[r].retryCount + 1 IN
  /\ rpc[r] = "reserve"
  /\ ledger' = [ledger EXCEPT ![a] = IF @ = "NONE" THEN "RESERVED" ELSE @]
  /\ copy' = [copy EXCEPT ![r] = [@ EXCEPT !.status = "QUEUED", !.stage = "RECEIVED",
                                    !.retryCount = a, !.failureCode = "none",
                                    !.usage = [attempt |-> a, status |-> ledger'[a]]]]
  /\ Go(r, "save")
  /\ UNCHANGED <<doc, report, outbox, queue, wpc, base, faults>>

\* DAILY_INVESTIGATION_LIMIT_REACHED.
Refused(r) ==
  /\ rpc[r] = "reserve"
  /\ ledger[copy[r].retryCount + 1] = "NONE"
  /\ Respond(r)
  /\ UNCHANGED <<store, queue, wpc, faults>>

\* The administrator's retry reserves nothing and leaves the stage as it is.
AdminRetry(r) ==
  /\ "adminRetry" \in Operations
  /\ Retryable(doc.status)
  /\ doc.retryCount < MaxRetry
  /\ Accept(r, "adminRetry", "save",
            [doc EXCEPT !.status = "QUEUED", !.retryCount = @ + 1, !.failureCode = "none"])

Reprocess(r) ==
  /\ "reprocess" \in Operations
  /\ doc.status = "COMPLETED"
  /\ doc.retryCount < MaxRetry
  /\ Accept(r, "reprocess", "save",
            [doc EXCEPT !.status = "QUEUED", !.stage = "RECEIVED", !.retryCount = @ + 1,
                        !.failureCode = "none"])

Delete(r) ==
  /\ "remove" \in Operations
  /\ doc.status \notin {"NONE", "DELETED", "QUEUED", "PROCESSING"}
  /\ Accept(r, "remove", "final", [doc EXCEPT !.status = "DELETED"])

\* cancel(), and the answer to a queue that failed: release, then save.
Release(r) ==
  /\ rpc[r] = "release"
  /\ ReleaseUsage(r)
  /\ Go(r, "final")
  /\ UNCHANGED <<report, outbox, queue, wpc, faults>>

\* The save before the job is added.
SaveRequest(r) ==
  /\ rpc[r] = "save"
  /\ Save(r)
  /\ Go(r, "enqueue")
  /\ UNCHANGED <<ledger, report, outbox, queue, wpc, faults>>

\* The save after which the request answers.
SaveFinal(r) ==
  /\ rpc[r] = "final"
  /\ doc' = Merge(copy[r], base[r], doc)
  /\ Respond(r)
  /\ UNCHANGED <<ledger, report, outbox, queue, wpc, faults>>

\* That save failed: retry() gives its reservation back before it raises the error.
SaveFails(r) ==
  /\ rpc[r] = "save"
  /\ Fault("database")
  /\ IF op[r] = "retry" /\ copy[r].usage.attempt = copy[r].retryCount
     THEN Go(r, "unreserve") /\ UNCHANGED <<copy, base>>
     ELSE Respond(r)
  /\ UNCHANGED <<store, queue, wpc>>

\* releaseSnapshot() returns what is still RESERVED.
Unreserve(r) ==
  LET a == copy[r].usage.attempt IN
  /\ rpc[r] = "unreserve"
  /\ ledger' = [ledger EXCEPT ![a] = IF @ = "RESERVED" THEN "RELEASED" ELSE @]
  /\ Respond(r)
  /\ UNCHANGED <<doc, report, outbox, queue, wpc, faults>>

\* Mutant: the job id leaves the generation out.
AddSameJob(g) == job' = [job EXCEPT ![0] = IF @ = "absent" THEN "waiting" ELSE @]
\* queue.add: a job whose id the queue still knows is not added again.
AddJob(g) == job' = [job EXCEPT ![g] = IF @ = "absent" THEN "waiting" ELSE @]

Enqueue(r) ==
  /\ rpc[r] = "enqueue"
  /\ AddJob(copy[r].retryCount)
  /\ Respond(r)
  /\ UNCHANGED <<store, failures, stalls, wpc, faults>>

\* The administrator's retry puts status and count back as they were.
Restored(c) == [c EXCEPT !.status = "FAILED", !.retryCount = @ - 1]

\* Mutant: retry() lets the queue's error through, as reprocess() does.
RecoveryLeft(r) == Respond(r)
\* What a request does about a queue that failed.
Recovery(r) ==
  \/ /\ op[r] \in {"create", "retry"}
     /\ Go(r, "release")
     /\ copy' = [copy EXCEPT ![r].status = "FAILED", ![r].failureCode = "OTHER"]
     /\ UNCHANGED base
  \/ /\ op[r] = "adminRetry"
     /\ Go(r, "final")
     /\ copy' = [copy EXCEPT ![r] = Restored(@)]
     /\ UNCHANGED base
  \/ op[r] = "reprocess" /\ Respond(r)

\* The queue refuses the job, or takes it and its answer is lost.
EnqueueFails(r) ==
  /\ rpc[r] = "enqueue"
  /\ \/ Fault("queue") /\ UNCHANGED job
     \/ Fault("queueAnswer") /\ AddJob(copy[r].retryCount)
  /\ Recovery(r)
  /\ UNCHANGED <<store, failures, stalls, wpc>>

ApiCrash(r) ==
  /\ rpc[r] # "idle"
  /\ Fault("apiCrash")
  /\ Respond(r)
  /\ UNCHANGED <<store, queue, wpc>>

-----------------------------------------------------------------------------
(* The worker of generation g.                                             *)

At(g, p) == wpc[g] = p
WGo(g, p) == wpc' = [wpc EXCEPT ![g] = p]

Finish(g, s) ==
  /\ job' = [job EXCEPT ![g] = s]
  /\ WGo(g, "idle")
  /\ Forget(g)

TakeJob(g) ==
  /\ job[g] = "waiting"
  /\ job' = [job EXCEPT ![g] = "active"]
  /\ WGo(g, "load")
  /\ UNCHANGED <<store, failures, stalls, request, copy, base, faults>>

\* The statuses in which initialize() returns at once.
Skipped(d) ==
  \/ d.status \in {"NONE", "DELETED", "CANCELLED"}
  \/ d.status = "PROCESSING" /\ d.stage = "CONTENT_EXTRACTION"

Skip(g) ==
  /\ At(g, "load")
  /\ Skipped(doc)
  /\ Finish(g, "completed")
  /\ UNCHANGED <<store, failures, stalls, request, faults>>

Load(g) ==
  /\ At(g, "load")
  /\ ~Skipped(doc)
  /\ LoadAs(g, [doc EXCEPT !.status = "PROCESSING", !.stage = "INPUT_VALIDATION"])
  /\ WGo(g, "begin")
  /\ UNCHANGED <<store, queue, request, faults>>

\* The saves of initialize(), each followed by an event.
SaveBegin(g) ==
  /\ At(g, "begin")
  /\ SaveAs(g, [copy[g] EXCEPT !.stage = "CONTENT_EXTRACTION"])
  /\ WGo(g, "extracting")
  /\ UNCHANGED <<ledger, report, outbox, queue, request, faults>>

SaveExtracting(g) ==
  /\ At(g, "extracting")
  /\ Save(g)
  /\ WGo(g, "extract")
  /\ UNCHANGED <<ledger, report, outbox, queue, request, faults>>

\* Extraction, language and claims up to the save of the last stage before the
\* reservation is consumed.
Extract(g) ==
  /\ At(g, "extract")
  /\ LET c == [copy[g] EXCEPT !.stage = "ANALYSIS"] IN
       /\ doc' = Merge(c, base[g], doc)
       /\ copy' = [copy EXCEPT ![g] = c]
       /\ base' = [base EXCEPT ![g] = c]
  /\ WGo(g, "consume")
  /\ UNCHANGED <<ledger, report, outbox, queue, request, faults>>

Consume(g) ==
  /\ At(g, "consume")
  /\ ConsumeUsage(g)
  /\ WGo(g, "consumed")
  /\ UNCHANGED <<report, outbox, queue, request, faults>>

SaveConsumed(g) ==
  /\ At(g, "consumed")
  /\ Save(g)
  /\ WGo(g, "analyse")
  /\ UNCHANGED <<ledger, report, outbox, queue, request, faults>>

\* Evidence and analysis, up to the save of REPORT_SYNTHESIS.
Analyse(g) ==
  /\ At(g, "analyse")
  /\ LET c == [copy[g] EXCEPT !.stage = "REPORT_SYNTHESIS"] IN
       /\ doc' = Merge(c, base[g], doc)
       /\ copy' = [copy EXCEPT ![g] = c]
       /\ base' = [base EXCEPT ![g] = c]
  /\ WGo(g, "synthesize")
  /\ UNCHANGED <<ledger, report, outbox, queue, request, faults>>

\* The status a report has once validation passed.
Validated(was) == TRUE

\* synthesize(): a report that passes validation supersedes the ones before it.
Synthesize(g) ==
  /\ At(g, "synthesize")
  /\ report' = Validated(report)
  /\ Change(g, [copy[g] EXCEPT !.status = "COMPLETED", !.stage = "COMPLETED"])
  /\ WGo(g, "complete")
  /\ UNCHANGED <<ledger, outbox, queue, request, faults>>

SaveCompleted(g) ==
  /\ At(g, "complete")
  /\ Save(g)
  /\ WGo(g, "announce")
  /\ UNCHANGED <<ledger, report, outbox, queue, request, faults>>

\* publishDomainEvent: one key per verification and outcome; its errors are swallowed.
Announce(g, e) ==
  /\ \/ outbox' = outbox \cup {e} /\ UNCHANGED faults
     \/ Fault("database") /\ UNCHANGED outbox
  /\ Finish(g, "completed")
  /\ UNCHANGED <<doc, ledger, report, failures, stalls, request>>

AnnounceCompleted(g) == At(g, "announce") /\ Announce(g, "VERIFICATION_COMPLETED")
AnnounceFailed(g) == At(g, "announceFailure") /\ Announce(g, "VERIFICATION_FAILED")

\* The catch clause of process(): whatever a step of the pipeline raises.
Catch(g, code) ==
  /\ Change(g, [copy[g] EXCEPT !.status = "FAILED", !.failureCode = code])
  /\ WGo(g, "refund")
  /\ UNCHANGED <<ledger, report, outbox, queue, request>>

PipelineFails(g) ==
  \/ At(g, "extract") /\ Catch(g, "OTHER") /\ UNCHANGED faults
  \/ At(g, "analyse") /\ Catch(g, "OTHER") /\ UNCHANGED faults
  \/ At(g, "synthesize") /\ Catch(g, "VALIDATION_ERROR") /\ UNCHANGED faults
  \/ /\ wpc[g] \in {"consume", "consumed", "complete", "announce"}
     /\ Fault("database")
     /\ Catch(g, "OTHER")

Refunded(g) == ReleaseUsage(g)

Refund(g) ==
  /\ At(g, "refund")
  /\ Refunded(g)
  /\ WGo(g, "failed")
  /\ UNCHANGED <<report, outbox, queue, request, faults>>

SaveFailed(g) ==
  /\ At(g, "failed")
  /\ Save(g)
  /\ WGo(g, "announceFailure")
  /\ UNCHANGED <<ledger, report, outbox, queue, request, faults>>

\* An error outside that try block, the append of an event after the second save of
\* initialize() included: the job fails, and BullMQ runs it once more.
JobFails(g) ==
  /\ wpc[g] \in {"load", "begin", "extracting", "extract", "refund", "failed"}
  /\ Fault("database")
  /\ failures' = [failures EXCEPT ![g] = @ + 1]
  /\ Finish(g, IF failures[g] + 1 < JobAttempts THEN "waiting" ELSE "failed")
  /\ UNCHANGED <<store, stalls, request>>

\* The worker process dies: its job stalls, and the sweep puts it back once.
WorkerCrash(g) ==
  /\ ~At(g, "idle")
  /\ Fault("workerCrash")
  /\ stalls' = [stalls EXCEPT ![g] = IF @ < MaxStalls THEN @ + 1 ELSE @]
  /\ Finish(g, IF stalls[g] < MaxStalls THEN "waiting" ELSE "failed")
  /\ UNCHANGED <<store, failures, request>>

-----------------------------------------------------------------------------
RequestStep(r) ==
  \/ Reserve(r) \/ Release(r) \/ SaveRequest(r) \/ SaveFinal(r) \/ Unreserve(r) \/ Enqueue(r)

WorkerStep(g) ==
  \/ TakeJob(g) \/ Skip(g) \/ Load(g) \/ SaveBegin(g) \/ SaveExtracting(g) \/ Extract(g)
  \/ Consume(g) \/ SaveConsumed(g) \/ Analyse(g) \/ Synthesize(g) \/ SaveCompleted(g)
  \/ AnnounceCompleted(g) \/ PipelineFails(g) \/ Refund(g) \/ SaveFailed(g) \/ AnnounceFailed(g)

Next ==
  \/ \E r \in Requests :
       \/ Create(r) \/ Cancel(r) \/ Retry(r) \/ AdminRetry(r) \/ Reprocess(r) \/ Delete(r)
       \/ RequestStep(r) \/ Refused(r)
       \/ SaveFails(r) \/ EnqueueFails(r) \/ ApiCrash(r)
  \/ \E g \in Generations : WorkerStep(g) \/ JobFails(g) \/ WorkerCrash(g)

Spec == Init /\ [][Next]_vars

\* Node finishes a request it began; a free worker takes a waiting job and the
\* pipeline's calls return (all have timeouts).
Fairness ==
  /\ \A r \in Requests : WF_vars(RequestStep(r))
  /\ \A g \in Generations : WF_vars(WorkerStep(g))
FairSpec == Spec /\ Fairness

-----------------------------------------------------------------------------
(* Properties.                                                             *)

AtRest == /\ \A r \in Requests : rpc[r] = "idle"
          /\ \A g \in Generations : wpc[g] = "idle" /\ job[g] # "waiting"
\* No fault but one the code answers: a queue that refuses a job.
Clean == faults \subseteq {"queue"}
Working(g) == wpc[g] \in WorkerPoints \ {"idle", "load", "announce", "announceFailure"}

\* "A verification reaches COMPLETED and 100% only after report validation passes"
\* (docs/verification-pipeline.md:92).
CompletedHasReport == doc.status = "COMPLETED" => report

\* Once everything came to rest, a failed or cancelled verification holds no part of
\* the allowance: not for the attempt it shows nor for an earlier one.
FailureIsFree ==
  Clean /\ AtRest /\ doc.status \in {"FAILED", "CANCELLED"}
    => \A g \in Generations : ledger[g] \in {"NONE", "RELEASED"}

\* What the verification shows its owner never claims a refund or a charge the
\* ledger has not made.
SnapshotIsHonest ==
  Clean /\ doc.status # "NONE" =>
    \/ doc.usage.status = "RESERVED"
    \/ ledger[doc.usage.attempt] \in {doc.usage.status, "RELEASED"}

\* Two jobs never take the same verification through the pipeline at once.
OneWorker == \A g, h \in Generations : Working(g) /\ Working(h) => g = h

\* A failure costs nothing, and what the owner is shown of the allowance is so.
AllowanceIsHonest == FailureIsFree /\ SnapshotIsHonest

\* The owner is told of a completion: at rest, a COMPLETED verification has its event.
CompletionIsAnnounced ==
  AtRest /\ doc.status = "COMPLETED" => "VERIFICATION_COMPLETED" \in outbox

\* At rest, a QUEUED verification has a job, whatever request found the queue closed.
\* Only reprocess() does not answer a refusal; what it leaves QUEUED has its report.
NoneStranded == Clean /\ AtRest /\ doc.status = "QUEUED" => report

Ended == doc.status \in {"COMPLETED", "FAILED", "CANCELLED", "DELETED"}

\* A verification without a report that is in the queue is taken through the pipeline
\* to an end, unless a process dies or the database fails on the way.
Finishes == doc.status = "QUEUED" /\ ~report ~> Ended \/ ~Clean

\* "Deterministic BullMQ job IDs and state checks make initialization safe to retry"
\* (docs/verification-pipeline.md:121): also a worker that dies does not stop it.
FinishesAfterCrash == doc.status = "QUEUED" ~> Ended

\* The promises where requests meet jobs: a COMPLETED verification has a validated
\* report whatever fails; one job at a time takes it through the pipeline unless a
\* worker, the queue or the database fails; its completion is announced unless the
\* worker that has to, or the database it writes to, does not make it.
OnlyRequestsDied == faults \subseteq {"apiCrash"}
WorkersRan == faults \subseteq {"apiCrash", "queue", "queueAnswer"}
LifeHolds ==
  /\ CompletedHasReport
  /\ OnlyRequestsDied => OneWorker
  /\ WorkersRan => CompletionIsAnnounced

\* The inductive invariant: no fault lets a verification complete without a validated
\* report. A copy that is about to complete has its report,
\* counts have room for the steps that change them, and a worker has an active job.
CopiesHaveReport == \A h \in Holders : copy[h].status = "COMPLETED" => report
Room ==
  /\ \A r \in Requests :
       /\ rpc[r] = "reserve" => copy[r].retryCount < MaxRetry
       /\ op[r] = "adminRetry" /\ rpc[r] \in {"save", "enqueue"} => copy[r].retryCount > 0
  /\ \A g \in Generations :
       /\ wpc[g] # "idle" => job[g] = "active"
       /\ job[g] # "failed" => failures[g] < JobAttempts
IInv == TypeOK /\ Room /\ CompletedHasReport /\ CopiesHaveReport

\* Why the jobs take turns: generations get their jobs in order, the one that still
\* has a way to go is the last that has a job, a request aims at the generation after
\* those that have one and only while none is on its way, and a verification is not
\* FAILED or COMPLETED while one is.
Exists(g) == job[g] # "absent"
Live(g) == job[g] = "waiting" \/ wpc[g] \in WorkerPoints \ {"idle", "announce", "announceFailure"}
Aims(r, g) ==
  \/ rpc[r] = "reserve" /\ g = copy[r].retryCount + 1
  \/ rpc[r] \in {"save", "enqueue"} /\ g = copy[r].retryCount
Over == doc.status \in {"FAILED", "COMPLETED"}

Turns ==
  /\ \A g, h \in Generations : g < h /\ Exists(h) => Exists(g)
  /\ \A g, h \in Generations : g < h /\ Live(g) => ~Exists(h)
  /\ \A r \in Requests : \A g, h \in Generations : Aims(r, h) /\ g < h => Exists(g) /\ ~Live(g)
  /\ \A r \in Requests : rpc[r] = "enqueue" /\ ~Exists(copy[r].retryCount) => ~Over
Counted ==
  /\ \A g \in Generations : g < doc.retryCount => Exists(g)
  /\ \A g \in Generations : Live(g) => Exists(doc.retryCount)
  /\ Over => Exists(doc.retryCount) /\ \A g \in Generations : ~Live(g)
  /\ doc.status = "NONE" => /\ \A r \in Requests : rpc[r] = "idle"
                            /\ \A g \in Generations : ~Exists(g)
CopiesKnown ==
  /\ \A r \in Requests :
       /\ rpc[r] \in {"reserve", "save"} => base[r].status \in {"FAILED", "COMPLETED"}
       /\ rpc[r] = "save" => copy[r].status = "QUEUED"
       /\ rpc[r] \in {"release", "final"} => /\ copy[r].status \in {"CANCELLED", "DELETED"}
                                             /\ copy[r].retryCount = base[r].retryCount
  /\ \A g \in Generations :
       /\ wpc[g] \in {"begin", "extracting", "extract", "consume", "consumed", "analyse", "synthesize"}
            => copy[g].status = "PROCESSING"
       /\ wpc[g] \in {"complete", "refund", "failed"} => copy[g].status # "NONE"
       /\ copy[g].retryCount = base[g].retryCount
TurnsInv == OnlyRequestsDied => Turns /\ Counted /\ CopiesKnown

\* Why a completion is announced: only a worker makes a copy COMPLETED, and between
\* its save and the event it is on its way.
ToldInv ==
  WorkersRan =>
    /\ doc.status = "COMPLETED" =>
         "VERIFICATION_COMPLETED" \in outbox \/ \E g \in Generations : wpc[g] = "announce"
    /\ \A h \in Holders : copy[h].status = "COMPLETED" /\ base[h].status # "COMPLETED"
         => h \in Generations /\ wpc[h] = "complete"
=============================================================================
