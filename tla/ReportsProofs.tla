---------------------------- MODULE ReportsProofs ----------------------------
(***************************************************************************)
(* Proofs about a verification and its reports. Verification: its life for *)
(* any number of requests, generations and faults, and any interleaving of *)
(* stale copies; the allowance and what is queued, for requests that come  *)
(* one after the other. Sharing: who may read which                        *)
(* version, for any number of requests of the owner, in any order, and any *)
(* number of versions. Localization: the lease of a translation, for any   *)
(* number of requests, any length of a lease and any clock. Stream: what a *)
(* client of the event stream is shown, for any number of writers in       *)
(* either process, any page size and any number of connections.            *)
(* Investigation: what its reports stand on, for any load, any number of   *)
(* passes, claims and sources, and wherever a pass fails or its process    *)
(* dies; and the guided exercise, for any number of requests.              *)
(***************************************************************************)
EXTENDS Investigation, Verification, Sharing, Localization, Stream, SequenceTheorems,
        FiniteSetTheorems, WellFoundedInduction, TLAPS

-----------------------------------------------------------------------------
(* The life of a verification.                                             *)


DocOK == /\ doc \in Document
         /\ copy \in [Holders -> Document]
         /\ base \in [Holders -> Document]

LEMMA DocumentFields ==
  ASSUME NEW d \in Document
  PROVE  /\ DOMAIN d = {"status", "stage", "retryCount", "failureCode", "usage"}
         /\ d.usage \in Usage
         /\ d.retryCount \in Generations
BY DEF Document

LEMMA AbsentType == NewDocument \in Document /\ Absent \in Document
BY VerificationAssumption DEF NewDocument, Absent, Document, Statuses, Stages, Usage, Generations

\* A save leaves a document, whatever the copy changed.
LEMMA MergeType ==
  ASSUME NEW new \in Document, NEW old \in Document, NEW saved \in Document
  PROVE  Merge(new, old, saved) \in Document
<1>1. MergeUsage(new.usage, old.usage, saved.usage) \in Usage
  BY DocumentFields DEF MergeUsage, Usage
<1>2. Merge(new, old, saved) =
        [status |-> IF new.status # old.status THEN new.status ELSE saved.status,
         stage |-> IF new.stage # old.stage THEN new.stage ELSE saved.stage,
         retryCount |-> IF new.retryCount # old.retryCount THEN new.retryCount ELSE saved.retryCount,
         failureCode |-> IF new.failureCode # old.failureCode THEN new.failureCode ELSE saved.failureCode,
         usage |-> MergeUsage(new.usage, old.usage, saved.usage)]
  BY DocumentFields DEF Merge
<1>. QED BY <1>1, <1>2 DEF Document

\* Its status is the one of the copy or the one that was stored.
LEMMA MergeStatus ==
  ASSUME NEW new \in Document, NEW old \in Document, NEW saved \in Document
  PROVE  Merge(new, old, saved).status \in {new.status, saved.status}
BY DocumentFields DEF Merge

LEMMA HoldersApart == Requests \cap Generations = {}
BY VerificationAssumption DEF Generations

\* How the steps treat the document and the copies.
LEMMA CopyTypes ==
  ASSUME DocOK, NEW h \in Holders, NEW c \in Document
  PROVE  /\ LoadAs(h, c) /\ doc' = doc => DocOK'
         /\ SaveAs(h, c) => DocOK'
         /\ Change(h, c) => DocOK'
         /\ Forget(h) /\ doc' = doc => DocOK'
         /\ Forget(h) /\ doc' = Merge(copy[h], base[h], doc) => DocOK'
<1>1. Merge(copy[h], base[h], doc) \in Document
  BY MergeType DEF DocOK
<1>. QED BY <1>1, AbsentType DEF DocOK, LoadAs, SaveAs, Change, Forget

-----------------------------------------------------------------------------
\* A copy whose usage status changed is a document.
LEMMA UsageType ==
  ASSUME NEW d \in Document, NEW s \in {"RESERVED", "USED", "RELEASED"}
  PROVE  [d EXCEPT !.usage.status = s] \in Document
<1>1. [d.usage EXCEPT !.status = s] \in Usage
  BY DEF Document, Usage
<1>2. [d EXCEPT !.usage.status = s] = [d EXCEPT !.usage = [d.usage EXCEPT !.status = s]]
  BY DEF Document
<1>. QED BY <1>1, <1>2 DEF Document

LEMMA ReleaseTypes ==
  ASSUME TypeOK, NEW h \in Holders, ReleaseUsage(h)
  PROVE  DocOK' /\ ledger' \in [Generations -> {"NONE", "RESERVED", "USED", "RELEASED"}]
                /\ doc' = doc /\ \A k \in Holders : copy'[k].status = copy[k].status
                                                 /\ copy'[k].retryCount = copy[k].retryCount
<1>1. copy[h] \in Document /\ DocOK
  BY DEF TypeOK, DocOK
<1>2. [copy[h] EXCEPT !.usage.status = "RELEASED"] \in Document
  BY <1>1, UsageType
<1>3. CASE UNCHANGED <<doc, ledger, copy, base>>
  BY <1>1, <1>3 DEF DocOK, TypeOK
<1>4. CASE /\ ledger' = [ledger EXCEPT ![copy[h].usage.attempt] = "RELEASED"]
           /\ Change(h, [copy[h] EXCEPT !.usage.status = "RELEASED"])
  <2>1. DocOK'
    BY <1>1, <1>2, <1>4, CopyTypes
  <2>2. [copy[h] EXCEPT !.usage.status = "RELEASED"].status = copy[h].status
        /\ [copy[h] EXCEPT !.usage.status = "RELEASED"].retryCount = copy[h].retryCount
    BY <1>1 DEF Document
  <2>. QED BY <1>1, <1>4, <2>1, <2>2 DEF Change, TypeOK
<1>. QED BY <1>3, <1>4 DEF ReleaseUsage

LEMMA ConsumeTypes ==
  ASSUME TypeOK, NEW h \in Holders, ConsumeUsage(h)
  PROVE  DocOK' /\ ledger' \in [Generations -> {"NONE", "RESERVED", "USED", "RELEASED"}]
                /\ doc' = doc /\ \A k \in Holders : copy'[k].status = copy[k].status
                                                 /\ copy'[k].retryCount = copy[k].retryCount
<1>1. copy[h] \in Document /\ DocOK /\ copy[h].usage \in Usage
  BY DocumentFields DEF TypeOK, DocOK
<1>2. CASE UNCHANGED <<doc, ledger, copy, base>>
  BY <1>1, <1>2 DEF DocOK, TypeOK
<1>3. CASE /\ ledger[copy[h].usage.attempt] # "NONE"
           /\ ledger' = [ledger EXCEPT ![copy[h].usage.attempt] = Taken(@)]
           /\ Change(h, [copy[h] EXCEPT !.usage.status = ledger'[copy[h].usage.attempt]])
  <2>0. copy[h].usage.attempt \in Generations
    BY <1>1 DEF Usage
  <2>1. /\ ledger' \in [Generations -> {"NONE", "RESERVED", "USED", "RELEASED"}]
        /\ ledger'[copy[h].usage.attempt] \in {"RESERVED", "USED", "RELEASED"}
    BY <1>3, <2>0 DEF Taken, TypeOK
  <2>2. [copy[h] EXCEPT !.usage.status = ledger'[copy[h].usage.attempt]] \in Document
    BY <1>1, <2>1, UsageType
  <2>3. DocOK'
    BY <1>1, <1>3, <2>2, CopyTypes
  <2>4. [copy[h] EXCEPT !.usage.status = ledger'[copy[h].usage.attempt]].status = copy[h].status
        /\ [copy[h] EXCEPT !.usage.status = ledger'[copy[h].usage.attempt]].retryCount = copy[h].retryCount
    BY <1>1 DEF Document
  <2>. QED BY <1>1, <1>3, <2>1, <2>3, <2>4 DEF Change, TypeOK
<1>. QED BY <1>2, <1>3 DEF ConsumeUsage

-----------------------------------------------------------------------------
\* The document and the copies keep their type.
LEMMA DocRequest ==
  ASSUME TypeOK, Room, NEW r \in Requests,
         \/ Create(r) \/ Cancel(r) \/ Retry(r) \/ AdminRetry(r) \/ Reprocess(r) \/ Delete(r)
         \/ RequestStep(r) \/ Refused(r)
         \/ SaveFails(r) \/ EnqueueFails(r) \/ ApiCrash(r)
  PROVE  DocOK'
<1>1. DocOK /\ r \in Holders /\ copy[r] \in Document /\ doc \in Document /\ base[r] \in Document
  BY DEF TypeOK, DocOK, Holders
<1>2. doc.retryCount \in Generations /\ copy[r].retryCount \in Generations
      /\ copy[r].usage \in Usage
  BY <1>1, DocumentFields
<1>. USE VerificationAssumption
<1>3. CASE Create(r)
  BY <1>1, <1>3, AbsentType DEF Create, DocOK
<1>4. CASE Cancel(r)
  <2>1. [doc EXCEPT !.status = "CANCELLED"] \in Document
    BY <1>1 DEF Document, Statuses
  <2>. QED BY <1>1, <1>4, <2>1, CopyTypes DEF Cancel, Accept, store
<1>5. CASE Retry(r)
  <2>1. doc.retryCount + 1 \in Generations
    BY <1>2, <1>5 DEF Retry, Generations
  <2>2. [doc EXCEPT !.status = "QUEUED", !.stage = "RECEIVED", !.retryCount = @ + 1,
                    !.failureCode = "none"] \in Document
    BY <1>1, <2>1 DEF Document, Statuses, Stages
  <2>. QED BY <1>1, <1>5, <2>2, CopyTypes DEF Retry, Accept, store
<1>6. CASE AdminRetry(r)
  <2>1. doc.retryCount + 1 \in Generations
    BY <1>2, <1>6 DEF AdminRetry, Generations
  <2>2. [doc EXCEPT !.status = "QUEUED", !.retryCount = @ + 1, !.failureCode = "none"] \in Document
    BY <1>1, <2>1 DEF Document, Statuses
  <2>. QED BY <1>1, <1>6, <2>2, CopyTypes DEF AdminRetry, Accept, store
<1>7. CASE Reprocess(r)
  <2>1. doc.retryCount + 1 \in Generations
    BY <1>2, <1>7 DEF Reprocess, Generations
  <2>2. [doc EXCEPT !.status = "QUEUED", !.stage = "RECEIVED", !.retryCount = @ + 1,
                    !.failureCode = "none"] \in Document
    BY <1>1, <2>1 DEF Document, Statuses, Stages
  <2>. QED BY <1>1, <1>7, <2>2, CopyTypes DEF Reprocess, Accept, store
<1>8. CASE Delete(r)
  <2>1. [doc EXCEPT !.status = "DELETED"] \in Document
    BY <1>1 DEF Document, Statuses
  <2>. QED BY <1>1, <1>8, <2>1, CopyTypes DEF Delete, Accept, store
<1>9. CASE Reserve(r)
  <2>. DEFINE a == copy[r].retryCount + 1
              u == [attempt |-> a, status |-> ledger'[a]]
              c == [copy[r] EXCEPT !.status = "QUEUED", !.stage = "RECEIVED", !.retryCount = a,
                                   !.failureCode = "none", !.usage = u]
  <2>1. a \in Generations
    BY <1>2, <1>9 DEF Reserve, Room, Generations
  <2>2. ledger'[a] \in {"RESERVED", "USED", "RELEASED"}
    BY <1>9, <2>1 DEF Reserve, TypeOK
  <2>3. u \in Usage
    BY <2>1, <2>2 DEF Usage
  <2>4. c \in Document
    BY <1>1, <2>1, <2>3 DEF Document, Statuses, Stages
  <2>5. copy' = [copy EXCEPT ![r] = c] /\ UNCHANGED <<doc, base>>
    BY <1>9 DEF Reserve
  <2>. QED BY <1>1, <2>4, <2>5 DEF DocOK
<1>10. CASE Release(r)
  BY <1>1, <1>10, ReleaseTypes DEF Release
<1>11. CASE SaveRequest(r)
  BY <1>1, <1>11, CopyTypes DEF SaveRequest, Save
<1>12. CASE SaveFinal(r)
  BY <1>1, <1>12, CopyTypes DEF SaveFinal, Respond
<1>13. CASE Unreserve(r) \/ Enqueue(r) \/ Refused(r) \/ ApiCrash(r)
  BY <1>1, <1>13, CopyTypes, AbsentType DEF Unreserve, Enqueue, Refused, ApiCrash, Respond, store
<1>14. CASE SaveFails(r)
  <2>1. CASE UNCHANGED <<copy, base>>
    BY <1>1, <1>14, <2>1 DEF SaveFails, store, DocOK
  <2>2. CASE Respond(r)
    BY <1>1, <1>14, <2>2, CopyTypes, AbsentType DEF SaveFails, Respond, store
  <2>. QED BY <1>14, <2>1, <2>2 DEF SaveFails
<1>15. CASE EnqueueFails(r)
  <2>1. [copy[r] EXCEPT !.status = "FAILED", !.failureCode = "OTHER"] \in Document
    BY <1>1 DEF Document, Statuses
  <2>2. op[r] = "adminRetry" => Restored(copy[r]) \in Document
    <3>1. op[r] = "adminRetry" => copy[r].retryCount - 1 \in Generations
      BY <1>2, <1>15 DEF EnqueueFails, Room, Generations
    <3>. QED BY <1>1, <3>1 DEF Restored, Document, Statuses
  <2>3. CASE copy' = [copy EXCEPT ![r].status = "FAILED", ![r].failureCode = "OTHER"] /\ UNCHANGED base
    BY <1>1, <1>15, <2>1, <2>3 DEF EnqueueFails, store, DocOK
  <2>4. CASE op[r] = "adminRetry" /\ copy' = [copy EXCEPT ![r] = Restored(@)] /\ UNCHANGED base
    BY <1>1, <1>15, <2>2, <2>4 DEF EnqueueFails, store, DocOK
  <2>5. CASE Respond(r)
    BY <1>1, <1>15, <2>5, CopyTypes, AbsentType DEF EnqueueFails, Respond, store
  <2>. QED BY <1>15, <2>3, <2>4, <2>5 DEF EnqueueFails, Recovery
<1>. QED BY <1>3, <1>4, <1>5, <1>6, <1>7, <1>8, <1>9, <1>10, <1>11, <1>12, <1>13, <1>14, <1>15
         DEF RequestStep

LEMMA DocWorker ==
  ASSUME TypeOK, NEW g \in Generations, WorkerStep(g) \/ JobFails(g) \/ WorkerCrash(g)
  PROVE  DocOK'
<1>1. DocOK /\ g \in Holders /\ copy[g] \in Document /\ doc \in Document /\ base[g] \in Document
  BY DEF TypeOK, DocOK, Holders
<1>2. /\ [doc EXCEPT !.status = "PROCESSING", !.stage = "INPUT_VALIDATION"] \in Document
      /\ [copy[g] EXCEPT !.stage = "CONTENT_EXTRACTION"] \in Document
      /\ [copy[g] EXCEPT !.stage = "ANALYSIS"] \in Document
      /\ [copy[g] EXCEPT !.stage = "REPORT_SYNTHESIS"] \in Document
      /\ [copy[g] EXCEPT !.status = "COMPLETED", !.stage = "COMPLETED"] \in Document
      /\ \A code \in {"VALIDATION_ERROR", "OTHER"} :
           [copy[g] EXCEPT !.status = "FAILED", !.failureCode = code] \in Document
  BY <1>1 DEF Document, Statuses, Stages
<1>3. CASE TakeJob(g)
  BY <1>1, <1>3 DEF TakeJob, store, DocOK
<1>4. CASE Skip(g) \/ JobFails(g) \/ WorkerCrash(g)
  BY <1>1, <1>4, CopyTypes, AbsentType DEF Skip, JobFails, WorkerCrash, Finish, store
<1>5. CASE Load(g)
  BY <1>1, <1>2, <1>5, CopyTypes DEF Load, store
<1>6. CASE SaveBegin(g)
  BY <1>1, <1>2, <1>6, CopyTypes DEF SaveBegin
<1>7. CASE SaveExtracting(g) \/ SaveConsumed(g) \/ SaveCompleted(g) \/ SaveFailed(g)
  BY <1>1, <1>7, CopyTypes DEF SaveExtracting, SaveConsumed, SaveCompleted, SaveFailed, Save
<1>8. CASE Extract(g)
  BY <1>1, <1>2, <1>8, MergeType DEF Extract, DocOK
<1>9. CASE Analyse(g)
  BY <1>1, <1>2, <1>9, MergeType DEF Analyse, DocOK
<1>10. CASE Consume(g)
  BY <1>1, <1>10, ConsumeTypes DEF Consume
<1>11. CASE Refund(g)
  BY <1>1, <1>11, ReleaseTypes DEF Refund, Refunded
<1>12. CASE Synthesize(g)
  BY <1>1, <1>2, <1>12, CopyTypes DEF Synthesize
<1>13. CASE PipelineFails(g)
  BY <1>1, <1>2, <1>13, CopyTypes DEF PipelineFails, Catch
<1>14. CASE AnnounceCompleted(g) \/ AnnounceFailed(g)
  BY <1>1, <1>14, CopyTypes, AbsentType DEF AnnounceCompleted, AnnounceFailed, Announce, Finish
<1>. QED BY <1>3, <1>4, <1>5, <1>6, <1>7, <1>8, <1>9, <1>10, <1>11, <1>12, <1>13, <1>14
         DEF WorkerStep

-----------------------------------------------------------------------------
\* So do the other variables.
RestOK ==
  /\ ledger \in [Generations -> {"NONE", "RESERVED", "USED", "RELEASED"}]
  /\ report \in BOOLEAN
  /\ outbox \subseteq {"VERIFICATION_COMPLETED", "VERIFICATION_FAILED"}
  /\ job \in [Generations -> {"absent", "waiting", "active", "completed", "failed"}]
  /\ failures \in [Generations -> 0..JobAttempts]
  /\ stalls \in [Generations -> 0..MaxStalls]
  /\ rpc \in [Requests -> RequestPoints]
  /\ op \in [Requests -> Operations \cup {"create", "none"}]
  /\ wpc \in [Generations -> WorkerPoints]
  /\ faults \subseteq Faults

LEMMA FaultType == ASSUME TypeOK, NEW kind, Fault(kind) PROVE faults' \subseteq Faults
BY DEF TypeOK, Fault

LEMMA RestRequest ==
  ASSUME TypeOK, NEW r \in Requests,
         \/ Create(r) \/ Cancel(r) \/ Retry(r) \/ AdminRetry(r) \/ Reprocess(r) \/ Delete(r)
         \/ RequestStep(r) \/ Refused(r)
         \/ SaveFails(r) \/ EnqueueFails(r) \/ ApiCrash(r)
  PROVE  RestOK'
<1>. USE DEF TypeOK, RestOK, RequestPoints
<1>1. CASE Create(r)
  <2>1. 0 \in Generations
    BY VerificationAssumption DEF Generations
  <2>. QED BY <1>1, <2>1 DEF Create, queue
<1>2. CASE Cancel(r) \/ Retry(r) \/ AdminRetry(r) \/ Reprocess(r) \/ Delete(r)
  BY <1>2 DEF Cancel, Retry, AdminRetry, Reprocess, Delete, Accept, store, queue
<1>3. CASE Reserve(r)
  BY <1>3 DEF Reserve, Go, queue
<1>4. CASE Release(r)
  <2>1. r \in Holders
    BY DEF Holders
  <2>. QED BY <1>4, <2>1, ReleaseTypes DEF Release, Go, queue
<1>5. CASE SaveRequest(r) \/ SaveFinal(r)
  BY <1>5 DEF SaveRequest, SaveFinal, Go, Respond, queue
<1>6. CASE Unreserve(r) \/ Refused(r)
  <2>1. CASE Unreserve(r)
    BY <2>1 DEF Unreserve, Respond, queue
  <2>2. CASE Refused(r)
    BY <2>2 DEF Refused, Respond, store, queue
  <2>. QED BY <1>6, <2>1, <2>2
<1>7. CASE Enqueue(r)
  BY <1>7 DEF Enqueue, AddJob, Respond, store, queue
<1>8. CASE SaveFails(r)
  BY <1>8, FaultType DEF SaveFails, Go, Respond, store, queue
<1>9. CASE EnqueueFails(r)
  <2>1. faults' \subseteq Faults
    BY <1>9, FaultType DEF EnqueueFails
  <2>2. job' \in [Generations -> {"absent", "waiting", "active", "completed", "failed"}]
    BY <1>9 DEF EnqueueFails, AddJob
  <2>3. rpc' \in [Requests -> RequestPoints] /\ op' \in [Requests -> Operations \cup {"create", "none"}]
    BY <1>9 DEF EnqueueFails, Recovery, Go, Respond
  <2>4. UNCHANGED <<store, failures, stalls, wpc>>
    BY <1>9 DEF EnqueueFails
  <2>. QED BY <2>1, <2>2, <2>3, <2>4 DEF store
<1>10. CASE ApiCrash(r)
  BY <1>10, FaultType DEF ApiCrash, Respond, store, queue
<1>. QED BY <1>1, <1>2, <1>3, <1>4, <1>5, <1>6, <1>7, <1>8, <1>9, <1>10 DEF RequestStep

LEMMA RestWorker ==
  ASSUME TypeOK, Room, NEW g \in Generations, WorkerStep(g) \/ JobFails(g) \/ WorkerCrash(g)
  PROVE  RestOK'
<1>. USE DEF TypeOK, RestOK, WorkerPoints
<1>0. g \in Holders
  BY DEF Holders
<1>1. CASE TakeJob(g) \/ Skip(g) \/ Load(g)
  BY <1>1 DEF TakeJob, Skip, Load, Finish, WGo, store, queue, request
<1>2. CASE SaveBegin(g) \/ SaveExtracting(g) \/ Extract(g) \/ SaveConsumed(g) \/ Analyse(g)
           \/ SaveCompleted(g) \/ SaveFailed(g)
  BY <1>2 DEF SaveBegin, SaveExtracting, Extract, SaveConsumed, Analyse, SaveCompleted,
              SaveFailed, WGo, queue, request
<1>3. CASE Consume(g)
  BY <1>0, <1>3, ConsumeTypes DEF Consume, WGo, queue, request
<1>4. CASE Refund(g)
  BY <1>0, <1>4, ReleaseTypes DEF Refund, Refunded, WGo, queue, request
<1>5. CASE Synthesize(g)
  BY <1>5 DEF Synthesize, Validated, WGo, queue, request
<1>6. CASE PipelineFails(g)
  <2>1. faults' \subseteq Faults
    BY <1>6, FaultType DEF PipelineFails
  <2>2. \E code : Catch(g, code)
    BY <1>6 DEF PipelineFails
  <2>. QED BY <2>1, <2>2 DEF Catch, WGo, queue, request
<1>7. CASE AnnounceCompleted(g) \/ AnnounceFailed(g)
  <2>1. PICK e \in {"VERIFICATION_COMPLETED", "VERIFICATION_FAILED"} : Announce(g, e)
    BY <1>7 DEF AnnounceCompleted, AnnounceFailed
  <2>2. faults' \subseteq Faults
    BY <2>1, FaultType DEF Announce
  <2>. QED BY <2>1, <2>2 DEF Announce, Finish, WGo, request
<1>8. CASE JobFails(g)
  <2>1. failures[g] + 1 \in 0..JobAttempts
    BY <1>8 DEF JobFails, Room, JobAttempts
  <2>. QED BY <1>8, <2>1, FaultType DEF JobFails, Finish, WGo, store, request
<1>9. CASE WorkerCrash(g)
  <2>1. stalls[g] < MaxStalls => stalls[g] + 1 \in 0..MaxStalls
    BY DEF MaxStalls
  <2>. QED BY <1>9, <2>1, FaultType DEF WorkerCrash, Finish, WGo, store, request
<1>. QED BY <1>1, <1>2, <1>3, <1>4, <1>5, <1>6, <1>7, <1>8, <1>9 DEF WorkerStep

-----------------------------------------------------------------------------
\* The counts have room.
LEMMA RoomRequest ==
  ASSUME TypeOK, Room, NEW r \in Requests,
         \/ Create(r) \/ Cancel(r) \/ Retry(r) \/ AdminRetry(r) \/ Reprocess(r) \/ Delete(r)
         \/ RequestStep(r) \/ Refused(r)
         \/ SaveFails(r) \/ EnqueueFails(r) \/ ApiCrash(r)
  PROVE  Room'
<1>1. /\ \A q \in Requests : q # r =>
           rpc'[q] = rpc[q] /\ op'[q] = op[q] /\ copy'[q].retryCount = copy[q].retryCount
      /\ wpc' = wpc /\ failures' = failures
  <2>0. r \in Holders /\ \A q \in Requests : q \in Holders
    BY DEF Holders
  <2>1. CASE Release(r)
    BY <2>0, <2>1, ReleaseTypes DEF Release, Go, queue, TypeOK
  <2>2. CASE ~Release(r)
    <3>1. CASE Create(r) \/ Cancel(r) \/ Retry(r) \/ AdminRetry(r) \/ Reprocess(r) \/ Delete(r)
      BY <2>0, <3>1 DEF Create, Cancel, Retry, AdminRetry, Reprocess, Delete, Accept, LoadAs, queue, TypeOK
    <3>2. CASE Reserve(r) \/ SaveRequest(r) \/ SaveFinal(r) \/ Unreserve(r) \/ Enqueue(r)
      BY <2>0, <3>2 DEF Reserve, SaveRequest, SaveFinal, Unreserve, Enqueue, Save, SaveAs, Respond,
                        Forget, Go, queue, TypeOK
    <3>3. CASE Refused(r) \/ SaveFails(r) \/ ApiCrash(r)
      BY <2>0, <3>3 DEF Refused, SaveFails, ApiCrash, Respond, Forget, Go, queue, TypeOK
    <3>4. CASE EnqueueFails(r)
      BY <2>0, <3>4 DEF EnqueueFails, Recovery, Respond, Forget, Go, queue, TypeOK
    <3>. QED BY <2>2, <3>1, <3>2, <3>3, <3>4 DEF RequestStep
  <2>. QED BY <2>1, <2>2
<1>2. \A g \in Generations : job'[g] = job[g] \/ (job[g] = "absent" /\ job'[g] = "waiting")
  <2>1. CASE Create(r) \/ Cancel(r) \/ Retry(r) \/ AdminRetry(r) \/ Reprocess(r) \/ Delete(r)
             \/ Reserve(r) \/ Release(r) \/ SaveRequest(r) \/ SaveFinal(r) \/ Unreserve(r)
             \/ Refused(r) \/ SaveFails(r) \/ ApiCrash(r)
    BY <2>1 DEF Create, Cancel, Retry, AdminRetry, Reprocess, Delete, Accept, Reserve, Release,
                SaveRequest, SaveFinal, Unreserve, Refused, SaveFails, ApiCrash, queue
  <2>2. CASE Enqueue(r) \/ EnqueueFails(r)
    BY <2>2 DEF Enqueue, EnqueueFails, AddJob, TypeOK
  <2>. QED BY <2>1, <2>2 DEF RequestStep
<1>3. \A g \in Generations : /\ wpc'[g] # "idle" => job'[g] = "active"
                             /\ job'[g] # "failed" => failures'[g] < JobAttempts
  BY <1>1, <1>2 DEF Room
<1>4. rpc'[r] = "reserve" => copy'[r].retryCount < MaxRetry
  <2>1. r \in Holders
    BY DEF Holders
  <2>2. CASE Retry(r)
    BY <2>1, <2>2 DEF Retry, Accept, LoadAs, TypeOK
  <2>3. CASE ~Retry(r)
    <3>1. rpc'[r] # "reserve"
      <4>1. CASE Create(r) \/ Cancel(r) \/ AdminRetry(r) \/ Reprocess(r) \/ Delete(r)
        BY <4>1 DEF Create, Cancel, AdminRetry, Reprocess, Delete, Accept, TypeOK
      <4>2. CASE Reserve(r) \/ Release(r) \/ SaveRequest(r) \/ SaveFinal(r) \/ Unreserve(r) \/ Enqueue(r)
        BY <4>2 DEF Reserve, Release, SaveRequest, SaveFinal, Unreserve, Enqueue, Respond, Go, TypeOK
      <4>3. CASE Refused(r) \/ SaveFails(r) \/ ApiCrash(r) \/ EnqueueFails(r)
        BY <4>3 DEF Refused, SaveFails, ApiCrash, EnqueueFails, Recovery, Respond, Go, TypeOK
      <4>. QED BY <2>3, <4>1, <4>2, <4>3 DEF RequestStep
    <3>. QED BY <3>1
  <2>. QED BY <2>2, <2>3
<1>5. op'[r] = "adminRetry" /\ rpc'[r] \in {"save", "enqueue"} => copy'[r].retryCount > 0
  <2>1. r \in Holders /\ doc.retryCount \in Nat /\ doc \in Document
    BY DocumentFields, VerificationAssumption DEF Holders, TypeOK, Generations
  <2>2. CASE AdminRetry(r)
    <3>1. [doc EXCEPT !.status = "QUEUED", !.retryCount = @ + 1, !.failureCode = "none"].retryCount
            = doc.retryCount + 1
      BY <2>1 DEF Document
    <3>. QED BY <2>1, <2>2, <3>1 DEF AdminRetry, Accept, LoadAs, TypeOK
  <2>3. CASE SaveRequest(r)
    BY <2>1, <2>3 DEF SaveRequest, Save, SaveAs, Go, Room, TypeOK
  <2>4. CASE Create(r) \/ Cancel(r) \/ Retry(r) \/ Reprocess(r) \/ Delete(r)
    BY <2>4 DEF Create, Cancel, Retry, Reprocess, Delete, Accept, TypeOK
  <2>5. CASE Release(r) \/ SaveFinal(r) \/ Unreserve(r) \/ Enqueue(r) \/ Refused(r) \/ SaveFails(r)
             \/ ApiCrash(r) \/ EnqueueFails(r)
    BY <2>5 DEF Release, SaveFinal, Unreserve, Enqueue, Refused, SaveFails, ApiCrash, EnqueueFails,
                Recovery, Respond, Go, TypeOK
  <2>6. CASE Reserve(r)
    <3>1. copy'[r].retryCount = copy[r].retryCount + 1 /\ copy[r].retryCount \in Nat
      BY <2>1, <2>6, DocumentFields, VerificationAssumption DEF Reserve, TypeOK, Document, Generations
    <3>. QED BY <3>1
  <2>. QED BY <2>2, <2>3, <2>4, <2>5, <2>6 DEF RequestStep
<1>. QED BY <1>1, <1>3, <1>4, <1>5 DEF Room

LEMMA RoomWorker ==
  ASSUME TypeOK, Room, NEW g \in Generations, WorkerStep(g) \/ JobFails(g) \/ WorkerCrash(g)
  PROVE  Room'
<1>0. g \in Holders /\ \A q \in Requests : q \in Holders /\ q # g
  BY HoldersApart DEF Holders
<1>. DEFINE Apart == /\ rpc' = rpc /\ op' = op
                     /\ \A q \in Requests : copy'[q].retryCount = copy[q].retryCount
                     /\ \A h \in Generations : h # g =>
                          wpc'[h] = wpc[h] /\ job'[h] = job[h] /\ failures'[h] = failures[h]
            Kept == job' = job /\ failures' = failures /\ wpc[g] # "idle"
<1>1. CASE TakeJob(g) \/ Skip(g) \/ Load(g)
  BY <1>0, <1>1 DEF TakeJob, Skip, Load, Finish, WGo, LoadAs, Forget, At, queue, request, Room, TypeOK
<1>2. CASE SaveBegin(g) \/ SaveExtracting(g) \/ SaveConsumed(g) \/ SaveCompleted(g) \/ SaveFailed(g)
  <2>1. Apart /\ Kept
    BY <1>0, <1>2 DEF SaveBegin, SaveExtracting, SaveConsumed, SaveCompleted, SaveFailed, Save,
                      SaveAs, WGo, At, queue, request, TypeOK
  <2>. QED BY <2>1 DEF Room
<1>3. CASE Extract(g) \/ Analyse(g) \/ Synthesize(g) \/ PipelineFails(g)
  <2>1. Apart /\ Kept
    BY <1>0, <1>3 DEF Extract, Analyse, Synthesize, PipelineFails, Catch, Change, WGo, At, queue,
                      request, TypeOK
  <2>. QED BY <2>1 DEF Room
<1>4. CASE Consume(g) \/ Refund(g)
  <2>1. Apart /\ Kept
    BY <1>0, <1>4, ConsumeTypes, ReleaseTypes DEF Consume, Refund, Refunded, WGo, At, queue, request, TypeOK
  <2>. QED BY <2>1 DEF Room
<1>5. CASE AnnounceCompleted(g) \/ AnnounceFailed(g)
  BY <1>0, <1>5 DEF AnnounceCompleted, AnnounceFailed, Announce, Finish, WGo, Forget, At, request, Room, TypeOK
<1>6. CASE JobFails(g)
  <2>1. failures[g] \in Int /\ wpc'[g] = "idle"
        /\ (job'[g] # "failed" => failures'[g] < JobAttempts)
    BY <1>6 DEF JobFails, Finish, WGo, TypeOK
  <2>2. Apart
    BY <1>0, <1>6 DEF JobFails, Finish, WGo, Forget, request, TypeOK
  <2>. QED BY <2>1, <2>2 DEF Room
<1>7. CASE WorkerCrash(g)
  <2>1. wpc'[g] = "idle" /\ failures' = failures /\ wpc[g] # "idle"
    BY <1>7 DEF WorkerCrash, Finish, WGo, At, TypeOK
  <2>2. Apart
    BY <1>0, <1>7 DEF WorkerCrash, Finish, WGo, Forget, request, TypeOK
  <2>. QED BY <2>1, <2>2 DEF Room
<1>. QED BY <1>1, <1>2, <1>3, <1>4, <1>5, <1>6, <1>7 DEF WorkerStep

-----------------------------------------------------------------------------
\* A report is there before any copy says COMPLETED, and no save invents a status
\* that neither its copy nor the document had.
LEMMA ReportRequest ==
  ASSUME TypeOK, CompletedHasReport, CopiesHaveReport, NEW r \in Requests,
         \/ Create(r) \/ Cancel(r) \/ Retry(r) \/ AdminRetry(r) \/ Reprocess(r) \/ Delete(r)
         \/ RequestStep(r) \/ Refused(r)
         \/ SaveFails(r) \/ EnqueueFails(r) \/ ApiCrash(r)
  PROVE  CompletedHasReport' /\ CopiesHaveReport'
<1>1. r \in Holders /\ doc \in Document /\ copy[r] \in Document /\ base[r] \in Document
  BY DEF TypeOK, Holders
<1>2. NewDocument.status = "QUEUED" /\ Absent.status = "NONE"
  BY DEF NewDocument, Absent
<1>. USE DEF CompletedHasReport, CopiesHaveReport
<1>3. CASE Create(r)
  BY <1>1, <1>2, <1>3 DEF Create, TypeOK
<1>4. CASE Cancel(r) \/ Retry(r) \/ AdminRetry(r) \/ Reprocess(r) \/ Delete(r)
  <2>1. PICK c \in {doc, [doc EXCEPT !.status = "CANCELLED"],
                    [doc EXCEPT !.status = "QUEUED", !.retryCount = @ + 1, !.failureCode = "none"],
                    [doc EXCEPT !.status = "QUEUED", !.stage = "RECEIVED", !.retryCount = @ + 1,
                                !.failureCode = "none"],
                    [doc EXCEPT !.status = "DELETED"]} : LoadAs(r, c) /\ UNCHANGED store
    BY <1>4 DEF Cancel, Retry, AdminRetry, Reprocess, Delete, Accept
  <2>2. c.status = doc.status \/ c.status # "COMPLETED"
    BY <1>1, <2>1 DEF Document
  <2>. QED BY <1>1, <2>1, <2>2 DEF LoadAs, store, TypeOK
<1>5. CASE Reserve(r)
  <2>1. copy'[r].status = "QUEUED"
    BY <1>1, <1>5 DEF Reserve, Document, TypeOK
  <2>. QED BY <1>1, <1>5, <2>1 DEF Reserve, TypeOK
<1>6. CASE Release(r)
  BY <1>1, <1>6, ReleaseTypes DEF Release
<1>7. CASE SaveRequest(r) \/ SaveFinal(r)
  <2>1. doc'.status \in {copy[r].status, doc.status} /\ report' = report
    BY <1>1, <1>7, MergeStatus DEF SaveRequest, SaveFinal, Save, SaveAs
  <2>2. \A h \in Holders : copy'[h] = copy[h] \/ copy'[h] = Absent
    BY <1>1, <1>7 DEF SaveRequest, SaveFinal, Save, SaveAs, Respond, Forget, TypeOK
  <2>. QED BY <1>1, <1>2, <2>1, <2>2
<1>8. CASE Unreserve(r) \/ Enqueue(r) \/ Refused(r) \/ ApiCrash(r) \/ SaveFails(r)
  <2>1. /\ doc' = doc /\ report' = report
        /\ \A h \in Holders : copy'[h] = copy[h] \/ copy'[h] = Absent
    BY <1>1, <1>8 DEF Unreserve, Enqueue, Refused, ApiCrash, SaveFails, Respond, Forget, store, TypeOK
  <2>. QED BY <1>2, <2>1
<1>9. CASE EnqueueFails(r)
  <2>1. doc' = doc /\ report' = report
    BY <1>9 DEF EnqueueFails, store
  <2>2. \A h \in Holders : copy'[h] = copy[h] \/ copy'[h].status \in {"FAILED", "NONE"}
    <3>1. CASE Respond(r)
      BY <1>1, <1>2, <3>1 DEF Respond, Forget, TypeOK
    <3>2. CASE copy' = [copy EXCEPT ![r].status = "FAILED", ![r].failureCode = "OTHER"]
      BY <1>1, <3>2 DEF TypeOK, Document
    <3>3. CASE copy' = [copy EXCEPT ![r] = Restored(@)]
      BY <1>1, <3>3 DEF Restored, TypeOK, Document
    <3>. QED BY <1>9, <3>1, <3>2, <3>3 DEF EnqueueFails, Recovery
  <2>. QED BY <2>1, <2>2
<1>. QED BY <1>3, <1>4, <1>5, <1>6, <1>7, <1>8, <1>9 DEF RequestStep

LEMMA ReportWorker ==
  ASSUME TypeOK, CompletedHasReport, CopiesHaveReport, NEW g \in Generations,
         WorkerStep(g) \/ JobFails(g) \/ WorkerCrash(g)
  PROVE  CompletedHasReport' /\ CopiesHaveReport'
<1>1. g \in Holders /\ doc \in Document /\ copy[g] \in Document /\ base[g] \in Document
  BY DEF TypeOK, Holders
<1>2. Absent.status = "NONE"
  BY DEF NewDocument, Absent
<1>. USE DEF CompletedHasReport, CopiesHaveReport
<1>3. CASE TakeJob(g) \/ Skip(g) \/ JobFails(g) \/ WorkerCrash(g)
  <2>1. /\ doc' = doc /\ report' = report
        /\ \A h \in Holders : copy'[h] = copy[h] \/ copy'[h] = Absent
    BY <1>1, <1>3 DEF TakeJob, Skip, JobFails, WorkerCrash, Finish, Forget, store, TypeOK
  <2>. QED BY <1>2, <2>1
<1>4. CASE Load(g)
  <2>1. [doc EXCEPT !.status = "PROCESSING", !.stage = "INPUT_VALIDATION"].status = "PROCESSING"
    BY <1>1 DEF Document
  <2>. QED BY <1>1, <1>4, <2>1 DEF Load, LoadAs, store, TypeOK
<1>5. CASE SaveBegin(g) \/ SaveExtracting(g) \/ SaveConsumed(g) \/ SaveCompleted(g) \/ SaveFailed(g)
  <2>1. doc'.status \in {copy[g].status, doc.status} /\ report' = report
    BY <1>1, <1>5, MergeStatus DEF SaveBegin, SaveExtracting, SaveConsumed, SaveCompleted, SaveFailed,
                                   Save, SaveAs
  <2>2. \A h \in Holders : copy'[h].status = copy[h].status
    <3>1. [copy[g] EXCEPT !.stage = "CONTENT_EXTRACTION"].status = copy[g].status
      BY <1>1 DEF Document
    <3>2. copy' = [copy EXCEPT ![g] = copy[g]]
            \/ copy' = [copy EXCEPT ![g] = [copy[g] EXCEPT !.stage = "CONTENT_EXTRACTION"]]
      BY <1>5 DEF SaveBegin, SaveExtracting, SaveConsumed, SaveCompleted, SaveFailed, Save, SaveAs
    <3>. QED BY <1>1, <3>1, <3>2 DEF TypeOK
  <2>. QED BY <1>1, <2>1, <2>2
<1>6. CASE Extract(g) \/ Analyse(g)
  <2>1. PICK s \in {"ANALYSIS", "REPORT_SYNTHESIS"} :
          /\ doc' = Merge([copy[g] EXCEPT !.stage = s], base[g], doc)
          /\ copy' = [copy EXCEPT ![g] = [copy[g] EXCEPT !.stage = s]]
          /\ report' = report
    BY <1>6 DEF Extract, Analyse
  <2>2. [copy[g] EXCEPT !.stage = s] \in Document /\ [copy[g] EXCEPT !.stage = s].status = copy[g].status
    BY <1>1, <2>1 DEF Document, Stages
  <2>3. doc'.status \in {copy[g].status, doc.status}
    BY <1>1, <2>1, <2>2, MergeStatus
  <2>. QED BY <1>1, <2>1, <2>2, <2>3 DEF TypeOK
<1>7. CASE Consume(g) \/ Refund(g)
  BY <1>1, <1>7, ConsumeTypes, ReleaseTypes DEF Consume, Refund, Refunded
<1>8. CASE Synthesize(g)
  BY <1>8 DEF Synthesize, Validated
<1>9. CASE PipelineFails(g)
  <2>1. PICK code : Change(g, [copy[g] EXCEPT !.status = "FAILED", !.failureCode = code])
                    /\ report' = report
    BY <1>9 DEF PipelineFails, Catch
  <2>2. [copy[g] EXCEPT !.status = "FAILED", !.failureCode = code].status = "FAILED"
    BY <1>1 DEF Document
  <2>. QED BY <1>1, <2>1, <2>2 DEF Change, TypeOK
<1>10. CASE AnnounceCompleted(g) \/ AnnounceFailed(g)
  <2>1. /\ doc' = doc /\ report' = report
        /\ \A h \in Holders : copy'[h] = copy[h] \/ copy'[h] = Absent
    BY <1>1, <1>10 DEF AnnounceCompleted, AnnounceFailed, Announce, Finish, Forget, TypeOK
  <2>. QED BY <1>2, <2>1
<1>. QED BY <1>3, <1>4, <1>5, <1>6, <1>7, <1>8, <1>9, <1>10 DEF WorkerStep

-----------------------------------------------------------------------------
LEMMA Inductive == Spec => []IInv
<1>1. Init => IInv
  <2>1. Absent.status = "NONE"
    BY DEF Absent, NewDocument
  <2>2. Init => TypeOK
    <3>1. Init => DocOK
      BY AbsentType DEF Init, DocOK
    <3>2. Init => RestOK
      <4>. SUFFICES ASSUME Init PROVE RestOK
        OBVIOUS
      <4>1. failures \in [Generations -> 0..JobAttempts] /\ stalls \in [Generations -> 0..MaxStalls]
        BY DEF Init, JobAttempts, MaxStalls
      <4>2. faults \subseteq Faults
        BY VerificationAssumption DEF Init
      <4>3. /\ rpc \in [Requests -> RequestPoints] /\ wpc \in [Generations -> WorkerPoints]
            /\ op \in [Requests -> Operations \cup {"create", "none"}]
        BY DEF Init, RequestPoints, WorkerPoints
      <4>4. report \in BOOLEAN
        BY DEF Init
      <4>5. /\ ledger \in [Generations -> {"NONE", "RESERVED", "USED", "RELEASED"}]
            /\ outbox \subseteq {"VERIFICATION_COMPLETED", "VERIFICATION_FAILED"}
            /\ job \in [Generations -> {"absent", "waiting", "active", "completed", "failed"}]
        BY DEF Init
      <4>. QED BY <4>1, <4>2, <4>3, <4>4, <4>5 DEF RestOK
    <3>. QED BY <3>1, <3>2 DEF TypeOK, DocOK, RestOK
  <2>3. Init => Room /\ CompletedHasReport /\ CopiesHaveReport
    BY <2>1 DEF Init, Room, CompletedHasReport, CopiesHaveReport, JobAttempts
  <2>. QED BY <2>2, <2>3 DEF IInv
<1>2. IInv /\ [Next]_vars => IInv'
  <2>. SUFFICES ASSUME IInv, [Next]_vars PROVE IInv'
    OBVIOUS
  <2>1. ASSUME NEW r \in Requests,
               \/ Create(r) \/ Cancel(r) \/ Retry(r) \/ AdminRetry(r) \/ Reprocess(r) \/ Delete(r)
               \/ RequestStep(r) \/ Refused(r)
               \/ SaveFails(r) \/ EnqueueFails(r) \/ ApiCrash(r)
        PROVE  IInv'
    <3>1. DocOK' /\ RestOK'
      BY <2>1, DocRequest, RestRequest DEF IInv
    <3>2. Room' /\ CompletedHasReport' /\ CopiesHaveReport'
      BY <2>1, RoomRequest, ReportRequest DEF IInv
    <3>. QED BY <3>1, <3>2 DEF IInv, TypeOK, DocOK, RestOK
  <2>2. ASSUME NEW g \in Generations, WorkerStep(g) \/ JobFails(g) \/ WorkerCrash(g)
        PROVE  IInv'
    <3>1. DocOK' /\ RestOK'
      BY <2>2, DocWorker, RestWorker DEF IInv
    <3>2. Room' /\ CompletedHasReport' /\ CopiesHaveReport'
      BY <2>2, RoomWorker, ReportWorker DEF IInv
    <3>. QED BY <3>1, <3>2 DEF IInv, TypeOK, DocOK, RestOK
  <2>3. CASE UNCHANGED vars
    BY <2>3 DEF vars, store, queue, request, IInv, TypeOK, Room, CompletedHasReport, CopiesHaveReport
  <2>. QED BY <2>1, <2>2, <2>3 DEF Next
<1>. QED BY <1>1, <1>2, PTL DEF Spec

\* Every variable stays in its domain, the counters within their bounds.
THEOREM TypeCorrect == Spec => []TypeOK
BY Inductive, PTL DEF IInv

\* Whatever requests and workers interleave, and whatever fails: a verification is
\* COMPLETED only once a report of it passed validation.
THEOREM CompletionNeedsReport == Spec => []CompletedHasReport
BY Inductive, PTL DEF IInv

-----------------------------------------------------------------------------
(* One job at a time.                                                      *)

LEMMA Merged ==
  ASSUME NEW new \in Document, NEW old \in Document, NEW saved \in Document
  PROVE  /\ Merge(new, old, saved).status =
              IF new.status # old.status THEN new.status ELSE saved.status
         /\ Merge(new, old, saved).retryCount =
              IF new.retryCount # old.retryCount THEN new.retryCount ELSE saved.retryCount
BY DocumentFields DEF Merge

LEMMA InOrder ==
  /\ 0 \in Generations /\ \A g \in Generations : ~(g < 0)
  /\ \A g, h \in Generations :
       /\ g < h \/ g = h \/ h < g
       /\ g < h => g # h /\ ~(h < g)
       /\ g < h + 1 => g < h \/ g = h
  /\ \A g, h, k \in Generations : g < h /\ h < k => g < k
BY VerificationAssumption DEF Generations

\* A fault that stops a worker or the queue does not count against the invariant.
LEMMA Disturbs ==
  ASSUME NEW kind \in {"database", "queue", "queueAnswer", "workerCrash"}, Fault(kind)
  PROVE  ~OnlyRequestsDied'
BY DEF Fault, OnlyRequestsDied

\* What a request loads, as far as the turns are concerned.
LEMMA Accepts ==
  ASSUME TypeOK, NEW r \in Requests, NEW o, NEW p, NEW c \in Document, Accept(r, o, p, c)
  PROVE  /\ rpc[r] = "idle" /\ rpc'[r] = p /\ copy'[r] = c /\ base'[r] = doc
         /\ doc' = doc /\ job' = job /\ wpc' = wpc
         /\ \A q \in Requests : q # r => rpc'[q] = rpc[q] /\ copy'[q] = copy[q] /\ base'[q] = base[q]
         /\ \A g \in Generations : copy'[g] = copy[g] /\ base'[g] = base[g]
BY HoldersApart DEF Accept, LoadAs, TypeOK, Holders, store, queue

\* A step of a request that touches neither the document nor a job, and leaves the
\* request where it aims at nothing.
LEMMA Withdraws ==
  ASSUME TypeOK, TurnsInv, OnlyRequestsDied, NEW r \in Requests,
         doc' = doc, job' = job, wpc' = wpc,
         rpc'[r] \in {"idle", "release", "final"}, doc.status # "NONE",
         rpc'[r] # "idle" => /\ copy'[r].status \in {"CANCELLED", "DELETED"}
                            /\ copy'[r].retryCount = base'[r].retryCount,
         \A q \in Requests : q # r => rpc'[q] = rpc[q] /\ copy'[q] = copy[q] /\ base'[q] = base[q],
         \A g \in Generations : copy'[g] = copy[g] /\ base'[g] = base[g]
  PROVE  TurnsInv'
<1>1. Turns /\ Counted /\ CopiesKnown
  BY DEF TurnsInv
<1>2. \A g : Live(g)' = Live(g) /\ Exists(g)' = Exists(g)
  BY DEF Live, Exists
<1>3. \A q \in Requests : \A h \in Generations : Aims(q, h)' => Aims(q, h)
  BY DEF Aims
<1>4. Turns'
  BY <1>1, <1>2, <1>3 DEF Turns, Over, Exists
<1>5. Counted'
  BY <1>1, <1>2 DEF Counted, Over, Exists
<1>6. CopiesKnown'
  BY <1>1 DEF CopiesKnown
<1>. QED BY <1>4, <1>5, <1>6 DEF TurnsInv

\* A retry or a reprocessing begins: it aims past everything there is, and nothing
\* is on its way.
LEMMA AimsPast ==
  ASSUME TypeOK, TurnsInv, OnlyRequestsDied, NEW r \in Requests, Over,
         doc' = doc, job' = job, wpc' = wpc, base'[r] = doc,
         \/ rpc'[r] = "reserve" /\ copy'[r] = doc
         \/ /\ rpc'[r] = "save" /\ copy'[r].status = "QUEUED"
            /\ copy'[r].retryCount = doc.retryCount + 1,
         \A q \in Requests : q # r => rpc'[q] = rpc[q] /\ copy'[q] = copy[q] /\ base'[q] = base[q],
         \A g \in Generations : copy'[g] = copy[g] /\ base'[g] = base[g]
  PROVE  TurnsInv'
<1>1. Turns /\ Counted /\ CopiesKnown
  BY DEF TurnsInv
<1>2. \A g : Live(g)' = Live(g) /\ Exists(g)' = Exists(g)
  BY DEF Live, Exists
<1>3. \A q \in Requests : q # r => \A h \in Generations : Aims(q, h)' => Aims(q, h)
  BY DEF Aims
<1>4. \A h \in Generations : Aims(r, h)' => h = doc.retryCount + 1
  BY DEF Aims
<1>5. \A h, g \in Generations : Aims(r, h)' /\ g < h => Exists(g) /\ ~Live(g)
  <2>1. doc.retryCount \in Generations
    BY DocumentFields DEF TypeOK
  <2>2. ASSUME NEW h \in Generations, NEW g \in Generations, h = doc.retryCount + 1, g < h
        PROVE  Exists(g)
    <3>1. g < doc.retryCount \/ g = doc.retryCount
      BY <2>1, <2>2, VerificationAssumption DEF Generations
    <3>. QED BY <1>1, <3>1 DEF Counted
  <2>. QED BY <1>1, <1>4, <2>2 DEF Counted
<1>6. Turns'
  BY <1>1, <1>2, <1>3, <1>5 DEF Turns, Over, Exists
<1>7. Counted'
  BY <1>1, <1>2 DEF Counted, Over, Exists
<1>8. CopiesKnown'
  BY <1>1 DEF CopiesKnown, Over
<1>. QED BY <1>6, <1>7, <1>8 DEF TurnsInv

LEMMA TurnsRequest ==
  ASSUME TypeOK, Room, TurnsInv, NEW r \in Requests,
         \/ Create(r) \/ Cancel(r) \/ Retry(r) \/ AdminRetry(r) \/ Reprocess(r) \/ Delete(r)
         \/ RequestStep(r) \/ Refused(r)
         \/ SaveFails(r) \/ EnqueueFails(r) \/ ApiCrash(r)
  PROVE  TurnsInv'
<1>. SUFFICES ASSUME OnlyRequestsDied' PROVE TurnsInv'
  BY DEF TurnsInv
<1>0. OnlyRequestsDied
  <2>1. faults \subseteq faults'
    <3>1. CASE SaveFails(r) \/ EnqueueFails(r) \/ ApiCrash(r)
      BY <3>1 DEF SaveFails, EnqueueFails, ApiCrash, Fault
    <3>2. CASE Create(r) \/ Cancel(r) \/ Retry(r) \/ AdminRetry(r) \/ Reprocess(r) \/ Delete(r) \/ Refused(r)
      BY <3>2 DEF Create, Cancel, Retry, AdminRetry, Reprocess, Delete, Accept, Refused
    <3>3. CASE RequestStep(r)
      BY <3>3 DEF RequestStep, Reserve, Release, SaveRequest, SaveFinal, Unreserve, Enqueue
    <3>. QED BY <3>1, <3>2, <3>3
  <2>. QED BY <2>1 DEF OnlyRequestsDied
<1>1. /\ r \in Holders /\ doc \in Document /\ copy[r] \in Document /\ base[r] \in Document
      /\ doc.retryCount \in Generations /\ copy[r].retryCount \in Generations
  BY DocumentFields DEF TypeOK, Holders
<1>count. doc.retryCount \in Generations /\ copy[r].retryCount \in Generations
  BY <1>1
<1>2. Turns /\ Counted /\ CopiesKnown
  BY <1>0 DEF TurnsInv
<1>room. \A g \in Generations : Live(g) => Exists(g)
  BY DEF Room, Live, Exists
<1>3. CASE Cancel(r) \/ Delete(r)
  <2>1. PICK o \in {"cancel", "remove"}, p \in {"release", "final"}, s \in {"CANCELLED", "DELETED"} :
          Accept(r, o, p, [doc EXCEPT !.status = s]) /\ doc.status # "NONE"
    BY <1>3 DEF Cancel, Delete
  <2>2. /\ [doc EXCEPT !.status = s] \in Document
        /\ [doc EXCEPT !.status = s].status = s
        /\ [doc EXCEPT !.status = s].retryCount = doc.retryCount
    BY <1>1, <2>1 DEF Document, Statuses
  <2>3. /\ rpc'[r] = p /\ copy'[r] = [doc EXCEPT !.status = s] /\ base'[r] = doc
        /\ doc' = doc /\ job' = job /\ wpc' = wpc
        /\ \A q \in Requests : q # r => rpc'[q] = rpc[q] /\ copy'[q] = copy[q] /\ base'[q] = base[q]
        /\ \A g \in Generations : copy'[g] = copy[g] /\ base'[g] = base[g]
    <3>. DEFINE c == [doc EXCEPT !.status = s]
    <3>1. c \in Document /\ Accept(r, o, p, c)
      BY <2>1, <2>2
    <3>. HIDE DEF c
    <3>2. /\ rpc'[r] = p /\ copy'[r] = c /\ base'[r] = doc
          /\ doc' = doc /\ job' = job /\ wpc' = wpc
          /\ \A q \in Requests : q # r => rpc'[q] = rpc[q] /\ copy'[q] = copy[q] /\ base'[q] = base[q]
          /\ \A g \in Generations : copy'[g] = copy[g] /\ base'[g] = base[g]
      BY <3>1, Accepts
    <3>. QED BY <3>2 DEF c
  <2>. QED BY <1>0, <2>1, <2>2, <2>3, Withdraws
<1>4. CASE Retry(r) \/ AdminRetry(r) \/ Reprocess(r)
  <2>1. Over /\ doc.retryCount + 1 \in Generations
    BY <1>1, <1>4, VerificationAssumption DEF Retry, AdminRetry, Reprocess, Retryable, Over, Generations
  <2>. DEFINE x == [doc EXCEPT !.status = "QUEUED", !.stage = "RECEIVED", !.retryCount = @ + 1,
                               !.failureCode = "none"]
              y == [doc EXCEPT !.status = "QUEUED", !.retryCount = @ + 1, !.failureCode = "none"]
  <2>2. \A c \in {x, y} : c \in Document /\ c.status = "QUEUED" /\ c.retryCount = doc.retryCount + 1
    BY <1>1, <2>1 DEF Document, Statuses, Stages
  <2>3. \/ \E o : Accept(r, o, "reserve", doc)
        \/ \E o : Accept(r, o, "save", x)
        \/ \E o : Accept(r, o, "save", y)
    BY <1>4 DEF Retry, AdminRetry, Reprocess
  <2>. HIDE DEF x, y
  <2>4. ASSUME NEW o, Accept(r, o, "reserve", doc)
        PROVE  TurnsInv'
    BY <1>0, <1>1, <2>1, <2>4, Accepts, AimsPast
  <2>5. ASSUME NEW o, NEW c \in {x, y}, Accept(r, o, "save", c)
        PROVE  TurnsInv'
    <3>1. c \in Document /\ c.status = "QUEUED" /\ c.retryCount = doc.retryCount + 1
      BY <2>2
    <3>. QED BY <1>0, <2>1, <2>5, <3>1, Accepts, AimsPast
  <2>. QED BY <2>3, <2>4, <2>5
\* The steps of a request after that.
<1>. DEFINE Others == /\ \A q \in Requests : q # r =>
                           rpc'[q] = rpc[q] /\ copy'[q] = copy[q] /\ base'[q] = base[q]
                      /\ \A g \in Generations : copy'[g] = copy[g] /\ base'[g] = base[g]
<1>5. CASE Release(r)
  <2>1. /\ doc' = doc /\ job' = job /\ wpc' = wpc /\ base' = base
        /\ rpc[r] = "release" /\ rpc'[r] = "final"
        /\ \A q \in Requests : q # r => rpc'[q] = rpc[q]
    BY <1>1, <1>5 DEF Release, ReleaseUsage, Change, Go, queue, TypeOK
  <2>2. copy'[r].status = copy[r].status /\ copy'[r].retryCount = copy[r].retryCount
    BY <1>1, <1>5, ReleaseTypes DEF Release
  <2>3. \A h \in Holders : h # r => copy'[h] = copy[h]
    BY <1>1, <1>5 DEF Release, ReleaseUsage, Change, TypeOK
  <2>4. copy'[r].status \in {"CANCELLED", "DELETED"} /\ copy'[r].retryCount = base'[r].retryCount
    BY <1>2, <2>1, <2>2 DEF CopiesKnown
  <2>5. doc.status # "NONE"
    BY <1>2, <2>1 DEF Counted
  <2>6. Others
    BY <2>1, <2>3, HoldersApart DEF Holders
  <2>. QED BY <1>0, <2>1, <2>4, <2>5, <2>6, Withdraws
<1>6. CASE Unreserve(r) \/ Refused(r) \/ ApiCrash(r)
  <2>1. /\ doc' = doc /\ job' = job /\ wpc' = wpc
        /\ rpc[r] # "idle" /\ rpc'[r] = "idle"
    BY <1>6 DEF Unreserve, Refused, ApiCrash, Respond, store, queue, TypeOK
  <2>2. Others
    BY <1>1, <1>6, HoldersApart DEF Unreserve, Refused, ApiCrash, Respond, Forget, TypeOK, Holders
  <2>3. doc.status # "NONE"
    BY <1>2, <2>1 DEF Counted
  <2>. QED BY <1>0, <2>1, <2>2, <2>3, Withdraws
<1>7. CASE SaveFails(r) \/ EnqueueFails(r)
  BY <1>7, Disturbs DEF SaveFails, EnqueueFails
<1>8. CASE Create(r)
  <2>1. /\ doc' = NewDocument /\ job' = job /\ wpc' = wpc
        /\ rpc'[r] = "enqueue" /\ copy'[r] = NewDocument /\ base'[r] = NewDocument
        /\ doc.status = "NONE"
    BY <1>1, <1>8 DEF Create, queue, TypeOK
  <2>2. Others
    BY <1>1, <1>8, HoldersApart DEF Create, TypeOK, Holders
  <2>3. /\ \A q \in Requests : rpc[q] = "idle"
        /\ \A g \in Generations : ~Exists(g)
    BY <1>2, <2>1 DEF Counted
  <2>4. \A g \in Generations : ~Live(g) /\ ~Live(g)' /\ ~Exists(g)'
    BY <2>1, <2>3, <1>room DEF Live, Exists
  <2>5. NewDocument.status = "QUEUED" /\ NewDocument.retryCount = 0
    BY DEF NewDocument
  <2>6. \A q \in Requests : \A h \in Generations : Aims(q, h)' => h = 0
    BY <2>1, <2>2, <2>3, <2>5 DEF Aims
  <2>10. ~Over' /\ doc'.status # "NONE" /\ doc'.retryCount = 0
    BY <2>1, <2>5 DEF Over
  <2>11. \A g \in Generations : ~(g < 0)
    BY VerificationAssumption DEF Generations
  <2>12. Turns'
    BY <2>4, <2>6, <2>10, <2>11 DEF Turns
  <2>7. Counted'
    BY <2>4, <2>10, <2>11 DEF Counted
  <2>8. CopiesKnown'
    BY <1>2, <2>1, <2>2 DEF CopiesKnown
  <2>. QED BY <2>12, <2>7, <2>8 DEF TurnsInv
<1>9. CASE Reserve(r)
  <2>. DEFINE a == copy[r].retryCount + 1
  <2>1. /\ doc' = doc /\ job' = job /\ wpc' = wpc /\ base' = base
        /\ rpc[r] = "reserve" /\ rpc'[r] = "save"
        /\ copy'[r].status = "QUEUED" /\ copy'[r].retryCount = a
    BY <1>1, <1>9 DEF Reserve, Go, queue, TypeOK, Document
  <2>2. Others
    BY <1>1, <1>9, HoldersApart DEF Reserve, Go, TypeOK, Holders
  <2>3. \A g : Live(g)' = Live(g) /\ Exists(g)' = Exists(g)
    BY <2>1 DEF Live, Exists
  <2>4. \A q \in Requests : \A h \in Generations : Aims(q, h)' => Aims(q, h)
    BY <2>1, <2>2 DEF Aims
  <2>5. Turns'
    BY <1>2, <2>1, <2>2, <2>3, <2>4 DEF Turns, Over, Exists
  <2>6. Counted'
    BY <1>2, <2>1, <2>3 DEF Counted, Over, Exists
  <2>7. CopiesKnown'
    BY <1>2, <2>1, <2>2 DEF CopiesKnown
  <2>. QED BY <2>5, <2>6, <2>7 DEF TurnsInv
<1>10. CASE SaveRequest(r)
  <2>1. /\ doc' = Merge(copy[r], base[r], doc) /\ job' = job /\ wpc' = wpc /\ copy' = copy
        /\ rpc[r] = "save" /\ rpc'[r] = "enqueue"
    BY <1>1, <1>10 DEF SaveRequest, Save, SaveAs, Go, queue, TypeOK
  <2>2. Others
    BY <1>1, <1>10, HoldersApart DEF SaveRequest, Save, SaveAs, Go, TypeOK, Holders
  <2>3. /\ doc'.status = "QUEUED"
        /\ doc'.retryCount \in {copy[r].retryCount, doc.retryCount}
    BY <1>1, <1>2, <2>1, Merged DEF CopiesKnown
  <2>4. \A g : Live(g)' = Live(g) /\ Exists(g)' = Exists(g)
    BY <2>1 DEF Live, Exists
  <2>5. \A q \in Requests : \A h \in Generations : Aims(q, h)' => Aims(q, h)
    BY <2>1, <2>2 DEF Aims
  <2>6. Turns'
    BY <1>2, <2>1, <2>3, <2>4, <2>5 DEF Turns, Over
  <2>7. Aims(r, copy[r].retryCount)
    BY <2>1 DEF Aims
  <2>8. \A g \in Generations : /\ g < copy[r].retryCount => Exists(g)
                               /\ Live(g) => Exists(copy[r].retryCount)
    <3>1. \A g \in Generations : g < copy[r].retryCount => Exists(g) /\ ~Live(g)
      BY <1>1, <1>2, <2>7 DEF Turns
    <3>2. \A g \in Generations : Live(g) => Exists(g)
      BY <1>room
    <3>3. \A g \in Generations : g < copy[r].retryCount \/ g = copy[r].retryCount \/ copy[r].retryCount < g
      BY <1>count, VerificationAssumption DEF Generations
    <3>. QED BY <1>1, <1>2, <3>1, <3>2, <3>3 DEF Turns
  <2>9. Counted'
    BY <1>2, <2>3, <2>4, <2>8 DEF Counted, Over, Exists
  <2>10. CopiesKnown'
    BY <1>2, <2>1, <2>2 DEF CopiesKnown
  <2>. QED BY <2>6, <2>9, <2>10 DEF TurnsInv
<1>11. CASE SaveFinal(r)
  <2>1. /\ doc' = Merge(copy[r], base[r], doc) /\ job' = job /\ wpc' = wpc
        /\ rpc[r] = "final" /\ rpc'[r] = "idle"
    BY <1>1, <1>11 DEF SaveFinal, Respond, queue, TypeOK
  <2>2. Others
    BY <1>1, <1>11, HoldersApart DEF SaveFinal, Respond, Forget, TypeOK, Holders
  <2>3. /\ doc'.status \in {"CANCELLED", "DELETED", doc.status}
        /\ doc'.retryCount = doc.retryCount
    BY <1>1, <1>2, <2>1, Merged DEF CopiesKnown
  <2>4. \A g : Live(g)' = Live(g) /\ Exists(g)' = Exists(g)
    BY <2>1 DEF Live, Exists
  <2>5. \A q \in Requests : \A h \in Generations : Aims(q, h)' => Aims(q, h)
    BY <2>1, <2>2 DEF Aims
  <2>6. Turns'
    BY <1>2, <2>1, <2>2, <2>3, <2>4, <2>5 DEF Turns, Over, Exists
  <2>7. Counted'
    BY <1>2, <2>1, <2>3, <2>4 DEF Counted, Over, Exists
  <2>8. CopiesKnown'
    BY <1>2, <2>1, <2>2 DEF CopiesKnown
  <2>. QED BY <2>6, <2>7, <2>8 DEF TurnsInv
<1>12. CASE Enqueue(r)
  <2>0. PICK t \in Generations, n \in Generations : t = copy[r].retryCount /\ n = doc.retryCount
    BY <1>count
  <2>1. /\ doc' = doc /\ wpc' = wpc /\ rpc[r] = "enqueue" /\ rpc'[r] = "idle"
        /\ job' = [job EXCEPT ![t] = IF @ = "absent" THEN "waiting" ELSE @]
    BY <1>1, <1>12, <2>0 DEF Enqueue, AddJob, Respond, store, TypeOK
  <2>2. Others
    BY <1>1, <1>12, HoldersApart DEF Enqueue, Respond, Forget, TypeOK, Holders
  <2>3. doc.status # "NONE"
    BY <1>2, <2>1 DEF Counted
  <2>4. CASE Exists(t)
    <3>1. job' = job
      BY <1>1, <2>1, <2>4 DEF Exists, TypeOK
    <3>. QED BY <1>0, <2>1, <2>2, <2>3, <3>1, Withdraws
  <2>5. CASE ~Exists(t)
    <3>0. job'[t] = "waiting" /\ \A g \in Generations : g # t => job'[g] = job[g]
      BY <2>1, <2>5 DEF Exists, TypeOK
    <3>1. /\ \A g \in Generations : g # t => (Live(g)' <=> Live(g)) /\ (Exists(g)' <=> Exists(g))
          /\ Exists(t)'
      BY <2>1, <3>0 DEF Live, Exists
    <3>2. Aims(r, t) /\ ~Over
      BY <1>2, <2>0, <2>1, <2>5 DEF Aims, Turns
    <3>3. \A g \in Generations : g < t => Exists(g) /\ ~Live(g)
      BY <1>1, <1>2, <3>2 DEF Turns
    <3>4. \A g \in Generations : t < g => ~Exists(g) /\ ~Live(g)
      BY <1>2, <1>room, <2>5 DEF Turns
    <3>5. \A g \in Generations : g < t \/ g = t \/ t < g
      BY VerificationAssumption DEF Generations
    <3>6. \A g \in Generations : Exists(g)' <=> g < t \/ g = t
      BY <3>1, <3>3, <3>4, <3>5
    <3>7. \A g \in Generations : Live(g)' => g = t
      BY <3>1, <3>3, <3>4, <3>5, InOrder
    <3>8. \A q \in Requests : \A h \in Generations : Aims(q, h)' => Aims(q, h)
      BY <2>1, <2>2 DEF Aims
    <3>9. \A q \in Requests : \A h \in Generations : Aims(q, h) => ~(t < h)
      BY <1>1, <1>2, <2>5 DEF Turns
    <3>10. \A q \in Requests : \A g, h \in Generations : Aims(q, h)' /\ g < h => Exists(g)' /\ ~Live(g)'
      BY <1>2, <3>1, <3>7, <3>8, <3>9 DEF Turns
    <3>11. \A g, h \in Generations : g < h /\ Exists(h)' => Exists(g)'
      BY <1>1, <3>5, <3>6, InOrder
    <3>12. \A g, h \in Generations : g < h /\ Live(g)' => ~Exists(h)'
      BY <3>6, <3>7, VerificationAssumption DEF Generations
    <3>13. ~Over'
      BY <2>1, <3>2 DEF Over
    <3>14. Turns'
      BY <3>10, <3>11, <3>12, <3>13 DEF Turns
    <3>15. n < t \/ n = t
      BY <1>2, <2>0, <2>5, <3>5, VerificationAssumption DEF Counted, Generations
    <3>16. \A g \in Generations : g < n => Exists(g)'
      BY <3>6, <3>15, <2>0, VerificationAssumption DEF Generations
    <3>17. Exists(n)'
      BY <3>6, <3>15
        <3>19. Counted'
      BY <2>0, <2>1, <2>3, <3>13, <3>16, <3>17 DEF Counted, Exists
    <3>20. CopiesKnown'
      BY <1>2, <2>1, <2>2 DEF CopiesKnown
    <3>. QED BY <3>14, <3>19, <3>20 DEF TurnsInv
  <2>. QED BY <2>4, <2>5
<1>. QED BY <1>3, <1>4, <1>5, <1>6, <1>7, <1>8, <1>9, <1>10, <1>11, <1>12 DEF RequestStep

\* A step of the worker of g: the jobs that exist are the same, none comes alive, and
\* it makes the verification FAILED or COMPLETED only when it has no way left to go.
LEMMA TakesTurn ==
  ASSUME TypeOK, Room, TurnsInv, OnlyRequestsDied, NEW g \in Generations,
         rpc' = rpc, \A q \in Requests : copy'[q] = copy[q] /\ base'[q] = base[q],
         \A h \in Generations : h # g => wpc'[h] = wpc[h] /\ copy'[h] = copy[h] /\ base'[h] = base[h],
         \A h \in Generations : (Exists(h)' <=> Exists(h)) /\ (Live(h)' => Live(h)),
         Exists(g), doc'.retryCount = doc.retryCount, doc'.status # "NONE",
         Over' => Over \/ (Live(g) /\ ~Live(g)'),
         wpc'[g] \in {"begin", "extracting", "extract", "consume", "consumed", "analyse", "synthesize"}
           => copy'[g].status = "PROCESSING",
         wpc'[g] \in {"complete", "refund", "failed"} => copy'[g].status # "NONE",
         copy'[g].retryCount = base'[g].retryCount
  PROVE  TurnsInv'
<1>1. Turns /\ Counted /\ CopiesKnown
  BY DEF TurnsInv
<1>2. PICK n \in Generations : n = doc.retryCount
  BY DocumentFields DEF TypeOK
<1>3. \A q \in Requests : \A h \in Generations : Aims(q, h)' => Aims(q, h)
  BY DEF Aims
<1>4. \A h, k \in Generations : h < k \/ h = k \/ k < h
  BY VerificationAssumption DEF Generations
<1>5. ASSUME NEW r \in Requests, NEW t \in Generations, rpc[r] = "enqueue", t = copy[r].retryCount,
             ~Exists(t)
      PROVE  ~Over'
  <2>1. Aims(r, t) /\ ~Over
    BY <1>1, <1>5 DEF Aims, Turns
  <2>2. ~Live(g)
    BY <1>1, <1>4, <1>5, <2>1 DEF Turns
  <2>. QED BY <2>1, <2>2
<1>6. \A r \in Requests : copy[r].retryCount \in Generations
  BY DocumentFields DEF TypeOK, Holders
<1>7. \A r \in Requests : rpc'[r] = "enqueue" /\ ~Exists(copy[r].retryCount)' => ~Over'
  <2>1. TAKE r \in Requests
  <2>2. PICK t \in Generations : t = copy[r].retryCount
    BY <1>6
  <2>3. t = copy'[r].retryCount
    BY <2>2
  <2>. QED BY <1>5, <2>2, <2>3
<1>8. Turns'
  BY <1>1, <1>3, <1>7 DEF Turns
<1>9. Exists(doc.retryCount)' <=> Exists(doc.retryCount)
  BY <1>2
<1>10. \A h \in Generations : Live(h) => Exists(h)
  BY DEF Room, Live, Exists
<1>11. Over' => Exists(n) /\ \A h \in Generations : ~Live(h)'
  <2>1. CASE Over
    BY <1>1, <1>2, <2>1 DEF Counted
  <2>2. CASE Live(g) /\ ~Live(g)'
    <3>1. \A h \in Generations : h # g => ~Live(h)
      BY <1>1, <1>4, <1>10, <2>2 DEF Turns
    <3>. QED BY <1>1, <1>2, <2>2, <3>1 DEF Counted
  <2>. QED BY <2>1, <2>2
<1>12. Counted'
  BY <1>1, <1>2, <1>11 DEF Counted
<1>13. CopiesKnown'
  BY <1>1 DEF CopiesKnown
<1>. QED BY <1>8, <1>12, <1>13 DEF TurnsInv

LEMMA TurnsWorker ==
  ASSUME TypeOK, Room, TurnsInv, NEW g \in Generations,
         WorkerStep(g) \/ JobFails(g) \/ WorkerCrash(g)
  PROVE  TurnsInv'
<1>. SUFFICES ASSUME OnlyRequestsDied' PROVE TurnsInv'
  BY DEF TurnsInv
<1>0. OnlyRequestsDied
  <2>1. faults \subseteq faults'
    <3>1. CASE JobFails(g) \/ WorkerCrash(g) \/ PipelineFails(g) \/ AnnounceCompleted(g) \/ AnnounceFailed(g)
      BY <3>1 DEF JobFails, WorkerCrash, PipelineFails, AnnounceCompleted, AnnounceFailed, Announce, Fault
    <3>2. CASE WorkerStep(g) /\ ~ (PipelineFails(g) \/ AnnounceCompleted(g) \/ AnnounceFailed(g))
      BY <3>2 DEF WorkerStep, TakeJob, Skip, Load, SaveBegin, SaveExtracting, Extract, Consume,
                  SaveConsumed, Analyse, Synthesize, SaveCompleted, Refund, SaveFailed
    <3>. QED BY <3>1, <3>2
  <2>. QED BY <2>1 DEF OnlyRequestsDied
<1>1. /\ g \in Holders /\ doc \in Document /\ copy[g] \in Document /\ base[g] \in Document
      /\ \A q \in Requests : q \in Holders /\ q # g
      /\ \A h \in Generations : h \in Holders
  BY HoldersApart DEF TypeOK, Holders
<1>2. Turns /\ Counted /\ CopiesKnown
  BY <1>0 DEF TurnsInv
<1>3. Exists(g) /\ doc.status # "NONE"
  <2>1. job[g] = "waiting" \/ wpc[g] # "idle"
    BY DEF WorkerStep, TakeJob, Skip, Load, SaveBegin, SaveExtracting, Extract, Consume, SaveConsumed,
           Analyse, Synthesize, SaveCompleted, AnnounceCompleted, PipelineFails, Refund, SaveFailed,
           AnnounceFailed, JobFails, WorkerCrash, At
  <2>2. Exists(g)
    BY <2>1 DEF Room, Exists
  <2>. QED BY <1>2, <2>2 DEF Counted
<1>. DEFINE Apart == /\ rpc' = rpc
                     /\ \A q \in Requests : copy'[q] = copy[q] /\ base'[q] = base[q]
                     /\ \A h \in Generations : h # g =>
                          wpc'[h] = wpc[h] /\ copy'[h] = copy[h] /\ base'[h] = base[h]
            Same == \A h \in Generations : (Exists(h)' <=> Exists(h)) /\ (Live(h)' => Live(h))
<1>4. CASE TakeJob(g)
  <2>1. Apart /\ doc' = doc /\ copy' = copy /\ base' = base /\ wpc'[g] = "load"
    BY <1>4 DEF TakeJob, WGo, store, request, TypeOK
  <2>2. Same
    BY <1>4 DEF TakeJob, WGo, Exists, Live, TypeOK
  <2>3. copy[g].retryCount = base[g].retryCount
    BY <1>2 DEF CopiesKnown
  <2>. QED BY <1>0, <1>3, <2>1, <2>2, <2>3, TakesTurn DEF Over
<1>5. CASE Skip(g) \/ AnnounceCompleted(g) \/ AnnounceFailed(g)
  <2>1. /\ Apart /\ doc' = doc /\ wpc'[g] = "idle" /\ copy'[g] = base'[g]
        /\ job' = [job EXCEPT ![g] = "completed"] /\ wpc' = [wpc EXCEPT ![g] = "idle"]
    BY <1>1, <1>5 DEF Skip, AnnounceCompleted, AnnounceFailed, Announce, Finish, Forget, WGo, At,
                      store, request, TypeOK
  <2>2. Same
    BY <1>3, <2>1 DEF Exists, Live, TypeOK
  <2>. QED BY <1>0, <1>3, <2>1, <2>2, TakesTurn DEF Over
<1>6. CASE JobFails(g) \/ WorkerCrash(g)
  BY <1>6, Disturbs DEF JobFails, WorkerCrash
\* From here on the worker stays at work: its job is active.
<1>. DEFINE Onward(p) == /\ job' = job /\ wpc' = [wpc EXCEPT ![g] = p]
<1>onward. ASSUME NEW p, Onward(p),
                  wpc[g] \in WorkerPoints \ {"idle", "announce", "announceFailure"}
           PROVE  Same /\ Live(g) /\ (p \in {"announce", "announceFailure"} => ~Live(g)')
  BY <1>onward DEF Same, Exists, Live, Room, TypeOK
<1>7. CASE Load(g)
  <2>. DEFINE c == [doc EXCEPT !.status = "PROCESSING", !.stage = "INPUT_VALIDATION"]
  <2>1. c.status = "PROCESSING" /\ c.retryCount = doc.retryCount
    BY <1>1 DEF Document
  <2>2. /\ Apart /\ doc' = doc /\ wpc'[g] = "begin" /\ copy'[g] = c /\ base'[g] = doc
        /\ Onward("begin") /\ wpc[g] = "load"
    BY <1>1, <1>7 DEF Load, LoadAs, WGo, At, store, queue, request, TypeOK
  <2>3. Same
    BY <2>2, <1>onward DEF WorkerPoints
  <2>. QED BY <1>0, <1>3, <2>1, <2>2, <2>3, TakesTurn DEF Over
<1>8. ASSUME NEW c \in Document, NEW d \in Document, NEW p,
             doc' = Merge(c, base[g], doc), copy' = [copy EXCEPT ![g] = d], base' = [base EXCEPT ![g] = c],
             c.status = copy[g].status, d.status = c.status,
             c.retryCount = copy[g].retryCount, d.retryCount = c.retryCount,
             Onward(p), rpc' = rpc,
             \/ /\ wpc[g] \in {"begin", "extracting", "extract", "consume", "consumed", "analyse"}
                /\ p \in {"extracting", "extract", "consume", "consumed", "analyse", "synthesize"}
             \/ wpc[g] \in {"complete", "failed"} /\ p \in {"announce", "announceFailure"}
      PROVE  TurnsInv'
  <2>1. Apart /\ wpc'[g] = p /\ copy'[g] = d /\ base'[g] = c
    BY <1>1, <1>8 DEF TypeOK
  <2>2. Same /\ Live(g) /\ (p \in {"announce", "announceFailure"} => ~Live(g)')
    BY <1>8, <1>onward DEF WorkerPoints
  <2>3. copy[g].status # "NONE" /\ copy[g].retryCount = base[g].retryCount
        /\ (p \notin {"announce", "announceFailure"} => copy[g].status = "PROCESSING")
    BY <1>2, <1>8 DEF CopiesKnown
  <2>4. doc'.status \in {copy[g].status, doc.status} /\ doc'.retryCount = doc.retryCount
    BY SMTT(60), <1>1, <1>8, <2>3, Merged
  <2>5. Over' => Over \/ p \in {"announce", "announceFailure"}
    BY <2>3, <2>4 DEF Over
  <2>6. /\ wpc'[g] \in {"begin", "extracting", "extract", "consume", "consumed", "analyse", "synthesize"}
             => copy'[g].status = "PROCESSING"
        /\ wpc'[g] \in {"complete", "refund", "failed"} => copy'[g].status # "NONE"
        /\ copy'[g].retryCount = base'[g].retryCount
    BY <1>8, <2>1, <2>3
  <2>. QED BY <1>0, <1>3, <2>1, <2>2, <2>3, <2>4, <2>5, <2>6, TakesTurn
<1>9. CASE SaveBegin(g) \/ SaveExtracting(g) \/ SaveConsumed(g) \/ SaveCompleted(g) \/ SaveFailed(g)
  <2>. DEFINE c == copy[g]
              d == [copy[g] EXCEPT !.stage = "CONTENT_EXTRACTION"]
  <2>1. d \in Document /\ d.status = c.status /\ d.retryCount = c.retryCount
    BY <1>1 DEF Document, Stages
  <2>2. PICK e \in {c, d}, p \in {"extracting", "extract", "analyse", "announce", "announceFailure"} :
          /\ doc' = Merge(c, base[g], doc) /\ copy' = [copy EXCEPT ![g] = e] /\ base' = [base EXCEPT ![g] = c]
          /\ Onward(p) /\ rpc' = rpc
          /\ \/ wpc[g] \in {"begin", "extracting", "consumed"} /\ p \in {"extracting", "extract", "analyse"}
             \/ wpc[g] \in {"complete", "failed"} /\ p \in {"announce", "announceFailure"}
    BY <1>9 DEF SaveBegin, SaveExtracting, SaveConsumed, SaveCompleted, SaveFailed, Save, SaveAs,
                WGo, At, queue, request
  <2>3. e \in Document /\ e.status = c.status /\ e.retryCount = c.retryCount /\ c \in Document
    BY <1>1, <2>1, <2>2
  <2>. HIDE DEF d
  <2>. QED BY <2>2, <2>3, <1>8
<1>10. CASE Extract(g) \/ Analyse(g)
  <2>1. PICK s \in {"ANALYSIS", "REPORT_SYNTHESIS"}, p \in {"consume", "synthesize"} :
          /\ doc' = Merge([copy[g] EXCEPT !.stage = s], base[g], doc)
          /\ copy' = [copy EXCEPT ![g] = [copy[g] EXCEPT !.stage = s]]
          /\ base' = [base EXCEPT ![g] = [copy[g] EXCEPT !.stage = s]]
          /\ Onward(p) /\ rpc' = rpc /\ wpc[g] \in {"extract", "analyse"}
    BY <1>10 DEF Extract, Analyse, WGo, At, queue, request
  <2>. DEFINE c == [copy[g] EXCEPT !.stage = s]
  <2>2. c \in Document /\ c.status = copy[g].status /\ c.retryCount = copy[g].retryCount
    BY <1>1, <2>1 DEF Document, Stages
  <2>3. /\ doc' = Merge(c, base[g], doc) /\ copy' = [copy EXCEPT ![g] = c]
        /\ base' = [base EXCEPT ![g] = c]
    BY <2>1
  <2>. HIDE DEF c
  <2>. QED BY <2>1, <2>2, <2>3, <1>8
\* The steps that leave the document alone.
<1>11. ASSUME NEW p \in {"consumed", "complete", "refund", "failed"}, Onward(p), rpc' = rpc, doc' = doc,
              wpc[g] \in {"extract", "consume", "consumed", "analyse", "synthesize", "complete", "refund"},
              base' = base, \A h \in Holders : h # g => copy'[h] = copy[h],
              copy'[g].retryCount = copy[g].retryCount,
              p = "consumed" => copy'[g].status = "PROCESSING",
              p # "consumed" => copy'[g].status # "NONE"
       PROVE  TurnsInv'
  <2>1. Apart /\ wpc'[g] = p
    BY <1>1, <1>11 DEF TypeOK
  <2>2. Same
    BY <1>11, <1>onward DEF WorkerPoints
  <2>3. copy'[g].retryCount = base'[g].retryCount
    BY <1>2, <1>11 DEF CopiesKnown
  <2>. QED BY <1>0, <1>3, <1>11, <2>1, <2>2, <2>3, TakesTurn DEF Over
<1>12. CASE Consume(g)
  <2>1. /\ Onward("consumed") /\ rpc' = rpc /\ doc' = doc /\ base' = base /\ wpc[g] = "consume"
        /\ \A h \in Holders : h # g => copy'[h] = copy[h]
    BY <1>1, <1>12 DEF Consume, ConsumeUsage, Change, WGo, At, queue, request, TypeOK
  <2>2. copy'[g].status = copy[g].status /\ copy'[g].retryCount = copy[g].retryCount
    BY <1>1, <1>12, ConsumeTypes DEF Consume
  <2>3. copy[g].status = "PROCESSING"
    BY <1>2, <2>1 DEF CopiesKnown
  <2>. QED BY <2>1, <2>2, <2>3, <1>11
<1>13. CASE Refund(g)
  <2>1. /\ Onward("failed") /\ rpc' = rpc /\ doc' = doc /\ base' = base /\ wpc[g] = "refund"
        /\ \A h \in Holders : h # g => copy'[h] = copy[h]
    BY <1>1, <1>13 DEF Refund, Refunded, ReleaseUsage, Change, WGo, At, queue, request, TypeOK
  <2>2. copy'[g].status = copy[g].status /\ copy'[g].retryCount = copy[g].retryCount
    BY <1>1, <1>13, ReleaseTypes DEF Refund, Refunded
  <2>3. copy[g].status # "NONE"
    BY <1>2, <2>1 DEF CopiesKnown
  <2>. QED BY <2>1, <2>2, <2>3, <1>11
<1>14. CASE Synthesize(g) \/ PipelineFails(g)
  <2>1. \/ wpc[g] \in {"extract", "analyse", "synthesize"}
        \/ ~OnlyRequestsDied'
    BY <1>14, Disturbs DEF Synthesize, PipelineFails, At
  <2>2. PICK p \in {"complete", "refund"}, c \in {[copy[g] EXCEPT !.status = "COMPLETED", !.stage = "COMPLETED"],
              [copy[g] EXCEPT !.status = "FAILED", !.failureCode = "OTHER"],
              [copy[g] EXCEPT !.status = "FAILED", !.failureCode = "VALIDATION_ERROR"]} :
          Onward(p) /\ rpc' = rpc /\ doc' = doc /\ base' = base /\ copy' = [copy EXCEPT ![g] = c]
    BY <1>14 DEF Synthesize, PipelineFails, Catch, Change, WGo, queue, request
  <2>3. c.status \in {"COMPLETED", "FAILED"} /\ c.retryCount = copy[g].retryCount
    BY <1>1, <2>2 DEF Document
  <2>4. copy'[g] = c /\ \A h \in Holders : h # g => copy'[h] = copy[h]
    BY <1>1, <2>2 DEF TypeOK
  <2>. QED BY <2>1, <2>2, <2>3, <2>4, <1>11
<1>. QED BY <1>4, <1>5, <1>6, <1>7, <1>9, <1>10, <1>12, <1>13, <1>14 DEF WorkerStep

-----------------------------------------------------------------------------
(* A completion is announced.                                              *)

LEMMA Untold ==
  ASSUME NEW kind \in {"database", "workerCrash"}, Fault(kind)
  PROVE  ~WorkersRan'
BY DEF Fault, WorkersRan

\* No request completes a verification.
LEMMA ToldRequest ==
  ASSUME TypeOK, ToldInv, NEW r \in Requests,
         \/ Create(r) \/ Cancel(r) \/ Retry(r) \/ AdminRetry(r) \/ Reprocess(r) \/ Delete(r)
         \/ RequestStep(r) \/ Refused(r)
         \/ SaveFails(r) \/ EnqueueFails(r) \/ ApiCrash(r)
  PROVE  ToldInv'
<1>. SUFFICES ASSUME WorkersRan' PROVE ToldInv'
  BY DEF ToldInv
<1>0. /\ WorkersRan /\ wpc' = wpc /\ outbox' = outbox
      /\ \A h \in Holders : h # r => copy'[h] = copy[h] /\ base'[h] = base[h]
  <2>1. CASE Create(r) \/ Cancel(r) \/ Retry(r) \/ AdminRetry(r) \/ Reprocess(r) \/ Delete(r)
    BY <2>1 DEF Create, Cancel, Retry, AdminRetry, Reprocess, Delete, Accept, LoadAs, store, WorkersRan, TypeOK
  <2>2. CASE SaveFails(r) \/ ApiCrash(r) \/ Refused(r)
    BY <2>2 DEF SaveFails, ApiCrash, Refused, Respond, Forget, Fault, store, WorkersRan, TypeOK
  <2>3. CASE EnqueueFails(r)
    BY <2>3 DEF EnqueueFails, Recovery, Respond, Forget, Fault, store, WorkersRan, TypeOK
  <2>4. CASE Reserve(r) \/ SaveRequest(r) \/ SaveFinal(r) \/ Unreserve(r) \/ Enqueue(r)
    BY <2>4 DEF Reserve, SaveRequest, SaveFinal, Unreserve, Enqueue, Save, SaveAs, Respond, Forget, store,
                WorkersRan, TypeOK
  <2>5. CASE Release(r)
    BY <2>5 DEF Release, ReleaseUsage, Change, WorkersRan, TypeOK
  <2>. QED BY <2>1, <2>2, <2>3, <2>4, <2>5 DEF RequestStep
<1>1. /\ r \in Holders /\ doc \in Document /\ copy[r] \in Document /\ base[r] \in Document
      /\ r \notin Generations
  BY HoldersApart DEF TypeOK, Holders
<1>2. Absent.status = "NONE" /\ NewDocument.status = "QUEUED"
  BY DEF Absent, NewDocument
<1>3. copy[r].status = "COMPLETED" => base[r].status = "COMPLETED"
  BY <1>0, <1>1 DEF ToldInv
<1>4. /\ doc'.status = "COMPLETED" => doc.status = "COMPLETED"
      /\ copy'[r].status = "COMPLETED" => base'[r].status = "COMPLETED"
  <2>1. CASE Create(r)
    BY <1>1, <1>2, <2>1 DEF Create, TypeOK
  <2>2. CASE Cancel(r) \/ Retry(r) \/ AdminRetry(r) \/ Reprocess(r) \/ Delete(r)
    <3>1. PICK c \in {doc, [doc EXCEPT !.status = "CANCELLED"],
                      [doc EXCEPT !.status = "QUEUED", !.retryCount = @ + 1, !.failureCode = "none"],
                      [doc EXCEPT !.status = "QUEUED", !.stage = "RECEIVED", !.retryCount = @ + 1,
                                  !.failureCode = "none"],
                      [doc EXCEPT !.status = "DELETED"]} : LoadAs(r, c) /\ UNCHANGED store
      BY <2>2 DEF Cancel, Retry, AdminRetry, Reprocess, Delete, Accept
    <3>2. c.status = doc.status \/ c.status # "COMPLETED"
      BY <1>1, <3>1 DEF Document
    <3>. QED BY <1>1, <3>1, <3>2 DEF LoadAs, store, TypeOK
  <2>3. CASE Reserve(r)
    <3>1. copy'[r].status = "QUEUED"
      BY <1>1, <2>3 DEF Reserve, Document, TypeOK
    <3>. QED BY <2>3, <3>1 DEF Reserve
  <2>4. CASE Release(r)
    <3>1. doc' = doc /\ copy'[r].status = copy[r].status
      BY <1>1, <2>4, ReleaseTypes DEF Release
    <3>2. base' = base
      BY <2>4 DEF Release, ReleaseUsage, Change
    <3>. QED BY <1>3, <3>1, <3>2
  <2>5. CASE SaveRequest(r) \/ SaveFinal(r)
    <3>1. doc' = Merge(copy[r], base[r], doc)
      BY <2>5 DEF SaveRequest, SaveFinal, Save, SaveAs
    <3>2. \/ copy'[r] = copy[r] /\ base'[r] = copy[r]
          \/ copy'[r] = Absent
      BY <1>1, <2>5 DEF SaveRequest, SaveFinal, Save, SaveAs, Respond, Forget, TypeOK
    <3>. QED BY <1>1, <1>2, <1>3, <3>1, <3>2, Merged
  <2>6. CASE Unreserve(r) \/ Enqueue(r) \/ Refused(r) \/ ApiCrash(r) \/ SaveFails(r)
    <3>1. doc' = doc
      BY <2>6 DEF Unreserve, Enqueue, Refused, ApiCrash, SaveFails, store
    <3>2. \/ copy'[r] = copy[r] /\ base'[r] = base[r]
          \/ copy'[r] = Absent
      BY <1>1, <2>6 DEF Unreserve, Enqueue, Refused, ApiCrash, SaveFails, Respond, Forget, TypeOK
    <3>. QED BY <1>2, <1>3, <3>1, <3>2
  <2>7. CASE EnqueueFails(r)
    <3>1. doc' = doc
      BY <2>7 DEF EnqueueFails, store
    <3>2. copy'[r].status \in {"FAILED", "NONE"}
      <4>1. CASE Respond(r)
        BY <1>1, <1>2, <4>1 DEF Respond, Forget, TypeOK
      <4>2. CASE copy' = [copy EXCEPT ![r].status = "FAILED", ![r].failureCode = "OTHER"]
        BY <1>1, <4>2 DEF TypeOK, Document
      <4>3. CASE copy' = [copy EXCEPT ![r] = Restored(@)]
        BY <1>1, <4>3 DEF Restored, TypeOK, Document
      <4>. QED BY <2>7, <4>1, <4>2, <4>3 DEF EnqueueFails, Recovery
    <3>. QED BY <3>1, <3>2
  <2>. QED BY <2>1, <2>2, <2>3, <2>4, <2>5, <2>6, <2>7 DEF RequestStep
<1>. QED BY <1>0, <1>4 DEF ToldInv

\* A worker that completes it announces that.
LEMMA ToldWorker ==
  ASSUME TypeOK, Room, ToldInv, NEW g \in Generations,
         WorkerStep(g) \/ JobFails(g) \/ WorkerCrash(g)
  PROVE  ToldInv'
<1>. SUFFICES ASSUME WorkersRan' PROVE ToldInv'
  BY DEF ToldInv
<1>1. /\ g \in Holders /\ doc \in Document /\ copy[g] \in Document /\ base[g] \in Document
      /\ \A h \in Generations : h \in Holders
  BY DEF TypeOK, Holders
<1>2. Absent.status = "NONE"
  BY DEF Absent, NewDocument
<1>3. CASE JobFails(g) \/ WorkerCrash(g)
  BY <1>3, Untold DEF JobFails, WorkerCrash
<1>4. CASE WorkerStep(g)
  <2>0. WorkersRan
    <3>1. CASE PipelineFails(g) \/ AnnounceCompleted(g) \/ AnnounceFailed(g)
      BY <3>1 DEF PipelineFails, AnnounceCompleted, AnnounceFailed, Announce, Fault, WorkersRan
    <3>2. CASE ~ (PipelineFails(g) \/ AnnounceCompleted(g) \/ AnnounceFailed(g))
      BY <1>4, <3>2 DEF WorkerStep, TakeJob, Skip, Load, SaveBegin, SaveExtracting, Extract, Consume,
                  SaveConsumed, Analyse, Synthesize, SaveCompleted, Refund, SaveFailed, WorkersRan
    <3>. QED BY <3>1, <3>2
  <2>1. /\ doc.status = "COMPLETED" =>
             "VERIFICATION_COMPLETED" \in outbox \/ \E h \in Generations : wpc[h] = "announce"
        /\ \A h \in Holders : copy[h].status = "COMPLETED" /\ base[h].status # "COMPLETED"
             => h \in Generations /\ wpc[h] = "complete"
    BY <2>0 DEF ToldInv
  \* The copies of the others.
  <2>2. \A h \in Holders : h # g => copy'[h] = copy[h] /\ base'[h] = base[h]
    <3>1. CASE TakeJob(g) \/ Skip(g) \/ Load(g) \/ AnnounceCompleted(g) \/ AnnounceFailed(g)
      BY <3>1 DEF TakeJob, Skip, Load, AnnounceCompleted, AnnounceFailed, Announce, Finish, Forget,
                  LoadAs, TypeOK
    <3>2. CASE SaveBegin(g) \/ SaveExtracting(g) \/ SaveConsumed(g) \/ SaveCompleted(g) \/ SaveFailed(g)
               \/ Extract(g) \/ Analyse(g)
      BY <3>2 DEF SaveBegin, SaveExtracting, SaveConsumed, SaveCompleted, SaveFailed, Save, SaveAs,
                  Extract, Analyse, TypeOK
    <3>3. CASE Consume(g) \/ Refund(g)
      BY <3>3 DEF Consume, Refund, Refunded, ConsumeUsage, ReleaseUsage, Change, TypeOK
    <3>4. CASE Synthesize(g) \/ PipelineFails(g)
      BY <3>4 DEF Synthesize, PipelineFails, Catch, Change, TypeOK
    <3>. QED BY <1>4, <3>1, <3>2, <3>3, <3>4 DEF WorkerStep
  <2>3. \A h \in Generations : h # g => wpc'[h] = wpc[h]
    BY <1>4 DEF WorkerStep, TakeJob, Skip, Load, SaveBegin, SaveExtracting, Extract, Consume,
                SaveConsumed, Analyse, Synthesize, SaveCompleted, Refund, SaveFailed, PipelineFails,
                Catch, AnnounceCompleted, AnnounceFailed, Announce, Finish, WGo, TypeOK
  <2>. DEFINE Mine == copy'[g].status = "COMPLETED" /\ base'[g].status # "COMPLETED" => wpc'[g] = "complete"
              Told == doc'.status = "COMPLETED" =>
                        "VERIFICATION_COMPLETED" \in outbox' \/ \E h \in Generations : wpc'[h] = "announce"
  \* A step of a worker that is not about to announce, and that completes nothing.
  <2>calm. ASSUME wpc[g] # "announce", outbox \subseteq outbox', doc'.status = "COMPLETED" => doc.status = "COMPLETED"
           PROVE  Told
    BY <2>1, <2>3, <2>calm
  <2>4. ASSUME TakeJob(g) PROVE Mine /\ Told
    <3>1. doc' = doc /\ outbox' = outbox /\ copy' = copy /\ base' = base /\ wpc' = [wpc EXCEPT ![g] = "load"]
          /\ job[g] = "waiting"
      BY <2>4 DEF TakeJob, WGo, store
    <3>2. wpc[g] = "idle"
      BY <3>1 DEF Room
    <3>3. Mine
      BY <1>1, <2>1, <3>1, <3>2
    <3>4. Told
      BY <2>calm, <3>1, <3>2
    <3>. QED BY <3>3, <3>4
  <2>5. ASSUME Load(g) \/ Skip(g) PROVE Mine /\ Told
    <3>1. /\ doc' = doc /\ outbox' = outbox /\ wpc[g] = "load"
          /\ copy'[g] = Absent \/ copy'[g] = [doc EXCEPT !.status = "PROCESSING", !.stage = "INPUT_VALIDATION"]
      BY <1>1, <2>5 DEF Load, Skip, LoadAs, Finish, Forget, At, store, TypeOK
    <3>2. copy'[g].status \in {"NONE", "PROCESSING"}
      BY <1>1, <1>2, <3>1 DEF Document
    <3>. QED BY <2>calm, <3>1, <3>2
  \* The saves that are not the one of COMPLETED.
  <2>save. ASSUME NEW c \in Document, NEW d \in Document, doc' = Merge(c, base[g], doc),
                  copy' = [copy EXCEPT ![g] = d], base' = [base EXCEPT ![g] = c],
                  c.status = copy[g].status, d.status = c.status, outbox' = outbox,
                  wpc[g] \notin {"announce", "complete"}
           PROVE  Mine /\ Told
    <3>1. copy'[g] = d /\ base'[g] = c
      BY <1>1, <2>save DEF TypeOK
    <3>2. c.status = "COMPLETED" => base[g].status = "COMPLETED"
      BY <1>1, <2>1, <2>save
    <3>3. doc'.status = "COMPLETED" => doc.status = "COMPLETED"
      BY SMTT(60), <1>1, <2>save, <3>2, Merged
    <3>. QED BY <2>calm, <2>save, <3>1, <3>3
  <2>6. ASSUME SaveBegin(g) \/ SaveExtracting(g) \/ SaveConsumed(g) \/ SaveFailed(g) PROVE Mine /\ Told
    <3>. DEFINE d == [copy[g] EXCEPT !.stage = "CONTENT_EXTRACTION"]
    <3>1. d \in Document /\ d.status = copy[g].status
      BY <1>1 DEF Document, Stages
    <3>2. PICK e \in {copy[g], d} :
            /\ doc' = Merge(copy[g], base[g], doc) /\ copy' = [copy EXCEPT ![g] = e]
            /\ base' = [base EXCEPT ![g] = copy[g]]
            /\ outbox' = outbox /\ wpc[g] \notin {"announce", "complete"}
      BY <2>6 DEF SaveBegin, SaveExtracting, SaveConsumed, SaveFailed, Save, SaveAs, At
    <3>3. e \in Document /\ e.status = copy[g].status
      BY <1>1, <3>1, <3>2
    <3>. HIDE DEF d
    <3>. QED BY <1>1, <2>save, <3>2, <3>3
  <2>7. ASSUME Extract(g) \/ Analyse(g) PROVE Mine /\ Told
    <3>1. PICK s \in {"ANALYSIS", "REPORT_SYNTHESIS"} :
            /\ doc' = Merge([copy[g] EXCEPT !.stage = s], base[g], doc)
            /\ copy' = [copy EXCEPT ![g] = [copy[g] EXCEPT !.stage = s]]
            /\ base' = [base EXCEPT ![g] = [copy[g] EXCEPT !.stage = s]]
            /\ outbox' = outbox /\ wpc[g] \notin {"announce", "complete"}
      BY <2>7 DEF Extract, Analyse, At
    <3>. DEFINE c == [copy[g] EXCEPT !.stage = s]
    <3>2. c \in Document /\ c.status = copy[g].status
      BY <1>1, <3>1 DEF Document, Stages
    <3>3. /\ doc' = Merge(c, base[g], doc) /\ copy' = [copy EXCEPT ![g] = c]
          /\ base' = [base EXCEPT ![g] = c] /\ outbox' = outbox /\ wpc[g] \notin {"announce", "complete"}
      BY <3>1
    <3>. HIDE DEF c
    <3>. QED BY <2>save, <3>2, <3>3
  <2>8. ASSUME SaveCompleted(g) PROVE Mine /\ Told
    <3>1. /\ outbox' = outbox /\ wpc'[g] = "announce" /\ copy'[g] = copy[g] /\ base'[g] = copy[g]
      BY <1>1, <2>8 DEF SaveCompleted, Save, SaveAs, WGo, TypeOK
    <3>. QED BY <3>1
  <2>9. ASSUME Consume(g) \/ Refund(g) PROVE Mine /\ Told
    <3>1. doc' = doc /\ outbox' = outbox /\ base' = base /\ wpc[g] \in {"consume", "refund"}
      BY <2>9 DEF Consume, Refund, Refunded, ConsumeUsage, ReleaseUsage, Change, At
    <3>2. copy'[g].status = copy[g].status
      BY <1>1, <2>9, ConsumeTypes, ReleaseTypes DEF Consume, Refund, Refunded
    <3>3. Mine
      BY <1>1, <2>1, <3>1, <3>2
    <3>4. Told
      BY <2>calm, <3>1
    <3>. QED BY <3>3, <3>4
  <2>10. ASSUME Synthesize(g) PROVE Mine /\ Told
    <3>1. doc' = doc /\ outbox' = outbox /\ wpc[g] = "synthesize" /\ wpc'[g] = "complete"
      BY <2>10 DEF Synthesize, Change, WGo, At, TypeOK
    <3>. QED BY <2>calm, <3>1
  <2>11. ASSUME PipelineFails(g) PROVE Mine /\ Told
    <3>1. doc' = doc /\ outbox' = outbox /\ copy'[g].status = "FAILED"
      <4>1. PICK code \in {"OTHER", "VALIDATION_ERROR"} : Catch(g, code)
        BY <2>11 DEF PipelineFails
      <4>2. copy'[g] = [copy[g] EXCEPT !.status = "FAILED", !.failureCode = code]
        BY <1>1, <4>1 DEF Catch, Change, TypeOK
      <4>3. [copy[g] EXCEPT !.status = "FAILED", !.failureCode = code].status = "FAILED"
        BY <1>1 DEF Document
      <4>. QED BY <4>1, <4>2, <4>3 DEF Catch, Change
    <3>2. wpc[g] # "announce"
      BY <2>11, Untold DEF PipelineFails, At
    <3>. QED BY <2>calm, <3>1, <3>2
  <2>12. ASSUME AnnounceCompleted(g) \/ AnnounceFailed(g) PROVE Mine /\ Told
    <3>1. /\ doc' = doc /\ copy'[g] = Absent /\ outbox \subseteq outbox'
          /\ wpc[g] = "announce" => "VERIFICATION_COMPLETED" \in outbox'
      BY <1>1, <2>12, Untold DEF AnnounceCompleted, AnnounceFailed, Announce, Finish, Forget, At, TypeOK
    <3>2. Told
      BY <2>calm, <3>1
    <3>. QED BY <1>2, <3>1, <3>2
  <2>13. Mine /\ Told
    BY <1>4, <2>4, <2>5, <2>6, <2>7, <2>8, <2>9, <2>10, <2>11, <2>12 DEF WorkerStep
  <2>14. \A h \in Holders : copy'[h].status = "COMPLETED" /\ base'[h].status # "COMPLETED"
             => h \in Generations /\ wpc'[h] = "complete"
    BY <1>1, <2>1, <2>2, <2>3, <2>13
  <2>. QED BY <2>13, <2>14 DEF ToldInv
<1>. QED BY <1>3, <1>4

-----------------------------------------------------------------------------
LEMMA LifeInductive == Spec => [](IInv /\ TurnsInv /\ ToldInv)
<1>1. Init => TurnsInv /\ ToldInv
  <2>. SUFFICES ASSUME Init PROVE TurnsInv /\ ToldInv
    OBVIOUS
  <2>1. Absent.status = "NONE"
    BY DEF Absent, NewDocument
  <2>2. /\ \A g \in Generations : ~Exists(g) /\ ~Live(g) /\ wpc[g] = "idle"
        /\ \A r \in Requests : rpc[r] = "idle" /\ \A g \in Generations : ~Aims(r, g)
        /\ \A h \in Holders : copy[h] = Absent /\ base[h] = Absent
        /\ doc = Absent
    BY DEF Init, Exists, Live, Aims
  <2>3. \A g \in Generations : g \in Holders
    BY DEF Holders
  <2>4. ~(0 < 0) /\ Absent.retryCount = 0
    BY DEF Absent, NewDocument
  <2>5. TurnsInv
    BY <2>1, <2>2, <2>3, <2>4, InOrder DEF TurnsInv, Turns, Counted, CopiesKnown, Over
  <2>6. ToldInv
    BY <2>1, <2>2 DEF ToldInv
  <2>. QED BY <2>5, <2>6
<1>2. IInv /\ TurnsInv /\ ToldInv /\ [Next]_vars => TurnsInv' /\ ToldInv'
  <2>. SUFFICES ASSUME IInv, TurnsInv, ToldInv, [Next]_vars
       PROVE  TurnsInv' /\ ToldInv'
    OBVIOUS
  <2>1. CASE Next
    BY <2>1, TurnsRequest, TurnsWorker, ToldRequest, ToldWorker DEF Next, IInv
  <2>2. CASE UNCHANGED vars
    BY <2>2 DEF vars, store, queue, request, TurnsInv, ToldInv, Turns, Counted, CopiesKnown, Exists, Live, Aims,
                Over, OnlyRequestsDied, WorkersRan
  <2>. QED BY <2>1, <2>2
<1>. QED BY <1>1, <1>2, Inductive, PTL DEF Spec

\* "A verification reaches COMPLETED and 100% only after report validation passes"
\* (docs/verification-pipeline.md:92); its job id names the generation, so that two
\* jobs never take it through the pipeline at once as long as nothing but API
\* processes die; and its completion is announced as long as no worker dies and no
\* write to the database fails. For any number of requests, generations, attempts and
\* faults, of whatever kinds.
THEOREM LifeIsKept == Spec => []LifeHolds
<1>1. IInv /\ TurnsInv /\ ToldInv => LifeHolds
  <2>. SUFFICES ASSUME IInv, TurnsInv, ToldInv PROVE LifeHolds
    OBVIOUS
  <2>1. CompletedHasReport
    BY DEF IInv
  <2>2. ASSUME OnlyRequestsDied PROVE OneWorker
    <3>1. \A g, h \in Generations : g < h /\ Live(g) => ~Exists(h)
      BY <2>2 DEF TurnsInv, Turns
    <3>2. \A g \in Generations : Working(g) => Live(g) /\ Exists(g)
      BY DEF Working, Live, Exists, IInv, Room, TypeOK
    <3>3. ASSUME NEW g \in Generations, NEW h \in Generations, Working(g), Working(h) PROVE ~(g < h)
      BY <3>1, <3>2, <3>3
    <3>4. ASSUME NEW g \in Generations, NEW h \in Generations, Working(g), Working(h) PROVE g = h
      <4>1. ~(g < h) /\ ~(h < g)
        BY <3>3, <3>4
      <4>. QED BY <4>1, VerificationAssumption DEF Generations
    <3>. QED BY <3>4 DEF OneWorker
  <2>3. ASSUME WorkersRan PROVE CompletionIsAnnounced
    BY <2>3 DEF ToldInv, CompletionIsAnnounced, AtRest
  <2>. QED BY <2>1, <2>2, <2>3 DEF LifeHolds
<1>. QED BY <1>1, LifeInductive, PTL


-----------------------------------------------------------------------------
(* The allowance, while requests come one after the other.                 *)

\* verification.service.ts saves what it loaded: of two requests at once, one may fail a
\* verification that the other queues again. What follows is about those that do not.
OneAtATime == \A r, q \in Requests : rpc[r] # "idle" /\ rpc[q] # "idle" => r = q

Free(g) == ledger[g] \in {"NONE", "RELEASED"}
AllFree == \A g \in Generations : Free(g)
Honest(l, u) == u.status = "RESERVED" \/ l[u.attempt] \in {u.status, "RELEASED"}
NoneLive == \A g \in Generations : ~Live(g)
Withdrawing(r) == op[r] \in {"cancel", "remove"}

NoneBegun ==
  doc.status = "NONE" => /\ \A r \in Requests : rpc[r] = "idle"
                         /\ \A g \in Generations : ~Exists(g)
                         /\ \A g \in Generations : ledger[g] = "NONE"
OneLive ==
  /\ \A g, h \in Generations : Live(g) /\ Live(h) => g = h
  /\ doc.status \in {"NONE", "FAILED", "COMPLETED"} => NoneLive
  /\ \A g \in Generations : Exists(g) => g <= doc.retryCount

\* One that queues the verification is alone with it; one that withdraws it goes beside a
\* job, and each leaves nothing charged once it is about to say so.
RequestHolds(r) ==
  /\ rpc[r] \in {"idle", "reserve", "save", "enqueue", "release", "final"}
  /\ rpc[r] = "idle" => op[r] = "none"
  /\ rpc[r] # "idle" /\ ~Withdrawing(r) => base[r] = doc /\ NoneLive
  /\ rpc[r] = "reserve" => copy[r] = doc /\ doc.status = "FAILED" /\ op[r] = "retry"
  /\ rpc[r] = "save" =>
       /\ ~Withdrawing(r)
       /\ doc.status = IF op[r] = "reprocess" THEN "COMPLETED" ELSE "FAILED"
       /\ copy[r].status = "QUEUED" /\ copy[r].retryCount = doc.retryCount + 1
       /\ \A g \in Generations : Free(g) \/ g = copy[r].usage.attempt
  /\ rpc[r] = "enqueue" =>
       ~Withdrawing(r) /\ copy[r] = doc /\ doc.status = "QUEUED" /\ ~Exists(doc.retryCount)
  /\ op[r] = "adminRetry" => AllFree
  /\ op[r] = "reprocess" => report /\ rpc[r] \in {"save", "enqueue"}
  /\ rpc[r] \in {"release", "final"} =>
       /\ base[r].usage.attempt = doc.usage.attempt /\ copy[r].usage.attempt = doc.usage.attempt
       /\ copy[r].status # base[r].status
       /\ IF Withdrawing(r)
          THEN copy[r].status \in {"CANCELLED", "DELETED"} /\ copy[r].retryCount = base[r].retryCount
          ELSE /\ copy[r].status = "FAILED" /\ doc.status = "QUEUED" /\ ~Exists(doc.retryCount)
               /\ copy[r].retryCount \in {doc.retryCount, doc.retryCount - 1}
  /\ rpc[r] = "final" /\ copy[r].status \in {"FAILED", "CANCELLED"} => AllFree

WorkerHolds(g) ==
  Working(g) =>
    /\ base[g].usage.attempt = doc.usage.attempt /\ copy[g].usage.attempt = doc.usage.attempt
    /\ copy[g].retryCount = base[g].retryCount
    /\ copy[g].status = CASE wpc[g] = "complete" -> "COMPLETED"
                          [] wpc[g] \in {"refund", "failed"} -> "FAILED"
                          [] OTHER -> "PROCESSING"
    /\ wpc[g] # "begin" => base[g].status = "PROCESSING"
    /\ wpc[g] = "failed" => AllFree

\* Only the attempt that is shown holds anything, and what failed or was cancelled nothing.
ChargeHolds ==
  /\ (\A r \in Requests : rpc[r] # "save") => \A g \in Generations : Free(g) \/ g = doc.usage.attempt
  /\ doc.status \in {"FAILED", "CANCELLED"} =>
       AllFree \/ \E r \in Requests : rpc[r] = "save" /\ op[r] = "retry"
  /\ Honest(ledger, doc.usage) /\ \A h \in Holders : Honest(ledger, copy[h].usage)

QueuedHolds ==
  doc.status = "QUEUED" =>
    \/ report
    \/ \E r \in Requests : rpc[r] \in {"enqueue", "release", "final"}
    \/ \E g \in Generations : Live(g)

AllowanceParts ==
  /\ NoneBegun /\ OneLive /\ ChargeHolds /\ QueuedHolds
  /\ \A r \in Requests : RequestHolds(r)
  /\ \A g \in Generations : WorkerHolds(g)
AllowanceInv == Clean => AllowanceParts

\* Nothing but a queue that refuses a job leaves the system clean.
LEMMA Soils ==
  ASSUME NEW kind \in {"database", "queueAnswer", "workerCrash", "apiCrash"}, Fault(kind)
  PROVE  ~Clean'
BY DEF Fault, Clean

\* Honesty and freedom only look at the ledger, which goes one way.
Grows ==
  \A g \in Generations :
    \/ ledger'[g] = ledger[g]
    \/ ledger'[g] = "RELEASED"
    \/ ledger[g] = "NONE" /\ ledger'[g] = "RESERVED"
    \/ ledger[g] = "RESERVED" /\ ledger'[g] = "USED"
LEMMA HonestStays ==
  ASSUME NEW u \in Usage, Honest(ledger, u), Grows
  PROVE  Honest(ledger', u)
<1>1. u.attempt \in Generations /\ u.status \in {"RESERVED", "USED", "RELEASED"}
  BY DEF Usage
<1>. QED BY <1>1 DEF Honest, Grows

\* A save of a copy of the same attempt shows what the copy shows.
LEMMA MergedUsage ==
  ASSUME NEW new \in Document, NEW old \in Document, NEW saved \in Document,
         old.usage.attempt = saved.usage.attempt, new.usage.attempt = saved.usage.attempt,
         Honest(ledger, new.usage), Honest(ledger, saved.usage)
  PROVE  /\ Merge(new, old, saved).usage.attempt = saved.usage.attempt
         /\ Honest(ledger, Merge(new, old, saved).usage)
<1>. DEFINE u == Merge(new, old, saved).usage
<1>1. /\ new.usage \in Usage /\ old.usage \in Usage /\ saved.usage \in Usage
  BY DocumentFields
<1>2. u = IF new.usage.status # old.usage.status THEN [saved.usage EXCEPT !.status = new.usage.status]
          ELSE saved.usage
  BY DocumentFields DEF Merge, MergeUsage
<1>. QED BY <1>1, <1>2 DEF Usage, Honest

\* A save over the copy it was loaded as leaves the copy.
LEMMA MergedAlone ==
  ASSUME NEW new \in Document, NEW old \in Document
  PROVE  Merge(new, old, old) = new
<1>1. MergeUsage(new.usage, old.usage, old.usage) = new.usage
  BY DocumentFields DEF MergeUsage, Usage
<1>2. Merge(new, old, old) =
        [status |-> new.status, stage |-> new.stage, retryCount |-> new.retryCount,
         failureCode |-> new.failureCode, usage |-> new.usage]
  BY <1>1, DocumentFields DEF Merge
<1>. QED BY <1>2 DEF Document


-----------------------------------------------------------------------------
\* The others rest during a step of a request.
LEMMA Solo ==
  ASSUME TypeOK, TypeOK', OneAtATime, OneAtATime', NEW r \in Requests, rpc[r] # "idle" \/ rpc'[r] # "idle",
         \A q \in Requests : q # r => rpc'[q] = rpc[q]
  PROVE  \A q \in Requests : q # r => rpc[q] = "idle" /\ rpc'[q] = "idle"
BY DEF OneAtATime

\* A step of a worker keeps what is held of the others.
LEMMA WorkerFrame ==
  ASSUME TypeOK, Room, AllowanceParts, NEW g \in Generations, Exists(g),
         rpc' = rpc, op' = op, report => report',
         \A h \in Generations : Exists(h)' = Exists(h),
         \A h \in Generations : h # g =>
            job'[h] = job[h] /\ wpc'[h] = wpc[h] /\ copy'[h] = copy[h] /\ base'[h] = base[h],
         \A r \in Requests : copy'[r] = copy[r] /\ base'[r] = base[r],
         Live(g) \/ (doc' = doc /\ ledger' = ledger /\ ~Live(g)'),
         doc'.usage.attempt = doc.usage.attempt, doc'.retryCount = doc.retryCount,
         doc'.status # "NONE",
         \A x \in Generations : Free(x) => Free(x)',
         Grows, Honest(ledger', doc'.usage), Honest(ledger', copy'[g].usage),
         WorkerHolds(g)',
         doc'.status \in {"FAILED", "COMPLETED"} => doc' = doc \/ ~Live(g)',
         doc'.status \in {"FAILED", "CANCELLED"} => AllFree' \/ doc'.status = doc.status,
         doc'.status = "QUEUED" => doc.status = "QUEUED" /\ (Live(g) => Live(g)')
  PROVE  AllowanceParts'
<1>1. /\ NoneBegun /\ OneLive /\ ChargeHolds /\ QueuedHolds
      /\ \A r \in Requests : RequestHolds(r)
      /\ \A h \in Generations : WorkerHolds(h)
  BY DEF AllowanceParts
<1>2. \A h \in Generations : h # g => Live(h)' = Live(h)
  BY DEF Live
<1>3. AllFree => AllFree'
  BY DEF AllFree
<1>4. NoneBegun'
  BY DEF NoneBegun
<1>5. OneLive'
  <2>1. doc'.status \in {"FAILED", "COMPLETED"} => \A h \in Generations : ~Live(h)'
    <3>1. CASE Live(g)
      BY <1>1, <1>2, <3>1 DEF OneLive, NoneLive
    <3>2. CASE ~Live(g)
      BY <1>1, <1>2, <3>2 DEF OneLive, NoneLive
    <3>. QED BY <3>1, <3>2
  <2>2. \A h, k \in Generations : Live(h)' /\ Live(k)' => h = k
    BY <1>1, <1>2 DEF OneLive
  <2>. QED BY <1>1, <2>1, <2>2 DEF OneLive, NoneLive
<1>6. ChargeHolds'
  <2>1. \A h \in Holders : Honest(ledger', copy'[h].usage)
    <3>1. ASSUME NEW h \in Holders, h # g PROVE Honest(ledger', copy'[h].usage)
      <4>1. copy'[h] = copy[h] /\ copy[h].usage \in Usage
        BY <3>1, DocumentFields DEF Holders, TypeOK
      <4>. QED BY <1>1, <4>1, HonestStays DEF ChargeHolds
    <3>. QED BY <3>1
  <2>. QED BY <1>1, <1>3, <2>1 DEF ChargeHolds
<1>7. QueuedHolds'
  BY <1>1, <1>2 DEF QueuedHolds
<1>8. ASSUME NEW r \in Requests PROVE RequestHolds(r)'
  <2>1. CASE rpc[r] # "idle" /\ ~Withdrawing(r)
    <3>1. NoneLive /\ ~Live(g)
      BY <1>1, <2>1 DEF RequestHolds, NoneLive
    <3>2. doc' = doc /\ ledger' = ledger /\ NoneLive'
      BY <1>2, <3>1 DEF NoneLive
    <3>3. Exists(doc.retryCount)' = Exists(doc.retryCount) /\ (AllFree => AllFree')
          /\ \A x \in Generations : Free(x)' = Free(x)
      BY <3>2, DocumentFields DEF AllFree, Free, TypeOK
    <3>. QED BY <1>1, <2>1, <3>2, <3>3 DEF RequestHolds, Withdrawing
  <2>2. CASE rpc[r] = "idle"
    BY <1>1, <2>2 DEF RequestHolds, Withdrawing
  <2>3. CASE rpc[r] # "idle" /\ Withdrawing(r)
    BY <1>1, <1>3, <2>3 DEF RequestHolds, Withdrawing
  <2>. QED BY <2>1, <2>2, <2>3
<1>9. ASSUME NEW h \in Generations, h # g PROVE WorkerHolds(h)'
  <2>1. WorkerHolds(h) /\ Working(h)' = Working(h)
    BY <1>1, <1>9 DEF Working
  <2>2. wpc'[h] = wpc[h] /\ copy'[h] = copy[h] /\ base'[h] = base[h]
    BY <1>9
  <2>. QED BY <1>3, <2>1, <2>2 DEF WorkerHolds
<1>. QED BY <1>4, <1>5, <1>6, <1>7, <1>8, <1>9 DEF AllowanceParts

\* And a step of a request what is held of the workers.
LEMMA RequestFrame ==
  ASSUME TypeOK, AllowanceParts, wpc' = wpc,
         \A h \in Generations : copy'[h] = copy[h] /\ base'[h] = base[h],
         NoneLive \/ (doc'.usage.attempt = doc.usage.attempt /\ \A x \in Generations : Free(x) => Free(x)')
  PROVE  \A g \in Generations : WorkerHolds(g)'
<1>1. ASSUME NEW g \in Generations PROVE WorkerHolds(g)'
  <2>1. WorkerHolds(g) /\ Working(g)' = Working(g)
    BY DEF AllowanceParts, Working
  <2>2. CASE NoneLive
    BY <2>1, <2>2 DEF NoneLive, Live, Working, WorkerHolds
  <2>3. CASE ~NoneLive
    BY <2>1, <2>3 DEF WorkerHolds, AllFree
  <2>. QED BY <2>2, <2>3
<1>. QED BY <1>1


-----------------------------------------------------------------------------
\* A request begins on the document it found.
LEMMA Begins ==
  ASSUME TypeOK, TypeOK', AllowanceParts, OneAtATime, OneAtATime',
         NEW r \in Requests, NEW o \in {"cancel", "remove", "retry", "adminRetry", "reprocess"},
         NEW p \in {"reserve", "save", "release", "final"}, NEW c \in Document,
         Accept(r, o, p, c), doc.status # "NONE", c.usage = doc.usage, RequestHolds(r)'
  PROVE  AllowanceParts'
<1>1. /\ NoneBegun /\ OneLive /\ ChargeHolds /\ QueuedHolds
      /\ \A q \in Requests : RequestHolds(q)
      /\ \A h \in Generations : WorkerHolds(h)
  BY DEF AllowanceParts
<1>2. /\ doc' = doc /\ ledger' = ledger /\ report' = report /\ job' = job /\ wpc' = wpc
      /\ rpc' = [rpc EXCEPT ![r] = p] /\ op' = [op EXCEPT ![r] = o] /\ rpc[r] = "idle"
      /\ copy' = [copy EXCEPT ![r] = c] /\ base' = [base EXCEPT ![r] = doc]
  BY DEF Accept, LoadAs, store, queue
<1>3. \A q \in Requests : rpc[q] = "idle" /\ (q # r => rpc'[q] = "idle" /\ op'[q] = "none")
  <2>1. \A q \in Requests : q # r => rpc'[q] = rpc[q] /\ op'[q] = op[q]
    BY <1>2 DEF TypeOK
  <2>2. rpc'[r] # "idle"
    BY <1>2 DEF TypeOK
  <2>. QED BY <1>1, <1>2, <2>1, <2>2, Solo DEF RequestHolds
<1>4. \A h \in Generations : Live(h)' = Live(h) /\ Exists(h)' = Exists(h)
  BY <1>2 DEF Live, Exists
<1>5. NoneBegun' /\ OneLive'
  BY <1>1, <1>2, <1>4 DEF NoneBegun, OneLive, NoneLive
<1>6. ChargeHolds'
  <2>1. \A h \in Holders : copy'[h].usage = copy[h].usage \/ copy'[h].usage = doc.usage
    BY <1>2 DEF TypeOK
  <2>. QED BY <1>1, <1>2, <1>3, <2>1 DEF ChargeHolds, AllFree, Free
<1>7. QueuedHolds'
  BY <1>1, <1>2, <1>3, <1>4 DEF QueuedHolds
<1>8. \A q \in Requests : RequestHolds(q)'
  BY <1>3 DEF RequestHolds, Withdrawing
<1>9. \A h \in Generations : WorkerHolds(h)'
  <2>1. \A h \in Generations : copy'[h] = copy[h] /\ base'[h] = base[h]
    BY <1>2, HoldersApart DEF Holders, TypeOK
  <2>. QED BY <1>2, <2>1, RequestFrame DEF Free
<1>. QED BY <1>5, <1>6, <1>7, <1>8, <1>9 DEF AllowanceParts

LEMMA AllowanceBegins ==
  ASSUME TypeOK, TypeOK', CompletedHasReport, AllowanceParts, OneAtATime, OneAtATime', NEW r \in Requests,
         Cancel(r) \/ Delete(r) \/ Retry(r) \/ AdminRetry(r) \/ Reprocess(r)
  PROVE  AllowanceParts'
<1>1. /\ NoneBegun /\ OneLive /\ ChargeHolds /\ QueuedHolds
      /\ \A q \in Requests : RequestHolds(q)
  BY DEF AllowanceParts
<1>2. doc \in Document /\ doc.usage \in Usage /\ doc.retryCount \in Generations /\ r \in Holders
  BY DocumentFields DEF TypeOK, Holders
<1>idle. ASSUME rpc[r] = "idle", rpc'[r] # "idle", \A q \in Requests : q # r => rpc'[q] = rpc[q]
         PROVE  \A q \in Requests : rpc[q] = "idle"
  BY <1>idle, Solo
<1>3. CASE Cancel(r)
  <2>. DEFINE c == [doc EXCEPT !.status = "CANCELLED"]
  <2>1. c \in Document /\ c.status = "CANCELLED" /\ c.usage = doc.usage /\ c.retryCount = doc.retryCount
    BY <1>2 DEF Document, Statuses
  <2>2. Accept(r, "cancel", "release", c) /\ doc.status \notin {"NONE", "CANCELLED"}
    BY <1>3 DEF Cancel, Cancellable
  <2>. HIDE DEF c
  <2>3. RequestHolds(r)'
    BY <1>2, <2>1, <2>2 DEF RequestHolds, Withdrawing, Accept, LoadAs, store, TypeOK
  <2>. QED BY <2>1, <2>2, <2>3, Begins
<1>4. CASE Delete(r)
  <2>. DEFINE c == [doc EXCEPT !.status = "DELETED"]
  <2>1. c \in Document /\ c.status = "DELETED" /\ c.usage = doc.usage /\ c.retryCount = doc.retryCount
    BY <1>2 DEF Document, Statuses
  <2>2. Accept(r, "remove", "final", c) /\ doc.status \notin {"NONE", "DELETED"}
    BY <1>4 DEF Delete
  <2>. HIDE DEF c
  <2>3. RequestHolds(r)'
    BY <1>2, <2>1, <2>2 DEF RequestHolds, Withdrawing, Accept, LoadAs, store, TypeOK
  <2>. QED BY <2>1, <2>2, <2>3, Begins
<1>5. CASE Retry(r) \/ AdminRetry(r) \/ Reprocess(r)
  <2>. DEFINE x == [doc EXCEPT !.status = "QUEUED", !.stage = "RECEIVED", !.retryCount = @ + 1,
                               !.failureCode = "none"]
              y == [doc EXCEPT !.status = "QUEUED", !.retryCount = @ + 1, !.failureCode = "none"]
  <2>1. doc.retryCount + 1 \in Generations
    BY <1>2, <1>5, VerificationAssumption DEF Retry, AdminRetry, Reprocess, Generations
  <2>2. \A c \in {x, y} : /\ c \in Document /\ c.status = "QUEUED"
                          /\ c.retryCount = doc.retryCount + 1 /\ c.usage = doc.usage
    BY <1>2, <2>1 DEF Document, Statuses, Stages
  <2>3. \/ doc.status = "FAILED" /\ Accept(r, "retry", "reserve", doc)
        \/ \E c \in {x, y}, o \in {"retry", "adminRetry"} : doc.status = "FAILED" /\ Accept(r, o, "save", c)
        \/ doc.status = "COMPLETED" /\ Accept(r, "reprocess", "save", x)
    BY <1>5 DEF Retry, AdminRetry, Reprocess, Retryable
  <2>. HIDE DEF x, y
  <2>4. CASE doc.status = "FAILED" /\ Accept(r, "retry", "reserve", doc)
    <3>1. /\ rpc'[r] = "reserve" /\ op'[r] = "retry" /\ copy'[r] = doc /\ base'[r] = doc /\ doc' = doc
          /\ job' = job /\ wpc' = wpc
      BY <1>2, <2>4 DEF Accept, LoadAs, store, queue, TypeOK
    <3>2. NoneLive'
      BY <1>1, <2>4, <3>1 DEF OneLive, NoneLive, Live
    <3>3. RequestHolds(r)'
      BY <2>4, <3>1, <3>2 DEF RequestHolds, Withdrawing
    <3>. QED BY <1>2, <2>4, <3>3, Begins
  <2>5. ASSUME NEW c \in {x, y}, NEW o \in {"retry", "adminRetry", "reprocess"}, Accept(r, o, "save", c),
               doc.status = IF o = "reprocess" THEN "COMPLETED" ELSE "FAILED"
        PROVE  AllowanceParts'
    <3>1. /\ rpc'[r] = "save" /\ op'[r] = o /\ copy'[r] = c /\ base'[r] = doc /\ doc' = doc
          /\ job' = job /\ wpc' = wpc /\ ledger' = ledger /\ report' = report
          /\ rpc[r] = "idle" /\ \A q \in Requests : q # r => rpc'[q] = rpc[q]
      BY <1>2, <2>5 DEF Accept, LoadAs, store, queue, TypeOK
    <3>2. NoneLive'
      BY <1>1, <2>5, <3>1 DEF OneLive, NoneLive, Live
    <3>3. \A q \in Requests : rpc[q] = "idle"
      BY <1>idle, <3>1
    <3>4. /\ \A g \in Generations : Free(g)' \/ g = doc.usage.attempt
          /\ o = "adminRetry" => AllFree'
          /\ o = "reprocess" => report'
      BY <1>1, <2>5, <3>1, <3>3 DEF ChargeHolds, AllFree, Free, CompletedHasReport
    <3>5. c \in Document /\ c.status = "QUEUED" /\ c.retryCount = doc.retryCount + 1 /\ c.usage = doc.usage
      BY <2>2
    <3>6. RequestHolds(r)'
      BY <2>5, <3>1, <3>2, <3>4, <3>5 DEF RequestHolds, Withdrawing
    <3>. QED BY <2>5, <3>5, <3>6, Begins
  <2>. QED BY <2>3, <2>4, <2>5
<1>. QED BY <1>3, <1>4, <1>5


\* The steps that follow, of a request that is alone among requests.
LEMMA AllowanceRequest ==
  ASSUME TypeOK, TypeOK', Room, CompletedHasReport, AllowanceParts, Clean', OneAtATime, OneAtATime',
         NEW r \in Requests,
         \/ Create(r) \/ RequestStep(r) \/ Refused(r)
         \/ SaveFails(r) \/ EnqueueFails(r) \/ ApiCrash(r)
  PROVE  AllowanceParts'
<1>1. /\ NoneBegun /\ OneLive /\ ChargeHolds /\ QueuedHolds
      /\ \A q \in Requests : RequestHolds(q)
      /\ \A h \in Generations : WorkerHolds(h)
  BY DEF AllowanceParts
<1>2. /\ r \in Holders /\ doc \in Document /\ copy[r] \in Document /\ base[r] \in Document
      /\ doc.retryCount \in Generations /\ copy[r].retryCount \in Generations
      /\ doc.usage \in Usage /\ copy[r].usage \in Usage /\ base[r].usage \in Usage
      /\ doc.usage.attempt \in Generations /\ copy[r].usage.attempt \in Generations
  BY DocumentFields DEF TypeOK, Holders, Usage
<1>types. /\ rpc \in [Requests -> RequestPoints] /\ op \in [Requests -> Operations \cup {"create", "none"}]
          /\ ledger \in [Generations -> {"NONE", "RESERVED", "USED", "RELEASED"}]
          /\ copy \in [Holders -> Document] /\ base \in [Holders -> Document]
          /\ job \in [Generations -> {"absent", "waiting", "active", "completed", "failed"}]
  BY DEF TypeOK
<1>idle. ASSUME rpc[r] # "idle" \/ rpc'[r] # "idle",
                \A q \in Requests : q # r => rpc'[q] = rpc[q] /\ op'[q] = op[q]
         PROVE  /\ \A q \in Requests : q # r => rpc[q] = "idle" /\ rpc'[q] = "idle" /\ op'[q] = "none"
                /\ \A q \in Requests : q # r => RequestHolds(q)'
  <2>1. \A q \in Requests : q # r => rpc[q] = "idle" /\ rpc'[q] = "idle"
    BY <1>idle, Solo
  <2>2. \A q \in Requests : q # r => op'[q] = "none"
    BY <1>1, <1>idle, <2>1 DEF RequestHolds
  <2>. QED BY <2>1, <2>2 DEF RequestHolds, Withdrawing
\* What a request leaves alone.
<1>. DEFINE Others == /\ \A q \in Requests : q # r =>
                           rpc'[q] = rpc[q] /\ op'[q] = op[q] /\ copy'[q] = copy[q] /\ base'[q] = base[q]
                      /\ \A g \in Generations : copy'[g] = copy[g] /\ base'[g] = base[g]
<1>3. CASE Unreserve(r) \/ ApiCrash(r) \/ SaveFails(r)
  <2>1. rpc[r] # "unreserve"
    BY <1>1 DEF RequestHolds
  <2>. QED BY <1>3, <2>1, Soils DEF Unreserve, ApiCrash, SaveFails
<1>4. CASE Refused(r)
  <2>1. /\ doc' = doc /\ ledger' = ledger /\ report' = report /\ job' = job /\ wpc' = wpc
        /\ rpc[r] = "reserve" /\ rpc'[r] = "idle" /\ op'[r] = "none" /\ copy'[r] = Absent /\ Others
    BY <1>2, <1>types, <1>4, HoldersApart DEF Refused, Respond, Forget, store, queue, Holders
  <2>2. \A g \in Generations : Live(g)' = Live(g) /\ Exists(g)' = Exists(g)
    BY <2>1 DEF Live, Exists
  <2>3. Absent.usage.status = "RESERVED"
    BY DEF Absent, NewDocument
  <2>4. ChargeHolds'
    <3>1. \A h \in Holders : copy'[h].usage = copy[h].usage \/ copy'[h] = Absent
      BY <2>1 DEF Holders
    <3>2. \A h \in Holders : Honest(ledger', copy'[h].usage)
      BY <1>1, <2>1, <2>3, <3>1 DEF ChargeHolds, Honest
    <3>3. \A q \in Requests : rpc[q] # "save"
      BY <1>idle, <2>1
    <3>. QED BY <1>1, <2>1, <3>2, <3>3 DEF ChargeHolds, AllFree, Free
  <2>5. NoneBegun' /\ OneLive' /\ QueuedHolds'
    BY <1>1, <2>1, <2>2 DEF NoneBegun, OneLive, NoneLive, QueuedHolds, RequestHolds
  <2>6. \A q \in Requests : RequestHolds(q)'
    BY <1>idle, <2>1 DEF RequestHolds, Withdrawing
  <2>7. \A g \in Generations : WorkerHolds(g)'
    BY <2>1, RequestFrame DEF Free
  <2>. QED BY <2>4, <2>5, <2>6, <2>7 DEF AllowanceParts
<1>5. CASE Create(r)
  <2>1. /\ doc.status = "NONE" /\ doc' = NewDocument /\ report' = report /\ job' = job /\ wpc' = wpc
        /\ ledger' = [ledger EXCEPT ![0] = "RESERVED"]
        /\ rpc'[r] = "enqueue" /\ op'[r] = "create" /\ copy'[r] = NewDocument /\ base'[r] = NewDocument
        /\ Others
    BY <1>2, <1>types, <1>5, HoldersApart DEF Create, queue, Holders
  <2>2. /\ NewDocument.status = "QUEUED" /\ NewDocument.usage.status = "RESERVED"
        /\ NewDocument.usage.attempt = 0 /\ NewDocument.retryCount = 0 /\ 0 \in Generations
    BY VerificationAssumption DEF NewDocument, Generations
  <2>3. NoneLive /\ \A g \in Generations : ~Exists(g) /\ ledger[g] = "NONE"
    BY <1>1, <2>1 DEF NoneBegun, OneLive
  <2>4. NoneLive' /\ \A g \in Generations : ~Exists(g)'
    BY <2>1, <2>3 DEF NoneLive, Live, Exists
  <2>5. \A q \in Requests : q # r => rpc'[q] = "idle" /\ op'[q] = "none" /\ RequestHolds(q)'
    BY <1>idle, <2>1
  <2>6. ChargeHolds'
    <3>1. \A h \in Holders : copy'[h].usage = copy[h].usage \/ copy'[h] = NewDocument
      BY <2>1 DEF Holders
    <3>2. \A h \in Holders : Honest(ledger', copy'[h].usage)
      <4>1. ASSUME NEW h \in Holders PROVE Honest(ledger', copy[h].usage)
        <5>1. copy[h].usage \in Usage
          BY <1>types, DocumentFields
        <5>2. Honest(ledger, copy[h].usage)
          BY <1>1 DEF ChargeHolds
        <5>. QED BY <1>types, <2>1, <2>3, <5>1, <5>2 DEF Honest, Usage
      <4>. QED BY <2>2, <3>1, <4>1 DEF Honest
    <3>3. \A g \in Generations : Free(g)' \/ g = 0
      BY <1>types, <2>1, <2>3 DEF Free
    <3>. QED BY <2>1, <2>2, <3>2, <3>3 DEF ChargeHolds, Honest
  <2>7. NoneBegun' /\ OneLive' /\ QueuedHolds'
    BY <2>1, <2>2, <2>4 DEF NoneBegun, OneLive, NoneLive, QueuedHolds
  <2>8. RequestHolds(r)'
    BY <2>1, <2>2, <2>4 DEF RequestHolds, Withdrawing
  <2>9. \A g \in Generations : WorkerHolds(g)'
    BY <2>1, <2>3, RequestFrame
  <2>. QED BY <2>5, <2>6, <2>7, <2>8, <2>9 DEF AllowanceParts
<1>6. CASE Reserve(r)
  <2>1. PICK a \in Generations : a = copy[r].retryCount + 1
    BY <1>2, <1>6, VerificationAssumption DEF Reserve, Room, Generations
  <2>2. /\ doc' = doc /\ report' = report /\ job' = job /\ wpc' = wpc /\ base' = base
        /\ rpc[r] = "reserve" /\ rpc'[r] = "save" /\ op' = op
        /\ ledger' = [ledger EXCEPT ![a] = IF @ = "NONE" THEN "RESERVED" ELSE @]
        /\ copy'[r].status = "QUEUED" /\ copy'[r].retryCount = a
        /\ copy'[r].usage = [attempt |-> a, status |-> ledger'[a]]
        /\ \A h \in Holders : h # r => copy'[h] = copy[h]
    BY <1>2, <1>types, <1>6, <2>1 DEF Reserve, Go, queue, Document
  <2>3. Others
    BY <1>2, <1>types, <1>6, <2>2, HoldersApart DEF Reserve, Go, Holders
  <2>4. /\ base[r] = doc /\ NoneLive /\ copy[r] = doc /\ doc.status = "FAILED" /\ op[r] = "retry"
    BY <1>1, <2>2 DEF RequestHolds, Withdrawing
  <2>5. \A q \in Requests : q # r => rpc[q] = "idle" /\ rpc'[q] = "idle" /\ RequestHolds(q)'
    BY <1>idle, <2>2, <2>3
  <2>6. AllFree
    BY <1>1, <2>2, <2>4, <2>5 DEF ChargeHolds
  <2>7. /\ NoneLive' /\ \A g \in Generations : Exists(g)' = Exists(g)
    BY <2>2, <2>4 DEF NoneLive, Live, Exists
  <2>8. Grows /\ \A g \in Generations : Free(g)' \/ g = a
    BY <1>types, <2>2, <2>6 DEF Grows, AllFree, Free
  <2>9. ChargeHolds'
    <3>1. \A h \in Holders : Honest(ledger', copy'[h].usage)
      <4>1. ASSUME NEW h \in Holders, h # r PROVE Honest(ledger', copy'[h].usage)
        <5>1. copy[h].usage \in Usage /\ Honest(ledger, copy[h].usage)
          BY <1>1, <1>types, DocumentFields DEF ChargeHolds
        <5>. QED BY <2>2, <2>8, <4>1, <5>1, HonestStays
      <4>2. Honest(ledger', copy'[r].usage)
        BY <2>2 DEF Honest
      <4>. QED BY <4>1, <4>2
    <3>2. Honest(ledger', doc'.usage)
      BY <1>1, <1>2, <2>2, <2>8, HonestStays DEF ChargeHolds
    <3>. QED BY <2>2, <2>4, <3>1, <3>2 DEF ChargeHolds
  <2>10. NoneBegun' /\ OneLive' /\ QueuedHolds'
    BY <1>1, <2>2, <2>4, <2>7 DEF NoneBegun, OneLive, NoneLive, QueuedHolds
  <2>11. RequestHolds(r)'
    BY <2>1, <2>2, <2>4, <2>7, <2>8 DEF RequestHolds, Withdrawing
  <2>12. \A g \in Generations : WorkerHolds(g)'
    BY <2>2, <2>3, <2>4, RequestFrame
  <2>. QED BY <2>5, <2>9, <2>10, <2>11, <2>12 DEF AllowanceParts
<1>7. CASE SaveRequest(r)
  <2>1. /\ base[r] = doc /\ NoneLive /\ copy[r].status = "QUEUED"
        /\ copy[r].retryCount = doc.retryCount + 1 /\ ~Withdrawing(r)
        /\ \A g \in Generations : Free(g) \/ g = copy[r].usage.attempt
    BY <1>1, <1>7 DEF SaveRequest, RequestHolds, Withdrawing
  <2>2. Merge(copy[r], base[r], doc) = copy[r]
    BY <1>2, <2>1, MergedAlone
  <2>3. /\ doc' = copy[r] /\ ledger' = ledger /\ report' = report /\ job' = job /\ wpc' = wpc
        /\ copy' = copy /\ base'[r] = copy[r] /\ op' = op /\ rpc[r] = "save" /\ rpc'[r] = "enqueue"
    BY <1>2, <1>types, <1>7, <2>2 DEF SaveRequest, Save, SaveAs, Go, queue
  <2>4. Others
    BY <1>2, <1>types, <1>7, HoldersApart DEF SaveRequest, Save, SaveAs, Go, Holders
  <2>5. NoneLive' /\ \A g \in Generations : Exists(g)' = Exists(g)
    BY <2>1, <2>3 DEF NoneLive, Live, Exists
  <2>6. \A g \in Generations : Exists(g) => g <= copy[r].retryCount /\ g # copy[r].retryCount
    BY <1>1, <1>2, <2>1, VerificationAssumption DEF OneLive, Generations
  <2>7. ChargeHolds'
    BY <1>1, <1>2, <2>1, <2>3 DEF ChargeHolds, Free
  <2>8. NoneBegun' /\ OneLive' /\ QueuedHolds'
    BY <2>1, <2>3, <2>5, <2>6 DEF NoneBegun, OneLive, NoneLive, QueuedHolds
  <2>9. RequestHolds(r)'
    BY <1>1, <1>2, <2>1, <2>3, <2>5, <2>6 DEF RequestHolds, Withdrawing, AllFree, Free
  <2>10. \A g \in Generations : WorkerHolds(g)'
    BY <2>1, <2>3, <2>4, RequestFrame
  <2>. QED BY <1>idle, <2>3, <2>4, <2>7, <2>8, <2>9, <2>10 DEF AllowanceParts
<1>8. CASE Release(r)
  <2>1. /\ doc' = doc /\ report' = report /\ job' = job /\ wpc' = wpc /\ base' = base /\ op' = op
        /\ rpc[r] = "release" /\ rpc'[r] = "final" /\ \A q \in Requests : q # r => rpc'[q] = rpc[q]
    BY <1>2, <1>types, <1>8 DEF Release, ReleaseUsage, Change, Go, queue
  <2>2. \A q \in Requests : q # r => rpc[q] = "idle"
    BY <1>idle, <2>1
  <2>3. /\ copy[r].usage.attempt = doc.usage.attempt
        /\ \A g \in Generations : Free(g) \/ g = doc.usage.attempt
        /\ Honest(ledger, copy[r].usage)
    BY <1>1, <1>2, <2>1, <2>2 DEF RequestHolds, ChargeHolds
  <2>. DEFINE t == doc.usage.attempt
  <2>4. /\ AllFree' /\ Grows
        /\ copy'[r].status = copy[r].status /\ copy'[r].retryCount = copy[r].retryCount
        /\ copy'[r].usage.attempt = t /\ Honest(ledger', copy'[r].usage)
        /\ \A h \in Holders : h # r => copy'[h] = copy[h]
    <3>1. CASE copy[r].usage.status = "RELEASED" \/ ledger[t] = "NONE"
      <4>1. UNCHANGED <<doc, ledger, copy, base>>
        BY <1>8, <2>3, <3>1 DEF Release, ReleaseUsage
      <4>2. Free(t)
        BY <2>3, <3>1 DEF Honest, Free
      <4>. QED BY <2>3, <4>1, <4>2 DEF AllFree, Free, Grows
    <3>2. CASE ~(copy[r].usage.status = "RELEASED" \/ ledger[t] = "NONE")
      <4>1. /\ ledger' = [ledger EXCEPT ![t] = "RELEASED"]
            /\ copy' = [copy EXCEPT ![r] = [copy[r] EXCEPT !.usage.status = "RELEASED"]]
        BY <1>8, <2>3, <3>2 DEF Release, ReleaseUsage, Change
      <4>2. /\ copy'[r].status = copy[r].status /\ copy'[r].retryCount = copy[r].retryCount
            /\ copy'[r].usage.attempt = t /\ copy'[r].usage.status = "RELEASED"
        BY <1>2, <1>types, <2>3, <4>1 DEF Document, Usage
      <4>3. ledger'[t] = "RELEASED" /\ \A g \in Generations : g # t => ledger'[g] = ledger[g]
        BY <1>2, <1>types, <4>1
      <4>. QED BY <1>types, <2>3, <4>1, <4>2, <4>3 DEF AllFree, Free, Grows, Honest
    <3>. QED BY <3>1, <3>2
  <2>5. Others
    BY <1>2, <2>1, <2>4, HoldersApart DEF Holders
  <2>6. \A g \in Generations : Live(g)' = Live(g) /\ Exists(g)' = Exists(g)
    BY <2>1 DEF Live, Exists
  <2>7. ChargeHolds'
    <3>1. \A h \in Holders : Honest(ledger', copy'[h].usage)
      <4>1. ASSUME NEW h \in Holders, h # r PROVE Honest(ledger', copy'[h].usage)
        <5>1. copy[h].usage \in Usage /\ Honest(ledger, copy[h].usage)
          BY <1>1, <1>types, DocumentFields DEF ChargeHolds
        <5>. QED BY <2>4, <4>1, <5>1, HonestStays
      <4>. QED BY <2>4, <4>1
    <3>2. Honest(ledger', doc'.usage)
      BY <1>1, <1>2, <2>1, <2>4, HonestStays DEF ChargeHolds
    <3>. QED BY <2>4, <3>1, <3>2 DEF ChargeHolds, AllFree
  <2>8. NoneBegun' /\ OneLive' /\ QueuedHolds'
    BY <1>1, <2>1, <2>2, <2>6 DEF NoneBegun, OneLive, NoneLive, QueuedHolds
  <2>9. RequestHolds(r)'
    <3>1. Exists(doc.retryCount)' = Exists(doc.retryCount) /\ (NoneLive => NoneLive')
      BY <1>2, <2>1, <2>6 DEF NoneLive, Exists
    <3>. QED BY <1>1, <2>1, <2>3, <2>4, <3>1 DEF RequestHolds, Withdrawing
  <2>10. \A g \in Generations : WorkerHolds(g)'
    BY <2>1, <2>4, <2>5, RequestFrame DEF AllFree
  <2>. QED BY <1>idle, <2>1, <2>5, <2>7, <2>8, <2>9, <2>10 DEF AllowanceParts
<1>9. CASE SaveFinal(r)
  <2>1. /\ doc' = Merge(copy[r], base[r], doc) /\ ledger' = ledger /\ report' = report
        /\ job' = job /\ wpc' = wpc /\ rpc[r] = "final" /\ rpc'[r] = "idle" /\ op'[r] = "none"
        /\ copy'[r] = Absent
    BY <1>2, <1>types, <1>9 DEF SaveFinal, Respond, Forget, queue
  <2>2. Others
    BY <1>2, <1>types, <1>9, HoldersApart DEF SaveFinal, Respond, Forget, Holders
  <2>3. \A q \in Requests : q # r => rpc[q] = "idle" /\ rpc'[q] = "idle" /\ RequestHolds(q)'
    BY <1>idle, <2>1, <2>2
  <2>4. /\ base[r].usage.attempt = doc.usage.attempt /\ copy[r].usage.attempt = doc.usage.attempt
        /\ copy[r].status # base[r].status
        /\ copy[r].status \in {"FAILED", "CANCELLED"} => AllFree
    BY <1>1, <2>1 DEF RequestHolds
  <2>5. /\ doc'.status = copy[r].status
        /\ doc'.usage.attempt = doc.usage.attempt /\ Honest(ledger', doc'.usage)
    BY <1>1, <1>2, <2>1, <2>4, Merged, MergedUsage DEF ChargeHolds
  <2>6. \A g \in Generations : Live(g)' = Live(g) /\ Exists(g)' = Exists(g)
    BY <2>1 DEF Live, Exists
  <2>7. /\ copy[r].status \in {"CANCELLED", "DELETED", "FAILED"}
        /\ copy[r].status = "FAILED" => NoneLive
        /\ \A g \in Generations : Exists(g) => g <= doc'.retryCount
    <3>1. CASE Withdrawing(r)
      <4>1. copy[r].status \in {"CANCELLED", "DELETED"} /\ copy[r].retryCount = base[r].retryCount
        BY <1>1, <2>1, <3>1 DEF RequestHolds
      <4>2. doc'.retryCount = doc.retryCount
        BY <1>2, <2>1, <4>1, Merged
      <4>. QED BY <1>1, <4>1, <4>2 DEF OneLive
    <3>2. CASE ~Withdrawing(r)
      <4>1. /\ base[r] = doc /\ NoneLive /\ copy[r].status = "FAILED" /\ ~Exists(doc.retryCount)
            /\ copy[r].retryCount \in {doc.retryCount, doc.retryCount - 1}
        BY <1>1, <2>1, <3>2 DEF RequestHolds
      <4>2. doc' = copy[r]
        BY <1>2, <2>1, <4>1, MergedAlone
      <4>3. \A g \in Generations : Exists(g) => g <= doc.retryCount /\ g # doc.retryCount
        BY <1>1, <4>1 DEF OneLive
      <4>. QED BY <1>2, <4>1, <4>2, <4>3, VerificationAssumption DEF Generations
    <3>. QED BY <3>1, <3>2
  <2>8. ChargeHolds'
    <3>0. Absent.usage.status = "RESERVED"
      BY DEF Absent, NewDocument
    <3>1. \A h \in Holders : Honest(ledger', copy'[h].usage)
      <4>1. \A h \in Holders : copy'[h].usage = copy[h].usage \/ copy'[h] = Absent
        BY <2>1, <2>2 DEF Holders
      <4>. QED BY <1>1, <2>1, <3>0, <4>1 DEF ChargeHolds, Honest
    <3>2. \A q \in Requests : rpc[q] # "save"
      BY <2>1, <2>3
    <3>. QED BY <1>1, <2>1, <2>4, <2>5, <3>1, <3>2 DEF ChargeHolds, AllFree, Free
  <2>9. NoneBegun' /\ OneLive' /\ QueuedHolds'
    BY <1>1, <2>5, <2>6, <2>7 DEF NoneBegun, OneLive, NoneLive, QueuedHolds
  <2>10. RequestHolds(r)'
    BY <2>1 DEF RequestHolds, Withdrawing
  <2>11. \A g \in Generations : WorkerHolds(g)'
    BY <2>1, <2>2, <2>5, RequestFrame DEF Free
  <2>. QED BY <2>3, <2>8, <2>9, <2>10, <2>11 DEF AllowanceParts
<1>10. CASE Enqueue(r)
  <2>1. PICK n \in Generations : n = doc.retryCount
    BY <1>2
  <2>2. /\ copy[r] = doc /\ doc.status = "QUEUED" /\ ~Exists(n) /\ NoneLive
    BY <1>1, <1>10, <2>1 DEF Enqueue, RequestHolds
  <2>3. /\ doc' = doc /\ ledger' = ledger /\ report' = report /\ wpc' = wpc
        /\ job' = [job EXCEPT ![n] = "waiting"]
        /\ rpc[r] = "enqueue" /\ rpc'[r] = "idle" /\ op'[r] = "none" /\ copy'[r] = Absent
    BY <1>2, <1>types, <1>10, <2>1, <2>2 DEF Enqueue, AddJob, Exists, Respond, Forget, store
  <2>4. Others
    BY <1>2, <1>types, <1>10, HoldersApart DEF Enqueue, Respond, Forget, Holders
  <2>5. \A q \in Requests : q # r => rpc[q] = "idle" /\ rpc'[q] = "idle" /\ RequestHolds(q)'
    BY <1>idle, <2>3, <2>4
  <2>6. /\ Live(n)' /\ \A g \in Generations : Live(g)' => g = n
        /\ \A g \in Generations : Exists(g)' => Exists(g) \/ g = n
    BY <1>types, <2>2, <2>3 DEF Live, Exists, NoneLive
  <2>7. ChargeHolds'
    <3>0. Absent.usage.status = "RESERVED"
      BY DEF Absent, NewDocument
    <3>1. \A h \in Holders : copy'[h].usage = copy[h].usage \/ copy'[h] = Absent
      BY <2>3, <2>4 DEF Holders
    <3>2. \A h \in Holders : Honest(ledger', copy'[h].usage)
      BY <1>1, <2>3, <3>0, <3>1 DEF ChargeHolds, Honest
    <3>3. \A q \in Requests : rpc[q] # "save"
      BY <2>3, <2>5
    <3>. QED BY <1>1, <2>3, <3>2, <3>3 DEF ChargeHolds, AllFree, Free
  <2>8. OneLive'
    <3>1. n <= n
      BY VerificationAssumption DEF Generations
    <3>. QED BY <1>1, <2>1, <2>2, <2>3, <2>6, <3>1 DEF OneLive, NoneLive
  <2>9. NoneBegun' /\ QueuedHolds'
    BY <2>2, <2>3, <2>6 DEF NoneBegun, QueuedHolds
  <2>10. RequestHolds(r)'
    BY <2>3 DEF RequestHolds, Withdrawing
  <2>11. \A g \in Generations : WorkerHolds(g)'
    BY <2>2, <2>3, <2>4, RequestFrame
  <2>. QED BY <2>5, <2>7, <2>8, <2>9, <2>10, <2>11 DEF AllowanceParts
<1>11. CASE EnqueueFails(r)
  <2>1. /\ rpc[r] = "enqueue" /\ job' = job /\ Recovery(r) /\ UNCHANGED <<store, failures, stalls, wpc>>
    BY <1>11, Soils DEF EnqueueFails
  <2>2. /\ base[r] = doc /\ copy[r] = doc /\ doc.status = "QUEUED" /\ ~Exists(doc.retryCount)
        /\ NoneLive /\ ~Withdrawing(r)
    BY <1>1, <2>1 DEF RequestHolds
  <2>3. /\ doc' = doc /\ ledger' = ledger /\ report' = report /\ wpc' = wpc
    BY <2>1 DEF store
  <2>4. NoneLive' /\ \A g \in Generations : Exists(g)' = Exists(g)
    BY <2>1, <2>2, <2>3 DEF NoneLive, Live, Exists
  <2>4a. Exists(doc.retryCount)' = Exists(doc.retryCount)
    BY <2>1, <2>3 DEF Exists
  \* It goes on, to mark the verification as failed.
  <2>5. CASE op[r] \in {"create", "retry", "adminRetry"}
    <3>1. PICK p \in {"release", "final"}, c \in Document :
            /\ rpc' = [rpc EXCEPT ![r] = p] /\ op' = op /\ base' = base
            /\ copy' = [copy EXCEPT ![r] = c]
            /\ c.status = "FAILED" /\ c.usage = doc.usage
            /\ c.retryCount \in {doc.retryCount, doc.retryCount - 1}
            /\ p = "final" => op[r] = "adminRetry"
      <4>1. CASE op[r] \in {"create", "retry"}
        <5>. DEFINE c == [copy[r] EXCEPT !.status = "FAILED", !.failureCode = "OTHER"]
        <5>1. c \in Document /\ c.status = "FAILED" /\ c.usage = doc.usage /\ c.retryCount = doc.retryCount
          BY <1>2, <2>2 DEF Document, Statuses
        <5>2. copy' = [copy EXCEPT ![r] = c]
          BY <1>2, <1>types, <2>1, <4>1 DEF Recovery
        <5>3. rpc' = [rpc EXCEPT ![r] = "release"] /\ op' = op /\ base' = base
          BY <2>1, <4>1 DEF Recovery, Go
        <5>. QED BY <5>1, <5>2, <5>3
      <4>2. CASE op[r] = "adminRetry"
        <5>. DEFINE c == Restored(copy[r])
        <5>0. copy[r].retryCount - 1 \in Generations
          BY <1>2, <2>1, <4>2, VerificationAssumption DEF Room, Generations
        <5>1. c \in Document /\ c.status = "FAILED" /\ c.usage = doc.usage /\ c.retryCount = doc.retryCount - 1
          BY <1>2, <2>2, <5>0 DEF Restored, Document, Statuses
        <5>2. copy' = [copy EXCEPT ![r] = c] /\ rpc' = [rpc EXCEPT ![r] = "final"] /\ op' = op /\ base' = base
          BY <2>1, <4>2 DEF Recovery, Go
        <5>. QED BY <4>2, <5>1, <5>2
      <4>. QED BY <2>5, <4>1, <4>2
    <3>2. /\ rpc'[r] = p /\ op'[r] = op[r] /\ copy'[r] = c /\ base'[r] = doc /\ Others
      BY <1>2, <1>types, <2>2, <3>1, HoldersApart DEF Holders
    <3>3. \A q \in Requests : q # r => rpc[q] = "idle" /\ rpc'[q] = "idle" /\ RequestHolds(q)'
      BY <1>idle, <2>1, <3>2
    <3>4. ChargeHolds'
      <4>1. \A h \in Holders : copy'[h].usage = copy[h].usage
        BY <2>2, <3>1, <3>2 DEF Holders
      <4>2. \A q \in Requests : rpc[q] # "save"
        BY <2>1, <3>3
      <4>. QED BY <1>1, <2>2, <2>3, <4>1, <4>2 DEF ChargeHolds, Free
    <3>5. NoneBegun' /\ OneLive' /\ QueuedHolds'
      BY <1>1, <2>2, <2>3, <2>4, <3>2 DEF NoneBegun, OneLive, NoneLive, QueuedHolds
    <3>6. RequestHolds(r)'
      <4>1. Withdrawing(r)' = FALSE /\ op[r] # "reprocess"
        BY <2>2, <2>5, <3>2 DEF Withdrawing
      <4>2. op[r] = "adminRetry" => AllFree'
        BY <1>1, <2>3 DEF RequestHolds, AllFree, Free
      <4>. QED BY <2>2, <2>3, <2>4, <2>4a, <2>5, <3>1, <3>2, <4>1, <4>2 DEF RequestHolds
    <3>7. \A g \in Generations : WorkerHolds(g)'
      BY <2>2, <2>3, <3>2, RequestFrame
    <3>. QED BY <3>3, <3>4, <3>5, <3>6, <3>7 DEF AllowanceParts
  <2>6. CASE op[r] = "reprocess"
    <3>1. /\ rpc'[r] = "idle" /\ op'[r] = "none" /\ copy'[r] = Absent
      BY <1>2, <1>types, <2>1, <2>6 DEF Recovery, Respond, Forget
    <3>2. Others
      BY <1>2, <1>types, <2>1, <2>6, HoldersApart DEF Recovery, Respond, Forget, Holders
    <3>3. \A q \in Requests : q # r => rpc[q] = "idle" /\ rpc'[q] = "idle" /\ RequestHolds(q)'
      BY <1>idle, <2>1, <3>2
    <3>4. ChargeHolds'
      <4>0. Absent.usage.status = "RESERVED"
        BY DEF Absent, NewDocument
      <4>1. \A h \in Holders : copy'[h].usage = copy[h].usage \/ copy'[h] = Absent
        BY <3>1, <3>2 DEF Holders
      <4>2. \A q \in Requests : rpc[q] # "save"
        BY <2>1, <3>3
      <4>3. \A h \in Holders : Honest(ledger', copy'[h].usage)
        BY <1>1, <2>3, <4>0, <4>1 DEF ChargeHolds, Honest
      <4>. QED BY <1>1, <2>2, <2>3, <4>2, <4>3 DEF ChargeHolds, Free
    <3>5. NoneBegun' /\ OneLive' /\ QueuedHolds'
      BY <1>1, <2>2, <2>3, <2>4, <2>6 DEF NoneBegun, OneLive, NoneLive, QueuedHolds, RequestHolds
    <3>6. RequestHolds(r)'
      BY <3>1 DEF RequestHolds, Withdrawing
    <3>7. \A g \in Generations : WorkerHolds(g)'
      BY <2>2, <2>3, <3>2, RequestFrame
    <3>. QED BY <3>3, <3>4, <3>5, <3>6, <3>7 DEF AllowanceParts
  <2>. QED BY <2>1, <2>5, <2>6 DEF Recovery
<1>. QED BY <1>3, <1>4, <1>5, <1>6, <1>7, <1>8, <1>9, <1>10, <1>11 DEF RequestStep


-----------------------------------------------------------------------------
\* A worker saves, and goes on, or is done with the verification.
LEMMA WorkerSaves ==
  ASSUME TypeOK, Room, AllowanceParts, NEW g \in Generations, NEW p, NEW c \in Document, NEW d \in Document,
         c.status = copy[g].status, c.retryCount = copy[g].retryCount, c.usage = copy[g].usage,
         d.status = copy[g].status, d.retryCount = copy[g].retryCount, d.usage = copy[g].usage,
         doc' = Merge(c, base[g], doc), copy' = [copy EXCEPT ![g] = d], base' = [base EXCEPT ![g] = c],
         ledger' = ledger, report' = report, rpc' = rpc, op' = op,
         job' = job, wpc' = [wpc EXCEPT ![g] = p],
         \/ /\ wpc[g] \in {"begin", "extracting", "extract", "consumed", "analyse"}
            /\ p \in {"extracting", "extract", "consume", "analyse", "synthesize"}
         \/ wpc[g] = "complete" /\ p = "announce"
         \/ wpc[g] = "failed" /\ p = "announceFailure"
  PROVE  AllowanceParts'
<1>1. /\ NoneBegun /\ OneLive /\ ChargeHolds /\ WorkerHolds(g)
  BY DEF AllowanceParts
<1>2. /\ doc \in Document /\ copy[g] \in Document /\ base[g] \in Document /\ doc.usage \in Usage
      /\ doc' \in Document /\ g \in Holders
  BY MergeType, DocumentFields DEF TypeOK, Holders
<1>3. Working(g) /\ Live(g) /\ Exists(g)
  BY DEF Working, Live, WorkerPoints, Room, Exists
<1>4. /\ copy'[g] = d /\ base'[g] = c /\ wpc'[g] = p
      /\ \A h \in Generations : h # g =>
            job'[h] = job[h] /\ wpc'[h] = wpc[h] /\ copy'[h] = copy[h] /\ base'[h] = base[h]
      /\ \A r \in Requests : copy'[r] = copy[r] /\ base'[r] = base[r]
  BY <1>2, HoldersApart DEF TypeOK, Holders
<1>5. /\ base[g].usage.attempt = doc.usage.attempt /\ copy[g].usage.attempt = doc.usage.attempt
      /\ copy[g].retryCount = base[g].retryCount /\ Honest(ledger, copy[g].usage)
      /\ doc.status \notin {"NONE", "FAILED", "COMPLETED"}
  BY <1>1, <1>2, <1>3 DEF WorkerHolds, ChargeHolds, OneLive, NoneLive
<1>6. /\ doc'.usage.attempt = doc.usage.attempt /\ Honest(ledger', doc'.usage)
      /\ doc'.retryCount = doc.retryCount
      /\ doc'.status = IF copy[g].status # base[g].status THEN copy[g].status ELSE doc.status
  <2>1. Honest(ledger, doc.usage)
    BY <1>1, <1>5 DEF ChargeHolds
  <2>2. Honest(ledger, c.usage) /\ c.usage.attempt = doc.usage.attempt
    BY <1>5
  <2>3. doc'.usage.attempt = doc.usage.attempt /\ Honest(ledger, doc'.usage)
    BY <2>1, <2>2, <1>2, <1>5, MergedUsage
  <2>4. doc'.retryCount = doc.retryCount
    BY SMTT(60), <1>2, <1>5, Merged
  <2>5. doc'.status = IF copy[g].status # base[g].status THEN copy[g].status ELSE doc.status
    BY <1>2, Merged
  <2> QED
    BY <2>3, <2>4, <2>5
<1>7. Honest(ledger', copy'[g].usage) /\ Grows /\ \A x \in Generations : Free(x) => Free(x)'
  BY <1>4, <1>5 DEF Grows, Free
<1>8. \A h \in Generations : Exists(h)' = Exists(h)
  BY DEF Exists
<1>9. CASE wpc[g] \in {"begin", "extracting", "extract", "consumed", "analyse"}
  <2>1. copy[g].status = "PROCESSING" /\ p \in {"extracting", "extract", "consume", "analyse", "synthesize"}
    BY <1>1, <1>3, <1>9 DEF WorkerHolds
  <2>2. Live(g)'
    BY <1>4, <2>1 DEF Live, WorkerPoints
  <2>3. WorkerHolds(g)'
    BY <1>4, <1>5, <1>6, <2>1 DEF WorkerHolds
  <2>. QED BY <1>3, <1>4, <1>5, <1>6, <1>7, <1>8, <2>1, <2>2, <2>3, WorkerFrame
<1>10. CASE wpc[g] \in {"complete", "failed"}
  <2>1. /\ base[g].status = "PROCESSING"
        /\ copy[g].status = IF wpc[g] = "complete" THEN "COMPLETED" ELSE "FAILED"
        /\ wpc[g] = "failed" => AllFree
        /\ p \in {"announce", "announceFailure"} /\ job[g] = "active"
    BY <1>1, <1>3, <1>10 DEF WorkerHolds, Room
  <2>2. ~Live(g)' /\ WorkerHolds(g)'
    BY <1>4, <2>1 DEF Live, WorkerHolds, Working
  <2>3. AllFree => AllFree'
    BY DEF AllFree, Free
  <2>. QED BY <1>3, <1>4, <1>5, <1>6, <1>7, <1>8, <2>1, <2>2, <2>3, WorkerFrame
<1>. QED BY <1>9, <1>10

\* A worker does something else than save or pay.
LEMMA WorkerGoes ==
  ASSUME TypeOK, TypeOK', Room, AllowanceParts, NEW g \in Generations, Exists(g), Exists(g)',
         doc' = doc, ledger' = ledger, report => report', rpc' = rpc, op' = op,
         \A h \in Generations : h # g => job'[h] = job[h] /\ wpc'[h] = wpc[h],
         \A h \in Holders : h # g => copy'[h] = copy[h] /\ base'[h] = base[h],
         Honest(ledger, copy'[g].usage), WorkerHolds(g)',
         Live(g)' => Live(g), doc.status = "QUEUED" => (Live(g) => Live(g)')
  PROVE  AllowanceParts'
<1>1. /\ NoneBegun /\ OneLive /\ ChargeHolds
  BY DEF AllowanceParts
<1>2. \A h \in Generations : Exists(h)' = Exists(h)
  BY DEF Exists
<1>3. doc.status # "NONE"
  BY <1>1 DEF NoneBegun
<1>4. /\ Grows /\ Honest(ledger', doc'.usage) /\ Honest(ledger', copy'[g].usage)
      /\ \A x \in Generations : Free(x) => Free(x)'
  BY <1>1 DEF Grows, Free, ChargeHolds
<1>5. /\ \A h \in Generations : h # g =>
            job'[h] = job[h] /\ wpc'[h] = wpc[h] /\ copy'[h] = copy[h] /\ base'[h] = base[h]
      /\ \A r \in Requests : copy'[r] = copy[r] /\ base'[r] = base[r]
  BY HoldersApart DEF Holders
<1>6. Live(g) \/ ~Live(g)'
  OBVIOUS
<1>. QED BY <1>2, <1>3, <1>4, <1>5, <1>6, WorkerFrame

\* A worker takes the charge or gives it back.
LEMMA WorkerPays ==
  ASSUME TypeOK, Room, AllowanceParts, NEW g \in Generations,
         \/ Consume(g) \/ Refund(g)
  PROVE  AllowanceParts'
<1>1. /\ NoneBegun /\ OneLive /\ ChargeHolds /\ WorkerHolds(g)
      /\ \A r \in Requests : RequestHolds(r)
  BY DEF AllowanceParts
<1>2. /\ doc \in Document /\ copy[g] \in Document /\ doc.usage \in Usage /\ copy[g].usage \in Usage
      /\ g \in Holders /\ doc.usage.attempt \in Generations
  BY DocumentFields DEF TypeOK, Holders, Usage
<1>3. /\ wpc[g] \in {"consume", "refund"} /\ doc' = doc /\ report' = report /\ rpc' = rpc /\ op' = op
      /\ job' = job /\ wpc' = [wpc EXCEPT ![g] = IF wpc[g] = "consume" THEN "consumed" ELSE "failed"]
      /\ IF wpc[g] = "consume" THEN ConsumeUsage(g) ELSE ReleaseUsage(g)
  BY DEF Consume, Refund, Refunded, ConsumeUsage, ReleaseUsage, Change, At, WGo, queue, request
<1>4. Working(g) /\ Live(g) /\ Exists(g) /\ Live(g)'
  BY <1>3 DEF Working, Live, WorkerPoints, Room, Exists, TypeOK
<1>5. /\ base[g].usage.attempt = doc.usage.attempt /\ copy[g].usage.attempt = doc.usage.attempt
      /\ copy[g].retryCount = base[g].retryCount /\ Honest(ledger, copy[g].usage)
      /\ base[g].status = "PROCESSING"
      /\ copy[g].status = IF wpc[g] = "consume" THEN "PROCESSING" ELSE "FAILED"
      /\ doc.status \notin {"NONE", "FAILED", "COMPLETED"}
  BY <1>1, <1>2, <1>3, <1>4 DEF WorkerHolds, ChargeHolds, OneLive, NoneLive
<1>6. \A x \in Generations : Free(x) \/ x = doc.usage.attempt
  <2>1. ASSUME NEW r \in Requests PROVE rpc[r] # "save"
    BY <1>1, <1>4 DEF RequestHolds, NoneLive
  <2>. QED BY <1>1, <2>1 DEF ChargeHolds
<1>. DEFINE t == doc.usage.attempt
<1>7. /\ Grows /\ \A x \in Generations : Free(x) => Free(x)'
      /\ wpc[g] = "refund" => AllFree'
      /\ copy'[g].status = copy[g].status /\ copy'[g].retryCount = copy[g].retryCount
      /\ copy'[g].usage.attempt = t /\ Honest(ledger', copy'[g].usage)
      /\ base' = base /\ \A h \in Holders : h # g => copy'[h] = copy[h]
  <2>1. CASE UNCHANGED <<doc, ledger, copy, base>>
             /\ (wpc[g] = "refund" => copy[g].usage.status = "RELEASED" \/ ledger[t] = "NONE")
    <3>1. wpc[g] = "refund" => Free(t)
      BY <1>5, <2>1 DEF Honest, Free
    <3>. QED BY <1>5, <1>6, <2>1, <3>1 DEF Grows, AllFree, Free
  <2>2. CASE \E s \in {"RESERVED", "USED", "RELEASED"} :
               /\ ledger' = [ledger EXCEPT ![t] = s]
               /\ Change(g, [copy[g] EXCEPT !.usage.status = s])
               /\ s \in {"RELEASED", Taken(ledger[t])}
               /\ wpc[g] = "refund" => s = "RELEASED"
               /\ ledger[t] # "NONE"
    <3>1. PICK s \in {"RESERVED", "USED", "RELEASED"} :
               /\ ledger' = [ledger EXCEPT ![t] = s]
               /\ Change(g, [copy[g] EXCEPT !.usage.status = s])
               /\ s \in {"RELEASED", Taken(ledger[t])}
               /\ wpc[g] = "refund" => s = "RELEASED"
               /\ ledger[t] # "NONE"
      BY <2>2
    <3>2. /\ copy'[g].status = copy[g].status /\ copy'[g].retryCount = copy[g].retryCount
          /\ copy'[g].usage.attempt = t /\ copy'[g].usage.status = s
          /\ base' = base /\ \A h \in Holders : h # g => copy'[h] = copy[h]
      BY <1>2, <1>5, <3>1 DEF Change, Document, Usage, TypeOK
    <3>3. ledger'[t] = s /\ \A x \in Generations : x # t => ledger'[x] = ledger[x]
      BY <1>2, <3>1 DEF TypeOK
    <3>4. Grows /\ \A x \in Generations : Free(x) => Free(x)'
      BY <1>2, <3>1, <3>3 DEF Grows, Free, Taken, TypeOK
    <3>5. wpc[g] = "refund" => AllFree'
      BY <1>6, <3>1, <3>3 DEF AllFree, Free
    <3>6. Honest(ledger', copy'[g].usage)
      BY <3>2, <3>3 DEF Honest
    <3>. QED BY <3>2, <3>4, <3>5, <3>6
  <2>3. CASE wpc[g] = "refund"
    BY <1>3, <1>5, <2>1, <2>2, <2>3 DEF ReleaseUsage
  <2>4. CASE wpc[g] = "consume"
    <3>1. CASE copy[g].usage.status # "RESERVED" \/ ledger[t] = "NONE"
      BY <1>3, <1>5, <2>1, <2>4, <3>1 DEF ConsumeUsage
    <3>2. CASE ~(copy[g].usage.status # "RESERVED" \/ ledger[t] = "NONE")
      <4>1. /\ ledger' = [ledger EXCEPT ![t] = Taken(@)]
            /\ Change(g, [copy[g] EXCEPT !.usage.status = ledger'[t]])
        BY <1>3, <1>5, <2>4, <3>2 DEF ConsumeUsage
      <4>2. ledger'[t] = Taken(ledger[t]) /\ Taken(ledger[t]) \in {"RESERVED", "USED", "RELEASED"}
        BY <1>2, <3>2, <4>1 DEF Taken, TypeOK
      <4>. QED BY <2>2, <2>4, <3>2, <4>1, <4>2
    <3>. QED BY <3>1, <3>2
  <2>. QED BY <1>3, <2>3, <2>4
<1>8. WorkerHolds(g)'
  BY <1>3, <1>5, <1>7 DEF WorkerHolds, TypeOK
<1>9. Honest(ledger', doc'.usage)
  BY <1>1, <1>2, <1>3, <1>7, HonestStays DEF ChargeHolds
<1>10. /\ \A h \in Generations : h # g =>
            job'[h] = job[h] /\ wpc'[h] = wpc[h] /\ copy'[h] = copy[h] /\ base'[h] = base[h]
       /\ \A r \in Requests : copy'[r] = copy[r] /\ base'[r] = base[r]
       /\ \A h \in Generations : Exists(h)' = Exists(h)
  BY <1>3, <1>7, HoldersApart DEF Holders, TypeOK, Exists
<1>. QED BY <1>3, <1>4, <1>5, <1>7, <1>8, <1>9, <1>10, WorkerFrame


LEMMA AllowanceWorker ==
  ASSUME TypeOK, TypeOK', Room, AllowanceParts, Clean', NEW g \in Generations,
         WorkerStep(g) \/ JobFails(g) \/ WorkerCrash(g)
  PROVE  AllowanceParts'
<1>1. /\ NoneBegun /\ OneLive /\ ChargeHolds /\ WorkerHolds(g)
  BY DEF AllowanceParts
<1>2. /\ doc \in Document /\ copy[g] \in Document /\ base[g] \in Document /\ g \in Holders
      /\ doc.usage \in Usage /\ wpc \in [Generations -> WorkerPoints]
      /\ job \in [Generations -> {"absent", "waiting", "active", "completed", "failed"}]
      /\ copy \in [Holders -> Document] /\ base \in [Holders -> Document]
  BY DocumentFields DEF TypeOK, Holders
<1>3. CASE JobFails(g) \/ WorkerCrash(g)
  BY <1>3, Soils DEF JobFails, WorkerCrash
<1>4. CASE Consume(g) \/ Refund(g)
  BY <1>4, WorkerPays
<1>saves. ASSUME NEW s \in Stages
          PROVE  LET c == [copy[g] EXCEPT !.stage = s]
                 IN c \in Document /\ c.status = copy[g].status /\ c.retryCount = copy[g].retryCount
                    /\ c.usage = copy[g].usage
  BY <1>2 DEF Document
<1>5. CASE SaveBegin(g)
  <2>. DEFINE d == [copy[g] EXCEPT !.stage = "CONTENT_EXTRACTION"]
  <2>1. d \in Document /\ d.status = copy[g].status /\ d.retryCount = copy[g].retryCount
        /\ d.usage = copy[g].usage
    BY <1>saves DEF Stages
  <2>2. /\ doc' = Merge(copy[g], base[g], doc) /\ copy' = [copy EXCEPT ![g] = d]
        /\ base' = [base EXCEPT ![g] = copy[g]]
        /\ ledger' = ledger /\ report' = report /\ rpc' = rpc /\ op' = op /\ job' = job
        /\ wpc[g] = "begin" /\ wpc' = [wpc EXCEPT ![g] = "extracting"]
    BY <1>5 DEF SaveBegin, SaveAs, At, WGo, queue, request
  <2>. HIDE DEF d
  <2>. QED BY <1>2, <2>1, <2>2, WorkerSaves
<1>6. CASE SaveExtracting(g) \/ SaveConsumed(g) \/ SaveCompleted(g) \/ SaveFailed(g)
  <2>1. /\ doc' = Merge(copy[g], base[g], doc) /\ copy' = [copy EXCEPT ![g] = copy[g]]
        /\ base' = [base EXCEPT ![g] = copy[g]]
        /\ ledger' = ledger /\ report' = report /\ rpc' = rpc /\ op' = op /\ job' = job
    BY <1>6 DEF SaveExtracting, SaveConsumed, SaveCompleted, SaveFailed, Save, SaveAs, queue, request
  <2>2. \/ wpc[g] = "extracting" /\ wpc' = [wpc EXCEPT ![g] = "extract"]
        \/ wpc[g] = "consumed" /\ wpc' = [wpc EXCEPT ![g] = "analyse"]
        \/ wpc[g] = "complete" /\ wpc' = [wpc EXCEPT ![g] = "announce"]
        \/ wpc[g] = "failed" /\ wpc' = [wpc EXCEPT ![g] = "announceFailure"]
    BY <1>6 DEF SaveExtracting, SaveConsumed, SaveCompleted, SaveFailed, At, WGo
  <2>. QED BY <1>2, <2>1, <2>2, WorkerSaves
<1>7. CASE Extract(g) \/ Analyse(g)
  <2>1. PICK s \in {"ANALYSIS", "REPORT_SYNTHESIS"} :
          /\ doc' = Merge([copy[g] EXCEPT !.stage = s], base[g], doc)
          /\ copy' = [copy EXCEPT ![g] = [copy[g] EXCEPT !.stage = s]]
          /\ base' = [base EXCEPT ![g] = [copy[g] EXCEPT !.stage = s]]
          /\ ledger' = ledger /\ report' = report /\ rpc' = rpc /\ op' = op /\ job' = job
          /\ \/ wpc[g] = "extract" /\ wpc' = [wpc EXCEPT ![g] = "consume"]
             \/ wpc[g] = "analyse" /\ wpc' = [wpc EXCEPT ![g] = "synthesize"]
    BY <1>7 DEF Extract, Analyse, At, WGo, queue, request
  <2>. DEFINE d == [copy[g] EXCEPT !.stage = s]
  <2>2. d \in Document /\ d.status = copy[g].status /\ d.retryCount = copy[g].retryCount
        /\ d.usage = copy[g].usage
    BY <1>saves DEF Stages
  <2>3. /\ doc' = Merge(d, base[g], doc) /\ copy' = [copy EXCEPT ![g] = d]
        /\ base' = [base EXCEPT ![g] = d]
    BY <2>1
  <2>. HIDE DEF d
  <2>4. PICK p \in {"consume", "synthesize"} :
          wpc[g] \in {"extract", "analyse"} /\ wpc' = [wpc EXCEPT ![g] = p]
    BY <2>1
  <2>. QED BY ZenonT(60), <2>1, <2>2, <2>3, <2>4, WorkerSaves
\* What no step of these touches.
<1>. DEFINE Others == /\ \A h \in Generations : h # g => job'[h] = job[h] /\ wpc'[h] = wpc[h]
                      /\ \A h \in Holders : h # g => copy'[h] = copy[h] /\ base'[h] = base[h]
            Same == doc' = doc /\ ledger' = ledger /\ rpc' = rpc /\ op' = op
<1>8. CASE TakeJob(g)
  <2>1. /\ Same /\ Others /\ report' = report /\ job[g] = "waiting" /\ job'[g] = "active"
        /\ wpc'[g] = "load" /\ copy' = copy
    BY <1>2, <1>8 DEF TakeJob, WGo, store, request
  <2>2. Live(g) /\ Live(g)' /\ Exists(g) /\ Exists(g)' /\ WorkerHolds(g)'
    BY <2>1 DEF Live, Exists, WorkerHolds, Working, WorkerPoints
  <2>. QED BY <1>1, <1>2, <2>1, <2>2, WorkerGoes DEF ChargeHolds
<1>9. CASE Skip(g) \/ AnnounceCompleted(g) \/ AnnounceFailed(g)
  <2>1. /\ Same /\ Others /\ report' = report /\ job'[g] = "completed" /\ wpc'[g] = "idle"
        /\ copy'[g] = Absent /\ wpc[g] \in {"load", "announce", "announceFailure"}
    BY <1>2, <1>9 DEF Skip, AnnounceCompleted, AnnounceFailed, Announce, Finish, Forget, WGo, At, store, request
  <2>2. wpc[g] = "load" => doc.status # "QUEUED"
    BY <1>9 DEF Skip, Skipped, AnnounceCompleted, AnnounceFailed, At
  <2>3. job[g] = "active" /\ Absent.usage.status = "RESERVED"
    BY <1>2, <2>1 DEF Room, Absent, NewDocument
  <2>4. /\ ~Live(g)' /\ Exists(g) /\ Exists(g)' /\ WorkerHolds(g)'
        /\ doc.status = "QUEUED" => ~Live(g)
    BY <2>1, <2>2, <2>3 DEF Live, Exists, WorkerHolds, Working
  <2>5. Honest(ledger, copy'[g].usage)
    BY <2>1, <2>3 DEF Honest
  <2>. QED BY <2>1, <2>4, <2>5, WorkerGoes
<1>10. CASE Load(g)
  <2>. DEFINE d == [doc EXCEPT !.status = "PROCESSING", !.stage = "INPUT_VALIDATION"]
  <2>1. d.status = "PROCESSING" /\ d.usage = doc.usage /\ d.retryCount = doc.retryCount
    BY <1>2 DEF Document
  <2>2. /\ Same /\ Others /\ report' = report /\ job' = job
        /\ wpc[g] = "load" /\ wpc'[g] = "begin" /\ copy'[g] = d /\ base'[g] = doc
    BY <1>2, <1>10 DEF Load, LoadAs, At, WGo, store, queue, request
  <2>. HIDE DEF d
  <2>3. job[g] = "active"
    BY <2>2 DEF Room
  <2>4. /\ Live(g) /\ Live(g)' /\ Exists(g) /\ Exists(g)' /\ WorkerHolds(g)'
        /\ Honest(ledger, copy'[g].usage)
    BY <1>1, <2>1, <2>2, <2>3 DEF Live, Exists, WorkerHolds, WorkerPoints, ChargeHolds
  <2>. QED BY <2>2, <2>4, WorkerGoes
<1>11. CASE Synthesize(g) \/ PipelineFails(g)
  <2>1. PICK d \in Document :
          /\ Same /\ (report => report')
          /\ job' = job /\ base' = base /\ copy' = [copy EXCEPT ![g] = d]
          /\ d.usage = copy[g].usage /\ d.retryCount = copy[g].retryCount
          /\ wpc[g] \in {"extract", "analyse", "synthesize"}
          /\ \/ wpc' = [wpc EXCEPT ![g] = "complete"] /\ d.status = "COMPLETED"
             \/ wpc' = [wpc EXCEPT ![g] = "refund"] /\ d.status = "FAILED"
    <3>1. CASE Synthesize(g)
      <4>. DEFINE d == [copy[g] EXCEPT !.status = "COMPLETED", !.stage = "COMPLETED"]
      <4>1. d \in Document /\ d.usage = copy[g].usage /\ d.retryCount = copy[g].retryCount
            /\ d.status = "COMPLETED"
        BY <1>2 DEF Document, Statuses, Stages
      <4>2. /\ Same /\ report' = TRUE /\ job' = job /\ base' = base /\ copy' = [copy EXCEPT ![g] = d]
            /\ wpc[g] = "synthesize" /\ wpc' = [wpc EXCEPT ![g] = "complete"]
        BY <3>1 DEF Synthesize, Validated, Change, At, WGo, queue, request
      <4>. QED BY <4>1, <4>2
    <3>2. CASE PipelineFails(g)
      <4>1. PICK code \in {"OTHER", "VALIDATION_ERROR"} :
              wpc[g] \in {"extract", "analyse", "synthesize"} /\ Catch(g, code)
        BY <3>2, Soils DEF PipelineFails, At
      <4>. DEFINE d == [copy[g] EXCEPT !.status = "FAILED", !.failureCode = code]
      <4>2. d \in Document /\ d.usage = copy[g].usage /\ d.retryCount = copy[g].retryCount
            /\ d.status = "FAILED"
        BY <1>2 DEF Document, Statuses
      <4>3. /\ Same /\ report' = report /\ job' = job /\ base' = base /\ copy' = [copy EXCEPT ![g] = d]
            /\ wpc' = [wpc EXCEPT ![g] = "refund"]
        BY <4>1 DEF Catch, Change, WGo, queue, request
      <4>. QED BY <4>1, <4>2, <4>3
    <3>. QED BY <1>11, <3>1, <3>2
  <2>2. /\ Others /\ copy'[g] = d /\ base'[g] = base[g] /\ job[g] = "active"
        /\ wpc'[g] = IF d.status = "COMPLETED" THEN "complete" ELSE "refund"
    BY <1>2, <2>1 DEF Room
  <2>3. Working(g) /\ Live(g) /\ Live(g)' /\ Exists(g) /\ Exists(g)'
    BY <2>1, <2>2 DEF Working, Live, Exists, WorkerPoints
  <2>4. /\ base[g].usage.attempt = doc.usage.attempt /\ copy[g].usage.attempt = doc.usage.attempt
        /\ copy[g].retryCount = base[g].retryCount /\ base[g].status = "PROCESSING"
        /\ Honest(ledger, copy[g].usage)
    BY <1>1, <1>2, <2>1, <2>3 DEF WorkerHolds, ChargeHolds
  <2>5. d.status = IF wpc'[g] = "complete" THEN "COMPLETED" ELSE "FAILED"
    BY <1>2, <2>1
  <2>6. WorkerHolds(g)'
    <3>1. wpc'[g] \in {"complete", "refund"} /\ copy'[g] = d /\ base'[g] = base[g] /\ doc' = doc
      BY <2>1, <2>2
    <3>. QED BY <2>1, <2>4, <2>5, <3>1 DEF WorkerHolds
  <2>7. Honest(ledger, copy'[g].usage) /\ Same /\ (report => report')
    BY <2>1, <2>2, <2>4
  <2>. HIDE DEF Others
  <2>8. /\ \A h \in Generations : h # g => job'[h] = job[h] /\ wpc'[h] = wpc[h]
        /\ \A h \in Holders : h # g => copy'[h] = copy[h] /\ base'[h] = base[h]
    BY <2>2 DEF Others
  <2>. QED BY <2>1, <2>3, <2>6, <2>7, <2>8, WorkerGoes
<1>. QED BY <1>3, <1>4, <1>5, <1>6, <1>7, <1>8, <1>9, <1>10, <1>11 DEF WorkerStep

-----------------------------------------------------------------------------
LEMMA AllowanceInitially == Init => AllowanceInv
<1>. SUFFICES ASSUME Init PROVE AllowanceParts
  BY DEF AllowanceInv
<1>1. Absent.status = "NONE" /\ Absent.usage.status = "RESERVED"
  BY DEF Absent, NewDocument
<1>2. \A g \in Generations : ~Live(g) /\ ~Exists(g) /\ ~Working(g) /\ Free(g)
  BY DEF Init, Live, Exists, Working, Free
<1>3. NoneBegun /\ OneLive /\ ChargeHolds /\ QueuedHolds
  BY <1>1, <1>2 DEF Init, NoneBegun, OneLive, NoneLive, ChargeHolds, QueuedHolds, Honest
<1>4. \A r \in Requests : RequestHolds(r)
  BY DEF Init, RequestHolds
<1>. QED BY <1>2, <1>3, <1>4 DEF AllowanceParts, WorkerHolds

LEMMA AllowanceStutters ==
  ASSUME AllowanceInv, UNCHANGED vars
  PROVE  AllowanceInv'
BY DEF AllowanceInv, Clean, AllowanceParts, NoneBegun, OneLive, NoneLive, ChargeHolds, QueuedHolds, RequestHolds,
       WorkerHolds, Working, AllFree, Free, Withdrawing, Live, Exists, vars, store, queue, request

LEMMA CleanBefore ==
  ASSUME Next, Clean'
  PROVE  Clean
<1>1. faults \subseteq faults'
  <2>1. ASSUME NEW r \in Requests,
               \/ Create(r) \/ Cancel(r) \/ Retry(r) \/ AdminRetry(r) \/ Reprocess(r) \/ Delete(r)
               \/ RequestStep(r) \/ Refused(r) \/ SaveFails(r) \/ EnqueueFails(r) \/ ApiCrash(r)
        PROVE  faults \subseteq faults'
    <3>1. CASE SaveFails(r) \/ EnqueueFails(r) \/ ApiCrash(r)
      BY <3>1 DEF SaveFails, EnqueueFails, ApiCrash, Fault
    <3>2. CASE Create(r) \/ Cancel(r) \/ Retry(r) \/ AdminRetry(r) \/ Reprocess(r) \/ Delete(r) \/ Refused(r)
      BY <3>2 DEF Create, Cancel, Retry, AdminRetry, Reprocess, Delete, Accept, Refused
    <3>3. CASE RequestStep(r)
      BY <3>3 DEF RequestStep, Reserve, Release, SaveRequest, SaveFinal, Unreserve, Enqueue
    <3>. QED BY <2>1, <3>1, <3>2, <3>3
  <2>2. ASSUME NEW g \in Generations, WorkerStep(g) \/ JobFails(g) \/ WorkerCrash(g)
        PROVE  faults \subseteq faults'
    <3>1. CASE JobFails(g) \/ WorkerCrash(g) \/ PipelineFails(g) \/ AnnounceCompleted(g) \/ AnnounceFailed(g)
      BY <3>1 DEF JobFails, WorkerCrash, PipelineFails, AnnounceCompleted, AnnounceFailed, Announce, Catch, Fault
    <3>2. CASE \/ TakeJob(g) \/ Skip(g) \/ Load(g) \/ SaveBegin(g) \/ SaveExtracting(g) \/ Extract(g)
               \/ Consume(g) \/ SaveConsumed(g) \/ Analyse(g) \/ Synthesize(g) \/ SaveCompleted(g)
               \/ Refund(g) \/ SaveFailed(g)
      BY <3>2 DEF TakeJob, Skip, Load, SaveBegin, SaveExtracting, Extract, Consume, SaveConsumed, Analyse,
                  Synthesize, SaveCompleted, Refund, SaveFailed
    <3>. QED BY <2>2, <3>1, <3>2 DEF WorkerStep
  <2>. QED BY <2>1, <2>2 DEF Next
<1>. QED BY <1>1 DEF Clean

LEMMA AllowanceInductive == Spec /\ []OneAtATime => [](IInv /\ AllowanceInv)
<1>1. IInv /\ IInv' /\ AllowanceInv /\ OneAtATime /\ OneAtATime' /\ [Next]_vars => AllowanceInv'
  <2>. SUFFICES ASSUME IInv, IInv', AllowanceInv, OneAtATime, OneAtATime', [Next]_vars
                PROVE  AllowanceInv'
    OBVIOUS
  <2>1. CASE UNCHANGED vars
    BY <2>1, AllowanceStutters
  <2>2. CASE Next /\ Clean'
    <3>1. TypeOK /\ TypeOK' /\ Room /\ CompletedHasReport /\ AllowanceParts
      BY <2>2, CleanBefore DEF IInv, AllowanceInv
    <3>2. ASSUME NEW r \in Requests,
                 \/ Create(r) \/ Cancel(r) \/ Retry(r) \/ AdminRetry(r) \/ Reprocess(r) \/ Delete(r)
                 \/ RequestStep(r) \/ Refused(r) \/ SaveFails(r) \/ EnqueueFails(r) \/ ApiCrash(r)
          PROVE  AllowanceParts'
      <4>1. CASE Cancel(r) \/ Delete(r) \/ Retry(r) \/ AdminRetry(r) \/ Reprocess(r)
        BY <3>1, <4>1, AllowanceBegins
      <4>2. CASE Create(r) \/ RequestStep(r) \/ Refused(r) \/ SaveFails(r) \/ EnqueueFails(r) \/ ApiCrash(r)
        BY <2>2, <3>1, <4>2, AllowanceRequest
      <4>. QED BY <3>2, <4>1, <4>2
    <3>3. ASSUME NEW g \in Generations, WorkerStep(g) \/ JobFails(g) \/ WorkerCrash(g)
          PROVE  AllowanceParts'
      BY <2>2, <3>1, <3>3, AllowanceWorker
    <3>. QED BY <2>2, <3>2, <3>3 DEF Next, AllowanceInv
  <2>3. CASE Next /\ ~Clean'
    BY <2>3 DEF AllowanceInv
  <2>. QED BY <2>1, <2>2, <2>3
<1>. QED BY <1>1, AllowanceInitially, Inductive, PTL DEF Spec

\* A failure or a cancellation costs nothing (content-processing.service.ts:331-385,
\* verification.service.ts:325-331) and what the owner is shown of the allowance is what
\* the ledger has, however jobs and the request under way interleave and whether or not
\* the queue refuses: for any number of retries and requests that do not overlap.
THEOREM AllowanceIsKept == Spec /\ []OneAtATime => []AllowanceIsHonest
<1>1. AllowanceInv => AllowanceIsHonest
  <2>. SUFFICES ASSUME AllowanceInv, Clean PROVE AllowanceIsHonest
    BY DEF AllowanceIsHonest, FailureIsFree, SnapshotIsHonest
  <2>1. ChargeHolds
    BY DEF AllowanceInv, AllowanceParts
  <2>. QED BY <2>1 DEF ChargeHolds, AllowanceIsHonest, FailureIsFree, SnapshotIsHonest, AtRest, AllFree, Free, Honest
<1>. QED BY <1>1, AllowanceInductive, PTL

\* At rest a QUEUED verification has a job, or a reprocessing was refused and it has its
\* report (verification.service.ts:374-387): no request leaves one behind that nobody takes up,
\* for any number of retries and requests that do not overlap.
THEOREM NobodyIsStranded == Spec /\ []OneAtATime => []NoneStranded
<1>1. AllowanceInv => NoneStranded
  <2>. SUFFICES ASSUME AllowanceInv, Clean, AtRest, doc.status = "QUEUED" PROVE report
    BY DEF NoneStranded
  <2>1. QueuedHolds
    BY DEF AllowanceInv, AllowanceParts
  <2>2. \A g \in Generations : ~Live(g)
    BY DEF AtRest, Live
  <2>. QED BY <2>1, <2>2 DEF QueuedHolds, AtRest
<1>. QED BY <1>1, AllowanceInductive, PTL

-----------------------------------------------------------------------------
(* The greatest of some positions.                                         *)

LEMMA GreatestExists ==
  ASSUME NEW n \in Nat, NEW S \in SUBSET (1..n), S # {}
  PROVE  \E x \in S : \A y \in S : y <= x
<1> DEFINE Less == OpToRel(<, Nat)
           below == {n - x : x \in S}
<1>1. below \in SUBSET Nat /\ below # {}
  <2>1. \A x \in S : n - x \in Nat
    <3> TAKE x \in S
    <3>1. x \in 1..n
      OBVIOUS
    <3> QED
      BY <3>1
  <2> QED
    BY <2>1
<1>2. PICK d \in below : \A e \in below : <<e, d>> \notin Less
  <2> HIDE DEF below
  <2> QED
    BY <1>1, NatLessThanWellFounded, WFMin
<1>3. PICK x \in S : d = n - x
  OBVIOUS
<1>4. ASSUME NEW y \in S PROVE y <= x
  <2>1. n - y \in Nat /\ d \in Nat /\ <<n - y, d>> \notin Less
    BY <1>1, <1>2
  <2>2. ~(n - y < d)
    BY <2>1 DEF OpToRel
  <2> QED
    BY <1>3, <2>2
<1> QED
  BY <1>4

-----------------------------------------------------------------------------
(* The owner shares a version.                                             *)

SharingSpec == SharingInit /\ [][SharingNext]_sharingVars

ReportStatuses == {"VALIDATING", "INVALID", "COMPLETE", "SUPERSEDED", "REVOKED", "DELETED"}
Visibilities == {"PRIVATE", "UNLISTED", "PUBLIC"}
Reports == [status : ReportStatuses, visibility : Visibilities, slug : Nat, revoked : BOOLEAN]

\* What a request or the investigation may point to.
Pointers == Nat \cup {NewestOf(vs) : vs \in SUBSET Nat}
Investigations == [status : {"COMPLETED", "PROCESSING", "FAILED", "DELETED"},
                   visibility : Visibilities, shown : Pointers]
OwnerRequests == [op : Ops, of : Nat, at : {"assert", "save", "latest", "point"},
                  copy : Reports, latest : Pointers]

-----------------------------------------------------------------------------
(* What a request writes.                                                  *)

\* A request that shares gives a slug where it read none and lifts the revocation it read.
LEMMA SharingWrites ==
  ASSUME NEW kind \in {"UNLISTED", "PUBLIC"}, NEW seen \in Reports, NEW kept \in Reports,
         issued \in Nat, NEW new, new = Modified(Edited(kind, seen), seen, kept)
  PROVE  /\ new \in Reports
         /\ new.slug = IF seen.slug = 0 THEN issued + 1 ELSE kept.slug
         /\ new.revoked = (kept.revoked /\ ~seen.revoked)
         /\ new.status = IF seen.status = "REVOKED" THEN "COMPLETE" ELSE kept.status
<1> DEFINE edited == Edited(kind, seen)
<1>1. edited = WithLink(kind, seen)
  BY DEF Edited
<1>2. /\ edited \in Reports /\ edited.visibility = kind /\ edited.revoked = FALSE
      /\ edited.slug = IF seen.slug = 0 THEN issued + 1 ELSE seen.slug
      /\ edited.status = IF seen.status = "REVOKED" THEN "COMPLETE" ELSE seen.status
  <2> DEFINE slug == IF seen.slug = 0 THEN issued + 1 ELSE seen.slug
             state == IF seen.status = "REVOKED" THEN "COMPLETE" ELSE seen.status
  <2>1. slug \in Nat /\ state \in ReportStatuses /\ kind \in Visibilities
    BY DEF Reports, ReportStatuses, Visibilities
  <2>2. edited = [seen EXCEPT !.visibility = kind, !.revoked = FALSE, !.slug = slug,
                              !.status = state]
    BY <1>1 DEF WithLink
  <2> HIDE DEF slug, state, edited
  <2>3. edited \in Reports /\ edited.visibility = kind /\ edited.revoked = FALSE
        /\ edited.slug = slug /\ edited.status = state
    BY <2>1, <2>2 DEF Reports
  <2> QED
    BY <2>3 DEF slug, state
<1> HIDE DEF edited
<1>3. new = [path \in DOMAIN kept |->
               IF edited[path] # seen[path] \/ (path = "revoked" /\ edited.revoked)
               THEN edited[path] ELSE kept[path]]
  BY DEF Modified, edited
<1>4. DOMAIN kept = {"status", "visibility", "slug", "revoked"}
  BY DEF Reports
<1>5. /\ new.status = IF edited.status # seen.status THEN edited.status ELSE kept.status
      /\ new.visibility = IF edited.visibility # seen.visibility THEN edited.visibility
                            ELSE kept.visibility
      /\ new.slug = IF edited.slug # seen.slug THEN edited.slug ELSE kept.slug
      /\ new.revoked = IF edited.revoked # seen.revoked \/ edited.revoked THEN edited.revoked
                         ELSE kept.revoked
  BY <1>3, <1>4
<1>6. new = [status |-> new.status, visibility |-> new.visibility, slug |-> new.slug,
             revoked |-> new.revoked]
  BY <1>3, <1>4
<1>7. new \in Reports
  BY <1>2, <1>5, <1>6 DEF Reports
<1> QED
  BY <1>2, <1>5, <1>7 DEF Reports

\* A request that withdraws always revokes, and removes the slug it read.
LEMMA WithdrawalWrites ==
  ASSUME NEW kind \in Withdrawals, NEW seen \in Reports, NEW kept \in Reports,
         NEW new, new = Modified(Edited(kind, seen), seen, kept)
  PROVE  /\ new \in Reports
         /\ new.slug = IF seen.slug # 0 THEN 0 ELSE kept.slug
         /\ new.revoked
         /\ kind = "PRIVATE" => new.status = kept.status
         /\ kind = "revoke" => new.status \in {"REVOKED", kept.status}
         /\ kind = "remove" => new.status \in {"DELETED", kept.status}
         /\ kind = "remove" /\ seen = kept => new.status = "DELETED"
<1> DEFINE edited == Edited(kind, seen)
<1>1. \E state \in ReportStatuses :
        /\ edited = WithoutLink(seen, state)
        /\ kind = "PRIVATE" => state = seen.status
        /\ kind = "revoke" => state = "REVOKED"
        /\ kind = "remove" => state = "DELETED"
  BY DEF Edited, Withdrawals, Reports, ReportStatuses
<1>2. /\ edited \in Reports /\ edited.visibility = "PRIVATE" /\ edited.revoked = TRUE
      /\ edited.slug = 0
      /\ kind = "PRIVATE" => edited.status = seen.status
      /\ kind = "revoke" => edited.status = "REVOKED"
      /\ kind = "remove" => edited.status = "DELETED"
  <2>1. PICK state \in ReportStatuses :
          /\ edited = WithoutLink(seen, state)
          /\ kind = "PRIVATE" => state = seen.status
          /\ kind = "revoke" => state = "REVOKED"
          /\ kind = "remove" => state = "DELETED"
    BY <1>1
  <2>2. "PRIVATE" \in Visibilities
    BY DEF Visibilities
  <2> HIDE DEF edited
  <2>3. edited \in Reports /\ edited.visibility = "PRIVATE" /\ edited.revoked = TRUE
        /\ edited.slug = 0 /\ edited.status = state
    BY <2>1, <2>2 DEF WithoutLink, Reports
  <2> QED
    BY <2>1, <2>3
<1> HIDE DEF edited
<1>3. new = [path \in DOMAIN kept |->
               IF edited[path] # seen[path] \/ (path = "revoked" /\ edited.revoked)
               THEN edited[path] ELSE kept[path]]
  BY DEF Modified, edited
<1>4. DOMAIN kept = {"status", "visibility", "slug", "revoked"}
  BY DEF Reports
<1>5. /\ new.status = IF edited.status # seen.status THEN edited.status ELSE kept.status
      /\ new.visibility = IF edited.visibility # seen.visibility THEN edited.visibility
                            ELSE kept.visibility
      /\ new.slug = IF edited.slug # seen.slug THEN edited.slug ELSE kept.slug
      /\ new.revoked = IF edited.revoked # seen.revoked \/ edited.revoked THEN edited.revoked
                         ELSE kept.revoked
  BY <1>3, <1>4
<1>6. new = [status |-> new.status, visibility |-> new.visibility, slug |-> new.slug,
             revoked |-> new.revoked]
  BY <1>3, <1>4
<1>7. new \in Reports
  BY <1>2, <1>5, <1>6 DEF Reports
<1> QED
  BY <1>2, <1>5, <1>7 DEF Reports, Withdrawals

-----------------------------------------------------------------------------
(* The invariant.                                                          *)

Versions == DOMAIN versions

TypesHold ==
  /\ versions \in Seq(Reports) /\ Len(versions) > 0
  /\ investigation \in Investigations
  /\ issued \in Nat
  /\ synthesis # "idle" => loaded \in Visibilities
  /\ asked \in [Owners -> OwnerRequests \cup {NoRequest}]
  /\ \A p \in Owners : Serving(p) => asked[p].of \in Versions

\* A slug belongs to one version for good, also in the copies that requests read of it,
\* and the slug a withdrawal read is nowhere kept.
SlugsHold ==
  /\ withdrawn \subseteq 1..issued
  /\ \A v \in Versions : versions[v].slug <= issued /\ versions[v].slug \notin withdrawn
  /\ \A v, w \in Versions : v # w /\ versions[v].slug # 0 => versions[v].slug # versions[w].slug
  /\ \A p \in Owners : Serving(p) =>
       /\ asked[p].copy.slug <= issued
       /\ \A w \in Versions \ {asked[p].of} :
            asked[p].copy.slug # 0 => versions[w].slug # asked[p].copy.slug

ShutIsRevoked == \A v \in shut : v \in Versions /\ versions[v].revoked

SharingInv == TypesHold /\ SlugsHold /\ ShutIsRevoked

LEMMA NoRequestIsNone == NoRequest \notin OwnerRequests /\ NoRequest.at = "free"
  BY DEF NoRequest, OwnerRequests, Ops

LEMMA WorkingIsRequest ==
  ASSUME TypesHold, NEW p \in Owners
  PROVE  /\ Serving(p) => asked[p] \in OwnerRequests
         /\ asked[p].at # "free" => Serving(p)
         /\ ~Serving(p) => asked[p] = NoRequest
  BY NoRequestIsNone DEF TypesHold, Serving

LEMMA VersionsAreReports ==
  ASSUME TypesHold
  PROVE  /\ Versions = 1..Len(versions) /\ Len(versions) \in Nat
         /\ \A v \in Versions : versions[v] \in Reports /\ v \in Nat
  BY DEF TypesHold, Versions

LEMMA SharingInitially == SharingInit => SharingInv
<1> SUFFICES ASSUME SharingInit PROVE SharingInv
  OBVIOUS
<1> DEFINE first == [status |-> "COMPLETE", visibility |-> IF issued = 0 THEN "PRIVATE" ELSE "PUBLIC",
                     slug |-> issued, revoked |-> FALSE]
<1>1. versions = <<first>> /\ issued = first.slug
  BY DEF SharingInit
<1>2. first \in Reports /\ first.slug \in {0, 1}
  BY DEF SharingInit, Reports, ReportStatuses, Visibilities
<1> HIDE DEF first
<1>3. versions \in Seq(Reports) /\ Len(versions) = 1 /\ Versions = {1} /\ versions[1] = first
  BY <1>1, <1>2 DEF Versions
<1>4. asked = [p \in Owners |-> NoRequest] /\ \A p \in Owners : ~Serving(p)
  BY DEF SharingInit, Serving
<1>5. investigation \in Investigations /\ synthesis = "idle"
  BY DEF SharingInit, Investigations, Visibilities, Pointers
<1>6. TypesHold
  BY <1>1, <1>2, <1>3, <1>4, <1>5 DEF TypesHold
<1>7. withdrawn = {} /\ shut = {}
  BY DEF SharingInit
<1>8. SlugsHold
  BY <1>1, <1>2, <1>3, <1>4, <1>7 DEF SlugsHold
<1>9. ShutIsRevoked
  BY <1>7 DEF ShutIsRevoked
<1> QED
  BY <1>6, <1>8, <1>9 DEF SharingInv

-----------------------------------------------------------------------------
(* Every step keeps it.                                                    *)

\* A request that goes on or ends without touching versions and slugs.
LEMMA RequestGoes ==
  ASSUME SharingInv, NEW p \in Owners,
         UNCHANGED <<versions, synthesis, loaded, issued, withdrawn, shut>>,
         investigation' \in Investigations,
         asked' = [asked EXCEPT ![p] = asked'[p]],
         \/ asked'[p] = NoRequest
         \/ /\ Serving(p) /\ asked'[p] \in OwnerRequests
            /\ asked'[p].of = asked[p].of /\ asked'[p].copy = asked[p].copy
  PROVE  SharingInv'
<1>1. asked' \in [Owners -> OwnerRequests \cup {NoRequest}]
  BY DEF SharingInv, TypesHold
<1>2. \A q \in Owners : Serving(q)' =>
        Serving(q) /\ asked'[q].of = asked[q].of /\ asked'[q].copy = asked[q].copy
  BY DEF SharingInv, TypesHold, Serving
<1>3. TypesHold'
  BY <1>1, <1>2 DEF SharingInv, TypesHold, Versions
<1>4. SlugsHold'
  BY <1>2 DEF SharingInv, SlugsHold, Versions
<1>5. ShutIsRevoked'
  BY DEF SharingInv, ShutIsRevoked, Versions
<1> QED
  BY <1>3, <1>4, <1>5 DEF SharingInv

LEMMA FindReportKeeps == ASSUME SharingInv, NEW p \in Owners, FindReport(p) PROVE SharingInv'
<1>1. UNCHANGED <<versions, investigation, synthesis, loaded, issued, withdrawn, shut>>
  BY DEF FindReport, shared
<1>2. PICK kind \in Ops, v \in Versions :
        asked' = [asked EXCEPT ![p] = [NoRequest EXCEPT !.op = kind, !.of = v, !.at = "assert",
                                                        !.copy = versions[v]]]
  BY SharingAssumption DEF FindReport, Versions
<1> DEFINE new == [NoRequest EXCEPT !.op = kind, !.of = v, !.at = "assert", !.copy = versions[v]]
<1>3. versions[v] \in Reports /\ v \in Nat
  BY VersionsAreReports DEF SharingInv
<1>4. new \in OwnerRequests /\ new.of = v /\ new.copy = versions[v]
  BY <1>3 DEF NoRequest, OwnerRequests, Pointers
<1> HIDE DEF new
<1>5. /\ asked' \in [Owners -> OwnerRequests \cup {NoRequest}]
      /\ asked'[p] = new /\ \A q \in Owners : q # p => asked'[q] = asked[q]
  BY <1>2, <1>4 DEF SharingInv, TypesHold, new
<1>6. TypesHold'
  BY <1>1, <1>4, <1>5 DEF SharingInv, TypesHold, Versions, Serving
<1>7. SlugsHold'
  <2>1. versions[v].slug <= issued
    BY DEF SharingInv, SlugsHold
  <2>2. \A w \in Versions \ {v} : versions[v].slug # 0 => versions[w].slug # versions[v].slug
    BY DEF SharingInv, SlugsHold
  <2>3. \A q \in Owners : Serving(q)' =>
          /\ asked'[q].copy.slug <= issued
          /\ \A w \in Versions \ {asked'[q].of} :
               asked'[q].copy.slug # 0 => versions[w].slug # asked'[q].copy.slug
    <3> TAKE q \in Owners
    <3>1. CASE q = p
      BY <1>4, <1>5, <2>1, <2>2, <3>1
    <3>2. CASE q # p
      BY <1>5, <3>2 DEF SharingInv, SlugsHold, Serving
    <3> QED
      BY <3>1, <3>2
  <2> QED
    BY <1>1, <2>3 DEF SharingInv, SlugsHold, Versions
<1>8. ShutIsRevoked'
  BY <1>1 DEF SharingInv, ShutIsRevoked, Versions
<1> QED
  BY <1>6, <1>7, <1>8 DEF SharingInv

\* What a request makes of the version it read, as kept now.
Saved(r) == Modified(Edited(r.op, r.copy), r.copy, versions[r.of])

\* A save changes one version: its slug stays, goes or is new.
LEMMA SaveFacts ==
  ASSUME SharingInv, NEW p \in Owners, SaveReport(p), NEW r, r = asked[p], NEW v, v = r.of,
         NEW new, new = Saved(r)
  PROVE  /\ r \in OwnerRequests /\ v \in Versions
         /\ versions' = [versions EXCEPT ![v] = new]
         /\ new \in Reports
         /\ r.op \notin Withdrawals =>
              /\ new.slug = (IF r.copy.slug = 0 THEN issued + 1 ELSE versions[v].slug)
              /\ new.status = (IF r.copy.status = "REVOKED" THEN "COMPLETE" ELSE versions[v].status)
              /\ issued' = (IF r.copy.slug = 0 THEN issued + 1 ELSE issued)
              /\ withdrawn' = withdrawn /\ shut' = shut \ {v}
         /\ r.op \in Withdrawals =>
              /\ new.slug = (IF r.copy.slug # 0 THEN 0 ELSE versions[v].slug)
              /\ new.revoked
              /\ issued' = issued
              /\ withdrawn' = withdrawn \cup ({r.copy.slug} \ {0})
              /\ shut' = shut \cup {v}
         /\ r.op = "remove" /\ r.copy = versions[v] => new.status = "DELETED"
         /\ r.op = "remove" => new.status \in {"DELETED", versions[v].status}
         /\ r.op = "revoke" => new.status \in {"REVOKED", versions[v].status}
         /\ r.op = "PRIVATE" => new.status = versions[v].status
<1>1. r \in OwnerRequests /\ v \in Versions /\ versions[v] \in Reports
  <2>1. r.at # "free"
    BY DEF SaveReport
  <2> QED
    BY <2>1, WorkingIsRequest, VersionsAreReports DEF SharingInv, TypesHold
<1>2. r.op \in Ops /\ r.copy \in Reports /\ issued \in Nat
  BY <1>1 DEF OwnerRequests, SharingInv, TypesHold
<1>3. /\ versions' = [versions EXCEPT ![v] = new]
      /\ issued' = IF r.op \notin Withdrawals /\ r.copy.slug = 0 THEN issued + 1 ELSE issued
      /\ withdrawn' = IF r.op \in Withdrawals THEN withdrawn \cup ({r.copy.slug} \ {0}) ELSE withdrawn
      /\ shut' = IF r.op \in Withdrawals THEN shut \cup {v} ELSE shut \ {v}
  BY DEF SaveReport, Saved
<1>4. CASE r.op \in Withdrawals
  <2>0. new = Modified(Edited(r.op, r.copy), r.copy, versions[v])
    BY DEF Saved
  <2>1. /\ new \in Reports
        /\ new.slug = IF r.copy.slug # 0 THEN 0 ELSE versions[v].slug
        /\ new.revoked
        /\ r.op = "PRIVATE" => new.status = versions[v].status
        /\ r.op = "revoke" => new.status \in {"REVOKED", versions[v].status}
        /\ r.op = "remove" /\ r.copy = versions[v] => new.status = "DELETED"
        /\ r.op = "remove" => new.status \in {"DELETED", versions[v].status}
    BY <1>1, <1>2, <1>4, <2>0, WithdrawalWrites
  <2> QED
    BY <1>1, <1>3, <1>4, <2>1
<1>5. CASE r.op \notin Withdrawals
  <2>1. r.op \in {"UNLISTED", "PUBLIC"}
    BY <1>2, <1>5 DEF Ops, Withdrawals
  <2>2. /\ new \in Reports
        /\ new.slug = IF r.copy.slug = 0 THEN issued + 1 ELSE versions[v].slug
        /\ new.status = IF r.copy.status = "REVOKED" THEN "COMPLETE" ELSE versions[v].status
    BY <1>1, <1>2, <2>1, SharingWrites DEF Saved
  <2> QED
    BY <1>1, <1>3, <1>5, <2>1, <2>2
<1> QED
  BY <1>4, <1>5

LEMMA SaveKeeps == ASSUME SharingInv, NEW p \in Owners, SaveReport(p) PROVE SharingInv'
<1> DEFINE r == asked[p]
           v == r.of
           new == Saved(r)
<1>1. /\ r \in OwnerRequests /\ v \in Versions
      /\ versions' = [versions EXCEPT ![v] = new]
      /\ new \in Reports
      /\ r.op \notin Withdrawals =>
           /\ new.slug = (IF r.copy.slug = 0 THEN issued + 1 ELSE versions[v].slug)
           /\ issued' = (IF r.copy.slug = 0 THEN issued + 1 ELSE issued)
           /\ withdrawn' = withdrawn /\ shut' = shut \ {v}
      /\ r.op \in Withdrawals =>
           /\ new.slug = (IF r.copy.slug # 0 THEN 0 ELSE versions[v].slug)
           /\ new.revoked
           /\ issued' = issued
           /\ withdrawn' = withdrawn \cup ({r.copy.slug} \ {0})
           /\ shut' = shut \cup {v}
  <2> HIDE DEF new
  <2>1. new = Saved(r)
    BY DEF new
  <2> HIDE DEF r, v
  <2>2. r = asked[p] /\ v = r.of
    BY DEF r, v
  <2> QED
    BY <2>1, <2>2, SaveFacts
<1>2. /\ asked' = [asked EXCEPT ![p] = IF @.op = "remove" THEN [@ EXCEPT !.at = "latest"]
                                       ELSE NoRequest]
      /\ UNCHANGED <<investigation, synthesis, loaded>>
  BY DEF SaveReport
<1>3. /\ versions \in Seq(Reports) /\ Len(versions) > 0 /\ issued \in Nat
      /\ asked \in [Owners -> OwnerRequests \cup {NoRequest}]
      /\ investigation \in Investigations /\ (synthesis # "idle" => loaded \in Visibilities)
      /\ \A q \in Owners : Serving(q) => asked[q].of \in Versions
  BY DEF SharingInv, TypesHold
<1>4. Serving(p)
  BY WorkingIsRequest DEF SharingInv, SaveReport
<1>5. versions' \in Seq(Reports) /\ Len(versions') = Len(versions) /\ Versions' = Versions
      /\ versions'[v] = new /\ \A w \in Versions : w # v => versions'[w] = versions[w]
  <2> HIDE DEF new
  <2> QED
    BY <1>1, <1>3 DEF Versions
<1>6. /\ asked' \in [Owners -> OwnerRequests \cup {NoRequest}]
      /\ \A q \in Owners : Serving(q)' =>
           Serving(q) /\ asked'[q].of = asked[q].of /\ asked'[q].copy = asked[q].copy
  <2> DEFINE left == IF r.op = "remove" THEN [r EXCEPT !.at = "latest"] ELSE NoRequest
  <2>1. \/ left = NoRequest
        \/ left \in OwnerRequests /\ left.of = r.of /\ left.copy = r.copy
    BY <1>1 DEF OwnerRequests
  <2>2. asked' = [asked EXCEPT ![p] = left]
    BY <1>2
  <2>3. \A q \in Owners : q # p => asked'[q] = asked[q]
    BY <1>3, <2>2
  <2>4. asked'[p] = left
    BY <1>3, <2>2
  <2> HIDE DEF left
  <2>5. asked' \in [Owners -> OwnerRequests \cup {NoRequest}]
    BY <1>3, <2>1, <2>2
  <2> QED
    BY <1>4, <2>1, <2>3, <2>4, <2>5 DEF Serving
<1>7. TypesHold'
  <2>1. issued' \in Nat
    BY <1>1, <1>3
  <2> QED
    BY <1>2, <1>3, <1>5, <1>6, <2>1 DEF TypesHold
<1> HIDE DEF new
<1>8. issued' \in Nat /\ issued <= issued'
  BY <1>1, <1>3
<1>9. r.copy.slug \in Nat /\ r.copy.slug <= issued
      /\ \A w \in Versions \ {v} : r.copy.slug # 0 => versions[w].slug # r.copy.slug
  BY <1>1, <1>4 DEF SharingInv, SlugsHold, OwnerRequests, Reports
<1>10. \A w \in Versions : versions[w].slug \in Nat /\ versions[w].slug <= issued
                           /\ versions[w].slug \notin withdrawn
  BY VersionsAreReports DEF SharingInv, SlugsHold, Reports
<1>11. new.slug \in {0, versions[v].slug, issued + 1}
       /\ (new.slug = issued + 1 => r.op \notin Withdrawals /\ issued' = issued + 1)
  BY <1>1, <1>3, <1>9, <1>10
<1>12. withdrawn' \subseteq 1..issued'
  <2>1. \A n \in withdrawn' : n \in withdrawn \/ (n = r.copy.slug /\ n # 0)
    BY <1>1
  <2>2. \A n \in withdrawn : n \in Nat /\ n > 0 /\ n <= issued
    <3>1. withdrawn \subseteq 1..issued
      BY DEF SharingInv, SlugsHold
    <3> QED BY <1>3, <3>1
  <2> SUFFICES ASSUME NEW n \in withdrawn' PROVE n \in Nat /\ 1 <= n /\ n <= issued'
    BY <1>8
  <2>3. n \in Nat /\ n # 0 /\ n <= issued
    BY <1>9, <2>1, <2>2
  <2> QED
    BY <1>3, <1>8, <2>3
<1>13. 0 \notin withdrawn /\ issued + 1 \notin withdrawn
  BY <1>3 DEF SharingInv, SlugsHold
<1>14. ASSUME NEW w \in Versions
       PROVE  versions'[w].slug <= issued' /\ versions'[w].slug \notin withdrawn'
  <2>1. CASE w # v
    BY <1>1, <1>5, <1>3, <1>8, <1>9, <1>10, <2>1
  <2>2. CASE w = v /\ r.op \in Withdrawals
    <3>1. CASE r.copy.slug # 0
      BY <1>1, <1>5, <1>8, <1>9, <1>13, <2>2, <3>1
    <3>2. CASE r.copy.slug = 0
      BY <1>1, <1>5, <1>10, <2>2, <3>2
    <3> QED
      BY <3>1, <3>2
  <2>3. CASE w = v /\ r.op \notin Withdrawals
    BY <1>1, <1>3, <1>5, <1>10, <1>13, <2>3
  <2> QED
    BY <2>1, <2>2, <2>3
<1>15. \A w \in Versions \ {v} : new.slug # 0 => versions[w].slug # new.slug
  <2> TAKE w \in Versions \ {v}
  <2>1. versions[v].slug # 0 => versions[w].slug # versions[v].slug
    BY <1>1 DEF SharingInv, SlugsHold
  <2>2. versions[w].slug # issued + 1
    BY <1>3, <1>10
  <2> QED
    BY <1>11, <2>1, <2>2
<1>16. ASSUME NEW w \in Versions, NEW x \in Versions, w # x, versions'[w].slug # 0
       PROVE  versions'[w].slug # versions'[x].slug
  <2>1. CASE w = v
    BY <1>5, <1>15, <1>16, <2>1
  <2>2. CASE x = v
    BY <1>5, <1>15, <1>16, <2>2
  <2>3. CASE w # v /\ x # v
    BY <1>5, <1>16, <2>3 DEF SharingInv, SlugsHold
  <2> QED
    BY <2>1, <2>2, <2>3
<1>17. ASSUME NEW q \in Owners, Serving(q)
       PROVE  /\ asked[q].copy.slug <= issued'
              /\ \A w \in Versions \ {asked[q].of} :
                   asked[q].copy.slug # 0 => versions'[w].slug # asked[q].copy.slug
  <2>1. /\ asked[q].copy.slug \in Nat /\ asked[q].copy.slug <= issued
        /\ \A w \in Versions \ {asked[q].of} :
             asked[q].copy.slug # 0 => versions[w].slug # asked[q].copy.slug
    BY <1>17, WorkingIsRequest DEF SharingInv, SlugsHold, OwnerRequests, Reports
  <2>2. asked[q].copy.slug <= issued'
    BY <1>3, <1>8, <2>1
  <2>3. asked[q].copy.slug # issued + 1
    BY <1>3, <2>1
  <2> QED
    BY <1>5, <1>11, <2>1, <2>2, <2>3
<1>18. SlugsHold'
  BY <1>5, <1>6, <1>12, <1>14, <1>16, <1>17 DEF SlugsHold
<1>19. ShutIsRevoked'
  <2>1. \A w \in shut' : w = v \/ w \in shut
    BY <1>1
  <2>2. v \in shut' => new.revoked
    BY <1>1
  <2> QED
    BY <1>1, <1>5, <2>1, <2>2 DEF SharingInv, ShutIsRevoked
<1> QED
  BY <1>7, <1>18, <1>19 DEF SharingInv

\* The steps of a request that save nothing.
LEMMA RequestStepKeeps ==
  ASSUME SharingInv, NEW p \in Owners,
         AssertOwned(p) \/ FindLatest(p) \/ PointToLatest(p) \/ RequestDies(p)
  PROVE  SharingInv'
<1> DEFINE r == asked[p]
<1>1. /\ asked \in [Owners -> OwnerRequests \cup {NoRequest}] /\ investigation \in Investigations
      /\ r \in OwnerRequests /\ Serving(p)
  <2>1. Serving(p)
    BY WorkingIsRequest DEF SharingInv, AssertOwned, FindLatest, PointToLatest, RequestDies
  <2> QED
    BY <2>1, WorkingIsRequest DEF SharingInv, TypesHold
<1>2. CASE AssertOwned(p)
  <2>1. UNCHANGED <<versions, investigation, synthesis, loaded, issued, withdrawn, shut>>
    BY <1>2 DEF AssertOwned, shared, sharingHistory
  <2>2. CASE investigation.status = "DELETED"
    <3>1. asked' = [asked EXCEPT ![p] = NoRequest]
      BY <1>2, <2>2 DEF AssertOwned
    <3> QED
      BY <1>1, <2>1, <3>1, RequestGoes
  <2>3. CASE investigation.status # "DELETED"
    <3> DEFINE new == [r EXCEPT !.at = "save"]
    <3>1. asked' = [asked EXCEPT ![p] = new]
      BY <1>2, <2>3 DEF AssertOwned
    <3>2. new \in OwnerRequests /\ new.of = r.of /\ new.copy = r.copy
      BY <1>1 DEF OwnerRequests
    <3> HIDE DEF new
    <3> QED
      BY <1>1, <2>1, <3>1, <3>2, RequestGoes
  <2> QED
    BY <2>2, <2>3
<1>3. CASE FindLatest(p)
  <2> DEFINE latest == NewestOf(LiveOthers(r.of))
             new == [r EXCEPT !.at = "point", !.latest = latest]
  <2>1. UNCHANGED <<versions, investigation, synthesis, loaded, issued, withdrawn, shut>>
    BY <1>3 DEF FindLatest, shared, sharingHistory
  <2>2. LiveOthers(r.of) \in SUBSET Nat
    BY VersionsAreReports DEF SharingInv, LiveOthers, Versions
  <2>3. latest \in Pointers
    BY <2>2 DEF Pointers
  <2>4. asked' = [asked EXCEPT ![p] = new]
    BY <1>1, <1>3 DEF FindLatest
  <2> HIDE DEF latest
  <2>5. new \in OwnerRequests /\ new.of = r.of /\ new.copy = r.copy
    BY <1>1, <2>3 DEF OwnerRequests
  <2> HIDE DEF new
  <2> QED
    BY <1>1, <2>1, <2>4, <2>5, RequestGoes
<1>4. CASE PointToLatest(p)
  <2>1. /\ UNCHANGED <<versions, synthesis, loaded, issued, withdrawn, shut>>
        /\ asked' = [asked EXCEPT ![p] = NoRequest]
        /\ investigation' = [investigation EXCEPT !.shown = r.latest]
    BY <1>4 DEF PointToLatest, sharingHistory
  <2>2. r.latest \in Pointers
    BY <1>1 DEF OwnerRequests
  <2>3. investigation' \in Investigations
    BY <1>1, <2>1, <2>2 DEF Investigations
  <2> QED
    BY <1>1, <2>1, <2>3, RequestGoes
<1>5. CASE RequestDies(p)
  <2>1. /\ UNCHANGED <<versions, investigation, synthesis, loaded, issued, withdrawn, shut>>
        /\ asked' = [asked EXCEPT ![p] = NoRequest]
    BY <1>5 DEF RequestDies, shared
  <2> QED
    BY <1>1, <2>1, RequestGoes
<1> QED
  BY <1>2, <1>3, <1>4, <1>5

\* What changes the investigation only, or nothing.
LEMMA InvestigationStepKeeps ==
  ASSUME SharingInv,
         \/ UpdateVisibility \/ RemoveInvestigation \/ ProcessAgain \/ FinishInvestigation
         \/ SynthesisStops \/ UNCHANGED sharingVars
  PROVE  SharingInv'
<1>1. UNCHANGED <<versions, issued, asked, withdrawn, shut>>
  BY DEF UpdateVisibility, RemoveInvestigation, ProcessAgain, FinishInvestigation, SynthesisStops,
         sharingVars, sharingHistory
<1>2. investigation \in Investigations /\ Len(versions) \in Nat /\ "PUBLIC" \in Visibilities
      /\ (synthesis # "idle" => loaded \in Visibilities)
  BY VersionsAreReports DEF SharingInv, TypesHold, Visibilities
<1>3. investigation' \in Investigations /\ (synthesis' # "idle" => loaded' \in Visibilities)
  <2>1. CASE UpdateVisibility
    BY <1>2, <2>1 DEF UpdateVisibility, Investigations, Visibilities
  <2>2. CASE RemoveInvestigation
    BY <1>2, <2>2 DEF RemoveInvestigation, Investigations
  <2>3. CASE ProcessAgain
    BY <1>2, <2>3 DEF ProcessAgain, Investigations
  <2>4. CASE FinishInvestigation
    BY <1>2, <2>4 DEF FinishInvestigation, Investigations, Pointers
  <2>5. CASE SynthesisStops
    BY <1>2, <2>5 DEF SynthesisStops, Investigations
  <2>6. CASE UNCHANGED sharingVars
    BY <1>2, <2>6 DEF sharingVars
  <2> QED
    BY <2>1, <2>2, <2>3, <2>4, <2>5, <2>6
<1>4. TypesHold'
  BY <1>1, <1>3 DEF SharingInv, TypesHold, Versions, Serving
<1>5. SlugsHold' /\ ShutIsRevoked'
  BY <1>1 DEF SharingInv, SlugsHold, ShutIsRevoked, Versions, Serving
<1> QED
  BY <1>4, <1>5 DEF SharingInv

\* A new version has no slug or one nobody has seen, and nobody asked for it yet.
LEMMA InsertKeeps == ASSUME SharingInv, InsertVersion PROVE SharingInv'
<1> DEFINE new == Report(loaded)
           n == Len(versions)
<1>1. /\ versions \in Seq(Reports) /\ n \in Nat /\ n > 0 /\ Versions = 1..n
      /\ loaded \in Visibilities /\ issued \in Nat
  BY VersionsAreReports DEF SharingInv, TypesHold, InsertVersion
<1>2. new \in Reports /\ new.slug = IF loaded = "PRIVATE" THEN 0 ELSE issued + 1
  BY <1>1 DEF Report, Reports, ReportStatuses
<1>3. /\ versions' = Append(versions, new)
      /\ issued' = IF loaded = "PRIVATE" THEN issued ELSE issued + 1
      /\ synthesis' = "validate" /\ UNCHANGED <<investigation, loaded, asked, withdrawn, shut>>
  BY DEF InsertVersion, sharingHistory
<1> HIDE DEF new
<1>4. /\ versions' \in Seq(Reports) /\ Len(versions') = n + 1 /\ Versions' = 1..(n + 1)
      /\ versions'[n + 1] = new /\ \A v \in 1..n : versions'[v] = versions[v]
  BY <1>1, <1>2, <1>3 DEF Versions
<1>5. \A v \in Versions' : v \in Versions \/ v = n + 1
  BY <1>1, <1>4
<1>6. Versions \subseteq Versions' /\ n + 1 \notin Versions
  BY <1>1, <1>4
<1>7. \A v \in Versions : versions'[v] = versions[v]
  BY <1>1, <1>4
<1>8. issued' \in Nat /\ issued <= issued' /\ new.slug <= issued'
      /\ new.slug \in {0, issued + 1}
  BY <1>1, <1>2, <1>3
<1>9. TypesHold'
  BY <1>1, <1>3, <1>4, <1>6, <1>8 DEF SharingInv, TypesHold, Serving
<1>10. /\ withdrawn \subseteq 1..issued
       /\ \A v \in Versions : /\ versions[v].slug \in Nat /\ versions[v].slug <= issued
                              /\ versions[v].slug \notin withdrawn
       /\ \A p \in Owners : Serving(p) => asked[p].copy.slug \in Nat /\ asked[p].copy.slug <= issued
  BY VersionsAreReports, WorkingIsRequest DEF SharingInv, SlugsHold, Reports, OwnerRequests
<1>11. new.slug \notin withdrawn
       /\ (new.slug # 0 => \A v \in Versions : versions[v].slug # new.slug)
  BY <1>1, <1>8, <1>10
<1>12. SlugsHold'
  <2>1. withdrawn \subseteq 1..issued'
    BY <1>1, <1>8, <1>10
  <2>2. \A v \in Versions' : versions'[v].slug <= issued' /\ versions'[v].slug \notin withdrawn
    BY <1>1, <1>4, <1>5, <1>7, <1>8, <1>10, <1>11
  <2>3. \A v, w \in Versions' : v # w /\ versions'[v].slug # 0 => versions'[v].slug # versions'[w].slug
    BY <1>4, <1>5, <1>7, <1>11 DEF SharingInv, SlugsHold
  <2>4. \A p \in Owners : Serving(p) =>
          /\ asked[p].copy.slug <= issued'
          /\ \A w \in Versions' \ {asked[p].of} :
               asked[p].copy.slug # 0 => versions'[w].slug # asked[p].copy.slug
    <3> SUFFICES ASSUME NEW p \in Owners, Serving(p)
                 PROVE  /\ asked[p].copy.slug <= issued'
                        /\ \A w \in Versions' \ {asked[p].of} :
                             asked[p].copy.slug # 0 => versions'[w].slug # asked[p].copy.slug
      OBVIOUS
    <3>1. asked[p].copy.slug <= issued' /\ asked[p].copy.slug # issued + 1
      BY <1>1, <1>8, <1>10
    <3> QED
      BY <1>4, <1>5, <1>7, <1>8, <3>1 DEF SharingInv, SlugsHold
  <2> QED
    BY <1>3, <2>1, <2>2, <2>3, <2>4 DEF SlugsHold, Serving
<1>13. ShutIsRevoked'
  BY <1>3, <1>6, <1>7 DEF SharingInv, ShutIsRevoked
<1> QED
  BY <1>9, <1>12, <1>13 DEF SharingInv

\* What superseding makes of a version.
LEMMA OutdatedWrites ==
  ASSUME NEW old \in Reports
  PROVE  /\ Outdated(old) \in Reports
         /\ Outdated(old).slug = old.slug /\ Outdated(old).revoked = old.revoked
         /\ Outdated(old).status = IF old.status = "COMPLETE" THEN "SUPERSEDED" ELSE old.status
  BY DEF Outdated, Reports, ReportStatuses

\* Validating, superseding and completing write statuses only.
LEMMA StatusStepWrites ==
  ASSUME SharingInv, SaveInvalidVersion \/ SupersedeVersions \/ CompleteVersion, NEW n, n = Len(versions)
  PROVE  /\ versions' \in Seq(Reports) /\ Len(versions') = n /\ Versions' = Versions /\ n \in Versions
         /\ \A v \in Versions : versions'[v].slug = versions[v].slug
                                /\ versions'[v].revoked = versions[v].revoked
         /\ SupersedeVersions =>
              /\ versions'[n].status = versions[n].status
              /\ \A v \in Versions \ {n} : versions'[v].status =
                   IF versions[v].status = "COMPLETE" THEN "SUPERSEDED" ELSE versions[v].status
         /\ ~SupersedeVersions =>
              \A v \in Versions \ {n} : versions'[v].status = versions[v].status
         /\ SaveInvalidVersion => versions'[n].status = "INVALID"
         /\ CompleteVersion => versions'[n].status = "COMPLETE"
<1>1. /\ versions \in Seq(Reports) /\ n \in Nat /\ n > 0 /\ Versions = 1..n
      /\ \A v \in Versions : versions[v] \in Reports
  BY VersionsAreReports DEF SharingInv, TypesHold
<1>2. /\ SupersedeVersions => synthesis' = "complete"
      /\ SaveInvalidVersion => synthesis' = "throw"
      /\ CompleteVersion => synthesis' = "finish"
  BY DEF SupersedeVersions, SaveInvalidVersion, CompleteVersion
<1>3. CASE SupersedeVersions
  <2> DEFINE new(v) == IF v = n THEN versions[v] ELSE Outdated(versions[v])
  <2>1. versions' = [v \in 1..n |-> new(v)]
    BY <1>1, <1>3 DEF SupersedeVersions, Versions
  <2>2. ASSUME NEW v \in 1..n
        PROVE  /\ new(v) \in Reports /\ new(v).slug = versions[v].slug
               /\ new(v).revoked = versions[v].revoked
               /\ v = n => new(v) = versions[v]
               /\ v # n => new(v).status =
                    IF versions[v].status = "COMPLETE" THEN "SUPERSEDED" ELSE versions[v].status
    BY <1>1, OutdatedWrites
  <2> HIDE DEF new
  <2>3. versions' \in [1..n -> Reports]
    BY <2>1, <2>2
  <2>4. versions' \in Seq(Reports) /\ Len(versions') = n
    BY <1>1, <2>3, IsASeq, LenProperties
  <2> QED
    BY <1>1, <1>2, <1>3, <2>1, <2>2, <2>4 DEF Versions
<1>4. CASE SaveInvalidVersion \/ CompleteVersion
  <2> DEFINE state == IF SaveInvalidVersion THEN "INVALID" ELSE "COMPLETE"
             new == [versions[n] EXCEPT !.status = state]
  <2>1. versions' = [versions EXCEPT ![n] = new]
    BY <1>1, <1>2, <1>4 DEF SaveInvalidVersion, CompleteVersion
  <2>2. state \in ReportStatuses
    BY DEF ReportStatuses
  <2> HIDE DEF state
  <2>3. new \in Reports /\ new.slug = versions[n].slug /\ new.revoked = versions[n].revoked
        /\ new.status = state
    BY <1>1, <2>2 DEF Reports
  <2> HIDE DEF new
  <2>4. /\ versions' \in Seq(Reports) /\ Len(versions') = n /\ Versions' = Versions /\ n \in Versions
        /\ versions'[n] = new /\ \A v \in Versions \ {n} : versions'[v] = versions[v]
    BY <1>1, <2>1, <2>3 DEF Versions
  <2> QED
    BY <1>1, <1>2, <1>4, <2>3, <2>4 DEF state
<1> QED
  BY <1>3, <1>4

LEMMA StatusStepKeeps ==
  ASSUME SharingInv, SaveInvalidVersion \/ SupersedeVersions \/ CompleteVersion
  PROVE  SharingInv'
<1>1. /\ versions' \in Seq(Reports) /\ Len(versions') = Len(versions) /\ Versions' = Versions
      /\ \A v \in Versions : versions'[v].slug = versions[v].slug
                             /\ versions'[v].revoked = versions[v].revoked
  BY StatusStepWrites
<1>2. UNCHANGED <<investigation, loaded, issued, asked, withdrawn, shut>> /\ synthesis # "idle"
  BY DEF SaveInvalidVersion, SupersedeVersions, CompleteVersion, sharingHistory
<1>3. TypesHold'
  BY <1>1, <1>2 DEF SharingInv, TypesHold, Serving
<1>4. SlugsHold' /\ ShutIsRevoked'
  BY <1>1, <1>2 DEF SharingInv, SlugsHold, ShutIsRevoked, Serving
<1> QED
  BY <1>3, <1>4 DEF SharingInv

\* The invariant holds at every moment.
THEOREM SharingInvariant == SharingSpec => []SharingInv
<1>1. SharingInv /\ [SharingNext]_sharingVars => SharingInv'
  <2> SUFFICES ASSUME SharingInv, [SharingNext]_sharingVars PROVE SharingInv'
    OBVIOUS
  <2>1. CASE \E p \in Owners : FindReport(p) \/ AssertOwned(p) \/ SaveReport(p) \/ FindLatest(p)
                                 \/ PointToLatest(p) \/ RequestDies(p)
    BY <2>1, FindReportKeeps, SaveKeeps, RequestStepKeeps
  <2>2. CASE \/ UpdateVisibility \/ RemoveInvestigation \/ ProcessAgain \/ FinishInvestigation
             \/ SynthesisStops \/ UNCHANGED sharingVars
    BY <2>2, InvestigationStepKeeps
  <2>3. CASE InsertVersion \/ SaveInvalidVersion \/ SupersedeVersions \/ CompleteVersion
    BY <2>3, InsertKeeps, StatusStepKeeps
  <2> QED
    BY <2>1, <2>2, <2>3 DEF SharingNext
<1> QED
  BY SharingInitially, <1>1, PTL DEF SharingSpec

\* docs/reports.md:27-29: the slug a withdrawal met is never served again, and a version
\* whose last saved request withdrew it is not served, whatever requests that read the
\* report before still save and whatever versions are synthesised beside them.
THEOREM WithdrawalHolds == SharingSpec => []WithdrawnStaysOut
<1>1. SharingInv => WithdrawnStaysOut
  BY DEF SharingInv, SlugsHold, ShutIsRevoked, WithdrawnStaysOut, Serves, Versions
<1> QED
  BY <1>1, SharingInvariant, PTL

-----------------------------------------------------------------------------
(* Where requests came one after the other, the newest version is shown.   *)

Lives == {v \in Versions : IsLive(v)}

\* One party at a time: a request, or the worker.
OnePartyAtATime ==
  /\ \A p, q \in Owners : Serving(p) /\ Serving(q) => p = q
  /\ \A p \in Owners : Serving(p) => synthesis = "idle"

\* What a request read is still so when it saves.
CopiesAreFresh ==
  \A p \in Owners : asked[p].at \in {"assert", "save"} =>
    asked[p].copy = versions[asked[p].of] /\ asked[p].copy.status # "DELETED"

\* The version under synthesis, to which the investigation is not pointed yet.
Pending == IF synthesis \in {"idle", "insert"} THEN {} ELSE {Len(versions)}

\* The versions that may be newer than the one shown.
Unshown == orphans \cup Pending

IsNewest(n) ==
  /\ n \in Lives \cup {0}
  /\ \A v \in Lives : v > n => v \in Unshown

\* Until a removal is saved, the newest version is shown; then the removal finds it.
ShownIsNewest ==
  /\ (\A p \in Owners : asked[p].at \in {"free", "assert", "save"}) => IsNewest(investigation.shown)
  /\ \A p \in Owners : asked[p].at = "latest" => ~IsLive(asked[p].of)
  /\ \A p \in Owners : asked[p].at = "point" => IsNewest(asked[p].latest)

\* The version under synthesis is not shown, and unless it is invalid it is live.
PendingHolds ==
  /\ investigation.shown \notin Pending
  /\ synthesis \in {"validate", "complete", "finish"} => IsLive(Len(versions))
  /\ \A v \in Versions : versions[v].status = "INVALID" => v \in Unshown

WhenQuiet == OnePartyAtATime /\ CopiesAreFresh /\ ShownIsNewest /\ PendingHolds
CalmIsQuiet == calm => WhenQuiet

\* The newest version that is not removed is the newest.
LEMMA NewestIsNewest ==
  ASSUME TypesHold
  PROVE  IsNewest(NewestOf(Lives))
<1> DEFINE n == Len(versions)
<1>1. n \in Nat /\ Versions = 1..n
  BY VersionsAreReports
<1>2. Lives \in SUBSET (1..n)
  BY <1>1 DEF Lives
<1> HIDE DEF n
<1>3. CASE Lives = {}
  BY <1>3 DEF NewestOf, IsNewest
<1>4. CASE Lives # {}
  <2>1. \E v \in Lives : \A w \in Lives : w <= v
    BY <1>1, <1>2, <1>4, GreatestExists
  <2>2. NewestOf(Lives) \in Lives /\ \A w \in Lives : w <= NewestOf(Lives)
    BY <1>4, <2>1 DEF NewestOf
  <2>3. \A w \in Lives : w \in Nat
    BY <1>1, <1>2
  <2>4. \A w \in Lives : ~(w > NewestOf(Lives))
    BY <2>2, <2>3
  <2> QED
    BY <2>2, <2>4 DEF IsNewest
<1> QED
  BY <1>3, <1>4

LEMMA CalmInitially == SharingInit => CalmIsQuiet
<1> SUFFICES ASSUME SharingInit PROVE WhenQuiet
  BY DEF CalmIsQuiet
<1>1. /\ \A p \in Owners : asked[p] = NoRequest /\ ~Serving(p) /\ asked[p].at = "free"
      /\ synthesis = "idle" /\ investigation.shown = 1
  BY NoRequestIsNone DEF SharingInit, Serving
<1>2. Versions = {1} /\ versions[1].status = "COMPLETE"
  BY DEF SharingInit, Versions
<1>3. Lives = {1} /\ Pending = {}
  BY <1>1, <1>2 DEF Lives, IsLive, Pending
<1>4. IsNewest(1)
  BY <1>3 DEF IsNewest
<1> QED
  BY <1>1, <1>2, <1>3, <1>4 DEF WhenQuiet, OnePartyAtATime, CopiesAreFresh, ShownIsNewest, PendingHolds

\* A save writes a status to one version.
LEMMA SaveWritesStatus ==
  ASSUME SharingInv, NEW p \in Owners, SaveReport(p), NEW r, r = asked[p], NEW v, v = r.of
  PROVE  /\ Versions' = Versions /\ Len(versions') = Len(versions) /\ v \in Versions
         /\ \A w \in Versions \ {v} : versions'[w] = versions[w]
         /\ r \in OwnerRequests
         /\ r.op \in {"UNLISTED", "PUBLIC"} => versions'[v].status =
              IF r.copy.status = "REVOKED" THEN "COMPLETE" ELSE versions[v].status
         /\ r.op = "PRIVATE" => versions'[v].status = versions[v].status
         /\ r.op = "revoke" => versions'[v].status \in {"REVOKED", versions[v].status}
         /\ r.op = "remove" => versions'[v].status \in {"DELETED", versions[v].status}
         /\ r.op = "remove" /\ r.copy = versions[v] => versions'[v].status = "DELETED"
<1> DEFINE new == Saved(r)
<1>1. /\ r \in OwnerRequests /\ v \in Versions
      /\ versions' = [versions EXCEPT ![v] = new]
      /\ r.op \notin Withdrawals =>
           new.status = (IF r.copy.status = "REVOKED" THEN "COMPLETE" ELSE versions[v].status)
      /\ r.op = "remove" /\ r.copy = versions[v] => new.status = "DELETED"
      /\ r.op = "remove" => new.status \in {"DELETED", versions[v].status}
      /\ r.op = "revoke" => new.status \in {"REVOKED", versions[v].status}
      /\ r.op = "PRIVATE" => new.status = versions[v].status
  <2> HIDE DEF new
  <2>1. new = Saved(r)
    BY DEF new
  <2> QED
    BY <2>1, SaveFacts
<1> HIDE DEF new
<1>2. versions \in Seq(Reports)
  BY DEF SharingInv, TypesHold
<1>3. /\ Versions' = Versions /\ Len(versions') = Len(versions)
      /\ versions'[v] = new /\ \A w \in Versions : w # v => versions'[w] = versions[w]
  BY <1>1, <1>2 DEF Versions
<1> QED
  BY <1>1, <1>3 DEF Withdrawals

\* A request that removes nothing leaves the live versions as they are, but may bring back
\* an invalid one.
LEMMA SaveKeepsLives ==
  ASSUME SharingInv, NEW p \in Owners, SaveReport(p), asked[p].copy = versions[asked[p].of],
         asked[p].copy.status # "DELETED"
  PROVE  /\ Versions' = Versions /\ Len(versions') = Len(versions)
         /\ asked[p].op # "remove" =>
              /\ Lives \subseteq Lives'
              /\ \A v \in Lives' \ Lives : versions[v].status = "INVALID"
         /\ asked[p].op = "remove" => versions'[asked[p].of].status = "DELETED"
         /\ \A v \in Versions : versions'[v].status = "INVALID" => versions[v].status = "INVALID"
<1> DEFINE r == asked[p]
           v == r.of
<1>1. /\ Versions' = Versions /\ Len(versions') = Len(versions) /\ v \in Versions
      /\ \A w \in Versions \ {v} : versions'[w] = versions[w]
      /\ r \in OwnerRequests
      /\ r.op \in {"UNLISTED", "PUBLIC"} => versions'[v].status =
           IF r.copy.status = "REVOKED" THEN "COMPLETE" ELSE versions[v].status
      /\ r.op = "PRIVATE" => versions'[v].status = versions[v].status
      /\ r.op = "revoke" => versions'[v].status \in {"REVOKED", versions[v].status}
      /\ r.op = "remove" => versions'[v].status \in {"DELETED", versions[v].status}
      /\ r.op = "remove" /\ r.copy = versions[v] => versions'[v].status = "DELETED"
  <2> HIDE DEF r, v
  <2>1. r = asked[p] /\ v = r.of
    BY DEF r, v
  <2> QED
    BY <2>1, SaveWritesStatus
<1>2. r.copy = versions[v] /\ versions[v].status # "DELETED"
  OBVIOUS
<1> HIDE DEF r, v
<1>3. r.op \in {"UNLISTED", "PUBLIC", "PRIVATE", "revoke", "remove"}
  BY <1>1 DEF OwnerRequests, Ops
<1>4. r.op # "remove" =>
        /\ versions'[v].status \notin {"DELETED"}
        /\ versions'[v].status = "INVALID" => versions[v].status = "INVALID"
  BY <1>1, <1>2, <1>3
<1>5. ASSUME r.op # "remove" PROVE Lives \subseteq Lives'
  <2> SUFFICES ASSUME NEW w \in Versions, IsLive(w) PROVE IsLive(w)'
    BY <1>1 DEF Lives
  <2>1. CASE w = v
    BY <1>4, <1>5, <2>1 DEF IsLive
  <2>2. CASE w # v
    BY <1>1, <2>2 DEF IsLive
  <2> QED
    BY <2>1, <2>2
<1>6. ASSUME r.op # "remove", NEW w \in Lives', w \notin Lives
      PROVE  versions[w].status = "INVALID"
  <2>1. w \in Versions /\ IsLive(w)' /\ ~IsLive(w)
    BY <1>1, <1>6 DEF Lives
  <2>2. CASE w = v
    BY <1>2, <2>1, <2>2 DEF IsLive
  <2>3. CASE w # v
    BY <1>1, <2>1, <2>3 DEF IsLive
  <2> QED
    BY <2>2, <2>3
<1>7. \A w \in Versions : versions'[w].status = "INVALID" => versions[w].status = "INVALID"
  BY <1>1, <1>2, <1>3, <1>4
<1> QED
  BY <1>1, <1>2, <1>5, <1>6, <1>7 DEF r, v

\* The requests' steps keep it. When they are calm, the request is alone.
LEMMA RequestsKeepCalm ==
  ASSUME SharingInv, CalmIsQuiet, calm', NEW p \in Owners,
         FindReport(p) \/ AssertOwned(p) \/ SaveReport(p) \/ FindLatest(p) \/ PointToLatest(p)
           \/ RequestDies(p)
  PROVE  WhenQuiet'
<1> DEFINE r == asked[p]
<1>1. calm /\ WhenQuiet
  BY DEF CalmIsQuiet, FindReport, AssertOwned, SaveReport, FindLatest, PointToLatest, RequestDies,
         sharingHistory
<1>2. /\ asked \in [Owners -> OwnerRequests \cup {NoRequest}] /\ TypesHold
      /\ synthesis' = synthesis /\ orphans' = orphans /\ ~RequestDies(p)
  BY DEF SharingInv, TypesHold, FindReport, AssertOwned, SaveReport, FindLatest, PointToLatest, RequestDies,
         shared, sharingHistory
<1>3. CASE FindReport(p)
  <2>1. /\ synthesis = "idle" /\ \A q \in Owners : ~Serving(q)
        /\ UNCHANGED <<versions, investigation>>
    BY <1>3 DEF FindReport, Alone, shared
  <2>2. \A q \in Owners : asked[q].at = "free"
    BY <1>2, <2>1, WorkingIsRequest, NoRequestIsNone
  <2>3. PICK kind \in Ops, v \in Versions :
          /\ asked' = [asked EXCEPT ![p] = [NoRequest EXCEPT !.op = kind, !.of = v, !.at = "assert",
                                                             !.copy = versions[v]]]
          /\ versions[v].status # "DELETED"
    BY <1>3, SharingAssumption DEF FindReport, Versions
  <2> DEFINE new == [NoRequest EXCEPT !.op = kind, !.of = v, !.at = "assert", !.copy = versions[v]]
  <2>4. new.at = "assert" /\ new.of = v /\ new.copy = versions[v]
    BY DEF NoRequest
  <2>5. asked'[p] = new /\ \A q \in Owners : q # p => asked'[q] = asked[q]
    BY <1>2, <2>3
  <2> HIDE DEF new
  <2>6. \A q \in Owners : Serving(q)' => q = p
    BY <2>1, <2>5 DEF Serving
  <2>7. /\ Lives' = Lives /\ Versions' = Versions /\ Pending' = Pending /\ Unshown' = Unshown
        /\ IsNewest(investigation.shown)' <=> IsNewest(investigation.shown)
    BY <1>2, <2>1 DEF Lives, Versions, IsLive, Pending, Unshown, IsNewest
  <2>8. OnePartyAtATime'
    BY <1>2, <2>1, <2>6 DEF OnePartyAtATime
  <2>9. CopiesAreFresh'
    BY <2>1, <2>2, <2>3, <2>4, <2>5 DEF CopiesAreFresh
  <2>10. ShownIsNewest'
    <3>1. IsNewest(investigation.shown)
      BY <1>1, <2>2 DEF WhenQuiet, ShownIsNewest
    <3>2. \A q \in Owners : asked'[q].at \in {"assert", "free"}
      BY <2>2, <2>4, <2>5
    <3> QED
      BY <2>1, <2>7, <3>1, <3>2 DEF ShownIsNewest
  <2>11. PendingHolds'
    BY <1>1, <1>2, <2>1, <2>7 DEF WhenQuiet, PendingHolds
  <2> QED
    BY <2>8, <2>9, <2>10, <2>11 DEF WhenQuiet
<1>4. CASE ~FindReport(p)
  <2>1. /\ Serving(p) /\ r \in OwnerRequests
    <3>1. Serving(p)
      BY <1>2, <1>4, WorkingIsRequest DEF AssertOwned, SaveReport, FindLatest, PointToLatest
    <3> QED
      BY <1>2, <3>1, WorkingIsRequest
  <2>2. /\ \A q \in Owners : q # p => ~Serving(q) /\ asked[q].at = "free"
        /\ synthesis = "idle"
    <3>1. \A q \in Owners : q # p => ~Serving(q)
      BY <1>1, <2>1 DEF WhenQuiet, OnePartyAtATime
    <3> QED
      BY <1>1, <1>2, <2>1, <3>1, WorkingIsRequest, NoRequestIsNone DEF WhenQuiet, OnePartyAtATime
  <2>3. /\ \A q \in Owners : q # p => asked'[q] = asked[q]
        /\ asked'[p] = NoRequest \/ asked'[p] \in OwnerRequests
        /\ SharingInv'
    <3>1. SharingInv'
      BY <1>2, <1>4, SaveKeeps, RequestStepKeeps
    <3>2. \A q \in Owners : q # p => asked'[q] = asked[q]
      BY <1>2, <1>4 DEF AssertOwned, SaveReport, FindLatest, PointToLatest
    <3> QED
      BY <3>1, <3>2 DEF SharingInv, TypesHold
  <2>4. /\ OnePartyAtATime' /\ Pending = {} /\ Pending' = {}
        /\ Unshown = orphans /\ Unshown' = orphans
    BY <1>2, <2>2, <2>3 DEF OnePartyAtATime, Pending, Unshown, Serving
  <2>5. \A q \in Owners : q # p => asked'[q].at = "free"
    BY <2>2, <2>3
  <2>6. CASE AssertOwned(p)
    <3>1. UNCHANGED <<versions, investigation>> /\ Lives' = Lives /\ Versions' = Versions
      BY <2>6 DEF AssertOwned, shared, Lives, Versions, IsLive
    <3>2. r.at = "assert"
      BY <2>6 DEF AssertOwned
    <3>3. \/ asked'[p] = NoRequest
          \/ asked'[p].at = "save" /\ asked'[p].of = r.of /\ asked'[p].copy = r.copy
      BY <1>2, <2>1, <2>6 DEF AssertOwned, OwnerRequests
    <3>4. CopiesAreFresh'
      BY <1>1, <2>5, <3>1, <3>2, <3>3, NoRequestIsNone DEF WhenQuiet, CopiesAreFresh
    <3>5. IsNewest(investigation.shown)'
      BY <1>1, <2>2, <2>4, <3>1, <3>2 DEF WhenQuiet, ShownIsNewest, IsNewest
    <3>6. \A q \in Owners : asked'[q].at \in {"free", "save"}
      BY <2>5, <3>3, NoRequestIsNone
    <3>7. ShownIsNewest'
      BY <3>5, <3>6 DEF ShownIsNewest
    <3>8. PendingHolds'
      BY <1>1, <1>2, <2>2, <2>4, <3>1 DEF WhenQuiet, PendingHolds
    <3> QED
      BY <2>4, <3>4, <3>7, <3>8 DEF WhenQuiet
  <2>7. CASE SaveReport(p)
    <3>1. r.at = "save" /\ UNCHANGED investigation
      BY <2>7 DEF SaveReport
    <3>2. r.copy = versions[r.of] /\ r.copy.status # "DELETED"
      BY <1>1, <3>1 DEF WhenQuiet, CopiesAreFresh
    <3>3. /\ Versions' = Versions
          /\ r.op # "remove" => /\ Lives \subseteq Lives'
                                /\ \A v \in Lives' \ Lives : versions[v].status = "INVALID"
          /\ r.op = "remove" => versions'[r.of].status = "DELETED"
          /\ \A v \in Versions : versions'[v].status = "INVALID" => versions[v].status = "INVALID"
      BY <2>7, <3>2, SaveKeepsLives
    <3>4. /\ r.op # "remove" => asked'[p] = NoRequest
          /\ r.op = "remove" => asked'[p].at = "latest" /\ asked'[p].of = r.of
      BY <1>2, <2>1, <2>7 DEF SaveReport, OwnerRequests
    <3>5. \A q \in Owners : asked'[q].at \in {"free", "latest"}
      BY <2>5, <3>4, NoRequestIsNone
    <3>6. CopiesAreFresh'
      BY <3>5 DEF CopiesAreFresh
    <3>7. IsNewest(investigation.shown)
      BY <1>1, <2>2, <3>1 DEF WhenQuiet, ShownIsNewest
    <3>8. ShownIsNewest'
      <4>1. CASE r.op = "remove"
        <5>1. asked'[p].at = "latest" /\ versions'[asked'[p].of].status = "DELETED"
          BY <3>3, <3>4, <4>1
        <5> QED
          BY <2>5, <3>5, <5>1 DEF ShownIsNewest, IsLive
      <4>2. CASE r.op # "remove"
        <5>1. \A q \in Owners : asked'[q].at = "free"
          BY <2>5, <3>4, <4>2, NoRequestIsNone
        <5>2. \A v \in Lives' \ Lives : v \in orphans
          BY <1>1, <2>4, <3>3, <4>2 DEF WhenQuiet, PendingHolds, Lives
        <5>3. IsNewest(investigation.shown)'
          BY <2>4, <3>1, <3>3, <3>7, <4>2, <5>2 DEF IsNewest
        <5> QED
          BY <5>1, <5>3 DEF ShownIsNewest
      <4> QED
        BY <4>1, <4>2
    <3>9. PendingHolds'
      BY <1>1, <1>2, <2>2, <2>4, <3>3 DEF WhenQuiet, PendingHolds
    <3> QED
      BY <2>4, <3>6, <3>8, <3>9 DEF WhenQuiet
  <2>8. CASE FindLatest(p)
    <3>1. /\ UNCHANGED <<versions, investigation>> /\ r.at = "latest"
          /\ Lives' = Lives /\ Versions' = Versions
      BY <2>8 DEF FindLatest, shared, Lives, Versions, IsLive
    <3>2. ~IsLive(r.of)
      BY <1>1, <3>1 DEF WhenQuiet, ShownIsNewest
    <3>3. LiveOthers(r.of) = Lives
      BY <3>2 DEF LiveOthers, Lives, Versions
    <3>4. asked'[p].at = "point" /\ IsNewest(asked'[p].latest)
      <4> DEFINE newest == NewestOf(LiveOthers(r.of))
      <4>1. asked' = [asked EXCEPT ![p] = [r EXCEPT !.at = "point", !.latest = newest]]
        BY <1>2, <2>1, <2>8 DEF FindLatest
      <4>2. IsNewest(newest)
        BY <1>2, <3>3, NewestIsNewest
      <4> HIDE DEF newest
      <4> QED
        BY <1>2, <2>1, <4>1, <4>2 DEF OwnerRequests
    <3>5. \A q \in Owners : asked'[q].at \in {"free", "point"}
      BY <2>5, <3>4
    <3>6. CopiesAreFresh'
      BY <3>5 DEF CopiesAreFresh
    <3>7. ShownIsNewest'
      BY <2>4, <2>5, <3>1, <3>4 DEF ShownIsNewest, IsNewest
    <3>8. PendingHolds'
      BY <1>1, <1>2, <2>2, <2>4, <3>1 DEF WhenQuiet, PendingHolds
    <3> QED
      BY <2>4, <3>6, <3>7, <3>8 DEF WhenQuiet
  <2>9. CASE PointToLatest(p)
    <3>1. /\ UNCHANGED versions /\ Lives' = Lives /\ Versions' = Versions /\ r.at = "point"
          /\ asked' = [asked EXCEPT ![p] = NoRequest]
          /\ investigation' = [investigation EXCEPT !.shown = r.latest]
      BY <2>9 DEF PointToLatest, Lives, Versions, IsLive
    <3>2. IsNewest(investigation.shown)'
      <4>1. IsNewest(r.latest)
        BY <1>1, <3>1 DEF WhenQuiet, ShownIsNewest
      <4>2. investigation \in Investigations
        BY <1>2 DEF TypesHold
      <4> QED
        BY <2>4, <3>1, <4>1, <4>2 DEF Investigations, IsNewest
    <3>3. \A q \in Owners : asked'[q].at = "free"
      BY <1>2, <2>5, <3>1, NoRequestIsNone
    <3>4. CopiesAreFresh' /\ ShownIsNewest' /\ PendingHolds'
      BY <1>1, <1>2, <2>2, <2>4, <3>1, <3>2, <3>3
         DEF WhenQuiet, CopiesAreFresh, ShownIsNewest, PendingHolds
    <3> QED
      BY <2>4, <3>4 DEF WhenQuiet
  <2> QED
    BY <1>2, <1>4, <2>6, <2>7, <2>8, <2>9
<1> QED
  BY <1>3, <1>4

\* What is left of a worker's step where no request is under way.
LEMMA QuietWorker ==
  ASSUME TypesHold', \A p \in Owners : ~Serving(p)', IsNewest(investigation.shown)', PendingHolds'
  PROVE  WhenQuiet'
<1>1. \A p \in Owners : asked'[p].at = "free"
  <2> SUFFICES ASSUME NEW p \in Owners PROVE asked'[p].at = "free"
    OBVIOUS
  <2>1. asked'[p] = NoRequest
    BY DEF Serving
  <2> QED
    BY <2>1, NoRequestIsNone
<1> QED
  BY <1>1 DEF WhenQuiet, OnePartyAtATime, CopiesAreFresh, ShownIsNewest

\* The worker's steps keep it: where they are calm, no request is under way.
LEMMA WorkerKeepsCalm ==
  ASSUME SharingInv, CalmIsQuiet, calm',
         \/ UpdateVisibility \/ RemoveInvestigation \/ ProcessAgain \/ InsertVersion
         \/ SaveInvalidVersion \/ SupersedeVersions \/ CompleteVersion \/ FinishInvestigation
         \/ SynthesisStops \/ UNCHANGED sharingVars
  PROVE  WhenQuiet'
<1> DEFINE n == Len(versions)
<1>1. calm /\ WhenQuiet /\ UNCHANGED asked
  BY DEF CalmIsQuiet, UpdateVisibility, RemoveInvestigation, ProcessAgain, InsertVersion,
         SaveInvalidVersion, SupersedeVersions, CompleteVersion, FinishInvestigation,
         SynthesisStops, sharingVars, sharingHistory
<1>2. /\ TypesHold /\ versions \in Seq(Reports) /\ n \in Nat /\ n > 0 /\ Versions = 1..n
      /\ investigation \in Investigations /\ \A v \in Versions : v \in Nat
  BY VersionsAreReports DEF SharingInv, TypesHold
<1>3. SharingInv' /\ TypesHold'
  BY InvestigationStepKeeps, InsertKeeps, StatusStepKeeps DEF SharingInv
<1>4. CASE UpdateVisibility \/ RemoveInvestigation \/ UNCHANGED sharingVars
  <2>1. UNCHANGED <<versions, synthesis, asked, orphans>>
    BY <1>4 DEF UpdateVisibility, RemoveInvestigation, sharingVars, sharingHistory
  <2>2. investigation'.shown = investigation.shown
    BY <1>2, <1>4 DEF UpdateVisibility, RemoveInvestigation, sharingVars, Investigations
  <2>3. /\ Lives' = Lives /\ Versions' = Versions /\ Pending' = Pending /\ Unshown' = Unshown
        /\ \A v \in Versions : IsLive(v)' <=> IsLive(v)
    BY <2>1 DEF Lives, Versions, IsLive, Pending, Unshown
  <2>4. OnePartyAtATime' /\ CopiesAreFresh' /\ PendingHolds'
    BY <1>1, <2>1, <2>2, <2>3
       DEF WhenQuiet, OnePartyAtATime, CopiesAreFresh, PendingHolds, Serving, IsLive
  <2>5. ShownIsNewest'
    BY <1>1, <2>1, <2>2, <2>3 DEF WhenQuiet, ShownIsNewest, IsNewest, IsLive
  <2> QED
    BY <2>4, <2>5 DEF WhenQuiet
<1>5. CASE ProcessAgain \/ synthesis # "idle"
  <2>1. \A p \in Owners : ~Serving(p)
    <3>1. CASE ProcessAgain
      BY <1>1, <3>1 DEF ProcessAgain
    <3>2. CASE synthesis # "idle"
      BY <1>1, <3>2 DEF WhenQuiet, OnePartyAtATime
    <3> QED
      BY <1>5, <3>1, <3>2
  <2>2. \A p \in Owners : ~Serving(p)'
    BY <1>1, <2>1 DEF Serving
  <2>3. IsNewest(investigation.shown)
    <3>1. \A p \in Owners : asked[p].at = "free"
      BY <1>2, <2>1, WorkingIsRequest, NoRequestIsNone
    <3> QED
      BY <1>1, <3>1 DEF WhenQuiet, ShownIsNewest
  <2>4. PendingHolds /\ \A v \in Lives : v \in Versions
    BY <1>1 DEF WhenQuiet, Lives
  <2>5. CASE ProcessAgain
    <3>1. /\ UNCHANGED <<versions, orphans>> /\ synthesis = "idle" /\ synthesis' = "insert"
          /\ investigation' = [investigation EXCEPT !.status = "PROCESSING"]
      BY <2>5 DEF ProcessAgain
    <3>2. /\ Lives' = Lives /\ Versions' = Versions /\ Pending' = Pending /\ Unshown' = Unshown
          /\ Pending' = {} /\ investigation'.shown = investigation.shown
      BY <1>2, <3>1 DEF Lives, Versions, IsLive, Pending, Unshown, Investigations
    <3>3. PendingHolds'
      BY <2>4, <3>1, <3>2 DEF PendingHolds
    <3>4. IsNewest(investigation.shown)'
      BY <2>3, <3>2 DEF IsNewest
    <3> QED
      BY <1>3, <2>2, <3>3, <3>4, QuietWorker
  <2>6. CASE InsertVersion
    <3> DEFINE new == Report(loaded)
    <3>1. /\ versions' = Append(versions, new) /\ synthesis = "insert" /\ synthesis' = "validate"
          /\ UNCHANGED <<investigation, orphans>>
      BY <2>6 DEF InsertVersion, sharingHistory
    <3>2. new.status = "VALIDATING"
      BY DEF Report
    <3> HIDE DEF new
    <3>3. /\ Len(versions') = n + 1 /\ Versions' = 1..(n + 1) /\ versions'[n + 1] = new
          /\ \A v \in Versions : versions'[v] = versions[v]
      BY <1>2, <3>1 DEF Versions
    <3>4. /\ Pending = {} /\ Pending' = {n + 1}
          /\ Unshown = orphans /\ Unshown' = orphans \cup {n + 1}
      BY <3>1, <3>3 DEF Pending, Unshown
    <3>5. IsLive(Len(versions))' /\ \A v \in Versions : IsLive(v)' <=> IsLive(v)
      BY <3>2, <3>3 DEF IsLive
    <3>6. Lives' = Lives \cup {n + 1}
      <4>1. \A v \in Versions' : IsLive(v)' <=> v \in Lives \/ v = n + 1
        BY <1>2, <3>3, <3>5 DEF Lives
      <4>2. n + 1 \in Versions' /\ Versions \subseteq Versions'
        BY <1>2, <3>3
      <4> QED
        BY <4>1, <4>2 DEF Lives
    <3>7. investigation.shown # n + 1
      <4>1. investigation.shown \in 0..n
        BY <1>2, <2>3, <2>4 DEF IsNewest
      <4> HIDE DEF n
      <4> QED
        BY <1>2, <4>1
    <3>8. PendingHolds'
      <4>1. IsLive(Len(versions))'
        BY <3>5
      <4>2. \A v \in Versions' : versions'[v].status = "INVALID" => v \in Unshown'
        BY <1>2, <2>4, <3>2, <3>3, <3>4 DEF PendingHolds
      <4> QED
        BY <3>1, <3>4, <3>7, <4>1, <4>2 DEF PendingHolds
    <3>9. IsNewest(investigation.shown)'
      BY <2>3, <3>1, <3>4, <3>6 DEF IsNewest
    <3> QED
      BY <1>3, <2>2, <3>8, <3>9, QuietWorker
  <2>7. CASE SaveInvalidVersion \/ SupersedeVersions \/ CompleteVersion
    <3>1. /\ synthesis \in {"validate", "complete"} /\ UNCHANGED <<investigation, orphans>>
          /\ SaveInvalidVersion => synthesis' = "throw"
          /\ ~SaveInvalidVersion => synthesis' \in {"complete", "finish"}
      BY <2>7 DEF SaveInvalidVersion, SupersedeVersions, CompleteVersion, sharingHistory
    <3>2. /\ Len(versions') = n /\ Versions' = Versions /\ n \in Versions
          /\ SupersedeVersions =>
               /\ versions'[n].status = versions[n].status
               /\ \A v \in Versions \ {n} : versions'[v].status =
                    IF versions[v].status = "COMPLETE" THEN "SUPERSEDED" ELSE versions[v].status
          /\ ~SupersedeVersions =>
               \A v \in Versions \ {n} : versions'[v].status = versions[v].status
          /\ SaveInvalidVersion => versions'[n].status = "INVALID"
          /\ CompleteVersion => versions'[n].status = "COMPLETE"
      <4>1. \A m : m = Len(versions) =>
              /\ Len(versions') = m /\ Versions' = Versions /\ m \in Versions
              /\ SupersedeVersions =>
                   /\ versions'[m].status = versions[m].status
                   /\ \A v \in Versions \ {m} : versions'[v].status =
                        IF versions[v].status = "COMPLETE" THEN "SUPERSEDED" ELSE versions[v].status
              /\ ~SupersedeVersions =>
                   \A v \in Versions \ {m} : versions'[v].status = versions[v].status
              /\ SaveInvalidVersion => versions'[m].status = "INVALID"
              /\ CompleteVersion => versions'[m].status = "COMPLETE"
        BY <2>7, StatusStepWrites
      <4> QED
        BY <4>1
    <3>3. Pending = {n} /\ Pending' = {n} /\ Unshown' = Unshown /\ n \in Unshown
      BY <3>1, <3>2 DEF Pending, Unshown
    <3>4. ASSUME NEW v \in Versions \ {n} PROVE IsLive(v)' <=> IsLive(v)
      BY <2>7, <3>2 DEF IsLive
    <3>5. ~SaveInvalidVersion => IsLive(Len(versions))'
      <4>1. IsLive(n)
        BY <2>4, <3>1 DEF PendingHolds
      <4> QED
        BY <2>7, <3>2, <4>1 DEF IsLive
    <3> HIDE DEF n
    <3>6. Lives \ {n} = Lives' \ {n}
      BY <3>2, <3>4 DEF Lives
    <3>7. investigation.shown # n
      BY <2>4, <3>3 DEF PendingHolds
    <3>8. IsNewest(investigation.shown)'
      BY <2>3, <3>1, <3>3, <3>6, <3>7 DEF IsNewest
    <3>9. \A v \in Versions' : versions'[v].status = "INVALID" => v \in Unshown'
      <4> SUFFICES ASSUME NEW v \in Versions, versions'[v].status = "INVALID" PROVE v \in Unshown
        BY <3>2, <3>3
      <4>1. v # n => versions[v].status = "INVALID"
        BY <2>7, <3>2
      <4> QED
        BY <2>4, <3>3, <4>1 DEF PendingHolds
    <3>10. PendingHolds'
      <4>1. synthesis' \in {"validate", "complete", "finish"} => IsLive(Len(versions))'
        BY <3>1, <3>5
      <4> QED
        BY <3>1, <3>3, <3>7, <3>9, <4>1 DEF PendingHolds
    <3> QED
      BY <1>3, <2>2, <3>8, <3>10, QuietWorker
  <2>8. CASE FinishInvestigation
    <3>1. /\ synthesis = "finish" /\ synthesis' = "idle" /\ UNCHANGED <<versions, orphans>>
          /\ investigation' = [investigation EXCEPT !.status = "COMPLETED", !.shown = n]
      BY <2>8 DEF FinishInvestigation, sharingHistory
    <3>2. investigation'.shown = n
      BY <1>2, <3>1 DEF Investigations
    <3>3. /\ Lives' = Lives /\ Versions' = Versions /\ Pending = {n} /\ Pending' = {}
          /\ Unshown' = orphans /\ Unshown = orphans \cup {n}
      BY <3>1 DEF Lives, Versions, IsLive, Pending, Unshown
    <3>4. IsLive(n)
      BY <2>4, <3>1 DEF PendingHolds
    <3>5. IsNewest(investigation.shown)'
      <4>1. n \in Lives /\ \A v \in Lives : v <= n
        BY <1>2, <3>4 DEF Lives
      <4>2. \A v \in Lives : ~(v > n)
        BY <1>2, <4>1 DEF Lives
      <4> QED
        BY <3>2, <3>3, <4>1, <4>2 DEF IsNewest
    <3>6. PendingHolds'
      <4>1. versions[n].status # "INVALID"
        BY <3>4 DEF IsLive
      <4> QED
        BY <2>4, <3>1, <3>3, <4>1 DEF PendingHolds
    <3> QED
      BY <1>3, <2>2, <3>5, <3>6, QuietWorker
  <2>9. CASE SynthesisStops
    <3>1. /\ synthesis # "idle" /\ synthesis' = "idle" /\ UNCHANGED versions
          /\ orphans' = IF synthesis = "insert" THEN orphans ELSE orphans \cup {n}
          /\ investigation'.shown = investigation.shown
      BY <1>2, <2>9 DEF SynthesisStops, Investigations
    <3>2. /\ Lives' = Lives /\ Versions' = Versions /\ Pending' = {}
          /\ Unshown' = Unshown
      BY <3>1 DEF Lives, Versions, IsLive, Pending, Unshown
    <3>3. IsNewest(investigation.shown)'
      BY <2>3, <3>1, <3>2 DEF IsNewest
    <3>4. PendingHolds'
      BY <2>4, <3>1, <3>2 DEF PendingHolds
    <3> QED
      BY <1>3, <2>2, <3>3, <3>4, QuietWorker
  <2> QED
    BY <1>4, <2>5, <2>6, <2>7, <2>8, <2>9
<1>6. \/ UpdateVisibility \/ RemoveInvestigation \/ UNCHANGED sharingVars
      \/ ProcessAgain \/ synthesis # "idle"
  BY DEF InsertVersion, SaveInvalidVersion, SupersedeVersions, CompleteVersion,
         FinishInvestigation, SynthesisStops
<1> QED
  BY <1>4, <1>5, <1>6

\* report.service.ts:527-549: where requests came one after the other, the investigation
\* shows its newest version that was not removed, and none when all were, but for versions
\* whose synthesis was cut short before it pointed the investigation to them.
THEOREM NewestShows == SharingSpec => []NewestIsShown
<1>1. SharingInv /\ CalmIsQuiet /\ [SharingNext]_sharingVars => CalmIsQuiet'
  <2> SUFFICES ASSUME SharingInv, CalmIsQuiet, [SharingNext]_sharingVars, calm' PROVE WhenQuiet'
    BY DEF CalmIsQuiet
  <2>1. CASE \E p \in Owners : FindReport(p) \/ AssertOwned(p) \/ SaveReport(p) \/ FindLatest(p)
                                 \/ PointToLatest(p) \/ RequestDies(p)
    BY <2>1, RequestsKeepCalm
  <2>2. CASE \/ UpdateVisibility \/ RemoveInvestigation \/ ProcessAgain \/ InsertVersion
             \/ SaveInvalidVersion \/ SupersedeVersions \/ CompleteVersion
             \/ FinishInvestigation \/ SynthesisStops \/ UNCHANGED sharingVars
    BY <2>2, WorkerKeepsCalm
  <2> QED
    BY <2>1, <2>2 DEF SharingNext
<1>2. SharingInv /\ CalmIsQuiet => NewestIsShown
  <2> SUFFICES ASSUME SharingInv, CalmIsQuiet, calm, synthesis = "idle", \A p \in Owners : ~Serving(p)
               PROVE  /\ investigation.shown \in Lives \cup {0}
                      /\ \A v \in Lives : v > investigation.shown => v \in orphans
    BY DEF NewestIsShown, Lives, Versions
  <2>1. \A p \in Owners : asked[p].at = "free"
    BY WorkingIsRequest, NoRequestIsNone DEF SharingInv
  <2>2. IsNewest(investigation.shown) /\ Unshown = orphans
    BY <2>1 DEF CalmIsQuiet, WhenQuiet, ShownIsNewest, Unshown, Pending
  <2> QED
    BY <2>2 DEF IsNewest
<1> QED
  BY <1>1, <1>2, CalmInitially, SharingInvariant, PTL DEF SharingSpec

\* What readers are shown is what the owner last chose to show.
THEOREM OwnersDecide == SharingSpec => []SharingHolds
<1>1. WithdrawnStaysOut /\ NewestIsShown => SharingHolds
  BY DEF SharingHolds
<1> QED
  BY <1>1, WithdrawalHolds, NewestShows, PTL

-----------------------------------------------------------------------------
(* A complete version takes the place of the one before it.                *)

\* Complete, and not made so by a request.
IsCurrent(v) == versions[v].status = "COMPLETE" /\ v \notin restored

Settled == synthesis = "idle" /\ investigation.status = "COMPLETED"

\* Once the earlier versions are superseded only the last can be complete.
OneIsCurrent ==
  /\ \A v, w \in Versions : IsCurrent(v) /\ IsCurrent(w) => v = w
  /\ synthesis \in {"complete", "finish"} \/ Settled =>
       \A v \in Versions : IsCurrent(v) => v = Len(versions)
  /\ synthesis = "finish" \/ Settled =>
       versions[Len(versions)].status \in {"COMPLETE", "REVOKED", "DELETED"}

LEMMA CurrentInitially == SharingInit => OneIsCurrent
<1> SUFFICES ASSUME SharingInit PROVE OneIsCurrent
  OBVIOUS
<1>1. Len(versions) = 1 /\ Versions = {1} /\ versions[1].status = "COMPLETE"
  BY DEF SharingInit, Versions
<1> QED
  BY <1>1 DEF OneIsCurrent

\* No request makes a version complete but one it restores.
LEMMA RequestsKeepCurrent ==
  ASSUME SharingInv, OneIsCurrent, NEW p \in Owners,
         FindReport(p) \/ AssertOwned(p) \/ SaveReport(p) \/ FindLatest(p) \/ PointToLatest(p)
           \/ RequestDies(p)
  PROVE  OneIsCurrent'
<1>1. CASE ~SaveReport(p)
  <2>1. UNCHANGED <<versions, synthesis, restored>>
    BY <1>1 DEF FindReport, AssertOwned, FindLatest, PointToLatest, RequestDies, shared, sharingHistory
  <2>2. investigation'.status = investigation.status
    BY <1>1 DEF FindReport, AssertOwned, FindLatest, PointToLatest, RequestDies, shared,
       SharingInv, TypesHold, Investigations
  <2> QED
    BY <2>1, <2>2 DEF OneIsCurrent, IsCurrent, Settled, Versions
<1>2. CASE SaveReport(p)
  <2>1. PICK r, v : r = asked[p] /\ v = r.of
    OBVIOUS
  <2>2. /\ Versions' = Versions /\ Len(versions') = Len(versions) /\ v \in Versions
        /\ \A w \in Versions \ {v} : versions'[w] = versions[w]
        /\ r \in OwnerRequests
        /\ r.op \in {"UNLISTED", "PUBLIC"} => versions'[v].status =
             IF r.copy.status = "REVOKED" THEN "COMPLETE" ELSE versions[v].status
        /\ r.op = "PRIVATE" => versions'[v].status = versions[v].status
        /\ r.op = "revoke" => versions'[v].status \in {"REVOKED", versions[v].status}
        /\ r.op = "remove" => versions'[v].status \in {"DELETED", versions[v].status}
    BY <1>2, <2>1, SaveWritesStatus
  <2>3. /\ UNCHANGED <<investigation, synthesis>>
        /\ restored' = IF Edited(r.op, r.copy).status = "COMPLETE" /\ r.copy.status # "COMPLETE"
                       THEN restored \cup {v} ELSE restored
    BY <1>2, <2>1 DEF SaveReport
  <2>4. r.op \in {"UNLISTED", "PUBLIC", "PRIVATE", "revoke", "remove"} /\ r.copy \in Reports
    BY <2>2 DEF OwnerRequests, Ops
  <2>5. r.op \in {"UNLISTED", "PUBLIC"} /\ r.copy.status = "REVOKED" => v \in restored'
    <3> SUFFICES ASSUME r.op \in {"UNLISTED", "PUBLIC"}, r.copy.status = "REVOKED"
                 PROVE  v \in restored'
      OBVIOUS
    <3>1. Edited(r.op, r.copy) = WithLink(r.op, r.copy)
      BY DEF Edited
    <3>2. WithLink(r.op, r.copy).status = "COMPLETE"
      BY <2>4 DEF WithLink, Reports
    <3> QED
      BY <2>3, <3>1, <3>2
  <2>6. /\ restored \subseteq restored'
        /\ versions'[v].status \in {versions[v].status, "REVOKED", "DELETED"} \/ v \in restored'
        /\ versions'[v].status \in {versions[v].status, "COMPLETE", "REVOKED", "DELETED"}
    BY <2>2, <2>3, <2>4, <2>5
  <2>7. ASSUME NEW w \in Versions, IsCurrent(w)' PROVE IsCurrent(w)
    <3>1. CASE w = v
      BY <2>6, <2>7, <3>1 DEF IsCurrent
    <3>2. CASE w # v
      BY <2>2, <2>6, <2>7, <3>2 DEF IsCurrent
    <3> QED
      BY <3>1, <3>2
  <2>8. ASSUME versions[Len(versions)].status \in {"COMPLETE", "REVOKED", "DELETED"}
        PROVE  versions'[Len(versions)].status \in {"COMPLETE", "REVOKED", "DELETED"}
    <3>1. Len(versions) \in Versions
      BY VersionsAreReports DEF SharingInv, TypesHold
    <3>2. CASE Len(versions) = v
      BY <2>6, <2>8, <3>2
    <3>3. CASE Len(versions) # v
      BY <2>2, <2>8, <3>1, <3>3
    <3> QED
      BY <3>2, <3>3
  <2> QED
    BY <2>2, <2>3, <2>7, <2>8 DEF OneIsCurrent, Settled
<1> QED
  BY <1>1, <1>2

LEMMA WorkerKeepsCurrent ==
  ASSUME SharingInv, OneIsCurrent,
         \/ UpdateVisibility \/ RemoveInvestigation \/ ProcessAgain \/ InsertVersion
         \/ SaveInvalidVersion \/ SupersedeVersions \/ CompleteVersion \/ FinishInvestigation
         \/ SynthesisStops \/ UNCHANGED sharingVars
  PROVE  OneIsCurrent'
<1>0. UNCHANGED restored
  BY DEF UpdateVisibility, RemoveInvestigation, ProcessAgain, InsertVersion, SaveInvalidVersion,
         SupersedeVersions, CompleteVersion, FinishInvestigation, SynthesisStops, sharingVars,
         sharingHistory
<1>1. /\ versions \in Seq(Reports) /\ Len(versions) \in Nat /\ Len(versions) > 0
      /\ Versions = 1..Len(versions) /\ investigation \in Investigations
  BY VersionsAreReports DEF SharingInv, TypesHold
<1>2. CASE UpdateVisibility \/ RemoveInvestigation \/ UNCHANGED sharingVars
  <2>1. /\ UNCHANGED <<versions, synthesis>>
        /\ investigation'.status \in {investigation.status, "DELETED"}
    BY <1>1, <1>2 DEF UpdateVisibility, RemoveInvestigation, sharingVars, Investigations
  <2> QED
    BY <1>0, <2>1 DEF OneIsCurrent, IsCurrent, Settled, Versions
<1>3. CASE ProcessAgain \/ SynthesisStops
  <2>1. /\ UNCHANGED versions
        /\ synthesis' \in {"insert", "idle"} /\ investigation'.status # "COMPLETED"
    BY <1>1, <1>3 DEF ProcessAgain, SynthesisStops, Investigations
  <2> QED
    BY <1>0, <2>1 DEF OneIsCurrent, IsCurrent, Settled, Versions
<1>4. CASE InsertVersion
  <2> DEFINE new == Report(loaded)
  <2>1. versions' = Append(versions, new) /\ synthesis' = "validate"
    BY <1>4 DEF InsertVersion
  <2>2. new.status = "VALIDATING"
    BY DEF Report
  <2> HIDE DEF new
  <2>3. /\ \A v \in Versions' : v \in Versions \/ v = Len(versions) + 1
        /\ versions'[Len(versions) + 1] = new /\ \A v \in Versions : versions'[v] = versions[v]
    BY <1>1, <2>1 DEF Versions
  <2>4. \A v \in Versions' : IsCurrent(v)' => v \in Versions /\ IsCurrent(v)
    BY <1>0, <2>2, <2>3 DEF IsCurrent
  <2> QED
    BY <2>1, <2>4 DEF OneIsCurrent, Settled
<1>5. CASE SaveInvalidVersion \/ SupersedeVersions \/ CompleteVersion
  <2>1. PICK n : n = Len(versions)
    OBVIOUS
  <2>2. /\ Len(versions') = n /\ Versions' = Versions /\ n \in Versions
        /\ SupersedeVersions =>
             /\ versions'[n].status = versions[n].status
             /\ \A v \in Versions \ {n} : versions'[v].status =
                  IF versions[v].status = "COMPLETE" THEN "SUPERSEDED" ELSE versions[v].status
        /\ ~SupersedeVersions =>
             \A v \in Versions \ {n} : versions'[v].status = versions[v].status
        /\ SaveInvalidVersion => versions'[n].status = "INVALID"
        /\ CompleteVersion => versions'[n].status = "COMPLETE"
    BY <1>5, <2>1, StatusStepWrites
  <2>3. CASE SaveInvalidVersion
    <3>1. synthesis' = "throw"
      BY <2>3 DEF SaveInvalidVersion
    <3>2. ~SupersedeVersions
      BY <3>1 DEF SupersedeVersions
    <3>3. \A v \in Versions : IsCurrent(v)' => IsCurrent(v)
      BY <1>0, <2>2, <2>3, <3>2 DEF IsCurrent
    <3> QED
      BY <2>2, <3>1, <3>3 DEF OneIsCurrent, Settled
  <2>4. CASE SupersedeVersions
    <3>1. synthesis' = "complete"
      BY <2>4 DEF SupersedeVersions
    <3>2. \A v \in Versions : IsCurrent(v)' => v = n
      BY <1>0, <2>2, <2>4 DEF IsCurrent
    <3> QED
      BY <2>2, <3>1, <3>2 DEF OneIsCurrent, Settled
  <2>5. CASE CompleteVersion
    <3>1. synthesis = "complete" /\ synthesis' = "finish"
      BY <2>5 DEF CompleteVersion
    <3>2. ~SupersedeVersions
      BY <3>1 DEF SupersedeVersions
    <3>3. \A v \in Versions : IsCurrent(v) => v = n
      BY <2>1, <3>1 DEF OneIsCurrent
    <3>4. \A v \in Versions : IsCurrent(v)' => v = n
      BY <1>0, <2>2, <3>2, <3>3 DEF IsCurrent
    <3> QED
      BY <2>2, <2>5, <3>1, <3>4 DEF OneIsCurrent, Settled
  <2> QED
    BY <1>5, <2>3, <2>4, <2>5
<1>6. CASE FinishInvestigation
  <2>1. synthesis = "finish" /\ synthesis' = "idle" /\ UNCHANGED versions
    BY <1>6 DEF FinishInvestigation
  <2> QED
    BY <1>0, <2>1 DEF OneIsCurrent, IsCurrent, Versions
<1> QED
  BY <1>2, <1>3, <1>4, <1>5, <1>6

\* docs/reports.md:17-20: whatever syntheses were cut short and requests of the owner overlapped
\* them, at most one version is complete, and that of an investigation that has COMPLETED its
\* newest, but for those a request made complete again.
THEOREM VersionsAreOne == SharingSpec => []OneCompleteVersion
<1>1. SharingInv /\ OneIsCurrent /\ [SharingNext]_sharingVars => OneIsCurrent'
  <2> SUFFICES ASSUME SharingInv, OneIsCurrent, [SharingNext]_sharingVars PROVE OneIsCurrent'
    OBVIOUS
  <2>1. CASE \E p \in Owners : FindReport(p) \/ AssertOwned(p) \/ SaveReport(p) \/ FindLatest(p)
                                 \/ PointToLatest(p) \/ RequestDies(p)
    BY <2>1, RequestsKeepCurrent
  <2>2. CASE \/ UpdateVisibility \/ RemoveInvestigation \/ ProcessAgain \/ InsertVersion
             \/ SaveInvalidVersion \/ SupersedeVersions \/ CompleteVersion
             \/ FinishInvestigation \/ SynthesisStops \/ UNCHANGED sharingVars
    BY <2>2, WorkerKeepsCurrent
  <2> QED
    BY <2>1, <2>2 DEF SharingNext
<1>2. OneIsCurrent => OneCompleteVersion
  <2> SUFFICES ASSUME OneIsCurrent PROVE OneCompleteVersion
    OBVIOUS
  <2> DEFINE current == {v \in DOMAIN versions : versions[v].status = "COMPLETE"} \ restored
  <2>1. \A v \in current : v \in Versions /\ IsCurrent(v)
    BY DEF Versions, IsCurrent
  <2>2. Cardinality(current) <= 1
    <3>1. CASE current = {}
      BY <3>1, FS_EmptySet
    <3>2. CASE current # {}
      <4>1. PICK v \in current : TRUE
        BY <3>2
      <4>2. current = {v}
        BY <2>1, <4>1 DEF OneIsCurrent
      <4> HIDE DEF current
      <4>3. Cardinality({v}) = 1
        BY FS_Singleton
      <4> QED
        BY <4>2, <4>3
    <3> QED
      BY <3>1, <3>2
  <2>3. synthesis = "idle" /\ investigation.status = "COMPLETED" =>
          /\ current \subseteq {Len(versions)}
          /\ versions[Len(versions)].status \in {"COMPLETE", "REVOKED", "DELETED"}
    BY <2>1 DEF OneIsCurrent, Settled
  <2> QED
    BY <2>2, <2>3 DEF OneCompleteVersion
<1> QED
  BY <1>1, <1>2, CurrentInitially, SharingInvariant, PTL DEF SharingSpec

-----------------------------------------------------------------------------
(* The lease of a translation.                                             *)

LocalizationSpec == LocalizationInit /\ [][LocalizationNext]_localizationVars

ReadingStages == {"free", "insert", "lease", "translate", "again", "complete", "fall_back", "done"}

LeaseTypes ==
  /\ clock \in Nat
  /\ record \in [status : {"none", "FALLBACK", "PENDING", "COMPLETE"}, token : Readers \cup {0},
                 expires : Nat, retryable : BOOLEAN, after : Nat]
  /\ reading \in [Readers -> [at : ReadingStages, force : BOOLEAN, now : Nat,
                              failure : {"none", "retryable", "final"},
                              shows : {"none", "translation", "english"}]]

\* The record a holder stands on: it is PENDING with the lease of its holder.
HolderLeases ==
  \A r \in Readers : Translating(r) /\ Holds(r) =>
    /\ record.status = "PENDING"
    /\ record.expires = reading[r].now + LeaseTicks

\* A translator that does not hold the record has outlived its lease.
LosersAreLate ==
  \A r \in Readers : Translating(r) /\ ~Holds(r) => reading[r].now + LeaseTicks <= clock

\* A request read the clock before.
ClocksPassed == \A r \in Readers : reading[r].now <= clock

LeaseInv == LeaseTypes /\ HolderLeases /\ LosersAreLate /\ ClocksPassed
-----------------------------------------------------------------------------

\* Of two translators at most one holds the record; the other one is late.
LEMMA OnlyOneHolds == ASSUME LeaseInv PROVE OneTranslator
<1> SUFFICES ASSUME NEW r \in Readers, NEW s \in Readers, r # s, Translating(r), Translating(s)
             PROVE  \E late \in {r, s} : reading[late].now + LeaseTicks <= clock /\ ~Holds(late)
  BY DEF OneTranslator
<1>1. CASE ~Holds(r)
  BY <1>1 DEF LeaseInv, LosersAreLate
<1>2. CASE Holds(r)
  <2>1. ~Holds(s)
    BY <1>2 DEF Holds
  <2> QED
    BY <2>1 DEF LeaseInv, LosersAreLate
<1> QED
  BY <1>1, <1>2

\* Initially nobody translates.
LEMMA LeaseInitially == LocalizationInit => LeaseInv
<1> SUFFICES ASSUME LocalizationInit PROVE LeaseInv
  OBVIOUS
<1>1. LeaseTypes
  BY DEF LocalizationInit, NoRecord, NotAsked, LeaseTypes, ReadingStages
<1>2. \A r \in Readers : ~Translating(r) /\ reading[r].now = 0
  BY DEF LocalizationInit, NotAsked, Translating
<1>3. clock = 0
  BY DEF LocalizationInit
<1> QED
  BY <1>1, <1>2, <1>3 DEF LeaseInv, HolderLeases, LosersAreLate, ClocksPassed

-----------------------------------------------------------------------------
(***************************************************************************)
(* One lemma per part of the invariant, one step per action.               *)
(***************************************************************************)

\* An answer keeps the shape of the requests.
LEMMA AnswerTypes ==
  ASSUME LeaseTypes, NEW r \in Readers, NEW shows \in {"none", "translation", "english"}, Answer(r, shows)
  PROVE  reading' \in [Readers -> [at : ReadingStages, force : BOOLEAN, now : Nat,
                                   failure : {"none", "retryable", "final"},
                                   shows : {"none", "translation", "english"}]]
<1> DEFINE gone == [reading EXCEPT ![r].at = "done"]
<1>1. gone \in [Readers -> [at : ReadingStages, force : BOOLEAN, now : Nat,
                            failure : {"none", "retryable", "final"},
                            shows : {"none", "translation", "english"}]]
  BY DEF LeaseTypes, ReadingStages
<1>2. reading' = [gone EXCEPT ![r].shows = shows]
  BY DEF Answer
<1> HIDE DEF gone
<1> QED
  BY <1>1, <1>2

LEMMA LeaseTypeStep == LeaseTypes /\ [LocalizationNext]_localizationVars => LeaseTypes'
<1> SUFFICES ASSUME LeaseTypes, [LocalizationNext]_localizationVars PROVE LeaseTypes'
  OBVIOUS
<1> USE LocalizationAssumption DEF LeaseTypes, ReadingStages
<1>1. CASE UNCHANGED localizationVars
  BY <1>1 DEF localizationVars
<1>2. CASE Tick
  BY <1>2 DEF Tick
<1>3. ASSUME NEW r \in Readers, FindRecord(r) PROVE LeaseTypes'
  BY <1>3 DEF FindRecord, Present, Answer, ReaderAt
<1>4. ASSUME NEW r \in Readers, InsertRecord(r) PROVE LeaseTypes'
  BY ZenonT(60), <1>4 DEF InsertRecord, Step, NoRecord
<1>5. ASSUME NEW r \in Readers, TakeLease(r) PROVE LeaseTypes'
  <2>1. record' \in [status : {"none", "FALLBACK", "PENDING", "COMPLETE"}, token : Readers \cup {0},
                     expires : Nat, retryable : BOOLEAN, after : Nat]
    <3>1. reading[r].now + LeaseTicks \in Nat
      OBVIOUS
    <3> QED
      BY <1>5, <3>1 DEF TakeLease
  <2>2. reading' \in [Readers -> [at : ReadingStages, force : BOOLEAN, now : Nat,
                                  failure : {"none", "retryable", "final"},
                                  shows : {"none", "translation", "english"}]]
    BY <1>5 DEF TakeLease, Step, Present, Answer
  <2> QED
    BY <1>5, <2>1, <2>2 DEF TakeLease
<1>6. ASSUME NEW r \in Readers, Translate(r) PROVE LeaseTypes'
  BY <1>6 DEF Translate, Step
<1>7. ASSUME NEW r \in Readers, TranslateAgain(r) PROVE LeaseTypes'
  BY <1>7 DEF TranslateAgain, Step
<1>8. ASSUME NEW r \in Readers, WriteComplete(r) PROVE LeaseTypes'
  <2>1. record' \in [status : {"none", "FALLBACK", "PENDING", "COMPLETE"}, token : Readers \cup {0},
                     expires : Nat, retryable : BOOLEAN, after : Nat]
    BY <1>8 DEF WriteComplete, NoRecord
  <2>2. reading' \in [Readers -> [at : ReadingStages, force : BOOLEAN, now : Nat,
                                  failure : {"none", "retryable", "final"},
                                  shows : {"none", "translation", "english"}]]
    BY <1>8, AnswerTypes DEF WriteComplete
  <2> QED
    BY <1>8, <2>1, <2>2 DEF WriteComplete
<1>9. ASSUME NEW r \in Readers, WriteFallback(r) PROVE LeaseTypes'
  <2>1. record' \in [status : {"none", "FALLBACK", "PENDING", "COMPLETE"}, token : Readers \cup {0},
                     expires : Nat, retryable : BOOLEAN, after : Nat]
    <3> DEFINE after == IF reading[r].failure = "retryable" THEN clock + RetryTicks ELSE 0
               again == reading[r].failure = "retryable"
    <3>1. after \in Nat
      OBVIOUS
    <3>2. again \in BOOLEAN
      OBVIOUS
    <3>3. record' = IF Holds(r) THEN [NoRecord EXCEPT !.status = "FALLBACK", !.retryable = again, !.after = after]
                    ELSE record
      BY <1>9 DEF WriteFallback
    <3> HIDE DEF after, again
    <3> QED
      BY <3>1, <3>2, <3>3 DEF NoRecord
  <2>2. reading' \in [Readers -> [at : ReadingStages, force : BOOLEAN, now : Nat,
                                  failure : {"none", "retryable", "final"},
                                  shows : {"none", "translation", "english"}]]
    BY <1>9, AnswerTypes DEF WriteFallback
  <2> QED
    BY <1>9, <2>1, <2>2 DEF WriteFallback
<1>10. ASSUME NEW r \in Readers, ReaderDies(r) PROVE LeaseTypes'
  BY <1>10 DEF ReaderDies, Step
<1> QED
  BY <1>1, <1>2, <1>3, <1>4, <1>5, <1>6, <1>7, <1>8, <1>9, <1>10 DEF LocalizationNext

\* What a step of one request leaves of the others, and of itself.
LEMMA LeaseStep == LeaseInv /\ [LocalizationNext]_localizationVars
                     => HolderLeases' /\ LosersAreLate' /\ ClocksPassed'
<1> SUFFICES ASSUME LeaseInv, [LocalizationNext]_localizationVars
             PROVE  HolderLeases' /\ LosersAreLate' /\ ClocksPassed'
  OBVIOUS
<1> DEFINE Kept == HolderLeases' /\ LosersAreLate' /\ ClocksPassed'
<1> USE LocalizationAssumption
    DEF LeaseInv, LeaseTypes, HolderLeases, LosersAreLate, ClocksPassed, Translating, Holds
<1>1. CASE UNCHANGED localizationVars
  BY <1>1 DEF localizationVars
<1>2. CASE Tick
  BY <1>2 DEF Tick
<1>3. ASSUME NEW r \in Readers, FindRecord(r) PROVE Kept
  BY <1>3 DEF FindRecord, Present, Answer, ReaderAt
<1>4. ASSUME NEW r \in Readers, InsertRecord(r) PROVE Kept
  <2>1. record # NoRecord => record' = record
    BY <1>4 DEF InsertRecord
  <2>2. record = NoRecord => \A s \in Readers : Translating(s) => ~Holds(s)
    BY DEF NoRecord
  <2>3. record = NoRecord => record'.token = 0
    BY <1>4 DEF InsertRecord, NoRecord
  <2>4. \A s \in Readers : /\ reading'[s].now = reading[s].now
                           /\ Translating(s)' => Translating(s)
    BY <1>4 DEF InsertRecord, Step, ReaderAt
  <2>5. clock' = clock
    BY <1>4 DEF InsertRecord
  <2> QED
    BY <2>1, <2>2, <2>3, <2>4, <2>5
<1>5. ASSUME NEW r \in Readers, TakeLease(r) PROVE Kept
  <2>1. CASE Leasable(reading[r].now)
    <3>1. \A s \in Readers : Translating(s) /\ Holds(s) => reading[s].now + LeaseTicks <= clock
      BY <2>1 DEF Leasable
    <3>2. /\ record'.token = r /\ record'.status = "PENDING"
          /\ record'.expires = reading[r].now + LeaseTicks
          /\ clock' = clock
      BY <1>5, <2>1 DEF TakeLease
    <3>3. /\ \A s \in Readers : reading'[s].now = reading[s].now
          /\ \A s \in Readers \ {r} : reading'[s] = reading[s]
      BY <1>5, <2>1 DEF TakeLease, Step
    <3> QED
      BY <3>1, <3>2, <3>3
  <2>2. CASE ~Leasable(reading[r].now)
    BY <1>5, <2>2 DEF TakeLease, Present, Answer
  <2> QED
    BY <2>1, <2>2
<1>6. ASSUME NEW r \in Readers, Translate(r) PROVE Kept
  BY <1>6 DEF Translate, Step, ReaderAt
<1>7. ASSUME NEW r \in Readers, TranslateAgain(r) PROVE Kept
  BY <1>7 DEF TranslateAgain, Step, ReaderAt
<1>8. ASSUME NEW r \in Readers, WriteComplete(r) PROVE Kept
  <2>1. /\ \A s \in Readers \ {r} : reading'[s] = reading[s]
        /\ reading'[r].now = reading[r].now /\ ~Translating(r)' /\ clock' = clock
    BY <1>8 DEF WriteComplete, Answer
  <2>2. CASE Holds(r)
    BY <1>8, <2>1, <2>2 DEF WriteComplete, NoRecord
  <2>3. CASE ~Holds(r)
    BY <1>8, <2>1, <2>3 DEF WriteComplete
  <2> QED
    BY <2>2, <2>3
<1>9. ASSUME NEW r \in Readers, WriteFallback(r) PROVE Kept
  <2>1. /\ \A s \in Readers \ {r} : reading'[s] = reading[s]
        /\ reading'[r].now = reading[r].now /\ ~Translating(r)' /\ clock' = clock
    BY <1>9 DEF WriteFallback, Answer
  <2>2. CASE Holds(r)
    BY <1>9, <2>1, <2>2 DEF WriteFallback, NoRecord
  <2>3. CASE ~Holds(r)
    BY <1>9, <2>1, <2>3 DEF WriteFallback
  <2> QED
    BY <2>2, <2>3
<1>10. ASSUME NEW r \in Readers, ReaderDies(r) PROVE Kept
  BY <1>10 DEF ReaderDies, Step, ReaderAt
<1> QED
  BY <1>1, <1>2, <1>3, <1>4, <1>5, <1>6, <1>7, <1>8, <1>9, <1>10 DEF LocalizationNext

LEMMA LeaseKept == LeaseInv /\ [LocalizationNext]_localizationVars => LeaseInv'
  BY LeaseTypeStep, LeaseStep DEF LeaseInv

\* A writer that may write holds a PENDING record, so a COMPLETE one is only leased again.
LEMMA StandsStep == LeaseInv /\ [LocalizationNext]_localizationVars => TranslationStands
<1> SUFFICES ASSUME LeaseInv, [LocalizationNext]_localizationVars,
                    record.status = "COMPLETE", record' # record
             PROVE  record'.status = "PENDING"
  BY DEF TranslationStands
<1>1. ASSUME NEW r \in Readers, TakeLease(r) PROVE record'.status = "PENDING"
  BY <1>1 DEF TakeLease, LeaseInv, LeaseTypes
<1>2. ASSUME NEW r \in Readers, InsertRecord(r) PROVE FALSE
  BY <1>2 DEF InsertRecord, NoRecord
<1>3. ASSUME NEW r \in Readers, WriteComplete(r) \/ WriteFallback(r) PROVE FALSE
  <2>1. Translating(r)
    BY <1>3 DEF WriteComplete, WriteFallback, ReaderAt, Translating
  <2>2. Holds(r)
    BY <1>3 DEF WriteComplete, WriteFallback
  <2> QED
    BY <2>1, <2>2 DEF LeaseInv, HolderLeases
<1>4. ASSUME NEW r \in Readers,
             \/ FindRecord(r) \/ Translate(r) \/ TranslateAgain(r) \/ ReaderDies(r)
      PROVE  FALSE
  BY <1>4 DEF FindRecord, Translate, TranslateAgain, ReaderDies
<1> QED
  BY <1>1, <1>2, <1>3, <1>4 DEF LocalizationNext, Tick, localizationVars

-----------------------------------------------------------------------------
\* The invariant holds in every state.
THEOREM LeaseInvariant == LocalizationSpec => []LeaseInv
<1> QED
  BY LeaseInitially, LeaseKept, PTL DEF LocalizationSpec

\* report-localization.service.ts:152-177, :222-243: one request translates at a time, unless
\* it outlived its lease, and no result replaces a translation, however long the providers
\* take and wherever requests die.
THEOREM LeaseWorks == LocalizationSpec => TranslationHolds
<1>1. LeaseInv /\ [LocalizationNext]_localizationVars /\ LeaseInv'
        => [OneTranslator' /\ TranslationStands]_localizationVars
  <2>1. LeaseInv => OneTranslator
    BY OnlyOneHolds
  <2>2. LeaseInv' => OneTranslator'
    BY <2>1, PTL
  <2> QED
    BY <2>2, StandsStep
<1> QED
  BY <1>1, LeaseInitially, LeaseKept, PTL DEF LocalizationSpec, TranslationHolds

-----------------------------------------------------------------------------
(* The client of the event stream.                                         *)

StreamSpec == StreamInit /\ [][StreamNext]_streamVars

-----------------------------------------------------------------------------
(* The last of a set of sequences.                                         *)

LEMMA LastIsGreatest ==
  ASSUME NEW n \in Nat, NEW S \in SUBSET (1..n)
  PROVE  /\ LastOf(S) \in 0..n
         /\ \A x \in S : x <= LastOf(S)
         /\ S # {} => LastOf(S) \in S
<1>1. CASE S = {}
  BY <1>1 DEF LastOf
<1>2. CASE S # {}
  <2>1. LastOf(S) \in S /\ \A x \in S : x <= LastOf(S)
    BY <1>2, GreatestExists DEF LastOf
  <2>2. \A x \in S : x \in 0..n
    OBVIOUS
  <2> QED
    BY <2>1, <2>2
<1> QED
  BY <1>1, <1>2

\* More sequences end no earlier.
LEMMA LastGrows ==
  ASSUME NEW n \in Nat, NEW S \in SUBSET (1..n), NEW T \in SUBSET (1..n), S \subseteq T
  PROVE  LastOf(S) <= LastOf(T)
BY LastIsGreatest

\* A page is initial in what follows its cursor.
LEMMA PageIsInitial ==
  ASSUME NEW n \in Nat, stored \in SUBSET (1..n), NEW after \in Nat,
         NEW s \in stored, NEW last \in Page(after), after < s, s <= last
  PROVE  s \in Page(after)
<1> DEFINE before(v) == {t \in stored : t > after /\ t < v}
<1>1. IsFiniteSet(stored)
  <2>1. IsFiniteSet(1..n)
    BY FS_Interval
  <2> QED
    BY <2>1, FS_Subset
<1>2. before(s) \in SUBSET before(last) /\ before(last) \in SUBSET stored
  <2>1. last \in stored
    BY DEF Page
  <2>2. \A t \in stored : t \in Nat
    OBVIOUS
  <2>3. \A t \in stored : t < s => t < last
    BY <2>1, <2>2
  <2> QED
    BY <2>3
<1>3. /\ Cardinality(before(s)) \in Nat /\ Cardinality(before(last)) \in Nat
      /\ Cardinality(before(s)) <= Cardinality(before(last))
  <2>1. IsFiniteSet(before(last))
    BY <1>1, <1>2, FS_Subset
  <2> HIDE DEF before
  <2> QED
    BY <1>2, <2>1, FS_Subset, FS_CardinalityType
<1>4. Cardinality(before(last)) < PageSize
  BY DEF Page
<1>5. Cardinality(before(s)) < PageSize
  <2> HIDE DEF before
  <2> QED
    BY <1>3, <1>4, StreamAssumption
<1> QED
  BY <1>5 DEF Page

-----------------------------------------------------------------------------
(* The invariant.                                                          *)

WritingStages == {"draw", "store", "emit", "done"}

Numbered ==
  /\ eventSequence \in Nat
  /\ stored \in SUBSET (1..eventSequence)
  /\ writing \in [Writers -> [at : WritingStages, sequence : 0..eventSequence]]
  /\ \A w \in Writers : writing[w].at \in {"store", "emit"} => writing[w].sequence > 0
  /\ client \in [at : {"away", "listed", "live"}, seen : SUBSET (1..eventSequence),
                 history : SUBSET (1..eventSequence)]
  /\ client.at # "listed" => client.history = {}

\* What the client saw, and what it saw with the page it holds, has only known gaps.
GapsAreKnown(had) == \A s \in stored : s < LastOf(had) => s \in had \cup unheard

SeenIsWhole == GapsAreKnown(client.seen)
HeldIsWhole == GapsAreKnown(client.seen \cup client.history)

StreamInv == Numbered /\ SeenIsWhole /\ HeldIsWhole

LEMMA StreamInitially == StreamInit => StreamInv
BY DEF StreamInit, StreamInv, Numbered, SeenIsWhole, HeldIsWhole, GapsAreKnown, WritingStages

\* Steps of a writer that leave the stored events and the client alone.
LEMMA WriterMoves ==
  ASSUME StreamInv, NEW w \in Writers, DrawSequence(w) \/ WriterDies(w)
  PROVE  StreamInv'
<1>1. Numbered'
  <2>1. CASE DrawSequence(w)
    BY <2>1 DEF StreamInv, Numbered, DrawSequence, WriterAt, WritingStages
  <2>2. CASE WriterDies(w)
    BY <2>2 DEF StreamInv, Numbered, WriterDies, WriterGoes, WritingStages
  <2> QED
    BY <2>1, <2>2
<1>2. UNCHANGED <<stored, client, unheard>>
  BY DEF DrawSequence, WriterDies
<1> QED
  BY <1>1, <1>2 DEF StreamInv, SeenIsWhole, HeldIsWhole, GapsAreKnown

LEMMA WriterStores ==
  ASSUME StreamInv, NEW w \in Writers, StoreEvent(w)
  PROVE  StreamInv'
<1> DEFINE n == writing[w].sequence
           held == client.seen \cup client.history
<1>1. n \in 1..eventSequence /\ eventSequence \in Nat
  BY DEF StreamInv, Numbered, StoreEvent, WriterAt
<1>2. Numbered'
  BY <1>1 DEF StreamInv, Numbered, StoreEvent, WriterGoes, WritingStages
<1>3. client.seen \in SUBSET (1..eventSequence) /\ held \in SUBSET (1..eventSequence)
  BY DEF StreamInv, Numbered
<1>4. /\ LastOf(client.seen) <= LastOf(held)
      /\ LastOf(client.seen) \in 0..eventSequence /\ LastOf(held) \in 0..eventSequence
  BY <1>1, <1>3, LastGrows, LastIsGreatest
<1>5. n < LastOf(held) => n \in unheard'
  BY DEF StoreEvent
<1>6. n < LastOf(client.seen) => n \in unheard'
  BY <1>1, <1>4, <1>5
<1>7. stored' = stored \cup {n} /\ client' = client /\ unheard \subseteq unheard'
  BY DEF StoreEvent
<1> QED
  BY <1>2, <1>5, <1>6, <1>7 DEF StreamInv, SeenIsWhole, HeldIsWhole, GapsAreKnown

LEMMA WriterEmits ==
  ASSUME StreamInv, NEW w \in Writers, EmitEvent(w)
  PROVE  StreamInv'
<1> DEFINE n == writing[w].sequence
<1>1. n \in 1..eventSequence /\ eventSequence \in Nat
  BY DEF StreamInv, Numbered, EmitEvent, WriterAt
<1>2. CASE UNCHANGED <<client, unheard>>
  <2>1. Numbered'
    BY <1>2 DEF StreamInv, Numbered, EmitEvent, WriterGoes, WritingStages
  <2> QED
    BY <1>2, <2>1 DEF StreamInv, SeenIsWhole, HeldIsWhole, GapsAreKnown, EmitEvent
<1>3. CASE /\ client.at = "live"
           /\ client' = [client EXCEPT !.seen = @ \cup {n}]
           /\ unheard' = unheard \cup (1..(n - 1) \ client.seen)
  <2>1. Numbered'
    BY <1>1, <1>3 DEF StreamInv, Numbered, EmitEvent, WriterGoes, WritingStages
  <2>2. /\ client.seen \in SUBSET (1..eventSequence) /\ client.history = {}
        /\ client'.seen = client.seen \cup {n} /\ client'.history = {}
        /\ stored' = stored /\ stored \in SUBSET (1..eventSequence)
    BY <1>1, <1>3 DEF StreamInv, Numbered, EmitEvent
  <2>3. client'.seen \in SUBSET (1..eventSequence)
    BY <1>1, <2>2
  <2>4. ASSUME NEW s \in stored, s < LastOf(client'.seen)
        PROVE  s \in client'.seen \cup unheard'
    <3>1. LastOf(client'.seen) \in client.seen \cup {n}
      BY <1>1, <2>2, <2>3, LastIsGreatest
    <3>2. s \in 1..eventSequence
      BY <2>2
    <3>3. CASE LastOf(client'.seen) = n
      BY <1>1, <1>3, <2>2, <2>4, <3>2, <3>3
    <3>4. CASE LastOf(client'.seen) \in client.seen
      <4>1. LastOf(client'.seen) <= LastOf(client.seen) /\ LastOf(client.seen) \in 0..eventSequence
        BY <1>1, <2>2, <3>4, LastIsGreatest
      <4>2. s < LastOf(client.seen)
        BY <1>1, <2>2, <2>4, <3>2, <3>4, <4>1
      <4> QED
        BY <1>3, <2>2, <4>2 DEF StreamInv, SeenIsWhole, GapsAreKnown
    <3> QED
      BY <3>1, <3>3, <3>4
  <2>5. client'.seen \cup client'.history = client'.seen
    BY <2>2
  <2> QED
    BY <2>1, <2>2, <2>4, <2>5 DEF StreamInv, SeenIsWhole, HeldIsWhole, GapsAreKnown
<1> QED
  BY <1>2, <1>3 DEF EmitEvent

LEMMA ClientLists ==
  ASSUME StreamInv, ListEvents
  PROVE  StreamInv'
<1> DEFINE after == LastOf(client.seen)
           held == client.seen \cup Page(after)
<1>1. /\ eventSequence \in Nat /\ stored \in SUBSET (1..eventSequence)
      /\ client.seen \in SUBSET (1..eventSequence) /\ client.history = {}
      /\ client'.seen = client.seen /\ client'.history = Page(after)
      /\ UNCHANGED <<eventSequence, stored, writing, unheard>>
  BY DEF StreamInv, Numbered, ListEvents
<1>2. Page(after) \in SUBSET stored
  BY DEF Page
<1>3. Numbered'
  BY <1>1, <1>2 DEF StreamInv, Numbered, ListEvents
<1>4. held \in SUBSET (1..eventSequence) /\ after \in 0..eventSequence
  BY <1>1, <1>2, LastIsGreatest
<1>5. ASSUME NEW s \in stored, s < LastOf(held)
      PROVE  s \in held \cup unheard
  <2>1. s \in 1..eventSequence /\ LastOf(held) \in held /\ LastOf(held) \in 1..eventSequence
    <3>1. LastOf(held) \in 0..eventSequence /\ (held # {} => LastOf(held) \in held)
      BY <1>1, <1>4, LastIsGreatest
    <3>2. held = {} => LastOf(held) = 0
      BY DEF LastOf
    <3>3. s \in 1..eventSequence
      BY <1>1
    <3>4. held # {}
      BY <1>5, <3>2, <3>3
    <3> HIDE DEF held
    <3> QED
      BY <1>4, <3>1, <3>3, <3>4
  <2>2. CASE s < after
    BY <2>2 DEF StreamInv, SeenIsWhole, GapsAreKnown
  <2>3. CASE s = after
    <3>1. after # 0
      BY <2>1, <2>3
    <3>2. client.seen # {}
      BY <3>1 DEF LastOf
    <3> QED
      BY <1>1, <2>3, <3>2, LastIsGreatest
  <2>4. CASE after < s
    <3>1. LastOf(held) \notin client.seen
      BY <1>1, <1>4, <1>5, <2>1, <2>4, LastIsGreatest
    <3>2. LastOf(held) \in Page(after) /\ s <= LastOf(held)
      BY <1>5, <2>1, <3>1
    <3>3. s \in Page(after)
      <4> HIDE DEF after, held
      <4> QED
        BY <1>1, <1>4, <2>4, <3>2, PageIsInitial
    <3> QED
      BY <3>3
  <2> QED
    BY <1>4, <2>1, <2>2, <2>3, <2>4
<1>6. HeldIsWhole'
  <2> HIDE DEF after
  <2> QED
    BY <1>1, <1>5 DEF HeldIsWhole, GapsAreKnown
<1>7. SeenIsWhole'
  BY <1>1 DEF StreamInv, SeenIsWhole, GapsAreKnown
<1> QED
  BY <1>3, <1>6, <1>7 DEF StreamInv

LEMMA ClientMoves ==
  ASSUME StreamInv, Follow \/ Disconnect
  PROVE  StreamInv'
<1>1. CASE Follow
  <2>1. /\ client'.seen = client.seen \cup client.history /\ client'.history = {}
        /\ UNCHANGED <<stored, unheard>> /\ Numbered'
    BY <1>1 DEF StreamInv, Numbered, Follow
  <2>2. client'.seen \cup client'.history = client.seen \cup client.history
    BY <2>1
  <2> QED
    BY <2>1, <2>2 DEF StreamInv, SeenIsWhole, HeldIsWhole, GapsAreKnown
<1>2. CASE Disconnect
  <2>1. /\ client'.seen = client.seen /\ client'.history = {}
        /\ UNCHANGED <<stored, unheard>> /\ Numbered'
    BY <1>2 DEF StreamInv, Numbered, Disconnect
  <2>2. client'.seen \cup client'.history = client.seen
    BY <2>1
  <2> QED
    BY <2>1, <2>2 DEF StreamInv, SeenIsWhole, HeldIsWhole, GapsAreKnown
<1> QED
  BY <1>1, <1>2

LEMMA StreamInvariant == StreamSpec => []StreamInv
<1>1. StreamInv /\ [StreamNext]_streamVars => StreamInv'
  <2> SUFFICES ASSUME StreamInv, [StreamNext]_streamVars PROVE StreamInv'
    OBVIOUS
  <2>1. CASE \E w \in Writers : DrawSequence(w) \/ StoreEvent(w) \/ EmitEvent(w) \/ WriterDies(w)
    BY <2>1, WriterMoves, WriterStores, WriterEmits
  <2>2. CASE ListEvents \/ Follow \/ Disconnect
    BY <2>2, ClientLists, ClientMoves
  <2>3. CASE UNCHANGED streamVars
    BY <2>3 DEF streamVars, StreamInv, Numbered, SeenIsWhole, HeldIsWhole, GapsAreKnown
  <2> QED
    BY <2>1, <2>2, <2>3 DEF StreamNext
<1> QED
  BY StreamInitially, <1>1, PTL DEF StreamSpec

\* docs/verification-pipeline.md:125-127: however writers, pages and connections interleave,
\* a client passes over a recorded event only where that event was stored after one with a
\* higher sequence, or where a live event overtook it.
THEOREM CatchUpIsWhole == StreamSpec => []OnlyOvertakenAreMissed
<1>1. StreamInv => OnlyOvertakenAreMissed
  BY DEF StreamInv, SeenIsWhole, GapsAreKnown, OnlyOvertakenAreMissed
<1> QED
  BY <1>1, StreamInvariant, PTL

-----------------------------------------------------------------------------
(* Investigation: what a report stands on.                                 *)

LEMMA IntervalsAreFinite == \A n \in Nat : IsFiniteSet(1..n)
<1> TAKE n \in Nat
<1>1. 1 \in Int /\ n \in Int
  OBVIOUS
<1> QED
  BY <1>1, FS_Interval

WorkStages ==
  {"idle", "extract", "claim", "prepare_blank", "drop_claims", "insert_claims", "prepare",
   "drop_evidence", "search", "compare", "drop_evaluations", "evaluate", "relate", "conclude",
   "synthesize", "validate", "complete", "finish"}

\* Where a pass stands: it has no claims yet; no evaluation knows its sources; it holds
\* claims; the claims stored are its own; it has the model's answer.
Unread == {"extract", "claim", "prepare_blank"}
Unjudged == {"extract", "claim", "drop_claims", "insert_claims", "prepare", "drop_evidence", "search"}
Answered == {"drop_evaluations", "evaluate", "relate", "conclude"}
Stored == {"prepare", "drop_evidence", "search", "compare"} \cup Answered
Claiming == {"drop_claims", "insert_claims"} \cup Stored
OfClaims == InStage("synthesize") /\ work.claims # <<>>
Reached(stages) == stage \in stages \/ OfClaims

WorkFields == {"claims", "todo", "hits", "seen", "cache", "left", "entries", "manipulation", "missing"}
SourceFields == {"id", "claim", "canonical", "hash", "access", "relation", "lineage"}
ReportFields == {"status", "fresh", "verdict", "risk", "manipulation", "missing", "claims", "evidence"}

\* The source e counts for or against this claim.
CountsFor(e, claim) == e.claim = claim /\ e.access \in Readable /\ e.lineage = "UNIQUE"
Apart(e, f) ==
  e.claim = f.claim /\ e.lineage = "UNIQUE" /\ f.lineage = "UNIQUE" /\ e # f =>
    e.canonical # f.canonical /\ (e.hash # f.hash \/ e.hash = "none")

\* Sources have identities of their own, also across passes, and are no copies.
EvidenceStored ==
  /\ IsFiniteSet(evidence)
  /\ \A e \in evidence : SourceFields \subseteq DOMAIN e /\ e.id \in Nat \X Nat /\ e.id[1] <= pass
  /\ \A e, f \in evidence : e.id = f.id => e = f
  /\ \A e, f \in evidence : Apart(e, f)
  /\ InStage("search") => \A e \in evidence : \E k \in 1..Cardinality(evidence) : e.id = <<pass, k>>

\* An evaluation, of whichever pass, cites no source stored now that does not count
\* for its claim, and none that is still to be stored.
CitationsHold ==
  \A v \in evaluations :
    /\ \A id \in Cited(v) : /\ id \in Nat \X Nat /\ id[1] <= pass
                            /\ stage \in Unjudged => id[1] < pass
    /\ \A e \in evidence : e.id \in Cited(v) => CountsFor(e, v.claim)

\* The report agrees with itself.
Agreeing(verdict, risk, manipulation, missing, items, sources) ==
  LET judged == {[id |-> item.id, verifiability |-> item.verifiability,
                  importance |-> item.importance, verdict |-> item.verdict] : item \in items}
      marked(item, relation) == {e.id : e \in {x \in sources :
                                   /\ x.claim = item.id /\ x.relation = relation
                                   /\ x.access \in Readable /\ x.lineage = "UNIQUE"}}
  IN /\ [verdict |-> verdict, risk |-> risk] = Overall(judged, manipulation, missing)
     /\ \A item \in items : item.once =>
          /\ item.supporting = marked(item, "SUPPORTS")
          /\ item.contradicting = marked(item, "CONTRADICTS")
Agrees(r) == Agreeing(r.verdict, r.risk, r.manipulation, r.missing, r.claims, r.evidence)

ReportHolds(r) ==
  /\ ReportFields \subseteq DOMAIN r
  /\ r.status \in {"COMPLETE", "SUPERSEDED"} => Valid(r)
  /\ \A item \in r.claims, e \in r.evidence : e.id \in Cited(item) => CountsFor(e, item.id)
  /\ r.fresh => Agrees(r)
IsListed(s) == Len(s) \in Nat /\ DOMAIN s = 1..Len(s) /\ s = [v \in DOMAIN s |-> s[v]]
ReportsStored == IsListed(reports) /\ \A v \in DOMAIN reports : ReportHolds(reports[v])

\* The version under synthesis is valid before it is completed.
VersionsHold ==
  /\ InStage("validate") => Newest \in DOMAIN reports /\ reports[Newest].status = "VALIDATING"
  /\ InStage("complete") => Newest \in DOMAIN reports /\ Valid(reports[Newest])
  /\ ~InStage("idle") => status = "PROCESSING"

\* The claims of a pass have identities of their own.
ClaimsStored ==
  /\ stage \in Unread => work.claims = <<>>
  /\ Reached(Claiming) =>
       /\ IsListed(work.claims) /\ work.claims # <<>>
       /\ \A i \in DOMAIN work.claims : work.claims[i].id = <<pass, i>>
  /\ Reached(Stored) => claims = ToSet(work.claims)

\* An entry of the answer names sources of its claim only.
EntriesHold ==
  Reached(Answered) =>
    /\ IsFiniteSet(DOMAIN work.entries) /\ DOMAIN work.entries \subseteq Nat
    /\ \A i \in DOMAIN work.entries, e \in evidence :
         e.id \in DOMAIN work.entries[i].links => e.claim = work.entries[i].claim

\* The sources of a claim that the answer relates to it so, and whether it spoke of it once.
Related(claim, relation) ==
  {e.id : e \in {x \in evidence : /\ CountsFor(x, claim)
                                  /\ x.id \in DOMAIN Links(work.entries, claim)
                                  /\ Links(work.entries, claim)[x.id] = relation}}
SpokenOnce(claim) == Cardinality({i \in DOMAIN work.entries : work.entries[i].claim = claim}) <= 1

\* These claims have their evaluation, each one.
EvaluatedAre(cs) ==
  /\ \A c \in cs : \E v \in evaluations : v.claim = c.id
  /\ \A v, w \in evaluations : v.claim = w.claim => v = w
  /\ \A v \in evaluations :
       /\ \E c \in cs : v.claim = c.id
       /\ v.supporting = Related(v.claim, "SUPPORTS")
       /\ v.contradicting = Related(v.claim, "CONTRADICTS")
       /\ v.once = SpokenOnce(v.claim)
EvaluationsHold ==
  /\ InStage("drop_evaluations") => work.left = claims
  /\ InStage("evaluate") => work.left \subseteq claims /\ EvaluatedAre(claims \ work.left)
  /\ Reached({"relate", "conclude"}) => EvaluatedAre(claims)

\* A verifiable claim has its queries from the start.
QueriesPlanned ==
  Reached(Claiming) => \A i \in DOMAIN work.claims :
    LET claim == work.claims[i]
    IN claim.verifiability \in Verifiable => claim.queries # <<>> \/ claim.foreign

Concluded(given) == [verdict |-> given.verdict, risk |-> given.risk,
                     manipulation |-> work.manipulation, missing |-> work.missing]
AnalysisHolds ==
  /\ Reached({"conclude"}) => \A e \in evidence : e.relation = Relation(work.entries, e)
  /\ OfClaims =>
       analysis = Concluded(Overall(Judged(evaluations), work.manipulation, work.missing))

Fields == load \in Loads /\ pass \in Nat /\ stage \in WorkStages /\ DOMAIN work = WorkFields
SourcesHold == EvidenceStored /\ CitationsHold
ReadingHolds == ClaimsStored /\ EntriesHold /\ EvaluationsHold /\ AnalysisHolds
ReportingHolds == ReportsStored /\ VersionsHold
InvestigationInv == Fields /\ SourcesHold /\ ReadingHolds /\ ReportingHolds /\ QueriesPlanned

-----------------------------------------------------------------------------
(* Sources and the evaluations that cite them.                             *)

LEMMA SourcesKept ==
  ASSUME SourcesHold, UNCHANGED <<evidence, evaluations, pass>>,
         stage' \in Unjudged => stage \in Unjudged,
         InStage("search")' => InStage("search") \/ evidence = {}
  PROVE  SourcesHold'
<1>1. EvidenceStored'
  BY DEF SourcesHold, EvidenceStored
<1>2. CitationsHold'
  BY DEF SourcesHold, CitationsHold
<1> QED
  BY <1>1, <1>2 DEF SourcesHold

LEMMA StartSources ==
  ASSUME SourcesHold, Fields, Start
  PROVE  SourcesHold'
<1>1. /\ pass \in Nat /\ pass' = pass + 1 /\ stage' = "extract"
      /\ UNCHANGED <<evidence, evaluations>>
  BY DEF Fields, Start, Goto, collections
<1>2. EvidenceStored'
  <2>1. \A e \in evidence : e.id \in Nat \X Nat /\ e.id[1] <= pass => e.id[1] <= pass'
    BY <1>1
  <2> QED
    BY <1>1, <2>1 DEF SourcesHold, EvidenceStored, InStage
<1>3. CitationsHold'
  <2>1. \A v \in evaluations : \A id \in Cited(v) : id[1] < pass' /\ id[1] <= pass' /\ id \in Nat \X Nat
    BY <1>1 DEF SourcesHold, CitationsHold
  <2> QED
    BY <1>1, <2>1 DEF SourcesHold, CitationsHold
<1> QED
  BY <1>2, <1>3 DEF SourcesHold

LEMMA DropEvidenceSources ==
  ASSUME SourcesHold, DropEvidence
  PROVE  SourcesHold'
<1>1. /\ stage = "drop_evidence" /\ stage' = "search" /\ evidence' = {}
      /\ UNCHANGED <<evaluations, pass>>
  BY DEF DropEvidence, InStage, Goto, Keep
<1>2. EvidenceStored'
  BY <1>1, FS_EmptySet DEF EvidenceStored
<1>3. CitationsHold'
  BY <1>1 DEF SourcesHold, CitationsHold, Unjudged
<1> QED
  BY <1>2, <1>3 DEF SourcesHold

LEMMA DropEvaluationsSources ==
  ASSUME SourcesHold, DropEvaluations
  PROVE  SourcesHold'
<1>1. /\ stage' = "evaluate" /\ evaluations' = {} /\ UNCHANGED <<evidence, pass>>
  BY DEF DropEvaluations, InStage, Goto, Keep
<1>2. EvidenceStored'
  BY <1>1 DEF SourcesHold, EvidenceStored, InStage
<1>3. CitationsHold'
  BY <1>1 DEF CitationsHold
<1> QED
  BY <1>2, <1>3 DEF SourcesHold

\* What a hit becomes: a source of this identity and claim, and UNIQUE only if no earlier
\* source of its claim is the same.
LEMMA NewSource ==
  ASSUME NEW id, NEW claim, NEW hit, NEW sources,
         NEW e, e = WithLineage(ToEvidence(id, claim, hit), sources)
  PROVE  /\ SourceFields \subseteq DOMAIN e /\ e.id = id /\ e.claim = claim
         /\ \A f \in sources : f.claim = claim /\ e.lineage = "UNIQUE" =>
              f.canonical # e.canonical /\ (f.hash # e.hash \/ e.hash = "none")
<1> DEFINE d == ToEvidence(id, claim, hit)
           exact == {f \in {f \in sources : f.claim = d.claim} : SameSource(f, d)}
<1>1. SourceFields \subseteq DOMAIN d /\ d.id = id /\ d.claim = claim
  BY DEF ToEvidence, SourceFields
<1>2. \/ e = d /\ exact = {}
      \/ \E type \in {"DUPLICATE", "SYNDICATED_CANDIDATE"} : \E of :
           e = [d EXCEPT !.lineage = type, !.of = of]
  BY DEF WithLineage
<1> HIDE DEF d
<1>3. CASE e = d /\ exact = {}
  BY <1>1, <1>3 DEF SameSource
<1>4. ASSUME NEW type \in {"DUPLICATE", "SYNDICATED_CANDIDATE"}, NEW of,
             e = [d EXCEPT !.lineage = type, !.of = of]
      PROVE  /\ SourceFields \subseteq DOMAIN e /\ e.id = id /\ e.claim = claim
             /\ e.lineage # "UNIQUE"
  BY <1>1, <1>4 DEF SourceFields
<1> QED
  BY <1>2, <1>3, <1>4

LEMMA RecordSources ==
  ASSUME SourcesHold, Fields, Record
  PROVE  SourcesHold'
<1>1. /\ stage = "search" /\ stage' = "search" /\ UNCHANGED <<evaluations, pass>> /\ pass \in Nat
  BY DEF Record, Keep, InStage, Fields
<1> DEFINE n == Cardinality(evidence)
<1>2. n \in Nat /\ IsFiniteSet(evidence)
  BY FS_CardinalityType DEF SourcesHold, EvidenceStored
<1>3. \/ evidence' = evidence
      \/ \E claim, hit : evidence' = evidence \cup
           {WithLineage(ToEvidence(<<pass, n + 1>>, claim, hit), evidence)}
  BY DEF Record
<1>4. CASE evidence' = evidence
  BY <1>1, <1>4, SourcesKept DEF InStage
<1>5. ASSUME NEW claim, NEW hit, NEW e, e = WithLineage(ToEvidence(<<pass, n + 1>>, claim, hit), evidence),
             evidence' = evidence \cup {e}
      PROVE  SourcesHold'
  <2>1. /\ SourceFields \subseteq DOMAIN e /\ e.id = <<pass, n + 1>> /\ e.claim = claim
        /\ \A f \in evidence : f.claim = claim /\ e.lineage = "UNIQUE" =>
             f.canonical # e.canonical /\ (f.hash # e.hash \/ e.hash = "none")
    BY <1>5, NewSource
  <2>2. \A f \in evidence : \E k \in 1..n : f.id = <<pass, k>>
    BY <1>1 DEF SourcesHold, EvidenceStored, InStage
  <2>3. \A f \in evidence : f.id # e.id
    BY <1>2, <2>1, <2>2
  <2>4. IsFiniteSet(evidence') /\ Cardinality(evidence') = n + 1
    BY <1>2, <1>5, <2>3, FS_AddElement
  <2> HIDE DEF n
  <2>5. \A f \in evidence' : SourceFields \subseteq DOMAIN f /\ f.id \in Nat \X Nat /\ f.id[1] <= pass'
    BY <1>1, <1>2, <1>5, <2>1 DEF SourcesHold, EvidenceStored
  <2>6. \A f, g \in evidence' : f.id = g.id => f = g
    BY <1>5, <2>3 DEF SourcesHold, EvidenceStored
  <2>7. \A f, g \in evidence' : Apart(f, g)
    BY <1>5, <2>1 DEF SourcesHold, EvidenceStored, Apart
  <2>8. \A f \in evidence' : \E k \in 1..(n + 1) : f.id = <<pass', k>>
    BY <1>1, <1>2, <1>5, <2>1, <2>2
  <2>9. EvidenceStored'
    BY <2>4, <2>5, <2>6, <2>7, <2>8 DEF EvidenceStored
  <2>10. \A v \in evaluations : e.id \notin Cited(v)
    BY <1>1, <2>1 DEF SourcesHold, CitationsHold, Unjudged
  <2>11. CitationsHold'
    BY <1>1, <1>5, <2>10 DEF SourcesHold, CitationsHold
  <2> QED
    BY <2>9, <2>11 DEF SourcesHold
<1> QED
  BY <1>3, <1>4, <1>5

LEMMA RelateSources ==
  ASSUME SourcesHold, Relate
  PROVE  SourcesHold'
<1> DEFINE To(e) == [e EXCEPT !.relation = Relation(work.entries, e)]
<1>1. /\ stage' = "conclude" /\ evidence' = {To(e) : e \in evidence} /\ UNCHANGED <<evaluations, pass>>
  BY DEF Relate, InStage, Goto, Keep
<1>2. \A e \in evidence : /\ SourceFields \subseteq DOMAIN To(e)
                          /\ To(e).id = e.id /\ To(e).claim = e.claim /\ To(e).canonical = e.canonical
                          /\ To(e).hash = e.hash /\ To(e).access = e.access
                          /\ To(e).lineage = e.lineage
  BY DEF SourcesHold, EvidenceStored, SourceFields
<1>3. IsFiniteSet(evidence')
  <2> DEFINE f == [e \in evidence |-> To(e)]
  <2> HIDE DEF To
  <2>1. f \in Surjection(evidence, evidence')
    BY <1>1 DEF Surjection, Range
  <2> HIDE DEF f
  <2> QED
    BY <2>1, FS_Surjection DEF SourcesHold, EvidenceStored
<1> HIDE DEF To
<1>4. EvidenceStored'
  <2>1. \A e \in evidence' : SourceFields \subseteq DOMAIN e /\ e.id \in Nat \X Nat /\ e.id[1] <= pass'
    BY <1>1, <1>2 DEF SourcesHold, EvidenceStored
  <2>2. \A e, f \in evidence' : e.id = f.id => e = f
    BY <1>1, <1>2 DEF SourcesHold, EvidenceStored
  <2>3. \A e, f \in evidence' : Apart(e, f)
    BY <1>1, <1>2 DEF SourcesHold, EvidenceStored, Apart
  <2> QED
    BY <1>1, <1>3, <2>1, <2>2, <2>3 DEF EvidenceStored, InStage
<1>5. CitationsHold'
  <2>1. \A v \in evaluations : \A e \in evidence' : e.id \in Cited(v) => CountsFor(e, v.claim)
    BY <1>1, <1>2 DEF SourcesHold, CitationsHold, CountsFor
  <2> QED
    BY <1>1, <2>1 DEF SourcesHold, CitationsHold, Unjudged
<1> QED
  BY <1>4, <1>5 DEF SourcesHold

\* An evaluation cites only sources that count for its claim.
LEMMA EvaluationCites ==
  ASSUME NEW c, NEW sources, NEW entries
  PROVE  LET v == EvaluateClaim(c, {e \in sources : e.claim = c.id}, entries)
         IN /\ v.claim = c.id
            /\ \A id \in Cited(v) : \E e \in sources : e.id = id /\ CountsFor(e, c.id)
<1> DEFINE found == {e \in sources : e.claim = c.id}
           links == Links(entries, c.id)
           related(r) == {e \in Available(found) : e.id \in DOMAIN links /\ links[e.id] = r}
           v == EvaluateClaim(c, found, entries)
<1>1. /\ v.claim = c.id
      /\ v.supporting = {e.id : e \in related("SUPPORTS")}
      /\ v.contradicting = {e.id : e \in related("CONTRADICTS")}
      /\ v.context = {e.id : e \in related("PROVIDES_CONTEXT")}
  BY Zenon DEF EvaluateClaim
<1> HIDE DEF v, links
<1>2. \A r : \A e \in related(r) : e \in sources /\ CountsFor(e, c.id)
  BY DEF Available, CountsFor
<1> HIDE DEF related
<1> QED
  BY <1>1, <1>2 DEF Cited, v

LEMMA EvaluateSources ==
  ASSUME SourcesHold, Evaluate
  PROVE  SourcesHold'
<1> PICK c \in work.left :
      /\ evaluations' = evaluations \cup {EvaluateClaim(c, {e \in evidence : e.claim = c.id}, work.entries)}
      /\ stage' \in {"relate", "evaluate"}
  BY DEF Evaluate, Goto
<1>1. UNCHANGED <<evidence, pass>>
  BY DEF Evaluate, Keep
<1>2. EvidenceStored'
  BY <1>1 DEF SourcesHold, EvidenceStored, InStage
<1>3. CitationsHold'
  <2> SUFFICES ASSUME NEW v \in evaluations'
               PROVE  /\ \A id \in Cited(v) : id \in Nat \X Nat /\ id[1] <= pass
                      /\ \A e \in evidence : e.id \in Cited(v) => CountsFor(e, v.claim)
    BY <1>1 DEF CitationsHold, Unjudged
  <2>1. CASE v \in evaluations
    BY <2>1 DEF SourcesHold, CitationsHold
  <2>2. CASE v = EvaluateClaim(c, {e \in evidence : e.claim = c.id}, work.entries)
    <3>1. /\ v.claim = c.id
          /\ \A id \in Cited(v) : \E e \in evidence : e.id = id /\ CountsFor(e, c.id)
      BY <2>2, EvaluationCites
    <3> QED
      BY <3>1 DEF SourcesHold, EvidenceStored
  <2> QED
    BY <2>1, <2>2
<1> QED
  BY <1>2, <1>3 DEF SourcesHold

LEMMA WorkerSources ==
  ASSUME SourcesHold, Fields, Worker
  PROVE  SourcesHold'
<1>1. CASE CallFails \/ WorkerDies \/ FinishPass
  BY <1>1, SourcesKept DEF CallFails, WorkerDies, FinishPass, Stops, Goto, InStage, collections, Unjudged
<1>2. CASE ReadImage \/ ReadVideo \/ Transcribe \/ ReadWritten
  <2>1. UNCHANGED <<evidence, evaluations, pass>> /\ stage = "extract" /\ stage' # "search"
    BY <1>2 DEF ReadImage, ReadVideo, Transcribe, ReadWritten, Reads, Refuse, Stops, Goto, InStage,
         collections, Keep
  <2> QED
    BY <2>1, SourcesKept DEF InStage, Unjudged
<1>3. CASE ExtractClaims
  <2>1. UNCHANGED <<evidence, evaluations, pass>> /\ stage = "claim" /\ stage' # "search"
    BY <1>3 DEF ExtractClaims, Refuse, Stops, Goto, InStage, collections, Keep
  <2> QED
    BY <2>1, SourcesKept DEF InStage, Unjudged
<1>4. CASE DropClaims \/ InsertClaims \/ Prepare \/ Search \/ SearchEnds
  <2>1. UNCHANGED <<evidence, evaluations, pass>> /\ (stage' \in Unjudged => stage \in Unjudged)
    BY <1>4, ZenonT(60) DEF DropClaims, InsertClaims, Prepare, Search, SearchEnds, Refuse, Stops, Goto, InStage,
         collections, Keep, Unjudged
  <2>2. stage' = "search" => stage = "search"
    BY <1>4 DEF DropClaims, InsertClaims, Prepare, Search, SearchEnds, Refuse, Stops, Goto, InStage
  <2> QED
    BY <2>1, <2>2, SourcesKept DEF InStage
<1>5. CASE Compare \/ Conclude \/ SynthesizeReport \/ SaveInvalid \/ Supersede \/ Complete
  <2>1. UNCHANGED <<evidence, evaluations, pass>> /\ stage' \notin Unjudged
    BY <1>5 DEF Compare, Conclude, SynthesizeReport, SaveInvalid, Supersede, Complete, Refuse, Stops,
         Goto, InStage, collections, Keep, Unjudged
  <2> QED
    BY <2>1, SourcesKept DEF InStage, Unjudged
<1> QED
  BY <1>1, <1>2, <1>3, <1>4, <1>5, StartSources, DropEvidenceSources, DropEvaluationsSources,
     RecordSources, RelateSources, EvaluateSources DEF Worker

-----------------------------------------------------------------------------
(* What a report says.                                                     *)

LEMMA OverallShape ==
  ASSUME NEW judged, NEW manipulation, NEW missing
  PROVE  /\ Overall(judged, manipulation, missing) =
              [verdict |-> Overall(judged, manipulation, missing).verdict,
               risk |-> Overall(judged, manipulation, missing).risk]
         /\ Overall(judged, manipulation, missing).verdict # "none"
  BY DEF Overall

\* A claim is in the report as its evaluation has it, or as unverifiable.
LEMMA ItemIs ==
  ASSUME NEW c
  PROVE  /\ Item(c).id = c.id /\ Item(c).verifiability = c.verifiability
         /\ Item(c).importance = c.importance
         /\ \/ \E v \in evaluations :
                 /\ v.claim = c.id /\ Item(c).verdict = v.verdict /\ (Item(c).once <=> v.once)
                 /\ Item(c).supporting = v.supporting /\ Item(c).contradicting = v.contradicting
                 /\ Item(c).context = v.context
            \/ /\ \A v \in evaluations : v.claim # c.id
               /\ Cited(Item(c)) = {}
<1> DEFINE of == {v \in evaluations : v.claim = c.id}
           v == CHOOSE x \in of : TRUE
<1>1. of # {} => v \in evaluations /\ v.claim = c.id
  OBVIOUS
<1> HIDE DEF v
<1>2. CASE of # {}
  <2>1. /\ Item(c).id = c.id /\ Item(c).verifiability = c.verifiability
        /\ Item(c).importance = c.importance
        /\ Item(c).verdict = v.verdict /\ (Item(c).once <=> v.once)
        /\ Item(c).supporting = v.supporting /\ Item(c).contradicting = v.contradicting
        /\ Item(c).context = v.context
    BY <1>2 DEF Item, v
  <2> QED
    BY <1>1, <1>2, <2>1
<1>3. CASE of = {}
  BY <1>3 DEF Item, Cited
<1> QED
  BY <1>2, <1>3

LEMMA AtMostOneIs ==
  ASSUME NEW S, IsFiniteSet(S), Cardinality(S) <= 1
  PROVE  S = {} \/ \E x \in S : S = {x}
<1> SUFFICES ASSUME NEW x \in S
             PROVE  S = {x}
  OBVIOUS
<1>1. {x} \in SUBSET S /\ IsFiniteSet({x}) /\ Cardinality({x}) = 1
  BY FS_Singleton
<1>2. Cardinality(S) \in Nat /\ Cardinality({x}) <= Cardinality(S)
  BY <1>1, FS_CardinalityType, FS_Subset
<1>3. Cardinality(S) = Cardinality({x})
  BY <1>1, <1>2
<1> QED
  BY <1>1, <1>3, FS_Subset

\* A source of a claim that the answer spoke of once is marked as it was counted.
LEMMA MarkedAsCounted ==
  ASSUME NEW entries, NEW e, NEW relation, relation # "INCONCLUSIVE",
         IsFiniteSet(DOMAIN entries), DOMAIN entries \subseteq Nat,
         \A i \in DOMAIN entries : e.id \in DOMAIN entries[i].links => entries[i].claim = e.claim,
         Cardinality({i \in DOMAIN entries : entries[i].claim = e.claim}) <= 1
  PROVE  Relation(entries, e) = relation <=>
           e.id \in DOMAIN Links(entries, e.claim) /\ Links(entries, e.claim)[e.id] = relation
<1> DEFINE of == {i \in DOMAIN entries : entries[i].claim = e.claim}
           naming == {i \in DOMAIN entries : e.id \in DOMAIN entries[i].links}
<1>1. IsFiniteSet(of)
  BY FS_Subset
<1>2. of = {} \/ \E i \in of : of = {i}
  BY <1>1, AtMostOneIs
<1>3. CASE of = {}
  <2>1. naming = {}
    BY <1>3
  <2>2. Relation(entries, e) = "INCONCLUSIVE"
    BY <2>1 DEF Relation
  <2>3. Links(entries, e.claim) = <<>>
    BY <1>3 DEF Links
  <2> QED
    BY <2>2, <2>3
<1>4. ASSUME NEW i \in of, of = {i}
      PROVE  Relation(entries, e) = relation <=>
               e.id \in DOMAIN Links(entries, e.claim) /\ Links(entries, e.claim)[e.id] = relation
  <2>1. Min({i}) = i /\ Max({i}) = i
    BY DEF Min, Max
  <2>2. Links(entries, e.claim) = entries[i].links
    BY <1>4, <2>1 DEF Links
  <2>3. CASE naming = {}
    <3>1. Relation(entries, e) = "INCONCLUSIVE"
      BY <2>3 DEF Relation
    <3>2. e.id \notin DOMAIN entries[i].links
      BY <2>3
    <3> QED
      BY <2>2, <3>1, <3>2
  <2>4. CASE naming # {}
    <3>1. naming = {i}
      BY <1>4, <2>4
    <3>2. Relation(entries, e) = entries[i].links[e.id]
      BY <2>1, <3>1 DEF Relation
    <3> QED
      BY <2>2, <3>1, <3>2
  <2> QED
    BY <2>3, <2>4
<1> QED
  BY <1>2, <1>3, <1>4

\* The report of a pass that read text says what its own analysis found.
LEMMA SnapshotAgrees ==
  ASSUME SourcesHold, ReadingHolds, OfClaims
  PROVE  Agrees(Snapshot)
<1> DEFINE overall == Overall(Judged(evaluations), work.manipulation, work.missing)
<1>1. /\ EvaluatedAre(claims) /\ analysis = Concluded(overall)
      /\ \A e \in evidence : e.relation = Relation(work.entries, e)
      /\ IsFiniteSet(DOMAIN work.entries) /\ DOMAIN work.entries \subseteq Nat
      /\ \A i \in DOMAIN work.entries, e \in evidence :
           e.id \in DOMAIN work.entries[i].links => e.claim = work.entries[i].claim
  BY DEF ReadingHolds, EvaluationsHold, AnalysisHolds, EntriesHold, Reached
<1>2. /\ overall = [verdict |-> overall.verdict, risk |-> overall.risk] /\ overall.verdict # "none"
  BY OverallShape
<1> HIDE DEF overall
<1>3. analysis.verdict = overall.verdict /\ analysis.risk = overall.risk /\ analysis # NoAnalysis
      /\ analysis.manipulation = work.manipulation /\ analysis.missing = work.missing
  BY <1>1, <1>2 DEF Concluded, NoAnalysis
<1>4. /\ Snapshot.verdict = overall.verdict /\ Snapshot.risk = overall.risk
      /\ Snapshot.manipulation = work.manipulation /\ Snapshot.missing = work.missing
      /\ Snapshot.claims = {Item(c) : c \in claims} /\ Snapshot.evidence = Current
  BY <1>3 DEF Snapshot
<1>5. ASSUME NEW c \in claims
      PROVE  \E v \in evaluations :
               /\ v.claim = c.id /\ \A w \in evaluations : w.claim = c.id => w = v
               /\ Item(c).verdict = v.verdict /\ (Item(c).once <=> SpokenOnce(c.id))
               /\ Item(c).supporting = Related(c.id, "SUPPORTS")
               /\ Item(c).contradicting = Related(c.id, "CONTRADICTS")
  BY <1>1, ItemIs DEF EvaluatedAre
<1> DEFINE judged == {[id |-> item.id, verifiability |-> item.verifiability,
                       importance |-> item.importance, verdict |-> item.verdict] :
                         item \in Snapshot.claims}
<1>6. judged = Judged(evaluations)
  <2> DEFINE Given(c) == (CHOOSE e \in evaluations : e.claim = c.id).verdict
  <2>1. \A c \in claims : Given(c) = Item(c).verdict /\ \E e \in evaluations : e.claim = c.id
    BY <1>5
  <2>2. Judged(evaluations) =
          {[id |-> c.id, verifiability |-> c.verifiability, importance |-> c.importance,
            verdict |-> Given(c)] : c \in {d \in claims : \E e \in evaluations : e.claim = d.id}}
    BY DEF Judged
  <2> HIDE DEF Given
  <2>3. Judged(evaluations) =
          {[id |-> c.id, verifiability |-> c.verifiability, importance |-> c.importance,
            verdict |-> Item(c).verdict] : c \in claims}
    BY <2>1, <2>2
  <2>4. \A c \in claims : /\ Item(c).id = c.id /\ Item(c).verifiability = c.verifiability
                          /\ Item(c).importance = c.importance
    BY ItemIs
  <2> QED
    BY <1>4, <2>3, <2>4
<1>7. [verdict |-> Snapshot.verdict, risk |-> Snapshot.risk] =
        Overall(judged, Snapshot.manipulation, Snapshot.missing)
  BY <1>2, <1>4, <1>6 DEF overall
<1> DEFINE marked(item, relation) ==
             {e.id : e \in {x \in Snapshot.evidence : /\ x.claim = item.id /\ x.relation = relation
                                                      /\ x.access \in Readable /\ x.lineage = "UNIQUE"}}
<1>8. ASSUME NEW c \in claims, SpokenOnce(c.id), NEW relation \in {"SUPPORTS", "CONTRADICTS"}
      PROVE  Related(c.id, relation) = marked(Item(c), relation)
  <2>1. \A x \in evidence : CountsFor(x, c.id) =>
          (x.relation = relation <=> /\ x.id \in DOMAIN Links(work.entries, c.id)
                                     /\ Links(work.entries, c.id)[x.id] = relation)
    <3> SUFFICES ASSUME NEW x \in evidence, CountsFor(x, c.id)
                 PROVE  x.relation = relation <=> /\ x.id \in DOMAIN Links(work.entries, c.id)
                                                  /\ Links(work.entries, c.id)[x.id] = relation
      OBVIOUS
    <3>1. x.claim = c.id /\ x.relation = Relation(work.entries, x)
      BY <1>1 DEF CountsFor
    <3>2. \A i \in DOMAIN work.entries : x.id \in DOMAIN work.entries[i].links =>
            work.entries[i].claim = x.claim
      BY <1>1
    <3>3. Cardinality({i \in DOMAIN work.entries : work.entries[i].claim = x.claim}) <= 1
      BY <1>8, <3>1 DEF SpokenOnce
    <3>4. relation # "INCONCLUSIVE"
      OBVIOUS
    <3>5. IsFiniteSet(DOMAIN work.entries) /\ DOMAIN work.entries \subseteq Nat
      BY <1>1
    <3>6. Relation(work.entries, x) = relation <=>
            /\ x.id \in DOMAIN Links(work.entries, x.claim)
            /\ Links(work.entries, x.claim)[x.id] = relation
      BY <3>2, <3>3, <3>4, <3>5, MarkedAsCounted
    <3> QED
      BY <3>1, <3>6
  <2>2. \A x : x \in Snapshot.evidence /\ x.claim = c.id <=> x \in evidence /\ x.claim = c.id
    BY <1>4 DEF Current
  <2>3. Item(c).id = c.id
    BY ItemIs
  <2> QED
    BY <2>1, <2>2, <2>3 DEF Related, CountsFor
<1>9. \A item \in Snapshot.claims : item.once =>
        /\ item.supporting = marked(item, "SUPPORTS")
        /\ item.contradicting = marked(item, "CONTRADICTS")
  BY <1>4, <1>5, <1>8
<1> QED
  BY <1>7, <1>9 DEF Agrees, Agreeing

LEMMA SnapshotHolds ==
  ASSUME SourcesHold, ReadingHolds, InStage("synthesize")
  PROVE  ReportHolds(Snapshot) /\ Snapshot.status = "VALIDATING"
<1>1. /\ ReportFields \subseteq DOMAIN Snapshot /\ Snapshot.status = "VALIDATING"
      /\ Snapshot.fresh = (work.claims # <<>>)
      /\ Snapshot.claims = {Item(c) : c \in claims} /\ Snapshot.evidence = Current
  BY DEF Snapshot, ReportFields
<1>2. ASSUME NEW c \in claims, NEW e \in Current, e.id \in Cited(Item(c))
      PROVE  CountsFor(e, Item(c).id)
  <2>1. e \in evidence
    BY DEF Current
  <2>2. \E v \in evaluations : v.claim = c.id /\ Cited(Item(c)) = Cited(v)
    BY <1>2, ItemIs DEF Cited
  <2> QED
    BY <1>2, <2>1, <2>2, ItemIs DEF SourcesHold, CitationsHold
<1>3. Snapshot.fresh => Agrees(Snapshot)
  BY <1>1, SnapshotAgrees DEF OfClaims
<1> QED
  BY <1>1, <1>2, <1>3 DEF ReportHolds

-----------------------------------------------------------------------------
(* The reports, version after version.                                     *)

LEMMA ListAppend ==
  ASSUME NEW s, IsListed(s), NEW x
  PROVE  LET t == Append(s, x)
         IN /\ IsListed(t) /\ Len(t) = Len(s) + 1 /\ t[Len(t)] = x
            /\ \A v \in DOMAIN s : v \in DOMAIN t /\ t[v] = s[v] /\ v # Len(t)
            /\ \A v \in DOMAIN t : v \in DOMAIN s \/ v = Len(t)
<1> DEFINE S == {s[v] : v \in DOMAIN s} \cup {x}
<1>1. s \in Seq(S)
  <2>1. s = [v \in 1..Len(s) |-> s[v]] /\ \A v \in 1..Len(s) : s[v] \in S
    BY DEF IsListed
  <2> QED
    BY <2>1, IsASeq DEF IsListed
<1> HIDE DEF S
<1>2. x \in S
  BY DEF S
<1>3. /\ Append(s, x) \in Seq(S) /\ Append(s, x) # <<>>
      /\ Len(Append(s, x)) = Len(s) + 1
      /\ \A i \in 1 .. Len(s) : Append(s, x)[i] = s[i]
      /\ Append(s, x)[Len(s) + 1] = x
  BY <1>1, <1>2, AppendProperties
<1>4. LET t == Append(s, x) IN IsListed(t)
  BY <1>3, LenProperties DEF IsListed
<1> QED
  BY <1>3, <1>4 DEF IsListed

LEMMA ListExcept ==
  ASSUME NEW s, IsListed(s), NEW i \in DOMAIN s, NEW x
  PROVE  LET t == [s EXCEPT ![i] = x]
         IN IsListed(t) /\ Len(t) = Len(s) /\ DOMAIN t = DOMAIN s
<1>1. [s EXCEPT ![i] = x] = [v \in 1..Len(s) |-> IF v = i THEN x ELSE s[v]]
  BY DEF IsListed
<1> QED
  BY <1>1 DEF IsListed

LEMMA ReportsKept ==
  ASSUME ReportingHolds, UNCHANGED reports,
         stage' \notin {"validate", "complete", "finish"},
         stage' # "idle" => status' = "PROCESSING"
  PROVE  ReportingHolds'
<1>1. ReportsStored'
  BY DEF ReportingHolds, ReportsStored, IsListed
<1>2. VersionsHold'
  BY DEF ReportingHolds, VersionsHold, InStage, Newest
<1> QED
  BY <1>1, <1>2 DEF ReportingHolds

LEMMA SynthesizeReports ==
  ASSUME SourcesHold, ReadingHolds, ReportingHolds, SynthesizeReport
  PROVE  ReportingHolds'
<1>1. CASE reports' = Append(reports, Snapshot) /\ stage' = "validate" /\ status' = status
  <2> DEFINE x == Snapshot
  <2>1. ReportHolds(x) /\ x.status = "VALIDATING"
    BY SnapshotHolds DEF SynthesizeReport
  <2> HIDE DEF x
  <2>2. /\ IsListed(reports') /\ Len(reports') = Len(reports) + 1 /\ reports'[Len(reports')] = x
        /\ \A v \in DOMAIN reports : v \in DOMAIN reports' /\ reports'[v] = reports[v] /\ v # Len(reports')
        /\ \A v \in DOMAIN reports' : v \in DOMAIN reports \/ v = Len(reports')
    BY <1>1, ListAppend DEF x, ReportingHolds, ReportsStored
  <2>3. Len(reports') \in DOMAIN reports'
    BY <2>2 DEF IsListed, ReportingHolds, ReportsStored
  <2>4. ReportsStored'
    BY <2>1, <2>2 DEF ReportingHolds, ReportsStored
  <2>5. VersionsHold'
    BY <1>1, <2>1, <2>2, <2>3 DEF ReportingHolds, VersionsHold, InStage, Newest, SynthesizeReport
  <2> QED
    BY <2>4, <2>5 DEF ReportingHolds
<1>2. CASE UNCHANGED reports /\ stage' = "idle" /\ status' = "FAILED"
  BY <1>2, ReportsKept
<1> QED
  BY <1>1, <1>2 DEF SynthesizeReport, Refuse, Stops, Goto, collections, Keep

LEMMA StatusSet ==
  ASSUME NEW r, ReportHolds(r), NEW s, s \in {"COMPLETE", "SUPERSEDED"} => Valid(r)
  PROVE  LET t == [r EXCEPT !.status = s]
         IN ReportHolds(t) /\ t.status = s /\ (Valid(t) <=> Valid(r))
<1> DEFINE t == [r EXCEPT !.status = s]
<1>1. /\ ReportFields \subseteq DOMAIN t /\ t.status = s /\ t.fresh = r.fresh /\ t.verdict = r.verdict
      /\ t.risk = r.risk /\ t.manipulation = r.manipulation /\ t.missing = r.missing
      /\ t.claims = r.claims /\ t.evidence = r.evidence
  BY DEF ReportHolds, ReportFields
<1> HIDE DEF t
<1>2. Valid(t) <=> Valid(r)
  BY <1>1 DEF Valid
<1>3. Agrees(t) <=> Agrees(r)
  BY <1>1 DEF Agrees
<1> QED
  BY <1>1, <1>2, <1>3 DEF ReportHolds, t

LEMMA SaveInvalidReports ==
  ASSUME ReportingHolds, SaveInvalid
  PROVE  ReportingHolds'
<1> DEFINE x == [reports[Newest] EXCEPT !.status = "INVALID"]
<1>1. /\ stage = "validate" /\ stage' = "idle" /\ status' = "FAILED"
      /\ reports' = [reports EXCEPT ![Newest] = x]
  BY DEF SaveInvalid, InStage, Refuse, Stops, Goto
<1>2. Newest \in DOMAIN reports /\ IsListed(reports)
  BY <1>1 DEF ReportingHolds, ReportsStored, VersionsHold, InStage
<1>3. ReportHolds(x) /\ x.status = "INVALID"
  BY <1>2, StatusSet DEF ReportingHolds, ReportsStored
<1> HIDE DEF x
<1>4. ReportsStored'
  <2>1. IsListed(reports')
    BY <1>1, <1>2, ListExcept
  <2> QED
    BY <1>1, <1>2, <1>3, <2>1 DEF ReportingHolds, ReportsStored
<1>5. VersionsHold'
  BY <1>1, <1>2, <1>3 DEF ReportingHolds, VersionsHold, InStage
<1> QED
  BY <1>4, <1>5 DEF ReportingHolds

LEMMA SupersedeReports ==
  ASSUME ReportingHolds, Supersede
  PROVE  ReportingHolds'
<1>1. /\ stage = "validate" /\ stage' = "complete" /\ status' = status /\ Valid(reports[Newest])
      /\ reports' = [v \in DOMAIN reports |-> IF v = Newest THEN reports[v] ELSE Superseded(reports[v])]
  BY DEF Supersede, InStage, Goto, Keep
<1>2. /\ Newest \in DOMAIN reports /\ IsListed(reports) /\ reports[Newest].status = "VALIDATING"
      /\ status = "PROCESSING"
  BY <1>1 DEF ReportingHolds, ReportsStored, VersionsHold, InStage
<1>3. ASSUME NEW v \in DOMAIN reports
      PROVE  ReportHolds(Superseded(reports[v])) /\ Superseded(reports[v]).status # "COMPLETE"
  <2>1. ReportHolds(reports[v])
    BY DEF ReportingHolds, ReportsStored
  <2>2. reports[v].status = "COMPLETE" => Valid(reports[v])
    BY <2>1 DEF ReportHolds
  <2> QED
    BY <2>1, <2>2, StatusSet DEF Superseded
<1>4. IsListed(reports') /\ Len(reports') = Len(reports) /\ DOMAIN reports' = DOMAIN reports
  BY <1>1, <1>2 DEF IsListed
<1>5. \A v \in DOMAIN reports' : ReportHolds(reports'[v]) /\ reports'[v].status # "COMPLETE"
  BY <1>1, <1>2, <1>3 DEF ReportingHolds, ReportsStored
<1>6. ReportsStored'
  BY <1>4, <1>5 DEF ReportsStored
<1>7. VersionsHold'
  BY <1>1, <1>2, <1>4, <1>5 DEF VersionsHold, InStage, Newest
<1> QED
  BY <1>6, <1>7 DEF ReportingHolds

LEMMA CompleteReports ==
  ASSUME ReportingHolds, Complete
  PROVE  ReportingHolds'
<1> DEFINE x == [reports[Newest] EXCEPT !.status = "COMPLETE"]
<1>1. /\ stage = "complete" /\ stage' = "finish" /\ status' = status
      /\ reports' = [reports EXCEPT ![Newest] = x]
  BY DEF Complete, InStage, Goto, Keep
<1>2. /\ Newest \in DOMAIN reports /\ IsListed(reports) /\ Valid(reports[Newest])
      /\ status = "PROCESSING"
  BY <1>1 DEF ReportingHolds, ReportsStored, VersionsHold, InStage
<1>3. ReportHolds(x) /\ x.status = "COMPLETE"
  BY <1>2, StatusSet DEF ReportingHolds, ReportsStored
<1> HIDE DEF x
<1>4. IsListed(reports') /\ Len(reports') = Len(reports) /\ DOMAIN reports' = DOMAIN reports
  BY <1>1, <1>2, ListExcept
<1>5. ReportsStored'
  BY <1>1, <1>2, <1>3, <1>4 DEF ReportingHolds, ReportsStored
<1>6. VersionsHold'
  BY <1>1, <1>2, <1>3, <1>4 DEF VersionsHold, InStage, Newest
<1> QED
  BY <1>5, <1>6 DEF ReportingHolds

LEMMA FinishReports ==
  ASSUME ReportingHolds, FinishPass
  PROVE  ReportingHolds'
<1>1. stage = "finish" /\ stage' = "idle" /\ UNCHANGED reports
  BY DEF FinishPass, InStage, Goto, collections
<1>2. ReportsStored'
  BY <1>1 DEF ReportingHolds, ReportsStored, IsListed
<1>3. VersionsHold'
  BY <1>1 DEF ReportingHolds, VersionsHold, InStage, Newest
<1> QED
  BY <1>2, <1>3 DEF ReportingHolds

LEMMA WorkerReports ==
  ASSUME SourcesHold, ReadingHolds, ReportingHolds, Worker
  PROVE  ReportingHolds'
<1>1. CASE Start \/ CallFails
  BY <1>1, ReportsKept DEF Start, CallFails, Stops, Goto, collections
<1>2. CASE WorkerDies
  <2>1. status = "PROCESSING" /\ status' = status
    BY <1>2 DEF ReportingHolds, VersionsHold, WorkerDies
  <2> QED
    BY <1>2, <2>1, ReportsKept DEF WorkerDies, Goto, collections
<1>3. CASE ReadImage \/ ReadVideo \/ Transcribe \/ ReadWritten \/ ExtractClaims
  <2>1. stage # "idle" /\ UNCHANGED reports
    BY <1>3 DEF ReadImage, ReadVideo, Transcribe, ReadWritten, ExtractClaims, Reads, Refuse, InStage,
         collections
  <2>2. \/ stage' = "idle" /\ status' = "FAILED"
        \/ stage' \in {"claim", "prepare_blank", "drop_claims"} /\ status' = status
    BY <1>3 DEF ReadImage, ReadVideo, Transcribe, ReadWritten, ExtractClaims, Reads, Refuse, Stops, Goto, Keep
  <2> QED
    BY <2>1, <2>2, ReportsKept DEF ReportingHolds, VersionsHold, InStage
<1>4. CASE DropClaims \/ InsertClaims \/ Prepare \/ DropEvidence \/ Search \/ Record \/ SearchEnds
  <2>1. stage # "idle" /\ UNCHANGED reports
    BY <1>4, ZenonT(60) DEF DropClaims, InsertClaims, Prepare, DropEvidence, Search, Record, SearchEnds, Refuse,
         InStage, collections
  <2>2. \/ stage' = "idle" /\ status' = "FAILED"
        \/ stage' \notin {"idle", "validate", "complete", "finish"} /\ status' = status
    BY <1>4 DEF DropClaims, InsertClaims, Prepare, DropEvidence, Search, Record, SearchEnds, Refuse,
         Stops, InStage, Goto, Keep
  <2> QED
    BY <2>1, <2>2, ReportsKept DEF ReportingHolds, VersionsHold, InStage
<1>5. CASE Compare \/ DropEvaluations \/ Evaluate \/ Relate \/ Conclude
  <2>1. stage # "idle" /\ UNCHANGED reports
    BY <1>5 DEF Compare, DropEvaluations, Evaluate, Relate, Conclude, Refuse, InStage, collections
  <2>2. \/ stage' = "idle" /\ status' = "FAILED"
        \/ stage' \notin {"idle", "validate", "complete", "finish"} /\ status' = status
    BY <1>5 DEF Compare, DropEvaluations, Evaluate, Relate, Conclude, Refuse, Stops, InStage, Goto, Keep
  <2> QED
    BY <2>1, <2>2, ReportsKept DEF ReportingHolds, VersionsHold, InStage
<1> QED
  BY <1>1, <1>2, <1>3, <1>4, <1>5, SynthesizeReports, SaveInvalidReports, SupersedeReports,
     CompleteReports, FinishReports DEF Worker

-----------------------------------------------------------------------------
(* Picking elements of a sequence; the queries of a claim.                 *)

LEMMA PickedIsListed ==
  ASSUME NEW s, NEW P, IsFiniteSet(P)
  PROVE  /\ IsListed(Picked(s, P)) /\ Len(Picked(s, P)) = Cardinality(P)
         /\ DOMAIN Picked(s, P) = 1..Cardinality(P)
         /\ P # {} => Picked(s, P) # <<>>
<1>1. Cardinality(P) \in Nat
  BY FS_CardinalityType
<1>2. DOMAIN Picked(s, P) = 1..Cardinality(P) /\ Picked(s, P) = [k \in DOMAIN Picked(s, P) |-> Picked(s, P)[k]]
  BY DEF Picked
<1>3. Len(Picked(s, P)) = Cardinality(P)
  BY <1>1 DEF Picked
<1>4. P # {} => Cardinality(P) # 0
  BY FS_EmptySet
<1> HIDE DEF Picked
<1>5. P # {} => Picked(s, P) # <<>>
  BY <1>1, <1>3, <1>4
<1> QED
  BY <1>1, <1>2, <1>3, <1>5 DEF IsListed

\* Each position has a rank, and each rank a position.
Rank(P, i) == Cardinality({x \in P : x <= i})
LEMMA Ranks ==
  ASSUME NEW P, IsFiniteSet(P), P \subseteq Nat
  PROVE  /\ \A i \in P : Rank(P, i) \in 1..Cardinality(P)
         /\ \A i, h \in P : Rank(P, i) = Rank(P, h) => i = h
         /\ \A k \in 1..Cardinality(P) : \E i \in P : Rank(P, i) = k
<1> DEFINE Up(i) == {x \in P : x <= i}
           n == Cardinality(P)
<1>1. \A i \in P : /\ Up(i) \in SUBSET P /\ IsFiniteSet(Up(i)) /\ i \in Up(i)
                   /\ Cardinality(Up(i)) \in Nat /\ Cardinality(Up(i)) <= n
  BY FS_Subset, FS_CardinalityType
<1>2. n \in Nat /\ \A i \in P : Cardinality(Up(i)) # 0
  BY <1>1, FS_EmptySet, FS_CardinalityType
<1>3. ASSUME NEW i \in P, NEW h \in P, i < h
      PROVE  Cardinality(Up(i)) # Cardinality(Up(h))
  <2>1. i \in Nat /\ h \in Nat
    OBVIOUS
  <2>2. h \in Up(h) /\ h \notin Up(i)
    BY <1>3, <2>1
  <2>3. IsFiniteSet(Up(h))
    BY <1>1
  <2>4. \A x \in Up(i) : x \in Up(h)
    <3> SUFFICES ASSUME NEW x \in P, x <= i
                 PROVE  x <= h
      OBVIOUS
    <3>1. x \in Nat
      OBVIOUS
    <3> QED
      BY <1>3, <2>1, <3>1
  <2> HIDE DEF Up
  <2> QED
    BY <2>2, <2>3, <2>4, FS_Subset
<1> HIDE DEF Up, n
<1>4. \A i \in P : Rank(P, i) = Cardinality(Up(i))
  BY DEF Rank, Up
<1>5. \A i \in P : Rank(P, i) \in 1..n
  BY <1>1, <1>2, <1>4
<1>6. \A i, h \in P : Rank(P, i) = Rank(P, h) => i = h
  BY <1>3, <1>4
<1>7. ASSUME NEW k \in 1..n
      PROVE  \E i \in P : Rank(P, i) = k
  <2> DEFINE r == [i \in P |-> Rank(P, i)]
             ranks == {Rank(P, i) : i \in P}
  <2>1. r \in Bijection(P, ranks)
    BY <1>6 DEF Bijection, Injection, Surjection, Range, IsInjective
  <2>2. ExistsBijection(P, ranks)
    BY <2>1 DEF ExistsBijection
  <2>3. IsFiniteSet(ranks) /\ Cardinality(ranks) = n
    BY <2>2, FS_Bijection DEF n
  <2>4. ranks \in SUBSET (1..n)
    BY <1>5
  <2>5. IsFiniteSet(1..n) /\ Cardinality(1..n) = n
    BY <1>2, FS_Interval
  <2> HIDE DEF ranks
  <2>6. ranks = 1..n
    BY <2>3, <2>4, <2>5, FS_Subset
  <2> QED
    BY <2>6 DEF ranks
<1> QED
  BY <1>5, <1>6, <1>7 DEF n

LEMMA PickedAre ==
  ASSUME NEW s, NEW P, IsFiniteSet(P), P \subseteq Nat
  PROVE  /\ \A j \in P : \E k \in DOMAIN Picked(s, P) : Picked(s, P)[k] = s[j]
         /\ \A k \in DOMAIN Picked(s, P) : \E j \in P : Picked(s, P)[k] = s[j]
<1>1. Picked(s, P) = [k \in 1..Cardinality(P) |-> s[CHOOSE i \in P : Rank(P, i) = k]]
  BY DEF Picked, Rank
<1>2. ASSUME NEW j \in P
      PROVE  \E k \in DOMAIN Picked(s, P) : Picked(s, P)[k] = s[j]
  <2>1. Rank(P, j) \in 1..Cardinality(P) /\ \A i \in P : Rank(P, i) = Rank(P, j) => i = j
    BY Ranks
  <2>2. (CHOOSE i \in P : Rank(P, i) = Rank(P, j)) = j
    BY <2>1
  <2> QED
    BY <1>1, <2>1, <2>2
<1>3. ASSUME NEW k \in DOMAIN Picked(s, P)
      PROVE  \E j \in P : Picked(s, P)[k] = s[j]
  <2>1. k \in 1..Cardinality(P)
    BY <1>1
  <2>2. \E i \in P : Rank(P, i) = k
    BY <2>1, Ranks
  <2>3. (CHOOSE i \in P : Rank(P, i) = k) \in P
    BY <2>2
  <2> QED
    BY <1>1, <2>1, <2>3
<1> QED
  BY <1>2, <1>3

\* Cutting leaves something.
LEMMA CutHas ==
  ASSUME NEW s, IsListed(s), s # <<>>, NEW max \in Nat \ {0}
  PROVE  SubSeq(s, 1, IF Len(s) < max THEN Len(s) ELSE max) # <<>>
<1> DEFINE n == IF Len(s) < max THEN Len(s) ELSE max
           S == {s[v] : v \in DOMAIN s}
<1>1. Len(s) \in Nat \ {0}
  BY DEF IsListed
<1>2. n \in Int /\ n >= 1 /\ n <= Len(s)
  BY <1>1
<1>3. s \in Seq(S)
  <2>1. s = [v \in 1..Len(s) |-> s[v]] /\ \A v \in 1..Len(s) : s[v] \in S
    BY DEF IsListed
  <2> QED
    BY <1>1, <2>1, IsASeq
<1>4. \A i \in 1..n : s[i] \in S
  BY <1>2 DEF IsListed
<1> HIDE DEF n, S
<1>5. Len(SubSeq(s, 1, n)) = n
  BY <1>1, <1>2, <1>3, <1>4, SubSeqProperties
<1>6. SubSeq(s, 1, n) # <<>>
  BY <1>2, <1>5
<1> QED
  BY <1>6 DEF n

\* A claim has a query if some text is first given in one of the two languages, or the
\* source is in another language than English.
LEMMA QueriesLeft ==
  ASSUME NEW draft, NEW language, NEW max \in Nat \ {0},
         IsFiniteSet(DOMAIN draft.generated), DOMAIN draft.generated \subseteq Nat,
         \E j \in Firsts(draft.generated) : draft.generated[j].language \in {language, "en"}
  PROVE  MultilingualQueries(draft, language, max) # <<>>
<1> DEFINE given == draft.generated
           distinct == Deduplicate(given)
           fit == {i \in DOMAIN distinct : distinct[i].language \in {language, "en"}}
           normalized == Picked(distinct, fit)
<1> PICK j \in Firsts(given) : given[j].language \in {language, "en"}
  OBVIOUS
<1>1. Firsts(given) \in SUBSET (DOMAIN given) /\ IsFiniteSet(Firsts(given)) /\ Firsts(given) \subseteq Nat
  <2>1. Firsts(given) \in SUBSET (DOMAIN given)
    BY DEF Firsts
  <2> QED
    BY <2>1, FS_Subset
<1>2. \E i \in DOMAIN distinct : distinct[i] = given[j]
  BY <1>1, PickedAre DEF Deduplicate
<1>3. fit # {}
  BY <1>2
<1>4. IsFiniteSet(fit)
  <2>1. DOMAIN distinct = 1..Cardinality(Firsts(given)) /\ Cardinality(Firsts(given)) \in Nat
    BY <1>1, PickedIsListed, FS_CardinalityType DEF Deduplicate
  <2>2. \A n \in Nat : IsFiniteSet(1..n)
    BY IntervalsAreFinite
  <2>3. IsFiniteSet(DOMAIN distinct) /\ fit \in SUBSET (DOMAIN distinct)
    BY <2>1, <2>2
  <2> HIDE DEF fit, distinct
  <2> QED
    BY <2>3, FS_Subset
<1>5. IsListed(normalized) /\ normalized # <<>>
  BY <1>3, <1>4, PickedIsListed
<1>6. CASE language = "en"
  <2> DEFINE qs == [i \in DOMAIN normalized |-> [normalized[i] EXCEPT !.source = "ORIGINAL_CLAIM"]]
  <2>1. MultilingualQueries(draft, language, max) = SubSeq(qs, 1, IF Len(qs) < max THEN Len(qs) ELSE max)
    BY <1>6, Zenon DEF MultilingualQueries
  <2> HIDE DEF normalized
  <2>2. IsListed(qs) /\ qs # <<>>
    <3>1. DOMAIN qs = 1..Len(normalized) /\ Len(normalized) \in Nat \ {0}
      BY <1>5 DEF IsListed
    <3>2. Len(qs) = Len(normalized)
      BY <1>5 DEF IsListed
    <3> QED
      BY <3>1, <3>2 DEF IsListed
  <2> QED
    BY <2>1, <2>2, CutHas
<1>7. CASE language # "en"
  <2> DEFINE q(key, l, source) == [key |-> key, language |-> l, source |-> source]
             original == FirstOr(normalized, language, "ORIGINAL_CLAIM",
                                 q(draft.text, language, "ORIGINAL_CLAIM"))
             canonical == FirstOr(normalized, "en", "CANONICAL_CLAIM",
                                  q(draft.canonical, "en", "CANONICAL_CLAIM"))
             both == <<original, canonical>>
             qs == Deduplicate(both)
  <2>1. MultilingualQueries(draft, language, max) = SubSeq(qs, 1, IF Len(qs) < max THEN Len(qs) ELSE max)
    BY <1>7, Zenon DEF MultilingualQueries
  <2> HIDE DEF original, canonical
  <2>2. 1 \in Firsts(both) /\ Firsts(both) \in SUBSET (1..2)
    BY DEF Firsts
  <2>3. IsFiniteSet(Firsts(both))
    <3>0. \A n \in Nat : IsFiniteSet(1..n)
      BY IntervalsAreFinite
    <3>1. IsFiniteSet(1..2)
      BY <3>0
    <3> HIDE DEF both
    <3> QED
      BY <2>2, <3>1, FS_Subset
  <2> HIDE DEF both
  <2>4. IsListed(qs) /\ qs # <<>>
    BY <2>2, <2>3, PickedIsListed DEF Deduplicate
  <2> HIDE DEF qs
  <2> QED
    BY <2>1, <2>4, CutHas
<1> QED
  BY <1>6, <1>7

\* An accepted sheet has an entry for every claim that was asked about.
LEMMA AllAreAsked ==
  ASSUME NEW kept, IsFiniteSet(DOMAIN kept), NEW sheet \in Sheets(kept), NEW max,
         QueriesAccepted(sheet, Expected(kept), max)
  PROVE  /\ Expected(kept) = {sheet[k].sequence : k \in DOMAIN sheet}
         /\ \A i \in Expected(kept) : Len(kept[i].generated) \in 1..max
<1> DEFINE E == Expected(kept)
           named == {sheet[k].sequence : k \in DOMAIN sheet}
<1>1. IsFiniteSet(E) /\ Cardinality(E) \in Nat
  <2>1. E \in SUBSET (DOMAIN kept)
    BY DEF Expected
  <2> QED
    BY <2>1, FS_Subset, FS_CardinalityType
<1> PICK k \in 0..Cardinality(E) : \E f \in [1..k -> E] :
      sheet = [x \in DOMAIN f |-> [sequence |-> f[x], queries |-> kept[f[x]].generated]]
  BY DEF Sheets
<1>2. PICK f \in [1..k -> E] :
        sheet = [x \in DOMAIN f |-> [sequence |-> f[x], queries |-> kept[f[x]].generated]]
  OBVIOUS
<1>3. /\ DOMAIN sheet = 1..k /\ Len(sheet) = k
      /\ \A x \in 1..k : sheet[x].sequence = f[x] /\ sheet[x].queries = kept[f[x]].generated
  BY <1>2
<1>4. k = Cardinality(E) /\ \A x, y \in 1..k : x # y => f[x] # f[y]
  <2>1. Unique(sheet, E)
    BY DEF QueriesAccepted
  <2>2. Len(sheet) = Cardinality(E)
    BY <2>1 DEF Unique
  <2>3. \A x, y \in DOMAIN sheet : x # y => sheet[x].sequence # sheet[y].sequence
    BY <2>1 DEF Unique
  <2> QED
    BY <1>3, <2>2, <2>3
<1>5. named \in SUBSET E
  BY <1>2, <1>3
<1>6. Cardinality(named) = Cardinality(E)
  <2>1. IsFiniteSet(1..k) /\ Cardinality(1..k) = k
    BY <1>1, FS_Interval
  <2>2. f \in Bijection(1..k, named)
    BY <1>2, <1>3, <1>4 DEF Bijection, Injection, Surjection, Range, IsInjective
  <2>3. ExistsBijection(1..k, named)
    BY <2>2 DEF ExistsBijection
  <2> QED
    BY <1>4, <2>1, <2>3, FS_Bijection
<1>7. named = E
  BY <1>1, <1>5, <1>6, FS_Subset
<1>8. ASSUME NEW i \in E
      PROVE  Len(kept[i].generated) \in 1..max
  <2>1. PICK x \in 1..k : f[x] = i
    BY <1>3, <1>7
  <2> QED
    BY <1>3, <2>1 DEF QueriesAccepted, QueriesTold
<1> QED
  BY <1>7, <1>8

-----------------------------------------------------------------------------
(* From the claims of a pass to its conclusion.                            *)

PassHolds == ReadingHolds /\ QueriesPlanned

\* Where a pass stands before or after all this, nothing is asked of its claims.
LEMMA PassOver ==
  ASSUME stage' \in {"idle", "extract", "claim", "prepare_blank", "validate", "complete", "finish"},
         stage' \in Unread => work'.claims = <<>>
  PROVE  PassHolds'
  BY DEF PassHolds, ReadingHolds, ClaimsStored, EntriesHold, EvaluationsHold, AnalysisHolds,
     QueriesPlanned, Reached, OfClaims, InStage, Unread, Claiming, Stored, Answered

\* Until the model has answered, only the claims are spoken of.
LEMMA PassUnanswered ==
  ASSUME stage' \in Claiming \ Answered, UNCHANGED pass,
         IsListed(work.claims) /\ work.claims # <<>>,
         \A i \in DOMAIN work.claims : work.claims[i].id = <<pass, i>>,
         work'.claims = work.claims, QueriesPlanned, Reached(Claiming),
         stage' \in Stored => claims' = ToSet(work.claims)
  PROVE  PassHolds'
<1>1. /\ stage' \notin Unread /\ stage' \notin Answered /\ stage' # "synthesize" /\ stage' # "drop_evaluations"
      /\ stage' # "evaluate" /\ stage' \notin {"relate", "conclude"} /\ stage' \notin {"conclude"}
  BY DEF Unread, Answered, Claiming, Stored
<1>2. ClaimsStored'
  BY <1>1 DEF ClaimsStored, Reached, OfClaims, InStage
<1>3. EntriesHold' /\ EvaluationsHold' /\ AnalysisHolds'
  BY <1>1 DEF EntriesHold, EvaluationsHold, AnalysisHolds, Reached, OfClaims, InStage
<1>4. QueriesPlanned'
  BY DEF QueriesPlanned
<1> QED
  BY <1>2, <1>3, <1>4 DEF PassHolds, ReadingHolds

LEMMA ClaimsOfPass ==
  ASSUME PassHolds, stage \in Claiming
  PROVE  /\ IsListed(work.claims) /\ work.claims # <<>> /\ Reached(Claiming) /\ QueriesPlanned
         /\ \A i \in DOMAIN work.claims : work.claims[i].id = <<pass, i>>
         /\ stage \in Stored => claims = ToSet(work.claims)
  BY DEF PassHolds, ReadingHolds, ClaimsStored, Reached

\* The claims a pass makes of the drafts it kept.
Made(kept, sheet) ==
  [i \in DOMAIN kept |->
     [id |-> <<pass, i>>, verifiability |-> kept[i].verifiability, importance |-> kept[i].importance,
      foreign |-> \A j \in Firsts(kept[i].generated) :
                    kept[i].generated[j].language \notin {load.language, "en"},
      queries |-> IF i \in {sheet[k].sequence : k \in DOMAIN sheet}
                  THEN MultilingualQueries(kept[i], load.language, load.queries) ELSE <<>>]]

LEMMA MadeAre ==
  ASSUME NEW drafts \in load.drafts, Fields, ClaimsTold(drafts, MaxClaims),
         NEW kept, kept = Located(drafts), kept # <<>>, NEW sheet \in Sheets(kept),
         QueriesAccepted(sheet, Expected(kept), load.queries)
  PROVE  LET cs == Made(kept, sheet)
         IN /\ IsListed(cs) /\ cs # <<>> /\ \A i \in DOMAIN cs : cs[i].id = <<pass, i>>
            /\ \A i \in DOMAIN cs : cs[i].verifiability \in Verifiable => cs[i].queries # <<>> \/ cs[i].foreign
<1> DEFINE located == {i \in DOMAIN drafts : ResolveSourceSpan(drafts[i], load.length)}
           cs == Made(kept, sheet)
<1>1. /\ Len(drafts) \in Nat /\ DOMAIN drafts = 1..Len(drafts) /\ load.queries \in Nat
      /\ \A i \in DOMAIN drafts : DOMAIN drafts[i].generated = 1..Len(drafts[i].generated)
  BY InvestigationAssumption DEF ClaimsTold, Fields
<1>2. \A n \in Nat : IsFiniteSet(1..n)
  BY IntervalsAreFinite
<1>3. located \in SUBSET (DOMAIN drafts) /\ IsFiniteSet(located) /\ Cardinality(located) \in Nat
  BY <1>1, <1>2, FS_Subset, FS_CardinalityType
<1>4. kept = Picked(drafts, located)
  BY DEF Located
<1> HIDE DEF located
<1>5. IsListed(kept) /\ DOMAIN kept = 1..Cardinality(located) /\ IsFiniteSet(DOMAIN kept)
  BY <1>2, <1>3, <1>4, PickedIsListed
<1>6. \A i \in DOMAIN kept : DOMAIN kept[i].generated = 1..Len(kept[i].generated)
  <2>1. located \subseteq Nat
    BY <1>1, <1>3
  <2>2. \A i \in DOMAIN kept : \E j \in located : kept[i] = drafts[j]
    BY <1>3, <1>4, <2>1, PickedAre
  <2> QED
    BY <1>1, <1>3, <2>2
<1>7. IsListed(cs) /\ cs # <<>> /\ DOMAIN cs = DOMAIN kept /\ \A i \in DOMAIN cs : cs[i].id = <<pass, i>>
  <2>1. Len(kept) \in Nat \ {0} /\ DOMAIN kept = 1..Len(kept)
    BY <1>5 DEF IsListed
  <2>2. /\ DOMAIN cs = DOMAIN kept /\ cs = [i \in DOMAIN cs |-> cs[i]]
        /\ \A i \in DOMAIN cs : cs[i].id = <<pass, i>>
    BY DEF Made
  <2> HIDE DEF cs
  <2> QED
    BY <2>1, <2>2 DEF IsListed
<1>8. ASSUME NEW i \in DOMAIN cs, cs[i].verifiability \in Verifiable, ~cs[i].foreign
      PROVE  cs[i].queries # <<>>
  <2>1. /\ cs[i].verifiability = kept[i].verifiability
        /\ cs[i].foreign <=> \A j \in Firsts(kept[i].generated) :
                               kept[i].generated[j].language \notin {load.language, "en"}
        /\ i \in {sheet[k].sequence : k \in DOMAIN sheet} =>
             cs[i].queries = MultilingualQueries(kept[i], load.language, load.queries)
    BY <1>7 DEF Made
  <2> HIDE DEF cs
  <2>2. i \in Expected(kept)
    BY <1>7, <1>8, <2>1 DEF Expected
  <2>3. /\ i \in {sheet[k].sequence : k \in DOMAIN sheet}
        /\ Len(kept[i].generated) \in 1..load.queries
    BY <1>5, <2>2, AllAreAsked
  <2>4. load.queries \in Nat \ {0} /\ Len(kept[i].generated) \in Nat
    BY <1>1, <2>3
  <2>5. IsFiniteSet(DOMAIN kept[i].generated) /\ DOMAIN kept[i].generated \subseteq Nat
    BY <1>2, <1>6, <1>7, <2>4
  <2>6. \E j \in Firsts(kept[i].generated) : kept[i].generated[j].language \in {load.language, "en"}
    BY <1>8, <2>1
  <2> QED
    BY <2>1, <2>3, <2>4, <2>5, <2>6, QueriesLeft
<1> QED
  BY <1>7, <1>8

LEMMA ExtractClaimsPass ==
  ASSUME Fields, PassHolds, ExtractClaims
  PROVE  PassHolds'
<1>1. CASE stage' = "idle"
  BY <1>1, PassOver DEF Unread
<1>2. CASE stage' # "idle"
  <2> PICK drafts \in load.drafts : \E sheet \in Sheets(Located(drafts)) :
        /\ ClaimsTold(drafts, MaxClaims) /\ Located(drafts) # <<>>
        /\ QueriesAccepted(sheet, Expected(Located(drafts)), load.queries)
        /\ work' = [work EXCEPT !.claims = Made(Located(drafts), sheet)]
    BY <1>2, Zenon DEF ExtractClaims, Refuse, Stops, Goto, Made
  <2> PICK sheet \in Sheets(Located(drafts)) :
        /\ ClaimsTold(drafts, MaxClaims) /\ Located(drafts) # <<>>
        /\ QueriesAccepted(sheet, Expected(Located(drafts)), load.queries)
        /\ work' = [work EXCEPT !.claims = Made(Located(drafts), sheet)]
    OBVIOUS
  <2> DEFINE cs == Made(Located(drafts), sheet)
  <2>1. /\ IsListed(cs) /\ cs # <<>> /\ \A i \in DOMAIN cs : cs[i].id = <<pass, i>>
        /\ \A i \in DOMAIN cs : cs[i].verifiability \in Verifiable => cs[i].queries # <<>> \/ cs[i].foreign
    BY MadeAre
  <2> HIDE DEF cs
  <2>2. stage' = "drop_claims" /\ UNCHANGED pass
    BY <1>2, Zenon DEF ExtractClaims, Refuse, Stops, Goto, Keep
  <2>3. work'.claims = cs
    BY DEF Fields, WorkFields, cs
  <2>4. ClaimsStored'
    BY <2>1, <2>2, <2>3 DEF ClaimsStored, Reached, OfClaims, InStage, Unread, Claiming, Stored, Answered
  <2>5. QueriesPlanned'
    BY <2>1, <2>2, <2>3 DEF QueriesPlanned
  <2>6. EntriesHold' /\ EvaluationsHold' /\ AnalysisHolds'
    BY <2>2 DEF EntriesHold, EvaluationsHold, AnalysisHolds, Reached, OfClaims, InStage, Answered
  <2> QED
    BY <2>4, <2>5, <2>6 DEF PassHolds, ReadingHolds
<1> QED
  BY <1>1, <1>2

LEMMA SearchingPass ==
  ASSUME Fields, PassHolds, DropClaims \/ InsertClaims \/ Prepare \/ DropEvidence \/ Search \/ Record \/ SearchEnds
  PROVE  PassHolds'
<1>1. CASE stage' = "idle"
  BY <1>1, PassOver DEF Unread
<1>2. CASE Prepare /\ InStage("prepare_blank")
  <2>1. stage' = "synthesize" /\ work' = work /\ work.claims = <<>>
    BY <1>2 DEF Prepare, InStage, Goto, PassHolds, ReadingHolds, ClaimsStored, Unread
  <2> QED
    BY <2>1 DEF PassHolds, ReadingHolds, ClaimsStored, EntriesHold, EvaluationsHold, AnalysisHolds,
       QueriesPlanned, Reached, OfClaims, InStage, Unread, Claiming, Stored, Answered
<1>3. CASE stage' # "idle" /\ ~InStage("prepare_blank")
  <2>1. /\ stage \in Claiming \ Answered /\ stage' \in Claiming \ Answered /\ UNCHANGED pass
        /\ stage = "insert_claims" \/ (stage' \in Stored => stage \in Stored)
    BY <1>3, ZenonT(60) DEF DropClaims, InsertClaims, Prepare, DropEvidence, Search, Record, SearchEnds, Refuse,
         Stops, InStage, Goto, Keep, Claiming, Stored, Answered
  <2>2. work'.claims = work.claims
    BY <1>3 DEF Fields, WorkFields, DropClaims, InsertClaims, Prepare, DropEvidence, Search, Record, SearchEnds,
         Refuse, Stops, Goto
  <2>3. stage' \in Stored => claims' = ToSet(work.claims)
    <3>1. CASE InsertClaims
      BY <3>1 DEF InsertClaims
    <3>2. CASE DropClaims
      BY <3>2 DEF DropClaims, Goto, Stored, Answered
    <3>3. CASE Prepare \/ DropEvidence \/ Search \/ Record \/ SearchEnds
      <4>1. UNCHANGED claims /\ stage \in Stored
        BY <1>3, <3>3 DEF Prepare, DropEvidence, Search, Record, SearchEnds, Refuse, collections, InStage,
             Stored, Answered
      <4> QED
        BY <2>1, <4>1, ClaimsOfPass
    <3> QED
      BY <3>1, <3>2, <3>3
  <2> QED
    BY <2>1, <2>2, <2>3, ClaimsOfPass, PassUnanswered
<1>4. InStage("prepare_blank") => Prepare
  BY DEF InStage, DropClaims, InsertClaims, DropEvidence, Search, Record, SearchEnds
<1> QED
  BY <1>1, <1>2, <1>3, <1>4

-----------------------------------------------------------------------------
(* The model's answer and what is made of it.                              *)

LEMMA SequenceOfSet ==
  ASSUME NEW S, IsFiniteSet(S)
  PROVE  /\ Cardinality(S) \in Nat /\ DOMAIN SetToSeq(S) = 1..Cardinality(S)
         /\ \A i \in DOMAIN SetToSeq(S) : SetToSeq(S)[i] \in S
<1> DEFINE n == Cardinality(S)
<1>1. n \in Nat
  BY FS_CardinalityType
<1>2. IsFiniteSet(1..n) /\ Cardinality(1..n) = n
  BY <1>1, FS_Interval
<1>3. ExistsBijection(1..n, S)
  BY <1>2, FS_SameCardinalityBij
<1>4. \E f \in [1..n -> S] : IsInjective(f)
  BY <1>3 DEF ExistsBijection, Bijection, Injection
<1>5. SetToSeq(S) \in [1..n -> S]
  BY <1>4 DEF SetToSeq
<1> QED
  BY <1>1, <1>5

LEMMA AppendedToFinite ==
  ASSUME NEW n \in Nat, NEW s, DOMAIN s = 1..n, s = [i \in 1..n |-> s[i]], NEW x
  PROVE  /\ DOMAIN Append(s, x) = 1..(n + 1)
         /\ \A i \in 1..n : Append(s, x)[i] = s[i]
         /\ Append(s, x)[n + 1] = x
<1>1. Len(s) = n
  OBVIOUS
<1>2. IsListed(s)
  BY <1>1 DEF IsListed
<1> DEFINE t == Append(s, x)
<1>3. /\ IsListed(t) /\ Len(t) = n + 1 /\ t[n + 1] = x
      /\ \A i \in 1..n : t[i] = s[i]
  BY <1>1, <1>2, ListAppend
<1> QED
  BY <1>3 DEF IsListed

\* An answer is a list of entries, each with a claim and links.
LEMMA RepliesAre ==
  ASSUME IsFiniteSet(claims), NEW reply \in Replies
  PROVE  /\ \E n \in Nat : DOMAIN reply.entries = 1..n
         /\ \A i \in DOMAIN reply.entries : {"claim", "links"} \subseteq DOMAIN reply.entries[i]
<1> DEFINE order == SetToSeq(claims)
           own(c) == {e.id : e \in {x \in evidence : x.claim = c.id}}
           ids == {e.id : e \in evidence}
           entry(c, records, given) == [claim |-> c.id, links |-> [id \in records |-> given[id]]]
           plain(given) == [i \in DOMAIN order |-> entry(order[i], own(order[i]), given)]
           crossed(given) == [i \in DOMAIN order |-> entry(order[i], ids, given)]
           doubled(given, c, r) == Append(plain(given), entry(c, own(c), [id \in ids |-> r]))
<1>1. \E given : \/ reply.entries = plain(given) \/ reply.entries = crossed(given)
                 \/ \E c, r : reply.entries = doubled(given, c, r)
  <2> DEFINE entries(given) == {plain(given)} \cup
               IF load.crossed
               THEN {crossed(given)} \cup {doubled(given, c, r) : c \in claims, r \in load.relations}
               ELSE {}
             all == UNION {entries(given) : given \in [ids -> load.relations]}
             answer(notes, es) ==
               [entries |-> es, manipulation |-> notes.manipulation, bias |-> notes.bias, size |-> notes.size,
                missing |-> {[severity |-> s, cites |-> ids \cup {<<0, 0>>}] : s \in notes.missing}]
  <2>1. Replies = {r \in {answer(notes, es) : notes \in load.notes, es \in all} : AnalysisTold(r)}
    BY DEF Replies
  <2>2. \A notes, es : answer(notes, es).entries = es
    OBVIOUS
  <2> HIDE DEF answer, all
  <2>3. reply.entries \in all
    BY <2>1, <2>2
  <2> HIDE DEF entries
  <2>4. PICK given \in [ids -> load.relations] : reply.entries \in entries(given)
    BY <2>3 DEF all
  <2> HIDE DEF plain, crossed, doubled
  <2>5. \/ reply.entries = plain(given) \/ reply.entries = crossed(given)
        \/ \E c \in claims, r \in load.relations : reply.entries = doubled(given, c, r)
    <3>1. CASE load.crossed
      <4>1. reply.entries \in {plain(given)} \cup
              ({crossed(given)} \cup {doubled(given, c, r) : c \in claims, r \in load.relations})
        BY <2>4, <3>1 DEF entries
      <4> QED
        BY <4>1
    <3>2. CASE ~load.crossed
      BY <2>4, <3>2 DEF entries
    <3> QED
      BY <3>1, <3>2
  <2> QED
    BY <2>5
<1> DEFINE n == Cardinality(claims)
<1>2. n \in Nat /\ DOMAIN order = 1..n
  BY SequenceOfSet
<1> HIDE DEF order, own, ids, n
<1>3. ASSUME NEW given
      PROVE  /\ DOMAIN plain(given) = 1..n /\ DOMAIN crossed(given) = 1..n
             /\ plain(given) = [i \in 1..n |-> plain(given)[i]]
             /\ \A i \in 1..n : /\ {"claim", "links"} \subseteq DOMAIN plain(given)[i]
                                /\ {"claim", "links"} \subseteq DOMAIN crossed(given)[i]
  BY <1>2
<1>4. ASSUME NEW given, NEW c, NEW r
      PROVE  /\ DOMAIN doubled(given, c, r) = 1..(n + 1)
             /\ \A i \in 1..(n + 1) : {"claim", "links"} \subseteq DOMAIN doubled(given, c, r)[i]
  <2> DEFINE x == entry(c, own(c), [id \in ids |-> r])
             s == plain(given)
  <2>1. {"claim", "links"} \subseteq DOMAIN x
    OBVIOUS
  <2>2. DOMAIN s = 1..n /\ s = [i \in 1..n |-> s[i]] /\ \A i \in 1..n : {"claim", "links"} \subseteq DOMAIN s[i]
    BY <1>3
  <2> HIDE DEF x, s, plain, entry
  <2>3. /\ DOMAIN Append(s, x) = 1..(n + 1) /\ \A i \in 1..n : Append(s, x)[i] = s[i]
        /\ Append(s, x)[n + 1] = x
    BY <1>2, <2>2, AppendedToFinite
  <2>4. \A i \in 1..(n + 1) : i \in 1..n \/ i = n + 1
    BY <1>2
  <2>5. \A i \in 1..(n + 1) : {"claim", "links"} \subseteq DOMAIN Append(s, x)[i]
    BY <2>1, <2>2, <2>3, <2>4
  <2> QED
    BY <2>3, <2>5 DEF s, x
<1> HIDE DEF plain, crossed, doubled
<1>5. n + 1 \in Nat
  BY <1>2
<1> QED
  BY <1>1, <1>2, <1>3, <1>4, <1>5

LEMMA ClaimsAreFinite ==
  ASSUME PassHolds, Reached(Stored)
  PROVE  /\ IsFiniteSet(claims) /\ work.claims # <<>> /\ IsListed(work.claims)
         /\ \A c, d \in claims : c.id = d.id => c = d
         /\ \A i \in DOMAIN work.claims : work.claims[i].id = <<pass, i>>
         /\ claims = ToSet(work.claims)
<1>1. /\ claims = ToSet(work.claims) /\ IsListed(work.claims) /\ work.claims # <<>>
      /\ \A i \in DOMAIN work.claims : work.claims[i].id = <<pass, i>>
  BY DEF PassHolds, ReadingHolds, ClaimsStored, Reached, Claiming
<1> DEFINE cs == work.claims
<1>2. claims = {cs[i] : i \in DOMAIN cs}
  BY <1>1 DEF ToSet
<1>3. IsFiniteSet(DOMAIN cs)
  BY <1>1, IntervalsAreFinite DEF IsListed
<1>4. cs \in Surjection(DOMAIN cs, claims)
  BY <1>1, <1>2 DEF Surjection, Range, IsListed
<1> HIDE DEF cs
<1>5. IsFiniteSet(claims)
  BY <1>3, <1>4, FS_Surjection
<1>6. \A c, d \in claims : c.id = d.id => c = d
  BY <1>1, <1>2 DEF cs
<1> QED
  BY <1>1, <1>5, <1>6

LEMMA ComparePass ==
  ASSUME Fields, SourcesHold, PassHolds, Compare
  PROVE  PassHolds'
<1>1. CASE stage' = "idle"
  BY <1>1, PassOver DEF Unread
<1>2. CASE stage' # "idle"
  <2>1. Reached(Stored)
    BY DEF Compare, InStage, Reached, Stored
  <2> PICK reply \in Replies :
        LET safe == ValidateReferences(reply, claims, evidence, load.length)
        IN work' = [work EXCEPT !.entries = safe.entries, !.manipulation = safe.manipulation,
                                !.missing = safe.missing, !.left = claims]
    BY <1>2, Zenon DEF Compare, Refuse, Stops, Goto
  <2>2. stage = "compare" /\ stage' = "drop_evaluations" /\ UNCHANGED <<pass, claims, evidence, evaluations, analysis>>
    BY <1>2 DEF Compare, InStage, Refuse, Stops, Goto, Keep, collections
  <2> DEFINE safe == ValidateReferences(reply, claims, evidence, load.length)
  <2>3. work'.entries = safe.entries /\ work'.left = claims /\ work'.claims = work.claims
    BY DEF Fields, WorkFields
  <2>4. PICK n \in Nat : DOMAIN reply.entries = 1..n
    BY <2>1, ClaimsAreFinite, RepliesAre
  <2>5. \A i \in DOMAIN reply.entries : {"claim", "links"} \subseteq DOMAIN reply.entries[i]
    BY <2>1, ClaimsAreFinite, RepliesAre
  <2>6. /\ DOMAIN safe.entries \in SUBSET (1..n)
        /\ \A i \in DOMAIN safe.entries :
             /\ safe.entries[i].claim = reply.entries[i].claim
             /\ \A id \in DOMAIN safe.entries[i].links :
                  \E e \in evidence : e.id = id /\ e.claim = safe.entries[i].claim
    <3> DEFINE own(entry) == {id \in DOMAIN entry.links :
                               OwnEvidence([claim |-> entry.claim, evidence |-> id], evidence)}
               kept == {i \in DOMAIN reply.entries : \E c \in claims : c.id = reply.entries[i].claim}
    <3>1. safe.entries = [i \in kept |-> [reply.entries[i] EXCEPT
                                            !.links = Restrict(@, own(reply.entries[i]))]]
      BY DEF ValidateReferences
    <3> HIDE DEF safe
    <3>2. \A i \in kept : /\ safe.entries[i].claim = reply.entries[i].claim
                          /\ DOMAIN safe.entries[i].links = own(reply.entries[i])
      BY <2>5, <3>1 DEF Restrict
    <3>3. DOMAIN safe.entries = kept /\ kept \in SUBSET (1..n)
      BY <2>4, <3>1
    <3>4. \A entry : \A id \in own(entry) : \E e \in evidence : e.id = id /\ e.claim = entry.claim
      BY DEF OwnEvidence
    <3> HIDE DEF own, kept
    <3> QED
      BY <3>2, <3>3, <3>4
  <2> HIDE DEF safe
  <2>7. IsFiniteSet(DOMAIN safe.entries) /\ DOMAIN safe.entries \subseteq Nat
    <3>1. IsFiniteSet(1..n)
      BY FS_Interval
    <3> QED
      BY <2>6, <3>1, FS_Subset
  <2>8. \A i \in DOMAIN safe.entries, e \in evidence :
          e.id \in DOMAIN safe.entries[i].links => e.claim = safe.entries[i].claim
    BY <2>6 DEF SourcesHold, EvidenceStored
  <2>9. EntriesHold'
    BY <2>2, <2>3, <2>7, <2>8 DEF EntriesHold
  <2>10. EvaluationsHold' /\ AnalysisHolds'
    BY <2>2, <2>3 DEF EvaluationsHold, AnalysisHolds, InStage, Reached, OfClaims
  <2>11. ClaimsStored'
    BY <2>1, <2>2, <2>3, ClaimsAreFinite DEF ClaimsStored, Unread
  <2>12. QueriesPlanned'
    BY <2>1, <2>3 DEF PassHolds, QueriesPlanned, Reached, Claiming
  <2> QED
    BY <2>9, <2>10, <2>11, <2>12 DEF PassHolds, ReadingHolds
<1> QED
  BY <1>1, <1>2

\* The steps after the answer leave the claims.
LEMMA ClaimsPass ==
  ASSUME PassHolds, Reached(Stored), Reached(Stored)', UNCHANGED <<pass, claims>>,
         work'.claims = work.claims, stage' \notin Unread
  PROVE  ClaimsStored' /\ QueriesPlanned'
  BY ClaimsAreFinite DEF PassHolds, ClaimsStored, QueriesPlanned, Reached, Claiming

LEMMA DropEvaluationsPass ==
  ASSUME Fields, PassHolds, DropEvaluations
  PROVE  PassHolds'
<1>1. /\ stage = "drop_evaluations" /\ stage' = "evaluate" /\ evaluations' = {}
      /\ UNCHANGED <<pass, work, claims, evidence, analysis>>
  BY DEF DropEvaluations, InStage, Goto, Keep
<1>2. ClaimsStored' /\ QueriesPlanned'
  BY <1>1, ClaimsPass DEF Reached, Stored, Answered, Unread
<1>3. EntriesHold' /\ AnalysisHolds'
  BY <1>1 DEF PassHolds, ReadingHolds, EntriesHold, AnalysisHolds, Reached, OfClaims, InStage, Answered
<1>4. EvaluationsHold'
  BY <1>1 DEF PassHolds, ReadingHolds, EvaluationsHold, EvaluatedAre, Reached, OfClaims, InStage
<1> QED
  BY <1>2, <1>3, <1>4 DEF PassHolds, ReadingHolds

\* An evaluation counts the sources the answer relates to its claim.
LEMMA EvaluationIs ==
  ASSUME NEW c, NEW v,
         v = EvaluateClaim(c, {e \in evidence : e.claim = c.id}, work.entries)
  PROVE  /\ v.claim = c.id /\ v.supporting = Related(c.id, "SUPPORTS")
         /\ v.contradicting = Related(c.id, "CONTRADICTS") /\ v.once = SpokenOnce(c.id)
<1> DEFINE found == {e \in evidence : e.claim = c.id}
           links == Links(work.entries, c.id)
           related(r) == {e \in Available(found) : e.id \in DOMAIN links /\ links[e.id] = r}
<1>1. /\ v.claim = c.id
      /\ v.supporting = {e.id : e \in related("SUPPORTS")}
      /\ v.contradicting = {e.id : e \in related("CONTRADICTS")}
      /\ v.once = (Quantify(DOMAIN work.entries, LAMBDA i : work.entries[i].claim = c.id) <= 1)
  BY Zenon DEF EvaluateClaim
<1>2. v.once = SpokenOnce(c.id)
  BY <1>1, Zenon DEF SpokenOnce, Quantify
<1>3. \A r : {e.id : e \in related(r)} = Related(c.id, r)
  BY DEF Available, Related, CountsFor
<1> QED
  BY <1>1, <1>2, <1>3

LEMMA EvaluatePass ==
  ASSUME Fields, PassHolds, Evaluate
  PROVE  PassHolds'
<1> PICK c \in work.left :
      /\ evaluations' = evaluations \cup {EvaluateClaim(c, {e \in evidence : e.claim = c.id}, work.entries)}
      /\ work' = [work EXCEPT !.left = @ \ {c}]
      /\ stage' = IF work.left = {c} THEN "relate" ELSE "evaluate"
  BY DEF Evaluate, Goto
<1>1. stage = "evaluate" /\ UNCHANGED <<pass, claims, evidence, analysis>>
  BY DEF Evaluate, InStage, Keep
<1>2. /\ work'.claims = work.claims /\ work'.entries = work.entries /\ work'.left = work.left \ {c}
  BY DEF Fields, WorkFields
<1>3. /\ work.left \subseteq claims /\ EvaluatedAre(claims \ work.left)
      /\ \A a, d \in claims : a.id = d.id => a = d
  BY <1>1, ClaimsAreFinite DEF PassHolds, ReadingHolds, EvaluationsHold, InStage, Reached, Stored, Answered
<1> DEFINE v == EvaluateClaim(c, {e \in evidence : e.claim = c.id}, work.entries)
<1>4. /\ v.claim = c.id /\ v.supporting = Related(c.id, "SUPPORTS")
      /\ v.contradicting = Related(c.id, "CONTRADICTS") /\ v.once = SpokenOnce(c.id)
  BY EvaluationIs
<1>5. evaluations' = evaluations \cup {v}
  OBVIOUS
<1> HIDE DEF v
<1>6. \A w \in evaluations : w.claim # v.claim
  BY <1>3, <1>4 DEF EvaluatedAre
<1>7. \A claim, r : Related(claim, r)' = Related(claim, r) /\ SpokenOnce(claim)' = SpokenOnce(claim)
  BY <1>1, <1>2 DEF Related, SpokenOnce
<1>8. ASSUME NEW cs, cs = (claims \ work.left) \cup {c}
      PROVE  EvaluatedAre(cs)'
  <2>1. \A d \in cs : \E w \in evaluations' : w.claim = d.id
    BY <1>3, <1>4, <1>5, <1>8 DEF EvaluatedAre
  <2>2. \A u, w \in evaluations' : u.claim = w.claim => u = w
    BY <1>3, <1>5, <1>6 DEF EvaluatedAre
  <2>3. \A w \in evaluations' : /\ \E d \in cs : w.claim = d.id
                                /\ w.supporting = Related(w.claim, "SUPPORTS")
                                /\ w.contradicting = Related(w.claim, "CONTRADICTS")
                                /\ w.once = SpokenOnce(w.claim)
    BY <1>3, <1>4, <1>5, <1>8 DEF EvaluatedAre
  <2> QED
    BY <1>7, <2>1, <2>2, <2>3 DEF EvaluatedAre
<1>9. /\ work'.left \subseteq claims' /\ claims' \ work'.left = (claims \ work.left) \cup {c}
      /\ stage' = "relate" => claims' = (claims \ work.left) \cup {c}
  BY <1>1, <1>2, <1>3
<1>10. EvaluationsHold'
  BY <1>8, <1>9 DEF EvaluationsHold, Reached, OfClaims, InStage
<1>11. ClaimsStored' /\ QueriesPlanned'
  BY <1>1, <1>2, ClaimsPass DEF Reached, Stored, Answered, Unread
<1>12. EntriesHold' /\ AnalysisHolds'
  BY <1>1, <1>2 DEF PassHolds, ReadingHolds, EntriesHold, AnalysisHolds, Reached, OfClaims, InStage, Answered
<1> QED
  BY <1>10, <1>11, <1>12 DEF PassHolds, ReadingHolds

LEMMA RelatePass ==
  ASSUME Fields, SourcesHold, PassHolds, Relate
  PROVE  PassHolds'
<1> DEFINE To(e) == [e EXCEPT !.relation = Relation(work.entries, e)]
<1>1. /\ stage = "relate" /\ stage' = "conclude" /\ evidence' = {To(e) : e \in evidence}
      /\ UNCHANGED <<pass, work, claims, evaluations, analysis>>
  BY DEF Relate, InStage, Goto, Keep
<1>2. \A e \in evidence : /\ To(e).id = e.id /\ To(e).claim = e.claim /\ To(e).access = e.access
                          /\ To(e).lineage = e.lineage /\ To(e).relation = Relation(work.entries, e)
  BY DEF SourcesHold, EvidenceStored, SourceFields
<1>3. \A e \in evidence : Relation(work.entries, To(e)) = Relation(work.entries, e)
  <2> HIDE DEF To
  <2> QED
    BY <1>2 DEF Relation
<1> HIDE DEF To
<1>4. \A claim, r : Related(claim, r)' = Related(claim, r)
  <2> SUFFICES ASSUME NEW claim, NEW r
               PROVE  Related(claim, r)' = Related(claim, r)
    OBVIOUS
  <2> DEFINE links == Links(work.entries, claim)
             is(x) == CountsFor(x, claim) /\ x.id \in DOMAIN links /\ links[x.id] = r
  <2>1. Related(claim, r) = {e.id : e \in {x \in evidence : is(x)}}
    BY DEF Related
  <2>2. Related(claim, r)' = {e.id : e \in {x \in evidence' : is(x)}}
    BY <1>1 DEF Related
  <2>3. \A e \in evidence : is(To(e)) <=> is(e)
    BY <1>2 DEF CountsFor
  <2> HIDE DEF is
  <2> QED
    BY <1>1, <1>2, <2>1, <2>2, <2>3
<1>5. EvaluatedAre(claims)
  BY <1>1 DEF PassHolds, ReadingHolds, EvaluationsHold, Reached
<1>6. EvaluatedAre(claims)'
  <2>1. \A claim : SpokenOnce(claim)' = SpokenOnce(claim)
    BY <1>1 DEF SpokenOnce
  <2> QED
    BY <1>1, <1>4, <1>5, <2>1 DEF EvaluatedAre
<1>7. EvaluationsHold'
  BY <1>1, <1>6 DEF EvaluationsHold, InStage
<1>8. ClaimsStored' /\ QueriesPlanned'
  BY <1>1, ClaimsPass DEF Reached, Stored, Answered, Unread
<1>9. EntriesHold'
  BY <1>1, <1>2 DEF PassHolds, ReadingHolds, EntriesHold, Reached, Answered
<1>10. AnalysisHolds'
  BY <1>1, <1>2, <1>3 DEF AnalysisHolds, OfClaims, InStage
<1> QED
  BY <1>7, <1>8, <1>9, <1>10 DEF PassHolds, ReadingHolds

LEMMA ConcludePass ==
  ASSUME Fields, PassHolds, Conclude
  PROVE  PassHolds'
<1> DEFINE overall == Overall(Judged(evaluations), work.manipulation, work.missing)
<1>1. /\ stage = "conclude" /\ stage' = "synthesize" /\ analysis' = Concluded(overall)
      /\ UNCHANGED <<pass, work, claims, evidence, evaluations>>
  BY DEF Conclude, InStage, Goto, Keep, Concluded
<1>2. overall' = overall
  BY <1>1 DEF Judged
<1>3. Concluded(overall)' = Concluded(overall)
  BY <1>1, <1>2 DEF Concluded
<1> HIDE DEF overall
<1>4. Reached(Stored) /\ Reached(Stored)'
  BY <1>1, ClaimsAreFinite DEF Reached, OfClaims, InStage, Stored, Answered
<1>5. ClaimsStored' /\ QueriesPlanned'
  BY <1>1, <1>4, ClaimsPass DEF Unread
<1>6. EntriesHold'
  BY <1>1 DEF PassHolds, ReadingHolds, EntriesHold, Reached, Answered
<1>7. EvaluationsHold'
  <2>1. EvaluatedAre(claims)
    BY <1>1 DEF PassHolds, ReadingHolds, EvaluationsHold, Reached
  <2>2. EvaluatedAre(claims)'
    BY <1>1, <2>1 DEF EvaluatedAre, Related, SpokenOnce
  <2> QED
    BY <1>1, <2>2 DEF EvaluationsHold, InStage
<1>8. AnalysisHolds'
  <2>1. \A e \in evidence : e.relation = Relation(work.entries, e)
    BY <1>1 DEF PassHolds, ReadingHolds, AnalysisHolds, Reached
  <2>2. analysis' = Concluded(Overall(Judged(evaluations), work.manipulation, work.missing))'
    BY <1>1, <1>3 DEF overall
  <2> QED
    BY <1>1, <2>1, <2>2 DEF AnalysisHolds
<1> QED
  BY <1>5, <1>6, <1>7, <1>8 DEF PassHolds, ReadingHolds

-----------------------------------------------------------------------------
(* Every step, and what follows.                                           *)

InvestigationState == <<load, status, pass, stage, work, collections>>

\* Steps that end a pass, begin one, or come after its claims.
LEMMA BetweenPasses ==
  ASSUME Fields, PassHolds,
         \/ Start \/ CallFails \/ WorkerDies \/ ReadImage \/ ReadVideo \/ Transcribe \/ ReadWritten
         \/ SynthesizeReport \/ SaveInvalid \/ Supersede \/ Complete \/ FinishPass
  PROVE  PassHolds'
<1>1. CASE CallFails \/ WorkerDies \/ FinishPass \/ SaveInvalid
  BY <1>1, PassOver DEF CallFails, WorkerDies, FinishPass, SaveInvalid, Stops, Refuse, Goto, Unread
<1>2. CASE Start
  BY <1>2, PassOver DEF Start, Goto, Idle
<1>3. CASE ReadImage \/ ReadVideo \/ Transcribe \/ ReadWritten
  <2>1. InStage("extract") => work.claims = <<>>
    BY DEF PassHolds, ReadingHolds, ClaimsStored, InStage, Unread
  <2>2. /\ InStage("extract")
        /\ \/ stage' = "idle"
           \/ stage' \in {"claim", "prepare_blank"} /\ work' = work
    BY <1>3 DEF ReadImage, ReadVideo, Transcribe, ReadWritten, Reads, Refuse, Stops, Goto
  <2> QED
    BY <2>1, <2>2, PassOver DEF Unread
<1>4. CASE SynthesizeReport
  BY <1>4, PassOver DEF SynthesizeReport, Refuse, Stops, Goto, Unread
<1>5. CASE Supersede \/ Complete
  BY <1>5, PassOver DEF Supersede, Complete, Goto, Unread
<1> QED
  BY <1>1, <1>2, <1>3, <1>4, <1>5

\* The exercise prepared, the pass goes on to its searches or, without a text, to
\* the report.
LEMMA PreparePass ==
  ASSUME Fields, PassHolds, Prepare
  PROVE  PassHolds'
<1>1. CASE InStage("prepare")
  BY <1>1, SearchingPass
<1>2. CASE ~InStage("prepare")
  <2>1. stage = "prepare_blank" /\ stage' = "synthesize" /\ work' = work /\ work.claims = <<>>
    BY <1>2 DEF Prepare, Goto, InStage, PassHolds, ReadingHolds, ClaimsStored, Unread
  <2> QED
    BY <2>1 DEF PassHolds, ReadingHolds, ClaimsStored, EntriesHold, EvaluationsHold, AnalysisHolds,
       QueriesPlanned, Reached, OfClaims, InStage, Unread, Claiming, Stored, Answered
<1> QED
  BY <1>1, <1>2

LEMMA WorkerPass ==
  ASSUME Fields, SourcesHold, PassHolds, Worker
  PROVE  PassHolds'
  BY BetweenPasses, PreparePass, ExtractClaimsPass, SearchingPass, ComparePass, DropEvaluationsPass,
     EvaluatePass, RelatePass, ConcludePass DEF Worker

LEMMA WorkerFields ==
  ASSUME Fields, Worker
  PROVE  Fields'
<1>1. DOMAIN Idle = WorkFields
  BY DEF Idle, WorkFields
<1>2. CASE \/ Start \/ CallFails \/ WorkerDies \/ ReadImage \/ ReadVideo \/ Transcribe \/ ReadWritten
           \/ SynthesizeReport \/ SaveInvalid \/ Supersede \/ Complete \/ FinishPass
  <2>1. CASE Start \/ CallFails \/ WorkerDies \/ SaveInvalid \/ FinishPass
    BY <1>1, <2>1 DEF Fields, Start, CallFails, WorkerDies, SaveInvalid, FinishPass, Stops, Refuse,
       Goto, Keep, WorkStages
  <2>2. CASE ReadImage \/ ReadVideo \/ Transcribe \/ ReadWritten
    <3>1. /\ stage' \in {"idle", "claim", "prepare_blank"} /\ (work' = Idle \/ work' = work)
          /\ UNCHANGED <<load, pass>>
      BY <2>2 DEF ReadImage, ReadVideo, Transcribe, ReadWritten, Reads, Stops, Refuse, Goto, Keep
    <3> QED
      BY <1>1, <3>1 DEF Fields, WorkStages
  <2>3. CASE SynthesizeReport
    BY <1>1, <2>3 DEF Fields, SynthesizeReport, Stops, Refuse, Goto, Keep, WorkStages
  <2>4. CASE Supersede \/ Complete
    BY <2>4 DEF Fields, Supersede, Complete, Goto, Keep, WorkStages
  <2> QED
    BY <1>2, <2>1, <2>2, <2>3, <2>4
<1>3. CASE ExtractClaims
  BY <1>1, <1>3 DEF Fields, ExtractClaims, Refuse, Stops, Goto, Keep, WorkStages
<1>4. CASE Prepare \/ DropClaims \/ InsertClaims \/ DropEvidence \/ DropEvaluations \/ Relate \/ Conclude
  BY <1>4 DEF Fields, Prepare, DropClaims, InsertClaims, DropEvidence, DropEvaluations, Relate, Conclude,
     Goto, Keep, WorkStages
<1>5. CASE Search \/ Record \/ SearchEnds
  BY <1>1, <1>5 DEF Fields, Search, Record, SearchEnds, Refuse, Stops, Goto, Keep, WorkStages, InStage
<1>6. CASE Compare
  BY <1>1, <1>6 DEF Fields, Compare, Refuse, Stops, Goto, Keep, WorkStages
<1>7. CASE Evaluate
  BY <1>7 DEF Fields, Evaluate, Goto, Keep, WorkStages
<1> QED
  BY <1>2, <1>3, <1>4, <1>5, <1>6, <1>7 DEF Worker

\* Requests to the exercise only read what the worker writes.
LEMMA InvestigationQuiet ==
  ASSUME InvestigationInv, UNCHANGED InvestigationState
  PROVE  InvestigationInv'
<1>1. Fields' /\ SourcesHold'
  BY DEF InvestigationInv, InvestigationState, collections, Fields, SourcesHold, EvidenceStored,
     CitationsHold, InStage
<1>2. ClaimsStored' /\ EntriesHold' /\ QueriesPlanned'
  BY DEF InvestigationInv, ReadingHolds, InvestigationState, collections, ClaimsStored, EntriesHold,
     QueriesPlanned, Reached, OfClaims, InStage
<1>3. EvaluationsHold'
  <2>1. \A cs : EvaluatedAre(cs)' <=> EvaluatedAre(cs)
    BY DEF InvestigationState, collections, EvaluatedAre, Related, SpokenOnce
  <2> QED
    BY <2>1 DEF InvestigationInv, ReadingHolds, InvestigationState, collections, EvaluationsHold,
       Reached, InStage, OfClaims
<1>4. AnalysisHolds'
  BY DEF InvestigationInv, ReadingHolds, InvestigationState, collections, AnalysisHolds, Concluded,
     Judged, Reached, OfClaims, InStage
<1>5. ReportsStored' /\ VersionsHold'
  BY DEF InvestigationInv, ReportingHolds, InvestigationState, collections, ReportsStored,
     VersionsHold, Newest, InStage
<1> QED
  BY <1>1, <1>2, <1>3, <1>4, <1>5 DEF InvestigationInv, ReadingHolds, ReportingHolds

LEMMA InvestigationStarts == InvestigationInit => InvestigationInv
<1> SUFFICES ASSUME InvestigationInit
             PROVE  InvestigationInv
  OBVIOUS
<1>1. Fields
  BY DEF InvestigationInit, Fields, Idle, WorkStages, WorkFields
<1>2. SourcesHold
  <2>1. IsFiniteSet({})
    BY FS_EmptySet
  <2> QED
    BY <2>1 DEF InvestigationInit, SourcesHold, EvidenceStored, CitationsHold, InStage
<1>3. ReadingHolds /\ QueriesPlanned
  BY DEF InvestigationInit, ReadingHolds, ClaimsStored, EntriesHold, EvaluationsHold, AnalysisHolds,
     QueriesPlanned, Reached, OfClaims, InStage, Unread, Claiming, Stored, Answered
<1>4. ReportingHolds
  BY DEF InvestigationInit, ReportingHolds, ReportsStored, IsListed, VersionsHold, InStage
<1> QED
  BY <1>1, <1>2, <1>3, <1>4 DEF InvestigationInv

LEMMA InvestigationGoesOn ==
  InvestigationInv /\ [InvestigationNext]_investigationVars => InvestigationInv'
<1> SUFFICES ASSUME InvestigationInv, [InvestigationNext]_investigationVars
             PROVE  InvestigationInv'
  OBVIOUS
<1>1. CASE Worker
  BY <1>1, WorkerFields, WorkerSources, WorkerPass, WorkerReports DEF InvestigationInv, PassHolds
<1>2. ASSUME NEW p \in Clients, Client(p)
      PROVE  UNCHANGED InvestigationState
  BY <1>2 DEF Client, FindSession, SaveAnswers, SyncEvidence, ReadReport, SaveFeedback, RequestFails,
     Quiet, InvestigationState
<1>3. CASE UNCHANGED investigationVars
  BY <1>3, InvestigationQuiet DEF investigationVars, InvestigationState
<1> QED
  BY <1>1, <1>2, <1>3, InvestigationQuiet DEF InvestigationNext

\* Whatever calls fail, wherever the worker dies and however often the investigation is
\* retried: its sources, claims, evaluations and reports agree with each other.
THEOREM InvestigationStands == InvestigationSpec => []InvestigationInv
  BY InvestigationStarts, InvestigationGoesOn, PTL DEF InvestigationSpec

\* What a report cites counts for its claim: the report was validated, so each citation
\* is among its sources.
LEMMA ReportsAreBacked == InvestigationInv => CountedSourcesStand
<1> SUFFICES ASSUME InvestigationInv, NEW v \in Published, NEW item \in reports[v].claims,
                    NEW id \in Cited(item)
             PROVE  \E e \in reports[v].evidence : /\ e.id = id /\ e.claim = item.id
                                                   /\ e.access \in Readable /\ e.lineage = "UNIQUE"
  BY DEF CountedSourcesStand
<1>1. ReportHolds(reports[v]) /\ Valid(reports[v])
  BY DEF InvestigationInv, ReportingHolds, ReportsStored, ReportHolds, Published
<1>2. PICK e \in reports[v].evidence : e.id = id
  BY <1>1 DEF Valid
<1> QED
  BY <1>1, <1>2 DEF ReportHolds, CountsFor

LEMMA SourcesAreApart == InvestigationInv => IndependentOnce
  BY DEF InvestigationInv, SourcesHold, EvidenceStored, CitationsHold, CountsFor, Apart, IndependentOnce

\* docs/reports.md:3-5 and docs/evidence.md:32-38: each source a published report counts is in
\* the report, was found for the claim it is counted for, could be read, and is no copy of
\* another source of that claim, in whatever order searches and passes stored them.
THEOREM ReportsStand == InvestigationSpec => []ReportStandsAlone
  BY ReportsAreBacked, SourcesAreApart, InvestigationStands, PTL DEF ReportStandsAlone

\* docs/verification-analysis.md:31-38 and claim-extraction.service.ts:96-149: the verdicts of a
\* published report follow from the claims and sources in that report, and every verifiable
\* claim was searched for, but one whose texts the model all gave first in another language.
THEOREM ReportsExplain == InvestigationSpec => []ReportExplainsItself
<1>1. InvestigationInv => VerdictsFollow
  BY DEF InvestigationInv, ReportingHolds, ReportsStored, ReportHolds, Agrees, Agreeing, VerdictsFollow,
     Published
<1>2. InvestigationInv => VerifiableIsSearched
  BY DEF InvestigationInv, QueriesPlanned, Reached, Claiming, Stored, VerifiableIsSearched, InStage
<1> QED
  BY <1>1, <1>2, InvestigationStands, PTL DEF ReportExplainsItself

-----------------------------------------------------------------------------
\* The guided exercise: answers once stored stay, and who shows them has them counted.
GivenStates == {"SUBMITTED", "FEEDBACK_READY"}
SessionHolds ==
  /\ session.status \in {"none", "READY"} \cup GivenStates
  /\ session.version \in Nat
  /\ DOMAIN session = {"status", "answers", "feedback", "version"}
  /\ session.status \in {"none", "READY"} => session.version = 0
  /\ session.status \in GivenStates => session.version > 0
AskingHolds(f) ==
  /\ DOMAIN f = {"call", "at", "copy", "verdict"}
  /\ f.at = "save" => f.copy.status = "READY" /\ f.copy.version = 0
  /\ f.at \in {"sync", "read", "save_feedback", "done"} =>
       f.copy.status = "READY" \/ (f.copy.status \in GivenStates /\ session.status \in GivenStates /\ f.copy.answers = session.answers)
  /\ f.at \in {"read", "save_feedback"} => f.copy.status \in GivenStates
  /\ f.at \in {"read", "save_feedback", "done"} /\ f.copy.status \in GivenStates =>
       f.copy.answers \in learned
GuidedInv ==
  /\ SessionHolds /\ DOMAIN frame = Clients /\ \A p \in Clients : AskingHolds(frame[p])

Exercise == <<session, learned, frame>>

LEMMA GuidedQuiet == GuidedInv /\ UNCHANGED Exercise => GuidedInv'
  BY DEF GuidedInv, SessionHolds, AskingHolds, Exercise

LEMMA PrepareGuides ==
  ASSUME GuidedInv, Prepare
  PROVE  GuidedInv'
  BY DEF GuidedInv, SessionHolds, AskingHolds, Prepare, NoSession, GivenStates

LEMMA WorkerGuides ==
  ASSUME GuidedInv, Worker
  PROVE  GuidedInv'
<1>1. CASE Prepare
  BY <1>1, PrepareGuides
<1>2. CASE ~Prepare
  <2>1. UNCHANGED Exercise
    BY <1>2 DEF Worker, Start, CallFails, WorkerDies, ReadImage, ReadVideo, Transcribe, ReadWritten,
         ExtractClaims, DropClaims, InsertClaims, DropEvidence, Search, Record, SearchEnds, Compare,
         DropEvaluations, Evaluate, Relate, Conclude, SynthesizeReport, SaveInvalid, Supersede,
         Complete, FinishPass, Reads, Refuse, Keep, exercise, Exercise
  <2> QED
    BY <2>1, GuidedQuiet
<1> QED
  BY <1>1, <1>2

LEMMA FindSessionGuides ==
  ASSUME NEW p \in Clients, GuidedInv, FindSession(p)
  PROVE  GuidedInv'
  BY DEF GuidedInv, SessionHolds, AskingHolds, FindSession, In, Submits, GivenStates

LEMMA SaveAnswersGuides ==
  ASSUME NEW p \in Clients, GuidedInv, SaveAnswers(p)
  PROVE  GuidedInv'
  BY DEF GuidedInv, SessionHolds, AskingHolds, SaveAnswers, In, Move, SameVersion, GivenStates

LEMMA SyncEvidenceGuides ==
  ASSUME NEW p \in Clients, GuidedInv, SyncEvidence(p)
  PROVE  GuidedInv'
  BY DEF GuidedInv, SessionHolds, AskingHolds, SyncEvidence, In, Move, GivenStates

LEMMA ReadReportGuides ==
  ASSUME NEW p \in Clients, GuidedInv, ReadReport(p)
  PROVE  GuidedInv'
  BY DEF GuidedInv, SessionHolds, AskingHolds, ReadReport, In, GivenStates

LEMMA SaveFeedbackGuides ==
  ASSUME NEW p \in Clients, GuidedInv, SaveFeedback(p)
  PROVE  GuidedInv'
<1> DEFINE same == frame[p].verdict = frame[p].copy.feedback
           next == session.version + (IF same THEN 0 ELSE 1)
<1>1. /\ frame[p].at = "save_feedback" /\ UNCHANGED learned
      /\ \/ /\ session' = [session EXCEPT !.status = "FEEDBACK_READY", !.version = next,
                                          !.feedback = IF same THEN @ ELSE frame[p].verdict]
            /\ frame' = [frame EXCEPT ![p].at = "done"]
         \/ UNCHANGED session /\ frame' = [frame EXCEPT ![p].at = "error"]
  BY Zenon DEF SaveFeedback, In, Move
<1>2. session.status \in GivenStates
  BY <1>1 DEF GuidedInv, AskingHolds, GivenStates
<1>3. next \in Nat /\ (session.version > 0 => next > 0)
  BY DEF GuidedInv, SessionHolds
<1> HIDE DEF same, next
<1>4. /\ SessionHolds'
      /\ session'.status \in GivenStates /\ session'.answers = session.answers
  BY <1>1, <1>2, <1>3 DEF GuidedInv, SessionHolds, GivenStates
<1>5. \A q \in Clients : \/ frame'[q] = frame[q]
                         \/ q = p /\ \E at \in {"done", "error"} : frame'[q] = [frame[q] EXCEPT !.at = at]
  BY <1>1 DEF GuidedInv
<1>6. \A q \in Clients : AskingHolds(frame[q])'
  BY <1>1, <1>2, <1>4, <1>5 DEF GuidedInv, AskingHolds, GivenStates
<1> QED
  BY <1>1, <1>4, <1>6 DEF GuidedInv

LEMMA RequestFailsGuides ==
  ASSUME NEW p \in Clients, GuidedInv, RequestFails(p)
  PROVE  GuidedInv'
  BY DEF GuidedInv, SessionHolds, AskingHolds, RequestFails, InFlight, Move, GivenStates

LEMMA NextGuides == GuidedInv /\ [InvestigationNext]_investigationVars => GuidedInv'
<1> SUFFICES ASSUME GuidedInv, [InvestigationNext]_investigationVars
             PROVE  GuidedInv'
  OBVIOUS
<1>1. CASE Worker
  BY <1>1, WorkerGuides
<1>2. ASSUME NEW p \in Clients, Client(p)
      PROVE  GuidedInv'
  BY <1>2, FindSessionGuides, SaveAnswersGuides, SyncEvidenceGuides, ReadReportGuides,
     SaveFeedbackGuides, RequestFailsGuides DEF Client
<1>3. CASE UNCHANGED investigationVars
  BY <1>3, GuidedQuiet DEF investigationVars, exercise, Exercise
<1> QED
  BY <1>1, <1>2, <1>3 DEF InvestigationNext

LEMMA InitGuides == InvestigationInit => GuidedInv
<1> SUFFICES ASSUME InvestigationInit
             PROVE  GuidedInv
  OBVIOUS
<1>1. SessionHolds
  BY DEF InvestigationInit, SessionHolds, NoSession, GivenStates
<1>2. \A p \in Clients : AskingHolds(frame[p])
  BY DEF InvestigationInit, AskingHolds, Fresh, NoSession, GivenStates
<1> QED
  BY <1>1, <1>2 DEF GuidedInv, InvestigationInit

\* Answers once submitted stay what they are.
LEMMA StepKeepsAnswers ==
  ASSUME GuidedInv, [InvestigationNext]_investigationVars, session.status \in GivenStates
  PROVE  session'.answers = session.answers
<1>1. ASSUME NEW p \in Clients, SaveAnswers(p)
      PROVE  UNCHANGED session
  BY <1>1 DEF GuidedInv, SessionHolds, AskingHolds, SaveAnswers, In, SameVersion, GivenStates
<1>2. ASSUME NEW p \in Clients, SaveFeedback(p)
      PROVE  session'.answers = session.answers
  BY <1>2 DEF GuidedInv, SessionHolds, SaveFeedback
<1>3. CASE Prepare
  BY <1>3 DEF Prepare, GivenStates
<1>4. CASE Worker /\ ~Prepare
  BY <1>4 DEF Worker, Start, CallFails, WorkerDies, ReadImage, ReadVideo, Transcribe, ReadWritten,
       ExtractClaims, DropClaims, InsertClaims, DropEvidence, Search, Record, SearchEnds, Compare,
       DropEvaluations, Evaluate, Relate, Conclude, SynthesizeReport, SaveInvalid, Supersede,
       Complete, FinishPass, Reads, Refuse, Keep, exercise
<1>5. ASSUME NEW p \in Clients, Client(p), ~SaveAnswers(p), ~SaveFeedback(p)
      PROVE  UNCHANGED session
  BY <1>5 DEF Client, FindSession, SyncEvidence, ReadReport, RequestFails
<1>6. CASE UNCHANGED investigationVars
  BY <1>6 DEF investigationVars, exercise
<1> QED
  BY <1>1, <1>2, <1>3, <1>4, <1>5, <1>6 DEF InvestigationNext

\* guided-investigation.service.ts:325 ("Your original answers are preserved"): answers once
\* submitted are never replaced, however many submissions race with each other and with the
\* worker, and every request that shows them has seen to it that they count as evidence.
THEOREM AnswersStay == InvestigationSpec => GuidedHolds
<1>1. GuidedInv => AnsweredIsLearned
  BY DEF GuidedInv, SessionHolds, AskingHolds, AnsweredIsLearned, In, GivenStates
<1>2. GuidedInv /\ [InvestigationNext]_investigationVars =>
        [session.status \in {"SUBMITTED", "FEEDBACK_READY"} =>
           session'.answers = session.answers]_investigationVars
  BY StepKeepsAnswers DEF GivenStates
<1> QED
  BY <1>1, <1>2, InitGuides, NextGuides, PTL DEF InvestigationSpec, GuidedHolds, KeptAnswers
=============================================================================
