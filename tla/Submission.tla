----------------------------- MODULE Submission -----------------------------
(***************************************************************************)
(* The creation of a verification:                                         *)
(* api/verifications/services/verification.service.ts create(), with the   *)
(* idempotency records, composed with the media assets of module Uploads.  *)
(*                                                                         *)
(* A submission has a key and a payload.  It claims the key (a unique      *)
(* index on user and key), reserves a unit of the daily allowance, stores  *)
(* the verification, attaches its media and queues a job; each step is one *)
(* database or queue call and may fail, and the handler then undoes what   *)
(* it did so far.  A submission that finds the key claimed answers with    *)
(* the verification of the first one.                                      *)
(*                                                                         *)
(* Abstractions.  A payload is Text or the asset it refers to, and a       *)
(* fingerprint is the payload.  The allowance is one hold per verification *)
(* (module UsageLedger has the counters).  Later states of a verification, *)
(* and an answer of the queue that is lost, are module Verification's.     *)
(* The TTL index removes a record only when no submission uses its key: a  *)
(* record lives for a day, a request for seconds.                          *)
(***************************************************************************)
EXTENDS Uploads

CONSTANTS
    Submitters,     \* submissions that can be in flight at once
    Keys,
    Text,           \* a payload without media
    MaxSubmissions  \* bound on the submissions started

ASSUME SubmissionAssumption ==
    /\ Text \notin Assets
    /\ MaxSubmissions \in Nat
    /\ IsFiniteSet(Resources)

VARIABLES
    sub,           \* submissions in flight
    record,        \* idempotency_records of the user, by key
    verification,  \* verifications
    hold,          \* usage reservation of a verification
    queued,        \* verifications with a job in the queue
    submissions,   \* submissions started
    answers,       \* history: what was answered, while the record lives
    cut            \* history: verifications whose handler was cut off

submitVars == <<sub, record, verification, hold, queued, submissions, answers, cut>>
vars == <<uploadVars, submitVars>>

Payloads == Assets \cup {Text}
NoRecord == [payload |-> Text, res |-> NoResource]
NoVerification == [status |-> "ABSENT", payload |-> Text]
NoSub == [at |-> "idle", key |-> "", payload |-> Text, res |-> NoResource]

SubAt(p, step) == sub[p].at = step
To(p, step) == sub' = [sub EXCEPT ![p].at = step]
EndSub(p) == sub' = [sub EXCEPT ![p] = NoSub]
Answer(p, res) == answers' = answers \cup {[key |-> sub[p].key, payload |-> sub[p].payload, res |-> res]}

(* new Types.ObjectId() *)
Unused == {r \in Resources :
             /\ verification[r].status = "ABSENT" /\ hold[r] = "none"
             /\ \A p \in Submitters : sub[p].res # r
             /\ \A k \in Keys : record[k].res # r
             /\ r \notin cut}
NewResource == CHOOSE r \in Unused : TRUE

-----------------------------------------------------------------------------
(* Before the key: a media payload must refer to an asset that is free.    *)
Submit(p, k, payload) ==
    /\ SubAt(p, "idle")
    /\ submissions < MaxSubmissions
    /\ submissions' = submissions + 1
    /\ payload \in Assets => Offered(payload)
    /\ sub' = [sub EXCEPT ![p] = [at |-> "claim", key |-> k, payload |-> payload,
                                  res |-> NoResource]]
    /\ UNCHANGED <<uploadVars, record, verification, hold, queued, answers, cut>>

\* Mutant: no unique index on user and key.
UnclaimedAlways(k) == TRUE
(* The unique index on user and key. *)
Unclaimed(k) == record[k] = NoRecord

Claim(p) ==
    /\ SubAt(p, "claim")
    /\ LET k == sub[p].key IN
        IF Unclaimed(k)
        THEN /\ Unused # {}
             /\ record' = [record EXCEPT ![k] = [payload |-> sub[p].payload, res |-> NewResource]]
             /\ sub' = [sub EXCEPT ![p].at = "reserve", ![p].res = NewResource]
        ELSE /\ To(p, "existing")
             /\ UNCHANGED record
    /\ UNCHANGED <<uploadVars, verification, hold, queued, submissions, answers, cut>>

SameContent(r, payload) == r # NoRecord /\ r.payload = payload

(* IDEMPOTENCY_KEY_REUSED for another payload, and also when the record    *)
(* has gone meanwhile. *)
Existing(p) ==
    /\ SubAt(p, "existing")
    /\ LET r == record[sub[p].key] IN
        IF SameContent(r, sub[p].payload)
        THEN sub' = [sub EXCEPT ![p].at = "find", ![p].res = r.res]
        ELSE EndSub(p)
    /\ UNCHANGED <<uploadVars, record, verification, hold, queued, submissions, answers, cut>>

(* findOwned, then ten polls (waitForIdempotentResource), then             *)
(* IDEMPOTENCY_RESOURCE_UNAVAILABLE: Poll either finds the verification or *)
(* gives up; between polls the submission stays where it is. *)
Poll(p) ==
    /\ SubAt(p, "find")
    /\ IF verification[sub[p].res].status # "ABSENT"
       THEN Answer(p, sub[p].res)
       ELSE UNCHANGED answers
    /\ EndSub(p)
    /\ UNCHANGED <<uploadVars, record, verification, hold, queued, submissions, cut>>

-----------------------------------------------------------------------------
(* The first submission of a key.                                          *)

(* usage.reserve; refused when the day's allowance is used up, or failed. *)
Reserve(p) ==
    /\ SubAt(p, "reserve")
    /\ \/ /\ hold' = [hold EXCEPT ![sub[p].res] = "reserved"]
          /\ To(p, "create")
       \/ /\ To(p, "unclaim")
          /\ UNCHANGED hold
    /\ UNCHANGED <<uploadVars, record, verification, queued, submissions, answers, cut>>

\* Mutant: the reservation is not given back.
AfterCreateFailedUnclaim == "unclaim"
(* What a failed insert is followed by. *)
AfterCreateFailed == "release.snapshot"

CreateVerification(p) ==
    /\ SubAt(p, "create")
    /\ \/ /\ verification' = [verification EXCEPT ![sub[p].res] =
                                [status |-> "PENDING", payload |-> sub[p].payload]]
          /\ To(p, "attach")
          /\ UNCHANGED faults
       \/ /\ Fault
          /\ To(p, AfterCreateFailed)
          /\ UNCHANGED verification
    /\ UNCHANGED <<asset, file, call, now, doomed, record, hold, queued, submissions, answers, cut>>

GiveBack(r) == hold' = [hold EXCEPT ![r] = "released"]

ReleaseSnapshot(p) ==
    /\ SubAt(p, "release.snapshot")
    /\ GiveBack(sub[p].res)
    /\ To(p, "unclaim")
    /\ UNCHANGED <<uploadVars, record, verification, queued, submissions, answers, cut>>

(* deleteOne by user and key. *)
Unclaim(p) ==
    /\ SubAt(p, "unclaim")
    /\ record' = [record EXCEPT ![sub[p].key] = NoRecord]
    /\ EndSub(p)
    /\ UNCHANGED <<uploadVars, verification, hold, queued, submissions, answers, cut>>

(* What a conflicting attachment is followed by. *)
AfterConflict == "fail.release"

Attach(p) ==
    /\ SubAt(p, "attach")
    /\ LET a == sub[p].payload IN
        \/ /\ a = Text
           /\ To(p, "event")
           /\ UNCHANGED asset
        \/ /\ a \in Assets /\ Attachable(a)
           /\ asset' = [asset EXCEPT ![a] = AttachedTo(a, sub[p].res)]
           /\ To(p, "event")
        \/ /\ a \in Assets /\ ~Attachable(a)
           /\ To(p, AfterConflict)
           /\ UNCHANGED asset
    /\ UNCHANGED <<file, call, now, faults, doomed, record, verification, hold, queued,
                   submissions, answers, cut>>

(* The RECEIVED event, then the job; either may fail.  A failure of either *)
(* gives the unit back and saves the verification as FAILED. *)
AppendReceived(p) ==
    /\ SubAt(p, "event")
    /\ \/ To(p, "enqueue") /\ UNCHANGED faults
       \/ Fault /\ To(p, "fail.release")
    /\ UNCHANGED <<asset, file, call, now, doomed, record, verification, hold, queued,
                   submissions, answers, cut>>

Enqueue(p) ==
    /\ SubAt(p, "enqueue")
    /\ \/ /\ queued' = queued \cup {sub[p].res}
          /\ Answer(p, sub[p].res)
          /\ EndSub(p)
          /\ UNCHANGED faults
       \/ /\ Fault
          /\ To(p, "fail.release")
          /\ UNCHANGED <<queued, answers>>
    /\ UNCHANGED <<asset, file, call, now, doomed, record, verification, hold, submissions, cut>>

FailRelease(p) ==
    /\ SubAt(p, "fail.release")
    /\ GiveBack(sub[p].res)
    /\ To(p, "fail.save")
    /\ UNCHANGED <<uploadVars, record, verification, queued, submissions, answers, cut>>

FailSave(p) ==
    /\ SubAt(p, "fail.save")
    /\ verification' = [verification EXCEPT ![sub[p].res].status = "FAILED"]
    /\ EndSub(p)
    /\ UNCHANGED <<uploadVars, record, hold, queued, submissions, answers, cut>>

-----------------------------------------------------------------------------
(* The process dies, or a call of the undoing itself fails: the handler    *)
(* ends where it is. *)
CutOff(p) ==
    /\ ~SubAt(p, "idle")
    /\ Fault
    /\ cut' = IF sub[p].at \in {"claim", "existing", "find"} THEN cut ELSE cut \cup {sub[p].res}
    /\ EndSub(p)
    /\ UNCHANGED <<asset, file, call, now, doomed, record, verification, hold, queued,
                   submissions, answers>>

(* The TTL index, a day later. *)
ExpireRecord(k) ==
    /\ record[k] # NoRecord
    /\ \A p \in Submitters : sub[p].key # k
    /\ record' = [record EXCEPT ![k] = NoRecord]
    /\ answers' = {r \in answers : r.key # k}
    /\ UNCHANGED <<uploadVars, sub, verification, hold, queued, submissions, cut>>

-----------------------------------------------------------------------------
Init ==
    /\ UploadInit
    /\ sub = [p \in Submitters |-> NoSub]
    /\ record = [k \in Keys |-> NoRecord]
    /\ verification = [r \in Resources |-> NoVerification]
    /\ hold = [r \in Resources |-> "none"]
    /\ queued = {}
    /\ submissions = 0
    /\ answers = {}
    /\ cut = {}

SubmitStep(p) ==
    \/ \E k \in Keys, payload \in Payloads : Submit(p, k, payload)
    \/ Claim(p) \/ Existing(p) \/ Poll(p)
    \/ Reserve(p) \/ CreateVerification(p) \/ ReleaseSnapshot(p) \/ Unclaim(p)
    \/ Attach(p) \/ AppendReceived(p) \/ Enqueue(p)
    \/ FailRelease(p) \/ FailSave(p)
    \/ CutOff(p)

Next ==
    \/ UploadNext /\ UNCHANGED submitVars
    \/ \E p \in Submitters : SubmitStep(p)
    \/ \E k \in Keys : ExpireRecord(k)

Spec == Init /\ [][Next]_vars

-----------------------------------------------------------------------------
(* Properties.                                                             *)

(* Every variable keeps its shape; an asset is ATTACHED exactly when it is *)
(* attached to something. *)
TypeOK ==
    /\ UploadTypeOK
    /\ \A p \in Submitters : sub[p].payload \in Payloads /\ sub[p].res \in Resources \cup {NoResource}
    /\ record \in [Keys -> [payload : Payloads, res : Resources \cup {NoResource}]]
    /\ verification \in [Resources -> [status : {"ABSENT", "PENDING", "FAILED"}, payload : Payloads]]
    /\ hold \in [Resources -> {"none", "reserved", "released"}]
    /\ queued \subseteq Resources

(* While a key's record lives, every submission that was answered with a   *)
(* verification was answered with the same one                             *)
(* (docs/verification-pipeline.md:119 "The unique user/key index prevents  *)
(* concurrent duplicates"). *)
OneVerificationPerKey ==
    \A r, s \in answers : r.key = s.key => r.res = s.res

(* ... and it is one made from what that submission sent                   *)
(* (docs/verification-pipeline.md:119 "changing the payload returns        *)
(* IDEMPOTENCY_KEY_REUSED"). *)
AnswerMatchesPayload ==
    \A r \in answers : verification[r.res].payload = r.payload

(* Whoever repeats a submission is answered with the verification made of  *)
(* it, and nobody else is. *)
AnswersHold == OneVerificationPerKey /\ AnswerMatchesPayload

(* A submission leaves nothing half done: once no handler works on it, its *)
(* unit is held exactly when the verification is in the queue, and a       *)
(* verification not queued is FAILED, whichever step failed - unless the   *)
(* process died, or the undoing failed as well. *)
NothingHalfDone ==
    \A r \in Resources :
        r \notin cut /\ (\A p \in Submitters : sub[p].res # r) =>
            /\ hold[r] = "reserved" <=> r \in queued
            /\ r \in queued => verification[r].status = "PENDING"
            /\ r \notin queued => verification[r].status \in {"ABSENT", "FAILED"}

(* A queued verification of a media payload has that asset attached to     *)
(* itself, with its file there, whatever other submissions and deletions   *)
(* did with the asset meanwhile (docs/media-processing.md:5 "Only          *)
(* confirmed assets already attached to the verification are processed"). *)
QueuedMediaIsItsOwn ==
    \A r \in queued : verification[r].payload # Text =>
        LET a == verification[r].payload IN
        /\ asset[a].attached = r
        /\ file[a] = "stored" \/ a \in doomed

(* An asset that may be used has its file, and one that is used is used    *)
(* once. *)
MediaHolds == TypeOK /\ QueuedMediaIsItsOwn /\ ConfirmedHasFile
=============================================================================
