------------------------------ MODULE Uploads -------------------------------
(***************************************************************************)
(* The life of a media asset: api/uploads/uploads.service.ts, its record   *)
(* in media_assets and its file at Cloudinary.                             *)
(*                                                                         *)
(* An owner asks for a signature (the record is PENDING), uploads the file *)
(* straight to Cloudinary, confirms (CONFIRMED), attaches it to a profile  *)
(* or to a verification (ATTACHED), or deletes it.  The scheduler deletes  *)
(* what was signed for but never confirmed.  confirm, delete and the       *)
(* cleanup each read the record, call Cloudinary and then update the       *)
(* record; call[p] holds what such a call has read.                        *)
(*                                                                         *)
(* Abstractions.  All assets have one owner (every filter names the        *)
(* owner).  The validation of the provider's answer is one outcome, a file *)
(* that is there and acceptable or not.  The batch of the cleanup is one   *)
(* asset at a time, in any order.                                          *)
(***************************************************************************)
EXTENDS Integers, FiniteSets

CONSTANTS
    Assets,
    Calls,          \* uploads calls that can be in flight at once
    Resources,      \* ids of verifications
    Types,          \* asset types: {"AVATAR", "VERIFICATION"} or one of them
    PendingTtl,     \* pendingTtlMinutes
    MaxTime,        \* bound on the clock
    MaxFaults,      \* bound on failed calls
    NoResource, Profile     \* not attached; attached to the owner's profile

ASSUME UploadsAssumption ==
    /\ {PendingTtl, MaxTime, MaxFaults} \subseteq Nat
    /\ NoResource \notin Resources /\ Profile \notin Resources
    /\ NoResource # Profile

VARIABLES
    asset,     \* media_assets
    file,      \* Cloudinary: "none", "stored" or "gone"
    call,      \* uploads calls in flight
    now,
    faults,    \* failures so far
    doomed     \* history: confirmed assets known to have lost their file

uploadVars == <<asset, file, call, now, faults, doomed>>

NoAsset == [status |-> "ABSENT", type |-> "", deleteAfter |-> 0,
            verified |-> FALSE, attached |-> NoResource]
NoCall  == [at |-> "idle", a |-> "", fallback |-> ""]

Status(a) == asset[a].status
CallAt(p, step) == call[p].at = step
CallOn(p) == call[p].a
Advance(p, step) == call' = [call EXCEPT ![p].at = step]
Return(p) == call' = [call EXCEPT ![p] = NoCall]
Begin(p, step, a) ==
    /\ CallAt(p, "idle")
    /\ call' = [call EXCEPT ![p] = [NoCall EXCEPT !.at = step, !.a = a]]
Fault == faults < MaxFaults /\ faults' = faults + 1

-----------------------------------------------------------------------------
(* createSignature, and the client's own upload to Cloudinary.             *)

CreateSignature(a, type) ==
    /\ Status(a) = "ABSENT"
    /\ asset' = [asset EXCEPT ![a] =
                   [NoAsset EXCEPT !.status = "PENDING", !.type = type,
                                   !.deleteAfter = now + PendingTtl]]
    /\ UNCHANGED <<file, call, now, faults, doomed>>

ClientUpload(a) ==
    /\ Status(a) # "ABSENT"
    /\ file[a] = "none"
    /\ file' = [file EXCEPT ![a] = "stored"]
    /\ UNCHANGED <<asset, call, now, faults, doomed>>

-----------------------------------------------------------------------------
(* confirm                                                                 *)

Confirmable(a) == Status(a) = "PENDING" /\ asset[a].deleteAfter > now

ConfirmFind(p, a) ==
    /\ Confirmable(a)
    /\ Begin(p, "confirm.provider", a)
    /\ UNCHANGED <<asset, file, now, faults, doomed>>

(* getAsset and validateProviderAsset; a refusal ends the call. *)
ConfirmProvider(p) ==
    /\ CallAt(p, "confirm.provider")
    /\ IF file[CallOn(p)] = "stored" THEN Advance(p, "confirm.save") ELSE Return(p)
    /\ UNCHANGED <<asset, file, now, faults, doomed>>

\* Mutant: without the status in the filter.
StillPendingAny(a) == Status(a) # "ABSENT"
(* The filter of the confirming update. *)
StillPending(a) == Status(a) = "PENDING"

ConfirmSave(p) ==
    /\ CallAt(p, "confirm.save")
    /\ LET a == CallOn(p) IN
        asset' = IF StillPending(a)
                 THEN [asset EXCEPT ![a].status = "CONFIRMED", ![a].verified = TRUE,
                                    ![a].deleteAfter = 0]
                 ELSE asset
    /\ Return(p)
    /\ UNCHANGED <<file, now, faults, doomed>>

-----------------------------------------------------------------------------
(* Attachment: one conditional update each.                                *)

AttachedTo(a, r) == [asset[a] EXCEPT !.attached = r, !.status = "ATTACHED"]

AttachAvatar(a) ==
    /\ Status(a) = "CONFIRMED"
    /\ asset[a].type = "AVATAR"
    /\ asset' = [asset EXCEPT ![a] = AttachedTo(a, Profile)]
    /\ UNCHANGED <<file, call, now, faults, doomed>>

(* assertVerificationAsset *)
Offered(a) ==
    /\ Status(a) = "CONFIRMED"
    /\ asset[a].type = "VERIFICATION"
    /\ asset[a].attached = NoResource

(* The filter of attachToVerification. *)
Attachable(a) == Status(a) = "CONFIRMED" /\ asset[a].attached = NoResource

-----------------------------------------------------------------------------
(* delete: reserve the record, delete the file, save; on any error put the *)
(* status back.                                                            *)

Deletable(a) == Status(a) \in {"PENDING", "CONFIRMED"} /\ asset[a].attached = NoResource

DeleteMark(p, a) ==
    /\ Deletable(a)
    /\ CallAt(p, "idle")
    /\ asset' = [asset EXCEPT ![a].status = "DELETION_PENDING"]
    /\ call' = [call EXCEPT ![p] =
                  [at |-> "delete.provider", a |-> a,
                   fallback |-> IF asset[a].verified THEN "CONFIRMED" ELSE "PENDING"]]
    /\ UNCHANGED <<file, now, faults, doomed>>

(* destroy acknowledges "ok" or "not found". *)
Destroy(a) == file' = [file EXCEPT ![a] = "gone"]

DeleteProvider(p) ==
    /\ CallAt(p, "delete.provider")
    /\ \/ /\ Destroy(CallOn(p))
          /\ Advance(p, "delete.save")
          /\ UNCHANGED faults
       \/ /\ Fault                       \* the answer, or the call, is lost
          /\ Destroy(CallOn(p)) \/ UNCHANGED file
          /\ Advance(p, "delete.fallback")
    /\ UNCHANGED <<asset, now, doomed>>

SetDeleted(a) == asset' = [asset EXCEPT ![a].status = "DELETED"]

DeleteSave(p) ==
    /\ CallAt(p, "delete.save")
    /\ \/ /\ SetDeleted(CallOn(p))
          /\ Return(p)
          /\ UNCHANGED faults
       \/ /\ Fault
          /\ SetDeleted(CallOn(p)) \/ UNCHANGED asset
          /\ Advance(p, "delete.fallback")
    /\ UNCHANGED <<file, now, doomed>>

(* The filter of the restoring update. *)
Restorable(a) == Status(a) = "DELETION_PENDING"

DeleteFallback(p) ==
    /\ CallAt(p, "delete.fallback")
    /\ LET a == CallOn(p) IN
        IF Restorable(a)
        THEN /\ asset' = [asset EXCEPT ![a].status = call[p].fallback]
             /\ doomed' = IF file[a] = "gone" THEN doomed \cup {a} ELSE doomed
        ELSE UNCHANGED <<asset, doomed>>
    /\ Return(p)
    /\ UNCHANGED <<file, now, faults>>

-----------------------------------------------------------------------------
(* cleanupExpiredPending                                                   *)

CleanupFind(p, a) ==
    /\ Status(a) = "PENDING"
    /\ asset[a].deleteAfter <= now
    /\ Begin(p, "cleanup.provider", a)
    /\ UNCHANGED <<asset, file, now, faults, doomed>>

Confirming(a) == \E q \in Calls : CallOn(q) = a /\ call[q].at \in {"confirm.provider", "confirm.save"}

(* The file goes; the asset is doomed when a confirmation that read it in  *)
(* time is under way, or has already saved. *)
CleanupDestroy(a) ==
    /\ Destroy(a)
    /\ doomed' = IF Confirming(a) \/ Status(a) # "PENDING" THEN doomed \cup {a} ELSE doomed

CleanupProvider(p) ==
    /\ CallAt(p, "cleanup.provider")
    /\ \/ /\ CleanupDestroy(CallOn(p))
          /\ Advance(p, "cleanup.save")
          /\ UNCHANGED faults
       \/ /\ Fault
          /\ CleanupDestroy(CallOn(p)) \/ UNCHANGED <<file, doomed>>
          /\ Advance(p, "cleanup.putoff")
    /\ UNCHANGED <<asset, now>>

CleanupSave(p) ==
    /\ CallAt(p, "cleanup.save")
    /\ \/ /\ IF Status(CallOn(p)) = "PENDING" THEN SetDeleted(CallOn(p)) ELSE UNCHANGED asset
          /\ Return(p)
          /\ UNCHANGED faults
       \/ /\ Fault
          /\ Advance(p, "cleanup.putoff")
          /\ UNCHANGED asset
    /\ UNCHANGED <<file, now, doomed>>

(* After a failure the asset is put off for an hour, whatever its status   *)
(* is by now. *)
CleanupPutOff(p) ==
    /\ CallAt(p, "cleanup.putoff")
    /\ asset' = [asset EXCEPT ![CallOn(p)].deleteAfter = now + 1]
    /\ Return(p)
    /\ UNCHANGED <<file, now, faults, doomed>>

-----------------------------------------------------------------------------
(* The process dies in the middle of a call. *)
CallCrashes(p) ==
    /\ ~CallAt(p, "idle")
    /\ Fault
    /\ Return(p)
    /\ UNCHANGED <<asset, file, now, doomed>>

Tick ==
    /\ now < MaxTime
    /\ now' = now + 1
    /\ UNCHANGED <<asset, file, call, faults, doomed>>

UploadInit ==
    /\ asset = [a \in Assets |-> NoAsset]
    /\ file = [a \in Assets |-> "none"]
    /\ call = [p \in Calls |-> NoCall]
    /\ now = 0
    /\ faults = 0
    /\ doomed = {}

UploadCall(p) ==
    \/ \E a \in Assets : ConfirmFind(p, a) \/ DeleteMark(p, a) \/ CleanupFind(p, a)
    \/ ConfirmProvider(p) \/ ConfirmSave(p)
    \/ DeleteProvider(p) \/ DeleteSave(p) \/ DeleteFallback(p)
    \/ CleanupProvider(p) \/ CleanupSave(p) \/ CleanupPutOff(p)
    \/ CallCrashes(p)

UploadNext ==
    \/ \E a \in Assets : ClientUpload(a) \/ AttachAvatar(a) \/ \E t \in Types : CreateSignature(a, t)
    \/ \E p \in Calls : UploadCall(p)
    \/ Tick

-----------------------------------------------------------------------------
(* Properties, checked where Submission composes this module.              *)

UploadTypeOK ==
    /\ asset \in [Assets ->
         [status : {"ABSENT", "PENDING", "CONFIRMED", "ATTACHED", "DELETION_PENDING", "DELETED"},
          type : Types \cup {""}, deleteAfter : 0 .. MaxTime + PendingTtl + 1,
          verified : BOOLEAN, attached : Resources \cup {NoResource, Profile}]]
    /\ file \in [Assets -> {"none", "stored", "gone"}]
    /\ \A a \in Assets : Status(a) = "ATTACHED" <=> asset[a].attached # NoResource

(* A confirmed or attached asset has its file, however confirmation,       *)
(* deletion and cleanup overlap.  Two cases remain, and no other: the      *)
(* cleanup took the file of an asset whose confirmation began just before  *)
(* it expired; a deletion put the status back after the file had gone      *)
(* (docs/uploads-and-cloudinary.md:19, docs/media-processing.md:5). *)
ConfirmedHasFile ==
    \A a \in Assets : Status(a) \in {"CONFIRMED", "ATTACHED"} =>
        file[a] = "stored" \/ a \in doomed
=============================================================================
