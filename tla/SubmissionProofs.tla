-------------------------- MODULE SubmissionProofs --------------------------
(***************************************************************************)
(* Proofs about the creation of verifications and the media they refer to: *)
(* for any submissions, keys, payloads, assets and upload calls, and any   *)
(* number of failures.                                                     *)
(*                                                                         *)
(* The invariant has a part per module.  UploadInv says what a call in     *)
(* flight has read and done that still holds when it goes on, and that     *)
(* one deletion of an asset runs at a time.  SubmitInv says that a key's   *)
(* record names one verification, that one handler works on it, and what   *)
(* there is of it at each step of that handler.  They meet in              *)
(* AttachmentsStay: no upload call touches an asset that is attached.      *)
(***************************************************************************)
EXTENDS Submission, TLAPS

-----------------------------------------------------------------------------
(* The media assets.                                                       *)

Confirms == {"confirm.provider", "confirm.save"}
Deletes == {"delete.provider", "delete.save", "delete.fallback"}
Cleanups == {"cleanup.provider", "cleanup.save", "cleanup.putoff"}
CallRecords == [at : {"idle"} \cup Confirms \cup Deletes \cup Cleanups, a : Assets \cup {""},
                fallback : {"", "PENDING", "CONFIRMED"}]

AssetRecords ==
  [status : {"ABSENT", "PENDING", "CONFIRMED", "ATTACHED", "DELETION_PENDING", "DELETED"},
   type : Types \cup {""}, deleteAfter : 0 .. MaxTime + PendingTtl + 1,
   verified : BOOLEAN, attached : Resources \cup {NoResource, Profile}]

UploadTypes ==
  /\ UploadTypeOK
  /\ call \in [Calls -> CallRecords]
  /\ now \in 0 .. MaxTime
  /\ \A p \in Calls : ~CallAt(p, "idle") => CallOn(p) \in Assets

\* What a call has read and done so far still holds when it goes on.
CallHolds(p) ==
  LET a == CallOn(p)
  IN /\ CallAt(p, "confirm.provider") \/ CallAt(p, "cleanup.provider") => Status(a) # "ABSENT"
     /\ CallAt(p, "confirm.save") =>
          /\ file[a] # "none" /\ Status(a) # "ABSENT"
          /\ Status(a) = "PENDING" => file[a] = "stored" \/ a \in doomed
     /\ CallAt(p, "delete.provider") \/ CallAt(p, "delete.save") => Status(a) = "DELETION_PENDING"
     /\ CallAt(p, "delete.fallback") => Status(a) \in {"DELETION_PENDING", "DELETED"}
     /\ call[p].at \in Deletes => call[p].fallback = IF asset[a].verified THEN "CONFIRMED" ELSE "PENDING"
     /\ call[p].at \in Cleanups => Status(a) # "ABSENT"

\* One deletion of an asset at a time.
OneDeletion ==
  \A p, q \in Calls : call[p].at \in Deletes /\ call[q].at \in Deletes /\ CallOn(p) = CallOn(q) => p = q

AssetHolds(a) ==
  /\ asset[a].verified => file[a] # "none"
  /\ Status(a) \in {"CONFIRMED", "ATTACHED"} => asset[a].verified /\ (file[a] = "stored" \/ a \in doomed)
  /\ Status(a) = "ABSENT" => file[a] = "none"

UploadInv ==
  /\ UploadTypes /\ OneDeletion
  /\ \A p \in Calls : CallHolds(p)
  /\ \A a \in Assets : AssetHolds(a)

LEMMA UploadShapes ==
  ASSUME UploadTypes
  PROVE  /\ asset \in [Assets -> AssetRecords] /\ file \in [Assets -> {"none", "stored", "gone"}]
         /\ call \in [Calls -> CallRecords] /\ now \in 0 .. MaxTime
         /\ \A a \in Assets : Status(a) = "ATTACHED" <=> asset[a].attached # NoResource
         /\ \A p \in Calls : ~CallAt(p, "idle") => CallOn(p) \in Assets
BY DEF UploadTypes, UploadTypeOK, AssetRecords

LEMMA ShapesSuffice ==
  ASSUME asset \in [Assets -> AssetRecords], file \in [Assets -> {"none", "stored", "gone"}],
         call \in [Calls -> CallRecords], now \in 0 .. MaxTime,
         \A a \in Assets : Status(a) = "ATTACHED" <=> asset[a].attached # NoResource,
         \A p \in Calls : ~CallAt(p, "idle") => CallOn(p) \in Assets
  PROVE  UploadTypes
BY DEF UploadTypes, UploadTypeOK, AssetRecords

\* A step changes one asset, its file included, and what the calls of P do; another call
\* on that asset must still hold.
LEMMA UploadFrame ==
  ASSUME UploadInv, UploadTypes', OneDeletion', NEW a \in Assets, NEW P \in SUBSET Calls,
         \A b \in Assets \ {a} : asset'[b] = asset[b] /\ file'[b] = file[b],
         doomed \subseteq doomed', AssetHolds(a)',
         \A q \in Calls \ P : /\ call'[q] = call[q]
                              /\ ~CallAt(q, "idle") /\ CallOn(q) = a => CallHolds(q)',
         \A q \in P : CallHolds(q)'
  PROVE  UploadInv'
<1>1. ASSUME NEW q \in Calls PROVE CallHolds(q)'
  <2>0. CallHolds(q) /\ (~CallAt(q, "idle") => CallOn(q) \in Assets)
    BY DEF UploadInv, UploadTypes
  <2>1. CASE q \in P
    BY <2>1
  <2>2. CASE q \notin P /\ ~CallAt(q, "idle") /\ CallOn(q) = a
    BY <2>2
  <2>3. CASE q \notin P /\ ~CallAt(q, "idle") /\ CallOn(q) # a
    <3>1. call'[q] = call[q] /\ asset'[CallOn(q)] = asset[CallOn(q)] /\ file'[CallOn(q)] = file[CallOn(q)]
      BY <2>0, <2>3
    <3> QED
      BY <2>0, <3>1 DEF CallHolds, CallAt, CallOn, Status
  <2>4. CASE q \notin P /\ CallAt(q, "idle")
    BY <2>4 DEF CallHolds, CallAt, Deletes, Cleanups
  <2> QED
    BY <2>1, <2>2, <2>3, <2>4
<1>2. ASSUME NEW b \in Assets PROVE AssetHolds(b)'
  <2>1. CASE b = a
    BY <2>1
  <2>2. CASE b # a
    <3>1. asset'[b] = asset[b] /\ file'[b] = file[b] /\ AssetHolds(b)
      BY <2>2 DEF UploadInv
    <3> QED
      BY <3>1 DEF AssetHolds, Status
  <2> QED
    BY <2>1, <2>2
<1> QED
  BY <1>1, <1>2 DEF UploadInv

\* No deletion begins.
LEMMA NoNewDeletion ==
  ASSUME OneDeletion,
         \A q \in Calls : call'[q].at \in Deletes => call[q].at \in Deletes /\ call'[q].a = call[q].a
  PROVE  OneDeletion'
BY DEF OneDeletion, CallOn

LEMMA UploadStarts == UploadInit => UploadInv
<1> SUFFICES ASSUME UploadInit PROVE UploadInv
  OBVIOUS
<1>1. \A p \in Calls : call[p].at = "idle"
  BY DEF UploadInit, NoCall
<1>2. \A a \in Assets : /\ asset[a].status = "ABSENT" /\ asset[a].attached = NoResource
                         /\ asset[a].verified = FALSE /\ file[a] = "none"
  BY DEF UploadInit, NoAsset
<1>3. NoAsset \in AssetRecords /\ NoCall \in CallRecords /\ 0 \in 0 .. MaxTime
  BY UploadsAssumption DEF NoAsset, NoCall, AssetRecords, CallRecords
<1>4. UploadTypes
  <2>1. /\ asset \in [Assets -> AssetRecords] /\ file \in [Assets -> {"none", "stored", "gone"}]
        /\ call \in [Calls -> CallRecords] /\ now \in 0 .. MaxTime
    BY <1>3 DEF UploadInit
  <2> QED
    BY <1>1, <1>2, <2>1, ShapesSuffice DEF Status, CallAt
<1>5. OneDeletion
  BY <1>1 DEF OneDeletion, Deletes
<1>6. \A p \in Calls : CallHolds(p)
  BY <1>1 DEF CallHolds, CallAt, Deletes, Cleanups
<1>7. \A a \in Assets : AssetHolds(a)
  BY <1>2 DEF AssetHolds, Status
<1> QED
  BY <1>4, <1>5, <1>6, <1>7 DEF UploadInv

\* Steps that only read: a call begins, goes on or ends, and nothing else changes.
LEMMA CallMoves ==
  ASSUME UploadInv, NEW p \in Calls, NEW c \in CallRecords, call' = [call EXCEPT ![p] = c],
         UNCHANGED <<asset, file, now, doomed>>,
         c.at # "idle" => /\ c.a \in Assets
                          /\ c.at \in Deletes => call[p].at \in Deletes /\ c.a = call[p].a,
         CallHolds(p)'
  PROVE  UploadInv'
<1>1. UploadTypes /\ OneDeletion
  BY DEF UploadInv
<1>2. call \in [Calls -> CallRecords]
  BY <1>1, UploadShapes
<1>3. call'[p] = c /\ \A q \in Calls : q # p => call'[q] = call[q]
  BY <1>2
<1>4. UploadTypes'
  <2>1. call' \in [Calls -> CallRecords]
    BY <1>2
  <2>2. \A q \in Calls : call'[q].at # "idle" => call'[q].a \in Assets
    BY <1>1, <1>3, UploadShapes DEF CallAt, CallOn
  <2> QED
    BY <1>1, <2>1, <2>2 DEF UploadTypes, UploadTypeOK, CallAt, CallOn, Status
<1>5. OneDeletion'
  <2>1. \A q \in Calls : call'[q].at \in Deletes => call[q].at \in Deletes /\ call'[q].a = call[q].a
    BY <1>3 DEF Deletes
  <2> QED
    BY <1>1, <2>1, NoNewDeletion
<1>6. ASSUME NEW q \in Calls PROVE CallHolds(q)'
  <2>1. CASE q # p
    <3>1. CallHolds(q) /\ call'[q] = call[q]
      BY <2>1, <1>3 DEF UploadInv
    <3> QED
      BY <3>1 DEF CallHolds, CallAt, CallOn, Status
  <2> QED
    BY <2>1
<1>7. ASSUME NEW b \in Assets PROVE AssetHolds(b)'
  BY DEF UploadInv, AssetHolds, Status
<1> QED
  BY <1>4, <1>5, <1>6, <1>7 DEF UploadInv

LEMMA ReadSteps ==
  ASSUME UploadInv, NEW p \in Calls,
         \/ \E a \in Assets : ConfirmFind(p, a) \/ CleanupFind(p, a)
         \/ ConfirmProvider(p) \/ CallCrashes(p)
  PROVE  UploadInv'
<1>0. UNCHANGED <<asset, file, now, doomed>>
  BY DEF ConfirmFind, CleanupFind, ConfirmProvider, CallCrashes
<1>1. UploadTypes /\ CallHolds(p) /\ call \in [Calls -> CallRecords] /\ call[p] \in CallRecords
  BY UploadShapes DEF UploadInv
<1>2. CASE CallCrashes(p) \/ (ConfirmProvider(p) /\ call' = [call EXCEPT ![p] = NoCall])
  <2>1. NoCall \in CallRecords /\ NoCall.at = "idle"
    BY DEF NoCall, CallRecords
  <2>2. call' = [call EXCEPT ![p] = NoCall]
    BY <1>2 DEF CallCrashes, Return
  <2>3. CallHolds(p)'
    BY <2>1, <2>2, <1>1 DEF CallHolds, CallAt, Deletes, Cleanups
  <2> QED
    BY <1>0, <2>1, <2>2, <2>3, CallMoves
<1>3. ASSUME NEW a \in Assets, ConfirmFind(p, a) \/ CleanupFind(p, a) PROVE UploadInv'
  <2>1. PICK step \in {"confirm.provider", "cleanup.provider"} :
          /\ call' = [call EXCEPT ![p] = [NoCall EXCEPT !.at = step, !.a = a]]
          /\ Status(a) = "PENDING"
    BY <1>3 DEF ConfirmFind, CleanupFind, Begin, Confirmable
  <2> DEFINE c == [NoCall EXCEPT !.at = step, !.a = a]
  <2>2. c \in CallRecords /\ c.at = step /\ c.a = a
    BY DEF NoCall, CallRecords, Confirms, Cleanups
  <2> HIDE DEF c
  <2>3. call' = [call EXCEPT ![p] = c] /\ call'[p] = c
    BY <2>1, <1>1 DEF c
  <2>4. CallHolds(p)'
    BY <1>0, <2>1, <2>2, <2>3 DEF CallHolds, CallAt, CallOn, Status, Deletes
  <2>5. c.at \notin Deletes
    BY <2>2 DEF Deletes
  <2> QED
    BY <1>0, <2>2, <2>3, <2>4, <2>5, CallMoves
<1>4. CASE ConfirmProvider(p) /\ call' # [call EXCEPT ![p] = NoCall]
  <2>1. /\ call[p].at = "confirm.provider" /\ file[call[p].a] = "stored"
        /\ call' = [call EXCEPT ![p].at = "confirm.save"]
    BY <1>4 DEF ConfirmProvider, Return, Advance, CallAt, CallOn
  <2> DEFINE c == [call[p] EXCEPT !.at = "confirm.save"]
  <2>2. c \in CallRecords /\ c.at = "confirm.save" /\ c.a = call[p].a
    BY <1>1 DEF CallRecords, Confirms
  <2> HIDE DEF c
  <2>3. call' = [call EXCEPT ![p] = c] /\ call'[p] = c
    BY <2>1, <1>1 DEF c
  <2>4. c.a \in Assets /\ Status(c.a) # "ABSENT"
    BY <1>1, <2>1, <2>2, UploadShapes DEF CallHolds, CallAt, CallOn
  <2>5. CallHolds(p)'
    BY <1>0, <2>1, <2>2, <2>3, <2>4 DEF CallHolds, CallAt, CallOn, Status, Deletes, Cleanups
  <2>6. c.at \notin Deletes
    BY <2>2 DEF Deletes
  <2> QED
    BY <1>0, <2>2, <2>3, <2>4, <2>5, <2>6, CallMoves
<1> QED
  BY <1>2, <1>3, <1>4

\* A step on one asset that no call takes part in.
LEMMA AssetMoves ==
  ASSUME UploadInv, NEW a \in Assets, NEW x \in AssetRecords, NEW f \in {"none", "stored", "gone"},
         asset' = [asset EXCEPT ![a] = x], file' = [file EXCEPT ![a] = f], UNCHANGED <<call, now, doomed>>,
         x.status = "ATTACHED" <=> x.attached # NoResource,
         AssetHolds(a)', \A q \in Calls : ~CallAt(q, "idle") /\ CallOn(q) = a => CallHolds(q)'
  PROVE  UploadInv'
<1>1. UploadTypes /\ OneDeletion
  BY DEF UploadInv
<1>2. /\ asset \in [Assets -> AssetRecords] /\ file \in [Assets -> {"none", "stored", "gone"}]
      /\ call \in [Calls -> CallRecords] /\ now \in 0 .. MaxTime
      /\ \A b \in Assets : Status(b) = "ATTACHED" <=> asset[b].attached # NoResource
      /\ \A p \in Calls : ~CallAt(p, "idle") => CallOn(p) \in Assets
  BY <1>1, UploadShapes
<1>3. /\ asset'[a] = x /\ \A b \in Assets \ {a} : asset'[b] = asset[b] /\ file'[b] = file[b]
  BY <1>2
<1>4. UploadTypes'
  <2>1. asset' \in [Assets -> AssetRecords] /\ file' \in [Assets -> {"none", "stored", "gone"}]
    BY <1>2
  <2>2. \A b \in Assets : Status(b)' = "ATTACHED" <=> asset'[b].attached # NoResource
    BY <1>2, <1>3 DEF Status
  <2>3. \A p \in Calls : ~CallAt(p, "idle")' => CallOn(p)' \in Assets
    BY <1>2 DEF CallAt, CallOn
  <2> QED
    BY <1>2, <2>1, <2>2, <2>3 DEF UploadTypes, UploadTypeOK, AssetRecords, Status, CallAt, CallOn
<1>5. OneDeletion'
  BY <1>1, NoNewDeletion
<1>6. \A q \in Calls \ {} : /\ call'[q] = call[q]
                            /\ ~CallAt(q, "idle") /\ CallOn(q) = a => CallHolds(q)'
  OBVIOUS
<1>7. {} \in SUBSET Calls /\ \A q \in {} : CallHolds(q)'
  OBVIOUS
<1>8. doomed \subseteq doomed'
  OBVIOUS
<1> QED
  BY <1>3, <1>4, <1>5, <1>6, <1>7, <1>8, UploadFrame

LEMMA OwnerSteps ==
  ASSUME UploadInv, NEW a \in Assets,
         ClientUpload(a) \/ AttachAvatar(a) \/ \E t \in Types : CreateSignature(a, t)
  PROVE  UploadInv'
<1>0. UNCHANGED <<call, now, doomed>>
  BY DEF ClientUpload, AttachAvatar, CreateSignature
<1>1. UploadTypes /\ AssetHolds(a) /\ \A q \in Calls : CallHolds(q)
  BY DEF UploadInv
<1>2. /\ asset \in [Assets -> AssetRecords] /\ file \in [Assets -> {"none", "stored", "gone"}]
      /\ asset[a] \in AssetRecords /\ file[a] \in {"none", "stored", "gone"}
      /\ Status(a) = "ATTACHED" <=> asset[a].attached # NoResource
      /\ now \in 0 .. MaxTime
  BY <1>1, UploadShapes
<1>3. CASE ClientUpload(a)
  <2>1. asset' = [asset EXCEPT ![a] = asset[a]] /\ file' = [file EXCEPT ![a] = "stored"]
    BY <1>2, <1>3 DEF ClientUpload
  <2>2. asset'[a] = asset[a] /\ file'[a] = "stored" /\ file[a] = "none" /\ Status(a) # "ABSENT"
    BY <1>2, <1>3, <2>1 DEF ClientUpload
  <2>3. AssetHolds(a)'
    BY <1>0, <1>1, <2>2 DEF AssetHolds, Status
  <2>4. \A q \in Calls : ~CallAt(q, "idle") /\ CallOn(q) = a => CallHolds(q)'
    BY <1>0, <1>1, <2>2 DEF CallHolds, CallAt, CallOn, Status
  <2> QED
    BY <1>0, <1>2, <2>1, <2>3, <2>4, AssetMoves DEF Status
<1>4. CASE AttachAvatar(a)
  <2> DEFINE x == AttachedTo(a, Profile)
  <2>1. x \in AssetRecords /\ x.status = "ATTACHED" /\ x.attached = Profile /\ x.verified = asset[a].verified
    BY <1>2 DEF AttachedTo, AssetRecords
  <2> HIDE DEF x
  <2>2. asset' = [asset EXCEPT ![a] = x] /\ file' = [file EXCEPT ![a] = file[a]]
    BY <1>2, <1>4 DEF AttachAvatar, x
  <2>3. asset'[a] = x /\ file'[a] = file[a] /\ Status(a) = "CONFIRMED"
    BY <1>2, <1>4, <2>2 DEF AttachAvatar
  <2>4. AssetHolds(a)'
    BY <1>0, <1>1, <2>1, <2>3 DEF AssetHolds, Status
  <2>5. \A q \in Calls : ~CallAt(q, "idle") /\ CallOn(q) = a => CallHolds(q)'
    BY <1>0, <1>1, <2>1, <2>3 DEF CallHolds, CallAt, CallOn, Status
  <2> QED
    BY <1>0, <1>2, <2>1, <2>2, <2>4, <2>5, AssetMoves, UploadsAssumption
<1>5. ASSUME NEW t \in Types, CreateSignature(a, t) PROVE UploadInv'
  <2> DEFINE x == [NoAsset EXCEPT !.status = "PENDING", !.type = t, !.deleteAfter = now + PendingTtl]
  <2>1. x \in AssetRecords /\ x.status = "PENDING" /\ x.attached = NoResource /\ x.verified = FALSE
    <3>1. now + PendingTtl \in 0 .. MaxTime + PendingTtl + 1
      BY <1>2, UploadsAssumption
    <3> QED
      BY <3>1 DEF NoAsset, AssetRecords
  <2> HIDE DEF x
  <2>2. asset' = [asset EXCEPT ![a] = x] /\ file' = [file EXCEPT ![a] = file[a]]
    BY <1>2, <1>5 DEF CreateSignature, x
  <2>3. asset'[a] = x /\ file'[a] = file[a] /\ Status(a) = "ABSENT"
    BY <1>2, <1>5, <2>2 DEF CreateSignature
  <2>4. AssetHolds(a)'
    BY <1>0, <1>1, <2>1, <2>3 DEF AssetHolds, Status
  <2>5. ASSUME NEW q \in Calls, ~CallAt(q, "idle"), CallOn(q) = a PROVE FALSE
    <3>1. call[q].at \in Confirms \cup Deletes \cup Cleanups
      BY <2>5, <1>1, UploadShapes DEF CallRecords, CallAt
    <3> QED
      BY <3>1, <2>3, <2>5, <1>1 DEF CallHolds, CallAt, Confirms, Deletes, Cleanups
  <2> QED
    BY <1>0, <1>2, <2>1, <2>2, <2>4, <2>5, AssetMoves
<1> QED
  BY <1>3, <1>4, <1>5

\* A step of a call on its asset.
LEMMA CallStep ==
  ASSUME UploadInv, NEW p \in Calls, NEW a \in Assets,
         NEW x \in AssetRecords, NEW f \in {"none", "stored", "gone"}, NEW c \in CallRecords,
         asset' = [asset EXCEPT ![a] = x], file' = [file EXCEPT ![a] = f], call' = [call EXCEPT ![p] = c],
         now' = now, doomed \subseteq doomed',
         x.status = "ATTACHED" <=> x.attached # NoResource,
         c.at # "idle" => c.a \in Assets,
         c.at \in Deletes => \/ call[p].at \in Deletes /\ c.a = call[p].a
                             \/ \A q \in Calls : call[q].at \in Deletes => call[q].a # c.a,
         AssetHolds(a)', CallHolds(p)',
         \A q \in Calls \ {p} : ~CallAt(q, "idle") /\ CallOn(q) = a => CallHolds(q)'
  PROVE  UploadInv'
<1>1. UploadTypes /\ OneDeletion
  BY DEF UploadInv
<1>2. /\ asset \in [Assets -> AssetRecords] /\ file \in [Assets -> {"none", "stored", "gone"}]
      /\ call \in [Calls -> CallRecords] /\ now \in 0 .. MaxTime
      /\ \A b \in Assets : Status(b) = "ATTACHED" <=> asset[b].attached # NoResource
      /\ \A q \in Calls : ~CallAt(q, "idle") => CallOn(q) \in Assets
  BY <1>1, UploadShapes
<1>3. /\ asset'[a] = x /\ \A b \in Assets \ {a} : asset'[b] = asset[b] /\ file'[b] = file[b]
      /\ call'[p] = c /\ \A q \in Calls \ {p} : call'[q] = call[q]
  BY <1>2
<1>4. UploadTypes'
  <2>1. /\ asset' \in [Assets -> AssetRecords] /\ file' \in [Assets -> {"none", "stored", "gone"}]
        /\ call' \in [Calls -> CallRecords]
    BY <1>2
  <2>2. \A b \in Assets : Status(b)' = "ATTACHED" <=> asset'[b].attached # NoResource
    BY <1>2, <1>3 DEF Status
  <2>3. \A q \in Calls : ~CallAt(q, "idle")' => CallOn(q)' \in Assets
    BY <1>2, <1>3 DEF CallAt, CallOn
  <2> QED
    BY <1>2, <2>1, <2>2, <2>3 DEF UploadTypes, UploadTypeOK, AssetRecords, Status, CallAt, CallOn
<1>5. OneDeletion'
  BY <1>1, <1>3 DEF OneDeletion, CallOn
<1>6. \A q \in Calls \ {p} : /\ call'[q] = call[q]
                             /\ ~CallAt(q, "idle") /\ CallOn(q) = a => CallHolds(q)'
  BY <1>3
<1>7. {p} \in SUBSET Calls /\ \A q \in {p} : CallHolds(q)'
  OBVIOUS
<1> QED
  BY <1>3, <1>4, <1>5, <1>6, <1>7, UploadFrame

\* What the invariant says of a call under way.
LEMMA UnderWay ==
  ASSUME UploadInv, NEW p \in Calls, ~CallAt(p, "idle")
  PROVE  LET a == CallOn(p)
         IN /\ a \in Assets /\ CallHolds(p) /\ AssetHolds(a) /\ call[p] \in CallRecords
            /\ asset[a] \in AssetRecords /\ file[a] \in {"none", "stored", "gone"}
            /\ Status(a) = "ATTACHED" <=> asset[a].attached # NoResource
            /\ \A q \in Calls : q # p /\ call[p].at \in Deletes /\ CallOn(q) = a => call[q].at \notin Deletes
            /\ \A q \in Calls : CallHolds(q)
            /\ asset \in [Assets -> AssetRecords] /\ file \in [Assets -> {"none", "stored", "gone"}]
            /\ call \in [Calls -> CallRecords]
<1>1. UploadTypes /\ OneDeletion /\ CallHolds(p)
  BY DEF UploadInv
<1>2. CallOn(p) \in Assets /\ AssetHolds(CallOn(p))
  BY <1>1, UploadShapes DEF UploadInv
<1>3. \A q \in Calls : q # p /\ call[p].at \in Deletes /\ CallOn(q) = CallOn(p) => call[q].at \notin Deletes
  BY <1>1 DEF OneDeletion
<1>4. /\ asset \in [Assets -> AssetRecords] /\ file \in [Assets -> {"none", "stored", "gone"}]
      /\ call \in [Calls -> CallRecords]
      /\ \A b \in Assets : Status(b) = "ATTACHED" <=> asset[b].attached # NoResource
  BY <1>1, UploadShapes
<1> QED
  BY <1>1, <1>2, <1>3, <1>4 DEF UploadInv

LEMMA ConfirmSaves ==
  ASSUME UploadInv, NEW p \in Calls, ConfirmSave(p)
  PROVE  UploadInv'
<1>1. PICK a : a = CallOn(p)
  OBVIOUS
<1>2. ~CallAt(p, "idle") /\ call[p].at = "confirm.save"
  BY DEF ConfirmSave, CallAt
<1>3. /\ a \in Assets /\ CallHolds(p) /\ AssetHolds(a) /\ asset[a] \in AssetRecords
      /\ file[a] \in {"none", "stored", "gone"}
      /\ Status(a) = "ATTACHED" <=> asset[a].attached # NoResource
      /\ \A q \in Calls : CallHolds(q)
      /\ asset \in [Assets -> AssetRecords] /\ file \in [Assets -> {"none", "stored", "gone"}]
      /\ call \in [Calls -> CallRecords]
  BY <1>1, <1>2, UnderWay
<1>4. NoCall \in CallRecords /\ NoCall.at = "idle"
  BY DEF NoCall, CallRecords
<1>5. /\ file' = [file EXCEPT ![a] = file[a]] /\ call' = [call EXCEPT ![p] = NoCall]
      /\ now' = now /\ doomed' = doomed
  BY <1>3 DEF ConfirmSave, Return
<1>6. file'[a] = file[a] /\ call'[p] = NoCall /\ \A q \in Calls : q # p => call'[q] = call[q]
  BY <1>3, <1>5
<1>7. CallHolds(p)'
  BY <1>4, <1>6 DEF CallHolds, CallAt, Deletes, Cleanups
<1>8. CASE StillPending(a)
  <2> DEFINE x == [asset[a] EXCEPT !.status = "CONFIRMED", !.verified = TRUE, !.deleteAfter = 0]
  <2>1. x \in AssetRecords /\ x.status = "CONFIRMED" /\ x.verified = TRUE /\ x.attached = asset[a].attached
    <3>1. 0 \in 0 .. MaxTime + PendingTtl + 1
      BY UploadsAssumption
    <3> QED
      BY <1>3, <3>1 DEF AssetRecords
  <2>2. asset' = [asset EXCEPT ![a] = x]
    BY <1>1, <1>3, <1>8 DEF ConfirmSave
  <2> HIDE DEF x
  <2>3. asset'[a] = x /\ Status(a) = "PENDING"
    BY <1>3, <1>8, <2>2 DEF StillPending
  <2>4. AssetHolds(a)'
    BY <1>1, <1>2, <1>3, <1>5, <1>6, <2>1, <2>3 DEF AssetHolds, CallHolds, CallAt, Status
  <2>5. \A q \in Calls \ {p} : ~CallAt(q, "idle") /\ CallOn(q) = a => CallHolds(q)'
    BY <1>3, <1>5, <1>6, <2>1, <2>3 DEF CallHolds, CallAt, CallOn, Status, Deletes
  <2> QED
    BY <1>3, <1>4, <1>5, <1>7, <2>1, <2>2, <2>3, <2>4, <2>5, CallStep DEF Deletes, Status
<1>9. CASE ~StillPending(a)
  <2>1. UNCHANGED <<asset, file>>
    BY <1>1, <1>9 DEF ConfirmSave
  <2> QED
    BY <1>4, <1>5, <1>7, <2>1, CallMoves
<1> QED
  BY <1>8, <1>9

LEMMA DeleteMarks ==
  ASSUME UploadInv, NEW p \in Calls, NEW a \in Assets, DeleteMark(p, a)
  PROVE  UploadInv'
<1>0. UploadTypes /\ AssetHolds(a) /\ \A q \in Calls : CallHolds(q)
  BY DEF UploadInv
<1>1. /\ asset \in [Assets -> AssetRecords] /\ file \in [Assets -> {"none", "stored", "gone"}]
      /\ call \in [Calls -> CallRecords] /\ asset[a] \in AssetRecords
      /\ file[a] \in {"none", "stored", "gone"}
  BY <1>0, UploadShapes
<1> DEFINE x == [asset[a] EXCEPT !.status = "DELETION_PENDING"]
           c == [at |-> "delete.provider", a |-> a,
                 fallback |-> IF asset[a].verified THEN "CONFIRMED" ELSE "PENDING"]
<1>2. /\ x \in AssetRecords /\ x.status = "DELETION_PENDING" /\ x.verified = asset[a].verified
      /\ x.attached = asset[a].attached
  BY <1>1 DEF AssetRecords
<1>3. c \in CallRecords /\ c.at = "delete.provider" /\ c.a = a
      /\ c.fallback = IF asset[a].verified THEN "CONFIRMED" ELSE "PENDING"
  BY DEF CallRecords, Deletes
<1>4. asset' = [asset EXCEPT ![a] = x] /\ file' = [file EXCEPT ![a] = file[a]] /\ call' = [call EXCEPT ![p] = c]
  BY <1>1 DEF DeleteMark
<1> HIDE DEF x, c
<1>5. /\ asset'[a] = x /\ file'[a] = file[a] /\ call'[p] = c /\ now' = now /\ doomed' = doomed
      /\ \A q \in Calls : q # p => call'[q] = call[q]
      /\ Status(a) \in {"PENDING", "CONFIRMED"} /\ asset[a].attached = NoResource
  BY <1>1, <1>4 DEF DeleteMark, Deletable
<1>6. \A q \in Calls : call[q].at \in Deletes => call[q].a # a
  BY <1>0, <1>5 DEF CallHolds, CallAt, CallOn, Deletes
<1>7. AssetHolds(a)'
  BY <1>0, <1>2, <1>5 DEF AssetHolds, Status
<1>8. CallHolds(p)'
  BY <1>2, <1>3, <1>5 DEF CallHolds, CallAt, CallOn, Status, Cleanups
<1>9. \A q \in Calls \ {p} : ~CallAt(q, "idle") /\ CallOn(q) = a => CallHolds(q)'
  BY <1>0, <1>2, <1>5, <1>6 DEF CallHolds, CallAt, CallOn, Status, Deletes
<1> QED
  BY <1>1, <1>2, <1>3, <1>4, <1>5, <1>6, <1>7, <1>8, <1>9, CallStep

LEMMA DeleteProviders ==
  ASSUME UploadInv, NEW p \in Calls, DeleteProvider(p)
  PROVE  UploadInv'
<1>1. PICK a : a = CallOn(p)
  OBVIOUS
<1>2. ~CallAt(p, "idle") /\ call[p].at = "delete.provider"
  BY DEF DeleteProvider, CallAt
<1>3. /\ a \in Assets /\ CallHolds(p) /\ AssetHolds(a) /\ asset[a] \in AssetRecords
      /\ call[p] \in CallRecords /\ call[p].a = a /\ file[a] \in {"none", "stored", "gone"}
      /\ Status(a) = "ATTACHED" <=> asset[a].attached # NoResource
      /\ \A q \in Calls : CallHolds(q)
      /\ \A q \in Calls : q # p /\ call[p].at \in Deletes /\ CallOn(q) = a => call[q].at \notin Deletes
      /\ asset \in [Assets -> AssetRecords] /\ file \in [Assets -> {"none", "stored", "gone"}]
      /\ call \in [Calls -> CallRecords]
  BY <1>1, <1>2, UnderWay DEF CallOn
<1>4. PICK step \in {"delete.save", "delete.fallback"}, f \in {file[a], "gone"} :
        call' = [call EXCEPT ![p].at = step] /\ file' = [file EXCEPT ![a] = f]
  BY <1>1, <1>3 DEF DeleteProvider, Advance, Destroy
<1> DEFINE c == [call[p] EXCEPT !.at = step]
<1>5. c \in CallRecords /\ c.at = step /\ c.a = a /\ c.fallback = call[p].fallback
  BY <1>3 DEF CallRecords, Deletes
<1>6. call' = [call EXCEPT ![p] = c] /\ asset' = [asset EXCEPT ![a] = asset[a]]
  BY <1>3, <1>4 DEF DeleteProvider
<1> HIDE DEF c
<1>7. /\ asset'[a] = asset[a] /\ file'[a] = f /\ call'[p] = c /\ now' = now /\ doomed' = doomed
      /\ \A q \in Calls : q # p => call'[q] = call[q]
  BY <1>3, <1>4, <1>6 DEF DeleteProvider
<1>8. Status(a) = "DELETION_PENDING" /\ f \in {"none", "stored", "gone"} /\ call[p].at \in Deletes
  BY <1>1, <1>2, <1>3 DEF CallHolds, CallAt, Deletes
<1>9. AssetHolds(a)'
  BY <1>3, <1>7, <1>8 DEF AssetHolds, Status
<1>10. CallHolds(p)'
  BY <1>1, <1>2, <1>3, <1>5, <1>7, <1>8 DEF CallHolds, CallAt, CallOn, Status, Deletes, Cleanups
<1>11. \A q \in Calls \ {p} : ~CallAt(q, "idle") /\ CallOn(q) = a => CallHolds(q)'
  BY <1>3, <1>7, <1>8 DEF CallHolds, CallAt, CallOn, Status, Deletes
<1>12. /\ asset[a].status = "ATTACHED" <=> asset[a].attached # NoResource
       /\ c.a \in Assets /\ c.a = call[p].a /\ doomed \subseteq doomed'
  BY <1>3, <1>5, <1>7 DEF Status
<1> QED
  BY <1>3, <1>4, <1>5, <1>6, <1>7, <1>8, <1>9, <1>10, <1>11, <1>12, CallStep

LEMMA DeleteSaves ==
  ASSUME UploadInv, NEW p \in Calls, DeleteSave(p)
  PROVE  UploadInv'
<1>1. PICK a : a = CallOn(p)
  OBVIOUS
<1>2. ~CallAt(p, "idle") /\ call[p].at = "delete.save"
  BY DEF DeleteSave, CallAt
<1>3. /\ a \in Assets /\ CallHolds(p) /\ AssetHolds(a) /\ asset[a] \in AssetRecords
      /\ call[p] \in CallRecords /\ call[p].a = a /\ file[a] \in {"none", "stored", "gone"}
      /\ Status(a) = "ATTACHED" <=> asset[a].attached # NoResource
      /\ \A q \in Calls : CallHolds(q)
      /\ \A q \in Calls : q # p /\ call[p].at \in Deletes /\ CallOn(q) = a => call[q].at \notin Deletes
      /\ asset \in [Assets -> AssetRecords] /\ file \in [Assets -> {"none", "stored", "gone"}]
      /\ call \in [Calls -> CallRecords]
  BY <1>1, <1>2, UnderWay DEF CallOn
<1>4. Status(a) = "DELETION_PENDING" /\ call[p].at \in Deletes
  BY <1>1, <1>2, <1>3 DEF CallHolds, CallAt, Deletes
<1>5. PICK status \in {"DELETION_PENDING", "DELETED"} : asset' = [asset EXCEPT ![a].status = status]
  <2>1. asset = [asset EXCEPT ![a].status = "DELETION_PENDING"]
    BY ZenonT(60), <1>3, <1>4 DEF Status, AssetRecords
  <2> QED
    BY <1>1, <2>1 DEF DeleteSave, SetDeleted
<1> DEFINE x == [asset[a] EXCEPT !.status = status]
<1>6. x \in AssetRecords /\ x.status = status /\ x.verified = asset[a].verified /\ x.attached = asset[a].attached
  BY <1>3 DEF AssetRecords
<1>7. PICK c \in CallRecords :
        /\ call' = [call EXCEPT ![p] = c]
        /\ c.at = "idle" \/ c = [call[p] EXCEPT !.at = "delete.fallback"]
  <2>1. CASE Return(p)
    BY <2>1 DEF Return, NoCall, CallRecords
  <2>2. CASE Advance(p, "delete.fallback")
    <3>1. [call[p] EXCEPT !.at = "delete.fallback"] \in CallRecords
      BY <1>3 DEF CallRecords, Deletes
    <3> QED
      BY <1>3, <2>2, <3>1 DEF Advance
  <2> QED
    BY <2>1, <2>2 DEF DeleteSave
<1>8. c.at = "idle" \/ (c.at = "delete.fallback" /\ c.a = a /\ c.fallback = call[p].fallback)
  BY <1>3, <1>7 DEF CallRecords
<1>9. asset' = [asset EXCEPT ![a] = x] /\ file' = [file EXCEPT ![a] = file[a]]
  BY <1>3, <1>5 DEF DeleteSave
<1> HIDE DEF x
<1>10. /\ asset'[a] = x /\ file'[a] = file[a] /\ call'[p] = c /\ now' = now /\ doomed' = doomed
       /\ \A q \in Calls : q # p => call'[q] = call[q]
  BY <1>3, <1>7, <1>9 DEF DeleteSave
<1>11. AssetHolds(a)'
  BY <1>3, <1>4, <1>6, <1>10 DEF AssetHolds, Status
<1>12. CallHolds(p)'
  BY <1>1, <1>3, <1>4, <1>6, <1>8, <1>10 DEF CallHolds, CallAt, CallOn, Status, Deletes, Cleanups
<1>13. \A q \in Calls \ {p} : ~CallAt(q, "idle") /\ CallOn(q) = a => CallHolds(q)'
  BY <1>3, <1>4, <1>6, <1>10 DEF CallHolds, CallAt, CallOn, Status, Deletes
<1>14. x.status = "ATTACHED" <=> x.attached # NoResource
  BY <1>3, <1>4, <1>6
<1>15. /\ c.at # "idle" => c.a \in Assets
       /\ c.at \in Deletes => call[p].at \in Deletes /\ c.a = call[p].a
  BY <1>3, <1>4, <1>8 DEF Deletes
<1> QED
  BY <1>3, <1>6, <1>7, <1>9, <1>10, <1>11, <1>12, <1>13, <1>14, <1>15, CallStep

LEMMA DeleteFallbacks ==
  ASSUME UploadInv, NEW p \in Calls, DeleteFallback(p)
  PROVE  UploadInv'
<1>1. PICK a : a = CallOn(p)
  OBVIOUS
<1>2. ~CallAt(p, "idle") /\ call[p].at = "delete.fallback"
  BY DEF DeleteFallback, CallAt
<1>3. /\ a \in Assets /\ CallHolds(p) /\ AssetHolds(a) /\ asset[a] \in AssetRecords
      /\ call[p] \in CallRecords /\ call[p].a = a /\ file[a] \in {"none", "stored", "gone"}
      /\ Status(a) = "ATTACHED" <=> asset[a].attached # NoResource
      /\ \A q \in Calls : CallHolds(q)
      /\ \A q \in Calls : q # p /\ call[p].at \in Deletes /\ CallOn(q) = a => call[q].at \notin Deletes
      /\ asset \in [Assets -> AssetRecords] /\ file \in [Assets -> {"none", "stored", "gone"}]
      /\ call \in [Calls -> CallRecords]
  BY <1>1, <1>2, UnderWay DEF CallOn
<1>4. NoCall \in CallRecords /\ NoCall.at = "idle"
  BY DEF NoCall, CallRecords
<1>5. /\ file' = [file EXCEPT ![a] = file[a]] /\ call' = [call EXCEPT ![p] = NoCall] /\ now' = now
  BY <1>3 DEF DeleteFallback, Return
<1>6. file'[a] = file[a] /\ call'[p] = NoCall /\ \A q \in Calls : q # p => call'[q] = call[q]
  BY <1>3, <1>5
<1>7. CallHolds(p)'
  BY <1>4, <1>6 DEF CallHolds, CallAt, Deletes, Cleanups
<1>8. CASE Restorable(a)
  <2> DEFINE x == [asset[a] EXCEPT !.status = call[p].fallback]
  <2>1. call[p].fallback = IF asset[a].verified THEN "CONFIRMED" ELSE "PENDING"
    BY <1>1, <1>2, <1>3 DEF CallHolds, Deletes
  <2>2. /\ x \in AssetRecords /\ x.status = call[p].fallback /\ x.verified = asset[a].verified
        /\ x.attached = asset[a].attached
    BY <1>3, <2>1 DEF AssetRecords
  <2>3. asset' = [asset EXCEPT ![a] = x]
    BY <1>1, <1>3, <1>8 DEF DeleteFallback
  <2> HIDE DEF x
  <2>4. asset'[a] = x /\ Status(a) = "DELETION_PENDING"
    BY <1>3, <1>8, <2>3 DEF Restorable
  <2>5. doomed \subseteq doomed' /\ (file[a] = "gone" => a \in doomed')
    BY <1>1, <1>8 DEF DeleteFallback
  <2>6. AssetHolds(a)'
    BY <1>3, <1>6, <2>1, <2>2, <2>4, <2>5 DEF AssetHolds, Status
  <2>7. ASSUME NEW q \in Calls \ {p}, ~CallAt(q, "idle"), CallOn(q) = a PROVE CallHolds(q)'
    <3>1. CallHolds(q) /\ call[q].at \notin Deletes /\ call'[q] = call[q] /\ file[a] \in {"none", "stored", "gone"}
      BY <1>2, <1>3, <1>6, <2>7 DEF Deletes
    <3> QED
      BY <1>6, <2>1, <2>2, <2>4, <2>5, <2>7, <3>1 DEF CallHolds, CallAt, CallOn, Status, Deletes
  <2>8. x.status = "ATTACHED" <=> x.attached # NoResource
    BY <1>3, <2>1, <2>2, <2>4
  <2> QED
    BY <1>3, <1>4, <1>5, <1>7, <2>2, <2>3, <2>5, <2>6, <2>7, <2>8, CallStep DEF Deletes
<1>9. CASE ~Restorable(a)
  <2>1. UNCHANGED <<asset, file, doomed>>
    BY <1>1, <1>9 DEF DeleteFallback
  <2> QED
    BY <1>4, <1>5, <1>7, <2>1, CallMoves
<1> QED
  BY <1>8, <1>9

LEMMA CleanupProviders ==
  ASSUME UploadInv, NEW p \in Calls, CleanupProvider(p)
  PROVE  UploadInv'
<1>1. PICK a : a = CallOn(p)
  OBVIOUS
<1>2. ~CallAt(p, "idle") /\ call[p].at = "cleanup.provider"
  BY DEF CleanupProvider, CallAt
<1>3. /\ a \in Assets /\ CallHolds(p) /\ AssetHolds(a) /\ asset[a] \in AssetRecords
      /\ call[p] \in CallRecords /\ call[p].a = a /\ file[a] \in {"none", "stored", "gone"}
      /\ Status(a) = "ATTACHED" <=> asset[a].attached # NoResource
      /\ \A q \in Calls : CallHolds(q)
      /\ \A q \in Calls : q # p /\ call[p].at \in Deletes /\ CallOn(q) = a => call[q].at \notin Deletes
      /\ asset \in [Assets -> AssetRecords] /\ file \in [Assets -> {"none", "stored", "gone"}]
      /\ call \in [Calls -> CallRecords]
  BY <1>1, <1>2, UnderWay DEF CallOn
<1>4. PICK step \in {"cleanup.save", "cleanup.putoff"}, f \in {file[a], "gone"} :
        /\ call' = [call EXCEPT ![p].at = step] /\ file' = [file EXCEPT ![a] = f]
        /\ \/ f = file[a] /\ doomed' = doomed
           \/ f = "gone" /\ CleanupDestroy(a)
  BY <1>1, <1>3 DEF CleanupProvider, Advance, CleanupDestroy, Destroy
<1> DEFINE c == [call[p] EXCEPT !.at = step]
<1>5. c \in CallRecords /\ c.at = step /\ c.a = a
  BY <1>3 DEF CallRecords, Cleanups
<1>6. call' = [call EXCEPT ![p] = c] /\ asset' = [asset EXCEPT ![a] = asset[a]]
  BY <1>3, <1>4 DEF CleanupProvider
<1> HIDE DEF c
<1>7. /\ asset'[a] = asset[a] /\ file'[a] = f /\ call'[p] = c /\ now' = now
      /\ \A q \in Calls : q # p => call'[q] = call[q]
  BY <1>3, <1>4, <1>6 DEF CleanupProvider
<1>8. Status(a) # "ABSENT" /\ f \in {"none", "stored", "gone"} /\ (file[a] # "none" => f # "none")
  BY <1>1, <1>2, <1>3, <1>4 DEF CallHolds, CallAt
<1>9. doomed \subseteq doomed' /\ (f # file[a] /\ (Status(a) # "PENDING" \/ Confirming(a)) => a \in doomed')
  BY <1>4 DEF CleanupDestroy
<1>10. AssetHolds(a)'
  BY <1>3, <1>7, <1>8, <1>9 DEF AssetHolds, Status
<1>11. CallHolds(p)'
  BY <1>5, <1>7, <1>8 DEF CallHolds, CallAt, CallOn, Status, Deletes, Cleanups
<1>12. ASSUME NEW q \in Calls \ {p}, ~CallAt(q, "idle"), CallOn(q) = a PROVE CallHolds(q)'
  <2>1. CallHolds(q) /\ call'[q] = call[q] /\ (CallAt(q, "confirm.save") => Confirming(a))
    BY <1>3, <1>7, <1>12 DEF Confirming, CallAt
  <2> QED
    BY <1>7, <1>8, <1>9, <1>12, <2>1 DEF CallHolds, CallAt, CallOn, Status
<1>13. c.at \notin Deletes
  BY <1>5 DEF Deletes
<1>14. (asset[a].status = "ATTACHED" <=> asset[a].attached # NoResource) /\ c.a \in Assets
  BY <1>3, <1>5 DEF Status
<1> QED
  BY <1>3, <1>4, <1>5, <1>6, <1>7, <1>8, <1>9, <1>10, <1>11, <1>12, <1>13, <1>14, CallStep

LEMMA CleanupSaves ==
  ASSUME UploadInv, NEW p \in Calls, CleanupSave(p)
  PROVE  UploadInv'
<1>1. PICK a : a = CallOn(p)
  OBVIOUS
<1>2. ~CallAt(p, "idle") /\ call[p].at = "cleanup.save"
  BY DEF CleanupSave, CallAt
<1>3. /\ a \in Assets /\ CallHolds(p) /\ AssetHolds(a) /\ asset[a] \in AssetRecords
      /\ call[p] \in CallRecords /\ call[p].a = a /\ file[a] \in {"none", "stored", "gone"}
      /\ Status(a) = "ATTACHED" <=> asset[a].attached # NoResource
      /\ \A q \in Calls : CallHolds(q)
      /\ \A q \in Calls : q # p /\ call[p].at \in Deletes /\ CallOn(q) = a => call[q].at \notin Deletes
      /\ asset \in [Assets -> AssetRecords] /\ file \in [Assets -> {"none", "stored", "gone"}]
      /\ call \in [Calls -> CallRecords]
  BY <1>1, <1>2, UnderWay DEF CallOn
<1>4. PICK c \in CallRecords :
        /\ call' = [call EXCEPT ![p] = c]
        /\ c.at = "idle" \/ c = [call[p] EXCEPT !.at = "cleanup.putoff"]
  <2>1. CASE Return(p)
    <3>1. NoCall \in CallRecords /\ NoCall.at = "idle"
      BY DEF NoCall, CallRecords
    <3> QED
      BY <2>1, <3>1 DEF Return
  <2>2. CASE Advance(p, "cleanup.putoff")
    <3>1. [call[p] EXCEPT !.at = "cleanup.putoff"] \in CallRecords
      BY <1>3 DEF CallRecords, Cleanups
    <3> QED
      BY <1>3, <2>2, <3>1 DEF Advance
  <2> QED
    BY <2>1, <2>2 DEF CleanupSave
<1>5. c.at = "idle" \/ (c.at = "cleanup.putoff" /\ c.a = a)
  BY <1>3, <1>4 DEF CallRecords
<1>6. c.at \notin Deletes /\ (c.at # "idle" => c.a \in Assets)
  BY <1>3, <1>5 DEF Deletes
<1>7. /\ file' = [file EXCEPT ![a] = file[a]] /\ call'[p] = c /\ now' = now /\ doomed' = doomed
      /\ file'[a] = file[a] /\ \A q \in Calls : q # p => call'[q] = call[q]
  BY <1>3, <1>4 DEF CleanupSave
<1>8. Status(a) # "ABSENT"
  BY <1>1, <1>2, <1>3 DEF CallHolds, Cleanups
<1>9. CASE asset' = asset
  <2>1. CallHolds(p)'
    BY <1>5, <1>7, <1>8, <1>9 DEF CallHolds, CallAt, CallOn, Status, Deletes, Cleanups
  <2>2. UNCHANGED file
    BY DEF CleanupSave
  <2> QED
    BY <1>4, <1>6, <1>7, <1>9, <2>1, <2>2, CallMoves
<1>10. CASE Status(a) = "PENDING" /\ SetDeleted(a)
  <2> DEFINE x == [asset[a] EXCEPT !.status = "DELETED"]
  <2>1. /\ x \in AssetRecords /\ x.status = "DELETED" /\ x.verified = asset[a].verified
        /\ x.attached = asset[a].attached
    BY <1>3 DEF AssetRecords
  <2>2. asset' = [asset EXCEPT ![a] = x]
    BY <1>3, <1>10 DEF SetDeleted
  <2> HIDE DEF x
  <2>3. asset'[a] = x
    BY <1>3, <2>2
  <2>4. AssetHolds(a)'
    BY <1>3, <1>7, <2>1, <2>3 DEF AssetHolds, Status
  <2>5. CallHolds(p)'
    BY <1>5, <1>7, <2>1, <2>3 DEF CallHolds, CallAt, CallOn, Status, Deletes, Cleanups
  <2>6. \A q \in Calls \ {p} : ~CallAt(q, "idle") /\ CallOn(q) = a => CallHolds(q)'
    BY <1>3, <1>7, <1>10, <2>1, <2>3 DEF CallHolds, CallAt, CallOn, Status, Deletes
  <2>7. x.status = "ATTACHED" <=> x.attached # NoResource
    BY <1>3, <1>10, <2>1
  <2> QED
    BY <1>3, <1>4, <1>6, <1>7, <2>1, <2>2, <2>4, <2>5, <2>6, <2>7, CallStep
<1> QED
  BY <1>1, <1>9, <1>10 DEF CleanupSave

LEMMA CleanupPutsOff ==
  ASSUME UploadInv, NEW p \in Calls, CleanupPutOff(p)
  PROVE  UploadInv'
<1>1. PICK a : a = CallOn(p)
  OBVIOUS
<1>2. ~CallAt(p, "idle") /\ call[p].at = "cleanup.putoff"
  BY DEF CleanupPutOff, CallAt
<1>3. /\ a \in Assets /\ CallHolds(p) /\ AssetHolds(a) /\ asset[a] \in AssetRecords
      /\ call[p] \in CallRecords /\ call[p].a = a /\ file[a] \in {"none", "stored", "gone"}
      /\ Status(a) = "ATTACHED" <=> asset[a].attached # NoResource
      /\ \A q \in Calls : CallHolds(q)
      /\ \A q \in Calls : q # p /\ call[p].at \in Deletes /\ CallOn(q) = a => call[q].at \notin Deletes
      /\ asset \in [Assets -> AssetRecords] /\ file \in [Assets -> {"none", "stored", "gone"}]
      /\ call \in [Calls -> CallRecords]
  BY <1>1, <1>2, UnderWay DEF CallOn
<1>4. NoCall \in CallRecords /\ NoCall.at = "idle" /\ NoCall.at \notin Deletes
  BY DEF NoCall, CallRecords, Deletes
<1>5. /\ file' = [file EXCEPT ![a] = file[a]] /\ call' = [call EXCEPT ![p] = NoCall] /\ now' = now
      /\ doomed' = doomed
  BY <1>3 DEF CleanupPutOff, Return
<1> DEFINE x == [asset[a] EXCEPT !.deleteAfter = now + 1]
<1>6. /\ x \in AssetRecords /\ x.status = asset[a].status /\ x.verified = asset[a].verified
      /\ x.attached = asset[a].attached
  <2>1. now \in 0 .. MaxTime
    BY UploadShapes DEF UploadInv
  <2>2. now + 1 \in 0 .. MaxTime + PendingTtl + 1
    BY <2>1, UploadsAssumption
  <2> QED
    BY <1>3, <2>2 DEF AssetRecords
<1>7. asset' = [asset EXCEPT ![a] = x]
  BY <1>1, <1>3 DEF CleanupPutOff
<1> HIDE DEF x
<1>8. /\ asset'[a] = x /\ file'[a] = file[a] /\ call'[p] = NoCall
      /\ \A q \in Calls : q # p => call'[q] = call[q]
  BY <1>3, <1>5, <1>7
<1>9. AssetHolds(a)'
  BY <1>3, <1>5, <1>6, <1>8 DEF AssetHolds, Status
<1>10. CallHolds(p)'
  BY <1>4, <1>8 DEF CallHolds, CallAt, Deletes, Cleanups
<1>11. \A q \in Calls \ {p} : ~CallAt(q, "idle") /\ CallOn(q) = a => CallHolds(q)'
  BY <1>3, <1>5, <1>6, <1>8 DEF CallHolds, CallAt, CallOn, Status
<1>12. x.status = "ATTACHED" <=> x.attached # NoResource
  BY <1>3, <1>6 DEF Status
<1> QED
  BY <1>3, <1>4, <1>5, <1>6, <1>7, <1>9, <1>10, <1>11, <1>12, CallStep

LEMMA UploadSteps == ASSUME UploadInv, UploadNext PROVE UploadInv'
<1>1. ASSUME NEW a \in Assets, ClientUpload(a) \/ AttachAvatar(a) \/ \E t \in Types : CreateSignature(a, t)
      PROVE  UploadInv'
  BY <1>1, OwnerSteps
<1>2. ASSUME NEW p \in Calls, UploadCall(p) PROVE UploadInv'
  BY <1>2, ReadSteps, DeleteMarks, ConfirmSaves, DeleteProviders, DeleteSaves, DeleteFallbacks,
     CleanupProviders, CleanupSaves, CleanupPutsOff DEF UploadCall
<1>3. ASSUME Tick PROVE UploadInv'
  <2>1. now' \in 0 .. MaxTime
    BY <1>3, UploadShapes, UploadsAssumption DEF Tick, UploadInv
  <2> QED
    BY <1>3, <2>1 DEF Tick, UploadInv, UploadTypes, UploadTypeOK, OneDeletion, CallHolds, AssetHolds, Status, CallAt,
       CallOn
<1> QED
  BY <1>1, <1>2, <1>3 DEF UploadNext

-----------------------------------------------------------------------------
(* The submissions.                                                        *)

Working == {"reserve", "create", "release.snapshot", "unclaim", "attach", "event", "enqueue",
            "fail.release", "fail.save"}
SubRecords == [at : {"idle", "claim", "existing", "find"} \cup Working, key : Keys \cup {""},
               payload : Payloads, res : Resources \cup {NoResource}]

SubmitTypes ==
  /\ sub \in [Submitters -> SubRecords]
  /\ record \in [Keys -> [payload : Payloads, res : Resources \cup {NoResource}]]
  /\ verification \in [Resources -> [status : {"ABSENT", "PENDING", "FAILED"}, payload : Payloads]]
  /\ hold \in [Resources -> {"none", "reserved", "released"}]
  /\ queued \subseteq Resources
  /\ answers \subseteq [key : Keys, payload : Payloads, res : Resources]
  /\ cut \subseteq Resources

Works(p, r) == sub[p].at \in Working /\ sub[p].res = r
Worked(r) == \E p \in Submitters : Works(p, r)

\* Where the handler of a verification is says what there is of it so far.
Stage(r, at) ==
  /\ r \notin queued
  /\ at = "reserve" => hold[r] = "none" /\ verification[r].status = "ABSENT"
  /\ at \in {"create", "release.snapshot"} => hold[r] = "reserved" /\ verification[r].status = "ABSENT"
  /\ at = "unclaim" => hold[r] # "reserved" /\ verification[r].status = "ABSENT"
  /\ at \in {"attach", "event", "enqueue", "fail.release"} =>
       hold[r] = "reserved" /\ verification[r].status = "PENDING"
  /\ at = "fail.save" => hold[r] = "released" /\ verification[r].status = "PENDING"

\* A submission that works on a verification has its key; one that waits for it has read the
\* record of its key, which may have gone since, and the verification then never was.
SubHolds(p) ==
  /\ sub[p].at # "idle" => sub[p].key \in Keys
  /\ sub[p].at \in {"idle", "claim", "existing"} => sub[p].res = NoResource
  /\ sub[p].at \in Working =>
       /\ sub[p].res \in Resources /\ sub[p].res \notin cut
       /\ record[sub[p].key] = [payload |-> sub[p].payload, res |-> sub[p].res]
       /\ Stage(sub[p].res, sub[p].at)
       /\ verification[sub[p].res].status # "ABSENT" => verification[sub[p].res].payload = sub[p].payload
       /\ sub[p].at \in {"event", "enqueue"} /\ sub[p].payload # Text => asset[sub[p].payload].attached = sub[p].res
  /\ sub[p].at = "find" =>
       /\ sub[p].res \in Resources
       /\ \/ record[sub[p].key] = [payload |-> sub[p].payload, res |-> sub[p].res]
          \/ verification[sub[p].res].status = "ABSENT" /\ ~Worked(sub[p].res)

OneHandler == \A p, q \in Submitters : \A r \in Resources : Works(p, r) /\ Works(q, r) => p = q

\* A verification belongs to one key and has that key's payload.
RecordsHold ==
  /\ \A k, l \in Keys : record[k].res # NoResource /\ record[k].res = record[l].res => k = l
  /\ \A k \in Keys : record[k].res = NoResource => record[k] = NoRecord
  /\ \A k \in Keys : record[k].res # NoResource /\ verification[record[k].res].status # "ABSENT" =>
       verification[record[k].res].payload = record[k].payload
  /\ \A x \in answers : record[x.key] = [payload |-> x.payload, res |-> x.res]
                        /\ verification[x.res].status # "ABSENT"

VerificationHolds(r) ==
  /\ r \notin cut /\ ~Worked(r) =>
       /\ hold[r] = "reserved" <=> r \in queued
       /\ r \in queued => verification[r].status = "PENDING"
       /\ r \notin queued => verification[r].status \in {"ABSENT", "FAILED"}
  /\ r \in queued /\ verification[r].payload # Text => asset[verification[r].payload].attached = r

SubmitInv ==
  /\ SubmitTypes /\ OneHandler /\ RecordsHold
  /\ \A p \in Submitters : SubHolds(p)
  /\ \A r \in Resources : VerificationHolds(r)

IInv == UploadInv /\ SubmitInv

Verifications == [status : {"ABSENT", "PENDING", "FAILED"}, payload : Payloads]
IdempotencyRecords == [payload : Payloads, res : Resources \cup {NoResource}]

\* What is attached to a verification stays so.
AttachmentsStay ==
  \A a \in Assets : asset[a].attached \in Resources => asset'[a].attached = asset[a].attached

LEMMA PayloadsAre ==
  ASSUME NEW x \in Payloads PROVE x = Text \/ x \in Assets
BY DEF Payloads

\* A submission goes on with the verification it works on, or ends with it.
OwnMove(p, r, n, v, h) ==
  /\ r = sub[p].res /\ sub[p].at \in Working
  /\ sub' = [sub EXCEPT ![p] = n] /\ record' = record
  /\ verification' = [verification EXCEPT ![r] = v] /\ hold' = [hold EXCEPT ![r] = h]
  /\ n.at \in Working => n.res = r /\ n.key = sub[p].key /\ n.payload = sub[p].payload
  /\ n.at \notin Working => n.at = "idle" /\ n.res = NoResource
  /\ verification[r].status # "ABSENT" => v.status # "ABSENT"
  /\ v.status # "ABSENT" => v.payload = sub[p].payload
  /\ queued' = queued \/ queued' = queued \cup {r}
  /\ \/ answers' = answers
     \/ /\ answers' = answers \cup {[key |-> sub[p].key, payload |-> sub[p].payload, res |-> r]}
        /\ v.status # "ABSENT"
  /\ cut' = cut \/ cut' = cut \cup {r}
  /\ n.at \in Working =>
       /\ Stage(r, n.at)' /\ r \notin cut'
       /\ n.at \in {"event", "enqueue"} /\ n.payload # Text => asset'[n.payload].attached = r
  /\ n.at \notin Working =>
       /\ r \notin cut' => /\ h = "reserved" <=> r \in queued'
                           /\ r \in queued' => v.status = "PENDING"
                           /\ r \notin queued' => v.status \in {"ABSENT", "FAILED"}
       /\ r \in queued' /\ v.payload # Text => asset'[v.payload].attached = r

LEMMA OwnStep ==
  ASSUME SubmitInv, AttachmentsStay, NEW p \in Submitters, NEW r, NEW n \in SubRecords, NEW v \in Verifications,
         NEW h \in {"none", "reserved", "released"}, OwnMove(p, r, n, v, h)
  PROVE  SubmitInv'
<1> USE DEF OwnMove
<1>1. /\ SubmitTypes /\ OneHandler /\ RecordsHold
      /\ (\A q \in Submitters : SubHolds(q)) /\ (\A s \in Resources : VerificationHolds(s))
  BY DEF SubmitInv
<1>2. /\ sub \in [Submitters -> SubRecords] /\ verification \in [Resources -> Verifications]
      /\ hold \in [Resources -> {"none", "reserved", "released"}] /\ record \in [Keys -> IdempotencyRecords]
      /\ queued \subseteq Resources /\ cut \subseteq Resources
      /\ answers \subseteq [key : Keys, payload : Payloads, res : Resources]
      /\ sub[p] \in SubRecords
  BY <1>1 DEF SubmitTypes, Verifications, IdempotencyRecords
<1>3. /\ r \in Resources /\ sub[p].key \in Keys /\ sub[p].payload \in Payloads /\ Works(p, r)
      /\ record[sub[p].key] = [payload |-> sub[p].payload, res |-> r]
      /\ r \notin queued /\ r \notin cut
  <2>1. SubHolds(p) /\ sub[p].at # "idle"
    BY <1>1 DEF Working
  <2> QED
    BY <2>1, <1>2 DEF SubHolds, Stage, Works, SubRecords
<1>4. /\ sub'[p] = n /\ \A q \in Submitters : q # p => sub'[q] = sub[q]
      /\ verification'[r] = v /\ \A s \in Resources : s # r => verification'[s] = verification[s]
      /\ hold'[r] = h /\ \A s \in Resources : s # r => hold'[s] = hold[s]
      /\ \A s \in Resources : s # r => (s \in queued' <=> s \in queued) /\ (s \in cut' <=> s \in cut)
  BY <1>2, <1>3
<1>5. SubmitTypes'
  <2>1. [key |-> sub[p].key, payload |-> sub[p].payload, res |-> r] \in [key : Keys, payload : Payloads, res : Resources]
    BY <1>3
  <2>2. answers' \subseteq [key : Keys, payload : Payloads, res : Resources]
    BY <2>1, <1>2
  <2>3. sub' \in [Submitters -> SubRecords] /\ verification' \in [Resources -> Verifications]
        /\ hold' \in [Resources -> {"none", "reserved", "released"}]
    BY <1>2
  <2>4. queued' \subseteq Resources /\ cut' \subseteq Resources
    BY <1>2, <1>3
  <2> QED
    BY <1>2, <2>2, <2>3, <2>4 DEF SubmitTypes, Verifications, IdempotencyRecords
<1>6. \A q \in Submitters : q # p => ~Works(q, r) /\ \A s : Works(q, s)' <=> Works(q, s)
  BY <1>1, <1>3, <1>4 DEF OneHandler, Works
<1>7. \A s \in Resources : s # r => ~Works(p, s) /\ ~Works(p, s)'
  BY <1>3, <1>4 DEF Works
<1>8. \A s \in Resources : s # r => (Worked(s)' <=> Worked(s))
  BY <1>6, <1>7 DEF Worked
<1>9. OneHandler'
  BY <1>1, <1>6, <1>7 DEF OneHandler
<1>10. RecordsHold'
  <2>1. \A k \in Keys : record[k].res = r => k = sub[p].key
    BY <1>1, <1>3, UploadsAssumption DEF RecordsHold
  <2>2. ASSUME NEW k \in Keys, record[k].res # NoResource, verification'[record[k].res].status # "ABSENT"
        PROVE  verification'[record[k].res].payload = record[k].payload
    <3>1. record[k].res \in Resources
      BY <1>2, <2>2 DEF IdempotencyRecords
    <3>2. CASE record[k].res = r
      BY <1>3, <1>4, <2>1, <2>2, <3>2
    <3>3. CASE record[k].res # r
      BY <1>1, <1>4, <2>2, <3>1, <3>3 DEF RecordsHold
    <3> QED
      BY <3>2, <3>3
  <2>3. ASSUME NEW x \in answers'
        PROVE  record[x.key] = [payload |-> x.payload, res |-> x.res] /\ verification'[x.res].status # "ABSENT"
    <3>1. CASE x \in answers
      <4>1. x.res \in Resources /\ record[x.key] = [payload |-> x.payload, res |-> x.res]
            /\ verification[x.res].status # "ABSENT"
        BY <1>1, <1>2, <3>1 DEF RecordsHold
      <4> QED
        BY <4>1, <1>4
    <3>2. CASE x = [key |-> sub[p].key, payload |-> sub[p].payload, res |-> r] /\ v.status # "ABSENT"
      BY <1>3, <1>4, <3>2
    <3> QED
      BY <2>3, <3>1, <3>2
  <2> QED
    BY <1>1, <2>2, <2>3 DEF RecordsHold
<1>11. SubHolds(p)'
  <2>1. CASE n.at \in Working
    <3>1. SubHolds(p)
      BY <1>1
    <3> QED
      BY <1>3, <1>4, <2>1, <3>1 DEF SubHolds, Working
  <2>2. CASE n.at \notin Working
    BY <1>4, <2>2 DEF SubHolds, Working
  <2> QED
    BY <2>1, <2>2
<1>12. ASSUME NEW q \in Submitters, q # p PROVE SubHolds(q)'
  <2>0. SubHolds(q) /\ sub'[q] = sub[q] /\ sub[q] \in SubRecords
    BY <1>1, <1>2, <1>4, <1>12
  <2>1. CASE sub[q].at \in Working
    <3>1. sub[q].res \in Resources /\ sub[q].res # r /\ sub[q].at # "idle" /\ sub[q].at # "find"
      BY <2>0, <2>1, <1>6, <1>12 DEF SubHolds, Works, Working
    <3>2. Stage(sub[q].res, sub[q].at)'
      BY <2>0, <2>1, <3>1, <1>4 DEF SubHolds, Stage
    <3>3. sub[q].at \in {"event", "enqueue"} /\ sub[q].payload # Text => asset'[sub[q].payload].attached = sub[q].res
      <4>1. sub[q].payload # Text => sub[q].payload \in Assets
        BY <2>0, PayloadsAre DEF SubRecords
      <4> QED
        BY <2>0, <2>1, <3>1, <4>1 DEF SubHolds, AttachmentsStay
    <3>4. verification'[sub[q].res] = verification[sub[q].res] /\ sub[q].res \notin cut'
      BY <2>0, <2>1, <3>1, <1>4 DEF SubHolds
    <3> QED
      BY <2>0, <2>1, <3>1, <3>2, <3>3, <3>4 DEF SubHolds, Working
  <2>2. CASE sub[q].at = "find"
    <3>1. sub[q].res = r => record[sub[q].key] = [payload |-> sub[q].payload, res |-> sub[q].res]
      BY <2>0, <2>2, <1>3 DEF SubHolds, Worked
    <3>2. sub[q].res # r /\ sub[q].res \in Resources =>
            /\ verification'[sub[q].res] = verification[sub[q].res]
            /\ Worked(sub[q].res)' <=> Worked(sub[q].res)
      BY <1>4, <1>8
    <3> QED
      BY <2>0, <2>2, <3>1, <3>2 DEF SubHolds, Working
  <2>3. CASE sub[q].at \notin Working \cup {"find"}
    BY <2>0, <2>3 DEF SubHolds
  <2> QED
    BY <2>1, <2>2, <2>3
<1>13. ASSUME NEW s \in Resources PROVE VerificationHolds(s)'
  <2>1. CASE s = r /\ n.at \in Working
    <3>1. Worked(r)' /\ r \notin queued'
      BY <1>4, <2>1 DEF Worked, Works, Stage
    <3> QED
      BY <2>1, <3>1 DEF VerificationHolds
  <2>2. CASE s = r /\ n.at \notin Working
    BY <1>4, <2>2 DEF VerificationHolds
  <2>3. CASE s # r
    <3>1. VerificationHolds(s) /\ (Worked(s)' <=> Worked(s)) /\ verification'[s] = verification[s]
          /\ hold'[s] = hold[s] /\ (s \in queued' <=> s \in queued) /\ (s \in cut' <=> s \in cut)
      BY <1>1, <1>4, <1>8, <2>3
    <3>2. verification[s].payload # Text => verification[s].payload \in Assets
      BY <1>2, PayloadsAre DEF Verifications
    <3> QED
      BY <3>1, <3>2 DEF VerificationHolds, AttachmentsStay
  <2> QED
    BY <2>1, <2>2, <2>3
<1> QED
  BY <1>5, <1>9, <1>10, <1>11, <1>12, <1>13 DEF SubmitInv

\* A submission that works on no verification moves: it reads, waits, answers or ends.
LEMMA OtherStep ==
  ASSUME SubmitInv, NEW p \in Submitters, sub[p].at \notin Working,
         NEW n \in SubRecords, n.at \notin Working, sub' = [sub EXCEPT ![p] = n],
         UNCHANGED <<record, verification, hold, queued, cut, asset>>,
         \/ answers' = answers
         \/ /\ answers' = answers \cup {[key |-> sub[p].key, payload |-> sub[p].payload, res |-> sub[p].res]}
            /\ sub[p].at = "find" /\ verification[sub[p].res].status # "ABSENT",
         SubHolds(p)'
  PROVE  SubmitInv'
<1>1. /\ SubmitTypes /\ OneHandler /\ RecordsHold
      /\ (\A q \in Submitters : SubHolds(q)) /\ (\A s \in Resources : VerificationHolds(s))
  BY DEF SubmitInv
<1>2. /\ sub \in [Submitters -> SubRecords] /\ sub[p] \in SubRecords
      /\ answers \subseteq [key : Keys, payload : Payloads, res : Resources]
  BY <1>1 DEF SubmitTypes
<1>3. sub'[p] = n /\ \A q \in Submitters : q # p => sub'[q] = sub[q]
  BY <1>2
<1>4. \A q \in Submitters : \A r : Works(q, r)' <=> Works(q, r)
  BY <1>3 DEF Works
<1>5. \A r : Worked(r)' <=> Worked(r)
  BY <1>4 DEF Worked
<1>6. ASSUME answers' # answers
      PROVE  /\ sub[p].key \in Keys /\ sub[p].payload \in Payloads /\ sub[p].res \in Resources
             /\ record[sub[p].key] = [payload |-> sub[p].payload, res |-> sub[p].res]
             /\ verification[sub[p].res].status # "ABSENT"
             /\ answers' = answers \cup {[key |-> sub[p].key, payload |-> sub[p].payload, res |-> sub[p].res]}
  BY <1>1, <1>2, <1>6 DEF SubHolds, SubRecords
<1>7. SubmitTypes'
  <2>1. answers' \subseteq [key : Keys, payload : Payloads, res : Resources]
    BY <1>2, <1>6
  <2>2. sub' \in [Submitters -> SubRecords]
    BY <1>2
  <2> QED
    BY <1>1, <2>1, <2>2 DEF SubmitTypes
<1>8. OneHandler'
  BY <1>1, <1>4 DEF OneHandler
<1>9. RecordsHold'
  <2>1. ASSUME NEW x \in answers'
        PROVE  record[x.key] = [payload |-> x.payload, res |-> x.res] /\ verification[x.res].status # "ABSENT"
    <3>1. CASE x \in answers
      BY <1>1, <3>1 DEF RecordsHold
    <3>2. CASE x \notin answers
      BY <1>6, <2>1, <3>2
    <3> QED
      BY <3>1, <3>2
  <2> QED
    BY <1>1, <2>1 DEF RecordsHold
<1>10. ASSUME NEW q \in Submitters PROVE SubHolds(q)'
  <2>1. CASE q # p
    <3>1. SubHolds(q) /\ sub'[q] = sub[q]
      BY <1>1, <1>3, <2>1
    <3> QED
      BY <3>1, <1>5 DEF SubHolds, Stage
  <2> QED
    BY <2>1
<1>11. ASSUME NEW s \in Resources PROVE VerificationHolds(s)'
  <2>1. VerificationHolds(s)
    BY <1>1
  <2> QED
    BY <2>1, <1>5 DEF VerificationHolds
<1> QED
  BY <1>7, <1>8, <1>9, <1>10, <1>11 DEF SubmitInv

LEMMA NoSubFacts ==
  NoSub \in SubRecords /\ NoSub.at = "idle" /\ NoSub.at \notin Working /\ NoSub.res = NoResource
BY DEF NoSub, SubRecords, Working, Payloads

LEMMA WaitingSteps ==
  ASSUME SubmitInv, NEW p \in Submitters,
         \/ \E k \in Keys, payload \in Payloads : Submit(p, k, payload)
         \/ Existing(p) \/ Poll(p)
         \/ Claim(p) /\ UNCHANGED record
         \/ CutOff(p) /\ sub[p].at \notin Working
  PROVE  SubmitInv'
<1>1. /\ SubmitTypes /\ SubHolds(p) /\ RecordsHold
  BY DEF SubmitInv
<1>2. sub \in [Submitters -> SubRecords] /\ sub[p] \in SubRecords
  BY <1>1 DEF SubmitTypes
<1>3. ASSUME EndSub(p), sub[p].at \notin Working, UNCHANGED <<record, verification, hold, queued, cut, asset>>,
             \/ answers' = answers
             \/ /\ answers' = answers \cup {[key |-> sub[p].key, payload |-> sub[p].payload, res |-> sub[p].res]}
                /\ sub[p].at = "find" /\ verification[sub[p].res].status # "ABSENT"
      PROVE  SubmitInv'
  <2>1. sub' = [sub EXCEPT ![p] = NoSub] /\ sub'[p] = NoSub
    BY <1>2, <1>3 DEF EndSub
  <2>2. SubHolds(p)'
    BY <2>1, NoSubFacts DEF SubHolds
  <2> QED
    BY <1>3, <2>1, <2>2, NoSubFacts, OtherStep
<1>4. ASSUME NEW k \in Keys, NEW payload \in Payloads, Submit(p, k, payload) PROVE SubmitInv'
  <2> DEFINE n == [at |-> "claim", key |-> k, payload |-> payload, res |-> NoResource]
  <2>1. n \in SubRecords /\ n.at = "claim" /\ n.key = k /\ n.res = NoResource
    BY DEF SubRecords
  <2>2. sub' = [sub EXCEPT ![p] = n] /\ sub[p].at = "idle"
        /\ UNCHANGED <<record, verification, hold, queued, cut, asset, answers>>
    BY <1>4 DEF Submit, SubAt, uploadVars
  <2> HIDE DEF n
  <2>3. SubHolds(p)'
    BY <1>2, <2>1, <2>2 DEF SubHolds, Working
  <2>4. n.at \notin Working /\ sub[p].at \notin Working
    BY <2>1, <2>2 DEF Working
  <2> QED
    BY <2>1, <2>2, <2>3, <2>4, OtherStep
<1>5. CASE Existing(p)
  <2>0. sub[p].at = "existing" /\ sub[p].at \notin Working /\ sub[p].key \in Keys
        /\ UNCHANGED <<record, verification, hold, queued, cut, asset, answers>>
    BY <1>1, <1>5 DEF Existing, SubAt, uploadVars, Working, SubHolds
  <2>1. CASE SameContent(record[sub[p].key], sub[p].payload)
    <3> DEFINE r == record[sub[p].key].res
               n == [sub[p] EXCEPT !.at = "find", !.res = r]
    <3>1. record[sub[p].key] \in IdempotencyRecords
      BY <1>1, <2>0 DEF SubmitTypes, IdempotencyRecords
    <3>2. r # NoResource /\ record[sub[p].key].payload = sub[p].payload
      BY <1>1, <2>0, <2>1 DEF SameContent, RecordsHold
    <3>3. r \in Resources /\ record[sub[p].key] = [payload |-> sub[p].payload, res |-> r]
      BY <3>1, <3>2 DEF IdempotencyRecords
    <3>4. n \in SubRecords /\ n.at = "find" /\ n.key = sub[p].key /\ n.res = r /\ n.payload = sub[p].payload
      BY <1>2, <3>3 DEF SubRecords
    <3>5. sub' = [sub EXCEPT ![p] = n]
      BY <1>2, <1>5, <2>1 DEF Existing
    <3> HIDE DEF n, r
    <3>6. sub'[p] = n /\ n.at \notin Working
      BY <1>2, <3>4, <3>5 DEF Working
    <3>7. SubHolds(p)'
      BY <2>0, <3>3, <3>4, <3>6 DEF SubHolds, Working
    <3> QED
      BY <2>0, <3>4, <3>5, <3>6, <3>7, OtherStep
  <2>2. CASE EndSub(p)
    BY <1>3, <2>0, <2>2
  <2> QED
    BY <1>5, <2>1, <2>2 DEF Existing
<1>6. CASE Poll(p)
  <2>1. sub[p].at = "find" /\ sub[p].at \notin Working /\ EndSub(p)
        /\ UNCHANGED <<record, verification, hold, queued, cut, asset>>
    BY <1>6 DEF Poll, SubAt, uploadVars, Working
  <2> QED
    BY <1>3, <1>6, <2>1 DEF Poll, Answer
<1>7. CASE Claim(p) /\ UNCHANGED record
  <2>0. sub[p].at = "claim" /\ sub[p].at \notin Working /\ sub[p].key \in Keys /\ sub[p].res = NoResource
        /\ UNCHANGED <<record, verification, hold, queued, cut, asset, answers>>
    BY <1>1, <1>7 DEF Claim, SubAt, uploadVars, Working, SubHolds
  <2>1. To(p, "existing")
    <3>1. ASSUME Unclaimed(sub[p].key), Unused # {} PROVE record' # record
      <4>1. NewResource \in Resources
        BY <3>1 DEF NewResource, Unused
      <4>2. record[sub[p].key] = NoRecord /\ NewResource # NoResource
        BY <3>1, <4>1, UploadsAssumption DEF Unclaimed
      <4>3. record'[sub[p].key].res = NewResource
        BY <1>1, <1>7, <2>0, <3>1 DEF Claim, SubmitTypes
      <4> QED
        BY <4>2, <4>3 DEF NoRecord
    <3> QED
      BY <1>7, <3>1 DEF Claim
  <2> DEFINE n == [sub[p] EXCEPT !.at = "existing"]
  <2>2. n \in SubRecords /\ n.at = "existing" /\ n.key = sub[p].key /\ n.res = NoResource
    BY <1>2, <2>0 DEF SubRecords
  <2>3. sub' = [sub EXCEPT ![p] = n]
    BY <1>2, <2>1 DEF To
  <2> HIDE DEF n
  <2>4. sub'[p] = n /\ n.at \notin Working
    BY <1>2, <2>2, <2>3 DEF Working
  <2>5. SubHolds(p)'
    BY <2>0, <2>2, <2>4 DEF SubHolds, Working
  <2> QED
    BY <2>0, <2>2, <2>3, <2>4, <2>5, OtherStep
<1>8. CASE CutOff(p) /\ sub[p].at \notin Working
  <2>1. sub[p].at \in {"claim", "existing", "find"}
    BY <1>2, <1>8 DEF CutOff, SubAt, SubRecords, Working
  <2>2. EndSub(p) /\ UNCHANGED <<record, verification, hold, queued, cut, asset, answers>>
    BY <1>8, <2>1 DEF CutOff
  <2> QED
    BY <1>3, <1>8, <2>2
<1> QED
  BY <1>4, <1>5, <1>6, <1>7, <1>8

\* The claim of a key: no record, no verification and no submission has the new id.
LEMMA ClaimSteps ==
  ASSUME SubmitInv, NEW p \in Submitters, Claim(p)
  PROVE  SubmitInv'
<1>1. /\ SubmitTypes /\ OneHandler /\ RecordsHold
      /\ (\A q \in Submitters : SubHolds(q)) /\ (\A s \in Resources : VerificationHolds(s))
  BY DEF SubmitInv
<1>2. /\ sub \in [Submitters -> SubRecords] /\ sub[p] \in SubRecords
      /\ record \in [Keys -> IdempotencyRecords]
      /\ answers \subseteq [key : Keys, payload : Payloads, res : Resources]
  BY <1>1 DEF SubmitTypes, IdempotencyRecords
<1>3. CASE UNCHANGED record
  BY <1>3, WaitingSteps
<1>4. CASE record' # record
  <2>1. PICK k, r : k = sub[p].key /\ r = NewResource
    OBVIOUS
  <2>2. /\ sub[p].at = "claim" /\ k \in Keys /\ sub[p].payload \in Payloads /\ record[k] = NoRecord
        /\ Unused # {}
    BY <1>1, <1>2, <1>4, <2>1 DEF Claim, SubAt, SubHolds, SubRecords, Unclaimed
  <2>3. /\ record' = [record EXCEPT ![k] = [payload |-> sub[p].payload, res |-> r]]
        /\ sub' = [sub EXCEPT ![p].at = "reserve", ![p].res = r]
        /\ UNCHANGED <<verification, hold, queued, cut, asset, answers>>
    BY <1>4, <2>1 DEF Claim, uploadVars
  <2>4. /\ r \in Resources /\ verification[r].status = "ABSENT" /\ hold[r] = "none" /\ r \notin cut
        /\ \A q \in Submitters : sub[q].res # r
        /\ \A l \in Keys : record[l].res # r
    BY <2>1, <2>2 DEF NewResource, Unused
  <2> DEFINE n == [sub[p] EXCEPT !.at = "reserve", !.res = r]
  <2>5. n \in SubRecords /\ n.at = "reserve" /\ n.key = k /\ n.res = r /\ n.payload = sub[p].payload
    BY <1>2, <2>1, <2>4 DEF SubRecords, Working
  <2>6. sub' = [sub EXCEPT ![p] = n]
    BY <1>2, <2>3
  <2> HIDE DEF n
  <2>7. /\ sub'[p] = n /\ \A q \in Submitters : q # p => sub'[q] = sub[q]
        /\ record'[k] = [payload |-> sub[p].payload, res |-> r]
        /\ \A l \in Keys : l # k => record'[l] = record[l]
    BY <1>2, <2>2, <2>3, <2>6
  <2>8. \A s : Works(p, s)' <=> s = r
    BY <2>5, <2>7 DEF Works, Working
  <2>9. \A q \in Submitters : /\ ~Works(q, r)
                              /\ q # p => \A s : Works(q, s)' <=> Works(q, s)
    BY <2>4, <2>7 DEF Works
  <2>10. \A s : ~Works(p, s)
    BY <2>2 DEF Works, Working
  <2>11. \A s : s # r => (Worked(s)' <=> Worked(s))
    BY <2>8, <2>9, <2>10 DEF Worked
  <2>12. ~Worked(r)
    BY <2>9 DEF Worked
  <2>13. r \notin queued
    BY <1>1, <2>4, <2>12 DEF VerificationHolds
  <2>14. \A l \in Keys : record[l].res # NoResource => l # k
    BY <2>2 DEF NoRecord
  <2>15. SubmitTypes'
    <3>1. record' \in [Keys -> IdempotencyRecords]
      BY <1>2, <2>2, <2>3, <2>4 DEF IdempotencyRecords
    <3>2. sub' \in [Submitters -> SubRecords]
      BY <1>2, <2>5, <2>6
    <3> QED
      BY <1>1, <2>3, <3>1, <3>2 DEF SubmitTypes, IdempotencyRecords
  <2>16. OneHandler'
    BY <1>1, <2>8, <2>9 DEF OneHandler
  <2>17. RecordsHold'
    <3>1. ASSUME NEW x \in answers
          PROVE  record'[x.key] = [payload |-> x.payload, res |-> x.res] /\ verification[x.res].status # "ABSENT"
      <4>1. x.key \in Keys /\ x.res \in Resources /\ record[x.key] = [payload |-> x.payload, res |-> x.res]
            /\ verification[x.res].status # "ABSENT"
        BY <1>1, <1>2 DEF RecordsHold
      <4>2. x.key # k
        BY <2>14, <4>1, UploadsAssumption
      <4> QED
        BY <2>7, <4>1, <4>2
    <3>2. \A l \in Keys : record'[l].res = NoResource => record'[l] = NoRecord
      BY <1>1, <2>4, <2>7, UploadsAssumption DEF RecordsHold
    <3>3. \A l, m \in Keys : record'[l].res # NoResource /\ record'[l].res = record'[m].res => l = m
      BY <1>1, <2>4, <2>7 DEF RecordsHold
    <3>4. \A l \in Keys : record'[l].res # NoResource /\ verification[record'[l].res].status # "ABSENT"
                            => verification[record'[l].res].payload = record'[l].payload
      BY <1>1, <2>4, <2>7 DEF RecordsHold
    <3> QED
      BY <2>3, <3>1, <3>2, <3>3, <3>4 DEF RecordsHold
  <2>18. SubHolds(p)'
    <3>1. Stage(r, "reserve")'
      BY <2>3, <2>4, <2>13 DEF Stage
    <3>2. verification'[r].status = "ABSENT" /\ r \notin cut'
      BY <2>3, <2>4
    <3> QED
      BY <2>2, <2>4, <2>5, <2>7, <3>1, <3>2 DEF SubHolds, Working
  <2>19. ASSUME NEW q \in Submitters, q # p PROVE SubHolds(q)'
    <3>0. SubHolds(q) /\ sub'[q] = sub[q] /\ sub[q].res # r
      BY <1>1, <2>4, <2>7, <2>19
    <3>1. sub[q].at # "idle" => sub[q].key \in Keys
      BY <3>0 DEF SubHolds
    <3>2. ASSUME sub[q].at # "idle", sub[q].res \in Resources,
                 record[sub[q].key] = [payload |-> sub[q].payload, res |-> sub[q].res]
          PROVE  record'[sub[q].key] = record[sub[q].key]
      BY <2>7, <2>14, <3>1, <3>2, UploadsAssumption
    <3>3. CASE sub[q].at \in Working
      <4>1. sub[q].at # "idle" /\ sub[q].at # "find"
        BY <3>3 DEF Working
      <4>0. PICK t : t = sub[q]
        OBVIOUS
      <4>4. /\ t.res \in Resources /\ t.res \notin cut /\ Stage(t.res, t.at)
            /\ verification[t.res].status # "ABSENT" => verification[t.res].payload = t.payload
            /\ t.at \in {"event", "enqueue"} /\ t.payload # Text => asset[t.payload].attached = t.res
        BY <3>0, <3>3, <4>0 DEF SubHolds
      <4>2. Stage(t.res, t.at)'
        BY <2>3, <4>4 DEF Stage
      <4>3. record'[sub[q].key] = [payload |-> sub[q].payload, res |-> sub[q].res]
        BY <3>0, <3>2, <3>3, <4>1 DEF SubHolds
      <4> QED
        <5>1. /\ sub'[q] = t /\ t.key \in Keys /\ t.at \notin {"idle", "claim", "existing", "find"}
              /\ record'[t.key] = [payload |-> t.payload, res |-> t.res]
              /\ verification' = verification /\ cut' = cut /\ asset' = asset
          BY <2>3, <3>0, <3>1, <3>3, <4>0, <4>1, <4>3 DEF Working
        <5> QED
          BY <4>2, <4>4, <5>1 DEF SubHolds
    <3>4. CASE sub[q].at = "find"
      BY <2>3, <2>11, <3>0, <3>2, <3>4 DEF SubHolds, Working
    <3>5. CASE sub[q].at \notin Working \cup {"find"}
      BY <3>0, <3>5 DEF SubHolds
    <3> QED
      BY <3>3, <3>4, <3>5
  <2>20. ASSUME NEW s \in Resources PROVE VerificationHolds(s)'
    <3>1. CASE s = r
      <4>1. Worked(r)'
        BY <2>8 DEF Worked
      <4> QED
        BY <2>3, <2>13, <3>1, <4>1 DEF VerificationHolds
    <3>2. CASE s # r
      BY <1>1, <2>3, <2>11, <3>2 DEF VerificationHolds
    <3> QED
      BY <3>1, <3>2
  <2> QED
    BY <2>15, <2>16, <2>17, <2>18, <2>19, <2>20 DEF SubmitInv
<1> QED
  BY <1>3, <1>4

\* The key is given back: the verification never was, and whoever waits for it waits in vain.
LEMMA UnclaimSteps ==
  ASSUME SubmitInv, NEW p \in Submitters, Unclaim(p)
  PROVE  SubmitInv'
<1>1. /\ SubmitTypes /\ OneHandler /\ RecordsHold
      /\ (\A q \in Submitters : SubHolds(q)) /\ (\A s \in Resources : VerificationHolds(s))
  BY DEF SubmitInv
<1>2. /\ sub \in [Submitters -> SubRecords] /\ sub[p] \in SubRecords
      /\ record \in [Keys -> IdempotencyRecords]
      /\ answers \subseteq [key : Keys, payload : Payloads, res : Resources]
  BY <1>1 DEF SubmitTypes, IdempotencyRecords
<1>3. PICK k, r : k = sub[p].key /\ r = sub[p].res
  OBVIOUS
<1>4. /\ sub[p].at = "unclaim" /\ sub[p].at \in Working /\ k \in Keys /\ r \in Resources /\ r \notin cut
      /\ record[k] = [payload |-> sub[p].payload, res |-> r] /\ Works(p, r)
      /\ r \notin queued /\ hold[r] # "reserved" /\ verification[r].status = "ABSENT"
  <2>1. SubHolds(p) /\ sub[p].at = "unclaim" /\ sub[p].at \in Working
    BY <1>1 DEF Unclaim, SubAt, Working
  <2> QED
    BY <1>3, <2>1 DEF SubHolds, Stage, Works
<1>5. /\ record' = [record EXCEPT ![k] = NoRecord] /\ sub' = [sub EXCEPT ![p] = NoSub]
      /\ verification' = verification /\ hold' = hold /\ queued' = queued /\ cut' = cut /\ asset' = asset
      /\ answers' = answers
  BY <1>3 DEF Unclaim, EndSub, uploadVars
<1>6. /\ sub'[p] = NoSub /\ \A q \in Submitters : q # p => sub'[q] = sub[q]
      /\ record'[k] = NoRecord /\ \A l \in Keys : l # k => record'[l] = record[l]
  BY <1>2, <1>4, <1>5
<1>7. /\ \A s \in Resources : ~Works(p, s)'
      /\ \A q \in Submitters : q # p => ~Works(q, r) /\ \A s : Works(q, s)' <=> Works(q, s)
  BY <1>1, <1>4, <1>6, NoSubFacts DEF OneHandler, Works
<1>8. ~Worked(r)'
  BY <1>4, <1>7 DEF Worked
<1>9. \A s \in Resources : s # r => (Worked(s)' <=> Worked(s))
  <2>1. \A s \in Resources : s # r => ~Works(p, s)
    BY <1>4 DEF Works
  <2> QED
    BY <1>7, <2>1 DEF Worked
<1>10. SubmitTypes'
  <2>1. record' \in [Keys -> IdempotencyRecords] /\ sub' \in [Submitters -> SubRecords]
    <3>1. NoRecord \in IdempotencyRecords
      BY DEF NoRecord, IdempotencyRecords, Payloads
    <3> QED
      BY <1>2, <1>4, <1>5, <3>1, NoSubFacts
  <2> QED
    BY <1>1, <1>5, <2>1 DEF SubmitTypes, IdempotencyRecords
<1>11. OneHandler'
  BY <1>1, <1>7 DEF OneHandler
<1>12. RecordsHold'
  <2>1. ASSUME NEW x \in answers
        PROVE  record'[x.key] = [payload |-> x.payload, res |-> x.res] /\ verification[x.res].status # "ABSENT"
    <3>1. x.key \in Keys /\ record[x.key] = [payload |-> x.payload, res |-> x.res]
          /\ verification[x.res].status # "ABSENT"
      BY <1>1, <1>2 DEF RecordsHold
    <3>2. x.key # k
      BY <1>4, <3>1
    <3> QED
      BY <1>6, <3>1, <3>2
  <2>2. NoRecord.res = NoResource
    BY DEF NoRecord
  <2> QED
    BY <1>1, <1>5, <1>6, <2>1, <2>2 DEF RecordsHold
<1>13. SubHolds(p)'
  BY <1>6, NoSubFacts DEF SubHolds
<1>14. ASSUME NEW q \in Submitters, q # p PROVE SubHolds(q)'
  <2>0. PICK t : t = sub[q]
    OBVIOUS
  <2>1. SubHolds(q) /\ sub'[q] = t /\ t \in SubRecords /\ sub[q] = t
    BY <1>1, <1>2, <1>6, <1>14, <2>0
  <2>2. CASE t.at \in Working
    <3>1. t.at # "idle" /\ t.at \notin {"claim", "existing", "find"}
      BY <2>2 DEF Working
    <3>2. /\ t.key \in Keys /\ t.res \in Resources /\ t.res \notin cut /\ Stage(t.res, t.at)
          /\ record[t.key] = [payload |-> t.payload, res |-> t.res]
          /\ verification[t.res].status # "ABSENT" => verification[t.res].payload = t.payload
          /\ t.at \in {"event", "enqueue"} /\ t.payload # Text => asset[t.payload].attached = t.res
      BY <2>1, <2>2, <3>1 DEF SubHolds
    <3>3. t.res # r
      BY <1>7, <1>14, <2>1, <2>2 DEF Works
    <3>4. record'[t.key] = record[t.key]
      BY <1>4, <1>6, <3>2, <3>3
    <3>5. Stage(t.res, t.at)'
      BY <1>5, <3>2 DEF Stage
    <3> QED
      BY <1>5, <2>1, <3>1, <3>2, <3>4, <3>5 DEF SubHolds
  <2>3. CASE t.at = "find"
    <3>1. t.key \in Keys /\ t.res \in Resources
      BY <2>1, <2>3 DEF SubHolds
    <3>2. \/ record'[t.key] = [payload |-> t.payload, res |-> t.res]
          \/ verification[t.res].status = "ABSENT" /\ ~Worked(t.res)'
      <4>1. CASE t.res = r
        BY <1>4, <1>8, <4>1
      <4>2. CASE t.res # r
        BY <1>4, <1>6, <1>9, <2>1, <2>3, <3>1, <4>2 DEF SubHolds
      <4> QED
        BY <4>1, <4>2
    <3>3. t.at \notin Working
      BY <2>3 DEF Working
    <3> QED
      BY <1>5, <2>1, <2>3, <3>1, <3>2, <3>3 DEF SubHolds
  <2>4. CASE t.at \notin Working \cup {"find"}
    BY <2>1, <2>4 DEF SubHolds
  <2> QED
    BY <2>2, <2>3, <2>4
<1>15. ASSUME NEW s \in Resources PROVE VerificationHolds(s)'
  <2>1. CASE s = r
    BY <1>4, <1>5, <2>1 DEF VerificationHolds
  <2>2. CASE s # r
    BY <1>1, <1>5, <1>9, <2>2 DEF VerificationHolds
  <2> QED
    BY <2>1, <2>2
<1> QED
  BY <1>10, <1>11, <1>12, <1>13, <1>14, <1>15 DEF SubmitInv

\* The record of a key that nobody uses goes, and what was answered with it.
LEMMA ExpireSteps ==
  ASSUME SubmitInv, NEW k \in Keys, ExpireRecord(k)
  PROVE  SubmitInv'
<1>1. /\ SubmitTypes /\ OneHandler /\ RecordsHold
      /\ (\A q \in Submitters : SubHolds(q)) /\ (\A s \in Resources : VerificationHolds(s))
  BY DEF SubmitInv
<1>2. /\ record' = [record EXCEPT ![k] = NoRecord] /\ answers' = {x \in answers : x.key # k}
      /\ sub' = sub /\ verification' = verification /\ hold' = hold /\ queued' = queued /\ cut' = cut
      /\ asset' = asset /\ \A q \in Submitters : sub[q].key # k
  BY DEF ExpireRecord, uploadVars
<1>3. record \in [Keys -> IdempotencyRecords] /\ NoRecord \in IdempotencyRecords /\ NoRecord.res = NoResource
  BY <1>1 DEF SubmitTypes, NoRecord, IdempotencyRecords, Payloads
<1>4. record'[k] = NoRecord /\ \A l \in Keys : l # k => record'[l] = record[l]
  BY <1>2, <1>3
<1>5. \A q \in Submitters : \A s : Works(q, s)' <=> Works(q, s)
  BY <1>2 DEF Works
<1>6. \A s : Worked(s)' <=> Worked(s)
  BY <1>5 DEF Worked
<1>7. SubmitTypes'
  BY <1>1, <1>2, <1>3 DEF SubmitTypes, IdempotencyRecords
<1>8. OneHandler'
  BY <1>1, <1>5 DEF OneHandler
<1>9. RecordsHold'
  <2>1. answers \subseteq [key : Keys, payload : Payloads, res : Resources]
    BY <1>1 DEF SubmitTypes
  <2>2. ASSUME NEW x \in answers'
        PROVE  record'[x.key] = [payload |-> x.payload, res |-> x.res] /\ verification[x.res].status # "ABSENT"
    BY <1>1, <1>2, <1>4, <2>1 DEF RecordsHold
  <2> QED
    BY <1>1, <1>2, <1>3, <1>4, <2>2 DEF RecordsHold
<1>10. ASSUME NEW q \in Submitters PROVE SubHolds(q)'
  <2>0. PICK t : t = sub[q]
    OBVIOUS
  <2>1. SubHolds(q) /\ sub'[q] = t /\ sub[q] = t /\ (t.at # "idle" => t.key \in Keys /\ record'[t.key] = record[t.key])
    BY <1>1, <1>2, <1>4, <2>0 DEF SubHolds
  <2>2. \A r, at : Stage(r, at)' <=> Stage(r, at)
    BY <1>2 DEF Stage
  <2>3. t.at \in Working => t.at # "idle"
    BY DEF Working
  <2> QED
    BY <1>2, <1>6, <2>1, <2>2, <2>3 DEF SubHolds
<1>11. ASSUME NEW s \in Resources PROVE VerificationHolds(s)'
  BY <1>1, <1>2, <1>6 DEF VerificationHolds
<1> QED
  BY <1>7, <1>8, <1>9, <1>10, <1>11 DEF SubmitInv

\* The uploads leave submissions alone and keep what is attached.
LEMMA UploadsSpare ==
  ASSUME SubmitInv, AttachmentsStay, UNCHANGED submitVars
  PROVE  SubmitInv'
<1>1. /\ SubmitTypes /\ OneHandler /\ RecordsHold
      /\ (\A q \in Submitters : SubHolds(q)) /\ (\A s \in Resources : VerificationHolds(s))
  BY DEF SubmitInv
<1>2. /\ sub' = sub /\ record' = record /\ verification' = verification /\ hold' = hold /\ queued' = queued
      /\ cut' = cut /\ answers' = answers
  BY DEF submitVars
<1>3. \A q \in Submitters : \A s : Works(q, s)' <=> Works(q, s)
  BY <1>2 DEF Works
<1>4. \A s : Worked(s)' <=> Worked(s)
  BY <1>3 DEF Worked
<1>5. SubmitTypes' /\ OneHandler' /\ RecordsHold'
  BY <1>1, <1>2, <1>3 DEF SubmitTypes, OneHandler, RecordsHold
<1>6. ASSUME NEW q \in Submitters PROVE SubHolds(q)'
  <2>0. PICK t : t = sub[q]
    OBVIOUS
  <2>1. SubHolds(q) /\ sub'[q] = t /\ sub[q] = t /\ (t.payload # Text => t.payload \in Assets)
    BY <1>1, <1>2, <2>0, PayloadsAre DEF SubmitTypes, SubRecords
  <2>2. \A r, at : Stage(r, at)' <=> Stage(r, at)
    BY <1>2 DEF Stage
  <2>3. t.at \in Working /\ t.at \in {"event", "enqueue"} /\ t.payload # Text => asset'[t.payload].attached = t.res
    BY <2>1 DEF SubHolds, AttachmentsStay
  <2> QED
    BY <1>2, <1>4, <2>1, <2>2, <2>3 DEF SubHolds
<1>7. ASSUME NEW s \in Resources PROVE VerificationHolds(s)'
  <2>1. verification[s].payload # Text => verification[s].payload \in Assets
    BY <1>1, PayloadsAre DEF SubmitTypes
  <2> QED
    BY <1>1, <1>2, <1>4, <2>1 DEF VerificationHolds, AttachmentsStay
<1> QED
  BY <1>5, <1>6, <1>7 DEF SubmitInv

LEMMA StatusOnly ==
  ASSUME asset \in [Assets -> AssetRecords], NEW a, NEW x, asset' = [asset EXCEPT ![a].status = x],
         NEW b \in Assets
  PROVE  asset'[b].attached = asset[b].attached
<1>1. CASE b = a
  BY <1>1 DEF AssetRecords
<1>2. CASE b # a
  BY <1>2
<1> QED
  BY <1>1, <1>2

\* An asset that is attached to a verification is not touched any more.
LEMMA UploadsKeepAttachments ==
  ASSUME UploadInv, UploadNext
  PROVE  AttachmentsStay
<1> SUFFICES ASSUME NEW b \in Assets, asset[b].attached \in Resources
             PROVE  asset'[b].attached = asset[b].attached
  BY DEF AttachmentsStay
<1>1. /\ asset \in [Assets -> AssetRecords] /\ asset[b].status = "ATTACHED"
      /\ asset[b] \in AssetRecords
      /\ \A p \in Calls : ~CallAt(p, "idle") => CallOn(p) \in Assets
  BY UploadShapes, UploadsAssumption DEF UploadInv, Status
<1>2. ASSUME NEW a \in Assets, ClientUpload(a) \/ AttachAvatar(a) \/ \E t \in Types : CreateSignature(a, t)
      PROVE  asset'[b].attached = asset[b].attached
  <2>1. CASE ClientUpload(a)
    BY <2>1 DEF ClientUpload
  <2>2. CASE AttachAvatar(a)
    BY <1>1, <2>2 DEF AttachAvatar, Status
  <2>3. CASE \E t \in Types : CreateSignature(a, t)
    BY <1>1, <2>3 DEF CreateSignature, Status
  <2> QED
    BY <1>2, <2>1, <2>2, <2>3
<1>3. ASSUME NEW p \in Calls, UploadCall(p)
      PROVE  asset'[b].attached = asset[b].attached
  <2>1. CASE asset' = asset
    BY <2>1
  <2>2. ASSUME NEW a \in Assets, DeleteMark(p, a) PROVE asset'[b].attached = asset[b].attached
    BY <1>1, <2>2 DEF DeleteMark, AssetRecords
  <2>3. CASE ConfirmSave(p)
    BY <1>1, <2>3 DEF ConfirmSave, StillPending, Status, AssetRecords
  <2>4. CASE DeleteSave(p) \/ CleanupSave(p)
    <3>1. asset' = asset \/ asset' = [asset EXCEPT ![CallOn(p)].status = "DELETED"]
      BY <2>4 DEF DeleteSave, CleanupSave, SetDeleted
    <3> QED
      BY <1>1, <3>1, StatusOnly
  <2>5. CASE DeleteFallback(p)
    <3>1. asset' = asset \/ asset' = [asset EXCEPT ![CallOn(p)].status = call[p].fallback]
      BY <2>5 DEF DeleteFallback
    <3> QED
      BY <1>1, <3>1, StatusOnly
  <2>6. CASE CleanupPutOff(p)
    BY <1>1, <2>6 DEF CleanupPutOff, AssetRecords
  <2> QED
    BY <1>3, <2>1, <2>2, <2>3, <2>4, <2>5, <2>6
       DEF UploadCall, ConfirmFind, CleanupFind, ConfirmProvider, DeleteProvider, CleanupProvider, CallCrashes
<1>4. CASE Tick
  BY <1>4 DEF Tick
<1> QED
  BY <1>2, <1>3, <1>4 DEF UploadNext

\* What a submission that works on a verification knows.
LEMMA OwnFacts ==
  ASSUME SubmitInv, NEW p \in Submitters, sub[p].at \in Working
  PROVE  /\ sub[p] \in SubRecords /\ sub[p].res \in Resources /\ sub[p].res \notin cut
         /\ Stage(sub[p].res, sub[p].at)
         /\ verification[sub[p].res] \in Verifications /\ hold[sub[p].res] \in {"none", "reserved", "released"}
         /\ verification[sub[p].res].status # "ABSENT" => verification[sub[p].res].payload = sub[p].payload
         /\ sub[p].at \in {"event", "enqueue"} /\ sub[p].payload # Text => asset[sub[p].payload].attached = sub[p].res
         /\ sub \in [Submitters -> SubRecords] /\ verification \in [Resources -> Verifications]
         /\ hold \in [Resources -> {"none", "reserved", "released"}]
<1>1. SubmitTypes /\ SubHolds(p)
  BY DEF SubmitInv
<1>2. sub[p].at # "idle"
  BY DEF Working
<1> QED
  BY <1>1, <1>2 DEF SubmitTypes, SubHolds, Verifications

\* A submission goes on to the next step of its handler.
LEMMA GoesOn ==
  ASSUME SubmitInv, NEW p \in Submitters, sub[p].at \in Working, NEW at \in Working, To(p, at),
         UNCHANGED <<record, queued, answers, cut>>, AttachmentsStay,
         NEW v \in Verifications, verification' = [verification EXCEPT ![sub[p].res] = v],
         verification[sub[p].res].status # "ABSENT" => v.status # "ABSENT",
         v.status # "ABSENT" => v.payload = sub[p].payload,
         NEW h \in {"none", "reserved", "released"}, hold' = [hold EXCEPT ![sub[p].res] = h],
         at = "reserve" => h = "none" /\ v.status = "ABSENT",
         at \in {"create", "release.snapshot"} => h = "reserved" /\ v.status = "ABSENT",
         at = "unclaim" => h # "reserved" /\ v.status = "ABSENT",
         at \in {"attach", "event", "enqueue", "fail.release"} => h = "reserved" /\ v.status = "PENDING",
         at = "fail.save" => h = "released" /\ v.status = "PENDING",
         at \in {"event", "enqueue"} /\ sub[p].payload # Text => asset'[sub[p].payload].attached = sub[p].res
  PROVE  SubmitInv'
<1>0. PICK r, n : r = sub[p].res /\ n = [sub[p] EXCEPT !.at = at]
  OBVIOUS
<1>1. /\ sub[p] \in SubRecords /\ r \in Resources /\ r \notin cut /\ Stage(r, sub[p].at)
      /\ sub \in [Submitters -> SubRecords] /\ verification \in [Resources -> Verifications]
      /\ hold \in [Resources -> {"none", "reserved", "released"}]
  BY <1>0, OwnFacts
<1>2. n \in SubRecords /\ n.at = at /\ n.key = sub[p].key /\ n.payload = sub[p].payload /\ n.res = r
  BY <1>0, <1>1 DEF SubRecords
<1>3. sub' = [sub EXCEPT ![p] = n]
  BY <1>0, <1>1 DEF To
<1>4. verification'[r] = v /\ hold'[r] = h /\ r \notin queued'
  BY <1>0, <1>1 DEF Stage
<1>5. Stage(r, n.at)'
  BY <1>2, <1>4 DEF Stage
<1>6. /\ verification' = [verification EXCEPT ![r] = v] /\ hold' = [hold EXCEPT ![r] = h]
      /\ verification[r].status # "ABSENT" => v.status # "ABSENT"
      /\ n.at \in {"event", "enqueue"} /\ n.payload # Text => asset'[n.payload].attached = r
      /\ r \notin cut' /\ record' = record /\ queued' = queued /\ answers' = answers /\ cut' = cut
  BY <1>0, <1>1, <1>2
<1>7. r = sub[p].res /\ n.at \in Working
  BY <1>0, <1>2
<1> QED
  <2>1. OwnMove(p, r, n, v, h)
    BY <1>2, <1>3, <1>5, <1>6, <1>7 DEF OwnMove
  <2> QED
    BY <1>2, <2>1, OwnStep

\* A submission that worked on a verification ends.
LEMMA Ends ==
  ASSUME SubmitInv, NEW p \in Submitters, sub[p].at \in Working, EndSub(p),
         UNCHANGED <<record, hold>>, AttachmentsStay,
         NEW v \in Verifications, verification' = [verification EXCEPT ![sub[p].res] = v],
         verification[sub[p].res].status # "ABSENT" => v.status # "ABSENT",
         v.status # "ABSENT" => v.payload = sub[p].payload,
         \/ /\ queued' = queued \cup {sub[p].res} /\ v.status = "PENDING" /\ hold[sub[p].res] = "reserved"
            /\ v.payload # Text => asset'[v.payload].attached = sub[p].res
            /\ Answer(p, sub[p].res) /\ UNCHANGED cut
         \/ /\ UNCHANGED <<queued, answers>>
            /\ \/ cut' = cut \cup {sub[p].res}
               \/ UNCHANGED cut /\ v.status \in {"ABSENT", "FAILED"} /\ hold[sub[p].res] # "reserved"
  PROVE  SubmitInv'
<1>0. PICK r : r = sub[p].res
  OBVIOUS
<1>1. /\ sub[p] \in SubRecords /\ r \in Resources /\ r \notin cut /\ r \notin queued
      /\ sub \in [Submitters -> SubRecords] /\ hold \in [Resources -> {"none", "reserved", "released"}]
      /\ hold[r] \in {"none", "reserved", "released"}
  BY <1>0, OwnFacts DEF Stage
<1>2. sub' = [sub EXCEPT ![p] = NoSub] /\ hold' = [hold EXCEPT ![r] = hold[r]]
  BY <1>1 DEF EndSub
<1>3. /\ r \notin cut' => /\ hold[r] = "reserved" <=> r \in queued'
                          /\ r \in queued' => v.status = "PENDING"
                          /\ r \notin queued' => v.status \in {"ABSENT", "FAILED"}
      /\ r \in queued' /\ v.payload # Text => asset'[v.payload].attached = r
  BY <1>0, <1>1
<1>4. \/ answers' = answers
      \/ /\ answers' = answers \cup {[key |-> sub[p].key, payload |-> sub[p].payload, res |-> r]}
         /\ v.status # "ABSENT"
  BY <1>0 DEF Answer
<1>5. (queued' = queued \/ queued' = queued \cup {r}) /\ (cut' = cut \/ cut' = cut \cup {r})
  BY <1>0
<1>6. /\ verification' = [verification EXCEPT ![r] = v] /\ r = sub[p].res /\ record' = record
      /\ verification[r].status # "ABSENT" => v.status # "ABSENT"
  BY <1>0
<1>7. PICK n : n = NoSub
  OBVIOUS
<1>8. n \in SubRecords /\ n.at \notin Working /\ n.at = "idle" /\ n.res = NoResource /\ sub' = [sub EXCEPT ![p] = n]
  BY <1>2, <1>7, NoSubFacts
<1>9. PICK h \in {"none", "reserved", "released"} : h = hold[r]
  BY <1>1
<1> QED
  <2>1. OwnMove(p, r, n, v, h)
    BY <1>2, <1>3, <1>4, <1>5, <1>6, <1>8, <1>9 DEF OwnMove
  <2> QED
    BY <1>8, <1>9, <2>1, OwnStep

\* The steps of the first submission of a key.
LEMMA HandlerSteps ==
  ASSUME SubmitInv, NEW p \in Submitters, AttachmentsStay,
         \/ Reserve(p) \/ CreateVerification(p) \/ ReleaseSnapshot(p)
         \/ AppendReceived(p) \/ Enqueue(p) \/ FailRelease(p) \/ FailSave(p)
         \/ CutOff(p) /\ sub[p].at \in Working
  PROVE  SubmitInv'
<1>0. sub[p].at \in Working
  BY DEF Reserve, CreateVerification, ReleaseSnapshot, AppendReceived, Enqueue, FailRelease, FailSave, SubAt, Working
<1>1. PICK r, v, h : r = sub[p].res /\ v = verification[r] /\ h = hold[r]
  OBVIOUS
<1>2. /\ sub[p] \in SubRecords /\ r \in Resources /\ r \notin cut /\ Stage(r, sub[p].at)
      /\ v \in Verifications /\ h \in {"none", "reserved", "released"}
      /\ v.status # "ABSENT" => v.payload = sub[p].payload
      /\ sub[p].at \in {"event", "enqueue"} /\ sub[p].payload # Text => asset[sub[p].payload].attached = r
      /\ verification = [verification EXCEPT ![r] = v] /\ hold = [hold EXCEPT ![r] = h]
      /\ verification \in [Resources -> Verifications]
  BY <1>0, <1>1, OwnFacts
<1>3. CASE Reserve(p)
  <2>1. /\ sub[p].at = "reserve" /\ UNCHANGED <<record, verification, queued, answers, cut>>
        /\ h = "none" /\ v.status = "ABSENT"
    BY <1>1, <1>2, <1>3 DEF Reserve, SubAt, Stage
  <2>2. CASE hold' = [hold EXCEPT ![r] = "reserved"] /\ To(p, "create")
    BY <1>0, <1>1, <1>2, <2>1, <2>2, GoesOn DEF Working
  <2>3. CASE UNCHANGED hold /\ To(p, "unclaim")
    BY <1>0, <1>1, <1>2, <2>1, <2>3, GoesOn DEF Working
  <2> QED
    BY <1>1, <1>3, <2>2, <2>3 DEF Reserve
<1>4. CASE CreateVerification(p)
  <2>1. /\ sub[p].at = "create" /\ UNCHANGED <<record, hold, queued, answers, cut>>
        /\ h = "reserved" /\ v.status = "ABSENT"
    BY <1>1, <1>2, <1>4 DEF CreateVerification, SubAt, Stage
  <2>2. ASSUME NEW w, w = [status |-> "PENDING", payload |-> sub[p].payload],
               verification' = [verification EXCEPT ![r] = w], To(p, "attach")
        PROVE  SubmitInv'
    <3>1. w \in Verifications /\ w.status = "PENDING" /\ w.payload = sub[p].payload
      BY <1>2, <2>2 DEF Verifications, SubRecords
    <3>2. hold' = [hold EXCEPT ![sub[p].res] = h] /\ verification' = [verification EXCEPT ![sub[p].res] = w]
          /\ UNCHANGED <<record, queued, answers, cut>> /\ "attach" \in Working
          /\ h = "reserved" /\ h \in {"none", "reserved", "released"} /\ To(p, "attach")
      BY <1>1, <1>2, <2>1, <2>2 DEF Working
    <3>3. PICK at : at = "attach"
      OBVIOUS
    <3>4. at \in Working /\ To(p, at)
      BY <3>2, <3>3
    <3> QED
      BY <1>0, <3>1, <3>2, <3>3, <3>4, GoesOn
  <2>3. CASE UNCHANGED verification /\ To(p, "release.snapshot")
    BY <1>0, <1>1, <1>2, <2>1, <2>3, GoesOn DEF Working
  <2> QED
    BY <1>1, <1>4, <2>2, <2>3 DEF CreateVerification, AfterCreateFailed
<1>5. CASE ReleaseSnapshot(p)
  <2>1. /\ sub[p].at = "release.snapshot" /\ UNCHANGED <<record, verification, queued, answers, cut>>
        /\ h = "reserved" /\ v.status = "ABSENT" /\ hold' = [hold EXCEPT ![r] = "released"] /\ To(p, "unclaim")
    BY <1>1, <1>2, <1>5 DEF ReleaseSnapshot, SubAt, Stage, GiveBack
  <2> QED
    BY <1>0, <1>1, <1>2, <2>1, GoesOn DEF Working
<1>6. CASE AppendReceived(p)
  <2>1. /\ sub[p].at = "event" /\ UNCHANGED <<record, verification, hold, queued, answers, cut, asset>>
        /\ h = "reserved" /\ v.status = "PENDING"
    BY <1>1, <1>2, <1>6 DEF AppendReceived, SubAt, Stage
  <2>2. PICK at \in {"enqueue", "fail.release"} : To(p, at)
    BY <1>6 DEF AppendReceived
  <2> QED
    BY <1>0, <1>1, <1>2, <2>1, <2>2, GoesOn DEF Working
<1>7. CASE Enqueue(p)
  <2>1. /\ sub[p].at = "enqueue" /\ UNCHANGED <<record, verification, hold, cut, asset>>
        /\ h = "reserved" /\ v.status = "PENDING"
    BY <1>1, <1>2, <1>7 DEF Enqueue, SubAt, Stage
  <2>2. CASE To(p, "fail.release") /\ UNCHANGED <<queued, answers>>
    BY <1>0, <1>1, <1>2, <2>1, <2>2, GoesOn DEF Working
  <2>3. CASE queued' = queued \cup {r} /\ Answer(p, r) /\ EndSub(p)
    <3>1. v.payload # Text => asset'[v.payload].attached = r
      BY <1>2, <2>1
    <3>2. /\ verification' = [verification EXCEPT ![sub[p].res] = v] /\ UNCHANGED <<record, hold, cut>>
          /\ queued' = queued \cup {sub[p].res} /\ Answer(p, sub[p].res) /\ EndSub(p)
          /\ hold[sub[p].res] = "reserved" /\ v.status = "PENDING"
          /\ v.payload # Text => asset'[v.payload].attached = sub[p].res
      BY <1>1, <1>2, <2>1, <2>3, <3>1
    <3> QED
      BY <1>0, <1>2, <3>2, Ends
  <2> QED
    BY <1>1, <1>7, <2>2, <2>3 DEF Enqueue
<1>8. CASE FailRelease(p)
  <2>1. /\ sub[p].at = "fail.release" /\ UNCHANGED <<record, verification, queued, answers, cut>>
        /\ h = "reserved" /\ v.status = "PENDING" /\ hold' = [hold EXCEPT ![r] = "released"] /\ To(p, "fail.save")
    BY <1>1, <1>2, <1>8 DEF FailRelease, SubAt, Stage, GiveBack
  <2> QED
    BY <1>0, <1>1, <1>2, <2>1, GoesOn DEF Working
<1>9. CASE FailSave(p)
  <2>1. /\ sub[p].at = "fail.save" /\ UNCHANGED <<record, hold, queued, answers, cut>> /\ EndSub(p)
        /\ h = "released" /\ v.status = "PENDING" /\ verification' = [verification EXCEPT ![r].status = "FAILED"]
    BY <1>1, <1>2, <1>9 DEF FailSave, SubAt, Stage
  <2>2. PICK w : w = [v EXCEPT !.status = "FAILED"]
    OBVIOUS
  <2>3. w \in Verifications /\ w.status = "FAILED" /\ w.payload = sub[p].payload
    BY <1>2, <2>1, <2>2 DEF Verifications
  <2>4. verification' = [verification EXCEPT ![r] = w]
    BY <1>1, <1>2, <2>1, <2>2
  <2> QED
    BY <1>0, <1>1, <1>2, <2>1, <2>3, <2>4, Ends
<1>10. CASE CutOff(p)
  <2>1. /\ UNCHANGED <<record, verification, hold, queued, answers, asset>> /\ EndSub(p)
        /\ cut' = cut \cup {r}
    BY <1>0, <1>1, <1>10 DEF CutOff, Working
  <2> QED
    BY <1>0, <1>1, <1>2, <2>1, Ends
<1> QED
  BY <1>3, <1>4, <1>5, <1>6, <1>7, <1>8, <1>9, <1>10

\* The uploads are as they were; only failures are counted.
LEMMA UploadsUntouched ==
  ASSUME UploadInv, UNCHANGED <<asset, file, call, now, doomed>>
  PROVE  UploadInv' /\ AttachmentsStay
BY DEF UploadInv, UploadTypes, UploadTypeOK, OneDeletion, CallHolds, AssetHolds, Status, CallAt, CallOn, AttachmentsStay

\* The attachment is a step of the submission and of the asset.
LEMMA AttachSteps ==
  ASSUME UploadInv, SubmitInv, NEW p \in Submitters, Attach(p)
  PROVE  UploadInv' /\ SubmitInv'
<1>0. sub[p].at = "attach" /\ sub[p].at \in Working /\ UNCHANGED <<record, verification, hold, queued, answers, cut>>
      /\ UNCHANGED <<file, call, now, doomed>>
  BY DEF Attach, SubAt, Working
<1>1. PICK r, v, h, a : r = sub[p].res /\ v = verification[r] /\ h = hold[r] /\ a = sub[p].payload
  OBVIOUS
<1>2. /\ sub[p] \in SubRecords /\ r \in Resources
      /\ v \in Verifications /\ h \in {"none", "reserved", "released"}
      /\ v.status # "ABSENT" => v.payload = sub[p].payload
      /\ verification' = [verification EXCEPT ![r] = v] /\ hold' = [hold EXCEPT ![r] = h]
      /\ h = "reserved" /\ v.status = "PENDING"
  BY <1>0, <1>1, OwnFacts DEF Stage
<1>3. ASSUME AttachmentsStay, NEW at \in {"event", "fail.release"}, To(p, at),
             at = "event" /\ a # Text => asset'[a].attached = r
      PROVE  SubmitInv'
  <2>1. /\ verification' = [verification EXCEPT ![sub[p].res] = v] /\ hold' = [hold EXCEPT ![sub[p].res] = h]
        /\ UNCHANGED <<record, queued, answers, cut>> /\ at \in Working
        /\ at \in {"event", "enqueue"} /\ sub[p].payload # Text => asset'[sub[p].payload].attached = sub[p].res
    BY <1>0, <1>1, <1>2, <1>3 DEF Working
  <2> QED
    BY <1>0, <1>2, <1>3, <2>1, GoesOn
<1>4. CASE a = Text /\ To(p, "event") /\ UNCHANGED asset
  <2>1. UploadInv' /\ AttachmentsStay
    BY <1>0, <1>4, UploadsUntouched
  <2> QED
    BY <1>3, <1>4, <2>1
<1>5. CASE To(p, AfterConflict) /\ UNCHANGED asset
  <2>1. UploadInv' /\ AttachmentsStay
    BY <1>0, <1>5, UploadsUntouched
  <2> QED
    BY <1>3, <1>5, <2>1 DEF AfterConflict
<1>6. CASE /\ a \in Assets /\ Attachable(a) /\ To(p, "event")
           /\ asset' = [asset EXCEPT ![a] = AttachedTo(a, r)]
  <2>0. /\ UploadTypes /\ AssetHolds(a) /\ \A q \in Calls : CallHolds(q)
        /\ asset \in [Assets -> AssetRecords] /\ file \in [Assets -> {"none", "stored", "gone"}]
        /\ asset[a] \in AssetRecords /\ file[a] \in {"none", "stored", "gone"}
        /\ asset[a].attached = NoResource /\ Status(a) = "CONFIRMED"
    BY <1>6, UploadShapes DEF UploadInv, Attachable
  <2> DEFINE x == AttachedTo(a, r)
  <2>1. x \in AssetRecords /\ x.status = "ATTACHED" /\ x.attached = r /\ x.verified = asset[a].verified
    BY <1>2, <2>0 DEF AttachedTo, AssetRecords
  <2>2. asset' = [asset EXCEPT ![a] = x] /\ file' = [file EXCEPT ![a] = file[a]]
    BY <1>0, <1>6, <2>0
  <2> HIDE DEF x
  <2>3. asset'[a] = x /\ file'[a] = file[a] /\ \A b \in Assets : b # a => asset'[b] = asset[b]
    BY <1>6, <2>0, <2>2
  <2>4. AssetHolds(a)'
    BY <1>0, <2>0, <2>1, <2>3 DEF AssetHolds, Status
  <2>5. \A q \in Calls : ~CallAt(q, "idle") /\ CallOn(q) = a => CallHolds(q)'
    BY <1>0, <2>0, <2>1, <2>3 DEF CallHolds, CallAt, CallOn, Status
  <2>6. UploadInv'
    BY ZenonT(60), <1>0, <1>2, <1>6, <2>0, <2>1, <2>2, <2>4, <2>5, AssetMoves, UploadsAssumption
  <2>7. AttachmentsStay
    BY <2>0, <2>3, UploadsAssumption DEF AttachmentsStay
  <2>8. SubmitInv'
    BY <1>3, <1>6, <2>1, <2>3, <2>7
  <2> QED
    BY <2>6, <2>8
<1> QED
  BY <1>1, <1>4, <1>5, <1>6 DEF Attach

-----------------------------------------------------------------------------
(* The whole.                                                              *)

LEMMA Starts == Init => IInv
<1> SUFFICES ASSUME Init PROVE SubmitInv
  BY UploadStarts DEF Init, IInv
<1>1. /\ sub = [p \in Submitters |-> NoSub] /\ record = [k \in Keys |-> NoRecord]
      /\ verification = [r \in Resources |-> NoVerification] /\ hold = [r \in Resources |-> "none"]
      /\ queued = {} /\ answers = {} /\ cut = {}
  BY DEF Init
<1>2. Text \in Payloads
  BY DEF Payloads
<1>3. NoRecord \in IdempotencyRecords /\ NoVerification \in Verifications
  BY <1>2 DEF NoRecord, IdempotencyRecords, NoVerification, Verifications
<1>4. SubmitTypes
  BY <1>1, <1>3, NoSubFacts DEF SubmitTypes, IdempotencyRecords, Verifications
<1>5. \A p \in Submitters : sub[p] = NoSub
  BY <1>1
<1>6. OneHandler
  BY <1>5, NoSubFacts DEF OneHandler, Works
<1>7. RecordsHold
  <2>1. NoRecord.res = NoResource
    BY DEF NoRecord
  <2> QED
    BY <1>1, <2>1 DEF RecordsHold
<1>8. ASSUME NEW p \in Submitters PROVE SubHolds(p)
  BY <1>5, NoSubFacts DEF SubHolds
<1>9. ASSUME NEW r \in Resources PROVE VerificationHolds(r)
  <2>1. hold[r] = "none" /\ verification[r].status = "ABSENT" /\ r \notin queued
    BY <1>1 DEF NoVerification
  <2> QED
    BY <2>1 DEF VerificationHolds
<1> QED
  BY <1>4, <1>6, <1>7, <1>8, <1>9 DEF SubmitInv

LEMMA StepKeeps == IInv /\ [Next]_vars => IInv'
<1> SUFFICES ASSUME UploadInv, SubmitInv, [Next]_vars PROVE UploadInv' /\ SubmitInv'
  BY DEF IInv
<1>1. CASE UploadNext /\ UNCHANGED submitVars
  BY <1>1, UploadSteps, UploadsKeepAttachments, UploadsSpare
<1>2. ASSUME NEW p \in Submitters, SubmitStep(p) PROVE UploadInv' /\ SubmitInv'
  <2>1. CASE Attach(p)
    BY <2>1, AttachSteps
  <2>2. CASE \/ \E k \in Keys, payload \in Payloads : Submit(p, k, payload)
             \/ Existing(p) \/ Poll(p) \/ Claim(p) \/ Unclaim(p)
    <3>1. UploadInv' /\ AttachmentsStay
      <4>1. UNCHANGED <<asset, file, call, now, doomed>>
        BY <2>2 DEF Submit, Existing, Poll, Claim, Unclaim, uploadVars
      <4> QED
        BY <4>1, UploadsUntouched
    <3>2. SubmitInv'
      BY <2>2, WaitingSteps, ClaimSteps, UnclaimSteps
    <3> QED
      BY <3>1, <3>2
  <2>3. CASE \/ Reserve(p) \/ CreateVerification(p) \/ ReleaseSnapshot(p)
             \/ AppendReceived(p) \/ Enqueue(p) \/ FailRelease(p) \/ FailSave(p)
             \/ CutOff(p)
    <3>1. UploadInv' /\ AttachmentsStay
      <4>1. UNCHANGED <<asset, file, call, now, doomed>>
        BY <2>3 DEF Reserve, CreateVerification, ReleaseSnapshot, AppendReceived, Enqueue, FailRelease, FailSave,
           CutOff, uploadVars
      <4> QED
        BY <4>1, UploadsUntouched
    <3>2. SubmitInv'
      BY <2>3, <3>1, HandlerSteps, WaitingSteps
    <3> QED
      BY <3>1, <3>2
  <2> QED
    BY <1>2, <2>1, <2>2, <2>3 DEF SubmitStep
<1>3. ASSUME NEW k \in Keys, ExpireRecord(k) PROVE UploadInv' /\ SubmitInv'
  <2>1. UNCHANGED <<asset, file, call, now, doomed>>
    BY <1>3 DEF ExpireRecord, uploadVars
  <2> QED
    BY <1>3, <2>1, ExpireSteps, UploadsUntouched
<1>4. CASE UNCHANGED vars
  <2>1. UNCHANGED <<asset, file, call, now, doomed>> /\ UNCHANGED submitVars
    BY <1>4 DEF vars, uploadVars
  <2> QED
    BY <2>1, UploadsUntouched, UploadsSpare
<1> QED
  BY <1>1, <1>2, <1>3, <1>4 DEF Next

LEMMA AlwaysHolds == Spec => []IInv
<1>1. Init => IInv
  BY Starts
<1>2. IInv /\ [Next]_vars => IInv'
  BY StepKeeps
<1> QED
  BY <1>1, <1>2, PTL DEF Spec

(* Whoever repeats a submission is answered with the verification made of  *)
(* it, and nobody else is (docs/verification-pipeline.md:119 "The unique   *)
(* user/key index prevents concurrent duplicates").                        *)
THEOREM AnswersAreRight == Spec => []AnswersHold
<1>1. ASSUME IInv PROVE AnswersHold
  <2>1. SubmitTypes /\ RecordsHold
    BY <1>1 DEF IInv, SubmitInv
  <2>2. ASSUME NEW x \in answers
        PROVE  /\ x.key \in Keys /\ x.res \in Resources /\ verification[x.res].status # "ABSENT"
               /\ record[x.key].payload = x.payload /\ record[x.key].res = x.res
    <3>1. /\ x.key \in Keys /\ x.res \in Resources /\ verification[x.res].status # "ABSENT"
          /\ record[x.key] = [payload |-> x.payload, res |-> x.res]
      BY <2>1 DEF SubmitTypes, RecordsHold
    <3> QED
      BY <3>1
  <2>3. OneVerificationPerKey
    <3>1. ASSUME NEW x \in answers, NEW y \in answers, x.key = y.key PROVE x.res = y.res
      <4>1. record[x.key].res = x.res /\ record[y.key].res = y.res
        BY <2>2
      <4> QED
        BY <3>1, <4>1
    <3> QED
      BY <3>1 DEF OneVerificationPerKey
  <2>4. AnswerMatchesPayload
    <3>1. ASSUME NEW x \in answers PROVE verification[x.res].payload = x.payload
      <4>1. record[x.key].res = x.res /\ record[x.key].payload = x.payload /\ x.res # NoResource
        BY <2>2, UploadsAssumption
      <4> QED
        BY <2>1, <2>2, <4>1 DEF RecordsHold
    <3> QED
      BY <3>1 DEF AnswerMatchesPayload
  <2> QED
    BY <2>3, <2>4 DEF AnswersHold
<1> QED
  BY <1>1, AlwaysHolds, PTL

(* A submission leaves nothing half done, whichever step of it failed,     *)
(* unless its process died or the undoing failed as well.                  *)
THEOREM NothingIsHalfDone == Spec => []NothingHalfDone
<1>1. ASSUME IInv PROVE NothingHalfDone
  <2>1. ASSUME NEW r \in Resources, r \notin cut, \A p \in Submitters : sub[p].res # r
        PROVE  /\ hold[r] = "reserved" <=> r \in queued
               /\ r \in queued => verification[r].status = "PENDING"
               /\ r \notin queued => verification[r].status \in {"ABSENT", "FAILED"}
    BY <1>1, <2>1 DEF IInv, SubmitInv, VerificationHolds, Worked, Works
  <2> QED
    BY <2>1 DEF NothingHalfDone
<1> QED
  BY <1>1, AlwaysHolds, PTL

(* A queued verification has its media attached to itself, and an asset    *)
(* that may be used has its file but for the two overlaps named in Uploads *)
(* (docs/media-processing.md:5 "Only confirmed assets already attached to  *)
(* the verification are processed", docs/uploads-and-cloudinary.md:19).    *)
THEOREM MediaIsKept == Spec => []MediaHolds
<1>1. ASSUME IInv PROVE MediaHolds
  <2>1. /\ UploadTypes /\ (\A a \in Assets : AssetHolds(a)) /\ SubmitTypes
        /\ (\A p \in Submitters : SubHolds(p)) /\ (\A r \in Resources : VerificationHolds(r))
    BY <1>1 DEF IInv, UploadInv, SubmitInv
  <2>2. TypeOK
    <3>1. \A p \in Submitters : sub[p].payload \in Payloads /\ sub[p].res \in Resources \cup {NoResource}
      BY <2>1 DEF SubmitTypes, SubRecords
    <3> QED
      BY <2>1, <3>1 DEF TypeOK, UploadTypes, SubmitTypes
  <2>3. ConfirmedHasFile
    BY <2>1 DEF ConfirmedHasFile, AssetHolds
  <2>4. ASSUME NEW r \in queued, verification[r].payload # Text
        PROVE  LET a == verification[r].payload
               IN asset[a].attached = r /\ (file[a] = "stored" \/ a \in doomed)
    <3>1. PICK a : a = verification[r].payload
      OBVIOUS
    <3>2. r \in Resources /\ a \in Assets
      BY <2>1, <2>4, <3>1, PayloadsAre DEF SubmitTypes
    <3>3. asset[a].attached = r
      BY <2>1, <2>4, <3>1, <3>2 DEF VerificationHolds
    <3>4. Status(a) = "ATTACHED"
      BY <2>1, <3>2, <3>3, UploadsAssumption, UploadShapes
    <3> QED
      BY <2>1, <3>1, <3>2, <3>3, <3>4 DEF AssetHolds
  <2>5. QueuedMediaIsItsOwn
    BY <2>4 DEF QueuedMediaIsItsOwn
  <2> QED
    BY <2>2, <2>3, <2>5 DEF MediaHolds
<1> QED
  BY <1>1, AlwaysHolds, PTL
=============================================================================
