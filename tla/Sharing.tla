-------------------------------- MODULE Sharing --------------------------------
(***************************************************************************)
(* Who may read the report versions of one investigation (report.service): *)
(* the owner shares, hides, revokes and removes versions while new ones    *)
(* are synthesised, and removes the investigation itself.                  *)
(*                                                                         *)
(* A request reads the report, then asserts the investigation, then saves  *)
(* what it changed: Mongoose writes the modified paths only and, reports   *)
(* having no version key, compares nothing.                                *)
(***************************************************************************)
EXTENDS Integers, Sequences, FiniteSets

CONSTANTS
  Owners,        \* requests of the owner, one frame each
  MaxRequests,   \* requests made in all
  Wishes,        \* what requests ask for
  MaxVersions,   \* report versions
  MaxOrphans     \* syntheses cut short after they stored a version

VARIABLES
  versions,      \* the stored reports, by version
  investigation, \* [status, visibility, shown]: shown is reportId, 0 when unset
  synthesis,     \* stage of the worker, "idle" outside a pass
  loaded,        \* the visibility in the worker's copy of the investigation, "none" when idle
  issued,        \* slugs drawn so far
  asked,         \* the requests in flight and done
  requests,      \* how many have been made
  withdrawn,     \* history: slugs a saved withdrawal had read
  shut,          \* history: versions whose last saved request withdrew them
  restored,      \* history: versions a request made COMPLETE again
  orphans,       \* history: versions the investigation was never pointed to by their synthesis
  calm           \* history: no two parties ever overlapped, no request met a deleted version

shared == <<versions, investigation, synthesis, loaded>>
sharingHistory == <<withdrawn, shut, restored, orphans, calm>>
sharingVars == <<versions, investigation, synthesis, loaded, issued, asked, requests, sharingHistory>>

NoRequest == [op |-> "none", of |-> 0, at |-> "free", copy |-> "none", latest |-> 0]
Ops == {"UNLISTED", "PUBLIC", "PRIVATE", "revoke", "remove"}
Withdrawals == {"PRIVATE", "revoke", "remove"}
ASSUME SharingAssumption == Wishes \subseteq Ops

\* A new version takes the visibility the worker loaded, and a slug if others may read it.
Report(visibility) ==
  [status |-> "VALIDATING", visibility |-> visibility, revoked |-> FALSE,
   slug |-> IF visibility = "PRIVATE" THEN 0 ELSE issued + 1]

\* One version, which the owner may have shared before.
SharingInit ==
  /\ issued \in {0, 1}
  /\ versions = <<[status |-> "COMPLETE", visibility |-> IF issued = 0 THEN "PRIVATE" ELSE "PUBLIC",
                   slug |-> issued, revoked |-> FALSE]>>
  /\ investigation \in [status : {"COMPLETED"}, visibility : {"PRIVATE", "PUBLIC"}, shown : {1}]
  /\ synthesis = "idle" /\ loaded = "none" /\ requests = 0
  /\ asked = [p \in Owners |-> NoRequest]
  /\ withdrawn = {} /\ shut = {} /\ restored = {} /\ orphans = {} /\ calm = TRUE

Serves(report) ==
  /\ report.slug # 0 /\ report.visibility \in {"UNLISTED", "PUBLIC"}
  /\ ~report.revoked /\ report.status = "COMPLETE"

-----------------------------------------------------------------------------
(* Requests.                                                               *)

Serving(p) == asked[p] # NoRequest
Alone(p) == synthesis = "idle" /\ \A q \in Owners \ {p} : ~Serving(q)

\* findOwned reads the report whatever its status.
FindReport(p) ==
  /\ ~Serving(p) /\ requests < MaxRequests
  /\ \E op \in Wishes, v \in DOMAIN versions :
       /\ asked' = [asked EXCEPT ![p] = [NoRequest EXCEPT !.op = op, !.of = v, !.at = "assert",
                                                          !.copy = versions[v]]]
       /\ calm' = (calm /\ Alone(p) /\ versions[v].status # "DELETED")
  /\ requests' = requests + 1
  /\ UNCHANGED <<shared, issued, withdrawn, shut, restored, orphans>>

AssertOwned(p) ==
  /\ asked[p].at = "assert"
  /\ asked' = [asked EXCEPT ![p] = IF investigation.status = "DELETED" THEN NoRequest
                                  ELSE [@ EXCEPT !.at = "save"]]
  /\ UNCHANGED <<shared, issued, requests, sharingHistory>>

\* What the request makes of the document it read.
WithLink(to, copy) ==
  [copy EXCEPT !.visibility = to, !.revoked = FALSE,
               !.slug = IF @ = 0 THEN issued + 1 ELSE @,
               !.status = IF @ = "REVOKED" THEN "COMPLETE" ELSE @]
WithoutLink(copy, status) ==
  [copy EXCEPT !.visibility = "PRIVATE", !.revoked = TRUE, !.slug = 0, !.status = status]

Edited(op, copy) ==
  CASE op \in {"UNLISTED", "PUBLIC"} -> WithLink(op, copy)
    [] op = "PRIVATE" -> WithoutLink(copy, copy.status)
    [] op = "revoke" -> WithoutLink(copy, "REVOKED")
    [] op = "remove" -> WithoutLink(copy, "DELETED")

\* A save writes the paths that differ from what was read; a new date always does.
\* Mutant: the whole document is written.
Whole(edited, copy, stored) == edited
Modified(edited, copy, stored) ==
  [path \in DOMAIN stored |->
     IF edited[path] # copy[path] \/ (path = "revoked" /\ edited.revoked)
     THEN edited[path] ELSE stored[path]]

SaveReport(p) ==
  /\ asked[p].at = "save"
  /\ LET v == asked[p].of
         edited == Edited(asked[p].op, asked[p].copy)
         withdraws == asked[p].op \in Withdrawals
         slugs == {asked[p].copy.slug} \ {0}
     IN /\ versions' = [versions EXCEPT ![v] = Modified(edited, asked[p].copy, @)]
        /\ issued' = IF ~withdraws /\ asked[p].copy.slug = 0 THEN issued + 1 ELSE issued
        /\ withdrawn' = IF withdraws THEN withdrawn \cup slugs ELSE withdrawn
        /\ shut' = IF withdraws THEN shut \cup {v} ELSE shut \ {v}
        /\ restored' = IF edited.status = "COMPLETE" /\ asked[p].copy.status # "COMPLETE"
                       THEN restored \cup {v} ELSE restored
        /\ asked' = [asked EXCEPT ![p] = IF @.op = "remove" THEN [@ EXCEPT !.at = "latest"] ELSE NoRequest]
  /\ UNCHANGED <<investigation, synthesis, loaded, requests, orphans, calm>>

IsLive(v) == versions[v].status \notin {"DELETED", "INVALID"}

LiveOthers(v) == {w \in DOMAIN versions \ {v} : IsLive(w)}

NewestOf(vs) == IF vs = {} THEN 0 ELSE CHOOSE v \in vs : \A w \in vs : w <= v

FindLatest(p) ==
  /\ asked[p].at = "latest"
  /\ asked' = [asked EXCEPT ![p].at = "point", ![p].latest = NewestOf(LiveOthers(asked[p].of))]
  /\ UNCHANGED <<shared, issued, requests, sharingHistory>>

PointToLatest(p) ==
  /\ asked[p].at = "point"
  /\ investigation' = [investigation EXCEPT !.shown = asked[p].latest]
  /\ asked' = [asked EXCEPT ![p] = NoRequest]
  /\ UNCHANGED <<versions, synthesis, loaded, issued, requests, sharingHistory>>

\* A process dies, or a call fails: the rest of the request does not happen.
RequestDies(p) ==
  /\ Serving(p) /\ asked' = [asked EXCEPT ![p] = NoRequest]
  /\ calm' = FALSE
  /\ UNCHANGED <<shared, issued, requests, withdrawn, shut, restored, orphans>>

-----------------------------------------------------------------------------
(* New versions, and the investigation's own requests, each in one step:   *)
(* how these overlap is in the Verification module.                        *)

UpdateVisibility ==
  /\ investigation.status # "DELETED" /\ requests < MaxRequests /\ requests' = requests + 1
  /\ \E visibility \in {"PRIVATE", "PUBLIC"} \ {investigation.visibility} :
       investigation' = [investigation EXCEPT !.visibility = visibility]
  /\ UNCHANGED <<versions, synthesis, loaded, issued, asked, sharingHistory>>

RemoveInvestigation ==
  /\ investigation.status \in {"COMPLETED", "FAILED"}
  /\ investigation' = [investigation EXCEPT !.status = "DELETED"]
  /\ UNCHANGED <<versions, synthesis, loaded, issued, asked, requests, sharingHistory>>

\* After a reprocess or a retry, or because the last worker died.
ProcessAgain ==
  /\ synthesis = "idle" /\ investigation.status # "DELETED" /\ Len(versions) < MaxVersions
  /\ investigation' = [investigation EXCEPT !.status = "PROCESSING"]
  /\ synthesis' = "insert" /\ loaded' = investigation.visibility
  /\ calm' = (calm /\ \A p \in Owners : ~Serving(p))
  /\ UNCHANGED <<versions, issued, asked, requests, withdrawn, shut, restored, orphans>>

InsertVersion ==
  /\ synthesis = "insert" /\ synthesis' = "validate"
  /\ versions' = Append(versions, Report(loaded))
  /\ issued' = IF loaded = "PRIVATE" THEN issued ELSE issued + 1
  /\ UNCHANGED <<investigation, loaded, asked, requests, sharingHistory>>

SaveInvalidVersion ==
  /\ synthesis = "validate" /\ synthesis' = "throw"
  /\ versions' = [versions EXCEPT ![Len(versions)].status = "INVALID"]
  /\ UNCHANGED <<investigation, loaded, issued, asked, requests, sharingHistory>>

\* Mutant: earlier complete versions stay complete.
Untouched(report) == report
Outdated(report) ==
  IF report.status = "COMPLETE" THEN [report EXCEPT !.status = "SUPERSEDED"] ELSE report

SupersedeVersions ==
  /\ synthesis = "validate" /\ synthesis' = "complete"
  /\ versions' = [v \in DOMAIN versions |->
       IF v = Len(versions) THEN versions[v] ELSE Outdated(versions[v])]
  /\ UNCHANGED <<investigation, loaded, issued, asked, requests, sharingHistory>>

CompleteVersion ==
  /\ synthesis = "complete" /\ synthesis' = "finish"
  /\ versions' = [versions EXCEPT ![Len(versions)].status = "COMPLETE"]
  /\ UNCHANGED <<investigation, loaded, issued, asked, requests, sharingHistory>>

FinishInvestigation ==
  /\ synthesis = "finish" /\ synthesis' = "idle" /\ loaded' = "none"
  /\ investigation' = [investigation EXCEPT !.status = "COMPLETED", !.shown = Len(versions)]
  /\ UNCHANGED <<versions, issued, asked, requests, sharingHistory>>

\* A report that is invalid, a call that fails, or a death, after which the investigation
\* stays PROCESSING until it is taken up again.
SynthesisStops ==
  /\ synthesis # "idle" /\ synthesis' = "idle" /\ loaded' = "none"
  /\ \E status \in {"FAILED", "PROCESSING"} : investigation' = [investigation EXCEPT !.status = status]
  /\ orphans' = IF synthesis = "insert" THEN orphans ELSE orphans \cup {Len(versions)}
  /\ Cardinality(orphans') <= MaxOrphans
  /\ UNCHANGED <<versions, issued, asked, requests, withdrawn, shut, restored, calm>>

SharingNext ==
  \/ \E p \in Owners : FindReport(p) \/ AssertOwned(p) \/ SaveReport(p) \/ FindLatest(p)
                       \/ PointToLatest(p) \/ RequestDies(p)
  \/ UpdateVisibility \/ RemoveInvestigation
  \/ ProcessAgain \/ InsertVersion \/ SaveInvalidVersion \/ SupersedeVersions \/ CompleteVersion
  \/ FinishInvestigation \/ SynthesisStops

-----------------------------------------------------------------------------
(* Properties.                                                             *)

\* docs/reports.md:27-29 (revocation "removes the slug ... and makes the old URL return
\* not-found"): the slug a withdrawal met is never served again, and a version
\* whose last saved request withdrew it is not served, whatever requests that read
\* the report before still save.
WithdrawnStaysOut ==
  \A v \in DOMAIN versions :
    Serves(versions[v]) => v \notin shut /\ versions[v].slug \notin withdrawn

\* report.service.ts:527-549: where requests came one after the other, the investigation
\* shows its newest version that was not removed, and none when all were, but for versions
\* whose synthesis was cut short before it pointed the investigation to them.
NewestIsShown ==
  calm /\ synthesis = "idle" /\ (\A p \in Owners : ~Serving(p))
    => LET live == {v \in DOMAIN versions : IsLive(v)}
       IN /\ investigation.shown \in live \cup {0}
          /\ \A v \in live : v > investigation.shown => v \in orphans

\* docs/reports.md:17-20 ("A new successful version supersedes the previous complete
\* version"): whatever syntheses were cut short and requests overlapped them, at most one
\* version is complete, and that of an investigation that has COMPLETED its newest, but for
\* those a request made complete again after they were revoked (report.service.ts:466-467).
OneCompleteVersion ==
  LET complete == {v \in DOMAIN versions : versions[v].status = "COMPLETE"}
  IN /\ Cardinality(complete \ restored) <= 1
     /\ synthesis = "idle" /\ investigation.status = "COMPLETED" =>
          /\ complete \ restored \subseteq {Len(versions)}
          /\ versions[Len(versions)].status \in {"COMPLETE", "REVOKED", "DELETED"}

\* Both: what readers are shown is what the owner last chose to show.
SharingHolds == WithdrawnStaysOut /\ NewestIsShown
=============================================================================
