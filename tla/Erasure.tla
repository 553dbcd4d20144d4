-------------------------------- MODULE Erasure --------------------------------
(***************************************************************************)
(* Leaving Verith: account deletion and its retention job                  *)
(* (users.service, privacy.service, retention.service), the data export    *)
(* and the administrator's status changes beside it (admin.service).       *)
(*                                                                         *)
(* A deletion becomes due when the grace period ends, and by then every    *)
(* session of the owner has ended. Each scheduler starts the job once a    *)
(* day; the lock expires by itself, so two runs may meet. Provider and     *)
(* database calls fail and processes die, as often as trouble allows. A    *)
(* deletion that was sent outlives the run that sent it.                   *)
(***************************************************************************)
EXTENDS Integers, Sequences, FiniteSets

CONSTANTS
  Accounts,
  Retainers,    \* scheduler processes, positive numbers
  Chances        \* who leaves or asks for exports, and what may go wrong; one is chosen

VARIABLES
  accounts,      \* [status, due, claimed, named]: named until the tombstone is written
  files,         \* by account: what the provider still has
  assets,        \* by account: media_assets records that are not DELETED
  data,          \* by account: the collections that still hold something of it
  exports,       \* by account: its export jobs, [status, tries], tries the deliveries left
  asking,        \* accounts whose export request has passed its check
  retention,           \* the retention run of each scheduler
  lock,          \* its holder, 0 when nobody has it
  late,          \* [of, kind, what]: deletions of files and collections of an account, sent
                 \* by a run that is over
  trouble,       \* [leavers, media, holds, exports, limit, cancel, admin, database, provider,
                 \* deaths]: the accounts that may leave, the media, collections and exports of
                 \* each, how many due accounts a run lists, how often the rest may still happen
  torn,          \* history: accounts of which some collections went and others did not
  dead           \* history: erasures <<account, 0>> and exports whose process died

kept == <<files, assets, data>>
exporting == <<exports, asking>>
erasureHistory == <<torn, dead>>
erasureVars == <<accounts, kept, exporting, retention, lock, late, trouble, erasureHistory>>

\* Reports are found through the verifications, the others by the account.
Collections == {"verifications", "reports", "sessions"}

\* A report belongs to a verification.
ASSUME ErasureAssumption ==
  \A chance \in Chances :
    chance.holds \subseteq Collections /\ ("reports" \in chance.holds => "verifications" \in chance.holds)

NoRun == [at |-> "off", todo |-> {}, of |-> "none", files |-> {}, drop |-> {}]

ErasureInit ==
  /\ accounts = [a \in Accounts |-> [status |-> "ACTIVE", due |-> FALSE, claimed |-> FALSE, named |-> TRUE]]
  /\ trouble \in Chances
  /\ files = [a \in Accounts |-> trouble.media] /\ assets = files /\ data = [a \in Accounts |-> trouble.holds]
  /\ exports = [a \in Accounts |-> <<>>] /\ asking = {}
  /\ retention = [s \in Retainers |-> NoRun] /\ lock = 0 /\ late = {}
  /\ torn = {} /\ dead = {}

Spend(kind) == trouble[kind] > 0 /\ trouble' = [trouble EXCEPT ![kind] = @ - 1]

-----------------------------------------------------------------------------
(* The account: its owner, the grace period, an administrator.             *)

Elsewhere == UNCHANGED <<kept, exporting, retention, lock, late, erasureHistory>>

AskToLeave(a) ==
  /\ accounts[a].status = "ACTIVE" /\ ~accounts[a].due /\ a \in trouble.leavers
  /\ accounts' = [accounts EXCEPT ![a].status = "DELETION_PENDING"]
  /\ UNCHANGED trouble /\ Elsewhere

StayAfterAll(a) ==
  /\ accounts[a].status = "DELETION_PENDING" /\ ~accounts[a].due /\ ~accounts[a].claimed
  /\ Spend("cancel")
  /\ accounts' = [accounts EXCEPT ![a].status = "ACTIVE"]
  /\ Elsewhere

\* deletionRequestedAt is seven days old; no request takes as long.
GraceEnds(a) ==
  /\ accounts[a].status = "DELETION_PENDING" /\ ~accounts[a].due /\ a \notin asking
  /\ accounts' = [accounts EXCEPT ![a].due = TRUE]
  /\ UNCHANGED trouble /\ Elsewhere

\* changeStatus does not look at the status it replaces.
AdminChangesStatus(a) ==
  /\ Spend("admin")
  /\ \E to \in {"ACTIVE", "SUSPENDED"} : accounts' = [accounts EXCEPT ![a].status = to]
  /\ Elsewhere

-----------------------------------------------------------------------------
(* The retention run.                                                      *)

RunAt(s, stage) == retention[s].at = stage
Erased(s) == retention[s].of
RunGoes(s, stage) == retention' = [retention EXCEPT ![s].at = stage]

\* The daily cron. NX: a scheduler that does not get the lock does nothing today.
TakeLock(s) ==
  /\ RunAt(s, "off") /\ lock = 0
  /\ lock' = s /\ RunGoes(s, "find")
  /\ UNCHANGED <<accounts, kept, exporting, late, trouble, erasureHistory>>

LockExpires ==
  /\ lock # 0 /\ lock' = 0
  /\ UNCHANGED <<accounts, kept, exporting, retention, late, trouble, erasureHistory>>

Due(a) == accounts[a].status = "DELETION_PENDING" /\ accounts[a].due

\* The query has a limit and names no order; it does not look at the claim.
Listings ==
  LET due == {a \in Accounts : Due(a)}
  IN {list \in SUBSET due :
        \/ Cardinality(list) = trouble.limit
        \/ list = due /\ Cardinality(list) < trouble.limit}

FindDue(s) ==
  /\ RunAt(s, "find")
  /\ \E list \in Listings :
       retention' = [retention EXCEPT ![s].at = "next", ![s].todo = list]
  /\ UNCHANGED <<accounts, kept, exporting, lock, late, trouble, erasureHistory>>

\* finally: only the lock's owner deletes it.
EndRun(s) ==
  /\ RunAt(s, "next") /\ retention[s].todo = {}
  /\ retention' = [retention EXCEPT ![s] = NoRun] /\ lock' = IF lock = s THEN 0 ELSE lock
  /\ UNCHANGED <<accounts, kept, exporting, late, trouble, erasureHistory>>

\* Mutant: an account is erased because it was found, whoever has it now.
Listed(a) == TRUE
Erasable(a) == accounts[a].status = "DELETION_PENDING" /\ ~accounts[a].claimed

\* One account of the list after another.
ClaimErasure(s) ==
  /\ RunAt(s, "next")
  /\ \E a \in retention[s].todo :
       IF Erasable(a)
       THEN /\ accounts' = [accounts EXCEPT ![a].claimed = TRUE]
            /\ retention' = [retention EXCEPT ![s].at = "list", ![s].of = a, ![s].todo = @ \ {a}]
       ELSE retention' = [retention EXCEPT ![s].todo = @ \ {a}] /\ UNCHANGED accounts
  /\ UNCHANGED <<kept, exporting, lock, late, trouble, erasureHistory>>

ListAssets(s) ==
  /\ RunAt(s, "list")
  /\ retention' = [retention EXCEPT ![s].at = "media", ![s].files = assets[Erased(s)]]
  /\ UNCHANGED <<accounts, kept, exporting, lock, late, trouble, erasureHistory>>

FileGone(a, f) ==
  /\ files' = [files EXCEPT ![a] = @ \ {f}]
  /\ UNCHANGED <<assets, data, exports>>

\* deleteAsset; a file that is not there counts as deleted.
DeleteFile(s) ==
  /\ RunAt(s, "media")
  /\ \E f \in retention[s].files :
       /\ FileGone(Erased(s), f)
       /\ retention' = [retention EXCEPT ![s].files = @ \ {f}]
  /\ UNCHANGED <<accounts, asking, lock, late, trouble, erasureHistory>>

\* Mutant: the deletions are sent, and their answers not awaited.
Sent(s) == TRUE
Acknowledged(s) == retention[s].files = {}

\* The reports of no verification are none. A collection that holds nothing of the account
\* is left out: its deletion changes nothing.
FindChildren(s) ==
  /\ RunAt(s, "media") /\ Acknowledged(s)
  /\ LET held == data[Erased(s)]
         found == held \ (IF "verifications" \in held THEN {} ELSE {"reports"})
     IN retention' = [retention EXCEPT ![s].at = "drop",
                                       ![s].drop = found \cup {"media_assets", "privacy_jobs"}]
  /\ UNCHANGED <<accounts, kept, exporting, lock, late, trouble, erasureHistory>>

\* deleteMany of one collection.
Dropped(a, c) ==
  /\ data' = [data EXCEPT ![a] = @ \ {c}]
  /\ assets' = IF c = "media_assets" THEN [assets EXCEPT ![a] = {}] ELSE assets
  /\ exports' = IF c = "privacy_jobs" THEN [exports EXCEPT ![a] = <<>>] ELSE exports
  /\ UNCHANGED files

\* Promise.all: the deletions are sent together and arrive in any order.
DropCollection(s) ==
  /\ RunAt(s, "drop")
  /\ \E c \in retention[s].drop :
       /\ retention' = [retention EXCEPT ![s].drop = @ \ {c}]
       /\ Dropped(Erased(s), c)
  /\ UNCHANGED <<accounts, asking, lock, late, trouble, erasureHistory>>

WriteTombstone(s) ==
  /\ RunAt(s, "drop") /\ retention[s].drop = {}
  /\ LET a == Erased(s)
     IN accounts' = IF accounts[a].status = "DELETION_PENDING"
                   THEN [accounts EXCEPT ![a].status = "DELETED", ![a].claimed = FALSE, ![a].named = FALSE]
                   ELSE accounts
  /\ retention' = [retention EXCEPT ![s].at = "next", ![s].of = "none"]
  /\ UNCHANGED <<kept, exporting, lock, late, trouble, erasureHistory>>

Erasing(s) == retention[s].at \in {"list", "media", "drop"}

\* catch of eraseAccount, which ends the whole run.
\* Mutant: the claim stays.
Claimed(a) == accounts
Unclaimed(a) == IF accounts[a].status = "DELETION_PENDING"
                THEN [accounts EXCEPT ![a].claimed = FALSE] ELSE accounts

\* What a run that ends leaves under way: the deletions of a Promise.all that were not
\* answered, or the one file it had asked the provider to delete.
Abandoned(s) ==
  LET sent(kind, which) == {[of |-> Erased(s), kind |-> kind, what |-> w] : w \in which}
  IN \/ RunAt(s, "drop") /\ late' = late \cup sent("collection", retention[s].drop)
     \/ RunAt(s, "media") /\ \E f \in retention[s].files : late' = late \cup sent("file", {f})
     \/ ~RunAt(s, "drop") /\ UNCHANGED late

\* A database call fails, or the provider refuses or does not answer. Promise.all rejects
\* with the first failure: the claim is given back while the other deletions are under way.
ErasureFails(s) ==
  /\ Erasing(s)
  /\ LET asked == RunAt(s, "media") /\ retention[s].files # {}
     IN IF asked THEN Spend("provider") ELSE Spend("database")
  /\ Abandoned(s)
  /\ accounts' = Unclaimed(Erased(s))
  /\ torn' = IF RunAt(s, "drop") THEN torn \cup {Erased(s)} ELSE torn
  /\ retention' = [retention EXCEPT ![s] = NoRun] /\ lock' = IF lock = s THEN 0 ELSE lock
  /\ UNCHANGED <<kept, exporting, dead>>

\* A death, or a catch clause that fails as well: the claim is never given back.
SchedulerDies(s) ==
  /\ ~RunAt(s, "off") /\ Spend("deaths")
  /\ retention' = [retention EXCEPT ![s] = NoRun]
  /\ IF Erasing(s)
     THEN /\ Abandoned(s)
          /\ dead' = dead \cup {<<Erased(s), 0>>}
     ELSE UNCHANGED <<late, dead>>
  /\ UNCHANGED <<accounts, kept, exporting, lock, torn>>

\* A deletion nobody waits for any more is done, some time or never.
LateDeletion ==
  \E d \in late :
    /\ late' = late \ {d}
    /\ IF d.kind = "file" THEN FileGone(d.of, d.what) ELSE Dropped(d.of, d.what)
    /\ UNCHANGED <<accounts, asking, retention, lock, trouble, erasureHistory>>

Scheduler(s) ==
  \/ TakeLock(s) \/ FindDue(s) \/ EndRun(s) \/ ClaimErasure(s) \/ ListAssets(s)
  \/ DeleteFile(s) \/ FindChildren(s) \/ DropCollection(s) \/ WriteTombstone(s)
RunTrouble(s) == ErasureFails(s) \/ SchedulerDies(s)

-----------------------------------------------------------------------------
(* Data exports.                                                           *)

Unsettled == {"QUEUED", "PROCESSING"}
AccountElsewhere == UNCHANGED <<accounts, kept, retention, lock, late, torn>>

\* Nobody signs in to an erased account, whatever status it is given: its password is gone.
CheckExport(a) ==
  /\ accounts[a].status = "ACTIVE" /\ accounts[a].named /\ a \notin asking /\ Len(exports[a]) < trouble.exports
  /\ \A i \in DOMAIN exports[a] : exports[a][i].status \notin Unsettled
  /\ asking' = asking \cup {a}
  /\ UNCHANGED <<exports, trouble, dead>> /\ AccountElsewhere

\* The record, then the job; when the queue does not answer the record is FAILED, and the
\* job is there or not.
CreateExport(a) ==
  /\ a \in asking /\ asking' = asking \ {a}
  /\ \/ /\ exports' = [exports EXCEPT ![a] = Append(@, [status |-> "QUEUED", tries |-> 2])]
        /\ UNCHANGED trouble
     \/ /\ Spend("database")
        /\ \E tries \in {0, 2} :
             exports' = [exports EXCEPT ![a] = Append(@, [status |-> "FAILED", tries |-> tries])]
  /\ UNCHANGED dead /\ AccountElsewhere

\* Only a queued or failed export is processed; each delivery takes one try.
ProcessExport(a, i) ==
  /\ exports[a][i].status \in {"QUEUED", "FAILED"} /\ exports[a][i].tries > 0
  /\ exports' = [exports EXCEPT ![a][i] = [status |-> "PROCESSING", tries |-> @.tries - 1]]
  /\ UNCHANGED <<asking, trouble, dead>> /\ AccountElsewhere

CompleteExport(a, i) ==
  /\ exports[a][i].status = "PROCESSING" /\ <<a, i>> \notin dead
  /\ exports' = [exports EXCEPT ![a][i] = [status |-> "COMPLETED", tries |-> 0]]
  /\ UNCHANGED <<asking, trouble, dead>> /\ AccountElsewhere

ExportFails(a, i) ==
  /\ exports[a][i].status = "PROCESSING" /\ <<a, i>> \notin dead /\ Spend("database")
  /\ exports' = [exports EXCEPT ![a][i].status = "FAILED"]
  /\ UNCHANGED <<asking, dead>> /\ AccountElsewhere

\* The record stays PROCESSING, where no later delivery takes it up.
ExporterDies(a, i) ==
  /\ exports[a][i].status = "PROCESSING" /\ <<a, i>> \notin dead /\ Spend("deaths")
  /\ dead' = dead \cup {<<a, i>>}
  /\ UNCHANGED exporting /\ AccountElsewhere

Exporter(a, i) == ProcessExport(a, i) \/ CompleteExport(a, i)
ExporterTrouble(a, i) == ExportFails(a, i) \/ ExporterDies(a, i)

ErasureNext ==
  \/ \E a \in Accounts : \/ AskToLeave(a) \/ StayAfterAll(a) \/ GraceEnds(a) \/ AdminChangesStatus(a)
                         \/ CheckExport(a) \/ CreateExport(a)
                         \/ \E i \in DOMAIN exports[a] : Exporter(a, i) \/ ExporterTrouble(a, i)
  \/ LockExpires \/ LateDeletion
  \/ \E s \in Retainers : Scheduler(s) \/ RunTrouble(s)

\* The cron comes back every day, Redis drops a lock that is left, and a run that started
\* goes on while its process lives.
ErasureFairness ==
  /\ WF_erasureVars(LockExpires)
  /\ SF_erasureVars(\E s \in Retainers : TakeLock(s))
  /\ \A s \in Retainers : WF_erasureVars(Scheduler(s))

-----------------------------------------------------------------------------
(* Properties.                                                             *)

\* docs/privacy-and-retention.md:35-36: success is never reported while provider media
\* remains, and an account that was erased without a failed deletion has nothing left.
ErasedIsGone ==
  \A a \in Accounts : ~accounts[a].named =>
    /\ files[a] = {} /\ assets[a] = {}
    /\ a \notin torn => data[a] = {} /\ exports[a] = <<>>

\* docs/privacy-and-retention.md:23-29 (a deletion has "a cancellation period"): what is
\* claimed is pending and due at that moment, however old the list of due accounts the run
\* works from. Something of an account goes only while a run has claimed it, or late, by a
\* deletion that was sent while one had.
OnlyClaimedLoses ==
  [][\A a \in Accounts :
       LET arriving == {d \in late : d.of = a}
           loses == files'[a] # files[a] \/ data'[a] # data[a] \/ assets'[a] # assets[a]
       IN /\ loses => accounts[a].due /\ (accounts[a].claimed \/ arriving # {})
          /\ accounts[a].claimed \/ {d \in late' : d.of = a} \subseteq arriving
          /\ ~accounts[a].claimed /\ accounts'[a].claimed => Due(a)]_erasureVars

\* docs/privacy-and-retention.md:35: an erasure that fails remains pending and is retried. Due
\* accounts are erased in the end, unless their run died half-way, an administrator gave
\* them another status, or such runs have left as many accounts claimed as a run lists:
\* these may be listed every time.
DueIsErased ==
  \A a \in Accounts : Due(a) ~> \/ ~accounts[a].named \/ <<a, 0>> \in dead
                                \/ accounts[a].status # "DELETION_PENDING"
                                \/ Cardinality({b \in Accounts : Due(b) /\ <<b, 0>> \in dead}) >= trouble.limit
=============================================================================
