---------------------------- MODULE Investigation ----------------------------
(***************************************************************************)
(* One investigation from its source to its reports, and the guided        *)
(* exercise beside it: content-processing.service and the services it      *)
(* calls (media processing, claim extraction, evidence search, analysis,   *)
(* report synthesis), guided-investigation.service.                        *)
(*                                                                         *)
(* Each step of the worker is one access to a collection or one call out;  *)
(* between two of them the process may die, and every call may fail. The   *)
(* collections outlive a pass: the next one finds what the last one left.  *)
(* That at most one worker holds the investigation is checked by the       *)
(* Verification module and taken from it here.                             *)
(***************************************************************************)
EXTENDS Contracts, Judgement, Retrieval

CONSTANTS
  Loads,        \* what may be investigated; one is chosen at the start
  Clients,      \* the requests to the guided exercise
  MaxClaims,    \* processing.maxClaims
  MaxEvidence   \* processing.maxEvidencePerClaim

\* What a model returns is a list of drafts, each with a list of queries.
ASSUME InvestigationAssumption ==
  /\ MaxClaims \in Nat
  /\ \A l \in Loads : /\ l.queries \in Nat
                       /\ \A drafts \in l.drafts :
                            /\ DOMAIN drafts = 1..Len(drafts)
                            /\ \A i \in DOMAIN drafts :
                                 DOMAIN drafts[i].generated = 1..Len(drafts[i].generated)

VARIABLES
  load,         \* the chosen load, never changed
  status,       \* of the verification: QUEUED, PROCESSING, COMPLETED, FAILED
  pass,         \* passes of the worker so far
  stage,        \* of the worker, "idle" outside a pass
  work,         \* what the worker holds in memory
  claims, evidence, evaluations, analysis, media,   \* the collections
  reports,      \* the reports by version
  session,      \* the guided exercise
  learned,      \* the answers recorded as competency evidence
  frame,        \* the request of each client
  mishaps, crashes   \* how many calls may still fail, processes may still die

collections == <<claims, evidence, evaluations, analysis, media, reports>>
exercise == <<session, learned, frame>>
bounds == <<mishaps, crashes>>
investigationVars == <<load, status, pass, stage, work, collections, exercise, bounds>>

NoAnalysis == [verdict |-> "none", risk |-> "none", manipulation |-> {}, missing |-> {}]
NoSession == [status |-> "none", answers |-> "none", feedback |-> "none", version |-> 0]
Idle == [claims |-> <<>>, todo |-> <<>>, hits |-> <<>>, seen |-> {}, cache |-> {}, left |-> {},
         entries |-> <<>>, manipulation |-> {}, missing |-> {}]
Fresh(call) == [call |-> call, at |-> "load", copy |-> NoSession, verdict |-> "none"]

InvestigationInit ==
  /\ load \in Loads
  /\ status = "QUEUED" /\ pass = 0 /\ stage = "idle" /\ work = Idle
  /\ claims = {} /\ evidence = {} /\ evaluations = {} /\ analysis = NoAnalysis /\ media = FALSE
  /\ reports = <<>> /\ session = NoSession /\ learned = {}
  /\ frame = [p \in Clients |-> IF p \in DOMAIN load.calls THEN Fresh(load.calls[p])
                                ELSE [Fresh("none") EXCEPT !.at = "none"]]
  /\ mishaps = load.faults /\ crashes = load.crashes

-----------------------------------------------------------------------------
(* The worker: starting, failing, dying.                                   *)

InStage(s) == stage = s
Goto(s) == stage' = s
Keep == UNCHANGED <<load, status, pass, exercise, bounds>>

\* A queued, retried or reprocessed investigation, or one whose worker died, is
\* processed from its source.
Start ==
  /\ InStage("idle") /\ pass < load.passes
  /\ pass' = pass + 1 /\ status' = "PROCESSING" /\ Goto("extract") /\ work' = Idle
  /\ UNCHANGED <<load, collections, exercise, bounds>>

\* catch of process(): whatever is already stored stays.
Stops == status' = "FAILED" /\ Goto("idle") /\ work' = Idle

CallFails ==
  /\ ~InStage("idle") /\ mishaps > 0 /\ mishaps' = mishaps - 1
  /\ Stops
  /\ UNCHANGED <<load, pass, collections, exercise, crashes>>

WorkerDies ==
  /\ ~InStage("idle") /\ crashes > 0 /\ crashes' = crashes - 1
  /\ Goto("idle") /\ work' = Idle
  /\ UNCHANGED <<load, status, pass, collections, exercise, mishaps>>

\* Refused by the code itself.
Refuse ==
  /\ Stops
  /\ UNCHANGED <<load, pass, exercise, bounds>>

-----------------------------------------------------------------------------
(* The source. Text of media is "text", only "blank" characters or "empty".*)

IsMedia == load.source \in {"IMAGE", "VIDEO", "AUDIO"}

\* Mongoose refuses the empty string where a string is required.
StoredText == {"text", "blank"}

\* Text goes on to its claims, blank text to the report, no text nowhere.
Reads(text, stored) ==
  IF text \in StoredText
  THEN /\ media' = stored
       /\ Goto(IF text = "text" THEN "claim" ELSE "prepare_blank")
       /\ UNCHANGED <<work, claims, evidence, evaluations, analysis, reports>> /\ Keep
  ELSE Refuse /\ UNCHANGED collections

\* Image and video understanding stores its analysis before the text is looked at.
ReadImage ==
  /\ InStage("extract") /\ load.source = "IMAGE"
  /\ \E asset \in load.assets, reply \in ImageTold :
       Reads(IF Inline("IMAGE", asset) /\ ImageAccepted(reply) THEN reply.text ELSE "none", TRUE)

ReadVideo ==
  /\ InStage("extract") /\ load.source = "VIDEO"
  /\ \E asset \in load.assets, reply \in VideoTold :
       Reads(IF Inline("VIDEO", asset) /\ VideoAccepted(reply) THEN VideoText(reply) ELSE "none", TRUE)

\* Groq is given the address and transcribes; when it fails Gemini is given the bytes.
Transcribe ==
  /\ InStage("extract") /\ load.source = "AUDIO"
  /\ \E asset \in load.assets, groq \in Texts \cup {"error"}, reply \in AudioTold :
       LET gemini == IF Inline("AUDIO", asset) /\ AudioAccepted(reply) THEN reply.text ELSE "none"
       IN Reads(IF ~Attached(asset) THEN "none" ELSE IF groq = "error" THEN gemini ELSE groq, media)

\* An article that was not read is an error of the pass.
ReadWritten ==
  /\ InStage("extract") /\ ~IsMedia
  /\ \E page \in load.pages :
       IF load.source = "TEXT" \/ Has(ExtractArticle(page, TRUE))
       THEN Goto("claim") /\ UNCHANGED <<work, collections>> /\ Keep
       ELSE Refuse /\ UNCHANGED collections

-----------------------------------------------------------------------------
(* Claims.                                                                 *)

\* Claims that cannot be located in the content are left out.
Located(drafts) == Picked(drafts, {i \in DOMAIN drafts : ResolveSourceSpan(drafts[i], load.length)})

\* Queries are asked for when a claim is verifiable, for those claims; any of them
\* may be answered with any number of entries.
Expected(kept) == {i \in DOMAIN kept : kept[i].verifiability \in Verifiable}
Sheets(kept) ==
  LET entry(i) == [sequence |-> i, queries |-> kept[i].generated]
      n == Cardinality(Expected(kept))
      named == UNION {[1..k -> Expected(kept)] : k \in 0..n}
  IN {[k \in DOMAIN f |-> entry(f[k])] : f \in named}

ExtractClaims ==
  /\ InStage("claim")
  /\ \E drafts \in load.drafts :
       LET kept == Located(drafts)
           asked(sheet) == {sheet[k].sequence : k \in DOMAIN sheet}
           claim(i, sheet) == [id |-> <<pass, i>>, verifiability |-> kept[i].verifiability,
                               importance |-> kept[i].importance,
                               \* History: every text is first given in another language.
                               foreign |-> \A j \in Firsts(kept[i].generated) :
                                             kept[i].generated[j].language \notin {load.language, "en"},
                               queries |-> IF i \in asked(sheet)
                                           THEN MultilingualQueries(kept[i], load.language, load.queries)
                                           ELSE <<>>]
       IN /\ ClaimsTold(drafts, MaxClaims)
          /\ \E sheet \in Sheets(kept) :
               /\ QueriesTold(sheet, Expected(kept), load.queries)
               /\ IF /\ ClaimsAccepted(drafts, MaxClaims) /\ kept # <<>>
                     /\ QueriesAccepted(sheet, Expected(kept), load.queries)
                  THEN /\ work' = [work EXCEPT !.claims = [i \in DOMAIN kept |-> claim(i, sheet)]]
                       /\ Goto("drop_claims") /\ UNCHANGED collections /\ Keep
                  ELSE Refuse /\ UNCHANGED collections

DropClaims ==
  /\ InStage("drop_claims") /\ claims' = {} /\ Goto("insert_claims")
  /\ UNCHANGED <<work, evidence, evaluations, analysis, media, reports>> /\ Keep

InsertClaims ==
  /\ InStage("insert_claims") /\ claims' = ToSet(work.claims) /\ Goto("prepare")
  /\ UNCHANGED <<work, evidence, evaluations, analysis, media, reports>> /\ Keep

\* guidance.prepare: $setOnInsert, so an exercise is made once.
Prepare ==
  /\ stage \in {"prepare", "prepare_blank"}
  /\ session' = IF load.mode = "GUIDED" /\ session.status = "none"
                THEN [NoSession EXCEPT !.status = "READY"] ELSE session
  /\ Goto(IF InStage("prepare") THEN "drop_evidence" ELSE "synthesize")
  /\ UNCHANGED <<load, status, pass, work, collections, learned, frame, bounds>>

-----------------------------------------------------------------------------
(* Evidence. The searches of a pass are cached by language and query; a    *)
(* page has one content here, so the cache of retrievals changes nothing.  *)

\* What is still to be asked, claim after claim.
Questions(cs) ==
  FlattenSeq([i \in DOMAIN cs |-> [j \in DOMAIN cs[i].queries |->
                                    [claim |-> cs[i].id, query |-> cs[i].queries[j]]]])

DropEvidence ==
  /\ InStage("drop_evidence") /\ evidence' = {} /\ Goto("search")
  /\ work' = [work EXCEPT !.todo = Questions(work.claims)]
  /\ UNCHANGED <<claims, evaluations, analysis, media, reports>> /\ Keep

Count(claim) == Quantify(evidence, LAMBDA e : e.claim = claim)
Asked == Head(work.todo)
UpTo(pages, n) == SubSeq(pages, 1, Smaller(Len(pages), n))

\* The next query of a claim that has room; its hits wait under its claim.
Search ==
  /\ InStage("search") /\ work.hits = <<>> /\ work.todo # <<>>
  /\ LET key == <<Asked.query.language, Asked.query.key>>
         room == MaxEvidence - Count(Asked.claim)
         cached == {c \in work.cache : c.key = key}
         routed == IF key \in DOMAIN load.web THEN Routed(load.web[key])
                   ELSE [failed |-> FALSE, found |-> <<>>]
         found == IF cached # {} THEN (CHOOSE c \in cached : TRUE).found
                  ELSE UpTo(routed.found, Smaller(4, room))
     IN IF room <= 0
        THEN /\ work' = [work EXCEPT !.todo = Tail(@)]
             /\ UNCHANGED <<stage, collections>> /\ Keep
        ELSE IF cached = {} /\ routed.failed THEN Refuse /\ UNCHANGED collections
        ELSE /\ work' = [work EXCEPT !.todo = Tail(@), !.cache = @ \cup {[key |-> key, found |-> found]},
                           !.hits = [i \in DOMAIN found |-> [claim |-> Asked.claim, page |-> found[i]]]]
             /\ UNCHANGED <<stage, collections>> /\ Keep

\* The next hit becomes a record, unless its URL was seen or the claim is full.
Record ==
  /\ InStage("search") /\ work.hits # <<>>
  /\ LET hit == Head(work.hits)
         url == <<hit.claim, hit.page.url>>
         document == ToEvidence(<<pass, Cardinality(evidence) + 1>>, hit.claim, hit.page)
         full == Count(hit.claim) >= MaxEvidence
     IN /\ work' = [work EXCEPT !.hits = IF full THEN <<>> ELSE Tail(@),
                                !.seen = IF full THEN @ ELSE @ \cup {url}]
        /\ evidence' = IF full \/ url \in work.seen THEN evidence
                       ELSE evidence \cup {WithLineage(document, evidence)}
  /\ UNCHANGED <<stage, claims, evaluations, analysis, media, reports>> /\ Keep

SearchEnds ==
  /\ InStage("search") /\ work.hits = <<>> /\ work.todo = <<>>
  /\ Goto("compare") /\ work' = [work EXCEPT !.cache = {}, !.seen = {}]
  /\ UNCHANGED collections /\ Keep

-----------------------------------------------------------------------------
(* Analysis.                                                               *)

\* What the model may return: an entry for each claim with a relation for each of
\* its records, perhaps with a record of another claim, perhaps with another entry
\* for one of them, and one of the load's findings.
Replies ==
  LET order == SetToSeq(claims)
      own(c) == {e.id : e \in {x \in evidence : x.claim = c.id}}
      ids == {e.id : e \in evidence}
      entry(c, records, given) == [claim |-> c.id, links |-> [id \in records |-> given[id]]]
      plain(given) == [i \in DOMAIN order |-> entry(order[i], own(order[i]), given)]
      crossed(given) == [i \in DOMAIN order |-> entry(order[i], ids, given)]
      doubled(given, c, r) == Append(plain(given), entry(c, own(c), [id \in ids |-> r]))
      entries(given) == {plain(given)} \cup
        IF load.crossed
        THEN {crossed(given)} \cup {doubled(given, c, r) : c \in claims, r \in load.relations}
        ELSE {}
  IN {r \in {[entries |-> es, manipulation |-> notes.manipulation, bias |-> notes.bias, size |-> notes.size,
               missing |-> {[severity |-> s, cites |-> ids \cup {<<0, 0>>}] : s \in notes.missing}] :
                notes \in load.notes, es \in UNION {entries(given) : given \in [ids -> load.relations]}} :
       AnalysisTold(r)}

Compare ==
  /\ InStage("compare")
  /\ \E reply \in Replies :
       LET safe == ValidateReferences(reply, claims, evidence, load.length)
       IN IF AnalysisAccepted(reply)
          THEN /\ work' = [work EXCEPT !.entries = safe.entries, !.manipulation = safe.manipulation,
                                       !.missing = safe.missing, !.left = claims]
               /\ Goto("drop_evaluations") /\ UNCHANGED collections /\ Keep
          ELSE Refuse /\ UNCHANGED collections

DropEvaluations ==
  /\ InStage("drop_evaluations") /\ evaluations' = {} /\ Goto("evaluate")
  /\ UNCHANGED <<work, claims, evidence, analysis, media, reports>> /\ Keep

\* The evaluations are created in any order.
Evaluate ==
  /\ InStage("evaluate")
  /\ \E c \in work.left :
       /\ evaluations' = evaluations \cup
                         {EvaluateClaim(c, {e \in evidence : e.claim = c.id}, work.entries)}
       /\ work' = [work EXCEPT !.left = @ \ {c}]
       /\ Goto(IF work.left = {c} THEN "relate" ELSE "evaluate")
  /\ UNCHANGED <<claims, evidence, analysis, media, reports>> /\ Keep

\* applyRelationships; the updates are sent together and a death among them is
\* a death before or after them here.
Relate ==
  /\ InStage("relate") /\ Goto("conclude")
  /\ evidence' = {[e EXCEPT !.relation = Relation(work.entries, e)] : e \in evidence}
  /\ UNCHANGED <<work, claims, evaluations, analysis, media, reports>> /\ Keep

\* claims of work with the verdicts just given them.
Judged(es) ==
  {[id |-> c.id, verifiability |-> c.verifiability, importance |-> c.importance,
    verdict |-> (CHOOSE e \in es : e.claim = c.id).verdict] :
      c \in {d \in claims : \E e \in es : e.claim = d.id}}

Conclude ==
  /\ InStage("conclude") /\ Goto("synthesize")
  /\ LET overall == Overall(Judged(evaluations), work.manipulation, work.missing)
     IN analysis' = [verdict |-> overall.verdict, risk |-> overall.risk,
                     manipulation |-> work.manipulation, missing |-> work.missing]
  /\ UNCHANGED <<work, claims, evidence, evaluations, media, reports>> /\ Keep

-----------------------------------------------------------------------------
(* The report.                                                             *)

\* A claim without an evaluation is unverifiable in the report.
Item(c) ==
  LET of == {v \in evaluations : v.claim = c.id}
      v == CHOOSE x \in of : TRUE
      known == of # {}
  IN [id |-> c.id, verifiability |-> c.verifiability, importance |-> c.importance,
      verdict |-> IF known THEN v.verdict ELSE "UNVERIFIABLE",
      supporting |-> IF known THEN v.supporting ELSE {},
      contradicting |-> IF known THEN v.contradicting ELSE {},
      context |-> IF known THEN v.context ELSE {}, once |-> known => v.once]

Current == {e \in evidence : \E c \in claims : c.id = e.claim}

Snapshot ==
  [status |-> "VALIDATING", fresh |-> work.claims # <<>>,
   verdict |-> IF analysis = NoAnalysis THEN "INSUFFICIENT_EVIDENCE" ELSE analysis.verdict,
   risk |-> IF analysis = NoAnalysis THEN "UNKNOWN" ELSE analysis.risk,
   manipulation |-> analysis.manipulation, missing |-> analysis.missing,
   claims |-> {Item(c) : c \in claims}, evidence |-> Current]

Newest == Len(reports)
Cited(item) == item.supporting \cup item.contradicting \cup item.context

\* validate(): what a report refers to is in it.
Valid(report) ==
  LET ids == {e.id : e \in report.evidence}
  IN /\ \A item \in report.claims : Cited(item) \subseteq ids
     /\ \A m \in report.missing : m.cites \subseteq ids

\* Everything is read, and the report saved as VALIDATING.
SynthesizeReport ==
  /\ InStage("synthesize")
  /\ IF analysis = NoAnalysis /\ ~media THEN Refuse /\ UNCHANGED collections
     ELSE /\ reports' = Append(reports, Snapshot) /\ Goto("validate")
          /\ UNCHANGED <<work, claims, evidence, evaluations, analysis, media>> /\ Keep

SaveInvalid ==
  /\ InStage("validate") /\ ~Valid(reports[Newest])
  /\ reports' = [reports EXCEPT ![Newest].status = "INVALID"]
  /\ Refuse /\ UNCHANGED <<claims, evidence, evaluations, analysis, media>>

Superseded(report) ==
  IF report.status = "COMPLETE" THEN [report EXCEPT !.status = "SUPERSEDED"] ELSE report

Supersede ==
  /\ InStage("validate") /\ Valid(reports[Newest]) /\ Goto("complete")
  /\ reports' = [v \in DOMAIN reports |-> IF v = Newest THEN reports[v] ELSE Superseded(reports[v])]
  /\ UNCHANGED <<work, claims, evidence, evaluations, analysis, media>> /\ Keep

Complete ==
  /\ InStage("complete") /\ Goto("finish")
  /\ reports' = [reports EXCEPT ![Newest].status = "COMPLETE"]
  /\ UNCHANGED <<work, claims, evidence, evaluations, analysis, media>> /\ Keep

FinishPass ==
  /\ InStage("finish") /\ Goto("idle") /\ status' = "COMPLETED" /\ work' = Idle
  /\ UNCHANGED <<load, pass, collections, exercise, bounds>>

Worker ==
  \/ Start \/ CallFails \/ WorkerDies
  \/ ReadImage \/ ReadVideo \/ Transcribe \/ ReadWritten
  \/ ExtractClaims \/ DropClaims \/ InsertClaims \/ Prepare
  \/ DropEvidence \/ Search \/ Record \/ SearchEnds
  \/ Compare \/ DropEvaluations \/ Evaluate \/ Relate \/ Conclude
  \/ SynthesizeReport \/ SaveInvalid \/ Supersede \/ Complete \/ FinishPass

-----------------------------------------------------------------------------
(* Requests to the guided exercise: "get", or answers to submit. "partial" *)
(* answers leave a question out.                                           *)

In(p, at) == frame[p].at = at
Move(p, at) == frame' = [frame EXCEPT ![p].at = at]
Quiet == UNCHANGED <<load, status, pass, stage, work, collections, bounds>>
Submits(p) == frame[p].call # "get"

FindSession(p) ==
  /\ In(p, "load")
  /\ frame' = [frame EXCEPT ![p].copy = session, ![p].at =
       IF session.status = "none" \/ (Submits(p) /\ (session.status # "READY" \/ frame[p].call = "partial"))
       THEN "refused"
       ELSE IF Submits(p) THEN "save" ELSE "sync"]
  /\ UNCHANGED <<session, learned>> /\ Quiet

\* Setting an array makes Mongoose compare the version it loaded.
\* Mutant: the write is not conditional.
AnyVersion(copy) == TRUE
SameVersion(copy) == copy.version = session.version

SaveAnswers(p) ==
  /\ In(p, "save")
  /\ LET answered == [session EXCEPT !.status = "SUBMITTED", !.answers = frame[p].call, !.version = @ + 1]
     IN IF SameVersion(frame[p].copy)
        THEN session' = answered /\ frame' = [frame EXCEPT ![p].copy = answered, ![p].at = "sync"]
        ELSE UNCHANGED session /\ Move(p, "error")
  /\ UNCHANGED learned /\ Quiet

\* syncCompetencyEvidence, of submissions and of every later look at them.
SyncEvidence(p) ==
  /\ In(p, "sync")
  /\ IF frame[p].copy.status = "READY" THEN Move(p, "done") /\ UNCHANGED learned
     ELSE /\ learned' = learned \cup {frame[p].copy.answers}
          /\ Move(p, "read")
  /\ UNCHANGED session /\ Quiet

\* The latest report, in whatever state it is.
ReadReport(p) ==
  /\ In(p, "read")
  /\ frame' = [frame EXCEPT ![p].verdict = IF Newest = 0 THEN "none" ELSE reports[Newest].verdict,
                            ![p].at = IF Newest = 0 THEN "done" ELSE "save_feedback"]
  /\ UNCHANGED <<session, learned>> /\ Quiet

\* Feedback that is what it was is not written, and nothing is compared.
SaveFeedback(p) ==
  /\ In(p, "save_feedback")
  /\ LET same == frame[p].verdict = frame[p].copy.feedback
         version == session.version + (IF same THEN 0 ELSE 1)
     IN IF same \/ frame[p].copy.version = session.version
        THEN /\ session' = [session EXCEPT !.status = "FEEDBACK_READY", !.version = version,
                              !.feedback = IF same THEN @ ELSE frame[p].verdict]
             /\ Move(p, "done")
        ELSE UNCHANGED session /\ Move(p, "error")
  /\ UNCHANGED learned /\ Quiet

InFlight(p) == frame[p].at \in {"load", "save", "sync", "read", "save_feedback"}

RequestFails(p) ==
  /\ InFlight(p) /\ mishaps > 0 /\ mishaps' = mishaps - 1
  /\ Move(p, "error")
  /\ UNCHANGED <<load, status, pass, stage, work, collections, session, learned, crashes>>

Client(p) ==
  \/ FindSession(p) \/ SaveAnswers(p) \/ SyncEvidence(p) \/ ReadReport(p) \/ SaveFeedback(p)
  \/ RequestFails(p)

InvestigationNext == Worker \/ \E p \in Clients : Client(p)

InvestigationSpec == InvestigationInit /\ [][InvestigationNext]_investigationVars

-----------------------------------------------------------------------------
(* Properties.                                                             *)

Published == {v \in DOMAIN reports : reports[v].status \in {"COMPLETE", "SUPERSEDED"}}

\* docs/reports.md:3-5: a report is a snapshot of recorded data. Whatever passes
\* failed, died or repeated before it, each source a published report counts for
\* or against a claim is in that report, was found for that very claim, could be
\* read and is no copy of another.
CountedSourcesStand ==
  \A v \in Published : \A item \in reports[v].claims : \A id \in Cited(item) :
    \E e \in reports[v].evidence : /\ e.id = id /\ e.claim = item.id
                                   /\ e.access \in Readable /\ e.lineage = "UNIQUE"

\* docs/evidence.md:32-38: two sources that count for one claim differ in their
\* canonical address and in their text, whatever copies the searches returned.
IndependentOnce ==
  \A v \in evaluations : \A e, f \in {x \in evidence : x.id \in Cited(v)} :
    e # f => /\ e.canonical # f.canonical
             /\ e.hash # f.hash \/ e.hash = "none"

\* What a report stands on, without a look at any other collection: sources that
\* were found for their claim, could be read, and count once.
ReportStandsAlone == CountedSourcesStand /\ IndependentOnce

\* docs/verification-analysis.md:31-38: the report of a pass that read text says
\* of the whole what its own claims and findings give, and of each source the
\* relation it was counted for. A model that speaks twice of a claim is left out: the
\* claim is then judged by what was said first and its sources marked by the last.
VerdictsFollow ==
  \A v \in Published : reports[v].fresh =>
    LET r == reports[v]
        judged == {[id |-> item.id, verifiability |-> item.verifiability,
                    importance |-> item.importance, verdict |-> item.verdict] : item \in r.claims}
        marked(item, relation) == {e.id : e \in {x \in r.evidence :
                                     /\ x.claim = item.id /\ x.relation = relation
                                     /\ x.access \in Readable /\ x.lineage = "UNIQUE"}}
    IN /\ [verdict |-> r.verdict, risk |-> r.risk] = Overall(judged, r.manipulation, r.missing)
       /\ \A item \in r.claims : item.once =>
            /\ item.supporting = marked(item, "SUPPORTS")
            /\ item.contradicting = marked(item, "CONTRADICTS")

\* claim-extraction.service.ts:96-149 (queries are asked for every claim that is verifiable,
\* be it in part): none is judged without having been searched for, however the model answered. An English claim is left out when
\* the model first gives every text of a query in another language: it is judged
\* unsearched, also if the text comes again in English.
VerifiableIsSearched ==
  InStage("compare") => \A i \in DOMAIN work.claims :
    LET claim == work.claims[i]
    IN claim.verifiability \in Verifiable => claim.queries # <<>> \/ claim.foreign

\* A report explains itself: its verdicts follow from what it shows, and each claim it
\* judges was searched for first.
ReportExplainsItself == VerdictsFollow /\ VerifiableIsSearched

\* guided-investigation.service.ts:325 ("Your original answers are preserved"):
\* answers once submitted are never replaced, however submissions race.
KeptAnswers ==
  [][session.status \in {"SUBMITTED", "FEEDBACK_READY"} => session'.answers = session.answers]_investigationVars

\* Every request that shows submitted answers has seen to it that they count as
\* competency evidence, also after the submission itself was cut off.
AnsweredIsLearned ==
  \A p \in Clients :
    In(p, "done") /\ frame[p].copy.status \notin {"none", "READY"} => session.answers \in learned

\* The guided exercise keeps what its owner answered and counts it.
GuidedHolds == KeptAnswers /\ []AnsweredIsLearned
=============================================================================
