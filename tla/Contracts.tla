------------------------------ MODULE Contracts ------------------------------
(***************************************************************************)
(* What an investigation asks a model for and what it takes for an answer: *)
(* the JSON schema told to the provider, which bounds what may arrive (the *)
(* ...Told definitions), the validator that then accepts or refuses the    *)
(* whole answer (...Accepted), and where a claim is found in its source.   *)
(* A part of an answer whose size the schema leaves open is "short",       *)
(* "long" or "fit"; names and enumerations are promised by the schema.     *)
(***************************************************************************)
EXTENDS Integers, Sequences, FiniteSets, SequencesExt

-----------------------------------------------------------------------------
(* Media: the asset that is read, and what is seen or heard in it.         *)

\* An asset is [attached, trusted, answers, type, size], its size in megabytes.
InlineTypes ==
  [IMAGE |-> {"image/png"}, VIDEO |-> {"video/mp4", "video/webm"},
   AUDIO |-> {"audio/mpeg", "application/ogg", "video/webm"}]
InlineLimit(kind, max) == IF kind = "VIDEO" \/ max < 15 THEN max ELSE 15

Attached(asset) == asset.attached /\ asset.trusted
\* The bytes are sent along with the prompt.
Inline(kind, asset) ==
  /\ Attached(asset) /\ asset.answers
  /\ asset.type \in InlineTypes[kind] /\ asset.size <= InlineLimit(kind, asset.max)

Texts == {"text", "blank", "empty"}

ImageTold == [text : Texts, lines : {"fit", "long"}]
ImageAccepted(r) == r.lines = "fit"

\* Observations carry a time, in the form asked for or in another.
VideoTold == [spoken : Texts, screen : BOOLEAN, moments : {"none", "timed", "odd"}]
VideoAccepted(r) == r.moments # "odd"
\* Headings go before what was found, so the text of a video is never blank.
VideoText(r) ==
  IF r.spoken = "text" \/ r.screen \/ r.moments # "none" THEN "text" ELSE "empty"

AudioTold == [text : Texts, segments : {"ordered", "reversed"}]
AudioAccepted(r) == r.text # "empty" /\ r.segments = "ordered"

-----------------------------------------------------------------------------
(* Claims: a draft has its text's size, the span the model gives and how   *)
(* much of the claim is under it, and how the claim is quoted in the text. *)

ClaimsTold(drafts, maxClaims) ==
  /\ Len(drafts) \in 1..maxClaims
  /\ \A i \in DOMAIN drafts : drafts[i].start >= 0 /\ drafts[i].end >= 1

ClaimsAccepted(drafts, maxClaims) ==
  ClaimsTold(drafts, maxClaims) /\ \A i \in DOMAIN drafts : drafts[i].size = "fit"

\* In hundredths: the words of the claim that are also under its span.
TokenOverlap(draft) == draft.overlap

\* The span given, the claim's own words, or its words with other marks between.
ResolveSourceSpan(draft, length) ==
  \/ draft.end > draft.start /\ draft.end <= length /\ TokenOverlap(draft) >= 65
  \/ draft.quoted = "exact"
  \/ draft.quoted = "spaced" /\ draft.words >= 2

\* A sheet of queries: for some of the expected claims, by sequence, their queries.
QueriesTold(sheet, expected, maxQueries) ==
  \A i \in DOMAIN sheet : /\ sheet[i].sequence \in expected
                          /\ Len(sheet[i].queries) \in 1..maxQueries

\* Mutant: the entries are only counted.
CountedOnly(sheet, expected) == Len(sheet) = Cardinality(expected)
Unique(sheet, expected) ==
  /\ Len(sheet) = Cardinality(expected)
  /\ \A i, j \in DOMAIN sheet : i # j => sheet[i].sequence # sheet[j].sequence

QueriesAccepted(sheet, expected, maxQueries) ==
  /\ QueriesTold(sheet, expected, maxQueries)
  /\ Unique(sheet, expected)

-----------------------------------------------------------------------------
(* Analysis: entries of [claim, links], findings and bias metrics.         *)

BiasMetrics == 1..2   \* seven in the code; two tell apart once, twice and never

\* As many metrics as there are, whichever they are.
AnalysisTold(r) == r.bias \in [BiasMetrics -> BiasMetrics]

\* Every metric once, offsets in range, and no text or list too long. A claim may
\* have several entries.
AnalysisAccepted(r) ==
  /\ AnalysisTold(r)
  /\ \A m, n \in BiasMetrics : m # n => r.bias[m] # r.bias[n]
  /\ \A m \in r.manipulation : m.start >= 0 /\ m.end >= 1
  /\ r.size = "fit"
=============================================================================
