------------------------------ MODULE Retrieval ------------------------------
(***************************************************************************)
(* How a page becomes text and evidence: safe-fetch, article extraction,   *)
(* search routing and the evidence record with its lineage. A page is a    *)
(* record of what the properties tell apart: the answer of its server, how *)
(* much text it has, the wall in front of it, and what the search provider *)
(* knows of it.                                                            *)
(***************************************************************************)
EXTENDS Integers, Sequences, SequencesExt, FiniteSetsExt

-----------------------------------------------------------------------------
(* Fetching: the answer is an HTTP status, a redirect chain, or a failure. *)

\* safe-fetch: what the caller sees of the answer; "OK" has a body.
FetchCode(answer) ==
  CASE answer = "200" -> "OK"
    [] answer = "404" -> "URL_NOT_FOUND"
    [] answer = "401" -> "URL_LOGIN_REQUIRED"
    [] answer = "403" -> "URL_ACCESS_BLOCKED"
    [] answer = "429" -> "URL_RATE_LIMITED"
    [] answer = "5xx" -> "URL_TEMPORARY_NETWORK_FAILURE"
    [] answer = "204" -> "URL_CONTENT_EMPTY"
    [] answer = "pdf" -> "URL_CONTENT_TYPE_UNSUPPORTED"
    [] answer = "huge" -> "URL_RESPONSE_TOO_LARGE"
    [] answer = "slow" -> "URL_FETCH_TIMEOUT"
    [] answer = "loop" -> "URL_REDIRECT_LIMIT_EXCEEDED"
    [] answer = "private" -> "VALIDATION_ERROR"
    [] OTHER -> "URL_FETCH_UNAVAILABLE"

-----------------------------------------------------------------------------
(* Extracting. Text has a number of characters, 0, 10, 50, 200, 700 or     *)
(* 1500: one of each class that the thresholds 20, 100, 500 and 1000 make. *)

\* What the page shows beside or instead of its text decides first.
ExtractionState(page) ==
  LET wall(w, below) == page.wall = w /\ page.length < below
  IN CASE page.kind = "SOCIAL_OTHER" /\ page.wall = "social" -> "LOGIN_REQUIRED"
       [] page.kind = "SOCIAL_X" /\ wall("login", 500) -> "SOCIAL_CONTENT_RESTRICTED"
       [] wall("robot", 500) -> "AUTOMATION_BLOCKED"
       [] wall("script", 500) -> "JAVASCRIPT_REQUIRED"
       [] page.kind # "SOCIAL_X" /\ wall("login", 500) -> "LOGIN_REQUIRED"
       [] wall("subscribe", 1000) -> "PAYWALLED"
       [] OTHER -> IF page.length >= 500 THEN "EXTRACTED"
                   ELSE IF page.length >= 100 \/ (page.length >= 20 /\ page.prose)
                        THEN "PARTIALLY_EXTRACTED"
                   ELSE IF page.length = 0 THEN "CONTENT_EMPTY" ELSE "CONTENT_UNREADABLE"

ReadableStates == {"EXTRACTED", "PARTIALLY_EXTRACTED"}
Article(state, length, direct) == [state |-> state, length |-> length, direct |-> direct, code |-> "OK"]
Failure(code) == [state |-> "none", length |-> 0, direct |-> FALSE, code |-> code]

\* Only a submitted URL is looked up at the search provider when it cannot be fetched:
\* the extraction of evidence passes no options.
ProviderFallback(page) == page.raw >= 20

ExtractArticle(page, submitted) ==
  LET code == FetchCode(page.answer)
  IN IF code = "OK" THEN Article(ExtractionState(page), page.length, TRUE)
     ELSE IF submitted /\ ProviderFallback(page)
          THEN Article(IF page.raw >= 500 THEN "EXTRACTED" ELSE "PARTIALLY_EXTRACTED",
                       page.raw, FALSE)
     ELSE IF page.kind = "SOCIAL_X"
               /\ code \in {"URL_ACCESS_BLOCKED", "URL_CONTENT_TYPE_UNSUPPORTED"}
          THEN Failure("SOCIAL_CONTENT_RESTRICTED")
     ELSE Failure(code)

-----------------------------------------------------------------------------
(* Searching. A route is what each configured provider would answer:       *)
(* "error" or a sequence of pages.                                         *)

ProviderFailed(answer) == answer = "error"
\* At most two providers are asked, the second only when the first raised.
Routed(route) ==
  LET asked == SubSeq(route, 1, IF Len(route) < 2 THEN Len(route) ELSE 2)
      good == {i \in DOMAIN asked : ~ProviderFailed(asked[i])}
  IN IF good = {} THEN [failed |-> TRUE, found |-> <<>>]
     ELSE [failed |-> FALSE, found |-> asked[Min(good)]]

-----------------------------------------------------------------------------
(* Retrieving a search result, and the evidence record it becomes.         *)

Retrieve(page) ==
  LET article == ExtractArticle(page, FALSE)
  IN IF article.code = "OK" THEN article
     ELSE IF article.code # "VALIDATION_ERROR" /\ page.raw >= 100
          THEN [Article("PARTIALLY_EXTRACTED", page.raw, FALSE) EXCEPT !.code = article.code]
     ELSE article

Has(article) == article.state \in ReadableStates

AccessStatus(article) ==
  LET is(code, state) == article.code = code \/ article.state = state
  IN IF Has(article)
     THEN IF article.state = "EXTRACTED" THEN "AVAILABLE" ELSE "PARTIALLY_AVAILABLE"
     ELSE IF is("URL_NOT_FOUND", "NOT_FOUND") THEN "NOT_FOUND"
     ELSE IF is("URL_ACCESS_BLOCKED", "BLOCKED") THEN "BLOCKED"
     ELSE IF is("URL_FETCH_TIMEOUT", "TIMEOUT") THEN "TIMEOUT"
     ELSE IF is("VALIDATION_ERROR", "UNSAFE_URL") THEN "UNSAFE_URL"
     ELSE IF article.state # "none" THEN "UNSUPPORTED" ELSE "FETCH_FAILED"

\* In hundredths: how much of the directness an extraction keeps.
ExtractionQuality(page, article) ==
  IF article.state = "EXTRACTED" THEN 100
  ELSE IF ~article.direct THEN 45
  ELSE IF page.kind = "SOCIAL_OTHER" THEN 40 ELSE 65

ToEvidence(id, claim, page) ==
  LET article == Retrieve(page)
  IN [id |-> id, claim |-> claim,
      \* A page that was not read has no canonical link.
      canonical |-> IF article.direct THEN page.canonical ELSE page.url,
      hash |-> IF Has(article) THEN page.text ELSE "none",
      title |-> page.title, publisher |-> IF article.direct THEN page.publisher ELSE "none",
      access |-> AccessStatus(article), authority |-> page.authority,
      directness |-> IF Has(article)
                     THEN (page.overlap * ExtractionQuality(page, article)) \div 100 ELSE 0,
      recency |-> IF article.direct THEN page.recency ELSE 0,
      relation |-> "INCONCLUSIVE", lineage |-> "UNIQUE", of |-> id]

SameSource(e, document) ==
  \/ e.canonical = document.canonical
  \/ document.hash # "none" /\ e.hash = document.hash

\* The record with what an earlier record of its claim makes of it.
WithLineage(document, evidence) ==
  LET earlier == {e \in evidence : e.claim = document.claim}
      exact == {e \in earlier : SameSource(e, document)}
      alike == {e \in earlier : /\ document.publisher \in {"none", e.publisher}
                                /\ e.title = document.title}
      after(es, type) == [document EXCEPT !.lineage = type, !.of = (CHOOSE e \in es : TRUE).id]
  IN IF exact # {} THEN after(exact, "DUPLICATE")
     ELSE IF alike # {} THEN after(alike, "SYNDICATED_CANDIDATE") ELSE document

-----------------------------------------------------------------------------
(* Queries of a claim: what the model generated, completed and cut.        *)
(* A query is [key, language, source].                                     *)

\* The elements of s at these positions, in their order.
Picked(s, positions) ==
  [k \in 1..Cardinality(positions) |->
     s[CHOOSE i \in positions : Cardinality({j \in positions : j <= i}) = k]]

\* The first query of each text, whatever language it is in.
Firsts(queries) == {i \in DOMAIN queries : \A j \in DOMAIN queries :
                                             j < i => queries[j].key # queries[i].key}
Deduplicate(queries) == Picked(queries, Firsts(queries))

FirstOr(queries, language, source, fallback) ==
  LET fit == SelectSeq(queries, LAMBDA q : q.language = language /\ q.source = source)
  IN IF fit = <<>> THEN fallback ELSE Head(fit)

MultilingualQueries(draft, language, max) ==
  LET distinct == Deduplicate(draft.generated)
      normalized == Picked(distinct, {i \in DOMAIN distinct : distinct[i].language \in {language, "en"}})
      cut(qs) == SubSeq(qs, 1, IF Len(qs) < max THEN Len(qs) ELSE max)
      query(key, l, source) == [key |-> key, language |-> l, source |-> source]
      original == FirstOr(normalized, language, "ORIGINAL_CLAIM",
                          query(draft.text, language, "ORIGINAL_CLAIM"))
      canonical == FirstOr(normalized, "en", "CANONICAL_CLAIM",
                           query(draft.canonical, "en", "CANONICAL_CLAIM"))
  IN IF language = "en"
     THEN cut([i \in DOMAIN normalized |-> [normalized[i] EXCEPT !.source = "ORIGINAL_CLAIM"]])
     ELSE cut(Deduplicate(<<original, canonical>>))
=============================================================================
