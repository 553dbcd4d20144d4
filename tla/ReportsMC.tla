------------------------------ MODULE ReportsMC ------------------------------
(* From a source to the report its readers see, in one scene chosen at the  *)
(* start: the investigation of a source (Investigation), two requests that  *)
(* meet the jobs of one verification (Verification), the versions of a      *)
(* report that its owner shares (Sharing), its translation (Localization)   *)
(* and the events a client follows (Stream).                                *)
EXTENDS Investigation, Verification, Sharing, Localization, Stream

CONSTANTS r1, r2

VARIABLE scene

-----------------------------------------------------------------------------
(* The sources an investigation may be about.                              *)

page(url, canonical, answer, length, text) ==
  [url |-> url, canonical |-> canonical, answer |-> answer, length |-> length, prose |-> TRUE,
   wall |-> "none", kind |-> "STANDARD", raw |-> 0, text |-> text, title |-> url,
   publisher |-> url, authority |-> "UNKNOWN", overlap |-> 90, recency |-> 50]

\* A government page, a copy of its text, the page behind a tracking address, a short
\* social post, a page only the search provider could read, and one nobody could.
Gov == [page("gov", "gov", "200", 1500, "t1") EXCEPT !.authority = "HIGH"]
Copy == page("copy", "copy", "200", 1500, "t1")
Alias == page("alias", "gov", "200", 700, "t2")
Post == [page("post", "post", "200", 50, "t3") EXCEPT !.kind = "SOCIAL_OTHER", !.overlap = 30]
Walled == [page("walled", "walled", "403", 0, "t4") EXCEPT !.raw = 200]
Gone == page("gone", "gone", "404", 0, "t5")
Wire == [page("wire", "wire", "200", 700, "t6") EXCEPT !.title = "gov", !.publisher = "gov"]

draft(key, verifiability, importance) ==
  [size |-> "fit", start |-> 0, end |-> 2, overlap |-> 100, quoted |-> "no", words |-> 2, text |-> key, canonical |-> key, verifiability |-> verifiability,
   importance |-> importance, generated |-> <<[key |-> key, language |-> "en", source |-> "CANONICAL_CLAIM"]>>]
D1 == draft("q1", "VERIFIABLE", "HIGH")
D2 == draft("q2", "PARTIALLY_VERIFIABLE", "LOW")
D3 == draft("q1", "VERIFIABLE", "MEDIUM")
Opinion == draft("q3", "OPINION", "HIGH")
\* Claims whose span is wrong: one is found by its words, one is not.
Found == [D1 EXCEPT !.start = 2, !.end = 1, !.quoted = "spaced"]
Lost == [D1 EXCEPT !.overlap = 60]
Abroad == [D1 EXCEPT !.generated = <<[key |-> "q1", language |-> "yo", source |-> "CANONICAL_CLAIM"]>>]
\* The same text twice, first in a language nobody asked for.
Twice == [Abroad EXCEPT !.generated = @ \o D1.generated]
Brief == [D1 EXCEPT !.size = "short"]

web(first, second) == <<"en", "q1">> :> first @@ <<"en", "q2">> :> second
High == [severity |-> "HIGH", start |-> 0, end |-> 1, exact |-> TRUE]
Inexact == [High EXCEPT !.exact = FALSE]
NoNotes == [manipulation |-> {}, missing |-> {}, bias |-> <<1, 2>>, size |-> "fit"]
RefusedNotes == {[NoNotes EXCEPT !.bias = <<1, 1>>], [NoNotes EXCEPT !.size = "long"],
            [NoNotes EXCEPT !.manipulation = {[High EXCEPT !.end = 0]}]}
Asset == [attached |-> TRUE, trusted |-> TRUE, answers |-> TRUE, type |-> "video/webm", size |-> 10, max |-> 50]
Picture == [Asset EXCEPT !.type = "image/png"]
Assets == {Asset, Picture, [Asset EXCEPT !.attached = FALSE], [Picture EXCEPT !.answers = FALSE],
           [Asset EXCEPT !.size = 20], [Picture EXCEPT !.size = 20]}

Base ==
  [source |-> "TEXT", mode |-> "STANDARD", language |-> "en", queries |-> 2, passes |-> 1, faults |-> 0,
   crashes |-> 0, length |-> 2, assets |-> {Asset, Picture}, pages |-> {Gov}, drafts |-> {<<D1>>},
   web |-> web(<<<<Gov>>>>, <<<<Copy>>>>), relations |-> {"SUPPORTS"}, crossed |-> FALSE,
   notes |-> {NoNotes}, calls |-> <<>>]

\* Wide: every source kind and wall, claims and sources of every kind, one pass.
Pages == {[Gov EXCEPT !.answer = a, !.length = l, !.wall = w, !.raw = r] :
            a \in {"200", "403", "slow", "private"}, l \in {0, 50, 200, 700},
            w \in {"none", "login", "subscribe"}, r \in {0, 50}}
Wide ==
  {[Base EXCEPT !.source = "URL", !.pages = Pages],
   [Base EXCEPT !.notes = {NoNotes} \cup RefusedNotes],
   [Base EXCEPT !.drafts = {<<D1, D2>>, <<D1, Opinion>>, <<Lost, D3, Opinion>>, <<Lost>>, <<Brief>>, <<Found>>, <<Abroad, D2>>, <<D2, Twice>>}, !.crossed = TRUE,
      !.web = web(<<<<Gov, Copy>>>>, <<"error", <<Gov, Gone>>>>),
      !.relations = {"SUPPORTS", "CONTRADICTS", "PROVIDES_CONTEXT"},
      !.notes = {NoNotes, [NoNotes EXCEPT !.manipulation = {High, Inexact}, !.missing = {"HIGH"}]}]}
  \cup {[Base EXCEPT !.source = s, !.assets = Assets] : s \in {"IMAGE", "VIDEO", "AUDIO"}}
  \cup {[Base EXCEPT !.web = w, !.relations = {"SUPPORTS", "CONTRADICTS", "INCONCLUSIVE"},
           !.drafts = {<<D1>>, <<D1, D3>>}, !.language = l] :
          l \in {"en", "yo"},
          w \in {web(<<<<Gov, Alias, Copy>>>>, <<>>), web(<<<<Walled, Gone, Post>>>>, <<>>),
                 web(<<"error", "error">>, <<>>), web(<<<<Gov, Wire, Post>>>>, <<>>)}}

\* Repeated: an image, video or recording processed three times with failures and a death.
Repeated ==
  {[Base EXCEPT !.source = s, !.passes = 3, !.faults = 2,
      !.crashes = 1, !.relations = {"SUPPORTS", "CONTRADICTS"},
      !.notes = {NoNotes, [NoNotes EXCEPT !.missing = {"LOW"}]}] :
     s \in {"IMAGE", "AUDIO"}}

\* Guided: two submissions and a look while the worker makes two passes; a submission
\* that leaves a question out.
Guided ==
  LET guided == [Base EXCEPT !.source = "IMAGE", !.mode = "GUIDED", !.faults = 1]
  IN {[guided EXCEPT !.passes = 2, !.faults = 0, !.calls = <<"a", "b", "get">>],
      [guided EXCEPT !.calls = <<"a", "partial", "get">>]}

AllLoads == Wide \cup Repeated \cup Guided

-----------------------------------------------------------------------------
Scenes == {"investigation", "life", "sharing", "translation", "stream"}

\* Where the investigation or the sharing is not played, its start is chosen for it; where
\* the sharing is, the first version is shared or private as the investigation is.
MCInit ==
  /\ scene \in Scenes
  /\ InvestigationInit /\ Init /\ SharingInit /\ LocalizationInit /\ StreamInit
  /\ scene # "investigation" => load = CHOOSE l \in Loads : TRUE
  /\ issued = IF investigation.visibility = "PRIVATE" THEN 0 ELSE 1
  /\ scene # "sharing" => issued = 0

MCNext ==
  /\ UNCHANGED scene
  /\ \/ /\ scene = "investigation" /\ InvestigationNext
        /\ UNCHANGED <<vars, sharingVars, localizationVars, streamVars>>
     \/ /\ scene = "life" /\ Next
        /\ UNCHANGED <<investigationVars, sharingVars, localizationVars, streamVars>>
     \/ /\ scene = "sharing" /\ SharingNext
        /\ UNCHANGED <<investigationVars, vars, localizationVars, streamVars>>
     \/ /\ scene = "translation" /\ LocalizationNext
        /\ UNCHANGED <<investigationVars, vars, sharingVars, streamVars>>
     \/ /\ scene = "stream" /\ StreamNext
        /\ UNCHANGED <<investigationVars, vars, sharingVars, localizationVars>>

MCSpec == MCInit /\ [][MCNext]_<<scene, investigationVars, vars, sharingVars, localizationVars, streamVars>>

TwoRequests == {r1, r2}
\* An unlisted report is served as a public one is.
OwnersWishes == {"PUBLIC", "PRIVATE", "revoke", "remove"}
OwnersOperations == {"cancel", "retry", "reprocess", "remove"}
Symmetry == Permutations(TwoRequests)

=============================================================================
