------------------------------ MODULE Judgement ------------------------------
(***************************************************************************)
(* How evidence becomes a verdict (verification-analysis.service): the     *)
(* pure part of the analysis, from what the model returned and what was    *)
(* retrieved to claim verdicts, the overall verdict and the risk.          *)
(*                                                                         *)
(* Numbers are integers: quality in halves, authority in tenths,           *)
(* directness and recency in hundredths, confidence in thousandths. The    *)
(* arithmetic is exact where the code uses binary fractions.               *)
(***************************************************************************)
EXTENDS Integers, Sequences, FiniteSetsExt

Readable == {"AVAILABLE", "PARTIALLY_AVAILABLE"}
Verifiable == {"VERIFIABLE", "PARTIALLY_VERIFIABLE"}

-----------------------------------------------------------------------------
(* References. An answer has entries [claim, links], links the relation of *)
(* each record it names; a claim may have several entries. A finding is     *)
(* exact when its phrase is what stands at its offsets.                    *)

OwnEvidence(link, evidence) == \E e \in evidence : e.id = link.evidence /\ e.claim = link.claim

ValidateReferences(output, claims, evidence, length) ==
  LET known(entry) == \E c \in claims : c.id = entry.claim
      own(entry) == {id \in DOMAIN entry.links :
                       OwnEvidence([claim |-> entry.claim, evidence |-> id], evidence)}
      \* The entries of other claims leave gaps in the positions.
      entries == {i \in DOMAIN output.entries : known(output.entries[i])}
  IN [entries |-> [i \in entries |-> [output.entries[i] EXCEPT
                                        !.links = Restrict(@, own(output.entries[i]))]],
      manipulation |-> {m \in output.manipulation : m.end > m.start /\ m.end <= length /\ m.exact},
      missing |-> {[m EXCEPT !.cites = @ \cap {e.id : e \in evidence}] : m \in output.missing}]

\* The first entry of a claim is the one it is judged by.
Links(entries, claim) ==
  LET of == {i \in DOMAIN entries : entries[i].claim = claim}
  IN IF of = {} THEN <<>> ELSE entries[Min(of)].links

\* The relation stored with a record: what the last entry that names it says.
Relation(entries, e) ==
  LET naming == {i \in DOMAIN entries : e.id \in DOMAIN entries[i].links}
  IN IF naming = {} THEN "INCONCLUSIVE" ELSE entries[Max(naming)].links[e.id]

-----------------------------------------------------------------------------
(* Confidence of a claim.                                                  *)

Quality(e) == IF e.access = "AVAILABLE" THEN 2 ELSE 1
Tenths == [HIGH |-> 10, MODERATE |-> 7, UNKNOWN |-> 5, INSUFFICIENT_INFORMATION |-> 0]
Weight(es) == MapThenSumSet(Quality, es)
Larger(a, b) == IF a > b THEN a ELSE b
Smaller(a, b) == IF a < b THEN a ELSE b

\* Round to the nearest integer, halves up.
Rounded(num, den) == (2 * num + den) \div (2 * den)

Confidence(available, supporting, contradicting) ==
  LET all == Weight(available)
      s == Weight(supporting)
      c == Weight(contradicting)
      whole == IF all = 0 THEN 1 ELSE all
      related == IF s + c = 0 THEN 1 ELSE s + c
      authority == MapThenSumSet(LAMBDA e : Quality(e) * Tenths[e.authority], available)
      directness == MapThenSumSet(LAMBDA e : Quality(e) * e.directness, available)
      recency == MapThenSumSet(LAMBDA e : Quality(e) * e.recency, available)
      primary == \E e \in available : e.access = "AVAILABLE" /\ e.authority = "HIGH"
      \* Of whole * related.
      weighted == related * (20 * authority + 2 * directness) + (related * recency) \div 2
  IN Rounded(weighted + 200 * Larger(s, c) * whole, whole * related)
       + 25 * Smaller(all, 10) + (IF primary THEN 50 ELSE 0) + 50

-----------------------------------------------------------------------------
(* Verdicts.                                                               *)

\* The sources that count: accessible, and not a copy of an earlier one.
\* Mutant: copies count as well.
WithCopies(found) == {e \in found : e.access \in Readable}
Available(found) == {e \in found : e.access \in Readable /\ e.lineage = "UNIQUE"}

Verdict(claim, supports, contradicts, context, confidence) ==
  CASE claim.verifiability \notin Verifiable -> "UNVERIFIABLE"
    [] claim.verifiability \in Verifiable /\ supports \cup contradicts = {} ->
         "INSUFFICIENT_EVIDENCE"
    [] claim.verifiability \in Verifiable /\ supports \cup contradicts # {} ->
         IF confidence < 350 THEN "INSUFFICIENT_EVIDENCE"
         ELSE IF supports # {} /\ contradicts # {} THEN "MIXED"
         ELSE IF contradicts # {}
              THEN IF context # {} THEN "MISLEADING" ELSE "CONTRADICTED"
              ELSE IF context # {} THEN "MOSTLY_SUPPORTED" ELSE "SUPPORTED"

EvaluateClaim(claim, found, entries) ==
  LET available == Available(found)
      links == Links(entries, claim.id)
      related(r) == {e \in available : e.id \in DOMAIN links /\ links[e.id] = r}
      ids(es) == {e.id : e \in es}
      s == related("SUPPORTS")
      c == related("CONTRADICTS")
      x == related("PROVIDES_CONTEXT")
  IN [claim |-> claim.id, verdict |-> Verdict(claim, s, c, x, Confidence(available, s, c)),
      supporting |-> ids(s), contradicting |-> ids(c), context |-> ids(x),
      \* History: whether one entry spoke of the claim.
      once |-> Quantify(DOMAIN entries, LAMBDA i : entries[i].claim = claim.id) <= 1]

-----------------------------------------------------------------------------
(* The whole verification. judged is a set of [id, verifiability,          *)
(* importance, verdict].                                                   *)

Importance == [HIGH |-> 3, MEDIUM |-> 2, LOW |-> 1]
Score ==
  [SUPPORTED |-> 100, MOSTLY_SUPPORTED |-> 75, MIXED |-> 50, MISLEADING |-> 30,
   CONTRADICTED |-> 10, INSUFFICIENT_EVIDENCE |-> 50, UNVERIFIABLE |-> 50]

Overall(judged, manipulation, missing) ==
  LET counted == {c \in judged : c.verifiability \in Verifiable}
      total == MapThenSumSet(LAMBDA c : Importance[c.importance], counted)
      points == IF total = 0 THEN 50
                ELSE MapThenSumSet(LAMBDA c : Score[c.verdict] * Importance[c.importance],
                                   counted)
      \* The evidence score is at least h hundredths.
      atLeast(h) == points >= h * (IF total = 0 THEN 1 ELSE total)
      insufficient == \A c \in counted : c.verdict \in {"INSUFFICIENT_EVIDENCE", "UNVERIFIABLE"}
      high == Quantify(manipulation, LAMBDA m : m.severity = "HIGH")
                + Quantify(missing, LAMBDA m : m.severity = "HIGH")
      adverse == \E c \in counted : c.importance = "HIGH"
                                      /\ c.verdict \in {"MISLEADING", "CONTRADICTED"}
      verdict == IF insufficient THEN "INSUFFICIENT_EVIDENCE"
                 ELSE IF atLeast(85) THEN "SUPPORTED"
                 ELSE IF atLeast(65) THEN "MOSTLY_SUPPORTED"
                 ELSE IF atLeast(45) THEN "MIXED"
                 ELSE IF high > 0 THEN "MISLEADING"
                 ELSE IF atLeast(20) THEN "UNSUPPORTED" ELSE "CONTRADICTED"
      risk == IF insufficient THEN "UNKNOWN"
              ELSE IF adverse /\ high >= 2 THEN "CRITICAL"
              ELSE IF adverse \/ high >= 2 THEN "HIGH"
              ELSE IF high = 1 \/ ~atLeast(50) THEN "MODERATE" ELSE "LOW"
  IN [verdict |-> verdict, risk |-> risk]
=============================================================================
