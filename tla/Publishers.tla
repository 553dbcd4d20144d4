------------------------------ MODULE Publishers ------------------------------
(***************************************************************************)
(* publishers.service.ts: one publisher, found by analyses and classified  *)
(* by administrators, who read it, add to its overrides and save it.       *)
(***************************************************************************)
EXTENDS Naturals, Sequences

CONSTANTS
  Discoveries,   \* analyses that meet the domain
  Overriders     \* overrides by administrators

VARIABLES
  publisher, discovered,
  override     \* [at, copy: what it read, review: its choice, overtaken: history, another saved since]

publisherVars == <<publisher, discovered, override>>

Unknown == [known |-> FALSE, review |-> "none", overrides |-> <<>>]
Discovered == [known |-> TRUE, review |-> "UNREVIEWED", overrides |-> <<>>]
Reviews == {"UNREVIEWED", "AUTOMATED_REVIEW", "MANUALLY_REVIEWED"}

PublisherInit ==
  /\ publisher = Unknown
  /\ discovered = {}
  /\ override = [a \in Overriders |->
       [at |-> "find", copy |-> Unknown, review |-> "none", overtaken |-> FALSE]]

\* Mutant: $set, so that a discovery starts over.
SetDiscovered(record) == Discovered
SetOnInsertOnly(record) == IF record.known THEN record ELSE Discovered

\* ensureDiscovered: one upsert.
EnsureDiscovered(d) ==
  /\ d \notin discovered /\ discovered' = discovered \cup {d}
  /\ publisher' = SetOnInsertOnly(publisher)
  /\ UNCHANGED override

FindPublisher(a) ==
  /\ override[a].at = "find"
  /\ \E review \in Reviews :
       override' = [override EXCEPT ![a] = [at |-> IF publisher.known THEN "save" ELSE "refused",
                                            copy |-> publisher, review |-> review, overtaken |-> FALSE]]
  /\ UNCHANGED <<publisher, discovered>>

\* A review chosen as it was read is no modified path and is not written; the overrides
\* are those read and this one; the schema keeps no version.
SaveOverride(a) ==
  /\ override[a].at = "save"
  /\ LET mine == override[a]
     IN publisher' = [publisher EXCEPT !.review = IF mine.review = mine.copy.review THEN @ ELSE mine.review,
                                       !.overrides = Append(mine.copy.overrides, a)]
  /\ override' = [b \in Overriders |->
       IF b = a THEN [override[b] EXCEPT !.at = "done"]
       ELSE [override[b] EXCEPT !.overtaken = @ \/ override[b].at = "save"]]
  /\ UNCHANGED discovered

PublisherNext ==
  \/ \E d \in Discoveries : EnsureDiscovered(d)
  \/ \E a \in Overriders : FindPublisher(a) \/ SaveOverride(a)

-----------------------------------------------------------------------------
(* Properties.                                                             *)

\* publishers.service.ts:102-126: what an administrator decided of a publisher stands
\* whatever analyses meet it afterwards, and the last override kept says who decided it:
\* unless it was overtaken and chose the review it had read, in which case the review is
\* that of another override that was saved.
OverrideStands ==
  LET done == {a \in Overriders : override[a].at = "done"}
      last == override[publisher.overrides[Len(publisher.overrides)]]
  IN done # {} =>
       /\ publisher.overrides # <<>>
       /\ \/ publisher.review = last.review
          \/ /\ last.overtaken /\ last.review = last.copy.review
             /\ \E a \in done : publisher.review = override[a].review
=============================================================================
