----------------------------- MODULE Localization -----------------------------
(***************************************************************************)
(* The translation of one report into one language                         *)
(* (report-localization.service): requests take a lease on the record, ask *)
(* the providers and store a translation or the fallback to English. A     *)
(* holder may die, or be slower than its lease.                            *)
(***************************************************************************)
EXTENDS Integers, FiniteSets

CONSTANTS
  Readers,       \* requests for the translation; each is made once
  LeaseTicks,    \* the three minutes of a lease
  RetryTicks,    \* the fifteen minutes before a failure is tried again
  MaxClock       \* bound of the clock

\* 0 is the token of nobody.
ASSUME LocalizationAssumption ==
  /\ 0 \notin Readers
  /\ LeaseTicks \in Nat \ {0} /\ RetryTicks \in Nat /\ MaxClock \in Nat

VARIABLES
  record,        \* the stored localization
  clock,
  reading        \* the requests: [at, force, now, token, failure]

localizationVars == <<record, clock, reading>>

NoRecord == [status |-> "none", token |-> 0, expires |-> 0, retryable |-> TRUE, after |-> 0]
NotAsked == [at |-> "free", force |-> FALSE, now |-> 0, failure |-> "none", shows |-> "none"]

LocalizationInit ==
  /\ record = NoRecord /\ clock = 0
  /\ reading = [r \in Readers |-> NotAsked]

ReaderAt(r, stage) == reading[r].at = stage
Step(r, stage) == reading' = [reading EXCEPT ![r].at = stage]
\* What the reader is answered: the translation, or the English text.
Answer(r, shows) == reading' = [reading EXCEPT ![r].at = "done", ![r].shows = shows]
Present(r) == Answer(r, IF record.status = "COMPLETE" THEN "translation" ELSE "english")

-----------------------------------------------------------------------------

\* A failure that is not to be tried again yet is answered from the record.
Cooling(force) ==
  /\ ~force /\ record.status = "FALLBACK"
  /\ ~record.retryable \/ record.after > clock

FindRecord(r) ==
  /\ ReaderAt(r, "free")
  /\ \E force \in BOOLEAN :
       IF record.status = "COMPLETE" \/ Cooling(force) THEN Present(r)
       ELSE reading' = [reading EXCEPT ![r].at = "insert", ![r].force = force, ![r].now = clock]
  /\ UNCHANGED <<record, clock>>

\* $setOnInsert: a record of another request stays what it is.
InsertRecord(r) ==
  /\ ReaderAt(r, "insert") /\ Step(r, "lease")
  /\ record' = IF record = NoRecord THEN [NoRecord EXCEPT !.status = "FALLBACK"] ELSE record
  /\ UNCHANGED clock

Leasable(now) == record.status # "PENDING" \/ record.expires <= now

TakeLease(r) ==
  /\ ReaderAt(r, "lease")
  /\ IF Leasable(reading[r].now)
     THEN /\ record' = [record EXCEPT !.status = "PENDING", !.token = r, !.retryable = TRUE,
                                      !.expires = reading[r].now + LeaseTicks]
          /\ Step(r, "translate")
     ELSE UNCHANGED record /\ Present(r)
  /\ UNCHANGED clock

\* The first answer: every path in the right language, or in a wrong one; a wrong answer
\* of a fallback provider is not asked again.
Translate(r) ==
  /\ ReaderAt(r, "translate")
  /\ \/ Step(r, "complete")
     \/ Step(r, "again")
     \/ \E failure \in {"retryable", "final"} :
          reading' = [reading EXCEPT ![r].at = "fall_back", ![r].failure = failure]
  /\ UNCHANGED <<record, clock>>

\* The alternate provider is asked once.
TranslateAgain(r) ==
  /\ ReaderAt(r, "again")
  /\ \/ Step(r, "complete")
     \/ \E failure \in {"retryable", "final"} :
          reading' = [reading EXCEPT ![r].at = "fall_back", ![r].failure = failure]
  /\ UNCHANGED <<record, clock>>

\* Both results are written for the lease only; the answer shows them in any case.
\* Mutant: whoever has a result writes it.
AnyWriter(r) == TRUE
Holds(r) == record.token = r

WriteComplete(r) ==
  /\ ReaderAt(r, "complete") /\ Answer(r, "translation")
  /\ record' = IF Holds(r) THEN [NoRecord EXCEPT !.status = "COMPLETE", !.retryable = FALSE] ELSE record
  /\ UNCHANGED clock

WriteFallback(r) ==
  /\ ReaderAt(r, "fall_back") /\ Answer(r, "english")
  /\ LET again == reading[r].failure = "retryable"
     IN record' = IF Holds(r)
                  THEN [NoRecord EXCEPT !.status = "FALLBACK", !.retryable = again,
                                        !.after = IF again THEN clock + RetryTicks ELSE 0]
                  ELSE record
  /\ UNCHANGED clock

\* The process of a request stops.
ReaderDies(r) ==
  /\ ~ReaderAt(r, "free") /\ ~ReaderAt(r, "done") /\ Step(r, "done")
  /\ UNCHANGED <<record, clock>>

Tick == clock < MaxClock /\ clock' = clock + 1 /\ UNCHANGED <<record, reading>>

LocalizationNext ==
  \/ Tick
  \/ \E r \in Readers :
       \/ FindRecord(r) \/ InsertRecord(r) \/ TakeLease(r) \/ Translate(r) \/ TranslateAgain(r)
       \/ WriteComplete(r) \/ WriteFallback(r) \/ ReaderDies(r)

-----------------------------------------------------------------------------
(* Properties.                                                             *)

Translating(r) == reading[r].at \in {"translate", "again", "complete", "fall_back"}

\* The lease (report-localization.service.ts:152-177) makes one request at a time pay for
\* the translation: two of them translate at once only where one has outlived its lease,
\* and then the record is no longer its own.
OneTranslator ==
  \A r, s \in Readers : r # s /\ Translating(r) /\ Translating(s) =>
    \E late \in {r, s} : reading[late].now + LeaseTicks <= clock /\ ~Holds(late)

\* report-localization.service.ts:222-243: a stored translation ends the leases on it. A
\* result whose lease was taken over never replaces it; only a request that read the
\* record before may take the lease again.
TranslationStands == record.status = "COMPLETE" /\ record' # record => record'.status = "PENDING"

\* The lease does its work while it lasts and leaves nothing behind when it ends: after
\* every step one request translates, and no step replaces a translation by its result.
TranslationHolds == [][OneTranslator' /\ TranslationStands]_localizationVars
=============================================================================
