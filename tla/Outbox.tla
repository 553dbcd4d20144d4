------------------------------- MODULE Outbox -------------------------------
(***************************************************************************)
(* The domain event outbox: a publisher upserts one record per             *)
(* deduplication key, and the dispatchers of the scheduler processes claim *)
(* records under a lease, emit them on the in-process event bus and record *)
(* the outcome (core/events/domain-event-{publisher,dispatcher}.service.ts) *)
(* The bus is used with its defaults (EventEmitterModule.forRoot(),        *)
(* @OnEvent): it logs a listener's error and tells the dispatcher nothing. *)
(*                                                                         *)
(* Instants (lockedUntil, availableAt) are the time left until them, so    *)
(* "<= now" reads "= 0" and Tick makes one unit of time pass for all.      *)
(***************************************************************************)
EXTENDS Integers

CONSTANTS
  Events,          \* deduplication keys; one outbox record each
  Dispatchers,     \* scheduler processes, one DomainEventDispatcher each
  Listening,       \* the dispatchers whose process has a listener registered
  None,            \* "holds no record"
  LockTime,        \* LOCK_MS
  BackoffCap,      \* the 60 s cap of the exponential backoff
  MaxAttempts,     \* MAX_ATTEMPTS
  BatchSize,       \* BATCH_SIZE
  MaxFaults        \* bound: crashes and failed database calls in a behaviour

ASSUME OutboxAssumption ==
  /\ LockTime \in Nat \ {0}
  /\ BackoffCap \in Nat \ {0}
  /\ MaxAttempts \in Nat \ {0}
  /\ BatchSize \in Nat \ {0}
  /\ MaxFaults \in Nat
  /\ Listening \subseteq Dispatchers
  /\ None \notin Events

Statuses == {"ABSENT", "PENDING", "PROCESSING", "PUBLISHED", "FAILED", "DEAD_LETTER"}
Phases   == {"idle", "claiming", "emitting", "acking", "failing"}

VARIABLES
  status, attempts, lockedUntil, availableAt, younger, \* the collection;
              \* younger: how many records have a later occurredAt than this one
  phase,      \* where a dispatcher is in dispatchPending
  held,       \* the record it is dispatching
  seen,       \* the attempts it read with the claim
  taken,      \* records taken in this pass
  leaseLeft,  \* history: time left of the lease its own claim was given
  deliveries, \* history: how often the record was to be handed to the event bus
  reached,    \* history: the bus called the listeners of its name, once
  handled,    \* history: all listeners finished without an error, once
  faults      \* crashes and database errors so far

store   == <<status, attempts, lockedUntil, availableAt, younger>>
process == <<phase, held, seen, taken, leaseLeft>>
history == <<deliveries, reached, handled>>
vars    == <<store, process, history, faults>>

TypeOK ==
  /\ status \in [Events -> Statuses]
  /\ attempts \in [Events -> 0..MaxAttempts]
  /\ lockedUntil \in [Events -> 0..LockTime]
  /\ availableAt \in [Events -> 0..BackoffCap]
  /\ younger \in [Events -> Nat]
  /\ phase \in [Dispatchers -> Phases]
  /\ held \in [Dispatchers -> Events \cup {None}]
  /\ seen \in [Dispatchers -> 0..MaxAttempts]
  /\ taken \in [Dispatchers -> 0..BatchSize]
  /\ leaseLeft \in [Dispatchers -> 0..LockTime]
  /\ deliveries \in [Events -> Nat]
  /\ reached \in [Events -> BOOLEAN]
  /\ handled \in [Events -> BOOLEAN]
  /\ faults \in 0..MaxFaults

Init ==
  /\ status = [e \in Events |-> "ABSENT"]
  /\ attempts = [e \in Events |-> 0]
  /\ lockedUntil = [e \in Events |-> 0]
  /\ availableAt = [e \in Events |-> 0]
  /\ younger = [e \in Events |-> 0]
  /\ phase = [d \in Dispatchers |-> "idle"]
  /\ held = [d \in Dispatchers |-> None]
  /\ seen = [d \in Dispatchers |-> 0]
  /\ taken = [d \in Dispatchers |-> 0]
  /\ leaseLeft = [d \in Dispatchers |-> 0]
  /\ deliveries = [e \in Events |-> 0]
  /\ reached = [e \in Events |-> FALSE]
  /\ handled = [e \in Events |-> FALSE]
  /\ faults = 0

-----------------------------------------------------------------------------
(* The publisher and the TTL index.                                        *)

\* publish(): an upsert by deduplication key whose fields are all
\* $setOnInsert, so a key that has a record is left as it is.
Publish(e) ==
  /\ status[e] = "ABSENT"
  /\ status' = [status EXCEPT ![e] = "PENDING"]
  /\ attempts' = [attempts EXCEPT ![e] = 0]
  /\ availableAt' = [availableAt EXCEPT ![e] = 0]
  /\ younger' = [f \in Events |-> IF f = e THEN 0
                                 ELSE IF status[f] = "ABSENT" THEN younger[f]
                                 ELSE younger[f] + 1]
  /\ deliveries' = [deliveries EXCEPT ![e] = 0]
  /\ reached' = [reached EXCEPT ![e] = FALSE]
  /\ handled' = [handled EXCEPT ![e] = FALSE]
  /\ UNCHANGED <<lockedUntil, process, faults>>

\* expiresAt (30 days after publication) passes and the TTL index removes the
\* record: no dispatcher takes that long over one.
Expire(e) ==
  /\ status[e] = "PUBLISHED"
  /\ \A d \in Dispatchers : held[d] # e
  /\ status' = [status EXCEPT ![e] = "ABSENT"]
  /\ younger' = [f \in Events |-> IF status[f] # "ABSENT" /\ younger[f] > younger[e]
                                 THEN younger[f] - 1 ELSE younger[f]]
  /\ UNCHANGED <<attempts, lockedUntil, availableAt, process, history, faults>>

-----------------------------------------------------------------------------
(* The dispatcher.                                                         *)

\* The interval fires; a pass that is still running makes it return at once.
StartPass(d) ==
  /\ phase[d] = "idle"
  /\ phase' = [phase EXCEPT ![d] = "claiming"]
  /\ taken' = [taken EXCEPT ![d] = 0]
  /\ UNCHANGED <<store, held, seen, leaseLeft, history, faults>>

\* Mutant: a lease is never taken over.
ClaimableOnlyIfReleased(e) ==
  status[e] \in {"PENDING", "FAILED"} /\ availableAt[e] = 0

Claimable(e) ==
  \/ status[e] \in {"PENDING", "FAILED"} /\ availableAt[e] = 0
  \/ status[e] = "PROCESSING" /\ lockedUntil[e] = 0

\* claimNext(): one atomic findOneAndUpdate, oldest occurredAt first.
Claim(d) ==
  \E e \in Events :
    /\ phase[d] = "claiming"
    /\ taken[d] < BatchSize
    /\ Claimable(e)
    /\ \A f \in Events : Claimable(f) => younger[e] >= younger[f]
    /\ status' = [status EXCEPT ![e] = "PROCESSING"]
    /\ lockedUntil' = [lockedUntil EXCEPT ![e] = LockTime]
    /\ phase' = [phase EXCEPT ![d] = "emitting"]
    /\ held' = [held EXCEPT ![d] = e]
    /\ seen' = [seen EXCEPT ![d] = attempts[e]]
    /\ taken' = [taken EXCEPT ![d] = @ + 1]
    /\ leaseLeft' = [leaseLeft EXCEPT ![d] = LockTime]
    /\ UNCHANGED <<attempts, availableAt, younger, history, faults>>

\* The dispatcher lets its record go and continues in the phase next.
Release(d, next) ==
  /\ phase' = [phase EXCEPT ![d] = next]
  /\ held' = [held EXCEPT ![d] = None]
  /\ seen' = [seen EXCEPT ![d] = 0]
  /\ leaseLeft' = [leaseLeft EXCEPT ![d] = 0]
  /\ UNCHANGED taken

\* Nothing to claim, or a full batch taken: the pass ends.
EndPass(d) ==
  /\ phase[d] = "claiming"
  /\ taken[d] = BatchSize \/ \A e \in Events : ~Claimable(e)
  /\ Release(d, "idle")
  /\ UNCHANGED <<store, history, faults>>

\* emitAsync: the listeners run, and it resolves when the last of them is through.
Deliver(d) ==
  /\ phase[d] = "emitting"
  /\ d \in Listening
  /\ deliveries' = [deliveries EXCEPT ![held[d]] = @ + 1]
  /\ reached' = [reached EXCEPT ![held[d]] = TRUE]
  /\ phase' = [phase EXCEPT ![d] = "acking"]
  /\ UNCHANGED <<store, held, seen, taken, leaseLeft, faults>>

\* Every listener did its work.
HandlersSucceed(d) ==
  Deliver(d) /\ handled' = [handled EXCEPT ![held[d]] = TRUE]

\* A listener throws: the bus logs its error, and emitAsync resolves all the same.
HandlerThrows(d) ==
  Deliver(d) /\ UNCHANGED handled

\* Mutant: emitAsync with no listener resolves as well; the count is not looked at.
Unchecked == "acking"
Unheard == "failing"

\* listenerCount is 0: DOMAIN_EVENT_HANDLER_NOT_REGISTERED.
NoListener(d) ==
  /\ phase[d] = "emitting"
  /\ d \notin Listening
  /\ deliveries' = [deliveries EXCEPT ![held[d]] = @ + 1]
  /\ phase' = [phase EXCEPT ![d] = Unheard]
  /\ UNCHANGED <<store, held, seen, taken, leaseLeft, reached, handled, faults>>

\* The updates that record an outcome match { _id, status: PROCESSING }:
\* not the lease, so they also match a record another dispatcher has claimed.
Matches(d) ==
  status[held[d]] = "PROCESSING"

MarkPublished(d) ==
  /\ phase[d] = "acking"
  /\ IF Matches(d)
       THEN /\ status' = [status EXCEPT ![held[d]] = "PUBLISHED"]
            /\ lockedUntil' = [lockedUntil EXCEPT ![held[d]] = 0]
       ELSE UNCHANGED <<status, lockedUntil>>
  /\ Release(d, "claiming")
  /\ UNCHANGED <<attempts, availableAt, younger, history, faults>>

\* Min(60000, 2 ** attempts * 1000), in seconds.
Backoff(n) == IF 2^n \in 0..BackoffCap THEN 2^n ELSE BackoffCap

\* Mutant: off by one.
DeadLetterTooEarly(n) == n + 1 >= MaxAttempts

DeadLetter(n) == n >= MaxAttempts

\* The catch clause: attempts is computed from the claimed copy.
MarkFailed(d) ==
  LET e == held[d]
      n == seen[d] + 1
  IN /\ phase[d] = "failing"
     /\ IF Matches(d)
          THEN /\ status' = [status EXCEPT ![e] =
                               IF DeadLetter(n) THEN "DEAD_LETTER" ELSE "FAILED"]
               /\ attempts' = [attempts EXCEPT ![e] = n]
               /\ availableAt' = [availableAt EXCEPT ![e] = Backoff(n)]
               /\ lockedUntil' = [lockedUntil EXCEPT ![e] = 0]
          ELSE UNCHANGED <<status, attempts, availableAt, lockedUntil>>
     /\ Release(d, "claiming")
     /\ UNCHANGED <<younger, history, faults>>

-----------------------------------------------------------------------------
(* Faults and time.                                                        *)

\* A database call is rejected. The one that marks the record published is
\* inside the try, so it lands in the catch clause; the others end the pass.
DatabaseError(d) ==
  /\ faults < MaxFaults
  /\ faults' = faults + 1
  /\ \/ /\ phase[d] = "acking"
        /\ phase' = [phase EXCEPT ![d] = "failing"]
        /\ UNCHANGED <<held, seen, taken, leaseLeft>>
     \/ /\ phase[d] \in {"claiming", "failing"}
        /\ Release(d, "idle")
  /\ UNCHANGED <<store, history>>

\* The scheduler process dies and is restarted; only the collection survives.
Crash(d) ==
  /\ faults < MaxFaults
  /\ phase[d] # "idle"
  /\ faults' = faults + 1
  /\ Release(d, "idle")
  /\ UNCHANGED <<store, history>>

Countdown(n) == IF n = 0 THEN 0 ELSE n - 1

Tick ==
  /\ \/ \E e \in Events : lockedUntil[e] > 0 \/ availableAt[e] > 0
     \/ \E d \in Dispatchers : leaseLeft[d] > 0
  /\ lockedUntil' = [e \in Events |-> Countdown(lockedUntil[e])]
  /\ availableAt' = [e \in Events |-> Countdown(availableAt[e])]
  /\ leaseLeft' = [d \in Dispatchers |-> Countdown(leaseLeft[d])]
  /\ UNCHANGED <<status, attempts, younger, phase, held, seen, taken, history, faults>>

Step(d) ==
  \/ StartPass(d) \/ Claim(d) \/ EndPass(d)
  \/ HandlersSucceed(d) \/ HandlerThrows(d) \/ NoListener(d)
  \/ MarkPublished(d) \/ MarkFailed(d)

Next ==
  \/ \E e \in Events : Publish(e) \/ Expire(e)
  \/ \E d \in Dispatchers : Step(d) \/ DatabaseError(d) \/ Crash(d)
  \/ Tick

Spec == Init /\ [][Next]_vars

\* @Interval keeps starting passes, a started pass runs on, and time passes.
\* Publishing, expiring and failing are never forced.
Fairness ==
  /\ \A d \in Dispatchers : WF_vars(Step(d))
  /\ WF_vars(Tick)

FairSpec == Spec /\ Fairness

-----------------------------------------------------------------------------
(* Properties.                                                             *)

\* A record never counts more failed attempts than deliveries really made, so
\* none is given up in DEAD_LETTER before MAX_ATTEMPTS of them, although
\* dispatchers whose lease ran out write counts computed from an old copy.
AttemptsAreDeliveries ==
  \A e \in Events :
    /\ attempts[e] <= deliveries[e]
    /\ status[e] = "DEAD_LETTER" => deliveries[e] >= MaxAttempts

\* docs/event-driven-architecture.md:16: "failed handlers retry". They would if PUBLISHED
\* meant that every listener did its work; a bus that logs their errors does not tell.
PublishedWasHandled ==
  \A e \in Events : status[e] = "PUBLISHED" => handled[e]

\* docs/event-driven-architecture.md:12-18: delivery is at least once. PUBLISHED means that
\* the bus of a process that has listeners called them, once at least, whichever process
\* took the record before and whatever it wrote: a process without listeners never
\* publishes. Whether the listeners did their work is not said.
PublishedWasDelivered ==
  \A e \in Events : status[e] = "PUBLISHED" => reached[e]

\* Both outcomes are earned: DEAD_LETTER by deliveries, PUBLISHED by one that reached the
\* listeners.
OutcomesAreEarned == AttemptsAreDeliveries /\ PublishedWasDelivered

\* A record that reached its outcome keeps it, whatever a dispatcher with an
\* expired lease writes afterwards; only the TTL index removes it.
KeepsOutcome ==
  \A e \in Events :
    /\ status[e] = "PUBLISHED" => status'[e] \in {"PUBLISHED", "ABSENT"}
    /\ status[e] = "DEAD_LETTER" => status'[e] = "DEAD_LETTER"

OutcomeIsFinal == [][KeepsOutcome]_vars

\* Every record a producer published is settled, once faults have ended: a
\* crashed dispatcher's lease runs out, a failed one is retried or given up.
EventuallySettled ==
  \A e \in Events :
    status[e] = "PENDING" ~> status[e] \in {"PUBLISHED", "DEAD_LETTER", "ABSENT"}

\* The outbox implements the promise of AtLeastOnce: PENDING, PROCESSING and
\* FAILED records are open events.
StageOf(s) ==
  CASE s = "ABSENT" -> "none"
    [] s = "PUBLISHED" -> "done"
    [] s = "DEAD_LETTER" -> "dead"
    [] OTHER -> "open"

Promise == INSTANCE AtLeastOnce WITH
  tries <- deliveries,
  stage <- [e \in Events |-> StageOf(status[e])]

\* At least once: every step of the publisher, the dispatchers, the TTL index
\* and the faults is a step AtLeastOnce allows.
KeepsPromise == Promise!Spec

\* What a dispatcher knows about the record it holds: the record exists, its
\* copy of attempts is covered by deliveries, also after the one it makes.
HolderKnows(d) ==
  IF phase[d] \in {"idle", "claiming"} THEN held[d] = None
  ELSE /\ held[d] \in Events
       /\ status[held[d]] # "ABSENT"
       /\ seen[d] < MaxAttempts
       /\ seen[d] <= deliveries[held[d]]
       /\ phase[d] # "emitting" => seen[d] < deliveries[held[d]]
       /\ phase[d] = "acking" => reached[held[d]]

\* The inductive strengthening of AttemptsAreDeliveries and PublishedWasDelivered.
OutboxInv ==
  /\ TypeOK
  /\ AttemptsAreDeliveries
  /\ \A e \in Events : status[e] # "DEAD_LETTER" => attempts[e] < MaxAttempts
  /\ PublishedWasDelivered
  /\ \A d \in Dispatchers : HolderKnows(d)
=============================================================================
