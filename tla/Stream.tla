-------------------------------- MODULE Stream --------------------------------
(***************************************************************************)
(* The events of one verification and a client that follows them           *)
(* (verification-event.service, verification-stream.controller). Writers   *)
(* in the API process and in the worker draw a sequence number, store the  *)
(* event and emit it in their own process; the client reads what is        *)
(* recorded after the last sequence it has, then hears the API's emitter.  *)
(***************************************************************************)
EXTENDS Integers, FiniteSets

CONSTANTS
  ApiWriters, WorkerWriters,   \* one append each
  PageSize,                    \* events of one catch-up
  MaxStreams                   \* connections of the client

ASSUME StreamAssumption == PageSize \in Nat /\ MaxStreams \in Nat

VARIABLES
  eventSequence,   \* of the verification document
  stored,          \* sequences of recorded events
  writing,         \* by writer: [at, sequence]
  client,          \* [at, seen, after, history]
  streams,         \* connections made
  unheard          \* history: events stored or emitted where the client could not hear them

Writers == ApiWriters \cup WorkerWriters
streamVars == <<eventSequence, stored, writing, client, streams, unheard>>

LastOf(sequences) == IF sequences = {} THEN 0
                     ELSE CHOOSE s \in sequences : \A t \in sequences : t <= s

StreamInit ==
  /\ eventSequence = 0 /\ stored = {} /\ streams = 0 /\ unheard = {}
  /\ writing = [w \in Writers |-> [at |-> "draw", sequence |-> 0]]
  /\ client = [at |-> "away", seen |-> {}, history |-> {}]

WriterAt(w, stage) == writing[w].at = stage
WriterGoes(w, stage) == writing' = [writing EXCEPT ![w].at = stage]

DrawSequence(w) ==
  /\ WriterAt(w, "draw") /\ eventSequence' = eventSequence + 1
  /\ writing' = [writing EXCEPT ![w] = [at |-> "store", sequence |-> eventSequence']]
  /\ UNCHANGED <<stored, client, streams, unheard>>

\* An event stored below what the client has is not after its last sequence.
StoreEvent(w) ==
  /\ WriterAt(w, "store") /\ WriterGoes(w, "emit")
  /\ stored' = stored \cup {writing[w].sequence}
  /\ unheard' = IF writing[w].sequence < LastOf(client.seen \cup client.history)
                THEN unheard \cup {writing[w].sequence} ELSE unheard
  /\ UNCHANGED <<eventSequence, client, streams>>

\* Only a client of the same process hears it, and nothing tells it what it lacks below.
EmitEvent(w) ==
  /\ WriterAt(w, "emit") /\ WriterGoes(w, "done")
  /\ IF w \in ApiWriters /\ client.at = "live"
     THEN LET n == writing[w].sequence
          IN /\ client' = [client EXCEPT !.seen = @ \cup {n}]
             /\ unheard' = unheard \cup (1..(n - 1) \ client.seen)
     ELSE UNCHANGED <<client, unheard>>
  /\ UNCHANGED <<eventSequence, stored, streams>>

WriterDies(w) ==
  /\ writing[w].at \in {"store", "emit"} /\ WriterGoes(w, "done")
  /\ UNCHANGED <<eventSequence, stored, client, streams, unheard>>

\* sequence > after, oldest first, one page.
\* Mutant: the newest page.
NewestPage(after) ==
  {s \in stored : s > after /\ Cardinality({t \in stored : t > s}) < PageSize}
Page(after) ==
  {s \in stored : s > after /\ Cardinality({t \in stored : t > after /\ t < s}) < PageSize}

ListEvents ==
  /\ client.at = "away" /\ streams < MaxStreams /\ streams' = streams + 1
  /\ client' = [client EXCEPT !.at = "listed", !.history = Page(LastOf(client.seen))]
  /\ UNCHANGED <<eventSequence, stored, writing, unheard>>

\* The recorded events, then the emitter.
Follow ==
  /\ client.at = "listed"
  /\ client' = [at |-> "live", seen |-> client.seen \cup client.history, history |-> {}]
  /\ UNCHANGED <<eventSequence, stored, writing, streams, unheard>>

Disconnect ==
  /\ client.at # "away"
  /\ client' = [client EXCEPT !.at = "away", !.history = {}]
  /\ UNCHANGED <<eventSequence, stored, writing, streams, unheard>>

StreamNext ==
  \/ \E w \in Writers : DrawSequence(w) \/ StoreEvent(w) \/ EmitEvent(w) \/ WriterDies(w)
  \/ ListEvents \/ Follow \/ Disconnect

-----------------------------------------------------------------------------
(* Properties.                                                             *)

\* docs/verification-pipeline.md:125-127 ("Recorded catch-up prevents event loss"): a client
\* that reconnects with its last sequence passes over a recorded event only where that event
\* was stored after one with a higher sequence, or where a live event overtook it.
OnlyOvertakenAreMissed ==
  \A s \in stored : s < LastOf(client.seen) => s \in client.seen \cup unheard
=============================================================================
