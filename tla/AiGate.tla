------------------------------- MODULE AiGate -------------------------------
(***************************************************************************)
(* ai-concurrency.service.ts: the in-process gate every AI call goes       *)
(* through.  A call needs a slot of its provider's class (TEXT or MEDIA)   *)
(* and a slot of its capability; calls without both wait in a queue.       *)
(* A gate is a record: the queue of items [id, provider, capability] and   *)
(* the two tables of active calls.                                         *)
(***************************************************************************)
EXTENDS Naturals, Sequences, FiniteSets

CONSTANTS
  AiProviders,        \* AiProviderName, those the instance uses
  Capabilities,       \* AiCapability, those the instance uses
  ProviderLimit,      \* [AiProviders \X {"TEXT", "MEDIA"} -> Nat]
  CapabilityLimit     \* [Capabilities -> Nat]

ASSUME LimitsAssumption ==
  /\ ProviderLimit \in [AiProviders \X {"TEXT", "MEDIA"} -> Nat \ {0}]
  /\ CapabilityLimit \in [Capabilities -> Nat \ {0}]

MediaCapabilities ==
  {"IMAGE_UNDERSTANDING", "OCR_FALLBACK", "AUDIO_REASONING", "VIDEO_UNDERSTANDING"}

ProviderKey(provider, capability) ==
  <<provider, IF capability \in MediaCapabilities THEN "MEDIA" ELSE "TEXT">>

EmptyGate ==
  [queue            |-> << >>,
   providerActive   |-> [key \in AiProviders \X {"TEXT", "MEDIA"} |-> 0],
   capabilityActive |-> [c \in Capabilities |-> 0]]

ItemKey(item) == ProviderKey(item.provider, item.capability)

CanStart(gate, item) ==
  /\ gate.providerActive[ItemKey(item)] < ProviderLimit[ItemKey(item)]
  /\ gate.capabilityActive[item.capability] < CapabilityLimit[item.capability]

\* The items at the positions S of the queue, one more active call each.
Increment(gate, S) ==
  [gate EXCEPT
     !.providerActive = [key \in DOMAIN @ |->
        @[key] + Cardinality({i \in S : ItemKey(gate.queue[i]) = key})],
     !.capabilityActive = [c \in DOMAIN @ |->
        @[c] + Cardinality({i \in S : gate.queue[i].capability = c})]]

\* Mutant: the pass runs from the back of the queue.
StartableFromBack(gate) ==
  CHOOSE S \in SUBSET DOMAIN gate.queue :
    \A i \in DOMAIN gate.queue :
      i \in S <=> CanStart(Increment(gate, {j \in S : j > i}), gate.queue[i])

\* The positions drain() starts: one pass from the front, an item starts when
\* there is room after what was active before and what the pass has started.
Startable(gate) ==
  CHOOSE S \in SUBSET DOMAIN gate.queue :
    \A i \in DOMAIN gate.queue :
      i \in S <=> CanStart(Increment(gate, {j \in S : j < i}), gate.queue[i])

StartedBy(gate) == {gate.queue[i].id : i \in Startable(gate)}

Waiting(gate) == {gate.queue[i].id : i \in DOMAIN gate.queue}

\* The entries of a sequence at the positions I, in their order.
Rank(I, i) == Cardinality({j \in I : j <= i})
Entries(seq, I) == [k \in 1..Cardinality(I) |-> seq[CHOOSE i \in I : Rank(I, i) = k]]

\* What drain() leaves.
Drained(gate) ==
  LET S == Startable(gate)
  IN  [Increment(gate, S) EXCEPT !.queue = Entries(@, DOMAIN @ \ S)]

\* run(): the item joins the queue, then drain().
Queued(gate, item) == [gate EXCEPT !.queue = Append(@, item)]

OneLess(n) == IF n = 0 THEN 0 ELSE n - 1

\* finally: the call's two slots are given back, then drain().
Decrement(gate, provider, capability) ==
  [gate EXCEPT
     !.providerActive[ProviderKey(provider, capability)] = OneLess(@),
     !.capabilityActive[capability] = OneLess(@)]
=============================================================================
