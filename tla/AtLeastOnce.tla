---------------------------- MODULE AtLeastOnce ----------------------------
(***************************************************************************)
(* What the domain event outbox promises its producers and consumers       *)
(* (docs/event-driven-architecture.md, "Delivery model"): an event is      *)
(* handed to its consumers any number of times, it is done only when it    *)
(* reached them once, and it is given up only after MaxAttempts tries.     *)
(* That a consumer which fails is called again is not promised.            *)
(***************************************************************************)
EXTENDS Naturals

CONSTANTS Events, MaxAttempts

VARIABLES
  stage,     \* "none", "open", "done" or "dead"
  tries,     \* deliveries, made or attempted
  reached    \* the consumers were called, at least once

vars == <<stage, tries, reached>>

Init ==
  /\ stage = [e \in Events |-> "none"]
  /\ tries = [e \in Events |-> 0]
  /\ reached = [e \in Events |-> FALSE]

\* The producer states the fact; tries and reached describe this record.
Post(e) ==
  /\ stage[e] = "none"
  /\ stage' = [stage EXCEPT ![e] = "open"]
  /\ tries' = [tries EXCEPT ![e] = 0]
  /\ reached' = [reached EXCEPT ![e] = FALSE]

\* A delivery; a late one may still reach the consumers of a closed event.
Attempt(e) ==
  /\ stage[e] # "none"
  /\ tries' = [tries EXCEPT ![e] = @ + 1]
  /\ \/ reached' = [reached EXCEPT ![e] = TRUE]
     \/ reached' = reached
  /\ stage' = stage

Complete(e) ==
  /\ stage[e] = "open" /\ reached[e]
  /\ stage' = [stage EXCEPT ![e] = "done"]
  /\ UNCHANGED <<tries, reached>>

GiveUp(e) ==
  /\ stage[e] = "open" /\ tries[e] >= MaxAttempts
  /\ stage' = [stage EXCEPT ![e] = "dead"]
  /\ UNCHANGED <<tries, reached>>

\* A done event is forgotten after its retention.
Forget(e) ==
  /\ stage[e] = "done"
  /\ stage' = [stage EXCEPT ![e] = "none"]
  /\ UNCHANGED <<tries, reached>>

Next == \E e \in Events : Post(e) \/ Attempt(e) \/ Complete(e) \/ GiveUp(e) \/ Forget(e)

Spec == Init /\ [][Next]_vars
=============================================================================
