----------------------------- MODULE UsageLedger -----------------------------
(***************************************************************************)
(* The daily investigation allowance of one user: one document per window  *)
(* (dateKey) with the limit, three counters and the array of reservations, *)
(* changed only by conditional single-document updates                     *)
(* (verifications/services/investigation-usage.service.ts).  A call is a   *)
(* sequence of such updates, and calls of several requests and workers     *)
(* interleave between them.                                                *)
(***************************************************************************)
EXTENDS Integers, Sequences, FiniteSets

CONSTANTS
  Windows,        \* date keys: which one a call gets depends on time and timezone
  Verifications,
  Attempts,       \* retry counts
  Limits,         \* daily limits an entitlement may resolve to
  Costs,          \* 1, or the video cost of the entitlement
  Callers         \* requests and workers with a call under way

ASSUME UsageAssumption ==
  /\ Limits \subseteq Nat \ {0}
  /\ Costs \subseteq Nat \ {0}
  /\ Limits # {} /\ Costs # {} /\ Windows # {}
  /\ Verifications # {} /\ Attempts # {}

Charges == Verifications \X Attempts
Reservation == [charge : Charges, cost : Costs, status : {"RESERVED", "USED", "RELEASED"}]

VARIABLES
  limit, used, reserved, \* per window: the document
  released,
  reservations,
  terminal,  \* the verifications whose status is FAILED, CANCELLED or DELETED
  phase,     \* where each caller is
  ask,       \* its window, charge, cost and limit
  todo,      \* the charges its reconciliation has still to refund
  highest    \* history: the highest limit the window was given

document == <<limit, used, reserved, released, reservations, highest>>
vars     == <<document, terminal, phase, ask, todo>>

Phases == {"idle", "upsert", "claim", "lookup", "refused", "inspect",
           "refund", "release", "releaseUsed", "freed"}
Asks == [window : Windows, charge : Charges, cost : Costs, limit : Limits]
NoAsk == CHOOSE a \in Asks : TRUE

TypeOK ==
  /\ limit \in [Windows -> Limits \cup {0}]
  /\ used \in [Windows -> Int]
  /\ reserved \in [Windows -> Int]
  /\ released \in [Windows -> Int]
  /\ reservations \in [Windows -> Seq(Reservation)]
  /\ terminal \subseteq Verifications
  /\ phase \in [Callers -> Phases]
  /\ ask \in [Callers -> Asks]
  /\ todo \in [Callers -> SUBSET Charges]
  /\ highest \in [Windows -> Limits \cup {0}]

\* No document yet: an absent one and one that only has zeroes are the same.
Init ==
  /\ limit = [w \in Windows |-> 0]
  /\ used = [w \in Windows |-> 0]
  /\ reserved = [w \in Windows |-> 0]
  /\ released = [w \in Windows |-> 0]
  /\ reservations = [w \in Windows |-> <<>>]
  /\ terminal = {}
  /\ phase = [c \in Callers |-> "idle"]
  /\ ask = [c \in Callers |-> NoAsk]
  /\ todo = [c \in Callers |-> {}]
  /\ highest = [w \in Windows |-> 0]

-----------------------------------------------------------------------------
(* The reservations of a window.                                           *)

\* The positions of the reservations of a charge, those in a given status.
At(w, charge) == {i \in DOMAIN reservations[w] : reservations[w][i].charge = charge}
In(w, charge, s) == {i \in At(w, charge) : reservations[w][i].status = s}
Charged(w, s) == {reservations[w][i].charge :
                    i \in {j \in DOMAIN reservations[w] : reservations[w][j].status = s}}

Unreserved(w, charge) == At(w, charge) = {}

\* Mutant: what is only reserved does not count against the limit.
FitsUsed(w, cost) == used[w] + cost <= limit[w]
\* used + reserved + cost <= limit, evaluated inside the update.
Fits(w, cost) == used[w] + reserved[w] + cost <= limit[w]

\* reservations.$.status: the reservation the selector matched.
Mark(w, i, s) == reservations' = [reservations EXCEPT ![w][i].status = s]

Goto(c, p) == phase' = [phase EXCEPT ![c] = p]

\* The same, and a call that is over keeps nothing.
Proceed(c, p) ==
  /\ Goto(c, p)
  /\ ask' = IF p = "idle" THEN [ask EXCEPT ![c] = NoAsk] ELSE ask

-----------------------------------------------------------------------------
(* reserve().                                                              *)

\* The window comes from the user's timezone and the clock, limit and cost from
\* the entitlement: both are read before the ledger is touched.
Reserve(c, w, charge, l, k) ==
  /\ phase[c] = "idle"
  /\ ask' = [ask EXCEPT ![c] = [window |-> w, charge |-> charge, cost |-> k, limit |-> l]]
  /\ Goto(c, "upsert")
  /\ UNCHANGED <<document, terminal, todo>>

SetLimit(w, l) == limit' = [limit EXCEPT ![w] = l]

\* Upsert of the window's document: an existing one only gets the limit.
Upsert(c) ==
  LET w == ask[c].window IN
  /\ phase[c] = "upsert"
  /\ SetLimit(w, ask[c].limit)
  /\ highest' = [highest EXCEPT ![w] = IF @ < ask[c].limit THEN ask[c].limit ELSE @]
  /\ Goto(c, "claim")
  /\ UNCHANGED <<used, reserved, released, reservations, terminal, ask, todo>>

\* findOneAndUpdate: guard, $inc and $push in one update.
Grant(c) ==
  LET w == ask[c].window IN
  /\ phase[c] = "claim"
  /\ Unreserved(w, ask[c].charge)
  /\ Fits(w, ask[c].cost)
  /\ reserved' = [reserved EXCEPT ![w] = @ + ask[c].cost]
  /\ reservations' = [reservations EXCEPT ![w] =
       Append(@, [charge |-> ask[c].charge, cost |-> ask[c].cost, status |-> "RESERVED"])]
  /\ Proceed(c, "idle")
  /\ UNCHANGED <<limit, used, released, highest, terminal, todo>>

\* No document matched.
Refuse(c) ==
  /\ phase[c] = "claim"
  /\ ~(Unreserved(ask[c].window, ask[c].charge) /\ Fits(ask[c].window, ask[c].cost))
  /\ Proceed(c, "lookup")
  /\ UNCHANGED <<document, terminal, todo>>

\* An earlier reservation of the same charge is returned; without one the
\* allowance is used up, and the error carries status().
Lookup(c) ==
  /\ phase[c] = "lookup"
  /\ Proceed(c, IF Unreserved(ask[c].window, ask[c].charge) THEN "refused" ELSE "idle")
  /\ UNCHANGED <<document, terminal, todo>>

-----------------------------------------------------------------------------
(* consume(), release(), releaseSnapshot().                                *)

\* Mutant: the selector takes every reservation that is not USED yet.
ConsumableUnlessUsed(r) == r.status # "USED"
\* applyTransition's selector: a call on any other reservation reads its status
\* and changes nothing.
Consumable(r) == r.status = "RESERVED"

Consume(w, i) ==
  LET r == reservations[w][i] IN
  /\ Consumable(r)
  /\ Mark(w, i, "USED")
  /\ reserved' = [reserved EXCEPT ![w] = @ - r.cost]
  /\ used' = [used EXCEPT ![w] = @ + r.cost]
  /\ UNCHANGED <<limit, released, highest, terminal, phase, ask, todo>>

\* releaseSnapshot(): applyTransition to RELEASED, which does not refund.
ReleaseSnapshot(w, i) ==
  LET r == reservations[w][i] IN
  /\ r.status = "RESERVED"
  /\ Mark(w, i, "RELEASED")
  /\ reserved' = [reserved EXCEPT ![w] = @ - r.cost]
  /\ released' = [released EXCEPT ![w] = @ + r.cost]
  /\ UNCHANGED <<limit, used, highest, terminal, phase, ask, todo>>

\* release(): applyRelease for the snapshot kept in the verification.
Release(c, w, i) ==
  /\ phase[c] = "idle"
  /\ ask' = [ask EXCEPT ![c].window = w, ![c].charge = reservations[w][i].charge,
                        ![c].cost = reservations[w][i].cost]
  /\ Goto(c, "release")
  /\ UNCHANGED <<document, terminal, todo>>

\* Mutant: the selector of the first update matches a USED reservation.
FirstMatchAny(w, charge) == In(w, charge, "RESERVED") \cup In(w, charge, "USED")
\* The two selectors of applyRelease, in the order they are tried.
FirstMatch(w, charge) == In(w, charge, "RESERVED")

SecondMatch(w, charge) == In(w, charge, "USED")

ReleaseReserved(c) ==
  LET w == ask[c].window
      k == ask[c].cost
      found == FirstMatch(w, ask[c].charge)
  IN
  /\ phase[c] = "release"
  /\ \/ \E i \in found :
          /\ Mark(w, i, "RELEASED")
          /\ reserved' = [reserved EXCEPT ![w] = @ - k]
          /\ released' = [released EXCEPT ![w] = @ + k]
          /\ Goto(c, "freed")
          /\ UNCHANGED <<limit, used, highest>>
     \/ /\ found = {}
        /\ Goto(c, "releaseUsed")
        /\ UNCHANGED document
  /\ UNCHANGED <<terminal, ask, todo>>

ReleaseUsed(c) ==
  LET w == ask[c].window
      k == ask[c].cost
      found == SecondMatch(w, ask[c].charge)
  IN
  /\ phase[c] = "releaseUsed"
  /\ \/ \E i \in found :
          /\ Mark(w, i, "RELEASED")
          /\ used' = [used EXCEPT ![w] = @ - k]
          /\ released' = [released EXCEPT ![w] = @ + k]
          /\ UNCHANGED <<limit, reserved, highest>>
     \/ found = {} /\ UNCHANGED document
  /\ Goto(c, "freed")
  /\ UNCHANGED <<terminal, ask, todo>>

\* The caller goes on: back to its request, or to the next refund.
Return(c) ==
  /\ phase[c] = "freed"
  /\ Proceed(c, IF todo[c] = {} THEN "idle" ELSE "refund")
  /\ UNCHANGED <<document, terminal, todo>>

-----------------------------------------------------------------------------
(* status() and refundTerminalUsage().                                     *)

\* The document of the window is read: its USED reservations.
Status(c, w) ==
  /\ phase[c] \in {"idle", "refused"} \* a refused caller resolves its window anew
  /\ todo' = [todo EXCEPT ![c] = Charged(w, "USED")]
  /\ Goto(c, IF todo'[c] = {} THEN "idle" ELSE "inspect")
  /\ ask' = [ask EXCEPT ![c] = IF todo'[c] = {} THEN NoAsk ELSE [NoAsk EXCEPT !.window = w]]
  /\ UNCHANGED <<document, terminal>>

\* Of those, the ones whose verification is in a terminal status now.
Refundable(c) ==
  /\ phase[c] = "inspect"
  /\ todo' = [todo EXCEPT ![c] = {ch \in @ : ch[1] \in terminal}]
  /\ Proceed(c, IF todo'[c] = {} THEN "idle" ELSE "refund")
  /\ UNCHANGED <<document, terminal>>

\* One applyRelease after the other.
RefundNext(c, w) ==
  /\ phase[c] = "refund"
  /\ w = ask[c].window
  /\ \E ch \in todo[c], i \in DOMAIN reservations[w] :
       /\ reservations[w][i].charge = ch
       /\ todo' = [todo EXCEPT ![c] = @ \ {ch}]
       /\ ask' = [ask EXCEPT ![c].charge = ch, ![c].cost = reservations[w][i].cost]
  /\ Goto(c, "release")
  /\ UNCHANGED <<document, terminal>>

\* The verification collection, and a caller that dies where it stands.
TurnTerminal(v) ==
  /\ v \notin terminal
  /\ terminal' = terminal \cup {v}
  /\ UNCHANGED <<document, phase, ask, todo>>

Retried(v) ==
  /\ v \in terminal
  /\ terminal' = terminal \ {v}
  /\ UNCHANGED <<document, phase, ask, todo>>

Crash(c) ==
  /\ phase[c] # "idle"
  /\ Proceed(c, "idle")
  /\ todo' = [todo EXCEPT ![c] = {}]
  /\ UNCHANGED <<document, terminal>>

Step(c) ==
  \/ Upsert(c) \/ Grant(c) \/ Refuse(c) \/ Lookup(c)
  \/ ReleaseReserved(c) \/ ReleaseUsed(c) \/ Return(c)
  \/ Refundable(c) \/ Crash(c)

Next ==
  \/ \E c \in Callers : Step(c)
  \/ \E c \in Callers, w \in Windows :
       \/ \E charge \in Charges, l \in Limits, k \in Costs : Reserve(c, w, charge, l, k)
       \/ \E i \in DOMAIN reservations[w] : Release(c, w, i)
       \/ Status(c, w)
       \/ RefundNext(c, w)
  \/ \E w \in Windows : \E i \in DOMAIN reservations[w] : Consume(w, i) \/ ReleaseSnapshot(w, i)
  \/ \E v \in Verifications : TurnTerminal(v) \/ Retried(v)

Spec == Init /\ [][Next]_vars

-----------------------------------------------------------------------------
(* Properties.                                                             *)

\* What the reservations of a status cost together: the units each one stands for.
Units(q, s) == UNION {{i} \X (1..q[i].cost) : i \in {j \in DOMAIN q : q[j].status = s}}
Cost(w, s) == Cardinality(Units(reservations[w], s))

\* The counters are never out of step with the reservations they sum up, however
\* consumption, release and reconciliation of one reservation interleave: nothing
\* is returned twice, nor returned from the wrong counter.
CountersAgree ==
  \A w \in Windows : /\ reserved[w] = Cost(w, "RESERVED")
                     /\ used[w] = Cost(w, "USED")
                     /\ released[w] = Cost(w, "RELEASED")

\* Concurrent reserve() calls never grant together more than the largest limit the
\* window was ever given: none of them checks against counters another has moved.
WithinLimit == \A w \in Windows : used[w] + reserved[w] <= highest[w]

\* A submission or retry that is repeated while an earlier one is under way is
\* charged once: a charge has one reservation in a window.
OneReservation ==
  \A w \in Windows : \A i, j \in DOMAIN reservations[w] :
    reservations[w][i].charge = reservations[w][j].charge => i = j

\* When release() returns, the charge is released, also when a worker consumed it
\* between the two updates that release() tries.
ReleaseWins ==
  \A c \in Callers : 
    phase[c] = "freed" => ask[c].charge \in Charged(ask[c].window, "RELEASED")

\* The three together, of every window and every caller: no allowance is exceeded,
\* nothing is charged twice, and what was let go is free.
ChargesHold == WithinLimit /\ OneReservation /\ ReleaseWins

\* What was released is never taken back: a late consume() of a worker does not
\* charge for a verification that was cancelled or failed meanwhile.
ReleasedIsFinal ==
  [][\A w \in Windows : \A i \in DOMAIN reservations[w] :
       reservations[w][i].status = "RELEASED"
         => /\ i \in DOMAIN reservations'[w]
            /\ reservations'[w][i] = reservations[w][i]]_vars

\* What the proofs need besides: a caller that releases a charge found it in the
\* ledger, with the cost it is going to return, and once the first update missed it
\* is not RESERVED any more; the limit in force is one the window was given.
Releasing ==
  \A c \in Callers :
    /\ phase[c] \in {"release", "releaseUsed", "freed"} => At(ask[c].window, ask[c].charge) # {}
    /\ phase[c] = "releaseUsed" => In(ask[c].window, ask[c].charge, "RESERVED") = {}
CostKnown ==
  \A c \in Callers : phase[c] \in {"release", "releaseUsed"} =>
    \A i \in At(ask[c].window, ask[c].charge) :
      reservations[ask[c].window][i].cost = ask[c].cost
Countable ==
  \A w \in Windows : \A s \in {"RESERVED", "USED", "RELEASED"} :
    IsFiniteSet(Units(reservations[w], s))
LimitKnown == \A w \in Windows : limit[w] <= highest[w]
IInv == TypeOK /\ LimitKnown /\ WithinLimit /\ OneReservation /\ Releasing /\ ReleaseWins
CountsInv == IInv /\ Countable /\ CostKnown /\ CountersAgree
=============================================================================
