-------------------------- MODULE UsageLedgerProofs --------------------------
(***************************************************************************)
(* The allowance ledger for any number of windows, verifications, attempts *)
(* and callers, any limits and costs.                                      *)
(***************************************************************************)
EXTENDS UsageLedger, FiniteSetTheorems, TLAPS

\* How one step may change the reservations of a window: it moves the status of
\* some forward, and it appends one for a charge that had none.
Forward(old, new) ==
  \/ new = old
  \/ old = "RESERVED" /\ new \in {"USED", "RELEASED"}
  \/ old = "USED" /\ new = "RELEASED"

Moves(w) ==
  /\ \A i \in DOMAIN reservations[w] :
       /\ i \in DOMAIN reservations'[w]
       /\ reservations'[w][i].charge = reservations[w][i].charge
       /\ reservations'[w][i].cost = reservations[w][i].cost
       /\ Forward(reservations[w][i].status, reservations'[w][i].status)
  /\ \A j \in DOMAIN reservations'[w] :
       j \notin DOMAIN reservations[w]
         => /\ j = Len(reservations[w]) + 1
            /\ At(w, reservations'[w][j].charge) = {}

\* What is stored in a window, and what a caller asks for.
LEMMA Entries ==
  ASSUME TypeOK, NEW w \in Windows, NEW i \in DOMAIN reservations[w]
  PROVE  /\ reservations[w][i] \in Reservation
         /\ reservations[w][i].cost \in Costs
         /\ reservations[w][i].charge \in Charges
<1>1. reservations[w] \in Seq(Reservation)
  BY DEF TypeOK
<1>2. reservations[w][i] \in Reservation
  BY <1>1
<1>. QED BY <1>2 DEF Reservation

LEMMA NoAskType == NoAsk \in Asks
<1>1. \E a \in Asks : TRUE
  <2>1. PICK w \in Windows, v \in Verifications, n \in Attempts, k \in Costs, l \in Limits : TRUE
    BY UsageAssumption
  <2>2. [window |-> w, charge |-> <<v, n>>, cost |-> k, limit |-> l] \in Asks
    BY DEF Asks, Charges
  <2>. QED BY <2>2
<1>. QED BY <1>1 DEF NoAsk

\* What Mark does to the reservations, given that the status goes forward.
LEMMA MarkMoves ==
  ASSUME TypeOK, NEW w \in Windows, NEW i \in DOMAIN reservations[w],
         NEW s \in {"USED", "RELEASED"}, Mark(w, i, s),
         Forward(reservations[w][i].status, s)
  PROVE  /\ reservations' \in [Windows -> Seq(Reservation)]
         /\ \A x \in Windows : Moves(x) /\ DOMAIN reservations'[x] = DOMAIN reservations[x]
         /\ reservations'[w][i] = [reservations[w][i] EXCEPT !.status = s]
<1>1. reservations[w] \in Seq(Reservation) /\ reservations[w][i] \in Reservation
  BY DEF TypeOK
<1>2. reservations'[w] = [reservations[w] EXCEPT ![i].status = s]
  BY DEF Mark, TypeOK
<1>3. [reservations[w][i] EXCEPT !.status = s] \in Reservation
  BY <1>1 DEF Reservation
<1>4. reservations'[w] \in Seq(Reservation)
  BY <1>1, <1>2, <1>3
<1>5. \A x \in Windows : x # w => reservations'[x] = reservations[x]
  BY DEF Mark, TypeOK
<1>6. reservations' \in [Windows -> Seq(Reservation)]
  BY <1>4, <1>5 DEF Mark, TypeOK
<1>7. /\ DOMAIN reservations'[w] = DOMAIN reservations[w]
      /\ reservations'[w][i] = [reservations[w][i] EXCEPT !.status = s]
      /\ \A j \in DOMAIN reservations[w] : j # i => reservations'[w][j] = reservations[w][j]
  BY <1>1, <1>2
<1>8. Moves(w)
  BY <1>1, <1>7 DEF Moves, Forward, Reservation
<1>9. \A x \in Windows : x # w => Moves(x)
  BY <1>5 DEF Moves, Forward
<1>. QED BY <1>5, <1>6, <1>7, <1>8, <1>9

\* What the $push of a reservation does.
LEMMA PushMoves ==
  ASSUME TypeOK, NEW w \in Windows, NEW r \in Reservation, At(w, r.charge) = {},
         reservations' = [reservations EXCEPT ![w] = Append(@, r)]
  PROVE  /\ reservations' \in [Windows -> Seq(Reservation)]
         /\ \A x \in Windows : Moves(x)
<1>1. reservations[w] \in Seq(Reservation)
  BY DEF TypeOK
<1>2. reservations'[w] = Append(reservations[w], r)
  BY DEF TypeOK
<1>3. \A x \in Windows : x # w => reservations'[x] = reservations[x]
  BY DEF TypeOK
<1>4. reservations' \in [Windows -> Seq(Reservation)]
  BY <1>1, <1>2, <1>3 DEF TypeOK
<1>5. /\ DOMAIN reservations'[w] = DOMAIN reservations[w] \cup {Len(reservations[w]) + 1}
      /\ \A j \in DOMAIN reservations[w] : reservations'[w][j] = reservations[w][j]
      /\ reservations'[w][Len(reservations[w]) + 1] = r
  BY <1>1, <1>2
<1>6. Moves(w)
  BY <1>5 DEF Moves, Forward
<1>7. \A x \in Windows : x # w => Moves(x)
  BY <1>3 DEF Moves, Forward
<1>. QED BY <1>4, <1>6, <1>7

\* Every step moves the reservations of every window so, and keeps the type.
LEMMA StepMoves ==
  ASSUME TypeOK, [Next]_vars
  PROVE  /\ reservations' \in [Windows -> Seq(Reservation)]
         /\ \A x \in Windows : Moves(x)
<1>quiet. ASSUME UNCHANGED reservations
          PROVE  /\ reservations' \in [Windows -> Seq(Reservation)]
                 /\ \A x \in Windows : Moves(x)
  BY <1>quiet DEF Moves, Forward, TypeOK
<1>types. \A w \in Windows : \A i \in DOMAIN reservations[w] : reservations[w][i] \in Reservation
  BY DEF TypeOK
<1>1. ASSUME NEW c \in Callers, Grant(c)
      PROVE  /\ reservations' \in [Windows -> Seq(Reservation)]
             /\ \A x \in Windows : Moves(x)
  <2>1. ask[c] \in Asks
    BY DEF TypeOK
  <2>2. [charge |-> ask[c].charge, cost |-> ask[c].cost, status |-> "RESERVED"] \in Reservation
    BY <2>1 DEF Asks, Reservation
  <2>. QED BY <1>1, <2>1, <2>2, PushMoves DEF Grant, Unreserved, Asks
<1>2. ASSUME NEW c \in Callers, ReleaseReserved(c)
      PROVE  /\ reservations' \in [Windows -> Seq(Reservation)]
             /\ \A x \in Windows : Moves(x)
  <2>1. ask[c].window \in Windows
    BY DEF TypeOK, Asks
  <2>2. CASE UNCHANGED document
    BY <2>2, <1>quiet DEF document
  <2>3. CASE \E i \in FirstMatch(ask[c].window, ask[c].charge) : Mark(ask[c].window, i, "RELEASED")
    BY <2>1, <2>3, MarkMoves DEF FirstMatch, In, At, Forward
  <2>. QED BY <1>2, <2>2, <2>3 DEF ReleaseReserved
<1>3. ASSUME NEW c \in Callers, ReleaseUsed(c)
      PROVE  /\ reservations' \in [Windows -> Seq(Reservation)]
             /\ \A x \in Windows : Moves(x)
  <2>1. ask[c].window \in Windows
    BY DEF TypeOK, Asks
  <2>2. CASE UNCHANGED document
    BY <2>2, <1>quiet DEF document
  <2>3. CASE \E i \in SecondMatch(ask[c].window, ask[c].charge) : Mark(ask[c].window, i, "RELEASED")
    BY <2>1, <2>3, MarkMoves DEF SecondMatch, In, At, Forward
  <2>. QED BY <1>3, <2>2, <2>3 DEF ReleaseUsed
<1>4. ASSUME NEW w \in Windows, NEW i \in DOMAIN reservations[w], Consume(w, i) \/ ReleaseSnapshot(w, i)
      PROVE  /\ reservations' \in [Windows -> Seq(Reservation)]
             /\ \A x \in Windows : Moves(x)
  BY <1>4, MarkMoves DEF Consume, ReleaseSnapshot, Consumable, Forward
<1>5. ASSUME NEW c \in Callers,
             Upsert(c) \/ Refuse(c) \/ Lookup(c) \/ Return(c) \/ Refundable(c) \/ Crash(c)
      PROVE  UNCHANGED reservations
  BY <1>5 DEF Upsert, Refuse, Lookup, Return, Refundable, Crash, document
<1>6. ASSUME NEW c \in Callers, NEW w \in Windows,
             \/ \E charge \in Charges, l \in Limits, k \in Costs : Reserve(c, w, charge, l, k)
             \/ \E i \in DOMAIN reservations[w] : Release(c, w, i)
             \/ Status(c, w)
             \/ RefundNext(c, w)
      PROVE  UNCHANGED reservations
  BY <1>6 DEF Reserve, Release, Status, RefundNext, document
<1>7. ASSUME NEW v \in Verifications, TurnTerminal(v) \/ Retried(v)
      PROVE  UNCHANGED reservations
  BY <1>7 DEF TurnTerminal, Retried, document
<1>8. CASE UNCHANGED vars
  BY <1>8, <1>quiet DEF vars, document
<1>. QED BY <1>1, <1>2, <1>3, <1>4, <1>5, <1>6, <1>7, <1>8, <1>quiet DEF Next, Step

-----------------------------------------------------------------------------
LEMMA CounterType ==
  ASSUME NEW f \in [Windows -> Int], NEW w \in Windows, NEW k \in Int
  PROVE  /\ [f EXCEPT ![w] = @ + k] \in [Windows -> Int]
         /\ [f EXCEPT ![w] = @ - k] \in [Windows -> Int]
  OBVIOUS

\* Type correctness.  The cost a caller returns to a counter is one of Costs.
LEMMA TypeInvariant == ASSUME TypeOK, [Next]_vars PROVE TypeOK'
<1>. USE UsageAssumption
<1>1. reservations' \in [Windows -> Seq(Reservation)]
  BY StepMoves
<1>2. Costs \subseteq Int /\ Limits \subseteq Int
  OBVIOUS
<1>3. \A w \in Windows : \A i \in DOMAIN reservations[w] :
        /\ reservations[w][i].cost \in Costs
        /\ reservations[w][i].charge \in Charges
  BY Entries
<1>4. \A c \in Callers : ask[c] \in Asks /\ ask[c].cost \in Int /\ ask[c].window \in Windows
  BY <1>2 DEF TypeOK, Asks
<1>proceed. ASSUME NEW c \in Callers, NEW p \in Phases, Proceed(c, p)
            PROVE  phase' \in [Callers -> Phases] /\ ask' \in [Callers -> Asks]
  BY <1>proceed, NoAskType DEF Proceed, Goto, TypeOK
<1>. USE DEF TypeOK, Phases
<1>5. ASSUME NEW c \in Callers, NEW w \in Windows, NEW charge \in Charges,
             NEW l \in Limits, NEW k \in Costs, Reserve(c, w, charge, l, k)
      PROVE  TypeOK'
  BY <1>5, <1>1 DEF Reserve, Goto, document, Asks
<1>6. ASSUME NEW c \in Callers, Upsert(c)
      PROVE  TypeOK'
  <2>1. ask[c].limit \in Limits
    BY DEF Asks
  <2>2. limit' \in [Windows -> Limits \cup {0}] /\ highest' \in [Windows -> Limits \cup {0}]
    BY <1>6, <2>1, <1>4 DEF Upsert, SetLimit
  <2>. QED BY <1>6, <1>1, <2>2 DEF Upsert, Goto
<1>7. ASSUME NEW c \in Callers, Grant(c)
      PROVE  TypeOK'
  <2>1. reserved' \in [Windows -> Int]
    BY <1>7, <1>4 DEF Grant
  <2>. QED BY <1>7, <1>1, <2>1, <1>proceed DEF Grant
<1>8. ASSUME NEW c \in Callers, Refuse(c) \/ Lookup(c) \/ Return(c)
      PROVE  TypeOK'
  BY <1>8, <1>1, <1>proceed DEF Refuse, Lookup, Return, document
<1>9. ASSUME NEW c \in Callers, Refundable(c) \/ Crash(c)
      PROVE  TypeOK'
  <2>1. todo' \in [Callers -> SUBSET Charges]
    BY ZenonT(60), <1>9 DEF Refundable, Crash
  <2>. QED BY <1>9, <1>1, <2>1, <1>proceed, SMTT(60) DEF Refundable, Crash, document
<1>10. ASSUME NEW w \in Windows, NEW i \in DOMAIN reservations[w], Consume(w, i) \/ ReleaseSnapshot(w, i)
       PROVE  TypeOK'
  <2>1. reservations[w][i].cost \in Int
    BY <1>2, <1>3
  <2>2. CASE Consume(w, i)
    <3>1. reserved' \in [Windows -> Int] /\ used' \in [Windows -> Int]
      BY <2>1, <2>2, CounterType DEF Consume
    <3>. QED BY <3>1, <2>2, <1>1 DEF Consume
  <2>3. CASE ReleaseSnapshot(w, i)
    <3>1. reserved' \in [Windows -> Int] /\ released' \in [Windows -> Int]
      BY <2>1, <2>3, CounterType DEF ReleaseSnapshot
    <3>. QED BY <3>1, <2>3, <1>1 DEF ReleaseSnapshot
  <2>. QED BY <1>10, <2>2, <2>3
<1>11. ASSUME NEW c \in Callers, NEW w \in Windows, NEW i \in DOMAIN reservations[w], Release(c, w, i)
       PROVE  TypeOK'
  <2>1. reservations[w][i].charge \in Charges /\ reservations[w][i].cost \in Costs
    BY <1>3
  <2>2. [ask[c] EXCEPT !.window = w, !.charge = reservations[w][i].charge,
                       !.cost = reservations[w][i].cost] \in Asks
    BY <2>1, <1>4 DEF Asks
  <2>3. ask' \in [Callers -> Asks]
    BY <1>11, <2>2 DEF Release
  <2>. QED BY <1>11, <1>1, <2>3 DEF Release, Goto, document
<1>12. ASSUME NEW c \in Callers, ReleaseReserved(c) \/ ReleaseUsed(c)
       PROVE  TypeOK'
  <2>1. phase' \in [Callers -> Phases] /\ UNCHANGED <<terminal, ask, todo>>
    BY <1>12 DEF ReleaseReserved, ReleaseUsed, Goto
  <2>2. /\ limit' = limit /\ highest' = highest
        /\ used' \in [Windows -> Int] /\ reserved' \in [Windows -> Int]
        /\ released' \in [Windows -> Int]
    <3>1. CASE UNCHANGED document
      BY <3>1 DEF document
    <3>2. CASE /\ reserved' = [reserved EXCEPT ![ask[c].window] = @ - ask[c].cost]
               /\ released' = [released EXCEPT ![ask[c].window] = @ + ask[c].cost]
               /\ UNCHANGED <<limit, used, highest>>
      BY <1>4, <3>2, CounterType
    <3>3. CASE /\ used' = [used EXCEPT ![ask[c].window] = @ - ask[c].cost]
               /\ released' = [released EXCEPT ![ask[c].window] = @ + ask[c].cost]
               /\ UNCHANGED <<limit, reserved, highest>>
      BY <1>4, <3>3, CounterType
    <3>. QED BY <1>12, <3>1, <3>2, <3>3 DEF ReleaseReserved, ReleaseUsed
  <2>. QED BY <1>1, <2>1, <2>2
<1>13. ASSUME NEW c \in Callers, NEW w \in Windows, Status(c, w)
       PROVE  TypeOK'
  <2>1. Charged(w, "USED") \in SUBSET Charges
    BY <1>3 DEF Charged
  <2>2. [NoAsk EXCEPT !.window = w] \in Asks
    BY NoAskType DEF Asks
  <2>3. todo' \in [Callers -> SUBSET Charges] /\ ask' \in [Callers -> Asks]
    BY <1>13, <2>1, <2>2, NoAskType DEF Status
  <2>. QED BY <1>13, <1>1, <2>3 DEF Status, Goto, document
<1>14. ASSUME NEW c \in Callers, NEW w \in Windows, RefundNext(c, w)
       PROVE  TypeOK'
  <2>1. PICK ch \in todo[c], i \in DOMAIN reservations[w] :
          /\ reservations[w][i].charge = ch
          /\ todo' = [todo EXCEPT ![c] = @ \ {ch}]
          /\ ask' = [ask EXCEPT ![c].charge = ch, ![c].cost = reservations[w][i].cost]
    BY <1>14 DEF RefundNext
  <2>2. [ask[c] EXCEPT !.charge = ch, !.cost = reservations[w][i].cost] \in Asks
    BY <1>3, <1>4, <2>1 DEF Asks
  <2>3. todo' \in [Callers -> SUBSET Charges] /\ ask' \in [Callers -> Asks]
    BY <2>1, <2>2
  <2>. QED BY <1>14, <1>1, <2>3 DEF RefundNext, Goto, document
<1>15. ASSUME NEW v \in Verifications, TurnTerminal(v) \/ Retried(v)
       PROVE  TypeOK'
  BY <1>15, <1>1 DEF TurnTerminal, Retried, document
<1>16. CASE UNCHANGED vars
  BY <1>16 DEF vars, document
<1>. QED
  BY <1>5, <1>6, <1>7, <1>8, <1>9, <1>10, <1>11, <1>12, <1>13, <1>14, <1>15, <1>16 DEF Next, Step

\* Every window, charge and counter stays in its domain.
THEOREM TypeCorrect == Spec => []TypeOK
<1>1. Init => TypeOK
  BY NoAskType DEF Init, TypeOK, Phases
<1>. QED BY <1>1, TypeInvariant, PTL DEF Spec

\* A late consume() never charges again for what was released: once RELEASED, a
\* reservation stays as it is in every later step.
THEOREM ReleasedFinal == Spec => ReleasedIsFinal
<1>1. ASSUME TypeOK, [Next]_vars
      PROVE  [\A w \in Windows : \A i \in DOMAIN reservations[w] :
                reservations[w][i].status = "RELEASED"
                  => /\ i \in DOMAIN reservations'[w]
                     /\ reservations'[w][i] = reservations[w][i]]_vars
  <2>1. SUFFICES ASSUME NEW w \in Windows, NEW i \in DOMAIN reservations[w],
                        reservations[w][i].status = "RELEASED"
                 PROVE  /\ i \in DOMAIN reservations'[w]
                        /\ reservations'[w][i] = reservations[w][i]
    OBVIOUS
  <2>2. Moves(w) /\ reservations' \in [Windows -> Seq(Reservation)]
    BY <1>1, StepMoves
  <2>3. i \in DOMAIN reservations'[w] /\ reservations[w][i] \in Reservation
        /\ reservations'[w][i] \in Reservation
    BY <1>1, <2>2 DEF Moves, TypeOK
  <2>. QED BY <2>1, <2>2, <2>3 DEF Moves, Forward, Reservation
<1>. QED BY <1>1, TypeCorrect, PTL DEF Spec, ReleasedIsFinal

-----------------------------------------------------------------------------
\* Only Grant appends, and only for a charge the window does not have.
LEMMA OneReservationStep == ASSUME TypeOK, OneReservation, [Next]_vars PROVE OneReservation'
<1>1. SUFFICES ASSUME NEW w \in Windows, NEW i \in DOMAIN reservations'[w],
                      NEW j \in DOMAIN reservations'[w],
                      reservations'[w][i].charge = reservations'[w][j].charge
               PROVE  i = j
  BY DEF OneReservation
<1>2. Moves(w)
  BY StepMoves
<1>3. CASE i \in DOMAIN reservations[w] /\ j \in DOMAIN reservations[w]
  BY <1>1, <1>2, <1>3 DEF Moves, OneReservation
<1>4. CASE i \notin DOMAIN reservations[w] /\ j \notin DOMAIN reservations[w]
  BY <1>2, <1>4 DEF Moves
<1>5. CASE i \in DOMAIN reservations[w] /\ j \notin DOMAIN reservations[w]
  BY <1>1, <1>2, <1>5 DEF Moves, At
<1>6. CASE i \notin DOMAIN reservations[w] /\ j \in DOMAIN reservations[w]
  BY <1>1, <1>2, <1>6 DEF Moves, At
<1>. QED BY <1>3, <1>4, <1>5, <1>6

\* The counters together only grow where the guard of the update was evaluated.
LEMMA WithinLimitStep ==
  ASSUME TypeOK, LimitKnown, WithinLimit, [Next]_vars
  PROVE  LimitKnown' /\ WithinLimit'
<1>. USE UsageAssumption
<1>1. Costs \subseteq Int /\ Limits \subseteq Int /\ \A k \in Costs : k > 0
  OBVIOUS
<1>2. \A w \in Windows : /\ limit[w] \in Int /\ used[w] \in Int
                         /\ reserved[w] \in Int /\ highest[w] \in Int
  <2>1. Limits \cup {0} \subseteq Int
    BY <1>1
  <2>. QED BY <2>1 DEF TypeOK
<1>3. \A w \in Windows : \A i \in DOMAIN reservations[w] : reservations[w][i].cost \in Costs
  BY Entries
<1>4. \A c \in Callers : ask[c].cost \in Costs /\ ask[c].window \in Windows /\ ask[c].limit \in Limits
  BY DEF TypeOK, Asks
<1>quiet. ASSUME UNCHANGED <<limit, used, reserved, highest>>
          PROVE  LimitKnown' /\ WithinLimit'
  BY <1>quiet DEF LimitKnown, WithinLimit
<1>5. ASSUME NEW c \in Callers, Upsert(c)
      PROVE  LimitKnown' /\ WithinLimit'
  <2>1. \A w \in Windows : w # ask[c].window => limit'[w] = limit[w] /\ highest'[w] = highest[w]
    BY <1>5 DEF Upsert, SetLimit, TypeOK
  <2>2. /\ limit'[ask[c].window] = ask[c].limit
        /\ highest'[ask[c].window] = IF highest[ask[c].window] < ask[c].limit
                                     THEN ask[c].limit ELSE highest[ask[c].window]
    BY <1>5, <1>4 DEF Upsert, SetLimit, TypeOK
  <2>3. ask[c].limit \in Int
    BY <1>1, <1>4
  <2>4. \A w \in Windows : limit'[w] <= highest'[w] /\ highest[w] <= highest'[w]
    BY <1>2, <2>1, <2>2, <2>3 DEF LimitKnown
  <2>5. \A w \in Windows : highest'[w] \in Int
    BY <1>2, <2>1, <2>2, <2>3
  <2>6. used' = used /\ reserved' = reserved
    BY <1>5 DEF Upsert
  <2>. QED BY <1>2, <2>4, <2>5, <2>6 DEF LimitKnown, WithinLimit
<1>6. ASSUME NEW c \in Callers, Grant(c)
      PROVE  LimitKnown' /\ WithinLimit'
  <2>1. /\ reserved' = [reserved EXCEPT ![ask[c].window] = @ + ask[c].cost]
        /\ UNCHANGED <<limit, used, highest>>
        /\ used[ask[c].window] + reserved[ask[c].window] + ask[c].cost <= limit[ask[c].window]
    BY <1>6 DEF Grant, Fits
  <2>2. ask[c].cost \in Int
    BY <1>1, <1>4
  <2>3. \A w \in Windows :
          reserved'[w] = IF w = ask[c].window THEN reserved[w] + ask[c].cost ELSE reserved[w]
    BY <2>1 DEF TypeOK
  <2>4. ASSUME NEW w \in Windows PROVE used'[w] + reserved'[w] <= highest'[w]
    <3>1. limit[w] <= highest[w] /\ used[w] + reserved[w] <= highest[w]
      BY DEF LimitKnown, WithinLimit
    <3>2. CASE w = ask[c].window
      BY <3>1, <3>2, <1>2, <2>1, <2>2, <2>3
    <3>3. CASE w # ask[c].window
      BY <3>1, <3>3, <1>2, <2>1, <2>2, <2>3
    <3>. QED BY <3>2, <3>3
  <2>. QED BY <2>1, <2>4 DEF LimitKnown, WithinLimit
<1>7. ASSUME NEW w \in Windows, NEW i \in DOMAIN reservations[w], Consume(w, i) \/ ReleaseSnapshot(w, i)
      PROVE  LimitKnown' /\ WithinLimit'
  <2>1. reservations[w][i].cost \in Int /\ reservations[w][i].cost > 0
    BY <1>1, <1>3
  <2>2. /\ reserved' = [reserved EXCEPT ![w] = @ - reservations[w][i].cost]
        /\ used' = [used EXCEPT ![w] = @ + reservations[w][i].cost] \/ used' = used
        /\ UNCHANGED <<limit, highest>>
    BY <1>7 DEF Consume, ReleaseSnapshot
  <2>3. ASSUME NEW x \in Windows PROVE used'[x] + reserved'[x] <= used[x] + reserved[x]
    <3>1. x # w => used'[x] = used[x] /\ reserved'[x] = reserved[x]
      BY <2>2 DEF TypeOK
    <3>2. /\ reserved'[w] = reserved[w] - reservations[w][i].cost
          /\ used'[w] = used[w] + reservations[w][i].cost \/ used'[w] = used[w]
      BY <2>2 DEF TypeOK
    <3>. QED BY <3>1, <3>2, <1>2, <2>1
  <2>4. \A x \in Windows : used'[x] \in Int /\ reserved'[x] \in Int
    <3> DEFINE k == reservations[w][i].cost
    <3>0. /\ reserved' = [reserved EXCEPT ![w] = @ - k]
          /\ used' = [used EXCEPT ![w] = @ + k] \/ used' = used
      BY <2>2
    <3>2. k \in Int /\ used \in [Windows -> Int] /\ reserved \in [Windows -> Int]
      BY <2>1 DEF TypeOK
    <3> HIDE DEF k
    <3>1. used' \in [Windows -> Int] /\ reserved' \in [Windows -> Int]
      BY <3>0, <3>2, CounterType
    <3>. QED BY <3>1
  <2>. QED BY <1>2, <2>2, <2>3, <2>4 DEF LimitKnown, WithinLimit
<1>8. ASSUME NEW c \in Callers, ReleaseReserved(c) \/ ReleaseUsed(c)
      PROVE  LimitKnown' /\ WithinLimit'
  <2>1. ask[c].cost \in Int /\ ask[c].cost > 0
    BY <1>1, <1>4
  <2>2. CASE UNCHANGED document
    BY <2>2, <1>quiet DEF document
  <2>3. CASE /\ reserved' = [reserved EXCEPT ![ask[c].window] = @ - ask[c].cost]
             /\ UNCHANGED <<limit, used, highest>>
    <3>1. \A w \in Windows :
            reserved'[w] = IF w = ask[c].window THEN reserved[w] - ask[c].cost ELSE reserved[w]
      BY <2>3 DEF TypeOK
    <3>2. \A w \in Windows : used'[w] + reserved'[w] <= highest'[w]
      BY <3>1, <1>2, <2>1, <2>3 DEF WithinLimit
    <3>. QED BY <3>2, <2>3 DEF LimitKnown, WithinLimit
  <2>4. CASE /\ used' = [used EXCEPT ![ask[c].window] = @ - ask[c].cost]
             /\ UNCHANGED <<limit, reserved, highest>>
    <3>1. \A w \in Windows :
            used'[w] = IF w = ask[c].window THEN used[w] - ask[c].cost ELSE used[w]
      BY <2>4 DEF TypeOK
    <3>2. \A w \in Windows : used'[w] + reserved'[w] <= highest'[w]
      BY <3>1, <1>2, <2>1, <2>4 DEF WithinLimit
    <3>. QED BY <3>2, <2>4 DEF LimitKnown, WithinLimit
  <2>. QED BY <1>8, <2>2, <2>3, <2>4 DEF ReleaseReserved, ReleaseUsed
<1>9. ASSUME NEW c \in Callers,
             Refuse(c) \/ Lookup(c) \/ Return(c) \/ Refundable(c) \/ Crash(c)
      PROVE  UNCHANGED document
  BY <1>9 DEF Refuse, Lookup, Return, Refundable, Crash
<1>10. ASSUME NEW c \in Callers, NEW w \in Windows,
             \/ \E charge \in Charges, l \in Limits, k \in Costs : Reserve(c, w, charge, l, k)
             \/ \E i \in DOMAIN reservations[w] : Release(c, w, i)
             \/ Status(c, w)
             \/ RefundNext(c, w)
      PROVE  UNCHANGED document
  BY <1>10 DEF Reserve, Release, Status, RefundNext
<1>11. ASSUME NEW v \in Verifications, TurnTerminal(v) \/ Retried(v)
      PROVE  UNCHANGED document
  BY <1>11 DEF TurnTerminal, Retried
<1>12. CASE UNCHANGED document
  BY <1>12, <1>quiet DEF document
<1>13. CASE UNCHANGED vars
  BY <1>13, <1>quiet DEF vars, document
<1>. QED
  BY <1>5, <1>6, <1>7, <1>8, <1>9, <1>10, <1>11, <1>12, <1>13 DEF Next, Step

\* Who a step moves, and where to: applyRelease is entered from the snapshot and
\* from a refund, and left through its two updates.
LEMMA Movers ==
  ASSUME TypeOK, [Next]_vars, NEW c \in Callers
  PROVE  \/ ask'[c] = ask[c] /\ phase'[c] = phase[c]
         \/ phase'[c] \notin {"release", "releaseUsed", "freed"}
         \/ \E w \in Windows : \E i \in DOMAIN reservations[w] : Release(c, w, i)
         \/ \E w \in Windows : RefundNext(c, w)
         \/ ReleaseReserved(c) \/ ReleaseUsed(c)
<1>1. ASSUME NEW d \in Callers,
             Upsert(d) \/ Grant(d) \/ Refuse(d) \/ Lookup(d) \/ Return(d) \/ Refundable(d) \/ Crash(d)
      PROVE  /\ phase'[d] \notin {"release", "releaseUsed", "freed"}
             /\ \E p : phase' = [phase EXCEPT ![d] = p]
             /\ ask' = ask \/ \E a : ask' = [ask EXCEPT ![d] = a]
  BY <1>1 DEF Upsert, Grant, Refuse, Lookup, Return, Refundable, Crash, Proceed, Goto, TypeOK
<1>2. ASSUME NEW d \in Callers, NEW w \in Windows,
             (\E charge \in Charges, l \in Limits, k \in Costs : Reserve(d, w, charge, l, k)) \/ Status(d, w)
      PROVE  /\ phase'[d] \notin {"release", "releaseUsed", "freed"}
             /\ \E p : phase' = [phase EXCEPT ![d] = p]
             /\ \E a : ask' = [ask EXCEPT ![d] = a]
  BY <1>2 DEF Reserve, Status, Goto, TypeOK
<1>3. ASSUME NEW d \in Callers, ReleaseReserved(d) \/ ReleaseUsed(d)
       PROVE  (\E p : phase' = [phase EXCEPT ![d] = p]) /\ ask' = ask
  BY <1>3 DEF ReleaseReserved, ReleaseUsed, Goto
<1>4. ASSUME NEW d \in Callers, NEW w \in Windows,
              (\E i \in DOMAIN reservations[w] : Release(d, w, i)) \/ RefundNext(d, w)
       PROVE  (\E p : phase' = [phase EXCEPT ![d] = p]) /\ (\E a : ask' = [ask EXCEPT ![d] = a])
  BY <1>4 DEF Release, RefundNext, Goto
<1>5. ASSUME NEW w \in Windows, NEW i \in DOMAIN reservations[w], Consume(w, i) \/ ReleaseSnapshot(w, i)
       PROVE  phase' = phase /\ ask' = ask
  BY <1>5 DEF Consume, ReleaseSnapshot
<1>6. ASSUME NEW v \in Verifications, TurnTerminal(v) \/ Retried(v)
       PROVE  phase' = phase /\ ask' = ask
  BY <1>6 DEF TurnTerminal, Retried
<1>7. ASSUME NEW d \in Callers, c # d, NEW p,
             phase' = [phase EXCEPT ![d] = p],
             \/ ask' = ask
             \/ \E a : ask' = [ask EXCEPT ![d] = a]
      PROVE  ask'[c] = ask[c] /\ phase'[c] = phase[c]
  BY <1>7 DEF TypeOK
<1>8. ASSUME NEW d \in Callers, Step(d), c # d
      PROVE  ask'[c] = ask[c] /\ phase'[c] = phase[c]
  BY <1>8, <1>1, <1>3, <1>7 DEF Step
<1>9. ASSUME NEW d \in Callers, NEW w \in Windows, c # d,
             \/ \E charge \in Charges, l \in Limits, k \in Costs : Reserve(d, w, charge, l, k)
             \/ \E i \in DOMAIN reservations[w] : Release(d, w, i)
             \/ Status(d, w)
             \/ RefundNext(d, w)
      PROVE  ask'[c] = ask[c] /\ phase'[c] = phase[c]
  BY <1>9, <1>2, <1>4, <1>7
<1>10. CASE UNCHANGED vars
  BY <1>10 DEF vars
<1>. QED BY <1>1, <1>2, <1>5, <1>6, <1>8, <1>9, <1>10 DEF Next, Step

\* A caller on its way through applyRelease: what it found in the ledger stays
\* there, and what is not RESERVED does not become RESERVED again.
LEMMA ReleasingStep ==
  ASSUME TypeOK, Releasing, ReleaseWins, [Next]_vars
  PROVE  Releasing' /\ ReleaseWins'
<1>types. /\ \A c \in Callers : ask[c].window \in Windows
          /\ \A w \in Windows : Moves(w)
          /\ \A w \in Windows : \A i \in DOMAIN reservations[w] : reservations[w][i] \in Reservation
          /\ \A w \in Windows : \A i \in DOMAIN reservations'[w] : reservations'[w][i] \in Reservation
  <2>1. \A w \in Windows : \A i \in DOMAIN reservations[w] : reservations[w][i] \in Reservation
    BY Entries
  <2>2. \A w \in Windows : \A i \in DOMAIN reservations'[w] : reservations'[w][i] \in Reservation
    BY StepMoves
  <2>. QED BY <2>1, <2>2, StepMoves DEF TypeOK, Asks
\* One caller whose ask did not change.
<1>stay. ASSUME NEW c \in Callers, ask'[c] = ask[c]
         PROVE  LET w == ask[c].window
                    ch == ask[c].charge
                IN /\ At(w, ch) # {} => At(w, ch)' # {}
                   /\ At(w, ch) # {} /\ In(w, ch, "RESERVED") = {} => In(w, ch, "RESERVED")' = {}
                   /\ ch \in Charged(w, "RELEASED") => ch \in Charged(w, "RELEASED")'
  <2>. DEFINE w == ask[c].window
              ch == ask[c].charge
  <2>0. w \in Windows /\ Moves(w) /\ w' = w /\ ch' = ch
    BY <1>types, <1>stay
  <2>1. At(w, ch) # {} => At(w, ch)' # {}
    BY <2>0 DEF Moves, At
  <2>2. ASSUME At(w, ch) # {}, In(w, ch, "RESERVED") = {}
        PROVE  In(w, ch, "RESERVED")' = {}
    <3>1. SUFFICES ASSUME NEW i \in DOMAIN reservations'[w], reservations'[w][i].charge = ch,
                          reservations'[w][i].status = "RESERVED"
                   PROVE  FALSE
      BY <2>0 DEF In, At
    <3>2. CASE i \in DOMAIN reservations[w]
      BY <2>0, <2>2, <3>1, <3>2 DEF Moves, Forward, In, At
    <3>3. CASE i \notin DOMAIN reservations[w]
      BY <2>0, <2>2, <3>1, <3>3, SMTT(60) DEF Moves
    <3>. QED BY <3>2, <3>3
  <2>3. ASSUME ch \in Charged(w, "RELEASED")
        PROVE  ch \in Charged(w, "RELEASED")'
    <3>1. PICK i \in DOMAIN reservations[w] :
            reservations[w][i].charge = ch /\ reservations[w][i].status = "RELEASED"
      BY <2>3 DEF Charged
    <3>2. /\ i \in DOMAIN reservations'[w]
          /\ reservations'[w][i].charge = ch /\ reservations'[w][i].status = "RELEASED"
      BY <2>0, <3>1 DEF Moves, Forward
    <3>. QED BY <2>0, <3>2 DEF Charged
  <2>. QED BY <2>1, <2>2, <2>3
<1>. DEFINE Inside(c) == phase[c] \in {"release", "releaseUsed", "freed"}
            Ok(c) == /\ Inside(c)' => At(ask[c].window, ask[c].charge)' # {}
                     /\ phase'[c] = "releaseUsed" => In(ask[c].window, ask[c].charge, "RESERVED")' = {}
                     /\ phase'[c] = "freed" => ask'[c].charge \in Charged(ask[c].window, "RELEASED")'
\* A caller that does not move, or moves to where nothing is asked of it.
<1>1. ASSUME NEW c \in Callers, ask'[c] = ask[c], phase'[c] = phase[c]
      PROVE  Ok(c)
  BY <1>1, <1>stay DEF Releasing, ReleaseWins
<1>2. ASSUME NEW c \in Callers, ~ (phase'[c] \in {"release", "releaseUsed", "freed"})
      PROVE  Ok(c)
  BY <1>2
\* The caller that moves.
<1>4. ASSUME NEW c \in Callers, NEW w \in Windows, NEW i \in DOMAIN reservations[w],
             Release(c, w, i)
      PROVE  Ok(c)
  <2>1. /\ ask'[c].window = w /\ ask'[c].charge = reservations[w][i].charge
        /\ phase'[c] = "release" /\ reservations' = reservations
    BY <1>4 DEF Release, Goto, document, TypeOK, Asks
  <2>2. i \in At(ask[c].window, ask[c].charge)'
    BY <2>1 DEF At
  <2>. QED BY <2>1, <2>2
<1>5. ASSUME NEW c \in Callers, NEW w \in Windows, RefundNext(c, w)
      PROVE  Ok(c)
  <2>1. PICK i \in DOMAIN reservations[w] :
          ask' = [ask EXCEPT ![c].charge = reservations[w][i].charge, ![c].cost = reservations[w][i].cost]
    BY <1>5 DEF RefundNext
  <2>2. /\ ask'[c].window = w /\ ask'[c].charge = reservations[w][i].charge
        /\ phase'[c] = "release" /\ reservations' = reservations
    BY <1>5, <2>1 DEF RefundNext, Goto, document, TypeOK, Asks
  <2>3. i \in At(ask[c].window, ask[c].charge)'
    BY <2>2 DEF At
  <2>. QED BY <2>2, <2>3
<1>freed. ASSUME NEW c \in Callers, NEW i \in At(ask[c].window, ask[c].charge), ask' = ask,
                 Mark(ask[c].window, i, "RELEASED"), reservations[ask[c].window][i].status # "RELEASED",
                 phase'[c] = "freed"
          PROVE  Ok(c)
  <2>1. ask[c].window \in Windows /\ i \in DOMAIN reservations[ask[c].window]
        /\ reservations[ask[c].window][i].charge = ask[c].charge
    BY <1>types DEF At
  <2>2. Forward(reservations[ask[c].window][i].status, "RELEASED")
    BY <1>types, <1>freed, <2>1 DEF Forward, Reservation
  <2>3. /\ DOMAIN reservations'[ask[c].window] = DOMAIN reservations[ask[c].window]
        /\ reservations'[ask[c].window][i] = [reservations[ask[c].window][i] EXCEPT !.status = "RELEASED"]
    BY <1>freed, <2>1, <2>2, MarkMoves
  <2>4. /\ i \in DOMAIN reservations'[ask[c].window]
        /\ reservations'[ask[c].window][i].charge = ask[c].charge
        /\ reservations'[ask[c].window][i].status = "RELEASED"
    BY <1>types, <2>1, <2>3 DEF Reservation
  <2>5. i \in At(ask[c].window, ask[c].charge)' /\ ask'[c].charge \in Charged(ask[c].window, "RELEASED")'
    BY <1>freed, <2>4 DEF At, Charged
  <2>. QED BY <1>freed, <2>5
<1>6. ASSUME NEW c \in Callers, ReleaseReserved(c)
      PROVE  Ok(c)
  <2>1. ask' = ask
    BY <1>6 DEF ReleaseReserved
  <2>2. CASE FirstMatch(ask[c].window, ask[c].charge) = {}
    <3>1. phase'[c] = "releaseUsed" /\ reservations' = reservations /\ phase[c] = "release"
      BY <1>6, <2>2 DEF ReleaseReserved, Goto, document, TypeOK
    <3>2. At(ask[c].window, ask[c].charge) # {}
      BY <3>1 DEF Releasing
    <3>. QED BY <2>1, <2>2, <3>1, <3>2, <1>stay DEF FirstMatch
  <2>3. CASE FirstMatch(ask[c].window, ask[c].charge) # {}
    <3>1. PICK i \in FirstMatch(ask[c].window, ask[c].charge) :
            Mark(ask[c].window, i, "RELEASED") /\ phase'[c] = "freed"
      BY <1>6, <2>3 DEF ReleaseReserved, Goto, TypeOK
    <3>. QED BY <2>1, <3>1, <1>freed DEF FirstMatch, In
  <2>. QED BY <2>2, <2>3
<1>7. ASSUME NEW c \in Callers, ReleaseUsed(c)
      PROVE  Ok(c)
  <2>1. ask' = ask /\ phase'[c] = "freed" /\ phase[c] = "releaseUsed"
    BY <1>7 DEF ReleaseUsed, Goto, TypeOK
  <2>2. CASE SecondMatch(ask[c].window, ask[c].charge) = {}
    <3>1. reservations' = reservations
      BY <1>7, <2>2 DEF ReleaseUsed, document
    <3>2. PICK i \in At(ask[c].window, ask[c].charge) : TRUE
      BY <2>1 DEF Releasing
    <3>3. i \in DOMAIN reservations[ask[c].window] /\ reservations[ask[c].window][i] \in Reservation
      BY <1>types, <3>2 DEF At
    <3>4. reservations[ask[c].window][i].status \notin {"RESERVED", "USED"}
      BY <2>1, <2>2, <3>2 DEF Releasing, In, SecondMatch
    <3>5. reservations[ask[c].window][i].status = "RELEASED"
      BY <3>3, <3>4 DEF Reservation
    <3>6. ask[c].charge \in Charged(ask[c].window, "RELEASED")
      BY <3>2, <3>3, <3>5 DEF Charged, At
    <3>. QED BY <2>1, <3>1, <3>2, <3>6, <1>stay
  <2>3. CASE SecondMatch(ask[c].window, ask[c].charge) # {}
    <3>1. PICK i \in SecondMatch(ask[c].window, ask[c].charge) : Mark(ask[c].window, i, "RELEASED")
      BY <1>7, <2>3 DEF ReleaseUsed
    <3>. QED BY <2>1, <3>1, <1>freed DEF SecondMatch, In
  <2>. QED BY <2>2, <2>3
<1>. QED BY <1>1, <1>2, <1>4, <1>5, <1>6, <1>7, Movers DEF Releasing, ReleaseWins

-----------------------------------------------------------------------------
LEMMA Inductive == Spec => []IInv
<1>1. Init => IInv
  BY NoAskType DEF Init, IInv, TypeOK, Phases, LimitKnown, WithinLimit, OneReservation,
                   Releasing, ReleaseWins
<1>2. IInv /\ [Next]_vars => IInv'
  BY TypeInvariant, WithinLimitStep, OneReservationStep, ReleasingStep DEF IInv
<1>. QED BY <1>1, <1>2, PTL DEF Spec

\* Concurrent calls never grant more than the highest limit the window was given.
THEOREM LimitKept == Spec => []WithinLimit
BY Inductive, PTL DEF IInv

\* A charge has one reservation, however often and concurrently it is reserved.
THEOREM ChargedOnce == Spec => []OneReservation
BY Inductive, PTL DEF IInv

\* When release() returns the charge is released, also when a consume() came
\* between its two updates.
THEOREM ReleaseTakesEffect == Spec => []ReleaseWins
BY Inductive, PTL DEF IInv

\* All of it at once, for any number of callers, windows and charges.
THEOREM ChargesAreKept == Spec => []ChargesHold
BY Inductive, PTL DEF IInv, ChargesHold

-----------------------------------------------------------------------------
(* The counters and what they count.                                       *)

Statuses == {"RESERVED", "USED", "RELEASED"}
Block(i, k) == {i} \X (1..k)

LEMMA BlockSize ==
  ASSUME NEW i, NEW k \in Nat
  PROVE  IsFiniteSet(Block(i, k)) /\ Cardinality(Block(i, k)) = k
<1>1. IsFiniteSet({i}) /\ Cardinality({i}) = 1
  BY FS_Singleton
<1>2. IsFiniteSet(1..k) /\ Cardinality(1..k) = k
  BY FS_Interval
<1>3. /\ IsFiniteSet({i} \X (1..k))
      /\ Cardinality({i} \X (1..k)) = Cardinality({i}) * Cardinality(1..k)
  BY <1>1, <1>2, FS_Product
<1>. QED BY <1>1, <1>2, <1>3 DEF Block

\* A reservation with its units joins those of a status.
LEMMA Joins ==
  ASSUME NEW U, IsFiniteSet(U), NEW i, NEW k \in Nat, U \cap Block(i, k) = {}
  PROVE  /\ IsFiniteSet(U \cup Block(i, k))
         /\ Cardinality(U \cup Block(i, k)) = Cardinality(U) + k
<1>1. IsFiniteSet(Block(i, k)) /\ Cardinality(Block(i, k)) = k
  BY BlockSize
<1>2. Cardinality({}) = 0 /\ Cardinality(U) \in Nat
  BY FS_EmptySet, FS_CardinalityType
<1>3. /\ IsFiniteSet(U \cup Block(i, k))
      /\ Cardinality(U \cup Block(i, k)) =
           Cardinality(U) + Cardinality(Block(i, k)) - Cardinality(U \cap Block(i, k))
  BY <1>1, FS_Union
<1>4. Cardinality(U \cap Block(i, k)) = 0
  BY <1>2
<1>. QED BY <1>1, <1>2, <1>3, <1>4

\* And leaves them.
LEMMA Leaves ==
  ASSUME NEW U, IsFiniteSet(U), NEW i, NEW k \in Nat, Block(i, k) \subseteq U
  PROVE  /\ IsFiniteSet(U \ Block(i, k))
         /\ Cardinality(U \ Block(i, k)) = Cardinality(U) - k
<1>1. IsFiniteSet(U \ Block(i, k))
  BY FS_Subset
<1>2. (U \ Block(i, k)) \cap Block(i, k) = {} /\ (U \ Block(i, k)) \cup Block(i, k) = U
  OBVIOUS
<1>3. Cardinality(U) = Cardinality(U \ Block(i, k)) + k
  BY <1>1, <1>2, Joins
<1>. QED BY <1>1, <1>3, FS_CardinalityType

LEMMA InUnits ==
  ASSUME NEW q, NEW s, NEW u
  PROVE  u \in Units(q, s) <=>
           \E i \in DOMAIN q : q[i].status = s /\ u \in Block(i, q[i].cost)
BY DEF Units, Block

LEMMA InBlock ==
  ASSUME NEW i, NEW k, NEW u, u \in Block(i, k)
  PROVE  u[1] = i /\ \A j, l : u \in Block(j, l) => j = i
BY DEF Block

\* What appending a reservation does to the sums.
LEMMA PushUnits ==
  ASSUME UsageAssumption, NEW q \in Seq(Reservation), NEW r \in Reservation,
         NEW s \in Statuses, IsFiniteSet(Units(q, s))
  PROVE  /\ IsFiniteSet(Units(Append(q, r), s))
         /\ Cardinality(Units(Append(q, r), s)) =
              Cardinality(Units(q, s)) + IF r.status = s THEN r.cost ELSE 0
<1>. DEFINE n == Len(q) + 1
            p == Append(q, r)
<1>1. /\ DOMAIN p = DOMAIN q \cup {n} /\ n \notin DOMAIN q
      /\ p[n] = r
      /\ \A i \in DOMAIN q : p[i] = q[i]
  OBVIOUS
<1>2. r.cost \in Nat
  BY DEF Reservation, UsageAssumption
<1>. HIDE DEF n, p
<1>3. CASE r.status = s
  <2>1. \A u : u \in Units(p, s) <=> u \in Units(q, s) \cup Block(n, r.cost)
    <3>1. TAKE u
    <3>. QED BY <1>1, <1>3, InUnits
  <2>2. Units(p, s) = Units(q, s) \cup Block(n, r.cost)
    BY <2>1
  <2>3. \A u \in Units(q, s) : u \notin Block(n, r.cost)
    BY <1>1, InUnits, InBlock
  <2>4. Units(q, s) \cap Block(n, r.cost) = {}
    BY <2>3
  <2>. QED BY <1>2, <1>3, <2>2, <2>4, Joins DEF p
<1>4. CASE r.status # s
  <2>1. \A u : u \in Units(p, s) <=> u \in Units(q, s)
    <3>1. TAKE u
    <3>. QED BY <1>1, <1>4, InUnits
  <2>2. Units(p, s) = Units(q, s)
    BY <2>1
  <2>. QED BY <1>4, <2>2, FS_CardinalityType DEF p
<1>. QED BY <1>3, <1>4

\* What moving one to another status does to them.
LEMMA MarkUnits ==
  ASSUME UsageAssumption, NEW q \in Seq(Reservation), NEW i \in DOMAIN q,
         NEW new \in Statuses, q[i].status # new,
         NEW s \in Statuses, IsFiniteSet(Units(q, s))
  PROVE  LET p == [q EXCEPT ![i].status = new]
         IN  /\ IsFiniteSet(Units(p, s))
             /\ Cardinality(Units(p, s)) =
                  CASE s = new         -> Cardinality(Units(q, s)) + q[i].cost
                    [] s = q[i].status -> Cardinality(Units(q, s)) - q[i].cost
                    [] OTHER           -> Cardinality(Units(q, s))
<1>. DEFINE p == [q EXCEPT ![i].status = new]
            k == q[i].cost
<1>0. q[i] \in Reservation
  OBVIOUS
<1>1. /\ DOMAIN p = DOMAIN q
      /\ p[i].status = new /\ p[i].cost = k
      /\ \A j \in DOMAIN q : j # i => p[j] = q[j]
  BY <1>0 DEF Reservation
<1>2. k \in Nat
  BY <1>0 DEF Reservation, UsageAssumption
<1>. DEFINE Sums == /\ IsFiniteSet(Units(p, s))
                    /\ Cardinality(Units(p, s)) =
                         CASE s = new         -> Cardinality(Units(q, s)) + k
                           [] s = q[i].status -> Cardinality(Units(q, s)) - k
                           [] OTHER           -> Cardinality(Units(q, s))
<1>. HIDE DEF p, k
<1>3. ASSUME s = new
      PROVE  Sums
  <2>1. \A u : u \in Units(p, s) <=> u \in Units(q, s) \cup Block(i, k)
    <3>1. TAKE u
    <3>. QED BY <1>1, <1>3, InUnits
  <2>2. Units(p, s) = Units(q, s) \cup Block(i, k)
    BY <2>1
  <2>3. \A u \in Units(q, s) : u \notin Block(i, k)
    BY <1>3, InUnits, InBlock
  <2>4. Units(q, s) \cap Block(i, k) = {}
    BY <2>3
  <2>5. /\ IsFiniteSet(Units(q, s) \cup Block(i, k))
        /\ Cardinality(Units(q, s) \cup Block(i, k)) = Cardinality(Units(q, s)) + k
    BY <1>2, <2>4, Joins
  <2>. QED BY <1>3, <2>2, <2>5
<1>4. ASSUME s # new /\ s = q[i].status
      PROVE  Sums
  <2>1. \A u : u \in Units(p, s) <=> u \in Units(q, s) \ Block(i, k)
    <3>. TAKE u
    <3>1. u \in Units(p, s) <=> \E j \in DOMAIN q \ {i} : q[j].status = s /\ u \in Block(j, q[j].cost)
      BY <1>1, <1>4, InUnits
    <3>2. u \in Units(q, s) <=> \E j \in DOMAIN q : q[j].status = s /\ u \in Block(j, q[j].cost)
      BY InUnits
    <3>3. \A j \in DOMAIN q \ {i} : u \in Block(j, q[j].cost) => u \notin Block(i, k)
      BY InBlock
    <3>. QED BY <3>1, <3>2, <3>3, <1>4 DEF k
  <2>2. Units(p, s) = Units(q, s) \ Block(i, k)
    BY <2>1
  <2>3. \A u \in Block(i, k) : u \in Units(q, s)
    BY <1>4, InUnits DEF k
  <2>4. Block(i, k) \subseteq Units(q, s)
    BY <2>3
  <2>5. /\ IsFiniteSet(Units(q, s) \ Block(i, k))
        /\ Cardinality(Units(q, s) \ Block(i, k)) = Cardinality(Units(q, s)) - k
    BY <1>2, <2>4, Leaves
  <2>. QED BY <1>4, <2>2, <2>5
<1>5. ASSUME s # new /\ s # q[i].status
      PROVE  Sums
  <2>1. \A u : u \in Units(p, s) <=> u \in Units(q, s)
    <3>1. TAKE u
    <3>. QED BY <1>1, <1>5, InUnits
  <2>2. Units(p, s) = Units(q, s)
    BY <2>1
  <2>. QED BY <1>5, <2>2
<1>. QED BY <1>3, <1>4, <1>5 DEF p, k

\* The same of the windows: Mark moves the cost of a reservation from its status
\* to the new one, in its window.
LEMMA MarkCosts ==
  ASSUME TypeOK, Countable, NEW w \in Windows, NEW i \in DOMAIN reservations[w],
         NEW new \in Statuses, Mark(w, i, new), reservations[w][i].status # new,
         NEW k, k = reservations[w][i].cost
  PROVE  /\ Countable'
         /\ \A x \in Windows : x # w => \A s \in Statuses : Cost(x, s)' = Cost(x, s)
         /\ \A s \in Statuses :
              Cost(w, s)' = CASE s = new                       -> Cost(w, s) + k
                              [] s = reservations[w][i].status -> Cost(w, s) - k
                              [] OTHER                         -> Cost(w, s)
<1>1. reservations'[w] = [reservations[w] EXCEPT ![i].status = new]
  BY DEF Mark, TypeOK
<1>2. \A x \in Windows : x # w => reservations'[x] = reservations[x]
  BY DEF Mark, TypeOK
<1>3. reservations[w] \in Seq(Reservation)
  BY DEF TypeOK
<1>4. \A x \in Windows : \A s \in Statuses : IsFiniteSet(Units(reservations[x], s))
  BY DEF Countable, Statuses
<1>5. ASSUME NEW s \in Statuses
      PROVE  /\ IsFiniteSet(Units(reservations'[w], s))
             /\ Cost(w, s)' = CASE s = new                       -> Cost(w, s) + k
                                [] s = reservations[w][i].status -> Cost(w, s) - k
                                [] OTHER                         -> Cost(w, s)
  BY <1>1, <1>3, <1>4, MarkUnits, UsageAssumption DEF Cost
<1>6. \A x \in Windows : \A s \in Statuses : IsFiniteSet(Units(reservations'[x], s))
  BY <1>2, <1>4, <1>5
<1>. QED BY <1>2, <1>5, <1>6 DEF Cost, Countable, Statuses

\* And what a caller releases costs what it returns.
LEMMA CostKnownStep ==
  ASSUME TypeOK, OneReservation, Releasing, CostKnown, [Next]_vars
  PROVE  CostKnown'
<1>moves. /\ \A w \in Windows : Moves(w)
          /\ \A c \in Callers : ask[c].window \in Windows
  BY StepMoves DEF TypeOK, Asks
<1>. DEFINE Ok(c) == phase'[c] \in {"release", "releaseUsed"} =>
                       \A i \in At(ask[c].window, ask[c].charge)' :
                         reservations'[ask'[c].window][i].cost = ask'[c].cost
\* A caller in applyRelease that stays there: its charge is in the ledger already.
<1>stay. ASSUME NEW c \in Callers, ask'[c] = ask[c], phase[c] \in {"release", "releaseUsed"},
                At(ask[c].window, ask[c].charge) # {}
         PROVE  Ok(c)
  <2>. DEFINE w == ask[c].window
  <2>1. \A i \in DOMAIN reservations'[w] :
          reservations'[w][i].charge = ask[c].charge => i \in DOMAIN reservations[w]
    BY <1>moves, <1>stay DEF Moves, At
  <2>2. \A i \in At(w, ask[c].charge) : reservations[w][i].cost = ask[c].cost
    BY <1>stay DEF CostKnown
  <2>. QED BY <1>moves, <1>stay, <2>1, <2>2 DEF Moves, At
\* A caller that enters it: the charge has no other reservation.
<1>enter. ASSUME NEW c \in Callers, NEW w \in Windows, NEW i \in DOMAIN reservations[w],
                 reservations' = reservations,
                 ask'[c].window = w, ask'[c].charge = reservations[w][i].charge,
                 ask'[c].cost = reservations[w][i].cost
          PROVE  Ok(c)
  BY <1>enter DEF OneReservation, At
<1>1. ASSUME NEW c \in Callers, NEW w \in Windows, NEW i \in DOMAIN reservations[w],
             Release(c, w, i)
      PROVE  Ok(c)
  <2>1. /\ ask'[c].window = w /\ ask'[c].charge = reservations[w][i].charge
        /\ ask'[c].cost = reservations[w][i].cost /\ reservations' = reservations
    BY <1>1 DEF Release, document, TypeOK, Asks
  <2>. QED BY <2>1, <1>enter
<1>2. ASSUME NEW c \in Callers, NEW w \in Windows, RefundNext(c, w)
      PROVE  Ok(c)
  <2>1. PICK i \in DOMAIN reservations[w] :
          ask' = [ask EXCEPT ![c].charge = reservations[w][i].charge, ![c].cost = reservations[w][i].cost]
    BY <1>2 DEF RefundNext
  <2>2. /\ ask'[c].window = w /\ ask'[c].charge = reservations[w][i].charge
        /\ ask'[c].cost = reservations[w][i].cost /\ reservations' = reservations
    BY <1>2, <2>1 DEF RefundNext, document, TypeOK, Asks
  <2>. QED BY <2>2, <1>enter
<1>3. ASSUME NEW c \in Callers, ReleaseReserved(c) \/ ReleaseUsed(c)
      PROVE  Ok(c)
  <2>1. ask' = ask /\ phase[c] \in {"release", "releaseUsed"}
    BY <1>3 DEF ReleaseReserved, ReleaseUsed
  <2>. QED BY <2>1, <1>stay DEF Releasing
<1>4. ASSUME NEW c \in Callers, ask'[c] = ask[c], phase'[c] = phase[c]
      PROVE  Ok(c)
  BY <1>4, <1>stay DEF Releasing
<1>. QED BY <1>1, <1>2, <1>3, <1>4, Movers DEF CostKnown

\* Three counters of a window against the three sums, when one cost moves from the
\* status it was counted under to another.
LEMMA CountersFollow ==
  ASSUME TypeOK, Countable, CountersAgree,
         NEW w \in Windows, NEW i \in DOMAIN reservations[w], NEW new \in {"USED", "RELEASED"},
         Mark(w, i, new), NEW k \in Int, k = reservations[w][i].cost,
         \/ /\ reservations[w][i].status = "RESERVED" /\ new = "USED"
            /\ reserved' = [reserved EXCEPT ![w] = @ - k]
            /\ used' = [used EXCEPT ![w] = @ + k]
            /\ released' = released
         \/ /\ reservations[w][i].status = "RESERVED" /\ new = "RELEASED"
            /\ reserved' = [reserved EXCEPT ![w] = @ - k]
            /\ released' = [released EXCEPT ![w] = @ + k]
            /\ used' = used
         \/ /\ reservations[w][i].status = "USED" /\ new = "RELEASED"
            /\ used' = [used EXCEPT ![w] = @ - k]
            /\ released' = [released EXCEPT ![w] = @ + k]
            /\ reserved' = reserved
  PROVE  Countable' /\ CountersAgree'
<1>1. reservations[w][i].status # new
  OBVIOUS
<1>2. /\ Countable'
      /\ \A x \in Windows : x # w => \A s \in Statuses : Cost(x, s)' = Cost(x, s)
      /\ \A s \in Statuses :
           Cost(w, s)' = CASE s = new                       -> Cost(w, s) + k
                           [] s = reservations[w][i].status -> Cost(w, s) - k
                           [] OTHER                         -> Cost(w, s)
  BY <1>1, MarkCosts DEF Statuses
<1>3. \A x \in Windows : x # w =>
        reserved'[x] = reserved[x] /\ used'[x] = used[x] /\ released'[x] = released[x]
  BY DEF TypeOK
<1>4. ASSUME NEW x \in Windows, x # w
      PROVE  /\ reserved'[x] = Cost(x, "RESERVED")'
             /\ used'[x] = Cost(x, "USED")'
             /\ released'[x] = Cost(x, "RELEASED")'
  BY <1>2, <1>3, <1>4 DEF CountersAgree, Statuses
<1>5. /\ reserved'[w] = Cost(w, "RESERVED")'
      /\ used'[w] = Cost(w, "USED")'
      /\ released'[w] = Cost(w, "RELEASED")'
  <2>1. reserved[w] = Cost(w, "RESERVED") /\ used[w] = Cost(w, "USED") /\ released[w] = Cost(w, "RELEASED")
    BY DEF CountersAgree
  <2>2. w \in DOMAIN reserved /\ w \in DOMAIN used /\ w \in DOMAIN released
    BY DEF TypeOK
  <2>. QED BY <1>2, <2>1, <2>2 DEF Statuses
<1>. QED BY <1>2, <1>4, <1>5 DEF CountersAgree

LEMMA CountersStep ==
  ASSUME CountsInv, [Next]_vars
  PROVE  Countable' /\ CountersAgree'
<1>inv. TypeOK /\ Countable /\ CostKnown /\ CountersAgree
  BY DEF CountsInv, IInv
<1>types. /\ \A w \in Windows : \A i \in DOMAIN reservations[w] :
               reservations[w][i] \in Reservation /\ reservations[w][i].cost \in Int
          /\ \A c \in Callers : ask[c].window \in Windows /\ ask[c].charge \in Charges
                                 /\ ask[c].cost \in Costs /\ ask[c].cost \in Int
  <2>1. Costs \subseteq Int
    BY UsageAssumption
  <2>2. \A w \in Windows : \A i \in DOMAIN reservations[w] :
          reservations[w][i] \in Reservation /\ reservations[w][i].cost \in Costs
    BY <1>inv, Entries
  <2>3. \A c \in Callers : ask[c] \in Asks
    BY <1>inv DEF TypeOK
  <2>. QED BY <2>1, <2>2, <2>3 DEF Asks
<1>quiet. ASSUME UNCHANGED <<reserved, used, released, reservations>>
          PROVE  Countable' /\ CountersAgree'
  BY <1>inv, <1>quiet DEF Countable, CountersAgree, Cost
<1>1. ASSUME NEW c \in Callers, Grant(c)
      PROVE  Countable' /\ CountersAgree'
  <2>0. PICK w \in Windows : w = ask[c].window
    BY <1>types
  <2>. DEFINE r == [charge |-> ask[c].charge, cost |-> ask[c].cost, status |-> "RESERVED"]
  <2>1. r \in Reservation /\ r.cost \in Int /\ r.status = "RESERVED"
    BY <1>types DEF Reservation
  <2>2. /\ reservations' = [reservations EXCEPT ![w] = Append(@, r)]
        /\ reserved' = [reserved EXCEPT ![w] = @ + r.cost]
        /\ used' = used /\ released' = released
    BY <1>1, <2>0 DEF Grant
  <2>. HIDE DEF r
  <2>3. /\ reservations'[w] = Append(reservations[w], r) /\ reserved'[w] = reserved[w] + r.cost
        /\ \A x \in Windows : x # w => reservations'[x] = reservations[x] /\ reserved'[x] = reserved[x]
        /\ reservations[w] \in Seq(Reservation)
    BY <1>inv, <2>1, <2>2 DEF TypeOK
  <2>4. \A s \in Statuses :
          /\ IsFiniteSet(Units(reservations'[w], s))
          /\ Cost(w, s)' = Cost(w, s) + IF r.status = s THEN r.cost ELSE 0
    <3>1. TAKE s \in Statuses
    <3>2. IsFiniteSet(Units(reservations[w], s))
      BY <1>inv, <2>1 DEF Countable, Statuses
    <3>3. /\ IsFiniteSet(Units(Append(reservations[w], r), s))
          /\ Cardinality(Units(Append(reservations[w], r), s)) =
               Cardinality(Units(reservations[w], s)) + IF r.status = s THEN r.cost ELSE 0
      BY <2>1, <2>3, <3>2, PushUnits, UsageAssumption
    <3>. QED BY <2>3, <3>3 DEF Cost
  <2>5. Cost(w, "USED") \in Int /\ Cost(w, "RELEASED") \in Int
    BY <1>inv, <2>1 DEF CountersAgree, TypeOK
  <2>6. Countable'
    BY <1>inv, <2>3, <2>4 DEF Countable, Statuses
  <2>7. \A x \in Windows : x # w => \A s : Cost(x, s)' = Cost(x, s)
    BY <2>3 DEF Cost
  <2>8. /\ reserved'[w] = Cost(w, "RESERVED")'
        /\ used'[w] = Cost(w, "USED")'
        /\ released'[w] = Cost(w, "RELEASED")'
    BY <1>inv, <2>1, <2>2, <2>3, <2>4, <2>5 DEF CountersAgree, Statuses
  <2>9. \A x \in Windows : x # w => /\ reserved'[x] = Cost(x, "RESERVED")'
                                    /\ used'[x] = Cost(x, "USED")'
                                    /\ released'[x] = Cost(x, "RELEASED")'
    BY <1>inv, <2>2, <2>3, <2>7 DEF CountersAgree
  <2>. QED BY <2>6, <2>8, <2>9 DEF CountersAgree
<1>2. ASSUME NEW w \in Windows, NEW i \in DOMAIN reservations[w], Consume(w, i) \/ ReleaseSnapshot(w, i)
      PROVE  Countable' /\ CountersAgree'
  BY <1>inv, <1>types, <1>2, CountersFollow DEF Consume, Consumable, ReleaseSnapshot
<1>3. ASSUME NEW c \in Callers, ReleaseReserved(c) \/ ReleaseUsed(c)
      PROVE  Countable' /\ CountersAgree'
  <2>1. PICK w \in Windows, k \in Int : w = ask[c].window /\ k = ask[c].cost
    BY <1>types
  <2>2. \A i \in At(w, ask[c].charge) : i \in DOMAIN reservations[w] /\ k = reservations[w][i].cost
    BY <1>inv, <1>3, <2>1 DEF CostKnown, At, ReleaseReserved, ReleaseUsed
  <2>3. CASE UNCHANGED document
    BY <2>3, <1>quiet DEF document
  <2>4. ASSUME ReleaseReserved(c), NEW i \in In(w, ask[c].charge, "RESERVED"), Mark(w, i, "RELEASED"),
               reserved' = [reserved EXCEPT ![w] = @ - k],
               released' = [released EXCEPT ![w] = @ + k], used' = used
        PROVE  Countable' /\ CountersAgree'
    <3>1. i \in DOMAIN reservations[w] /\ k = reservations[w][i].cost /\ reservations[w][i].status = "RESERVED"
      BY <2>2, <2>4 DEF In
    <3>. QED BY <1>inv, <2>1, <2>4, <3>1, CountersFollow
  <2>5. ASSUME ReleaseUsed(c), NEW i \in In(w, ask[c].charge, "USED"), Mark(w, i, "RELEASED"),
               used' = [used EXCEPT ![w] = @ - k],
               released' = [released EXCEPT ![w] = @ + k], reserved' = reserved
        PROVE  Countable' /\ CountersAgree'
    <3>1. i \in DOMAIN reservations[w] /\ k = reservations[w][i].cost /\ reservations[w][i].status = "USED"
      BY <2>2, <2>5 DEF In
    <3>. QED BY <1>inv, <2>1, <2>5, <3>1, CountersFollow
  <2>. QED BY <1>3, <2>1, <2>3, <2>4, <2>5 DEF ReleaseReserved, ReleaseUsed, FirstMatch, SecondMatch
<1>4. ASSUME NEW c \in Callers,
             Upsert(c) \/ Refuse(c) \/ Lookup(c) \/ Return(c) \/ Refundable(c) \/ Crash(c)
      PROVE  UNCHANGED <<reserved, used, released, reservations>>
  BY <1>4 DEF Upsert, Refuse, Lookup, Return, Refundable, Crash, document
<1>5. ASSUME NEW c \in Callers, NEW w \in Windows,
             \/ \E charge \in Charges, l \in Limits, k \in Costs : Reserve(c, w, charge, l, k)
             \/ \E i \in DOMAIN reservations[w] : Release(c, w, i)
             \/ Status(c, w)
             \/ RefundNext(c, w)
      PROVE  UNCHANGED <<reserved, used, released, reservations>>
  BY <1>5 DEF Reserve, Release, Status, RefundNext, document
<1>6. ASSUME NEW v \in Verifications, TurnTerminal(v) \/ Retried(v)
      PROVE  UNCHANGED <<reserved, used, released, reservations>>
  BY <1>6 DEF TurnTerminal, Retried, document
<1>7. CASE UNCHANGED vars
  BY <1>7, <1>quiet DEF vars, document
<1>. QED BY <1>1, <1>2, <1>3, <1>4, <1>5, <1>6, <1>7, <1>quiet DEF Next, Step

\* The counters are the sums of the reservations, in every window, for any costs and
\* any number of callers: no release or refund returns a cost twice, or to another
\* counter than the one it was taken from.
THEOREM CountersAreKept == Spec => []CountersAgree
<1>1. Init => Countable /\ CostKnown /\ CountersAgree
  <2>1. ASSUME NEW s PROVE Units(<<>>, s) = {}
    BY DEF Units
  <2>2. IsFiniteSet({}) /\ Cardinality({}) = 0
    BY FS_EmptySet
  <2>3. ASSUME Init
        PROVE  \A w \in Windows : \A s : Units(reservations[w], s) = {} /\ Cost(w, s) = 0
    BY <2>1, <2>2, <2>3 DEF Init, Cost
  <2>4. Init => Countable /\ CountersAgree
    BY ZenonT(60), <2>2, <2>3 DEF Init, Countable, CountersAgree
  <2>. QED BY <2>4 DEF Init, CostKnown
<1>2. Init => CountsInv
  BY <1>1, NoAskType DEF CountsInv, Init, IInv, TypeOK, Phases, LimitKnown, WithinLimit,
                         OneReservation, Releasing, ReleaseWins
<1>3. CountsInv /\ [Next]_vars => CountsInv'
  BY CountersStep, CostKnownStep, TypeInvariant, WithinLimitStep, OneReservationStep, ReleasingStep
     DEF CountsInv, IInv
<1>4. CountsInv => CountersAgree
  BY DEF CountsInv
<1>. QED BY <1>2, <1>3, <1>4, PTL DEF Spec
====
